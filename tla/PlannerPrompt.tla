---------------------------- MODULE PlannerPrompt ----------------------------
(***************************************************************************)
(* What the system prompt teaches the model (sysknife-brain prompt.rs):    *)
(* the actions of a distribution with the risk to state for each, the      *)
(* parameters of each, and the worked examples.  The prose around them is  *)
(* left out, and so are the optional parameters.                           *)
(***************************************************************************)
EXTENDS ActionTables
LOCAL INSTANCE TLC

Told(risk, S) == [a \in S |-> risk]

-----------------------------------------------------------------------------
(* The risk tables.                                                        *)

CROSS_DISTRO_RISK_TABLES ==
    Told(Low, {"GetSystemState", "CollectDiagnostics", "ListServices",
               "GetServiceLogs", "GetServiceStatus", "ListTimers",
               "GetNetworkStatus", "GetDiskUsage", "GetDateTime",
               "ListProcesses", "GetMemoryInfo", "GetAuthorizedKeys",
               "ListPackageRepositories", "ListContainers", "GetContainerInfo",
               "ListUsers", "ListGroups", "ListJobHistory", "ResolvectlStatus"})
    @@ Told(Medium, {"ResolvectlSetDns"})

CROSS_DISTRO_RISK_RULES ==
    Told(Medium, {"StartService", "StopService", "RestartService",
                  "ReloadService", "ReloadDaemon", "SetServiceEnabled",
                  "MaskService", "UnmaskService", "ConfigureWifi",
                  "SetDnsServers", "SetHostname", "SetTimezone", "SetLocale",
                  "SetNtp", "AddPackageRepository", "RemovePackageRepository",
                  "EnablePackageRepository", "DisablePackageRepository",
                  "CreateContainer", "StartContainer", "StopContainer",
                  "RemoveContainer", "CreateUser"})
    @@ Told(High, {"RebootSystem", "AddUserToGroup", "RemoveUserFromGroup",
                   "DeleteUser", "AddAuthorizedKey", "RemoveAuthorizedKey"})

FEDORA_RISK_TABLES ==
    Told(Low, {"GetDeploymentHistory", "ListDeployments",
               "GetKernelArguments", "GetPendingUpdates", "GetLayeredPackages",
               "ListToolboxes", "ListInstalledFlatpaks", "SearchFlatpakApps",
               "ListFlatpakRemotes", "GetFlatpakAppInfo", "GetFirewallState"})
    @@ Told(Medium, {"CreateToolbox", "RemoveToolbox", "InstallFlatpak",
                     "RemoveFlatpak", "UpdateFlatpak", "AddFlatpakRemote",
                     "RemoveFlatpakRemote", "ConfigureFirewall"})
    @@ Told(High, {"UpdateSystem", "PinDeployment", "UnpinDeployment",
                   "RebaseSystem", "CleanupDeployments", "RollbackDeployment",
                   "SetKernelArguments", "InstallPackages", "RemovePackages",
                   "AddLayeredPackage", "RemoveLayeredPackage",
                   "ReplaceLayeredPackage", "ResetLayeredPackageOverride",
                   "RemoveBasePackage"})

DEBIAN_RISK_TABLES ==
    Told(Low, {"AptUpdate", "AptSearch", "AptListInstalled", "AptShow",
               "AptAutoremove", "AptListUpgradable", "AptHistoryList",
               "CheckPendingReboot", "SnapList", "SnapInfo", "UfwStatus",
               "NetplanGetConfig", "GrubGetKargs", "DistroboxList",
               "AppArmorStatus", "CloudInitStatus", "UbuntuListFlatpaks",
               "Fail2banStatus", "ProStatus", "LivepatchStatus",
               "MultipassList"})
    @@ Told(Medium, {"AptInstall", "AptRemove", "AptPurge", "AptHold",
                     "AptUnhold", "SnapInstall", "SnapRemove", "SnapRefresh",
                     "SnapHold", "SnapUnhold", "SnapRevert",
                     "SnapClassicInstall", "AddPpa", "RemovePpa",
                     "DistroboxCreate", "DistroboxRemove", "AppArmorComplain",
                     "UbuntuInstallFlatpak", "UbuntuRemoveFlatpak",
                     "UbuntuUpdateFlatpak", "Fail2banUnbanIp",
                     "NetplanGenerate"})
    @@ Told(High, {"AptUpgrade", "GrubSetKargs", "UfwEnable", "UfwDisable",
                   "UfwAllow", "UfwDeny", "UfwReset", "UfwDeleteRule",
                   "UfwLimit", "NetplanApply", "NetplanSet", "AppArmorEnforce",
                   "Fail2banBanIp", "ProAttach", "ProDetach",
                   "UbuntuReleaseUpgrade"})

\* The rules and the reminders after the tables, where they repeat a risk.
FEDORA_SELECTION_RULES ==
    Told(Low, {"GetFirewallState", "GetLayeredPackages"})
    @@ Told(Medium, {"ConfigureFirewall"}) @@ Told(High, {"UpdateSystem"})

DEBIAN_SELECTION_RULES ==
    Told(Low, {"AptUpdate", "AptAutoremove", "AptListUpgradable", "AptHistoryList",
               "CheckPendingReboot", "GrubGetKargs", "ProStatus",
               "LivepatchStatus", "MultipassList", "AppArmorStatus",
               "CloudInitStatus", "UbuntuListFlatpaks", "Fail2banStatus"})
    @@ Told(Medium, {"AptInstall", "AddPpa", "RemovePpa", "SnapRevert",
                     "SnapClassicInstall", "NetplanGenerate",
                     "DistroboxCreate", "AppArmorComplain",
                     "UbuntuInstallFlatpak", "UbuntuRemoveFlatpak",
                     "UbuntuUpdateFlatpak", "Fail2banUnbanIp"})
    @@ Told(High, {"AptUpgrade", "GrubSetKargs", "UfwAllow", "UfwDeny",
                   "UfwEnable", "UfwDisable", "UfwDeleteRule", "UfwLimit",
                   "NetplanSet", "NetplanApply", "ProAttach", "ProDetach",
                   "UbuntuReleaseUpgrade", "AppArmorEnforce", "Fail2banBanIp"})

DEBIAN_COUNTERINTUITIVE ==
    Told(Low, {"AptAutoremove", "AptUpdate", "AptListUpgradable", "AptHistoryList",
               "CheckPendingReboot", "GrubGetKargs", "AppArmorStatus",
               "CloudInitStatus", "Fail2banStatus", "UbuntuListFlatpaks"})
    @@ Told(Medium, {"AptInstall", "AddPpa", "RemovePpa", "SnapRevert",
                     "SnapClassicInstall", "DistroboxCreate", "AppArmorComplain",
                     "Fail2banUnbanIp", "UbuntuInstallFlatpak",
                     "UbuntuRemoveFlatpak", "UbuntuUpdateFlatpak"})
    @@ Told(High, {"GrubSetKargs", "UfwAllow", "UfwDeny", "UfwEnable",
                   "UfwDisable", "NetplanApply", "AptUpgrade",
                   "AppArmorEnforce", "Fail2banBanIp"})

GENERIC_PROMPT == {CROSS_DISTRO_RISK_TABLES, CROSS_DISTRO_RISK_RULES}
FEDORA_PROMPT == {FEDORA_RISK_TABLES, FEDORA_SELECTION_RULES}
DEBIAN_PROMPT == {DEBIAN_RISK_TABLES, DEBIAN_SELECTION_RULES, DEBIAN_COUNTERINTUITIVE}

\* Mutant of PromptTables: one prompt for both families.
PromptTablesOfBoth(family) ==
    GENERIC_PROMPT
    \union IF family \in {"fedora", "debian"} THEN {FEDORA_RISK_TABLES, DEBIAN_RISK_TABLES} ELSE {}

\* build_system_prompt: the statements of risk in one of the three prompts.
PromptTables(family) ==
    GENERIC_PROMPT
    \union IF family = "fedora" THEN FEDORA_PROMPT
           ELSE IF family = "debian" THEN DEBIAN_PROMPT ELSE {}

-----------------------------------------------------------------------------
(* The parameter reference; what it does not name has no parameters.       *)

CROSS_DISTRO_PARAMS ==
    Needs({"enabled"}, {"SetNtp"})
    @@ Needs({"hostname"}, {"SetHostname"})
    @@ Needs({"locale"}, {"SetLocale"})
    @@ Needs({"repo_id"}, {"RemovePackageRepository",
                           "EnablePackageRepository",
                           "DisablePackageRepository"})
    @@ Needs({"timezone"}, {"SetTimezone"})
    @@ Needs({"unit"}, {"StartService", "StopService", "RestartService",
                        "ReloadService", "MaskService", "UnmaskService",
                        "GetServiceLogs", "GetServiceStatus"})
    @@ Needs({"username"}, {"ListContainers", "CreateUser", "DeleteUser",
                            "GetAuthorizedKeys"})
    @@ Needs({"interface", "servers"}, {"SetDnsServers", "ResolvectlSetDns"})
    @@ Needs({"repo_id", "repo_url"}, {"AddPackageRepository"})
    @@ Needs({"ssid", "password"}, {"ConfigureWifi"})
    @@ Needs({"unit", "enabled"}, {"SetServiceEnabled"})
    @@ Needs({"username", "group"}, {"AddUserToGroup", "RemoveUserFromGroup"})
    @@ Needs({"username", "name"}, {"StartContainer", "StopContainer",
                                    "RemoveContainer", "GetContainerInfo"})
    @@ Needs({"username", "public_key"}, {"AddAuthorizedKey",
                                          "RemoveAuthorizedKey"})
    @@ Needs({"username", "name", "image"}, {"CreateContainer"})

FEDORA_PARAMS ==
    Needs({"index"}, {"PinDeployment", "UnpinDeployment"})
    @@ Needs({"package"}, {"AddLayeredPackage", "RemoveLayeredPackage",
                           "RemoveBasePackage"})
    @@ Needs({"packages"}, {"InstallPackages", "RemovePackages"})
    @@ Needs({"target_ref"}, {"RebaseSystem"})
    @@ Needs({"term"}, {"SearchFlatpakApps"})
    @@ Needs({"username"}, {"UpdateFlatpak", "ListInstalledFlatpaks",
                            "ListFlatpakRemotes", "ListToolboxes"})
    @@ Needs({"add", "remove"}, {"SetKernelArguments"})
    @@ Needs({"old", "new"}, {"ReplaceLayeredPackage"})
    @@ Needs({"username", "app_id"}, {"RemoveFlatpak", "GetFlatpakAppInfo"})
    @@ Needs({"username", "name"}, {"CreateToolbox", "RemoveToolbox"})
    @@ Needs({"username", "remote"}, {"RemoveFlatpakRemote"})
    @@ Needs({"username", "app_id", "remote"}, {"InstallFlatpak"})
    @@ Needs({"username", "remote", "url"}, {"AddFlatpakRemote"})
    @@ Needs({"zone", "service", "enabled"}, {"ConfigureFirewall"})

DEBIAN_PARAMS ==
    Needs({"name"}, {"AddPpa", "RemovePpa", "SnapInstall", "SnapRemove",
                     "SnapRefresh", "SnapHold", "SnapUnhold", "SnapRevert",
                     "SnapClassicInstall", "SnapInfo", "DistroboxRemove"})
    @@ Needs({"package"}, {"AptInstall", "AptRemove", "AptPurge", "AptHold",
                           "AptUnhold", "AptSearch", "AptShow"})
    @@ Needs({"port_or_service"}, {"UfwAllow", "UfwDeny"})
    @@ Needs({"profile_path"}, {"AppArmorEnforce", "AppArmorComplain"})
    @@ Needs({"rule_number"}, {"UfwDeleteRule"})
    @@ Needs({"target"}, {"UfwLimit"})
    @@ Needs({"token"}, {"ProAttach"})
    @@ Needs({"username"}, {"UbuntuUpdateFlatpak", "UbuntuListFlatpaks"})
    @@ Needs({"append", "delete"}, {"GrubSetKargs"})
    @@ Needs({"jail", "ip"}, {"Fail2banBanIp", "Fail2banUnbanIp"})
    @@ Needs({"key", "value"}, {"NetplanSet"})
    @@ Needs({"name", "image"}, {"DistroboxCreate"})
    @@ Needs({"username", "app_id"}, {"UbuntuRemoveFlatpak"})
    @@ Needs({"username", "app_id", "remote"}, {"UbuntuInstallFlatpak"})

PromptParams == CROSS_DISTRO_PARAMS @@ FEDORA_PARAMS @@ DEBIAN_PARAMS

Book(a) == [action |-> a, params |-> IF a \in DOMAIN PromptParams THEN PromptParams[a] ELSE {}]

\* The plans of the worked examples, all said to be of low risk: A to D, and
\* then the overviews E and F.
EXAMPLES ==
    {Tool(a, {}) : a \in {"GetMemoryInfo", "ListProcesses", "ListContainers",
                          "ListToolboxes", "ListFlatpakRemotes", "ListServices"}}
    \union {Tool("GetContainerInfo", {"name"})}

STATUS_EXAMPLES ==
    {Tool("GetServiceStatus", {"unit"}), Tool("GetSystemState", {}), Tool("GetDateTime", {})}
=============================================================================
