---------------------------- MODULE ActionTables ----------------------------
(***************************************************************************)
(* What the rest of the program says of the catalogue's actions: who may   *)
(* run them (policy.rs), what the preview tells of them (preview.rs),      *)
(* which parameters the executor insists on (executor.rs), which names the *)
(* planner may propose (propose_plan.rs, sysknife-types), which the CLI    *)
(* routes by distribution, and which the planner's query tools reach.      *)
(***************************************************************************)
EXTENDS ActionCatalogue
LOCAL INSTANCE TLC

-----------------------------------------------------------------------------
(* policy.rs: min_role_for_action.                                         *)

ObserverActions ==
    {"GetSystemState", "CollectDiagnostics", "GetDeploymentHistory",
     "ListDeployments", "GetKernelArguments", "GetPendingUpdates",
     "ListFlatpakRemotes", "SearchFlatpakApps", "GetFlatpakAppInfo",
     "ListInstalledFlatpaks", "ListContainers", "GetContainerInfo",
     "GetLayeredPackages", "ListPackageRepositories", "ListServices",
     "GetServiceLogs", "GetServiceStatus", "ListTimers", "ListToolboxes",
     "GetFirewallState", "GetNetworkStatus", "GetDiskUsage", "GetDateTime",
     "ListProcesses", "GetMemoryInfo", "GetAuthorizedKeys", "ListUsers",
     "ListGroups", "ListJobHistory", "AptUpdate", "AptSearch",
     "AptListInstalled", "AptShow", "AptListUpgradable", "AptHistoryList",
     "SnapList", "SnapInfo", "UfwStatus", "DistroboxList",
     "NetplanGetConfig", "GrubGetKargs", "CheckPendingReboot",
     "ResolvectlStatus", "AppArmorStatus", "CloudInitStatus",
     "UbuntuListFlatpaks", "Fail2banStatus", "ProStatus", "LivepatchStatus",
     "MultipassList"}

DevActions ==
    {"InstallFlatpak", "RemoveFlatpak", "UpdateFlatpak", "AddFlatpakRemote",
     "RemoveFlatpakRemote", "CreateContainer", "StartContainer",
     "StopContainer", "RemoveContainer", "StartService", "StopService",
     "RestartService", "ReloadService", "ReloadDaemon", "SetServiceEnabled",
     "UnmaskService", "CreateToolbox", "RemoveToolbox", "SetHostname",
     "SetTimezone", "SetLocale", "SetNtp", "ConfigureWifi",
     "RemovePackageRepository", "EnablePackageRepository",
     "DisablePackageRepository", "AptAutoremove", "AptInstall", "AptRemove",
     "AptPurge", "AptHold", "AptUnhold", "SnapInstall", "SnapRemove",
     "SnapRefresh", "SnapHold", "SnapUnhold", "SnapRevert",
     "SnapClassicInstall", "DistroboxCreate", "DistroboxRemove", "AddPpa",
     "RemovePpa", "ResolvectlSetDns", "AppArmorComplain",
     "UbuntuInstallFlatpak", "UbuntuRemoveFlatpak", "UbuntuUpdateFlatpak",
     "Fail2banUnbanIp", "NetplanGenerate"}

AdminActions ==
    {"UpdateSystem", "PinDeployment", "UnpinDeployment", "RebaseSystem",
     "CleanupDeployments", "RebootSystem", "RollbackDeployment",
     "SetKernelArguments", "InstallPackages", "RemovePackages",
     "AddLayeredPackage", "RemoveLayeredPackage", "ReplaceLayeredPackage",
     "ResetLayeredPackageOverride", "RemoveBasePackage", "AddUserToGroup",
     "RemoveUserFromGroup", "DeleteUser", "AddAuthorizedKey",
     "RemoveAuthorizedKey", "CreateUser", "ConfigureFirewall", "MaskService",
     "AddPackageRepository", "SetDnsServers", "AptUpgrade", "UfwEnable",
     "UfwDisable", "UfwAllow", "UfwDeny", "UfwReset", "NetplanApply",
     "GrubSetKargs", "AppArmorEnforce", "Fail2banBanIp", "UfwDeleteRule",
     "UfwLimit", "NetplanSet", "ProAttach", "ProDetach",
     "UbuntuReleaseUpgrade"}

\* min_role_for_action: a name of no tier has no role.
PolicyNames == ObserverActions \union DevActions \union AdminActions
BaselineRole(a) ==
    IF a \in ObserverActions THEN Observer
    ELSE IF a \in DevActions THEN Dev ELSE Admin

\* role_for_risk_level: Low, Medium and High name the three roles in order.
RoleForRisk(risk) == risk

-----------------------------------------------------------------------------
(* sysknife-types: KNOWN_ACTION_NAMES, what ActionName::parse accepts.     *)

KnownGenericNames ==
    {"GetSystemState", "CollectDiagnostics", "GetDeploymentHistory",
     "ListDeployments", "UpdateSystem", "CleanupDeployments", "RebootSystem",
     "RollbackDeployment", "GetKernelArguments", "PinDeployment",
     "UnpinDeployment", "RebaseSystem", "SetKernelArguments",
     "InstallFlatpak", "RemoveFlatpak", "UpdateFlatpak", "SearchFlatpakApps",
     "ListFlatpakRemotes", "ListInstalledFlatpaks", "AddFlatpakRemote",
     "RemoveFlatpakRemote", "GetFlatpakAppInfo", "ListToolboxes",
     "CreateToolbox", "RemoveToolbox", "GetLayeredPackages",
     "ResetLayeredPackageOverride", "GetPendingUpdates", "InstallPackages",
     "RemovePackages", "AddLayeredPackage", "RemoveLayeredPackage",
     "ReplaceLayeredPackage", "RemoveBasePackage", "ListServices",
     "ListTimers", "ReloadDaemon", "StartService", "StopService",
     "RestartService", "ReloadService", "SetServiceEnabled", "MaskService",
     "UnmaskService", "GetServiceLogs", "GetServiceStatus",
     "GetFirewallState", "GetNetworkStatus", "ConfigureWifi",
     "SetDnsServers", "ConfigureFirewall", "GetDiskUsage", "ListProcesses",
     "GetMemoryInfo", "GetDateTime", "SetHostname", "SetTimezone",
     "SetLocale", "SetNtp", "ListPackageRepositories",
     "AddPackageRepository", "RemovePackageRepository",
     "EnablePackageRepository", "DisablePackageRepository", "ListContainers",
     "CreateContainer", "StartContainer", "StopContainer", "RemoveContainer",
     "GetContainerInfo", "ListUsers", "ListGroups", "CreateUser",
     "DeleteUser", "AddUserToGroup", "RemoveUserFromGroup",
     "GetAuthorizedKeys", "AddAuthorizedKey", "RemoveAuthorizedKey",
     "ListJobHistory"}

KnownUbuntuNames ==
    {"AptUpdate", "AptUpgrade", "AptInstall", "AptRemove", "AptPurge",
     "AptAutoremove", "AptHold", "AptUnhold", "AptSearch",
     "AptListInstalled", "AptShow", "AptListUpgradable", "AptHistoryList",
     "AddPpa", "RemovePpa", "SnapInstall", "SnapRemove", "SnapRefresh",
     "SnapHold", "SnapUnhold", "SnapList", "SnapInfo", "SnapRevert",
     "SnapClassicInstall", "UfwEnable", "UfwDisable", "UfwAllow", "UfwDeny",
     "UfwReset", "UfwStatus", "DistroboxList", "DistroboxCreate",
     "DistroboxRemove", "NetplanGetConfig", "NetplanApply", "NetplanSet",
     "NetplanGenerate", "GrubGetKargs", "GrubSetKargs", "CheckPendingReboot",
     "ResolvectlStatus", "ResolvectlSetDns", "AppArmorStatus",
     "AppArmorEnforce", "AppArmorComplain", "CloudInitStatus",
     "UbuntuInstallFlatpak", "UbuntuRemoveFlatpak", "UbuntuUpdateFlatpak",
     "UbuntuListFlatpaks", "Fail2banStatus", "Fail2banBanIp",
     "Fail2banUnbanIp", "UbuntuReleaseUpgrade", "ProStatus", "ProAttach",
     "ProDetach", "LivepatchStatus", "MultipassList", "UfwDeleteRule",
     "UfwLimit"}

KnownNames == KnownGenericNames \union KnownUbuntuNames

-----------------------------------------------------------------------------
(* propose_plan.rs: KNOWN_ACTIONS, the names the model is shown, in the    *)
(* table's order.                                                          *)

ProposedDeploymentAndFlatpak ==
    {"GetSystemState", "CollectDiagnostics", "GetDeploymentHistory",
     "ListDeployments", "UpdateSystem", "CleanupDeployments", "RebootSystem",
     "RollbackDeployment", "GetKernelArguments", "PinDeployment",
     "UnpinDeployment", "RebaseSystem", "SetKernelArguments",
     "InstallFlatpak", "RemoveFlatpak", "UpdateFlatpak", "SearchFlatpakApps",
     "ListFlatpakRemotes", "ListInstalledFlatpaks", "AddFlatpakRemote",
     "RemoveFlatpakRemote", "GetFlatpakAppInfo"}

ProposedToolboxToNetwork ==
    {"ListToolboxes", "CreateToolbox", "RemoveToolbox", "GetLayeredPackages",
     "ResetLayeredPackageOverride", "GetPendingUpdates", "InstallPackages",
     "RemovePackages", "AddLayeredPackage", "RemoveLayeredPackage",
     "ReplaceLayeredPackage", "RemoveBasePackage", "ListServices",
     "ListTimers", "ReloadDaemon", "StartService", "StopService",
     "RestartService", "ReloadService", "SetServiceEnabled", "MaskService",
     "UnmaskService", "GetServiceLogs", "GetServiceStatus",
     "GetFirewallState", "GetNetworkStatus", "ConfigureWifi",
     "SetDnsServers", "ConfigureFirewall"}

ProposedIdentityToSsh ==
    {"GetDiskUsage", "ListProcesses", "GetMemoryInfo", "GetDateTime",
     "SetHostname", "SetTimezone", "SetLocale", "SetNtp",
     "ListPackageRepositories", "AddPackageRepository",
     "RemovePackageRepository", "EnablePackageRepository",
     "DisablePackageRepository", "ListContainers", "CreateContainer",
     "StartContainer", "StopContainer", "RemoveContainer",
     "GetContainerInfo", "ListUsers", "ListGroups", "CreateUser",
     "DeleteUser", "AddUserToGroup", "RemoveUserFromGroup",
     "GetAuthorizedKeys", "AddAuthorizedKey", "RemoveAuthorizedKey",
     "ListJobHistory"}

ProposedAptSnapUfw ==
    {"AptUpdate", "AptUpgrade", "AptInstall", "AptRemove", "AptPurge",
     "AptAutoremove", "AptHold", "AptUnhold", "AptSearch",
     "AptListInstalled", "AptShow", "AptListUpgradable", "AptHistoryList",
     "AddPpa", "RemovePpa", "SnapInstall", "SnapRemove", "SnapRefresh",
     "SnapHold", "SnapUnhold", "SnapList", "SnapInfo", "SnapRevert",
     "SnapClassicInstall", "UfwEnable", "UfwDisable", "UfwAllow", "UfwDeny",
     "UfwReset", "UfwStatus"}

ProposedUbuntuHost ==
    {"DistroboxList", "DistroboxCreate", "DistroboxRemove",
     "NetplanGetConfig", "NetplanApply", "GrubGetKargs", "GrubSetKargs",
     "CheckPendingReboot", "ResolvectlStatus", "ResolvectlSetDns",
     "AppArmorStatus", "AppArmorEnforce", "AppArmorComplain",
     "CloudInitStatus", "UbuntuInstallFlatpak", "UbuntuRemoveFlatpak",
     "UbuntuUpdateFlatpak", "UbuntuListFlatpaks", "Fail2banStatus",
     "Fail2banBanIp", "Fail2banUnbanIp"}

ProposedTier3 ==
    {"NetplanSet", "NetplanGenerate", "UfwDeleteRule", "UfwLimit",
     "UbuntuReleaseUpgrade", "ProStatus", "ProAttach", "ProDetach",
     "LivepatchStatus", "MultipassList"}

ProposedActions ==
    ProposedDeploymentAndFlatpak \union ProposedToolboxToNetwork
    \union ProposedIdentityToSsh \union ProposedAptSnapUfw
    \union ProposedUbuntuHost \union ProposedTier3

-----------------------------------------------------------------------------
(* executor.rs: build_action_spec.  An action maps to the parameters whose *)
(* absence is MissingParam; optional ones, and arrays that may be empty,   *)
(* are not named.                                                          *)

Needs(P, S) == [a \in S |-> P]

DeploymentParams ==
    Needs({}, {"GetSystemState", "CollectDiagnostics", "GetDeploymentHistory",
               "ListDeployments", "UpdateSystem", "CleanupDeployments",
               "RebootSystem", "RollbackDeployment", "GetKernelArguments",
               "SetKernelArguments"})
    @@ Needs({"index"}, {"PinDeployment", "UnpinDeployment"})
    @@ Needs({"target_ref"}, {"RebaseSystem"})

FlatpakParams ==
    Needs({"username"}, {"ListFlatpakRemotes", "ListInstalledFlatpaks",
                         "UpdateFlatpak"})
    @@ Needs({"term"}, {"SearchFlatpakApps"})
    @@ Needs({"username", "app_id"},
             {"InstallFlatpak", "RemoveFlatpak", "GetFlatpakAppInfo"})
    @@ Needs({"username", "remote"}, {"RemoveFlatpakRemote"})
    @@ Needs({"username", "remote", "url"}, {"AddFlatpakRemote"})

ContainerParams ==
    Needs({"username"}, {"ListContainers"})
    @@ Needs({"username", "name"}, {"StartContainer", "StopContainer",
                                    "RemoveContainer", "GetContainerInfo"})
    @@ Needs({"username", "name", "image"}, {"CreateContainer"})

\* InstallPackages and RemovePackages accept a missing list as an empty one.
LayeringParams ==
    Needs({}, {"GetLayeredPackages", "ResetLayeredPackageOverride",
               "InstallPackages", "RemovePackages", "GetPendingUpdates"})
    @@ Needs({"package"}, {"AddLayeredPackage", "RemoveLayeredPackage",
                           "RemoveBasePackage"})
    @@ Needs({"old", "new"}, {"ReplaceLayeredPackage"})

PackageRepoParams ==
    Needs({}, {"ListPackageRepositories"})
    @@ Needs({"repo_id"}, {"RemovePackageRepository",
                           "EnablePackageRepository",
                           "DisablePackageRepository"})
    @@ Needs({"repo_id", "repo_url"}, {"AddPackageRepository"})

ServiceParams ==
    Needs({}, {"ListServices", "ListTimers", "ReloadDaemon"})
    @@ Needs({"unit"}, {"StartService", "StopService", "RestartService",
                        "MaskService", "UnmaskService", "GetServiceLogs",
                        "GetServiceStatus", "ReloadService"})
    @@ Needs({"unit", "enabled"}, {"SetServiceEnabled"})

ToolboxParams ==
    Needs({"username"}, {"ListToolboxes"})
    @@ Needs({"username", "name"}, {"CreateToolbox", "RemoveToolbox"})

IdentityParams ==
    Needs({}, {"GetDateTime"})
    @@ Needs({"hostname"}, {"SetHostname"})
    @@ Needs({"timezone"}, {"SetTimezone"})
    @@ Needs({"locale"}, {"SetLocale"})
    @@ Needs({"enabled"}, {"SetNtp"})

HostParams == Needs({}, {"GetDiskUsage", "ListProcesses", "GetMemoryInfo"})

NetworkParams ==
    Needs({}, {"GetFirewallState", "GetNetworkStatus"})
    @@ Needs({"ssid"}, {"ConfigureWifi"})
    @@ Needs({"interface"}, {"SetDnsServers"})
    @@ Needs({"zone", "service", "enabled"}, {"ConfigureFirewall"})

AccountParams ==
    Needs({}, {"ListUsers", "ListGroups"})
    @@ Needs({"username"}, {"CreateUser", "DeleteUser", "GetAuthorizedKeys"})
    @@ Needs({"username", "group"}, {"AddUserToGroup", "RemoveUserFromGroup"})
    @@ Needs({"username", "public_key"},
             {"AddAuthorizedKey", "RemoveAuthorizedKey"})

AptParams ==
    Needs({}, {"AptUpdate", "AptUpgrade", "AptAutoremove", "AptListInstalled",
               "AptListUpgradable", "AptHistoryList"})
    @@ Needs({"package"}, {"AptInstall", "AptRemove", "AptPurge", "AptHold",
                           "AptUnhold", "AptShow"})
    @@ Needs({"term"}, {"AptSearch"})
    @@ Needs({"name"}, {"AddPpa", "RemovePpa"})

SnapParams ==
    Needs({}, {"SnapList", "SnapRefresh"})
    @@ Needs({"name"}, {"SnapInstall", "SnapRemove", "SnapHold", "SnapUnhold",
                        "SnapInfo", "SnapRevert", "SnapClassicInstall"})

\* grub_set_kargs itself refuses two empty lists.
BootParams ==
    Needs({}, {"GrubGetKargs", "CheckPendingReboot"})
    @@ Needs({"append or delete"}, {"GrubSetKargs"})

UfwAndNetplanParams ==
    Needs({}, {"UfwEnable", "UfwDisable", "UfwReset", "UfwStatus",
               "DistroboxList", "NetplanGetConfig", "NetplanApply",
               "NetplanGenerate"})
    @@ Needs({"port_or_service"}, {"UfwAllow", "UfwDeny"})
    @@ Needs({"name", "image"}, {"DistroboxCreate"})
    @@ Needs({"name"}, {"DistroboxRemove"})
    @@ Needs({"key", "value"}, {"NetplanSet"})
    @@ Needs({"rule_number"}, {"UfwDeleteRule"})
    @@ Needs({"target"}, {"UfwLimit"})

Tier3Params ==
    Needs({}, {"ProStatus", "ProDetach", "LivepatchStatus", "MultipassList",
               "UbuntuReleaseUpgrade", "ResolvectlStatus", "AppArmorStatus",
               "CloudInitStatus"})
    @@ Needs({"token"}, {"ProAttach"})
    @@ Needs({"interface", "servers"}, {"ResolvectlSetDns"})
    @@ Needs({"profile_path"}, {"AppArmorEnforce", "AppArmorComplain"})

UbuntuFlatpakParams ==
    Needs({"username", "app_id", "remote"}, {"UbuntuInstallFlatpak"})
    @@ Needs({"username", "app_id"}, {"UbuntuRemoveFlatpak"})
    @@ Needs({"username"}, {"UbuntuUpdateFlatpak", "UbuntuListFlatpaks"})

Fail2banParams ==
    Needs({}, {"Fail2banStatus"})
    @@ Needs({"jail", "ip"}, {"Fail2banBanIp", "Fail2banUnbanIp"})

ExecutorParams ==
    DeploymentParams @@ FlatpakParams @@ ContainerParams @@ LayeringParams
    @@ PackageRepoParams @@ ServiceParams @@ ToolboxParams @@ IdentityParams
    @@ HostParams @@ NetworkParams @@ AccountParams @@ AptParams @@ SnapParams
    @@ BootParams @@ UfwAndNetplanParams @@ Tier3Params @@ UbuntuFlatpakParams
    @@ Fail2banParams

\* resolve_username takes "user" for "username"; everything else has one key.
Given(params, key) ==
    \/ key \in params
    \/ key = "username" /\ "user" \in params
    \/ key = "append or delete" /\ params \intersect {"append", "delete"} # {}

\* rollback_spec_for: what `rpm-ostree rollback` may follow.
RollbackSpecFor ==
    {"UpdateSystem", "InstallPackages", "RemovePackages", "RebaseSystem",
     "SetKernelArguments", "AddLayeredPackage", "RemoveLayeredPackage",
     "ReplaceLayeredPackage", "ResetLayeredPackageOverride",
     "RemoveBasePackage"}

-----------------------------------------------------------------------------
(* preview.rs: preview_profile, the risk and the two flags the operator is *)
(* shown.                                                                  *)

Profile(risk, S) == [a \in S |-> [risk_level |-> risk, reboot_required |-> FALSE,
                                  rollback_available |-> FALSE]]
ProfileOf(risk, reboot, rollback, S) ==
    [a \in S |-> [risk_level |-> risk, reboot_required |-> reboot,
                  rollback_available |-> rollback]]

LowProfile ==
    Profile(Low,
    {"GetSystemState", "CollectDiagnostics", "GetDeploymentHistory",
     "ListDeployments", "GetKernelArguments", "GetPendingUpdates",
     "SearchFlatpakApps", "ListFlatpakRemotes", "ListInstalledFlatpaks",
     "GetFlatpakAppInfo", "ListToolboxes", "ListServices", "GetServiceLogs",
     "GetServiceStatus", "ListTimers", "GetFirewallState", "ListUsers",
     "ListGroups", "ListPackageRepositories", "ListContainers",
     "GetContainerInfo", "GetLayeredPackages", "GetDiskUsage",
     "ListProcesses", "GetMemoryInfo", "GetNetworkStatus",
     "GetAuthorizedKeys", "GetDateTime", "ListJobHistory", "AptSearch",
     "AptListInstalled", "AptShow", "SnapList", "SnapInfo", "UfwStatus",
     "DistroboxList", "NetplanGetConfig", "ProStatus", "LivepatchStatus",
     "MultipassList"})

UbuntuProfile ==
    Profile(Medium,
            {"AptInstall", "AptRemove", "AptPurge", "AptHold", "AptUnhold",
             "SnapInstall", "SnapRemove", "SnapRefresh", "SnapHold",
             "SnapUnhold", "DistroboxCreate", "DistroboxRemove",
             "NetplanGenerate"})
    @@ Profile(High,
               {"AptUpgrade", "UfwEnable", "UfwDisable", "UfwAllow", "UfwDeny",
                "UfwReset", "NetplanApply"})
    @@ ProfileOf(High, FALSE, TRUE, {"NetplanSet"})

UbuntuTier3Profile ==
    Profile(High, {"UfwDeleteRule", "UfwLimit"})
    @@ ProfileOf(High, FALSE, TRUE, {"ProAttach", "ProDetach"})
    @@ ProfileOf(High, TRUE, FALSE, {"UbuntuReleaseUpgrade"})

MediumProfile ==
    Profile(Medium,
            {"ReloadService", "RestartService", "ReloadDaemon",
             "SetServiceEnabled", "StartService", "StopService",
             "ConfigureWifi", "SetDnsServers", "ConfigureFirewall",
             "CreateToolbox", "RemoveToolbox", "InstallFlatpak",
             "RemoveFlatpak", "UpdateFlatpak", "AddFlatpakRemote",
             "RemoveFlatpakRemote", "MaskService", "UnmaskService",
             "SetHostname", "SetTimezone", "SetLocale", "SetNtp",
             "CreateUser", "AddPackageRepository", "RemovePackageRepository",
             "EnablePackageRepository", "DisablePackageRepository",
             "CreateContainer", "StartContainer", "StopContainer",
             "RemoveContainer"})

HighProfile ==
    Profile(High,
            {"AddUserToGroup", "RemoveUserFromGroup", "DeleteUser",
             "AddAuthorizedKey", "RemoveAuthorizedKey", "CleanupDeployments",
             "PinDeployment", "UnpinDeployment"})
    @@ ProfileOf(High, TRUE, TRUE,
                 {"UpdateSystem", "InstallPackages", "RemovePackages",
                  "RebaseSystem", "RollbackDeployment", "AddLayeredPackage",
                  "RemoveLayeredPackage", "ReplaceLayeredPackage",
                  "ResetLayeredPackageOverride", "RemoveBasePackage",
                  "SetKernelArguments"})
    @@ ProfileOf(High, TRUE, FALSE, {"RebootSystem"})

\* The last arm: an action with no profile of its own is shown as High,
\* "unclassified action".
UnclassifiedProfile(S) == Profile(High, S)

\* The actions with an arm of their own.
ClassifiedProfile ==
    LowProfile @@ UbuntuProfile @@ UbuntuTier3Profile @@ MediumProfile @@ HighProfile

PreviewProfile == ClassifiedProfile @@ UnclassifiedProfile(PolicyNames)

-----------------------------------------------------------------------------
(* distro_routing.rs: the two families of the CLI's guard.                 *)

DebianOnly ==
    {"AptUpdate", "AptUpgrade", "AptInstall", "AptRemove", "AptPurge",
     "AptAutoremove", "AptHold", "AptUnhold", "AptSearch", "AptListInstalled",
     "AptShow", "SnapInstall", "SnapRemove", "SnapRefresh", "SnapHold",
     "SnapUnhold", "SnapList", "SnapInfo", "UfwEnable", "UfwDisable",
     "UfwAllow", "UfwDeny", "UfwReset", "UfwStatus", "DistroboxList",
     "DistroboxCreate", "DistroboxRemove", "NetplanGetConfig", "NetplanApply"}

FedoraOnly ==
    {"RebaseSystem", "AddLayeredPackage", "RemoveLayeredPackage",
     "ReplaceLayeredPackage", "RemoveBasePackage",
     "ResetLayeredPackageOverride", "GetLayeredPackages",
     "GetDeploymentHistory", "ListDeployments", "CleanupDeployments",
     "RollbackDeployment", "PinDeployment", "UnpinDeployment",
     "GetKernelArguments", "SetKernelArguments"}

\* check_action_distro: "none" is a failed detection, which allows all.
RoutesTo(a, family) ==
    \/ family = "none"
    \/ /\ a \in DebianOnly => family = "debian"
       /\ a \in FedoraOnly => family = "fedora"

-----------------------------------------------------------------------------
(* query_tools.rs: the action a query tool asks for, and the parameters it *)
(* sends (those its schema requires).                                      *)

Tool(action, params) == [action |-> action, params |-> params]

QueryTool ==
    [query_services |-> Tool("ListServices", {}),
     query_firewall |-> Tool("GetFirewallState", {}),
     query_deployments |-> Tool("ListDeployments", {}),
     query_packages |-> Tool("GetLayeredPackages", {}),
     query_containers |-> Tool("ListContainers", {}),
     query_users |-> Tool("ListUsers", {}),
     query_logs |-> Tool("GetServiceLogs", {"unit"}),
     query_kernel_args |-> Tool("GetKernelArguments", {}),
     query_flatpak_remotes |-> Tool("ListFlatpakRemotes", {}),
     query_toolboxes |-> Tool("ListToolboxes", {}),
     query_groups |-> Tool("ListGroups", {}),
     query_flatpak_info |-> Tool("GetFlatpakAppInfo", {"app_id"}),
     query_container_info |-> Tool("GetContainerInfo", {"name"}),
     query_package_repos |-> Tool("ListPackageRepositories", {}),
     query_diagnostics |-> Tool("CollectDiagnostics", {}),
     query_deployment_history |-> Tool("GetDeploymentHistory", {}),
     query_disk_usage |-> Tool("GetDiskUsage", {}),
     query_processes |-> Tool("ListProcesses", {}),
     query_memory |-> Tool("GetMemoryInfo", {}),
     query_network |-> Tool("GetNetworkStatus", {}),
     query_authorized_keys |-> Tool("GetAuthorizedKeys", {"username"}),
     query_job_history |-> Tool("ListJobHistory", {})]
=============================================================================
