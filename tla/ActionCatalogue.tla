--------------------------- MODULE ActionCatalogue ---------------------------
(***************************************************************************)
(* The tables of the typed actions.  The same action names are written     *)
(* down in seven places: the constructors under actions/, the match of     *)
(* build_action_spec, rollback_spec_for, the policy's roles, the preview's *)
(* profiles, the names the planner may propose, and the families of the    *)
(* CLI's routing guard.  Each place is a definition here; what must agree  *)
(* between them is stated in HostSession.                                  *)
(*                                                                         *)
(* A constructor's command line is abstracted to the part of the host it   *)
(* changes, "none" for a command that only reads.                          *)
(***************************************************************************)
LOCAL INSTANCE Naturals
LOCAL INSTANCE TLC

(* CallerRole and RiskLevel, in the order of role_rank and of the wire     *)
(* codes.                                                                  *)
Observer == 0
Dev      == 1
Admin    == 2
Boot     == 3

Low    == 0
Medium == 1
High   == 2

(* ActionSpec: the fields the dispatcher reads, and what the mechanism     *)
(* changes.                                                                *)
ActionSpec(part, risk, reboot, rollback) ==
    [part |-> part, risk |-> risk,
     reboot_required |-> reboot, rollback_available |-> rollback]

Reads(S)               == [a \in S |-> ActionSpec("none", Low, FALSE, FALSE)]
Changes(part, risk, S) == [a \in S |-> ActionSpec(part, risk, FALSE, FALSE)]

(* A command that stages a deployment, for the next boot.                  *)
Stages(rollback, S) ==
    [a \in S |-> ActionSpec("deployments", High, TRUE, rollback)]

-----------------------------------------------------------------------------
(* actions/, one definition per file (two for the longest).                *)

DeploymentActions ==
    Reads({"GetSystemState", "CollectDiagnostics", "GetDeploymentHistory",
           "ListDeployments", "GetKernelArguments"})
    @@ Stages(TRUE, {"UpdateSystem", "RebaseSystem", "SetKernelArguments"})
    @@ Stages(FALSE, {"RollbackDeployment"})
    @@ Changes("deployments", High,
               {"PinDeployment", "UnpinDeployment", "CleanupDeployments"})
    @@ [RebootSystem |-> ActionSpec("power", High, TRUE, FALSE)]

LayeringActions ==
    Reads({"GetLayeredPackages", "GetPendingUpdates"})
    @@ Stages(TRUE, {"InstallPackages", "RemovePackages", "AddLayeredPackage",
                     "RemoveLayeredPackage", "ReplaceLayeredPackage",
                     "RemoveBasePackage", "ResetLayeredPackageOverride"})

PackageRepoActions ==
    Reads({"ListPackageRepositories"})
    @@ Changes("sources", High, {"AddPackageRepository"})
    @@ Changes("sources", Medium,
               {"RemovePackageRepository", "EnablePackageRepository",
                "DisablePackageRepository"})

FlatpakActions ==
    Reads({"SearchFlatpakApps", "ListFlatpakRemotes", "ListInstalledFlatpaks",
           "GetFlatpakAppInfo"})
    @@ Changes("apps", Medium,
               {"InstallFlatpak", "RemoveFlatpak", "UpdateFlatpak",
                "AddFlatpakRemote", "RemoveFlatpakRemote"})

UbuntuFlatpakActions ==
    Reads({"UbuntuListFlatpaks"})
    @@ Changes("apps", Medium, {"UbuntuInstallFlatpak", "UbuntuRemoveFlatpak",
                                "UbuntuUpdateFlatpak"})

ContainerActions ==
    Reads({"ListContainers", "GetContainerInfo"})
    @@ Changes("containers", Medium,
               {"CreateContainer", "StartContainer", "StopContainer",
                "RemoveContainer"})

ToolboxActions ==
    Reads({"ListToolboxes"})
    @@ Changes("containers", Medium, {"CreateToolbox", "RemoveToolbox"})

DistroboxActions ==
    Reads({"DistroboxList"})
    @@ Changes("containers", Medium, {"DistroboxCreate", "DistroboxRemove"})

ServiceActions ==
    Reads({"ListServices", "GetServiceStatus", "ListTimers", "GetServiceLogs"})
    @@ Changes("services", Medium,
               {"StartService", "StopService", "RestartService",
                "SetServiceEnabled", "UnmaskService", "ReloadService",
                "ReloadDaemon"})
    @@ Changes("services", High, {"MaskService"})

IdentityActions ==
    Reads({"GetDateTime"})
    @@ Changes("identity", Medium,
               {"SetHostname", "SetTimezone", "SetLocale", "SetNtp"})

NetworkActions ==
    Reads({"GetFirewallState", "GetNetworkStatus"})
    @@ Changes("network", Medium, {"ConfigureWifi"})
    @@ Changes("network", High, {"SetDnsServers"})
    @@ Changes("firewall", High, {"ConfigureFirewall"})

ResolvectlActions ==
    Reads({"ResolvectlStatus"})
    @@ Changes("network", Medium, {"ResolvectlSetDns"})

UserActions ==
    Reads({"ListUsers", "ListGroups"})
    @@ Changes("accounts", High, {"CreateUser", "DeleteUser", "AddUserToGroup",
                                  "RemoveUserFromGroup"})

SshActions ==
    Reads({"GetAuthorizedKeys"})
    @@ Changes("accounts", Medium, {"AddAuthorizedKey", "RemoveAuthorizedKey"})

(* apt-get update replaces the package index: it is classified Low, and    *)
(* the one action open to Observers that writes anything.                  *)
AptPackageActions ==
    Changes("index", Low, {"AptUpdate"})
    @@ Changes("packages", High, {"AptUpgrade"})
    @@ Changes("packages", Medium, {"AptInstall", "AptRemove", "AptPurge"})
    @@ Changes("packages", Low, {"AptAutoremove"})

AptHoldActions ==
    Changes("packages", Medium, {"AptHold", "AptUnhold"})
    @@ Reads({"AptSearch", "AptListInstalled", "AptShow", "AptListUpgradable",
              "AptHistoryList"})

PpaActions ==
    [a \in {"AddPpa", "RemovePpa"} |-> ActionSpec("sources", Medium, FALSE, TRUE)]

SnapActions ==
    Changes("packages", Medium,
            {"SnapInstall", "SnapRemove", "SnapRefresh", "SnapHold",
             "SnapUnhold", "SnapRevert", "SnapClassicInstall"})
    @@ Reads({"SnapList", "SnapInfo"})

GrubActions ==
    Reads({"GrubGetKargs"})
    @@ [GrubSetKargs |-> ActionSpec("bootargs", High, TRUE, TRUE)]

UfwActions ==
    Reads({"UfwStatus"})
    @@ Changes("firewall", High,
               {"UfwEnable", "UfwDisable", "UfwAllow", "UfwDeny", "UfwReset",
                "UfwDeleteRule", "UfwLimit"})

NetplanActions ==
    Reads({"NetplanGetConfig"})
    @@ Changes("network", High, {"NetplanApply"})
    @@ Changes("network", Medium, {"NetplanGenerate"})
    @@ [NetplanSet |-> ActionSpec("network", High, FALSE, TRUE)]

Fail2banActions ==
    Reads({"Fail2banStatus"})
    @@ Changes("firewall", High, {"Fail2banBanIp"})
    @@ Changes("firewall", Medium, {"Fail2banUnbanIp"})

AppArmorActions ==
    Reads({"AppArmorStatus"})
    @@ Changes("profiles", High, {"AppArmorEnforce"})
    @@ Changes("profiles", Medium, {"AppArmorComplain"})

UbuntuProActions ==
    Reads({"ProStatus"})
    @@ [a \in {"ProAttach", "ProDetach"} |->
            ActionSpec("subscription", High, FALSE, TRUE)]

ReleaseUpgradeActions ==
    [UbuntuReleaseUpgrade |-> ActionSpec("packages", High, TRUE, FALSE)]

FilesystemActions == Reads({"GetDiskUsage"})
ProcessActions    == Reads({"ListProcesses"})
SystemInfoActions == Reads({"GetMemoryInfo"})
RebootActions     == Reads({"CheckPendingReboot"})
CloudInitActions  == Reads({"CloudInitStatus"})
LivepatchActions  == Reads({"LivepatchStatus"})
MultipassActions  == Reads({"MultipassList"})

\* Every action with a constructor, and its specification.
Catalogue ==
    DeploymentActions @@ LayeringActions @@ PackageRepoActions
    @@ FlatpakActions @@ UbuntuFlatpakActions @@ ContainerActions
    @@ ToolboxActions @@ DistroboxActions @@ ServiceActions @@ IdentityActions
    @@ NetworkActions @@ ResolvectlActions @@ UserActions @@ SshActions
    @@ AptPackageActions @@ AptHoldActions @@ PpaActions @@ SnapActions
    @@ GrubActions @@ UfwActions @@ NetplanActions @@ Fail2banActions
    @@ AppArmorActions @@ UbuntuProActions @@ ReleaseUpgradeActions
    @@ FilesystemActions @@ ProcessActions @@ SystemInfoActions
    @@ RebootActions @@ CloudInitActions @@ LivepatchActions
    @@ MultipassActions
=============================================================================
