---------------------------- MODULE HostSession ----------------------------
(***************************************************************************)
(* One action on its way from the planner to the host, over the tables of  *)
(* ActionTables: the daemon starts under a policy, the planner proposes an *)
(* action or asks a query tool, the CLI routes it, a connection of some    *)
(* role previews and executes it, and the daemon may be restarted under    *)
(* another policy in between (the previewed transaction survives).         *)
(*                                                                         *)
(* The daemon's own concurrency is ApprovalExec's subject; here one        *)
(* request is in hand at a time, and a connection of another role is       *)
(* another value of `role`.  Of a parameter only its presence is kept, not *)
(* its value.  What a session checks is that tables kept by hand, the ones *)
(* in the planner's prompt included, never let a caller, a query or a      *)
(* preview do something another table says it must not.                    *)
(***************************************************************************)
EXTENDS PlannerPrompt, DistroDetection, FiniteSets

CONSTANTS
    RawOverrides,   \* Contents of [policy.risk_overrides], one per config file.
    OsReleases      \* The /etc/os-release files of the hosts.

InvalidLevel == 9

ASSUME FilesAssumption ==
    /\ \A file \in OsReleases :
           \A i \in DOMAIN file.lines : file.lines[i].form \in Forms
    /\ \A raw \in RawOverrides :
           \A a \in DOMAIN raw : raw[a] \in {Low, Medium, High, InvalidLevel}

VARIABLES
    daemon,     \* "up", or "refused": the configuration is a startup error.
    overrides,  \* The PolicyTable in force: action -> risk level.
    release,    \* The host's /etc/os-release.
    role,       \* The role of the connection in use.
    step,       \* The action in hand, or NoStep.
    told,       \* The risk the plan states of it, or Untold.
    approved,   \* The step whose preview is Queued in the store, or NoStep.
    outcome,    \* How the last request for the step in hand ended.
    change      \* What was last done to the host, or NoChange.

vars == <<daemon, overrides, release, role, step, told, approved, outcome, change>>

Untold   == 9
NoStep   == [action |-> "none", params |-> {}]
NoChange == [action |-> "none", via |-> "none", role |-> Observer]

Roles == {Observer, Dev, Admin, Boot}

-----------------------------------------------------------------------------
(* policy.rs: PolicyTable.                                                 *)

\* Mutant of LegalOverrides: any known action and level will do.
OverridesMayLower(raw) ==
    \A a \in DOMAIN raw : a \in PolicyNames /\ raw[a] # InvalidLevel

\* from_overrides: every entry names a known action, has a level, and raises.
LegalOverrides(raw) ==
    \A a \in DOMAIN raw :
        /\ a \in PolicyNames
        /\ raw[a] # InvalidLevel
        /\ RoleForRisk(raw[a]) >= BaselineRole(a)

MinRole(a) ==
    IF a \in DOMAIN overrides THEN RoleForRisk(overrides[a]) ELSE BaselineRole(a)

Allowed(r, a) == a \in PolicyNames /\ r >= MinRole(a)

\* Mutant of SpecBuilds: require_str(params, "username") for resolve_username.
SpecBuildsByName(s) ==
    s.action \in DOMAIN ExecutorParams /\ ExecutorParams[s.action] \subseteq s.params

\* build_action_spec: the name is known and every required parameter is there.
SpecBuilds(s) ==
    /\ s.action \in DOMAIN ExecutorParams
    /\ \A key \in ExecutorParams[s.action] : Given(s.params, key)

-----------------------------------------------------------------------------
Start(raw) ==
    IF LegalOverrides(raw)
    THEN daemon' = "up" /\ overrides' = raw
    ELSE daemon' = "refused" /\ overrides' = [a \in {} |-> Low]

Init ==
    /\ daemon = "refused"
    /\ overrides = [a \in {} |-> Low]
    /\ release \in OsReleases
    /\ role \in Roles
    /\ step = NoStep
    /\ told = Untold
    /\ approved = NoStep
    /\ outcome = "none"
    /\ change = NoChange

\* The daemon is started, or restarted under another configuration; what it
\* stored stays.
StartDaemon ==
    /\ change = NoChange
    /\ \E raw \in RawOverrides : Start(raw)
    /\ outcome' = "none"
    /\ UNCHANGED <<release, role, step, told, approved, change>>

\* A connection of another role takes over.
Reconnect ==
    /\ change = NoChange
    /\ role' \in Roles \ {role}
    /\ outcome' = "none"
    /\ UNCHANGED <<daemon, overrides, release, step, told, approved, change>>

\* A parsed plan's step: ActionName::parse took the name, and the CLI's guard
\* did not turn it away.  The model gives all the required parameters, gives
\* "user" for "username", or gives none.
ProposeStep ==
    /\ step = NoStep
    /\ \E a \in ProposedActions \intersect KnownNames :
        /\ RoutesTo(a, Family(release))
        /\ LET needed == IF a \in DOMAIN ExecutorParams
                         THEN ExecutorParams[a] ELSE {}
           IN \E params \in {needed, {}, {"user"} \union (needed \ {"username"})} :
                  step' = [action |-> a, params |-> params]
    /\ UNCHANGED <<daemon, overrides, release, role, told, approved, outcome, change>>

\* A step as the prompt teaches it: the model takes the action, its parameters
\* and its risk from any of the tables, or copies a worked example.  The CLI and the
\* MCP server pass the detected family and turn a step of another one away;
\* the shell passes none and turns nothing away.
ProposeByTheBook ==
    /\ step = NoStep
    /\ \E hint \in {Family(release), "none"} :
        /\ \/ \E table \in PromptTables(hint) :
                 \E a \in DOMAIN table : step' = Book(a) /\ told' = table[a]
           \/ step' \in EXAMPLES \union STATUS_EXAMPLES /\ told' = Low
        /\ outcome' = IF hint = "none" \/ RoutesTo(step'.action, hint)
                      THEN "none" ELSE "not_routed"
    /\ UNCHANGED <<daemon, overrides, release, role, approved, change>>

\* A query tool's request, with the parameters the tool sends.
UseQueryTool ==
    /\ step = NoStep
    /\ \E tool \in DOMAIN QueryTool : step' = QueryTool[tool]
    /\ UNCHANGED <<daemon, overrides, release, role, told, approved, outcome, change>>

-----------------------------------------------------------------------------
(* dispatcher.rs, one action per handler.                                  *)

Request ==
    /\ daemon = "up"
    /\ step # NoStep
    /\ outcome \in {"none", "described"}
    /\ change = NoChange

Reply(category) ==
    /\ outcome' = category
    /\ UNCHANGED <<daemon, overrides, release, role, step, told, approved, change>>

\* execute_spec: the mechanism, a command or work on a file, is tried for whoever
\* made the request; whatever it ends with, what it changes is taken as changed.
Ran(how) ==
    change' = [action |-> step.action, via |-> how, role |-> role]

\* How a command ends: 0; 1 to 4, by which systemctl tells of a unit that is not
\* running; another code or a signal; or an I/O error instead of an end.
Exit == {"zero", "one_to_four", "other", "io_error"}

AnswerTo(exit) ==
    IF \/ exit = "zero"
       \/ exit = "one_to_four" /\ step.action = "GetServiceStatus"
    THEN "answered" ELSE "execution_failure"

\* handle_query_action asks only that the action be open to Observers; the store's
\* answer or error is ListJobHistory's.
HandleQueryAction ==
    /\ Request
    /\ IF step.action \notin PolicyNames
       THEN Reply("validation_failure")
       ELSE IF MinRole(step.action) # Observer
       THEN Reply("authorization_failure")
       ELSE IF step.action # "ListJobHistory" /\ ~SpecBuilds(step)
       THEN Reply("validation_failure")
       ELSE /\ \E exit \in Exit : outcome' = AnswerTo(exit)
            /\ IF step.action = "ListJobHistory"
               THEN UNCHANGED change ELSE Ran("query")
            /\ UNCHANGED <<daemon, overrides, release, role, step, told, approved>>

\* handle_describe builds the specification for whoever asks and says what would
\* run; of ListJobHistory it knows without one.
HandleDescribe ==
    /\ Request
    /\ Reply(IF step.action = "ListJobHistory" \/ SpecBuilds(step)
              THEN "described" ELSE "validation_failure")

\* handle_preview, and handle_execute up to the claim, share their checks.
Refused(s) ==
    IF ~SpecBuilds(s) THEN "validation_failure"
    ELSE IF ~Allowed(role, s.action) THEN "authorization_failure"
    ELSE "none"

HandlePreview ==
    /\ Request
    /\ approved = NoStep
    /\ IF Refused(step) # "none"
       THEN Reply(Refused(step))
       ELSE /\ approved' = step
            /\ UNCHANGED <<daemon, overrides, release, role, step, told, outcome, change>>

\* Mutant of RunOutcomes: nothing is ever rolled back.
RunOutcomesStay(a) == {"succeeded", "failed"}

\* How a run may be recorded: attempt_rollback_if_needed asks the executor's
\* specification and rollback_spec_for whether a failed one is rolled back, and
\* leaves it Failed ("rollback_failed") when the rollback fails as well.
RunOutcomes(a) ==
    {"succeeded"}
    \union (IF Catalogue[a].rollback_available /\ a \in RollbackSpecFor
            THEN {"rolled_back", "rollback_failed"} ELSE {"failed"})

\* handle_execute claims the previewed transaction, runs the mechanism, and on
\* failure runs the rollback the specification and rollback_spec_for provide.
HandleExecute ==
    /\ Request
    /\ IF Refused(step) # "none"
       THEN Reply(Refused(step))
       ELSE IF approved # step
       THEN Reply("stale_approval")
       ELSE /\ outcome' \in RunOutcomes(step.action)
            /\ Ran("execute")
            /\ approved' = NoStep
            /\ UNCHANGED <<daemon, overrides, release, role, step, told>>

Next ==
    \/ StartDaemon
    \/ Reconnect
    \/ ProposeStep
    \/ ProposeByTheBook
    \/ UseQueryTool
    \/ HandleQueryAction
    \/ HandleDescribe
    \/ HandlePreview
    \/ HandleExecute

Spec == Init /\ [][Next]_vars

-----------------------------------------------------------------------------
(* What the tables say together.  Nothing below has a parameter: TLC       *)
(* decides each fact, and what holds for all configurations and hosts      *)
(* follows from them.                                                      *)

Part(a) == Catalogue[a].part

Complete(s) ==
    s.action \in DOMAIN ExecutorParams
        => \A key \in ExecutorParams[s.action] : Given(s.params, key)

\* High to the executor and to policy.rs, Medium to the prompt and to preview.rs.
Understated ==
    {"AddPackageRepository", "MaskService", "SetDnsServers", "ConfigureFirewall", "CreateUser"}

\* What the prompt, or the preview, may say of the risk of an action that runs.
NotBelow(risk, a) ==
    \/ risk >= Catalogue[a].risk
    \/ a \in Understated /\ risk = Medium

Fair(risk, a) ==
    /\ NotBelow(risk, a)
    /\ risk = Low => Part(a) \in {"none", "index"} \/ a = "AptAutoremove"

\* The preview shows no more than the prompt said, where it has an arm for the action.
ShownAsTold(risk, a) ==
    PreviewProfile[a].risk_level > risk => a \notin DOMAIN ClassifiedProfile

\* A tier grants no more than the mechanism's own risk asks for.
ASSUME TiersAssumption ==
    \A a \in DOMAIN ExecutorParams \intersect PolicyNames :
        /\ Catalogue[a].risk \in {Low, Medium, High}
        /\ RoleForRisk(Catalogue[a].risk) <= BaselineRole(a)
        /\ BaselineRole(a) = Observer => Part(a) \in {"none", "index"}

ActionsOf(S) == {s.action : s \in S}

NamedActions ==
    (ProposedActions \intersect KnownNames)
    \union ActionsOf({QueryTool[t] : t \in DOMAIN QueryTool})
    \union (UNION {DOMAIN table : table \in GENERIC_PROMPT \union FEDORA_PROMPT
                                                \union DEBIAN_PROMPT})
    \union ActionsOf(EXAMPLES \union STATUS_EXAMPLES)

\* What the planner can propose, a query tool ask and the prompt teach has a tier,
\* and an executor but for ListJobHistory.
ASSUME NamesAssumption ==
    /\ NoStep.action \notin DOMAIN ExecutorParams
    /\ \A a \in NamedActions :
           a \in PolicyNames /\ (a \in DOMAIN ExecutorParams \/ a = "ListJobHistory")

\* A tool that does not send all that its action needs lacks the username.
ASSUME ToolsAssumption ==
    \A t \in DOMAIN QueryTool :
        LET s == QueryTool[t]
        IN \/ Complete(s)
           \/ "username" \in ExecutorParams[s.action] \ s.params

\* The prompt gives an action what it needs, but for AptSearch, and each family's
\* part of it stays off the other family.
ASSUME PromptAssumption ==
    /\ \A table \in GENERIC_PROMPT \union FEDORA_PROMPT \union DEBIAN_PROMPT :
           \A a \in DOMAIN table :
               /\ table[a] \in {Low, Medium, High}
               /\ a = "AptSearch" \/ Complete(Book(a))
               /\ ShownAsTold(table[a], a)
               /\ a \in DOMAIN ExecutorParams => Fair(table[a], a)
    /\ \A s \in EXAMPLES \union STATUS_EXAMPLES :
           /\ \/ Complete(s)
              \/ s \in EXAMPLES /\ "username" \in ExecutorParams[s.action]
           /\ ShownAsTold(Low, s.action)
           /\ s.action \in DOMAIN ExecutorParams => Fair(Low, s.action)
    /\ LET names(T) == UNION {DOMAIN table : table \in T}
           debian == DebianOnly \union DOMAIN DEBIAN_RISK_TABLES
           fedora == FedoraOnly \union DOMAIN FEDORA_RISK_TABLES
       IN /\ names(GENERIC_PROMPT) \intersect (debian \union fedora) = {}
          /\ names(FEDORA_PROMPT) \intersect debian = {}
          /\ names(DEBIAN_PROMPT) \intersect fedora = {}
          /\ \A s \in EXAMPLES : s.action \notin DebianOnly \union FedoraOnly
          /\ \A s \in STATUS_EXAMPLES : s.action \notin debian \union fedora

\* What the preview shows of a mechanism's effects, and the promise of a rollback
\* without a specification of one.
ASSUME PreviewsAssumption ==
    \A a \in DOMAIN ExecutorParams \intersect PolicyNames :
        LET shown == PreviewProfile[a]
        IN /\ NotBelow(shown.risk_level, a)
           /\ shown.risk_level = Low => Part(a) = "none"
           /\ shown.risk_level = Medium => Part(a) \notin {"deployments", "bootargs", "power"}
           /\ Catalogue[a].reboot_required => shown.reboot_required \/ a = "GrubSetKargs"
           /\ shown.rollback_available =>
                  \/ Catalogue[a].rollback_available /\ a \in RollbackSpecFor
                  \/ a \in {"NetplanSet", "ProAttach", "ProDetach", "RollbackDeployment"}

-----------------------------------------------------------------------------
(* What a session must keep.                                               *)

\* Whatever was done to the host was done by a role that the mechanism's own
\* risk, the compile-time tier and the policy in force all ask for, whichever
\* way the request came and whatever the policy was when the step was
\* previewed.  The package index is the one thing an Observer refreshes and the
\* unprivileged query path changes, and not that when the operator raised AptUpdate.
ChangesAreEarned ==
    change # NoChange =>
        LET a == change.action
        IN /\ Part(a) # "none" /\ change.role < Dev => Part(a) = "index"
           /\ change.role >= RoleForRisk(Catalogue[a].risk)
           /\ change.role >= BaselineRole(a)
           /\ change.via = "execute" => change.role >= MinRole(a)
           /\ change.via = "query" => Part(a) \in {"none", "index"} /\ MinRole(a) = Observer

\* No step dies of the tables disagreeing: a step with its parameters is found
\* invalid only if it is ListJobHistory, which the planner may propose and no
\* executor knows; and a query tool's request only if the tool's schema has no
\* username to give.
DeadEndsAreKnown ==
    outcome = "validation_failure" =>
        /\ Complete(step) => step.action = "ListJobHistory"
        /\ step \in {QueryTool[t] : t \in DOMAIN QueryTool} =>
               \/ step.action = "ListJobHistory"
               \/ "username" \in ExecutorParams[step.action] \ step.params

\* The preview shows the risk the mechanism has, or a higher one; five actions are
\* shown one level below theirs.  What is shown as Low changes nothing, what is shown
\* as Medium leaves deployments, boot arguments and power alone, and a reboot that is
\* needed is shown, but for GrubSetKargs.
SoftPreviewIsHarmless ==
    approved # NoStep =>
        LET shown == PreviewProfile[approved.action]
            part  == Part(approved.action)
        IN /\ NotBelow(shown.risk_level, approved.action)
           /\ shown.risk_level = Low => part = "none"
           /\ shown.risk_level = Medium =>
                  part \notin {"deployments", "bootargs", "power"}
           /\ Catalogue[approved.action].reboot_required =>
                  shown.reboot_required \/ approved.action = "GrubSetKargs"

\* "rollback_available = true must imply that the executor records a rollback
\* ref the daemon can later use" (preview.rs:14-26): of a failed step whose preview
\* promised a rollback one was tried, except for the four actions that have a
\* promise and no rollback spec.
RollbackPromiseKept ==
    change.via = "execute" /\ outcome = "failed"
        /\ PreviewProfile[change.action].rollback_available
        => change.action \in {"NetplanSet", "ProAttach", "ProDetach", "RollbackDeployment"}

\* What becomes of a step whose model obeys its prompt: the guard routes it; the
\* executor takes it, but for ListJobHistory, AptSearch (the prompt says "package",
\* the executor "term") and the worked examples that forget the username; the risk
\* the plan states is the mechanism's or more, five actions excepted; what is said
\* to be Low, and so runs unasked, changes nothing but the package index,
\* AptAutoremove excepted; the preview shows no higher risk than the plan, at which
\* a ceiling like the MCP server's would stop it, unless preview.rs has no arm for
\* the action; and what one family's prompt alone teaches is meant for a host whose
\* file names it.
PromptIsRight ==
    told # Untold =>
        /\ outcome # "not_routed"
        /\ outcome = "validation_failure" =>
               \/ step.action \in {"ListJobHistory", "AptSearch"}
               \/ step \in EXAMPLES /\ "username" \in ExecutorParams[step.action]
        /\ change # NoChange => Fair(told, change.action)
        /\ approved = step => ShownAsTold(told, step.action)
        /\ step \notin EXAMPLES =>
               /\ step.action \in DOMAIN DEBIAN_RISK_TABLES =>
                      Says(release, "ID") \in {"ubuntu", "debian"}
               /\ step.action \in DOMAIN FEDORA_RISK_TABLES =>
                      Says(release, "ID") \in IdsWithFedora

\* What is shown before approval is true of the step, but for the exceptions named in
\* SoftPreviewIsHarmless and RollbackPromiseKept.
PreviewsTell == SoftPreviewIsHarmless /\ RollbackPromiseKept

\* "AptUpdate / AptAutoremove are low-risk (listed in the read-only arm)"
\* (preview.rs:118); policy.rs:63-64 counts on it.
LowRiskIsShown ==
    approved.action \in {"AptUpdate", "AptAutoremove"}
        => PreviewProfile[approved.action].risk_level = Low
=============================================================================
