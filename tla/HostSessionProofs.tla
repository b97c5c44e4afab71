-------------------------- MODULE HostSessionProofs --------------------------
(***************************************************************************)
(* A session on any host, under any configurations: whatever the operator  *)
(* raises, whatever /etc/os-release says and whenever the daemon is        *)
(* restarted, the host is changed by those who earned it, no step dies of  *)
(* the tables disagreeing, and a prompt that is obeyed misleads nobody.    *)
(* What the tables say is in the assumptions of HostSession, closed facts  *)
(* that TLC decides; how a session gets from one to the next is here.      *)
(***************************************************************************)
EXTENDS HostSession, TLAPS

-----------------------------------------------------------------------------
(* The policy.                                                             *)

LEMMA RolesAreLevels ==
    /\ \A a : BaselineRole(a) \in {Observer, Dev, Admin}
    /\ \A a : RoleForRisk(a) = a
    /\ Observer = 0 /\ Dev = 1 /\ Admin = 2 /\ Boot = 3
    /\ Low = 0 /\ Medium = 1 /\ High = 2 /\ InvalidLevel = 9
    /\ Roles = 0 .. 3
  BY DEF BaselineRole, RoleForRisk, Roles, Observer, Dev, Admin, Boot, Low, Medium, High,
         InvalidLevel

\* An override in force names an action of some tier and only ever raises it.
OverridesRaise ==
    \A a \in DOMAIN overrides :
        a \in PolicyNames /\ overrides[a] \in Int /\ overrides[a] >= BaselineRole(a)

LEMMA MinRoleRaises ==
    ASSUME OverridesRaise, NEW a
    PROVE  /\ MinRole(a) \in Int /\ BaselineRole(a) \in Int
           /\ MinRole(a) >= BaselineRole(a)
  BY RolesAreLevels DEF OverridesRaise, MinRole

LEMMA StartRaises ==
    ASSUME NEW raw \in RawOverrides, Start(raw)
    PROVE  OverridesRaise'
  <1>1. CASE LegalOverrides(raw)
    <2>1. overrides' = raw
      BY <1>1 DEF Start
    <2>2. ASSUME NEW a \in DOMAIN raw
          PROVE  a \in PolicyNames /\ raw[a] \in Int /\ raw[a] >= BaselineRole(a)
      BY <1>1, FilesAssumption, RolesAreLevels DEF LegalOverrides
    <2> QED BY <2>1, <2>2 DEF OverridesRaise
  <1>2. CASE ~LegalOverrides(raw)
    BY <1>2 DEF Start, OverridesRaise
  <1> QED BY <1>1, <1>2

-----------------------------------------------------------------------------
(* The step in hand and what became of it.                                 *)

\* Once made, a change is of the step in hand, by a role that the policy in force
\* admits, and the policy stays.
ChangeIsOfStep ==
    change # NoChange =>
        /\ change.action = step.action
        /\ step.action \in DOMAIN ExecutorParams \intersect PolicyNames
        /\ change.role \in 0 .. 3
        /\ \/ change.via = "execute" /\ change.role >= MinRole(step.action)
           \/ change.via = "query" /\ MinRole(step.action) = Observer

SessionInv ==
    /\ role \in 0 .. 3
    /\ OverridesRaise
    /\ step # NoStep => step.action \in NamedActions
    /\ ChangeIsOfStep
    /\ outcome = "validation_failure" => step # NoStep /\ ~SpecBuilds(step)

\* Every way to a step leads to a name the tables know.
LEMMA StepsAreNamed ==
    ASSUME ProposeStep \/ ProposeByTheBook \/ UseQueryTool
    PROVE  step'.action \in NamedActions
  <1>1. CASE ProposeStep
    BY <1>1 DEF ProposeStep, NamedActions
  <1>2. CASE UseQueryTool
    <2>1. PICK t \in DOMAIN QueryTool : step' = QueryTool[t]
      BY <1>2 DEF UseQueryTool
    <2>2. step'.action \in ActionsOf({QueryTool[x] : x \in DOMAIN QueryTool})
      BY <2>1 DEF ActionsOf
    <2> QED BY <2>2 DEF NamedActions
  <1>3. CASE ProposeByTheBook
    <2>1. ASSUME NEW hint, NEW table \in PromptTables(hint), NEW a \in DOMAIN table
          PROVE  Book(a).action \in NamedActions
      <3>1. table \in GENERIC_PROMPT \union FEDORA_PROMPT \union DEBIAN_PROMPT
        BY DEF PromptTables
      <3> QED BY <3>1 DEF Book, NamedActions
    <2>2. ASSUME NEW s \in EXAMPLES \union STATUS_EXAMPLES PROVE s.action \in NamedActions
      <3>1. s.action \in ActionsOf(EXAMPLES \union STATUS_EXAMPLES)
        BY DEF ActionsOf
      <3> QED BY <3>1 DEF NamedActions
    <2> HIDE DEF NamedActions
    <2> QED BY <1>3, <2>1, <2>2 DEF ProposeByTheBook
  <1> QED BY <1>1, <1>2, <1>3

\* A named step whose specification builds has a tier and an executor.
LEMMA BuiltIsKnown ==
    ASSUME NEW s, s.action \in NamedActions
    PROVE  /\ s.action \in PolicyNames
           /\ SpecBuilds(s) => s.action \in DOMAIN ExecutorParams
           /\ ~SpecBuilds(s) => s.action = "ListJobHistory" \/ ~Complete(s)
  BY NamesAssumption DEF SpecBuilds, Complete

LEMMA ProposalKeepsSession ==
    ASSUME SessionInv, ProposeStep \/ ProposeByTheBook \/ UseQueryTool
    PROVE  SessionInv'
  <1>1. step = NoStep /\ UNCHANGED <<role, overrides, change>>
        /\ outcome' # "validation_failure"
    BY DEF SessionInv, ProposeStep, ProposeByTheBook, UseQueryTool
  <1>2. change = NoChange
    BY <1>1, NamesAssumption DEF SessionInv, ChangeIsOfStep
  <1> QED BY <1>1, <1>2, StepsAreNamed DEF SessionInv, OverridesRaise, ChangeIsOfStep

\* A reply alone changes nothing, and an invalid step is one that does not build.
LEMMA ReplyKeepsSession ==
    ASSUME SessionInv, Request, NEW category, Reply(category),
           category = "validation_failure" => ~SpecBuilds(step)
    PROVE  SessionInv'
  BY DEF SessionInv, Request, Reply, OverridesRaise, ChangeIsOfStep, MinRole

\* A request that runs a mechanism was let through by the policy in force.
LEMMA RunKeepsSession ==
    ASSUME SessionInv, Request, NEW how, Ran(how), SpecBuilds(step),
           UNCHANGED <<role, step, overrides>>, outcome' # "validation_failure",
           \/ how = "execute" /\ role >= MinRole(step.action)
           \/ how = "query" /\ MinRole(step.action) = Observer
    PROVE  SessionInv'
  <1>1. step.action \in DOMAIN ExecutorParams \intersect PolicyNames
    BY BuiltIsKnown DEF SessionInv, Request
  <1>2. /\ change'.action = step.action /\ change'.via = how /\ change'.role = role
    BY DEF Ran
  <1>3. OverridesRaise' /\ MinRole(step.action)' = MinRole(step.action)
    BY DEF SessionInv, OverridesRaise, MinRole
  <1>4. ChangeIsOfStep'
    BY <1>1, <1>2, <1>3 DEF ChangeIsOfStep, SessionInv
  <1> QED BY <1>3, <1>4 DEF SessionInv

LEMMA QueryKeepsSession ==
    ASSUME SessionInv, HandleQueryAction
    PROVE  SessionInv'
  <1>1. Request /\ step.action \in PolicyNames
    BY BuiltIsKnown DEF SessionInv, HandleQueryAction, Request
  <1>2. CASE MinRole(step.action) # Observer
    <2>1. Reply("authorization_failure")
      BY <1>1, <1>2 DEF HandleQueryAction
    <2> QED BY <1>1, <2>1, ReplyKeepsSession
  <1>3. CASE MinRole(step.action) = Observer /\ step.action # "ListJobHistory" /\ ~SpecBuilds(step)
    <2>1. Reply("validation_failure")
      BY <1>1, <1>3 DEF HandleQueryAction
    <2> QED BY <1>1, <1>3, <2>1, ReplyKeepsSession
  <1>4. CASE MinRole(step.action) = Observer /\ step.action # "ListJobHistory" /\ SpecBuilds(step)
    <2>1. Ran("query") /\ outcome' # "validation_failure" /\ UNCHANGED <<role, step, overrides>>
      BY <1>1, <1>4 DEF HandleQueryAction, AnswerTo
    <2> QED BY <1>1, <1>4, <2>1, RunKeepsSession
  <1>5. CASE MinRole(step.action) = Observer /\ step.action = "ListJobHistory"
    <2>1. UNCHANGED <<change, role, step, overrides>> /\ outcome' # "validation_failure"
      BY <1>1, <1>5 DEF HandleQueryAction, AnswerTo
    <2> QED BY <2>1 DEF SessionInv, OverridesRaise, ChangeIsOfStep, MinRole
  <1> QED BY <1>2, <1>3, <1>4, <1>5

LEMMA DescribeKeepsSession ==
    ASSUME SessionInv, HandleDescribe
    PROVE  SessionInv'
  <1>1. CASE step.action = "ListJobHistory" \/ SpecBuilds(step)
    BY <1>1, ReplyKeepsSession DEF HandleDescribe
  <1>2. CASE ~(step.action = "ListJobHistory" \/ SpecBuilds(step))
    BY <1>2, ReplyKeepsSession DEF HandleDescribe
  <1> QED BY <1>1, <1>2

LEMMA PreviewKeepsSession ==
    ASSUME SessionInv, HandlePreview
    PROVE  SessionInv'
  <1>1. CASE Refused(step) # "none"
    BY <1>1, ReplyKeepsSession DEF HandlePreview, Refused
  <1>2. CASE Refused(step) = "none"
    <2>1. UNCHANGED <<change, role, step, overrides, outcome>>
      BY <1>2 DEF HandlePreview
    <2> QED BY <2>1 DEF SessionInv, OverridesRaise, ChangeIsOfStep, MinRole
  <1> QED BY <1>1, <1>2

LEMMA ExecuteKeepsSession ==
    ASSUME SessionInv, HandleExecute
    PROVE  SessionInv'
  <1>1. CASE Refused(step) # "none"
    BY <1>1, ReplyKeepsSession DEF HandleExecute, Refused
  <1>2. CASE Refused(step) = "none" /\ approved # step
    BY <1>2, ReplyKeepsSession DEF HandleExecute
  <1>3. CASE Refused(step) = "none" /\ approved = step
    <2>1. Ran("execute") /\ UNCHANGED <<role, step, overrides>> /\ Request
      BY <1>3 DEF HandleExecute
    <2>2. outcome' # "validation_failure"
      BY <1>3 DEF HandleExecute, RunOutcomes
    <2>3. SpecBuilds(step) /\ role >= MinRole(step.action)
      BY <1>3 DEF Refused, Allowed
    <2> QED BY <2>1, <2>2, <2>3, RunKeepsSession
  <1> QED BY <1>1, <1>2, <1>3

LEMMA SessionStep ==
    ASSUME SessionInv, [Next]_vars PROVE SessionInv'
  <1>1. CASE StartDaemon
    <2>1. OverridesRaise'
      BY <1>1, StartRaises DEF StartDaemon
    <2>2. change' = NoChange /\ outcome' = "none" /\ UNCHANGED <<role, step>>
      BY <1>1 DEF StartDaemon
    <2> QED BY <2>1, <2>2 DEF SessionInv, ChangeIsOfStep
  <1>2. CASE Reconnect
    <2>1. role' \in 0 .. 3 /\ outcome' = "none" /\ change' = NoChange
          /\ UNCHANGED <<overrides, step>>
      BY <1>2, RolesAreLevels DEF Reconnect
    <2> QED BY <2>1 DEF SessionInv, OverridesRaise, ChangeIsOfStep
  <1>3. CASE UNCHANGED vars
    BY <1>3 DEF vars, SessionInv, OverridesRaise, ChangeIsOfStep, MinRole
  <1> QED BY <1>1, <1>2, <1>3, ProposalKeepsSession, QueryKeepsSession, DescribeKeepsSession,
             PreviewKeepsSession, ExecuteKeepsSession DEF Next

LEMMA SessionInit == Init => SessionInv
  <1> SUFFICES ASSUME Init PROVE SessionInv
    OBVIOUS
  <1>1. role \in 0 .. 3
    BY RolesAreLevels DEF Init
  <1> QED BY <1>1 DEF Init, SessionInv, OverridesRaise, ChangeIsOfStep

LEMMA SessionHolds == Spec => []SessionInv
  BY SessionInit, SessionStep, PTL DEF Spec

\* dispatcher.rs and policy.rs: over every set of configurations the operator may
\* restart the daemon with, no request of any kind changes the host for a role that
\* the mechanism's risk, its tier and the policy in force do not all admit.
THEOREM EveryChangeIsEarned == Spec => []ChangesAreEarned
  <1>1. SessionInv => ChangesAreEarned
    <2> SUFFICES ASSUME SessionInv, change # NoChange PROVE ChangesAreEarned
      BY DEF ChangesAreEarned
    <2> DEFINE a == step.action
    <2>1. /\ change.action = a /\ change.role \in 0 .. 3
          /\ a \in DOMAIN ExecutorParams \intersect PolicyNames
          /\ \/ change.via = "execute" /\ change.role >= MinRole(a)
             \/ change.via = "query" /\ MinRole(a) = Observer
      BY DEF SessionInv, ChangeIsOfStep
    <2>2. /\ Catalogue[a].risk \in {Low, Medium, High}
          /\ RoleForRisk(Catalogue[a].risk) <= BaselineRole(a)
          /\ BaselineRole(a) = Observer => Part(a) \in {"none", "index"}
      BY <2>1, TiersAssumption
    <2>3. /\ MinRole(a) \in Int /\ BaselineRole(a) \in {0, 1, 2}
          /\ MinRole(a) >= BaselineRole(a)
      BY MinRoleRaises, RolesAreLevels DEF SessionInv
    <2> HIDE DEF a
    <2>4. change.role >= MinRole(a)
      BY <2>1, RolesAreLevels
    <2>5. RoleForRisk(Catalogue[a].risk) \in {0, 1, 2}
      BY <2>2, RolesAreLevels
    <2>6. change.role >= BaselineRole(a) /\ change.role >= RoleForRisk(Catalogue[a].risk)
      BY <2>1, <2>2, <2>3, <2>4, <2>5
    <2>7. Part(a) # "none" /\ change.role < Dev => Part(a) = "index"
      BY <2>1, <2>2, <2>3, <2>6, RolesAreLevels
    <2>8. change.via = "query" => Part(a) \in {"none", "index"} /\ MinRole(a) = Observer
      BY <2>1, <2>2, <2>3, RolesAreLevels
    <2> QED BY <2>1, <2>4, <2>6, <2>7, <2>8 DEF ChangesAreEarned
  <1> QED BY <1>1, SessionHolds, PTL

\* executor.rs, propose_plan.rs, query_tools.rs: under every configuration and on
\* every host, a step that has its parameters is never found invalid, but for
\* ListJobHistory, and a query tool's only for a username its schema has not.
THEOREM NoOtherDeadEnds == Spec => []DeadEndsAreKnown
  <1>1. SessionInv => DeadEndsAreKnown
    <2> SUFFICES ASSUME SessionInv, outcome = "validation_failure" PROVE DeadEndsAreKnown
      BY DEF DeadEndsAreKnown
    <2>1. ~SpecBuilds(step) /\ step.action \in NamedActions
      BY DEF SessionInv
    <2>2. Complete(step) => step.action = "ListJobHistory"
      BY <2>1, BuiltIsKnown
    <2>3. ASSUME NEW t \in DOMAIN QueryTool, step = QueryTool[t]
          PROVE  \/ step.action = "ListJobHistory"
                 \/ "username" \in ExecutorParams[step.action] \ step.params
      BY <2>2, <2>3, ToolsAssumption
    <2> QED BY <2>2, <2>3 DEF DeadEndsAreKnown
  <1> QED BY <1>1, SessionHolds, PTL

-----------------------------------------------------------------------------
(* The previews.                                                           *)

\* Whatever roles and policies come and go, the step whose preview waits in the
\* store is one the tables know, and a run that failed had no rollback to try.
ApprovedIsKnown ==
    approved # NoStep => approved.action \in DOMAIN ExecutorParams \intersect PolicyNames

FailedHadNoRollback ==
    change.via = "execute" /\ outcome = "failed" =>
        ~ (Catalogue[change.action].rollback_available /\ change.action \in RollbackSpecFor)

ReviewInv == ApprovedIsKnown /\ FailedHadNoRollback

\* A step that passes the checks of preview and execute is in the tables.
LEMMA UnrefusedIsKnown ==
    ASSUME NEW s, Refused(s) = "none"
    PROVE  s.action \in DOMAIN ExecutorParams \intersect PolicyNames
  BY DEF Refused, SpecBuilds, Allowed

LEMMA ReviewStep ==
    ASSUME ReviewInv, [Next]_vars PROVE ReviewInv'
  <1>1. CASE StartDaemon \/ Reconnect
    BY <1>1 DEF StartDaemon, Reconnect, ReviewInv, ApprovedIsKnown, FailedHadNoRollback, NoChange
  <1>2. CASE ProposeStep \/ UseQueryTool
    BY <1>2 DEF ProposeStep, UseQueryTool, ReviewInv, ApprovedIsKnown, FailedHadNoRollback
  <1>3. CASE ProposeByTheBook
    BY <1>3 DEF ProposeByTheBook, ReviewInv, ApprovedIsKnown, FailedHadNoRollback
  <1>4. ASSUME NEW category, Request, Reply(category), category # "failed"
        PROVE  ReviewInv'
    BY <1>4 DEF Reply, ReviewInv, ApprovedIsKnown, FailedHadNoRollback
  <1>5. CASE HandleQueryAction
    <2>1. CASE \E category : category # "failed" /\ Reply(category) /\ Request
      BY <1>4, <2>1
    <2>2. CASE approved' = approved /\ outcome' # "failed"
      BY <2>2 DEF ReviewInv, ApprovedIsKnown, FailedHadNoRollback
    <2> QED BY <1>5, <2>1, <2>2 DEF HandleQueryAction, AnswerTo
  <1>6. CASE HandleDescribe
    BY <1>4, <1>6 DEF HandleDescribe
  <1>7. CASE HandlePreview
    <2>1. CASE Refused(step) # "none"
      BY <1>4, <1>7, <2>1 DEF HandlePreview, Refused
    <2>2. CASE Refused(step) = "none"
      <3>1. approved' = step /\ UNCHANGED <<change, outcome>>
        BY <1>7, <2>2 DEF HandlePreview
      <3> QED BY <2>2, <3>1, UnrefusedIsKnown
              DEF ReviewInv, ApprovedIsKnown, FailedHadNoRollback
    <2> QED BY <2>1, <2>2
  <1>8. CASE HandleExecute
    <2>1. CASE Refused(step) # "none"
      BY <1>4, <1>8, <2>1 DEF HandleExecute, Refused
    <2>2. CASE Refused(step) = "none" /\ approved # step
      BY <1>4, <1>8, <2>2 DEF HandleExecute
    <2>3. CASE Refused(step) = "none" /\ approved = step
      <3>1. approved' = NoStep /\ change'.action = step.action
        BY <1>8, <2>3 DEF HandleExecute, Ran
      <3>2. outcome' = "failed" =>
                ~ (Catalogue[step.action].rollback_available /\ step.action \in RollbackSpecFor)
        BY <1>8, <2>3 DEF HandleExecute, RunOutcomes
      <3> QED BY <3>1, <3>2 DEF ReviewInv, ApprovedIsKnown, FailedHadNoRollback
    <2> QED BY <2>1, <2>2, <2>3
  <1>9. CASE UNCHANGED vars
    BY <1>9 DEF vars, ReviewInv, ApprovedIsKnown, FailedHadNoRollback
  <1> QED BY <1>1, <1>2, <1>3, <1>5, <1>6, <1>7, <1>8, <1>9 DEF Next

\* preview.rs, executor.rs: what waits for approval, however long and under whatever
\* policies and roles, was shown with no less than its risk, five actions excepted, and
\* with the reboot it needs, GrubSetKargs excepted; of a failed step whose preview
\* promised a rollback one was tried, but for the four without a specification of one.
THEOREM PreviewsAlwaysTell == Spec => []PreviewsTell
  <1>1. Init => ReviewInv
    BY DEF Init, ReviewInv, ApprovedIsKnown, FailedHadNoRollback
  <1>2. SessionInv /\ ReviewInv => PreviewsTell
    <2> SUFFICES ASSUME SessionInv, ReviewInv PROVE PreviewsTell
      OBVIOUS
    <2>1. SoftPreviewIsHarmless
      BY PreviewsAssumption DEF ReviewInv, ApprovedIsKnown, SoftPreviewIsHarmless
    <2>2. RollbackPromiseKept
      <3> SUFFICES ASSUME change.via = "execute", outcome = "failed",
                          PreviewProfile[change.action].rollback_available
                   PROVE  change.action \in
                              {"NetplanSet", "ProAttach", "ProDetach", "RollbackDeployment"}
        BY DEF RollbackPromiseKept
      <3>1. change.action \in DOMAIN ExecutorParams \intersect PolicyNames
        BY DEF SessionInv, ChangeIsOfStep, NoChange
      <3> QED BY <3>1, PreviewsAssumption DEF ReviewInv, FailedHadNoRollback
    <2> QED BY <2>1, <2>2 DEF PreviewsTell
  <1> QED BY <1>1, <1>2, ReviewStep, SessionHolds, PTL DEF Spec

-----------------------------------------------------------------------------
(* The prompt.                                                             *)

\* distro.rs: the family of a host is one its file names, or none of the two.
LEMMA FamilyIsNamed ==
    ASSUME NEW file
    PROVE  /\ Family(file) = "debian" => Says(file, "ID") \in {"ubuntu", "debian"}
           /\ Family(file) = "fedora" => Says(file, "ID") \in IdsWithFedora
  <1> DEFINE id == Says(file, "ID")
             distro == detect_distro(file).distro
  <1>1. Other.distro = "Other"
    BY DEF Other
  <1>2. detect_fedora(file).distro \in {"Other", "Fedora", "FedoraSilverblue"}
    BY <1>1 DEF detect_fedora
  <1>3. detect_ubuntu(file).distro \in {"Other", "Ubuntu", "UbuntuCore"}
    BY <1>1 DEF detect_ubuntu
  <1>4. detect_debian(file).distro = "Debian"
    BY DEF detect_debian
  <1>5. /\ id = "fedora" => distro \in {"Other", "Fedora", "FedoraSilverblue"}
        /\ id = "ubuntu" => distro \in {"Other", "Ubuntu", "UbuntuCore"}
        /\ id = "debian" => distro = "Debian"
        /\ id \notin {"fedora", "ubuntu", "debian"} => distro = "Other"
    <2> USE DEF detect_distro
    <2>1. CASE id = "fedora"
      BY <1>2, <2>1
    <2>2. CASE id = "ubuntu"
      BY <1>3, <2>2
    <2>3. CASE id = "debian"
      BY <1>4, <2>3
    <2>4. CASE id \notin {"fedora", "ubuntu", "debian"}
      BY <1>1, <2>4
    <2> QED BY <2>1, <2>2, <2>3, <2>4
  <1>6. /\ Family(file) = "debian" => distro \in {"Ubuntu", "UbuntuCore", "Debian"}
        /\ Family(file) = "fedora" =>
               distro \in {"Fedora", "FedoraSilverblue"} \/ id \in IdsWithFedora
    BY DEF Family
  <1> HIDE DEF id, distro
  <1>7. /\ Family(file) = "debian" => id \in {"ubuntu", "debian"}
        /\ Family(file) = "fedora" => id \in IdsWithFedora
    BY <1>5, <1>6 DEF IdsWithFedora
  <1> QED BY <1>7 DEF id

\* A step from a table of the host's prompt or of the generic one, with the risk said
\* there, or one from the worked examples.
FromTable(s, risk, hint) ==
    \E table \in PromptTables(hint) : \E a \in DOMAIN table : s = Book(a) /\ risk = table[a]

FromExample(s, risk) == s \in EXAMPLES \union STATUS_EXAMPLES /\ risk = Low

Taught(s, risk) ==
    \/ \E hint \in {Family(release), "none"} : FromTable(s, risk, hint)
    \/ FromExample(s, risk)

\* What a table or an example may say, apart from the family of the host.
WellTaught(s, risk) ==
    /\ \/ Complete(s)
       \/ s.action = "AptSearch"
       \/ s \in EXAMPLES /\ "username" \in ExecutorParams[s.action]
    /\ s.action \in DOMAIN ExecutorParams => Fair(risk, s.action)
    /\ ShownAsTold(risk, s.action)

LEMMA TaughtWell ==
    ASSUME NEW s, NEW risk, Taught(s, risk)
    PROVE  WellTaught(s, risk)
  <1>1. ASSUME NEW hint, FromTable(s, risk, hint) PROVE WellTaught(s, risk)
    <2>1. PICK table \in PromptTables(hint) :
              \E a \in DOMAIN table : s = Book(a) /\ risk = table[a]
      BY <1>1 DEF FromTable
    <2>2. PICK a \in DOMAIN table : s = Book(a) /\ risk = table[a]
      BY <2>1
    <2>3. table \in GENERIC_PROMPT \union FEDORA_PROMPT \union DEBIAN_PROMPT
      BY DEF PromptTables
    <2>4. s.action = a
      BY <2>2 DEF Book
    <2>5. /\ a = "AptSearch" \/ Complete(Book(a))
          /\ a \in DOMAIN ExecutorParams => Fair(table[a], a)
          /\ ShownAsTold(table[a], a)
      BY <2>3, PromptAssumption
    <2> QED BY <2>2, <2>4, <2>5 DEF WellTaught
  <1>2. ASSUME FromExample(s, risk) PROVE WellTaught(s, risk)
    BY <1>2, PromptAssumption DEF FromExample, WellTaught
  <1> QED BY <1>1, <1>2 DEF Taught

\* Names that only one family has are not taught for the other, nor for none.
LEMMA TablesKeepApart ==
    ASSUME NEW hint, NEW table \in PromptTables(hint), NEW a \in DOMAIN table
    PROVE  /\ a \in DebianOnly \union DOMAIN DEBIAN_RISK_TABLES => hint = "debian"
           /\ a \in FedoraOnly \union DOMAIN FEDORA_RISK_TABLES => hint = "fedora"
  <1> DEFINE debian == DebianOnly \union DOMAIN DEBIAN_RISK_TABLES
             fedora == FedoraOnly \union DOMAIN FEDORA_RISK_TABLES
  <1>1. CASE table \in GENERIC_PROMPT
    BY <1>1, PromptAssumption
  <1>2. CASE table \notin GENERIC_PROMPT /\ hint = "fedora"
    <2>1. table \in FEDORA_PROMPT
      BY <1>2 DEF PromptTables
    <2> QED BY <1>2, <2>1, PromptAssumption
  <1>3. CASE table \notin GENERIC_PROMPT /\ hint # "fedora"
    <2>1. hint = "debian" /\ table \in DEBIAN_PROMPT
      BY <1>3 DEF PromptTables
    <2> QED BY <2>1, PromptAssumption
  <1> QED BY <1>1, <1>2, <1>3

\* What one family's prompt alone teaches is meant for a host whose file names it.
LEMMA TaughtAtHome ==
    ASSUME NEW s, NEW risk, Taught(s, risk), s \notin EXAMPLES
    PROVE  /\ s.action \in DOMAIN DEBIAN_RISK_TABLES =>
                  Says(release, "ID") \in {"ubuntu", "debian"}
           /\ s.action \in DOMAIN FEDORA_RISK_TABLES =>
                  Says(release, "ID") \in IdsWithFedora
  <1>1. CASE FromExample(s, risk)
    <2>1. s \in STATUS_EXAMPLES
      BY <1>1 DEF FromExample
    <2>2. /\ s.action \notin DOMAIN DEBIAN_RISK_TABLES
          /\ s.action \notin DOMAIN FEDORA_RISK_TABLES
      BY <2>1, PromptAssumption
    <2> QED BY <2>2
  <1>2. ASSUME NEW hint \in {Family(release), "none"}, FromTable(s, risk, hint)
        PROVE  /\ s.action \in DOMAIN DEBIAN_RISK_TABLES => Family(release) = "debian"
               /\ s.action \in DOMAIN FEDORA_RISK_TABLES => Family(release) = "fedora"
    <2>1. PICK table \in PromptTables(hint) :
              \E a \in DOMAIN table : s = Book(a) /\ risk = table[a]
      BY <1>2 DEF FromTable
    <2>2. PICK a \in DOMAIN table : s = Book(a) /\ risk = table[a]
      BY <2>1
    <2>3. s.action = a
      BY <2>2 DEF Book
    <2> QED BY <2>3, TablesKeepApart
  <1> QED BY <1>1, <1>2, FamilyIsNamed DEF Taught

\* No step of the book is turned away by the guard.
LEMMA BookIsRouted ==
    ASSUME ProposeByTheBook
    PROVE  Taught(step', told') /\ outcome' # "not_routed"
  <1>1. PICK hint \in {Family(release), "none"} :
            /\ FromTable(step', told', hint) \/ FromExample(step', told')
            /\ outcome' = IF hint = "none" \/ RoutesTo(step'.action, hint)
                          THEN "none" ELSE "not_routed"
    BY DEF ProposeByTheBook, FromTable, FromExample
  <1>2. Taught(step', told')
    BY <1>1 DEF Taught
  <1>3. ASSUME FromTable(step', told', hint) PROVE RoutesTo(step'.action, hint)
    <2>1. PICK table \in PromptTables(hint) :
              \E a \in DOMAIN table : step' = Book(a) /\ told' = table[a]
      BY <1>3 DEF FromTable
    <2>2. PICK a \in DOMAIN table : step' = Book(a) /\ told' = table[a]
      BY <2>1
    <2>3. step'.action = a
      BY <2>2 DEF Book
    <2> QED BY <2>3, TablesKeepApart DEF RoutesTo
  <1>4. ASSUME FromExample(step', told') PROVE RoutesTo(step'.action, hint)
    <2>1. step'.action \notin DebianOnly \union FedoraOnly
      BY <1>4, PromptAssumption DEF FromExample
    <2> QED BY <2>1 DEF RoutesTo
  <1> QED BY <1>1, <1>2, <1>3, <1>4

PromptInv ==
    /\ step = NoStep => told = Untold
    /\ told # Untold => step # NoStep /\ Taught(step, told) /\ outcome # "not_routed"

LEMMA PromptStep ==
    ASSUME PromptInv, [Next]_vars PROVE PromptInv'
  <1>1. CASE /\ UNCHANGED <<step, told, release>>
             /\ outcome' = outcome \/ outcome' # "not_routed"
    BY <1>1 DEF PromptInv, Taught
  <1>2. CASE ProposeStep
    BY <1>2 DEF ProposeStep, PromptInv
  <1>3. CASE UseQueryTool
    BY <1>3 DEF UseQueryTool, PromptInv
  <1>4. CASE ProposeByTheBook
    <2>1. Taught(step, told)'
      BY <1>4, BookIsRouted DEF ProposeByTheBook, Taught
    <2>2. step'.action \in NamedActions /\ NoStep.action \notin NamedActions
      BY <1>4, StepsAreNamed, NamesAssumption DEF NoStep
    <2> QED BY <1>4, <2>1, <2>2, BookIsRouted DEF PromptInv
  <1>5. CASE HandleQueryAction
    BY <1>1, <1>5 DEF HandleQueryAction, Reply, AnswerTo
  <1>6. CASE HandlePreview
    BY <1>1, <1>6 DEF HandlePreview, Reply, Refused
  <1>7. CASE HandleExecute
    BY <1>1, <1>7 DEF HandleExecute, RunOutcomes, Reply, Refused
  <1>8. CASE HandleDescribe
    BY <1>1, <1>8 DEF HandleDescribe, Reply
  <1>9. CASE StartDaemon \/ Reconnect \/ UNCHANGED vars
    BY <1>1, <1>9 DEF StartDaemon, Reconnect, vars
  <1> QED BY <1>2, <1>3, <1>4, <1>5, <1>6, <1>7, <1>8, <1>9 DEF Next

\* prompt.rs, distro.rs, distro_routing.rs, executor.rs, preview.rs: on every host,
\* whatever its os-release says, a step of a model that obeys its prompt is routed,
\* builds and does no more than was said, with the exceptions PromptIsRight names, is
\* not shown as riskier than said unless the preview has no arm for it, and is of one
\* family only where the file names it.
THEOREM ObeyingThePromptIsSafe == Spec => []PromptIsRight
  <1>1. Init => PromptInv
    BY DEF Init, PromptInv
  <1>2. SessionInv /\ PromptInv => PromptIsRight
    <2> SUFFICES ASSUME SessionInv, PromptInv, told # Untold PROVE PromptIsRight
      BY DEF PromptIsRight
    <2>1. /\ Taught(step, told) /\ WellTaught(step, told) /\ outcome # "not_routed"
          /\ step # NoStep
      BY TaughtWell DEF PromptInv
    <2>2. outcome = "validation_failure" =>
              ~SpecBuilds(step) /\ step.action \in NamedActions
      BY <2>1 DEF SessionInv
    <2>3. outcome = "validation_failure" =>
              \/ step.action \in {"ListJobHistory", "AptSearch"}
              \/ step \in EXAMPLES /\ "username" \in ExecutorParams[step.action]
      BY <2>1, <2>2, BuiltIsKnown DEF WellTaught
    <2>4. change # NoChange => Fair(told, change.action)
      BY <2>1 DEF WellTaught, SessionInv, ChangeIsOfStep
    <2>5. ShownAsTold(told, step.action)
      BY <2>1 DEF WellTaught
    <2> QED BY <2>1, <2>3, <2>4, <2>5, TaughtAtHome DEF PromptIsRight
  <1> QED BY <1>1, <1>2, PromptStep, SessionHolds, PTL DEF Spec

=============================================================================
