------------------------- MODULE PlanExecutionProofs -------------------------
(***************************************************************************)
(* Theorems about PlanExecution: for plans of every length, all flags,     *)
(* every assessment of risk and all three clients.                         *)
(***************************************************************************)
EXTENDS PlanExecution, NaturalSets

-----------------------------------------------------------------------------
(* The policy.                                                             *)

\* What the flags p leave to run at risk r, with or without a human's yes.
WithinCeiling(p, r) == p.max_risk # None => r <= p.max_risk
Unasked(p, r) ==
    p.yes /\ r < High /\ r <= (IF p.max_risk = None THEN Low ELSE p.max_risk)

\* decide_step approves by itself only what the flags allow unasked, and asks
\* only for what the ceiling allows.
LEMMA DecideStepSound ==
    ASSUME NEW p \in Policy, NEW r \in Risk, ~ p.dry_run
    PROVE  /\ decide_step(p, r) = "AutoApproved" => Unasked(p, r) /\ WithinCeiling(p, r)
           /\ decide_step(p, r) = "RequiresPrompt" => WithinCeiling(p, r)
           /\ decide_step(p, r) \in Decision
  BY DEF decide_step, includes, effective_auto_ceiling, HARDCODED_MAX_AUTO_APPROVE,
         Unasked, WithinCeiling, Policy, Risk, Low, Medium, High, None, Decision

\* decide_plan approves or asks only if it would approve or ask for every step.
LEMMA DecidePlanSound ==
    ASSUME NEW p \in Policy, NEW d \in [Steps -> Risk], ~ p.dry_run, N \in Nat
    PROVE  /\ decide_plan(p, d) = "AutoApproved" =>
                  \A s \in Steps : Unasked(p, d[s]) /\ WithinCeiling(p, d[s])
           /\ decide_plan(p, d) = "RequiresPrompt" =>
                  \A s \in Steps : WithinCeiling(p, d[s])
  <1> DEFINE ends == {s \in DOMAIN d :
                         decide_step(p, d[s]) \in {"ExceedsCeiling", "RequiresInteraction"}}
             first == CHOOSE s \in ends : \A t \in ends : s <= t
  <1>1. CASE ends # {}
    <2>1. ends \subseteq Nat
      BY DEF Steps
    <2>2. \E s \in ends : \A t \in ends : s <= t
      <3> HIDE DEF ends
      <3> QED BY <1>1, <2>1, LeastExists
    <2>3. first \in ends
      <3> HIDE DEF ends
      <3> QED BY <2>2
    <2>4. decide_plan(p, d) = decide_step(p, d[first])
      BY <1>1 DEF decide_plan
    <2> QED BY <2>3, <2>4
  <1>2. CASE ends = {}
    <2>1. \A s \in Steps : decide_step(p, d[s]) \notin {"ExceedsCeiling", "RequiresInteraction"}
      BY <1>2
    <2>2. \A s \in Steps : decide_step(p, d[s]) \in {"AutoApproved", "RequiresPrompt"}
      BY <2>1, DecideStepSound DEF Decision
    <2>3. decide_plan(p, d) = IF \E s \in Steps : decide_step(p, d[s]) = "RequiresPrompt"
                              THEN "RequiresPrompt" ELSE "AutoApproved"
      BY <1>2 DEF decide_plan
    <2> QED BY <2>2, <2>3, DecideStepSound
  <1> QED BY <1>1, <1>2

-----------------------------------------------------------------------------
(* The inductive invariant.  i is the only step in flight: what lies after *)
(* it is untouched, what lies before it has ended and was told.            *)

InFlight ==
    /\ \A s \in Steps : s > i => job[s] = "none" /\ told[s] = "none"
    /\ \A s \in Steps : s < i => job[s] \in JobStatus /\ told[s] = job[s]
    /\ phase \in {"approve", "guard", "step", "preview"} => job[i] = "none" /\ told[i] = "none"
    /\ phase = "execute" => told[i] = "none"

\* Something came of step s.
Used(s) == job[s] # "none" \/ told[s] # "none"

\* Only the CLI has a dry run, step-by-step approval and a routing guard, and it
\* is past the first and the last before it begins.
PlanIsChecked ==
    /\ client # "cli" => foreign = {} /\ ~ policy.dry_run /\ ~ step_by_step
    /\ phase = "guard" => client = "cli" /\ ~ policy.dry_run
    /\ phase \in {"step", "preview", "execute"} \/ (\E s \in Steps : Used(s)) =>
           foreign = {} /\ ~ policy.dry_run

\* The two clients that stop at a failure passed only successes.
PastSucceeded ==
    client # "cli" => \A s \in Steps : s < i => job[s] = "Succeeded"

Approved(s) ==
    /\ s \in confirmed \/ Unasked(policy, declared[s])
    /\ WithinCeiling(policy, declared[s])

\* The CLI approves a step before its preview: all at once, or one by one.
CliApproved ==
    client = "cli" => \A s \in Steps :
        \/ s < i
        \/ s = i /\ (phase \in {"preview", "execute"} \/ Used(i))
        \/ ~ step_by_step /\ phase \in {"guard", "step"}
        \/ ~ step_by_step /\ phase \in {"preview", "execute"}
        => Approved(s)

\* The MCP server compares a step with the ceiling between preview and execute.
McpBounded ==
    client = "mcp" =>
        /\ phase \in {"step", "preview", "execute"} => mcp_accepts(policy.max_risk)
        /\ \A s \in Steps : s < i \/ (s = i /\ (phase = "execute" \/ Used(i))) =>
               mcp_accepts(policy.max_risk) /\ assessed[s] <= mcp_ceiling(policy.max_risk)

PlanInv ==
    /\ PlanTypeOK /\ InFlight /\ PlanIsChecked /\ PastSucceeded
    /\ CliApproved /\ McpBounded /\ OutcomeIsTrue


\* PlanInv holds at the start.
LEMMA PlanInitInv == Init => PlanInv
  <1> USE PlanAssumption DEF Steps
  <1> SUFFICES ASSUME Init PROVE PlanInv
    OBVIOUS
  <1>1. PlanTypeOK
    <2>1. step_by_step \in BOOLEAN
      BY DEF Init
    <2>2. foreign \subseteq Steps
      BY DEF Init
    <2>3. /\ job \in [Steps -> JobStatus \union {"none", "running"}]
          /\ told \in [Steps -> JobStatus \union {"none", "refused", "lost"}]
      BY DEF Init
    <2>4. phase = "done" <=> result # "none"
      BY DEF Init
    <2>5. i \in Steps /\ confirmed \subseteq Steps
      BY DEF Init
    <2> QED BY <2>1, <2>2, <2>3, <2>4, <2>5 DEF Init, PlanTypeOK
  <1>2. InFlight
    BY DEF Init, PlanTypeOK, InFlight
  <1>3. PlanIsChecked
    BY DEF Init, PlanTypeOK, PlanIsChecked, Used
  <1>4. PastSucceeded
    BY DEF Init, PlanTypeOK, PastSucceeded
  <1>5. CliApproved
    BY DEF Init, PlanTypeOK, CliApproved, Approved, Used
  <1>6. McpBounded
    BY DEF Init, PlanTypeOK, McpBounded, Used
  <1>7. OutcomeIsTrue
    BY DEF Init, PlanTypeOK, OutcomeIsTrue, PastSucceeded
  <1> QED BY <1>1, <1>2, <1>3, <1>4, <1>5, <1>6, <1>7 DEF PlanInv

\* No step of a client or of the daemon breaks it.
LEMMA ApproveCliKeeps ==
    ASSUME PlanInv, ApproveCli
    PROVE  PlanInv'
  <1> USE PlanAssumption DEF Steps, PlanInv, ApproveCli, Finish, Proceed, plan, Decide
  <1>1. PlanTypeOK'
    BY DEF PlanTypeOK, InFlight
  <1>2. InFlight'
    BY DEF PlanTypeOK, InFlight
  <1>3. PlanIsChecked'
    BY DEF PlanTypeOK, InFlight, PlanIsChecked, Used
  <1>4. PastSucceeded'
    BY DEF PlanTypeOK, InFlight, PastSucceeded
  <1>5. CliApproved'
    BY DecidePlanSound DEF PlanTypeOK, InFlight, CliApproved, Approved, Used, PlanIsChecked
  <1>6. McpBounded'
    BY DEF PlanTypeOK, InFlight, McpBounded, Used
  <1>7. OutcomeIsTrue'
    BY DEF PlanTypeOK, InFlight, OutcomeIsTrue, PastSucceeded
  <1> QED BY <1>1, <1>2, <1>3, <1>4, <1>5, <1>6, <1>7

LEMMA GuardKeeps ==
    ASSUME PlanInv, Guard
    PROVE  PlanInv'
  <1> USE PlanAssumption DEF Steps, PlanInv, Guard, Finish, Proceed, plan
  <1>1. PlanTypeOK'
    BY DEF PlanTypeOK, InFlight
  <1>2. InFlight'
    BY DEF PlanTypeOK, InFlight
  <1>3. PlanIsChecked'
    BY DEF PlanTypeOK, InFlight, PlanIsChecked, Used
  <1>4. PastSucceeded'
    BY DEF PlanTypeOK, InFlight, PastSucceeded
  <1>5. CliApproved'
    BY DEF PlanTypeOK, InFlight, CliApproved, Approved, Used
  <1>6. McpBounded'
    BY DEF PlanTypeOK, InFlight, McpBounded, Used, PlanIsChecked
  <1>7. OutcomeIsTrue'
    BY DEF PlanTypeOK, InFlight, OutcomeIsTrue, PastSucceeded
  <1> QED BY <1>1, <1>2, <1>3, <1>4, <1>5, <1>6, <1>7

LEMMA ApproveMcpKeeps ==
    ASSUME PlanInv, ApproveMcp
    PROVE  PlanInv'
  <1> USE PlanAssumption DEF Steps, PlanInv, ApproveMcp, Finish, Proceed, plan
  <1>1. PlanTypeOK'
    BY DEF PlanTypeOK, InFlight
  <1>2. InFlight'
    BY DEF PlanTypeOK, InFlight
  <1>3. PlanIsChecked'
    BY DEF PlanTypeOK, InFlight, PlanIsChecked, Used
  <1>4. PastSucceeded'
    BY DEF PlanTypeOK, InFlight, PastSucceeded
  <1>5. CliApproved'
    BY DEF PlanTypeOK, InFlight, CliApproved, Approved, Used
  <1>6. McpBounded'
    BY DEF PlanTypeOK, InFlight, McpBounded, Used
  <1>7. OutcomeIsTrue'
    BY DEF PlanTypeOK, InFlight, OutcomeIsTrue, PastSucceeded
  <1> QED BY <1>1, <1>2, <1>3, <1>4, <1>5, <1>6, <1>7

LEMMA ApproveGuiKeeps ==
    ASSUME PlanInv, ApproveGui
    PROVE  PlanInv'
  <1> USE PlanAssumption DEF Steps, PlanInv, ApproveGui, Finish, Proceed, plan
  <1>1. PlanTypeOK'
    BY DEF PlanTypeOK, InFlight
  <1>2. InFlight'
    BY DEF PlanTypeOK, InFlight
  <1>3. PlanIsChecked'
    BY DEF PlanTypeOK, InFlight, PlanIsChecked, Used
  <1>4. PastSucceeded'
    BY DEF PlanTypeOK, InFlight, PastSucceeded
  <1>5. CliApproved'
    BY DEF PlanTypeOK, InFlight, CliApproved, Approved, Used
  <1>6. McpBounded'
    BY DEF PlanTypeOK, InFlight, McpBounded, Used
  <1>7. OutcomeIsTrue'
    BY DEF PlanTypeOK, InFlight, OutcomeIsTrue, PastSucceeded
  <1> QED BY <1>1, <1>2, <1>3, <1>4, <1>5, <1>6, <1>7

LEMMA BeginStepKeeps ==
    ASSUME PlanInv, BeginStep
    PROVE  PlanInv'
  <1> USE PlanAssumption DEF Steps, PlanInv, BeginStep, Finish, Proceed, plan, Decide
  <1>1. PlanTypeOK'
    BY DEF PlanTypeOK, InFlight
  <1>2. InFlight'
    BY DEF PlanTypeOK, InFlight
  <1>3. PlanIsChecked'
    BY DEF PlanTypeOK, InFlight, PlanIsChecked, Used
  <1>4. PastSucceeded'
    BY DEF PlanTypeOK, InFlight, PastSucceeded
  <1>5. CliApproved'
    BY DecideStepSound DEF PlanTypeOK, InFlight, CliApproved, Approved, Used, PlanIsChecked
  <1>6. McpBounded'
    BY DEF PlanTypeOK, InFlight, McpBounded, Used
  <1>7. OutcomeIsTrue'
    BY DEF PlanTypeOK, InFlight, OutcomeIsTrue, PastSucceeded
  <1> QED BY <1>1, <1>2, <1>3, <1>4, <1>5, <1>6, <1>7

LEMMA PreviewKeeps ==
    ASSUME PlanInv, Preview
    PROVE  PlanInv'
  <1> USE PlanAssumption DEF Steps, PlanInv, Preview, Finish, Proceed, plan
  <1>1. PlanTypeOK'
    BY DEF PlanTypeOK, InFlight
  <1>2. InFlight'
    BY DEF PlanTypeOK, InFlight
  <1>3. PlanIsChecked'
    BY DEF PlanTypeOK, InFlight, PlanIsChecked, Used
  <1>4. PastSucceeded'
    BY DEF PlanTypeOK, InFlight, PastSucceeded
  <1>5. CliApproved'
    BY DEF PlanTypeOK, InFlight, CliApproved, Approved, Used
  <1>6. McpBounded'
    BY SMTT(30) DEF PlanTypeOK, InFlight, McpBounded, Used, PlanIsChecked, mcp_ceiling, Policy,
       Risk, None, Low, Medium, High
  <1>7. OutcomeIsTrue'
    BY DEF PlanTypeOK, InFlight, OutcomeIsTrue, PastSucceeded
  <1> QED BY <1>1, <1>2, <1>3, <1>4, <1>5, <1>6, <1>7

LEMMA PreviewErrorKeeps ==
    ASSUME PlanInv, PreviewError
    PROVE  PlanInv'
  <1> USE PlanAssumption DEF Steps, PlanInv, PreviewError, Finish, Proceed, plan,
          ErrorResult
  <1>1. PlanTypeOK'
    BY DEF PlanTypeOK, InFlight
  <1>2. InFlight'
    BY DEF PlanTypeOK, InFlight
  <1>3. PlanIsChecked'
    BY DEF PlanTypeOK, InFlight, PlanIsChecked, Used
  <1>4. PastSucceeded'
    BY DEF PlanTypeOK, InFlight, PastSucceeded
  <1>5. CliApproved'
    BY DEF PlanTypeOK, InFlight, CliApproved, Approved, Used
  <1>6. McpBounded'
    BY DEF PlanTypeOK, InFlight, McpBounded, Used
  <1>7. OutcomeIsTrue'
    BY DEF PlanTypeOK, InFlight, OutcomeIsTrue, PastSucceeded
  <1> QED BY <1>1, <1>2, <1>3, <1>4, <1>5, <1>6, <1>7

LEMMA JobStartsKeeps ==
    ASSUME PlanInv, JobStarts
    PROVE  PlanInv'
  <1> USE PlanAssumption DEF Steps, PlanInv, JobStarts, Finish, Proceed, plan
  <1>1. PlanTypeOK'
    BY DEF PlanTypeOK, InFlight
  <1>2. InFlight'
    BY DEF PlanTypeOK, InFlight
  <1>3. PlanIsChecked'
    BY DEF PlanTypeOK, InFlight, PlanIsChecked, Used
  <1>4. PastSucceeded'
    BY DEF PlanTypeOK, InFlight, PastSucceeded
  <1>5. CliApproved'
    BY DEF PlanTypeOK, InFlight, CliApproved, Approved, Used
  <1>6. McpBounded'
    BY DEF PlanTypeOK, InFlight, McpBounded, Used
  <1>7. OutcomeIsTrue'
    BY DEF PlanTypeOK, InFlight, OutcomeIsTrue, PastSucceeded
  <1> QED BY <1>1, <1>2, <1>3, <1>4, <1>5, <1>6, <1>7

LEMMA JobEndsKeeps ==
    ASSUME PlanInv, NEW st \in Steps, NEW status \in JobStatus, JobEnds(st, status)
    PROVE  PlanInv'
  <1> USE PlanAssumption DEF Steps, PlanInv, JobEnds, Finish, Proceed, plan
  <1>1. PlanTypeOK'
    BY DEF PlanTypeOK, InFlight
  <1>2. InFlight'
    BY DEF PlanTypeOK, InFlight
  <1>3. PlanIsChecked'
    BY DEF PlanTypeOK, InFlight, PlanIsChecked, Used
  <1>4. PastSucceeded'
    BY DEF PlanTypeOK, InFlight, PastSucceeded
  <1>5. CliApproved'
    BY DEF PlanTypeOK, InFlight, CliApproved, Approved, Used
  <1>6. McpBounded'
    BY DEF PlanTypeOK, InFlight, McpBounded, Used
  <1>7. OutcomeIsTrue'
    BY DEF PlanTypeOK, InFlight, OutcomeIsTrue, PastSucceeded
  <1> QED BY <1>1, <1>2, <1>3, <1>4, <1>5, <1>6, <1>7

LEMMA CompletedKeeps ==
    ASSUME PlanInv, Completed
    PROVE  PlanInv'
  <1> USE PlanAssumption DEF Steps, PlanInv, Completed, Finish, Proceed, plan, NextStep
  <1>1. PlanTypeOK'
    BY DEF PlanTypeOK, InFlight
  <1>2. InFlight'
    BY DEF PlanTypeOK, InFlight
  <1>3. PlanIsChecked'
    BY DEF PlanTypeOK, InFlight, PlanIsChecked, Used
  <1>4. PastSucceeded'
    BY DEF PlanTypeOK, InFlight, PastSucceeded
  <1>5. CliApproved'
    BY DEF PlanTypeOK, InFlight, CliApproved, Approved, Used
  <1>6. McpBounded'
    BY DEF PlanTypeOK, InFlight, McpBounded, Used
  <1>7. OutcomeIsTrue'
    BY DEF PlanTypeOK, InFlight, OutcomeIsTrue, PastSucceeded
  <1> QED BY <1>1, <1>2, <1>3, <1>4, <1>5, <1>6, <1>7

LEMMA ExecuteRefusedKeeps ==
    ASSUME PlanInv, ExecuteRefused
    PROVE  PlanInv'
  <1> USE PlanAssumption DEF Steps, PlanInv, ExecuteRefused, Finish, Proceed, plan,
          ErrorResult
  <1>1. PlanTypeOK'
    BY DEF PlanTypeOK, InFlight
  <1>2. InFlight'
    BY DEF PlanTypeOK, InFlight
  <1>3. PlanIsChecked'
    BY DEF PlanTypeOK, InFlight, PlanIsChecked, Used
  <1>4. PastSucceeded'
    BY DEF PlanTypeOK, InFlight, PastSucceeded
  <1>5. CliApproved'
    BY DEF PlanTypeOK, InFlight, CliApproved, Approved, Used
  <1>6. McpBounded'
    BY DEF PlanTypeOK, InFlight, McpBounded, Used
  <1>7. OutcomeIsTrue'
    BY DEF PlanTypeOK, InFlight, OutcomeIsTrue, PastSucceeded
  <1> QED BY <1>1, <1>2, <1>3, <1>4, <1>5, <1>6, <1>7

LEMMA ExecuteLostKeeps ==
    ASSUME PlanInv, ExecuteLost
    PROVE  PlanInv'
  <1> USE PlanAssumption DEF Steps, PlanInv, ExecuteLost, Finish, Proceed, plan, ErrorResult
  <1>1. PlanTypeOK'
    BY DEF PlanTypeOK, InFlight
  <1>2. InFlight'
    BY DEF PlanTypeOK, InFlight
  <1>3. PlanIsChecked'
    BY DEF PlanTypeOK, InFlight, PlanIsChecked, Used
  <1>4. PastSucceeded'
    BY DEF PlanTypeOK, InFlight, PastSucceeded
  <1>5. CliApproved'
    BY DEF PlanTypeOK, InFlight, CliApproved, Approved, Used
  <1>6. McpBounded'
    BY DEF PlanTypeOK, InFlight, McpBounded, Used
  <1>7. OutcomeIsTrue'
    BY DEF PlanTypeOK, InFlight, OutcomeIsTrue, PastSucceeded
  <1> QED BY <1>1, <1>2, <1>3, <1>4, <1>5, <1>6, <1>7

-----------------------------------------------------------------------------
(* The theorems.                                                           *)

\* Whatever the plan, the flags and the answers, the client's loop and the daemon
\* keep the invariant.
THEOREM PlanInvariant == Spec => []PlanInv
  <1>1. ASSUME PlanInv, [Next]_vars PROVE PlanInv'
    <2>1. CASE ClientStep
      BY <1>1, <2>1, ApproveCliKeeps, GuardKeeps, ApproveMcpKeeps, ApproveGuiKeeps,
         BeginStepKeeps, PreviewKeeps, CompletedKeeps DEF ClientStep
    <2>2. CASE Failure
      BY <1>1, <2>2, PreviewErrorKeeps, ExecuteRefusedKeeps, ExecuteLostKeeps DEF Failure
    <2>3. CASE DaemonStep
      BY <1>1, <2>3, JobStartsKeeps, JobEndsKeeps DEF DaemonStep
    <2>4. CASE UNCHANGED vars
      BY <1>1, <2>4 DEF vars, plan, PlanInv, PlanTypeOK, InFlight, PlanIsChecked, Used,
         PastSucceeded, CliApproved, Approved, McpBounded, OutcomeIsTrue
    <2> QED BY <1>1, <2>1, <2>2, <2>3, <2>4 DEF Next
  <1> QED BY PlanInitInv, <1>1, PTL DEF Spec

\* The step loops of runner.rs, mcp_server.rs and commands.rs run a plan of any
\* length in order, the latter two never past a failure, none of it if a step is
\* for another distribution or the run is dry.
THEOREM PlanOrderKept == Spec => []OrderKept
  <1>1. PlanInv => OrderKept
    <2> SUFFICES ASSUME PlanInv PROVE OrderKept
      OBVIOUS
    <2> USE DEF PlanInv, PlanTypeOK, InFlight, Ran, Steps
    <2>1. StepsInOrder
      BY DEF StepsInOrder
    <2>2. HaltsAtFailure
      BY DEF HaltsAtFailure, PastSucceeded
    <2>3. NothingRunsHalfway
      BY DEF NothingRunsHalfway, PlanIsChecked, Used
    <2> QED BY <2>1, <2>2, <2>3 DEF OrderKept
  <1> QED BY PlanInvariant, <1>1, PTL

\* approval.rs, and the ceiling of mcp_server.rs: no combination of flags, declared
\* and assessed risks lets a step run that they rule out.
THEOREM PlanFlagsRespected == Spec => []FlagsRespected
  <1>1. PlanInv => FlagsRespected
    <2> SUFFICES ASSUME PlanInv PROVE FlagsRespected
      OBVIOUS
    <2>1. ASSUME NEW s \in Steps, Ran(s)
          PROVE  Used(s) /\ (s < i \/ s = i)
      BY <2>1 DEF PlanInv, PlanTypeOK, InFlight, Ran, Used, Steps
    <2>2. ASSUME client = "cli", NEW s \in Steps, Ran(s)
          PROVE  Approved(s)
      BY <2>1, <2>2 DEF PlanInv, CliApproved
    <2>3. UnconfirmedWithinFlags
      BY <2>2 DEF UnconfirmedWithinFlags, Approved, Unasked
    <2>4. ASSUME client = "mcp", NEW s \in Steps, Ran(s)
          PROVE  mcp_accepts(policy.max_risk) /\ assessed[s] <= mcp_ceiling(policy.max_risk)
      BY <2>1, <2>4 DEF PlanInv, McpBounded
    <2>5. CeilingRespected
      <3>1. \A s \in Steps : assessed[s] \in Int
        BY DEF PlanInv, PlanTypeOK, Risk, Low, High
      <3>2. policy.max_risk \in Int
        BY DEF PlanInv, PlanTypeOK, Policy, Risk, Low, High, None
      <3> QED BY <2>2, <2>4, <3>1, <3>2
              DEF CeilingRespected, Approved, WithinCeiling, mcp_accepts, mcp_ceiling,
                  Medium, High, None
    <2> QED BY <2>3, <2>5 DEF FlagsRespected
  <1> QED BY PlanInvariant, <1>1, PTL

\* commands.rs: the shell reports success, rollback and reboot only as they were.
THEOREM PlanOutcomeIsTrue == Spec => []OutcomeIsTrue
  BY PlanInvariant, PTL DEF PlanInv

\* Each step of client and daemon lowers what is left, and it is never negative.
LEMMA StepLowersLeft ==
    ASSUME PlanInv, Next, PlanInv'
    PROVE  Left' < Left
  <1> USE PlanAssumption DEF Steps, Left, Finish, Proceed, plan
  <1>1. PlanTypeOK /\ InFlight /\ PlanTypeOK' /\ InFlight'
    BY DEF PlanInv
  <1>2. i \in 1 .. N /\ N \in Nat /\ phase \in {"approve", "guard", "step", "preview", "execute", "done"}
    BY <1>1 DEF PlanTypeOK
  <1>3. CASE ApproveCli \/ Guard \/ ApproveMcp \/ ApproveGui
    BY <1>2, <1>3 DEF ApproveCli, Guard, ApproveMcp, ApproveGui, Decide
  <1>4. CASE BeginStep \/ Preview \/ PreviewError
    BY <1>2, <1>4 DEF BeginStep, Preview, PreviewError, Decide
  <1>5. CASE ExecuteRefused \/ ExecuteLost
    BY <1>2, <1>5 DEF ExecuteRefused, ExecuteLost
  <1>6. CASE Completed
    <2>1. job[i] \notin {"none", "running"} /\ job' = job
      BY <1>6 DEF Completed
    <2>2. CASE UNCHANGED i /\ phase' = "done"
      BY <1>2, <1>6, <2>1, <2>2 DEF Completed
    <2>3. CASE i # N /\ i' = i + 1 /\ phase' = "step"
      BY <1>2, <1>6, <2>1, <2>3 DEF Completed
    <2> QED BY <1>6, <2>2, <2>3 DEF Completed, NextStep
  <1>7. CASE DaemonStep
    <2>1. CASE JobStarts
      BY <1>1, <1>2, <2>1 DEF JobStarts, PlanTypeOK
    <2>2. ASSUME NEW s \in Steps, NEW status \in JobStatus, JobEnds(s, status)
          PROVE  Left' < Left
      <3>1. s = i
        BY <1>1, <1>2, <2>2 DEF JobEnds, InFlight, PlanTypeOK
      <3> QED BY <1>1, <1>2, <2>2, <3>1 DEF JobEnds, PlanTypeOK
    <2> QED BY <1>7, <2>1, <2>2 DEF DaemonStep
  <1> QED BY <1>3, <1>4, <1>5, <1>6, <1>7 DEF Next, ClientStep, Failure

\* runner.rs, mcp_server.rs, commands.rs: a plan of N steps is over after 5 N + 2
\* steps of client and daemon at the most: no client goes back or tries again.
THEOREM PlanIsBounded ==
    /\ Spec => PlanAdvances
    /\ Spec => [](Left \in Nat)
    /\ Init => Left = 5 * N + 2
  <1>1. ASSUME PlanInv, PlanInv', [Next]_vars PROVE [Left' < Left]_vars
    BY <1>1, StepLowersLeft
  <1>2. PlanInv => Left \in Nat
    BY PlanAssumption DEF PlanInv, PlanTypeOK, Steps, Left
  <1>3. Init => Left = 5 * N + 2
    BY PlanAssumption DEF Init, Steps, Left
  <1>4. Spec => PlanAdvances
    BY PlanInvariant, <1>1, PTL DEF Spec, PlanAdvances
  <1>5. Spec => [](Left \in Nat)
    BY PlanInvariant, <1>2, PTL
  <1> QED BY <1>3, <1>4, <1>5

=============================================================================
