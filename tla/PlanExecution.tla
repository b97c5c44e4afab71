---------------------------- MODULE PlanExecution ----------------------------
(***************************************************************************)
(* The three clients that execute a plan against the daemon, step by step: *)
(* the CLI (runner.rs run_intent), the MCP server (mcp_server.rs           *)
(* execute_steps_inner) and the desktop shell (commands.rs approve_preview *)
(* with daemon_client.rs execute_action).  The plan and the risk it        *)
(* declares for each step come from a language model; the risk the daemon  *)
(* assesses comes back with the preview of the step.                       *)
(*                                                                         *)
(* The daemon is what ApprovalExec promises of it: a job that was claimed  *)
(* runs whatever becomes of the client, and ends with a terminal status.   *)
(***************************************************************************)
EXTENDS ApprovalPolicy

CONSTANTS
    N,              \* Steps of the plan.
    JobStatus       \* The terminal statuses an execute may end with.

ASSUME PlanAssumption ==
    /\ N \in Nat \ {0}
    /\ JobStatus \subseteq {"Succeeded", "Failed", "RolledBack", "NeedsReboot"}

VARIABLES
    client,         \* Which of the three it is.
    policy,         \* The flags of the CLI; max_risk also for the MCP call.
    step_by_step,   \* The CLI's --step-by-step.
    foreign,        \* Steps whose action does not fit the distribution.
    declared,       \* declared[i]: risk the planner wrote into step i.
    assessed,       \* assessed[i]: risk the daemon finds for step i.
    i,              \* The step being executed.
    phase,          \* Where the client is.
    confirmed,      \* Steps a human has confirmed.
    job,            \* job[i]: "none", "running" or how the job of step i ended.
    told,           \* told[i]: what the client learned: "none", a status, "refused"
                    \* (an error response) or "lost" (no answer).
    result          \* "none", or how the client ended.

plan == <<client, policy, step_by_step, foreign, declared, assessed>>
vars == <<plan, i, phase, confirmed, job, told, result>>

Steps == 1 .. N

-----------------------------------------------------------------------------

Init ==
    /\ client \in {"cli", "mcp", "gui"}
    /\ policy \in Policy
    /\ client # "cli" => /\ ~ policy.yes /\ ~ policy.non_interactive /\ ~ policy.dry_run
    /\ client = "gui" => policy.max_risk = None
    /\ step_by_step \in (IF client = "cli" THEN BOOLEAN ELSE {FALSE})
    /\ foreign \in (IF client = "cli" THEN {{}, {N}} ELSE {{}})
    /\ declared \in [Steps -> Risk]
    /\ assessed \in [Steps -> Risk]
    /\ i = 1
    /\ phase = "approve"
    /\ confirmed = {}
    /\ job = [s \in Steps |-> "none"]
    /\ told = [s \in Steps |-> "none"]
    /\ result = "none"

Finish(r) ==
    /\ phase' = "done"
    /\ result' = r

Proceed(next) ==
    /\ phase' = next
    /\ UNCHANGED result

\* What a decision of the policy means for the steps it was asked about.
Decide(decision, steps, next) ==
    \/ decision = "AutoApproved" /\ Proceed(next) /\ UNCHANGED confirmed
    \/ /\ decision = "RequiresPrompt"
       /\ \/ confirmed' = confirmed \union steps /\ Proceed(next)
          \/ UNCHANGED confirmed /\ Finish("rejected")
    \/ decision = "RequiresInteraction" /\ Finish("non_interactive") /\ UNCHANGED confirmed
    \/ decision = "ExceedsCeiling" /\ Finish("ceiling") /\ UNCHANGED confirmed

-----------------------------------------------------------------------------
(* Before the first step.                                                  *)

\* run_intent: --dry-run stops after the plan; otherwise plan-level approval
\* unless --step-by-step.
ApproveCli ==
    /\ client = "cli" /\ phase = "approve"
    /\ \/ policy.dry_run /\ Finish("ok") /\ UNCHANGED confirmed
       \/ /\ ~ policy.dry_run /\ ~ step_by_step
          /\ Decide(decide_plan(policy, declared), Steps, "guard")
       \/ ~ policy.dry_run /\ step_by_step /\ Proceed("guard") /\ UNCHANGED confirmed
    /\ UNCHANGED <<plan, i, job, told>>

\* The distro routing guard looks at the whole plan before anything runs.
Guard ==
    /\ phase = "guard"
    /\ IF foreign # {} THEN Finish("config") ELSE Proceed("step")
    /\ UNCHANGED <<plan, i, confirmed, job, told>>

\* The assistant calls sysknife_execute: max_risk is parsed first.
ApproveMcp ==
    /\ client = "mcp" /\ phase = "approve"
    /\ IF mcp_accepts(policy.max_risk) THEN Proceed("step") ELSE Finish("error")
    /\ UNCHANGED <<plan, i, confirmed, job, told>>

\* The user presses Approve on the plan the shell shows.
ApproveGui ==
    /\ client = "gui" /\ phase = "approve"
    /\ confirmed' = Steps
    /\ Proceed("step")
    /\ UNCHANGED <<plan, i, job, told>>

-----------------------------------------------------------------------------
(* One step.                                                               *)

\* The CLI's --step-by-step asks before previewing; the others do not.
BeginStep ==
    /\ phase = "step"
    /\ IF step_by_step THEN Decide(decide_step(policy, declared[i]), {i}, "preview")
                       ELSE Proceed("preview") /\ UNCHANGED confirmed
    /\ UNCHANGED <<plan, i, job, told>>

\* What a failed preview or execute ends the client with.
ErrorResult(cli) ==
    IF client = "cli" THEN cli ELSE IF client = "mcp" THEN "error" ELSE "failed"

\* The daemon's preview of step i; only the MCP server looks at its risk.
Preview ==
    /\ phase = "preview"
    /\ IF client = "mcp" /\ assessed[i] > mcp_ceiling(policy.max_risk)
       THEN Finish("error") ELSE Proceed("execute")
    /\ UNCHANGED <<plan, i, confirmed, job, told>>

\* An error response, a broken connection or (in the shell) a timeout.
PreviewError ==
    /\ phase = "preview"
    /\ Finish(ErrorResult("planning"))
    /\ UNCHANGED <<plan, i, confirmed, job, told>>

\* The daemon claims the previewed transaction and runs it, perhaps after the
\* client has given up on it ...
JobStarts ==
    /\ phase = "execute" \/ told[i] = "lost"
    /\ job[i] = "none"
    /\ job' = [job EXCEPT ![i] = "running"]
    /\ UNCHANGED <<plan, i, phase, confirmed, told, result>>

\* ... to its end, whether or not the client still listens.
JobEnds(s, status) ==
    /\ job[s] = "running"
    /\ job' = [job EXCEPT ![s] = status]
    /\ UNCHANGED <<plan, i, phase, confirmed, told, result>>

NextStep ==
    IF i = N THEN i' = i /\ Finish(IF client = "gui" THEN "succeeded" ELSE "ok")
             ELSE i' = i + 1 /\ Proceed("step")

\* Mutants of Completed: any result goes on to the next step; only a success is
\* recognised as an answer.
CompletedGoesOn ==
    /\ phase = "execute" /\ job[i] \in JobStatus
    /\ told' = [told EXCEPT ![i] = job[i]]
    /\ NextStep
    /\ UNCHANGED <<plan, confirmed, job>>
CompletedSucceeded ==
    /\ phase = "execute" /\ job[i] = "Succeeded"
    /\ told' = [told EXCEPT ![i] = job[i]]
    /\ NextStep
    /\ UNCHANGED <<plan, confirmed, job>>

\* JobCompleted arrives.  The CLI prints it and goes on; the MCP server and the
\* shell stop unless it says Succeeded.
Completed ==
    /\ phase = "execute" /\ job[i] \in JobStatus
    /\ told' = [told EXCEPT ![i] = job[i]]
    /\ \/ (client = "cli" \/ job[i] = "Succeeded") /\ NextStep
       \/ client = "mcp" /\ job[i] # "Succeeded" /\ Finish("ok") /\ UNCHANGED i
       \/ /\ client = "gui" /\ job[i] # "Succeeded"
          /\ Finish(IF job[i] = "NeedsReboot" THEN "needs_reboot"
                    ELSE IF job[i] = "RolledBack" THEN "rolled_back" ELSE "failed")
          /\ UNCHANGED i
    /\ UNCHANGED <<plan, confirmed, job>>

\* The daemon refuses the execute: authorisation, lookup or claim failed.
ExecuteRefused ==
    /\ phase = "execute" /\ job[i] = "none"
    /\ told' = [told EXCEPT ![i] = "refused"]
    /\ Finish(ErrorResult("execution"))
    /\ UNCHANGED <<plan, i, confirmed, job>>

\* Mutant of ExecuteLost: an unanswered step is taken for done.
ExecuteLostGoesOn ==
    /\ phase = "execute"
    /\ told' = [told EXCEPT ![i] = "lost"]
    /\ NextStep
    /\ UNCHANGED <<plan, confirmed, job>>

\* Mutant of ExecuteLost: the client connects again and retries the step.
ExecuteLostRetries ==
    /\ phase = "execute"
    /\ Proceed("preview")
    /\ UNCHANGED <<plan, i, confirmed, job, told>>

\* The connection breaks, or the shell gets no frame for 600 s.
ExecuteLost ==
    /\ phase = "execute"
    /\ told' = [told EXCEPT ![i] = "lost"]
    /\ Finish(ErrorResult("execution"))
    /\ UNCHANGED <<plan, i, confirmed, job>>

\* The client's own steps, and the failures that may end it at any time.
ClientStep ==
    ApproveCli \/ Guard \/ ApproveMcp \/ ApproveGui \/ BeginStep \/ Preview \/ Completed

Failure == PreviewError \/ ExecuteRefused \/ ExecuteLost

DaemonStep == JobStarts \/ \E s \in Steps, status \in JobStatus : JobEnds(s, status)

Next == ClientStep \/ Failure \/ DaemonStep

Spec == Init /\ [][Next]_vars

\* The client is scheduled, a human asked for a confirmation answers (an EOF on
\* stdin is a no), and the daemon serves an execute until its command ends.  The
\* CLI reads a frame without a timeout: it depends on the daemon.
Fairness == WF_vars(ClientStep) /\ WF_vars(DaemonStep)

FairSpec == Spec /\ Fairness

-----------------------------------------------------------------------------
(* Properties.                                                             *)

Ran(s) == job[s] # "none"

PlanTypeOK ==
    /\ client \in {"cli", "mcp", "gui"}
    /\ policy \in Policy /\ step_by_step \in BOOLEAN /\ foreign \subseteq Steps
    /\ declared \in [Steps -> Risk] /\ assessed \in [Steps -> Risk]
    /\ i \in Steps
    /\ phase \in {"approve", "guard", "step", "preview", "execute", "done"}
    /\ confirmed \subseteq Steps
    /\ job \in [Steps -> JobStatus \union {"none", "running"}]
    /\ told \in [Steps -> JobStatus \union {"none", "refused", "lost"}]
    /\ phase = "done" <=> result # "none"

\* A step starts only when every step before it has ended and the client has
\* been told how: a lost connection or a timeout never leaves a job running
\* under the next one (runner.rs, mcp_server.rs and commands.rs step loops).
StepsInOrder ==
    \A s, t \in Steps : s < t /\ Ran(t) => job[s] \in JobStatus /\ told[s] = job[s]

\* mcp_server.rs:561-564 and commands.rs: nothing runs after a step that did not
\* succeed, a needed reboot included.
HaltsAtFailure ==
    client \in {"mcp", "gui"} =>
        \A s, t \in Steps : s < t /\ Ran(t) => job[s] = "Succeeded"

\* approval.rs: what runs without a human's yes was allowed by --yes, is within
\* --max-risk (Low if absent) and, by the planner's risk, is never High.
UnconfirmedWithinFlags ==
    client = "cli" => \A s \in Steps : Ran(s) /\ s \notin confirmed =>
        /\ policy.yes
        /\ declared[s] < High
        /\ declared[s] <= (IF policy.max_risk = None THEN Low ELSE policy.max_risk)

\* --max-risk bounds the planner's risk of every step the CLI runs, confirmed or
\* not; max_risk bounds the daemon's risk of every step the MCP server runs,
\* which is never High.
CeilingRespected ==
    \A s \in Steps : Ran(s) =>
        /\ client = "cli" /\ policy.max_risk # None => declared[s] <= policy.max_risk
        /\ client = "mcp" => /\ assessed[s] < High
                             /\ policy.max_risk # None => assessed[s] <= policy.max_risk

\* A plan with one step for another distribution runs none of its steps, nor
\* does a dry run (runner.rs: the guard looks at the whole plan first).
NothingRunsHalfway == foreign # {} \/ policy.dry_run => \A s \in Steps : ~ Ran(s)

\* A plan runs as it was shown: in order, not past a failure, not by half
\* (the step loops of runner.rs, mcp_server.rs and commands.rs).
OrderKept == StepsInOrder /\ HaltsAtFailure /\ NothingRunsHalfway

\* No step runs that the flags or the call's max_risk rule out.
FlagsRespected == UnconfirmedWithinFlags /\ CeilingRespected

\* The shell says "succeeded" only of a plan all of whose jobs succeeded, and
\* "rolled_back" or "needs_reboot" only of a job that ended so.
OutcomeIsTrue ==
    client = "gui" =>
        /\ result = "succeeded" => \A s \in Steps : job[s] = "Succeeded"
        /\ result = "rolled_back" => \E s \in Steps : job[s] = "RolledBack"
        /\ result = "needs_reboot" => \E s \in Steps : job[s] = "NeedsReboot"

\* The most that can still happen: five steps of a client for each step of the plan
\* not begun, those left for the one in hand, and the two of its job.
Left ==
    LET client_steps == [approve |-> 5, guard |-> 4, step |-> 3, preview |-> 2,
                         execute |-> 1, done |-> 0]
        job_steps    == IF job[i] = "none" THEN 2 ELSE IF job[i] = "running" THEN 1 ELSE 0
    IN  5 * (N - i) + client_steps[phase] + job_steps

\* Nothing is tried twice: no client previews or executes a step again after an
\* error, a lost answer or a failed job, and nothing the daemon does late sends a
\* client back (the step loops of runner.rs, mcp_server.rs and commands.rs).
PlanAdvances == [][Left' < Left]_vars

\* Every plan comes to an end, in whatever order answers and failures arrive.
PlanEnds == <>(phase = "done")

\* mcp_server.rs:327-328: "Steps whose daemon-assessed risk exceeds `max_risk`
\* cause an error before any execution occurs."
CeilingBeforeExecution ==
    client = "mcp" => \A s, t \in Steps : Ran(s) => assessed[t] <= mcp_ceiling(policy.max_risk)

\* docs/mcp.md:65: max_risk is a "Ceiling: "low", "medium" (default), "high"", and 236-237:
\* set it "when you know the plan contains high-risk steps and the user has approved them".
EveryCeilingAccepted == [][ApproveMcp => phase' = "step"]_vars

\* docs/cli.md:167: with --yes, "HIGH always requires human confirmation".  The
\* daemon's assessment is the authoritative one (mcp_server.rs:507).
HighIsConfirmed ==
    client = "cli" => \A s \in Steps : Ran(s) /\ assessed[s] = High => s \in confirmed

=============================================================================
