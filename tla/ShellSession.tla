---------------------------- MODULE ShellSession ----------------------------
(***************************************************************************)
(* The desktop shell: the page (shellState.ts, App.tsx, daemonBridge.ts),  *)
(* the Tauri commands behind it (commands.rs) and the events in between.   *)
(* A request is an intent submitted on the page: its plan, its job and its *)
(* review are named by it.  What a step does in the daemon is              *)
(* PlanExecution's subject: here a job ends with an outcome.               *)
(*                                                                         *)
(* Left out: the timeline, the daemon indicator, and Cancel, which        *)
(* cancel_job refuses.  SetupSession has the setup wizard.                 *)
(***************************************************************************)
EXTENDS Planner

CONSTANTS
    Request,     \* The planning calls made by the page.
    Bridged      \* Do the page and the backend agree on the names of the events?

ASSUME ShellAssumption == Request \subseteq Call /\ Bridged \in BOOLEAN

VARIABLES
    mode,        \* state.mode.
    intent,      \* The request whose intent is on the page, or NoCall.
    plan,        \* The request whose plan is on the page, or NoCall.
    promise,     \* promise[r]: requestPlan is "none", "pending" or "settled".
    job,         \* job[r]: approve_preview is "none", "running", "emitting", "done".
    outcome,     \* outcome[r]: the final status of the job.
    inbox,       \* Events on their way to the page: [event, request].
    pendingExecutionResult, \* The ref of App.tsx: a request or NoCall.
    review,      \* The request whose result is reviewed, or NoCall.
    reviews,     \* Requests whose reviewExecution is pending.
    summary,     \* The request whose summary is on the page, or NoCall.
    stale        \* Has a plan or error ever been applied for a request given up?

pageVars == <<mode, intent, plan, promise, job, outcome, inbox,
              pendingExecutionResult, review, reviews, summary, stale>>
plannerVars == <<limitVars, planVars>>
shellVars == <<plannerVars, pageVars>>

Outcomes == {"succeeded", "needs_reboot", "failed", "rolled_back"}

ShellInit ==
    /\ PlannerInit
    /\ mode = "idle" /\ intent = NoCall /\ plan = NoCall
    /\ promise = [r \in Request |-> "none"]
    /\ job = [r \in Request |-> "none"]
    /\ outcome = [r \in Request |-> "succeeded"]
    /\ inbox = << >>
    /\ pendingExecutionResult = NoCall
    /\ review = NoCall /\ reviews = {} /\ summary = NoCall
    /\ stale = FALSE

-----------------------------------------------------------------------------
(* shellReducer: what an action makes of the page.                         *)

Page(m, p) == mode' = m /\ plan' = p /\ review' = NoCall /\ summary' = NoCall

\* job_completed: success ends every mode, any other outcome only "executing".
JobCompleted(o) ==
    IF o = "succeeded" THEN Page("idle", NoCall)
    ELSE IF mode # "executing" THEN UNCHANGED <<mode, plan, review, summary>>
    ELSE Page(CASE o = "needs_reboot" -> "needs-reboot"
                [] o = "rolled_back" -> "rolled-back"
                [] OTHER -> "failed", plan)

\* execution_review_ready
ReviewReady(r) ==
    IF mode # "executing" THEN UNCHANGED <<mode, plan, review, summary>>
    ELSE mode' = "reviewing" /\ review' = r /\ summary' = NoCall /\ UNCHANGED plan

-----------------------------------------------------------------------------
(* App.tsx: what the user and the settled promises do.                     *)

\* execute_plan_intent asks for the curated state before it plans; query_state_inner
\* gives up on the first failure of the exchange, and nothing is planned.
NoCuratedState(r) ==
    /\ phase[r] = "none"
    /\ Answer(r, "StateUnavailable")
    /\ UNCHANGED <<kind, turn, asked, answers>> /\ UNCHANGED prefVars /\ UNCHANGED limitVars

\* handleIntent, up to its await: the form is there in "idle" only.
SubmitIntent(r) ==
    /\ mode = "idle" /\ promise[r] = "none"
    /\ Page("planning", NoCall)
    /\ intent' = r
    /\ promise' = [promise EXCEPT ![r] = "pending"]
    /\ UNCHANGED <<job, outcome, inbox, pendingExecutionResult, reviews, stale>>
    /\ AdmitIntent(r, "plan") \/ RefuseIntent(r, "plan") \/ NoCuratedState(r)

Settle(r) ==
    /\ promise[r] = "pending" /\ phase[r] = "done"
    /\ promise' = [promise EXCEPT ![r] = "settled"]
    /\ stale' = (stale \/ ~(mode = "planning" /\ intent = r))
    /\ UNCHANGED <<intent, job, outcome, inbox, pendingExecutionResult, reviews>>
    /\ UNCHANGED plannerVars

\* The answer to requestPlan: plan_ready, then request_approval, or, when no step
\* needs approval, job_completed: such a plan is never sent to the daemon.
PlanReady(r) ==
    /\ Settle(r) /\ answer[r] = "plan"
    /\ Page("awaiting-approval", r) \/ Page("idle", NoCall)

\* Mutant of PlanErrored: the error of a request given up is put into the plan's
\* pane, as policy_errored is.
PlanErroredInPlace(r) ==
    /\ Settle(r) /\ answer[r] # "plan"
    /\ UNCHANGED <<mode, plan, review, summary>>

\* plan_errored, in any mode.
PlanErrored(r) ==
    /\ Settle(r) /\ answer[r] # "plan"
    /\ Page("idle", NoCall)

\* handleApprove: approval_granted, then requestApproval with the plan's steps.
Approve ==
    /\ mode = "awaiting-approval"
    /\ mode' = "executing"
    /\ job' = [job EXCEPT ![plan] = "running"]
    /\ UNCHANGED <<intent, plan, promise, outcome, inbox, pendingExecutionResult,
                   review, reviews, summary, stale>>
    /\ UNCHANGED plannerVars

\* requestApproval is rejected: approve_preview could not emit.
ApprovalRejected(r) ==
    /\ job[r] \in {"running", "emitting"}
    /\ job' = [job EXCEPT ![r] = "done"]
    /\ JobCompleted("failed")
    /\ UNCHANGED <<intent, promise, outcome, inbox, pendingExecutionResult, reviews, stale>>
    /\ UNCHANGED plannerVars

\* Mutant of Reset: offered while a job runs.
ResetAnyTime ==
    /\ Page("idle", NoCall)
    /\ intent' = NoCall
    /\ UNCHANGED <<promise, job, outcome, inbox, pendingExecutionResult, reviews, stale>>
    /\ UNCHANGED plannerVars

\* The Reset buttons, which "executing" does not show; no promise is given up.
Reset ==
    /\ mode # "executing"
    /\ Page("idle", NoCall)
    /\ intent' = NoCall
    /\ UNCHANGED <<promise, job, outcome, inbox, pendingExecutionResult, reviews, stale>>
    /\ UNCHANGED plannerVars

\* dismiss_review
DismissReview ==
    /\ mode = "reviewing"
    /\ Page("idle", NoCall)
    /\ intent' = NoCall
    /\ UNCHANGED <<promise, job, outcome, inbox, pendingExecutionResult, reviews, stale>>
    /\ UNCHANGED plannerVars

\* review_execution answers, with the raw output if the model gives no summary;
\* summary_ready does not say whose summary it is.
SummaryReady(r) ==
    /\ r \in reviews
    /\ reviews' = reviews \ {r}
    /\ summary' = IF mode = "reviewing" THEN r ELSE summary
    /\ UNCHANGED <<mode, intent, plan, promise, job, outcome, inbox,
                   pendingExecutionResult, review, stale>>
    /\ UNCHANGED plannerVars

-----------------------------------------------------------------------------
(* approve_preview and the events.                                         *)

\* app.emit reaches the page if it listens to that name.
Emit(event, r) ==
    inbox' = IF Bridged THEN Append(inbox, [event |-> event, request |-> r]) ELSE inbox

\* The last step ended, or one did not succeed.
EmitResult(r) ==
    /\ job[r] = "running"
    /\ \E o \in Outcomes : outcome' = [outcome EXCEPT ![r] = o]
    /\ job' = [job EXCEPT ![r] = "emitting"]
    /\ Emit("execution-result", r)
    /\ UNCHANGED <<mode, intent, plan, promise, pendingExecutionResult, review,
                   reviews, summary, stale>>
    /\ UNCHANGED plannerVars

\* Mutant of EmitCompleted: the first failing emit is the last.
EmitNothing(r) ==
    /\ job[r] = "emitting"
    /\ job' = [job EXCEPT ![r] = "done"]
    /\ UNCHANGED <<mode, intent, plan, promise, outcome, inbox, pendingExecutionResult,
                   review, reviews, summary, stale>>
    /\ UNCHANGED plannerVars

EmitCompleted(r) ==
    /\ job[r] = "emitting"
    /\ job' = [job EXCEPT ![r] = "done"]
    /\ Emit("job-completed", r)
    /\ UNCHANGED <<mode, intent, plan, promise, outcome, pendingExecutionResult,
                   review, reviews, summary, stale>>
    /\ UNCHANGED plannerVars

\* The callbacks of subscribeDaemonEvents.
OnExecutionResult ==
    /\ inbox # << >> /\ Head(inbox).event = "execution-result"
    /\ inbox' = Tail(inbox)
    /\ pendingExecutionResult' = Head(inbox).request
    /\ UNCHANGED <<mode, intent, plan, promise, job, outcome, review, reviews, summary, stale>>
    /\ UNCHANGED plannerVars

OnOutcome ==
    /\ inbox # << >> /\ Head(inbox).event = "job-completed"
    /\ inbox' = Tail(inbox)
    /\ pendingExecutionResult' = NoCall
    /\ IF pendingExecutionResult # NoCall
       THEN /\ ReviewReady(pendingExecutionResult)
            /\ reviews' = reviews \union {pendingExecutionResult}
       ELSE /\ JobCompleted(outcome[Head(inbox).request])
            /\ UNCHANGED reviews
    /\ UNCHANGED <<intent, promise, job, outcome, stale>>
    /\ UNCHANGED plannerVars

-----------------------------------------------------------------------------
\* A planning call of another program: the CLI, the MCP server, another shell.
PlanElsewhere(c) ==
    /\ c \notin Request
    /\ \E k \in {"plan", "summary"} : AdmitIntent(c, k) \/ RefuseIntent(c, k)
    /\ UNCHANGED pageVars

Planning(c) == PlannerStep(c) /\ UNCHANGED pageVars

User == \/ \E r \in Request : SubmitIntent(r)
        \/ Approve \/ Reset \/ DismissReview

Settled(r) == PlanReady(r) \/ PlanErrored(r)
Executing(r) == EmitResult(r) \/ EmitCompleted(r)
Listening == OnExecutionResult \/ OnOutcome

ShellNext ==
    \/ User
    \/ \E c \in Call : Planning(c) \/ PlanElsewhere(c)
    \/ \E r \in Request : Settled(r) \/ Executing(r) \/ ApprovalRejected(r) \/ SummaryReady(r)
    \/ Listening
    \/ Tick /\ UNCHANGED <<planVars, pageVars>>

ShellSpec == ShellInit /\ [][ShellNext]_shellVars

\* Promises settle, the backend's tasks and the page's event loop run on, and so
\* do the provider and the daemon, whose answers are waited for.  The user, the
\* other programs and the clock owe nothing.
ShellFairness ==
    /\ \A c \in Call : WF_shellVars(Planning(c))
    /\ \A r \in Request : WF_shellVars(Settled(r)) /\ WF_shellVars(Executing(r))
    /\ WF_shellVars(Listening)

-----------------------------------------------------------------------------
\* Only the answer to a request that was given up by Reset can confuse the page:
\* otherwise the plan on it answers the intent on it, one job runs at a time and
\* only while the page says so, and a review shows the result of that plan.
OnlyStaleAnswersConfuse ==
    stale \/
    /\ plan \in {NoCall, intent}
    /\ \A r \in Request : job[r] \in {"running", "emitting"} => mode = "executing" /\ plan = r
    /\ mode = "reviewing" => review = plan

\* "planning" ends, with a plan or an error: the planner takes at most max_turns
\* turns, and every way out of plan_intent is shown.
PlanningEnds == mode = "planning" ~> mode # "planning"

\* "executing" ends: approve_preview reports every outcome, infrastructure
\* failures included.
ExecutingEnds == mode = "executing" ~> mode # "executing"

\* The page comes back from both of the modes in which it waits for the backend.
PageMovesOn == PlanningEnds /\ ExecutingEnds
=============================================================================
