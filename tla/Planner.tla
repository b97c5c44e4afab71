------------------------------ MODULE Planner ------------------------------
(***************************************************************************)
(* The planning loop of the brain (planner.rs): the checks of the intent,  *)
(* the rate limiter, and up to max_turns completions of the provider whose *)
(* tool calls are answered one by one.  Conversations of one or several    *)
(* processes share the rate limiter's file and the preferences file        *)
(* (prefs.rs), which is read and replaced without a lock.                  *)
(*                                                                         *)
(* The provider may answer anything; texts are left out.                   *)
(***************************************************************************)
EXTENDS RateLimiter, Sequences

CONSTANTS
    max_turns,
    Batches,         \* Sequences of tool calls a completion may hold.
    Fact,            \* Preferences the model may save or remove.
    PREFS_MAX        \* Facts that fit into PREFS_MAX_BYTES.

\* What a tool call may be; an invalid plan is a proposal that is rejected.
Tool == {"propose_plan", "invalid_plan", "remember", "forget", "get_system_state",
         "query_current_user", "query", "unknown"}

ASSUME PlannerAssumption ==
    max_turns \in Nat \ {0} /\ PREFS_MAX \in Nat /\ Batches \subseteq Seq(Tool)

VARIABLES
    kind,        \* kind[c]: plan_intent ("plan") or summarize ("summary").
    phase,       \* phase[c]: "none", "limit", "ask", "tools", "remember", "done".
    turn,        \* turn[c]: completions asked for.
    asked,       \* asked[c]: the tool calls of the last completion.
    answers,     \* answers[c]: those answered, in the order of the answers.
    answer,      \* answer[c]: how the call ended: "none", "plan", "text" or an error.
    prefs,       \* The facts in the preferences file.
    found,       \* found[c]: the facts c read from it.
    told,        \* Facts a model was last told are saved.
    raced        \* Has a conversation ever relied on a read the file had outlived?

planVars == <<kind, phase, turn, asked, answers, answer, prefs, found, told, raced>>
prefVars == <<prefs, found, told, raced>>

PlannerInit ==
    /\ LimitInit
    /\ kind = [c \in Call |-> "plan"]
    /\ phase = [c \in Call |-> "none"]
    /\ turn = [c \in Call |-> 0]
    /\ asked = [c \in Call |-> << >>]
    /\ answers = [c \in Call |-> << >>]
    /\ answer = [c \in Call |-> "none"]
    /\ prefs = {} /\ told = {} /\ raced = FALSE
    /\ found = [c \in Call |-> {}]

Answer(c, a) ==
    /\ phase' = [phase EXCEPT ![c] = "done"]
    /\ answer' = [answer EXCEPT ![c] = a]

-----------------------------------------------------------------------------
(* Before the loop.                                                        *)

\* The intent or the prompt is refused, before the limiter counts it.
RefuseIntent(c, k) ==
    /\ phase[c] = "none"
    /\ kind' = [kind EXCEPT ![c] = k]
    /\ \E why \in {"IntentTooLong", "IntentContainsSensitiveData"} : Answer(c, why)
    /\ UNCHANGED <<turn, asked, answers>> /\ UNCHANGED prefVars /\ UNCHANGED limitVars

AdmitIntent(c, k) ==
    /\ phase[c] = "none"
    /\ kind' = [kind EXCEPT ![c] = k]
    /\ phase' = [phase EXCEPT ![c] = "limit"]
    /\ UNCHANGED <<turn, asked, answers, answer>> /\ UNCHANGED prefVars /\ UNCHANGED limitVars

\* check_and_consume_async on the blocking pool.
Limit(c) ==
    /\ phase[c] = "limit" /\ verdict[c] \notin {"allowed", "refused"}
    /\ TakeLock(c) \/ Consume(c)
    /\ UNCHANGED planVars

\* Its answer: RateLimitExceeded, or the first turn.
Limited(c) ==
    /\ phase[c] = "limit"
    /\ \/ verdict[c] = "refused" /\ Answer(c, "RateLimitExceeded")
       \/ verdict[c] = "allowed"
            /\ phase' = [phase EXCEPT ![c] = "ask"] /\ UNCHANGED answer
    /\ UNCHANGED <<kind, turn, asked, answers>> /\ UNCHANGED prefVars /\ UNCHANGED limitVars

-----------------------------------------------------------------------------
(* The provider's completions.                                             *)

ProviderFails(c) ==
    /\ phase[c] = "ask"
    /\ Answer(c, "Provider")
    /\ UNCHANGED <<kind, turn, asked, answers>> /\ UNCHANGED prefVars /\ UNCHANGED limitVars

\* summarize: one completion without tools, its text or nothing.
Summarised(c) ==
    /\ phase[c] = "ask" /\ kind[c] = "summary"
    /\ Answer(c, "text") \/ Answer(c, "NoPlanProposed")
    /\ UNCHANGED <<kind, turn, asked, answers>> /\ UNCHANGED prefVars /\ UNCHANGED limitVars

\* EndTurn: a text is answered with a correction while a turn is left.
EndTurn(c, has_text) ==
    /\ phase[c] = "ask" /\ kind[c] = "plan"
    /\ turn' = [turn EXCEPT ![c] = @ + 1]
    /\ asked' = [asked EXCEPT ![c] = << >>]
    /\ answers' = [answers EXCEPT ![c] = << >>]
    /\ IF has_text /\ turn[c] + 1 < max_turns
       THEN UNCHANGED <<phase, answer>>
       ELSE Answer(c, "NoPlanProposed")
    /\ UNCHANGED kind /\ UNCHANGED prefVars /\ UNCHANGED limitVars

\* MaxTokens, or ToolUse without a tool call.
NothingToDo(c) ==
    /\ phase[c] = "ask" /\ kind[c] = "plan"
    /\ Answer(c, "NoPlanProposed")
    /\ UNCHANGED <<kind, turn, asked, answers>> /\ UNCHANGED prefVars /\ UNCHANGED limitVars

ToolUse(c, tool_calls) ==
    /\ phase[c] = "ask" /\ kind[c] = "plan"
    /\ tool_calls # << >>
    /\ turn' = [turn EXCEPT ![c] = @ + 1]
    /\ asked' = [asked EXCEPT ![c] = tool_calls]
    /\ answers' = [answers EXCEPT ![c] = << >>]
    /\ phase' = [phase EXCEPT ![c] = "tools"]
    /\ UNCHANGED <<kind, answer>> /\ UNCHANGED prefVars /\ UNCHANGED limitVars

-----------------------------------------------------------------------------
(* The tool calls of a completion, in their order.                         *)

Calls(c, tool) ==
    /\ phase[c] = "tools" /\ Len(answers[c]) < Len(asked[c])
    /\ asked[c][Len(answers[c]) + 1] = tool

Answered(c, tool) == answers' = [answers EXCEPT ![c] = Append(@, tool)]

\* tool_results.push, and the loop goes on.
PushResult(c, tool) ==
    /\ Calls(c, tool) /\ Answered(c, tool)
    /\ UNCHANGED <<kind, phase, turn, asked, answer>>
    /\ UNCHANGED prefVars /\ UNCHANGED limitVars

\* A tool of no daemon's: the current user, or a name that is unknown.
AnswerTool(c) == \E tool \in {"query_current_user", "unknown"} : PushResult(c, tool)

\* query_action: the output, or as an error of the tool what went wrong, be it an
\* error response, a connection that failed or timed out, or a missing parameter.
AnswerQuery(c) == PushResult(c, "query")

\* handle_query_state has collected the state of the host ...
GiveState(c) == PushResult(c, "get_system_state")

\* ... or curated_state fails, on the daemon's error or anywhere between connecting
\* and reading the fields of its answer: no error of the tool, but the whole call's.
StateUnavailable(c) ==
    /\ Calls(c, "get_system_state")
    /\ Answer(c, "StateUnavailable")
    /\ UNCHANGED <<kind, turn, asked, answers>> /\ UNCHANGED prefVars /\ UNCHANGED limitVars

\* parse_proposed_plan accepts: plan_intent returns, later tool calls are dropped.
ProposePlan(c) ==
    /\ Calls(c, "propose_plan")
    /\ Answer(c, "plan")
    /\ UNCHANGED <<kind, turn, asked, answers>> /\ UNCHANGED prefVars /\ UNCHANGED limitVars

\* parse_proposed_plan rejects: the reason is the tool's answer.  The rejection
\* is recorded if an audit log is attached, which no program of the repository does.
RejectPlan(c) == PushResult(c, "invalid_plan")

\* remember or forget without a usable fact, or with a file that cannot be read.
RefuseFact(c) == \E tool \in {"remember", "forget"} : PushResult(c, tool)

\* append_pref and remove_pref read the file ...
ReadPrefs(c) ==
    /\ Calls(c, "remember") \/ Calls(c, "forget")
    /\ phase' = [phase EXCEPT ![c] = "remember"]
    /\ found' = [found EXCEPT ![c] = prefs]
    /\ UNCHANGED <<kind, turn, asked, answers, answer, prefs, told, raced>>
    /\ UNCHANGED limitVars

Rely(c) == raced' = (raced \/ prefs # found[c])

\* Mutant of AppendPref: only the new line is written.
OverwritePref(c, fact) ==
    /\ phase[c] = "remember" /\ asked[c][Len(answers[c]) + 1] = "remember"
    /\ \/ /\ fact \in found[c] \/ Cardinality(found[c]) < PREFS_MAX
          /\ prefs' = {fact}
          /\ told' = told \union {fact}
          /\ Rely(c)
       \/ UNCHANGED <<prefs, told, raced>>
    /\ Answered(c, "remember")
    /\ phase' = [phase EXCEPT ![c] = "tools"]
    /\ found' = [found EXCEPT ![c] = {}]
    /\ UNCHANGED <<kind, turn, asked, answer>> /\ UNCHANGED limitVars

\* ... and replace it: a duplicate leaves it as it is and counts as saved; a full
\* file and a failed write leave it as it is and are an error.
AppendPref(c, fact) ==
    /\ phase[c] = "remember" /\ asked[c][Len(answers[c]) + 1] = "remember"
    /\ \/ /\ fact \in found[c] \/ Cardinality(found[c]) < PREFS_MAX
          /\ prefs' = IF fact \in found[c] THEN prefs ELSE found[c] \union {fact}
          /\ told' = told \union {fact}
          /\ Rely(c)
       \/ UNCHANGED <<prefs, told, raced>>
    /\ Answered(c, "remember")
    /\ phase' = [phase EXCEPT ![c] = "tools"]
    /\ found' = [found EXCEPT ![c] = {}]
    /\ UNCHANGED <<kind, turn, asked, answer>> /\ UNCHANGED limitVars

\* A fact that is not there, or a failed write, leaves the file as it is.
RemovePref(c, fact) ==
    /\ phase[c] = "remember" /\ asked[c][Len(answers[c]) + 1] = "forget"
    /\ \/ UNCHANGED <<prefs, told, raced>>
       \/ /\ fact \in found[c]
          /\ prefs' = found[c] \ {fact}
          /\ told' = told \ {fact}
          /\ Rely(c)
    /\ Answered(c, "forget")
    /\ phase' = [phase EXCEPT ![c] = "tools"]
    /\ found' = [found EXCEPT ![c] = {}]
    /\ UNCHANGED <<kind, turn, asked, answer>> /\ UNCHANGED limitVars

\* Mutant of NextTurn: one turn too many.
NextTurnOnce(c) ==
    /\ phase[c] = "tools" /\ Len(answers[c]) = Len(asked[c])
    /\ IF turn[c] <= max_turns
       THEN phase' = [phase EXCEPT ![c] = "ask"] /\ UNCHANGED answer
       ELSE Answer(c, "PlannerStuck")
    /\ UNCHANGED <<kind, turn, asked, answers>> /\ UNCHANGED prefVars /\ UNCHANGED limitVars

\* The answers are sent and the next turn begins, if one is left.
NextTurn(c) ==
    /\ phase[c] = "tools" /\ Len(answers[c]) = Len(asked[c])
    /\ IF turn[c] < max_turns
       THEN phase' = [phase EXCEPT ![c] = "ask"] /\ UNCHANGED answer
       ELSE Answer(c, "PlannerStuck")
    /\ UNCHANGED <<kind, turn, asked, answers>> /\ UNCHANGED prefVars /\ UNCHANGED limitVars

\* What the planner, the provider and the pool do for one call.
PlannerStep(c) ==
    \/ Limit(c) \/ Limited(c)
    \/ ProviderFails(c) \/ Summarised(c)
    \/ \E has_text \in BOOLEAN : EndTurn(c, has_text)
    \/ NothingToDo(c)
    \/ \E b \in Batches : ToolUse(c, b)
    \/ AnswerTool(c) \/ AnswerQuery(c) \/ GiveState(c) \/ StateUnavailable(c)
    \/ ProposePlan(c) \/ RejectPlan(c)
    \/ RefuseFact(c) \/ ReadPrefs(c)
    \/ \E f \in Fact : AppendPref(c, f) \/ RemovePref(c, f)
    \/ NextTurn(c)

-----------------------------------------------------------------------------
\* Whenever the provider is asked again, every tool call of its last completion
\* has been answered once and in order, whichever arms of the loop handled them.
ToolCallsAnswered ==
    \A c \in Call : phase[c] = "ask" => answers[c] = asked[c]

\* A preference the model was told is saved stays in the file until one is told
\* it was removed, unless two conversations replaced the file at once.
SavedFactsStay == raced \/ told \subseteq prefs

\* Where c is between its intent and its answer: the turns it has left, the tool
\* calls it has yet to answer, and the stage it has reached with both as they are.
TurnsLeft(c) == max_turns - turn[c]
Unanswered(c) == Len(asked[c]) - Len(answers[c])
Stage(c) ==
    LET stages == [none |-> 8, limit |-> 4, tools |-> 3, remember |-> 2, ask |-> 1, done |-> 0]
        limits == [none |-> 3, locked |-> 2, counted |-> 1, allowed |-> 0, refused |-> 0]
    IN  stages[phase[c]] + IF phase[c] = "limit" THEN limits[verdict[c]] ELSE 0

Conversation(c) == <<phase[c], verdict[c], turn[c], asked[c], answers[c]>>

Advances(c) ==
    /\ TurnsLeft(c)' >= 0
    /\ \/ TurnsLeft(c)' < TurnsLeft(c)
       \/ UNCHANGED turn[c] /\ Unanswered(c)' < Unanswered(c)
       \/ UNCHANGED <<turn[c], Unanswered(c)>> /\ Stage(c)' < Stage(c)

\* The loop of plan_with_executor cannot be kept going (planner.rs): whatever the
\* provider says and the other conversations do to the limiter, the daemon or the
\* preferences, each step of a conversation uses up a turn, a tool call of that
\* turn, or a stage of the call.
ConversationsAdvance ==
    [][\A c \in Call : UNCHANGED Conversation(c) \/ Advances(c)]_<<limitVars, planVars>>

\* What the loop tells the model about its tool calls is complete, and stays true.
ToldTruly == ToolCallsAnswered /\ SavedFactsStay
=============================================================================
