-------------------------- MODULE ShellSessionProofs --------------------------
(***************************************************************************)
(* The shell, its page and the planners it shares the limit and the        *)
(* preferences with, for any number of calls and processes, any window and *)
(* limit, any tool calls: the limit is kept, what the model is told is     *)
(* true, and the page shows what belongs together.  Then the setup the     *)
(* shell starts from (SetupSession), for any environments and files.       *)
(***************************************************************************)
EXTENDS ShellSession, SetupSession, NaturalSets

-----------------------------------------------------------------------------
(* The inductive invariant of the rate limiter.                            *)

LimitTypeOK ==
    /\ now \in 0 .. Horizon
    /\ lock \in [Process -> Call \union {NoCall}]
    /\ verdict \in [Call -> {"none", "locked", "counted", "allowed", "refused"}]
    /\ stamp \in [Call -> 0 .. Horizon] /\ \A c \in Call : stamp[c] <= now
    /\ retry_after \in [Call -> Int]
    /\ in_window \in [Call -> SUBSET Line] /\ DOMAIN admitted = Call
    /\ overlapped \in BOOLEAN /\ degraded \in BOOLEAN

LineOf(c) == [call |-> c, at |-> stamp[c]]
LinesOf(calls) == {LineOf(c) : c \in calls}

\* The Mutex of a process is held by its call under way, and by that one only.
LockInv ==
    \A c \in Call : verdict[c] \in {"locked", "counted"} <=> lock[Caller[c]] = c

\* A line is what an allowed call left.
FileInv == file \subseteq LinesOf(Allowed) /\ IsFiniteSet(file)

\* What a call has counted is older than it, and leaves room for it.
CountInv ==
    \A c \in Call :
        /\ verdict[c] \notin {"counted", "refused"} => in_window[c] = {}
        /\ in_window[c] \subseteq LinesOf(Allowed) /\ IsFiniteSet(in_window[c])
        /\ \A l \in in_window[c] : l.at \in stamp[c] - WINDOW .. stamp[c]
        /\ verdict[c] = "counted" => Cardinality(in_window[c]) < LimitOf(c)

\* The file has every allowed call that is in the window of all the others.
FileIsComplete ==
    \A e \in Allowed :
        (\A d \in Allowed : stamp[e] >= stamp[d] - WINDOW) => LineOf(e) \in file

\* A call knows the calls of its own process that are in its window.
OwnCallsAreCounted ==
    \A c \in Call, e \in Allowed :
        verdict[c] = "counted" /\ Caller[e] = Caller[c] /\ stamp[e] >= stamp[c] - WINDOW
            => LineOf(e) \in in_window[c]

\* As long as nobody was allowed after c was refused, the file has no younger lines than
\* those that c found, and the wait outlasts one of them.
RefusalInv ==
    \A c \in Call : verdict[c] = "refused" =>
        /\ retry_after[c] >= 1
        /\ admitted[c] \subseteq Allowed
        /\ admitted[c] = Allowed =>
              /\ InWindow(file, stamp[c]) \subseteq in_window[c]
              /\ \E l \in in_window[c] : stamp[c] + retry_after[c] >= l.at + WINDOW

LimitInv ==
    /\ LimitTypeOK /\ LockInv /\ FileInv /\ CountInv
    /\ overlapped \/ degraded \/ (FileIsComplete /\ OwnCallsAreCounted)
    /\ RefusalInv /\ LimitIsKept

-----------------------------------------------------------------------------
(* The planner and the page leave the limiter alone but for these steps.   *)

LEMMA LimiterSteps ==
    ASSUME ShellNext
    PROVE  \/ \E c \in Call : TakeLock(c) \/ Count(c) \/ Record(c)
           \/ Tick
           \/ UNCHANGED limitVars
  <1>1. CASE User
    <2>1. ASSUME NEW r \in Request, SubmitIntent(r) PROVE UNCHANGED limitVars
      BY <2>1 DEF SubmitIntent, AdmitIntent, RefuseIntent, NoCuratedState
    <2>2. CASE Approve \/ Reset \/ DismissReview
      BY <2>2 DEF Approve, Reset, DismissReview, plannerVars
    <2> QED BY <1>1, <2>1, <2>2 DEF User
  <1>2. ASSUME NEW c \in Call, Planning(c)
        PROVE  TakeLock(c) \/ Count(c) \/ Record(c) \/ UNCHANGED limitVars
    <2>1. CASE Limit(c)
      BY <2>1 DEF Limit, Consume
    <2>2. CASE \/ Limited(c) \/ ProviderFails(c) \/ Summarised(c) \/ NothingToDo(c)
               \/ StateUnavailable(c) \/ ProposePlan(c)
      BY <2>2 DEF Limited, ProviderFails, Summarised, NothingToDo,
                  StateUnavailable, ProposePlan
    <2>3. CASE \/ AnswerTool(c) \/ AnswerQuery(c) \/ GiveState(c)
               \/ RejectPlan(c) \/ RefuseFact(c) \/ ReadPrefs(c) \/ NextTurn(c)
      BY <2>3 DEF AnswerTool, AnswerQuery, GiveState, RejectPlan, RefuseFact, PushResult,
                  ReadPrefs, NextTurn
    <2>4. CASE \/ \E has_text \in BOOLEAN : EndTurn(c, has_text)
               \/ \E b \in Batches : ToolUse(c, b)
               \/ \E f \in Fact : AppendPref(c, f) \/ RemovePref(c, f)
      BY <2>4 DEF EndTurn, ToolUse, AppendPref, RemovePref
    <2> QED BY <1>2, <2>1, <2>2, <2>3, <2>4 DEF Planning, PlannerStep
  <1>3. ASSUME NEW c \in Call, PlanElsewhere(c) PROVE UNCHANGED limitVars
    BY <1>3 DEF PlanElsewhere, AdmitIntent, RefuseIntent
  <1>4. ASSUME NEW r \in Request,
               Settled(r) \/ Executing(r) \/ ApprovalRejected(r) \/ SummaryReady(r)
        PROVE  UNCHANGED limitVars
    BY <1>4 DEF Settled, PlanReady, PlanErrored, Settle, Executing, EmitResult,
                EmitCompleted, ApprovalRejected, SummaryReady, plannerVars
  <1>5. CASE Listening
    BY <1>5 DEF Listening, OnExecutionResult, OnOutcome, plannerVars
  <1> QED BY <1>1, <1>2, <1>3, <1>4, <1>5 DEF ShellNext

-----------------------------------------------------------------------------
(* The steps of the limiter.                                               *)

LEMMA LimitInitially == LimitInit => LimitInv
  <1> SUFFICES ASSUME LimitInit PROVE LimitInv
    OBVIOUS
  <1>1. LimitTypeOK
    <2>1. /\ now \in 0 .. Horizon /\ stamp \in [Call -> 0 .. Horizon]
          /\ \A c \in Call : stamp[c] <= now
      BY RateAssumption DEF LimitInit
    <2>2. in_window \in [Call -> SUBSET Line]
      BY DEF LimitInit
    <2>3. lock \in [Process -> Call \union {NoCall}] /\ retry_after \in [Call -> Int]
      BY DEF LimitInit
    <2>4. verdict \in [Call -> {"none", "locked", "counted", "allowed", "refused"}]
      BY DEF LimitInit
    <2> QED BY <2>1, <2>2, <2>3, <2>4 DEF LimitInit, LimitTypeOK
  <1>2. Allowed = {} /\ IsFiniteSet({}) /\ Cardinality({}) = 0
    BY FS_EmptySet DEF LimitInit, Allowed
  <1>3. LockInv
    BY RateAssumption DEF LimitInit, LockInv
  <1>4. FileInv /\ CountInv
    BY <1>2, RateAssumption DEF LimitInit, FileInv, CountInv
  <1>5. FileIsComplete /\ OwnCallsAreCounted /\ RefusalInv /\ BudgetKept
    BY <1>2 DEF LimitInit, FileIsComplete, OwnCallsAreCounted, RefusalInv, BudgetKept
  <1>6. RetryAfterIsEnough
    BY DEF LimitInit, RetryAfterIsEnough
  <1> QED BY <1>1, <1>3, <1>4, <1>5, <1>6 DEF LimitInv, LimitIsKept

LEMMA LimitStutters == LimitInv /\ UNCHANGED limitVars => LimitInv'
  <1> SUFFICES ASSUME LimitInv, UNCHANGED limitVars PROVE LimitInv'
    OBVIOUS
  <1> USE DEF limitVars, Allowed, LinesOf, LineOf
  <1>1. LimitTypeOK' /\ LockInv' /\ FileInv' /\ CountInv'
    BY DEF LimitInv, LimitTypeOK, LockInv, FileInv, CountInv
  <1>2. overlapped' \/ degraded' \/ (FileIsComplete' /\ OwnCallsAreCounted')
    BY DEF LimitInv, FileIsComplete, OwnCallsAreCounted
  <1>3. RefusalInv' /\ LimitIsKept'
    BY DEF LimitInv, RefusalInv, LimitIsKept, BudgetKept, WindowOf, RetryAfterIsEnough
  <1> QED BY <1>1, <1>2, <1>3 DEF LimitInv

LEMMA TickKeeps == LimitInv /\ Tick => LimitInv'
  <1> SUFFICES ASSUME LimitInv, Tick PROVE LimitInv'
    OBVIOUS
  <1> USE DEF Tick, Allowed, LinesOf, LineOf
  <1>1. LimitTypeOK'
    BY RateAssumption DEF LimitInv, LimitTypeOK
  <1>2. LockInv' /\ FileInv' /\ CountInv'
    BY DEF LimitInv, LockInv, FileInv, CountInv
  <1>3. overlapped' \/ degraded' \/ (FileIsComplete' /\ OwnCallsAreCounted')
    BY DEF LimitInv, FileIsComplete, OwnCallsAreCounted
  <1>4. RefusalInv' /\ LimitIsKept'
    BY DEF LimitInv, RefusalInv, LimitIsKept, BudgetKept, WindowOf, RetryAfterIsEnough
  <1> QED BY <1>1, <1>2, <1>3, <1>4 DEF LimitInv

LEMMA TakeLockKeeps ==
    ASSUME LimitInv, NEW c \in Call, TakeLock(c)
    PROVE  LimitInv'
  <1> USE DEF TakeLock
  <1>1. LimitTypeOK'
    BY RateAssumption DEF LimitInv, LimitTypeOK
  <1>2. Allowed' = Allowed /\ \A d \in Call : LineOf(d)' = LineOf(d)
    BY DEF Allowed, LimitInv, LimitTypeOK, LineOf
  <1>3. LockInv'
    <2> SUFFICES ASSUME NEW d \in Call
                 PROVE  verdict'[d] \in {"locked", "counted"} <=> lock'[Caller[d]] = d
      BY DEF LockInv
    <2>1. verdict'[d] = (IF d = c THEN "locked" ELSE verdict[d]) /\ Caller[c] \in Process
      BY RateAssumption DEF LimitInv, LimitTypeOK
    <2>2. lock'[Caller[d]] = IF Caller[d] = Caller[c] THEN c ELSE lock[Caller[d]]
      BY <2>1, RateAssumption DEF LimitInv, LimitTypeOK
    <2>3. verdict[d] \in {"locked", "counted"} <=> lock[Caller[d]] = d
      BY DEF LimitInv, LockInv
    <2> QED BY <2>1, <2>2, <2>3, RateAssumption
  <1>4. LinesOf(Allowed)' = LinesOf(Allowed)
    BY <1>2 DEF LinesOf, Allowed
  <1>5. FileInv'
    BY <1>4 DEF LimitInv, FileInv
  <1>6. CountInv'
    BY <1>4 DEF LimitInv, LimitTypeOK, CountInv
  <1>7. overlapped' \/ degraded' \/ (FileIsComplete' /\ OwnCallsAreCounted')
    <2>1. FileIsComplete => FileIsComplete'
      BY <1>2 DEF FileIsComplete, Allowed
    <2>2. OwnCallsAreCounted => OwnCallsAreCounted'
      BY <1>2 DEF OwnCallsAreCounted, LimitInv, LimitTypeOK, Allowed
    <2> QED BY <2>1, <2>2 DEF LimitInv
  <1>8. RefusalInv'
    BY <1>2 DEF LimitInv, LimitTypeOK, RefusalInv
  <1>9. LimitIsKept'
    <2>1. BudgetKept'
      BY <1>2 DEF LimitInv, LimitIsKept, BudgetKept, WindowOf
    <2>2. RetryAfterIsEnough'
      BY DEF LimitInv, LimitTypeOK, LimitIsKept, RetryAfterIsEnough
    <2> QED BY <2>1, <2>2 DEF LimitIsKept
  <1> QED BY <1>1, <1>3, <1>5, <1>6, <1>7, <1>8, <1>9 DEF LimitInv

\* The wait of a refusal outlasts one of the lines it was computed from.
LEMMA WaitOutlasts ==
    ASSUME NEW lines, lines # {}, \A l \in lines : l.at \in Nat, NEW t \in Nat
    PROVE  /\ RetryAfter(lines, t) \in Int
           /\ RetryAfter(lines, t) >= 1
           /\ \E l \in lines : t + RetryAfter(lines, t) >= l.at + WINDOW
  <1> DEFINE Times == {l.at : l \in lines}
  <1>1. PICK x \in Times : \A y \in Times : x <= y
    <2>1. Times \subseteq Nat /\ Times # {}
      OBVIOUS
    <2> QED BY <2>1, LeastExists
  <1>2. Min(Times) \in Times
    BY <1>1 DEF Min
  <1> DEFINE due == Min(Times) + WINDOW - t
  <1>3. due \in Int
    <2>1. Times \subseteq Nat
      OBVIOUS
    <2> QED BY <1>2, <2>1, RateAssumption
  <1>4. Max({due, 1}) \in Int /\ Max({due, 1}) >= 1 /\ Max({due, 1}) >= due
    <2> DEFINE T == {due, 1}
    <2>1. \E z \in T : \A y \in T : z >= y
      BY <1>3
    <2>2. Max(T) \in T /\ \A y \in T : Max(T) >= y
      BY <2>1 DEF Max
    <2> QED BY <2>2, <1>3
  <1>5. RetryAfter(lines, t) = Max({due, 1})
    BY DEF RetryAfter
  <1>6. PICK l \in lines : l.at = Min(Times)
    BY <1>2
  <1>7. t + Max({due, 1}) >= l.at + WINDOW
    BY <1>3, <1>4, <1>6, RateAssumption
  <1> QED BY <1>4, <1>5, <1>7

LEMMA CountKeeps ==
    ASSUME LimitInv, NEW c \in Call, Count(c)
    PROVE  LimitInv'
  <1> DEFINE lines == InWindow(file, now)
  <1>1. /\ verdict[c] = "locked" /\ stamp' = [stamp EXCEPT ![c] = now]
        /\ UNCHANGED <<now, file, overlapped>>
    BY DEF Count
  <1>2. PICK raw \in {file, {}} :
            LET found_lines == InWindow(raw, now)
                full  == Cardinality(found_lines) >= LimitOf(c)
            IN  /\ degraded' = (degraded \/ raw # file)
                /\ in_window' = [in_window EXCEPT ![c] = found_lines]
                /\ verdict' = [verdict EXCEPT ![c] = IF full THEN "refused" ELSE "counted"]
                /\ retry_after' = [retry_after EXCEPT ![c] =
                                       IF full THEN RetryAfter(found_lines, now) ELSE 0]
                /\ admitted' = [admitted EXCEPT ![c] = IF full THEN Allowed ELSE {}]
                /\ lock' = IF full THEN [lock EXCEPT ![Caller[c]] = NoCall] ELSE lock
    BY DEF Count
  <1> DEFINE counted == InWindow(raw, now)
             full == Cardinality(counted) >= LimitOf(c)
  <1>3. /\ LimitOf(c) \in Nat \ {0} /\ WINDOW \in Nat \ {0} /\ Horizon \in Nat
        /\ Caller \in [Call -> Process] /\ NoCall \notin Call
    BY RateAssumption DEF LimitOf
  <1>4. /\ now \in Nat /\ now <= Horizon
        /\ \A d \in Call : stamp[d] \in Nat /\ stamp[d] <= now
    BY <1>3 DEF LimitInv, LimitTypeOK
  <1>5. Allowed' = Allowed /\ c \notin Allowed
    <2>1. \A d \in Call : verdict'[d] = "allowed" <=> verdict[d] = "allowed"
      BY <1>1, <1>2 DEF LimitInv, LimitTypeOK
    <2> QED BY <2>1, <1>1 DEF Allowed
  <1>6. \A d \in Call : d # c => stamp'[d] = stamp[d] /\ LineOf(d)' = LineOf(d)
    BY <1>1 DEF LineOf, LimitInv, LimitTypeOK
  <1>7. stamp'[c] = now
    BY <1>1 DEF LimitInv, LimitTypeOK
  <1>8. LinesOf(Allowed)' = LinesOf(Allowed)
    <2>1. \A d \in Allowed : d \in Call /\ d # c
      BY <1>5 DEF Allowed
    <2>2. {LineOf(d)' : d \in Allowed'} = {LineOf(d) : d \in Allowed}
      BY <1>5, <1>6, <2>1
    <2> QED BY <2>2 DEF LinesOf
  <1>9. \A l \in LinesOf(Allowed) : l \in Line /\ l.at \in Nat /\ l.at <= now
    BY <1>3, <1>4 DEF LinesOf, LineOf, Line, Allowed
  <1>10. counted \subseteq file /\ \A l \in counted : l.at \in now - WINDOW .. now
    <2>1. counted \subseteq file
      BY DEF InWindow
    <2>2. \A l \in file : l.at \in Nat /\ l.at <= now
      BY <1>9 DEF LimitInv, FileInv
    <2>3. \A l \in counted : l.at >= now - WINDOW
      BY DEF InWindow
    <2>4. \A l \in counted : l.at \in Nat /\ l.at <= now
      BY <2>1, <2>2
    <2> HIDE DEF counted
    <2> QED BY <2>1, <2>3, <2>4, <1>3, <1>4
  <1>11. /\ IsFiniteSet(counted) /\ Cardinality(counted) \in Nat
         /\ IsFiniteSet(file)
    <2> HIDE DEF counted
    <2> QED BY <1>10, FS_Subset, FS_CardinalityType DEF LimitInv, FileInv
  <1>12. /\ degraded' = (degraded \/ raw # file)
         /\ in_window' = [in_window EXCEPT ![c] = counted]
         /\ verdict' = [verdict EXCEPT ![c] = IF full THEN "refused" ELSE "counted"]
         /\ retry_after' = [retry_after EXCEPT ![c] =
                                IF full THEN RetryAfter(counted, now) ELSE 0]
         /\ admitted' = [admitted EXCEPT ![c] = IF full THEN Allowed ELSE {}]
         /\ lock' = IF full THEN [lock EXCEPT ![Caller[c]] = NoCall] ELSE lock
    BY <1>2
  <1>13. full => /\ RetryAfter(counted, now) \in Int /\ RetryAfter(counted, now) >= 1
                 /\ \E l \in counted : now + RetryAfter(counted, now) >= l.at + WINDOW
    <2> SUFFICES ASSUME full
                 PROVE  /\ RetryAfter(counted, now) \in Int /\ RetryAfter(counted, now) >= 1
                        /\ \E l \in counted : now + RetryAfter(counted, now) >= l.at + WINDOW
      OBVIOUS
    <2>1. counted # {}
      BY <1>3, <1>11, FS_EmptySet
    <2>2. \A l \in counted : l.at \in Nat
      BY <1>9, <1>10 DEF LimitInv, FileInv
    <2> HIDE DEF counted
    <2> QED BY <2>1, <2>2, <1>4, <1>10, WaitOutlasts
  <1>14. full => raw = file
    <2> SUFFICES ASSUME raw = {} PROVE ~ full
      BY <1>2
    <2>1. counted = {}
      BY DEF InWindow
    <2> HIDE DEF counted
    <2> QED BY <2>1, <1>3, FS_EmptySet
  <1> HIDE DEF counted, full
  <1>15. LimitTypeOK'
    <2>1. now' \in 0 .. Horizon /\ overlapped' \in BOOLEAN /\ degraded' \in BOOLEAN
      BY <1>1, <1>12 DEF LimitInv, LimitTypeOK
    <2>2. lock' \in [Process -> Call \union {NoCall}]
      BY <1>12 DEF LimitInv, LimitTypeOK
    <2>3. verdict' \in [Call -> {"none", "locked", "counted", "allowed", "refused"}]
      BY <1>12 DEF LimitInv, LimitTypeOK
    <2>4. stamp' \in [Call -> 0 .. Horizon] /\ \A d \in Call : stamp'[d] <= now'
      BY <1>1, <1>3, <1>4 DEF LimitInv, LimitTypeOK
    <2>5. retry_after' \in [Call -> Int]
      BY <1>12, <1>13 DEF LimitInv, LimitTypeOK
    <2>6. counted \subseteq Line
      BY <1>9, <1>10 DEF LimitInv, FileInv
    <2>7. in_window' \in [Call -> SUBSET Line]
      BY <1>12, <2>6 DEF LimitInv, LimitTypeOK
    <2>8. DOMAIN admitted' = Call
      BY <1>12 DEF LimitInv, LimitTypeOK
    <2> QED BY <2>1, <2>2, <2>3, <2>4, <2>5, <2>7, <2>8 DEF LimitTypeOK
  <1>16. LockInv'
    <2> SUFFICES ASSUME NEW d \in Call
                 PROVE  verdict'[d] \in {"locked", "counted"} <=> lock'[Caller[d]] = d
      BY DEF LockInv
    <2>1. verdict'[d] = IF d # c THEN verdict[d] ELSE IF full THEN "refused" ELSE "counted"
      BY <1>12 DEF LimitInv, LimitTypeOK
    <2>2. lock'[Caller[d]] =
              IF full /\ Caller[d] = Caller[c] THEN NoCall ELSE lock[Caller[d]]
      BY <1>3, <1>12 DEF LimitInv, LimitTypeOK
    <2>3. /\ verdict[d] \in {"locked", "counted"} <=> lock[Caller[d]] = d
          /\ lock[Caller[c]] = c
      BY <1>1 DEF LimitInv, LockInv
    <2> QED BY <1>3, <2>1, <2>2, <2>3
  <1>17. FileInv'
    BY <1>1, <1>8 DEF LimitInv, FileInv
  <1>18. CountInv'
    <2> SUFFICES ASSUME NEW d \in Call
                 PROVE  /\ verdict'[d] \notin {"counted", "refused"} => in_window'[d] = {}
                        /\ in_window'[d] \subseteq LinesOf(Allowed)
                        /\ IsFiniteSet(in_window'[d])
                        /\ \A l \in in_window'[d] : l.at \in stamp'[d] - WINDOW .. stamp'[d]
                        /\ verdict'[d] = "counted" =>
                              Cardinality(in_window'[d]) < LimitOf(d)
      BY <1>8 DEF CountInv
    <2>1. CASE d # c
      <3>1. /\ verdict'[d] = verdict[d] /\ in_window'[d] = in_window[d]
            /\ stamp'[d] = stamp[d]
        BY <1>1, <1>12, <2>1 DEF LimitInv, LimitTypeOK
      <3> QED BY <3>1 DEF LimitInv, CountInv
    <2>2. CASE d = c
      <3>1. /\ in_window'[d] = counted
            /\ verdict'[d] = IF full THEN "refused" ELSE "counted"
        BY <1>12, <2>2 DEF LimitInv, LimitTypeOK
      <3>2. counted \subseteq LinesOf(Allowed)
        BY <1>10 DEF LimitInv, FileInv
      <3>3. ~ full => Cardinality(counted) < LimitOf(c)
        BY <1>3, <1>11 DEF full
      <3> QED BY <3>1, <3>2, <3>3, <2>2, <1>7, <1>10, <1>11
    <2> QED BY <2>1, <2>2
  <1>19. overlapped' \/ degraded' \/ (FileIsComplete' /\ OwnCallsAreCounted')
    <2> SUFFICES ASSUME ~ overlapped', ~ degraded'
                 PROVE  FileIsComplete' /\ OwnCallsAreCounted'
      OBVIOUS
    <2>1. FileIsComplete /\ OwnCallsAreCounted /\ raw = file
      BY <1>1, <1>12 DEF LimitInv
    <2>2. \A d \in Allowed : d \in Call /\ d # c
      BY <1>5 DEF Allowed
    <2>3. FileIsComplete'
      BY <1>1, <1>5, <1>6, <2>1, <2>2 DEF FileIsComplete
    <2>4. ASSUME NEW d \in Call, NEW e \in Allowed,
                 verdict'[d] = "counted", Caller[e] = Caller[d],
                 stamp'[e] >= stamp'[d] - WINDOW
          PROVE  LineOf(e) \in in_window'[d]
      <3>1. stamp'[e] = stamp[e]
        BY <1>6, <2>2
      <3>2. CASE d # c
        <4>1. /\ verdict'[d] = verdict[d] /\ in_window'[d] = in_window[d]
              /\ stamp'[d] = stamp[d]
          BY <1>1, <1>12, <3>2 DEF LimitInv, LimitTypeOK
        <4> QED BY <2>1, <2>4, <3>1, <4>1 DEF OwnCallsAreCounted
      <3>3. CASE d = c
        <4>1. in_window'[d] = counted
          BY <1>12, <2>4, <3>3 DEF LimitInv, LimitTypeOK
        <4>2. stamp[e] >= now - WINDOW
          BY <1>7, <2>4, <3>1, <3>3
        <4>3. \A x \in Allowed : stamp[e] >= stamp[x] - WINDOW
          BY <1>3, <1>4, <2>2, <4>2
        <4>4. LineOf(e) \in file
          BY <2>1, <4>3 DEF FileIsComplete
        <4>5. LineOf(e) \in counted
          BY <2>1, <4>2, <4>4 DEF counted, InWindow, LineOf
        <4> QED BY <4>1, <4>5
      <3> QED BY <3>2, <3>3
    <2>5. OwnCallsAreCounted'
      BY <1>5, <1>6, <2>2, <2>4 DEF OwnCallsAreCounted
    <2> QED BY <2>3, <2>5
  <1>20. RefusalInv'
    <2> SUFFICES ASSUME NEW d \in Call, verdict'[d] = "refused"
                 PROVE  /\ retry_after'[d] >= 1
                        /\ admitted'[d] \subseteq Allowed
                        /\ admitted'[d] = Allowed =>
                              /\ InWindow(file, stamp'[d]) \subseteq in_window'[d]
                              /\ \E l \in in_window'[d] :
                                    stamp'[d] + retry_after'[d] >= l.at + WINDOW
      BY <1>1, <1>5 DEF RefusalInv
    <2>1. CASE d # c
      <3>1. /\ verdict'[d] = verdict[d] /\ retry_after'[d] = retry_after[d]
            /\ stamp'[d] = stamp[d] /\ admitted'[d] = admitted[d]
            /\ in_window'[d] = in_window[d]
        BY <1>1, <1>12, <2>1 DEF LimitInv, LimitTypeOK
      <3> QED BY <3>1 DEF LimitInv, RefusalInv
    <2>2. CASE d = c
      <3>1. full
        BY <1>12, <2>2 DEF LimitInv, LimitTypeOK
      <3>2. /\ retry_after'[d] = RetryAfter(counted, now) /\ admitted'[d] = Allowed
            /\ in_window'[d] = counted
        BY <1>12, <2>2, <3>1 DEF LimitInv, LimitTypeOK
      <3>3. InWindow(file, now) = counted
        BY <1>14, <3>1 DEF counted
      <3> QED BY <1>7, <1>13, <2>2, <3>1, <3>2, <3>3
    <2> QED BY <2>1, <2>2
  <1>21. BudgetKept'
    <2>1. \A d \in Allowed : d \in Call /\ d # c
      BY <1>5 DEF Allowed
    <2> SUFFICES ASSUME ~ overlapped', ~ degraded', NEW e \in Allowed
                 PROVE  \E last \in Allowed :
                            /\ stamp'[last] = stamp'[e]
                            /\ Cardinality(WindowOf(e)') <= LimitOf(last)
      BY <1>5 DEF BudgetKept
    <2>2. WindowOf(e)' = WindowOf(e) /\ \A d \in Allowed : stamp'[d] = stamp[d]
      BY <1>5, <1>6, <2>1 DEF WindowOf
    <2>3. ~ overlapped /\ ~ degraded
      BY <1>1, <1>12
    <2> QED BY <2>2, <2>3 DEF LimitInv, LimitIsKept, BudgetKept
  <1>22. RetryAfterIsEnough'
    <2> SUFFICES ASSUME NEW d \in Call, NEW e \in Call,
                        verdict'[d] = "refused", verdict'[e] = "refused",
                        Cardinality(in_window'[d]) <= LimitOf(e),
                        stamp'[e] > stamp'[d] + retry_after'[d]
                 PROVE  admitted'[d] # admitted'[e]
      BY DEF RetryAfterIsEnough
    <2>1. CASE d = c
      <3>1. full
        BY <1>12, <2>1 DEF LimitInv, LimitTypeOK
      <3>2. retry_after'[d] = RetryAfter(counted, now)
        BY <1>12, <2>1, <3>1 DEF LimitInv, LimitTypeOK
      <3>3. stamp'[e] <= now /\ stamp'[e] \in Nat
        BY <1>4, <1>6, <1>7
      <3> QED BY <1>4, <1>7, <1>13, <2>1, <3>1, <3>2, <3>3
    <2>2. ASSUME d # c
          PROVE  /\ verdict'[d] = verdict[d] /\ retry_after'[d] = retry_after[d]
                 /\ stamp'[d] = stamp[d] /\ admitted'[d] = admitted[d]
                 /\ in_window'[d] = in_window[d]
      BY <1>1, <1>12, <2>2 DEF LimitInv, LimitTypeOK
    <2>3. CASE d # c /\ e # c
      <3>1. verdict'[e] = verdict[e] /\ stamp'[e] = stamp[e] /\ admitted'[e] = admitted[e]
        BY <1>1, <1>12, <2>3 DEF LimitInv, LimitTypeOK
      <3> QED BY <2>2, <2>3, <3>1 DEF LimitInv, LimitIsKept, RetryAfterIsEnough
    <2>4. CASE d # c /\ e = c
      <3> SUFFICES ASSUME admitted'[d] = admitted'[e] PROVE FALSE
        OBVIOUS
      <3>1. full
        BY <1>12, <2>4 DEF LimitInv, LimitTypeOK
      <3>2. admitted'[e] = Allowed
        BY <1>12, <2>4, <3>1 DEF LimitInv, LimitTypeOK
      <3>3. /\ InWindow(file, stamp[d]) \subseteq in_window[d]
            /\ \E l \in in_window[d] : stamp[d] + retry_after[d] >= l.at + WINDOW
        BY <2>2, <2>4, <3>2 DEF LimitInv, RefusalInv
      <3>4. PICK l \in in_window[d] : stamp[d] + retry_after[d] >= l.at + WINDOW
        BY <3>3
      <3>5. l.at < now - WINDOW
        <4>1. l.at \in Nat /\ retry_after[d] \in Int
          BY <1>9 DEF LimitInv, CountInv, LimitTypeOK
        <4>2. now > stamp[d] + retry_after[d]
          BY <1>7, <2>2, <2>4
        <4> QED BY <1>3, <1>4, <3>4, <4>1, <4>2
      <3>6. counted \subseteq in_window[d] \ {l}
        <4>1. \A m \in counted : m \in file /\ m.at >= stamp[d] - WINDOW /\ m # l
          BY <1>3, <1>4, <1>10, <3>5
        <4> QED BY <3>3, <4>1 DEF InWindow
      <3>7. /\ IsFiniteSet(in_window[d]) /\ Cardinality(in_window[d]) \in Nat
            /\ IsFiniteSet(in_window[d] \ {l})
            /\ Cardinality(in_window[d] \ {l}) = Cardinality(in_window[d]) - 1
        BY FS_RemoveElement, FS_CardinalityType DEF LimitInv, CountInv
      <3>8. Cardinality(counted) <= Cardinality(in_window[d]) - 1
        BY <3>6, <3>7, FS_Subset
      <3>9. Cardinality(in_window[d]) <= LimitOf(c)
        BY <2>2, <2>4
      <3> QED BY <1>3, <1>11, <3>1, <3>7, <3>8, <3>9 DEF full
    <2> QED BY <2>1, <2>3, <2>4
  <1> QED BY <1>15, <1>16, <1>17, <1>18, <1>19, <1>20, <1>21, <1>22 DEF LimitInv, LimitIsKept

\* The calls whose lines c has counted are fewer than the limit of its process.
LEMMA CountedAreFew ==
    ASSUME LimitInv, NEW c \in Call, verdict[c] = "counted"
    PROVE  LET W == {d \in Allowed : LineOf(d) \in in_window[c]}
           IN  IsFiniteSet(W) /\ Cardinality(W) < LimitOf(c)
  <1> DEFINE W == {d \in Allowed : LineOf(d) \in in_window[c]}
             f == [d \in W |-> LineOf(d)]
  <1>1. f \in Injection(W, in_window[c])
    BY DEF Injection, IsInjective, LineOf
  <1>2. IsFiniteSet(in_window[c]) /\ Cardinality(in_window[c]) < LimitOf(c)
    BY DEF LimitInv, CountInv
  <1> HIDE DEF f, W
  <1>3. IsFiniteSet(W) /\ Cardinality(W) <= Cardinality(in_window[c])
    BY <1>1, <1>2, FS_Injection
  <1>4. Cardinality(W) \in Nat /\ Cardinality(in_window[c]) \in Nat
    BY <1>2, <1>3, FS_CardinalityType
  <1>5. LimitOf(c) \in Nat
    BY RateAssumption DEF LimitOf
  <1> QED BY <1>2, <1>3, <1>4, <1>5 DEF W

\* What is true when c replaces the file without overlapping another process: no
\* allowed call is later than c, and c has counted those in its window.
LEMMA CountedAll ==
    ASSUME LimitInv, NEW c \in Call, verdict[c] = "counted",
           FileIsComplete, OwnCallsAreCounted,
           \A l \in InWindow(file, stamp[c]) \ in_window[c] : Caller[l.call] = Caller[c]
    PROVE  \A e \in Allowed :
               /\ stamp[e] <= stamp[c]
               /\ stamp[e] >= stamp[c] - WINDOW => LineOf(e) \in in_window[c]
  <1>1. /\ WINDOW \in Nat \ {0} /\ now \in Nat
        /\ \A d \in Call : stamp[d] \in Nat /\ stamp[d] <= now
        /\ \A d \in Allowed : d \in Call
    BY RateAssumption DEF LimitInv, LimitTypeOK, Allowed
  <1>2. ASSUME NEW e \in Allowed, LineOf(e) \in file, stamp[e] >= stamp[c] - WINDOW
        PROVE  LineOf(e) \in in_window[c]
    <2> SUFFICES ASSUME LineOf(e) \notin in_window[c] PROVE FALSE
      OBVIOUS
    <2>1. LineOf(e) \in InWindow(file, stamp[c])
      BY <1>2 DEF InWindow, LineOf
    <2>2. Caller[e] = Caller[c]
      BY <2>1 DEF LineOf
    <2> QED BY <1>2, <2>2 DEF OwnCallsAreCounted
  <1>3. ASSUME NEW e \in Allowed PROVE stamp[e] <= stamp[c]
    <2> DEFINE Ages == {now - stamp[d] : d \in Allowed}
    <2>1. Ages \subseteq Nat /\ Ages # {}
      BY <1>1
    <2>2. PICK x \in Ages : \A y \in Ages : x <= y
      <3> HIDE DEF Ages
      <3> QED BY <2>1, LeastExists
    <2>3. PICK d \in Allowed : x = now - stamp[d]
      OBVIOUS
    <2>4. \A b \in Allowed : stamp[b] <= stamp[d]
      <3>1. \A b \in Allowed : now - stamp[b] \in Ages
        OBVIOUS
      <3> HIDE DEF Ages
      <3> QED BY <1>1, <2>2, <2>3, <3>1
    <2> SUFFICES ASSUME stamp[d] > stamp[c] PROVE FALSE
      BY <1>1, <2>4
    <2>5. \A b \in Allowed : stamp[d] >= stamp[b] - WINDOW
      <3> HIDE DEF Ages
      <3> QED BY <1>1, <2>4
    <2>6. LineOf(d) \in file
      BY <2>5 DEF FileIsComplete
    <2>7. LineOf(d) \in in_window[c]
      BY <1>1, <1>2, <2>6
    <2>8. LineOf(d).at <= stamp[c]
      BY <1>1, <2>7 DEF LimitInv, CountInv
    <2> QED BY <1>1, <2>8 DEF LineOf
  <1>4. ASSUME NEW e \in Allowed, stamp[e] >= stamp[c] - WINDOW
        PROVE  LineOf(e) \in in_window[c]
    <2>1. \A b \in Allowed : stamp[e] >= stamp[b] - WINDOW
      BY <1>1, <1>3, <1>4
    <2> QED BY <1>2, <1>4, <2>1 DEF FileIsComplete
  <1> QED BY <1>3, <1>4

LEMMA RecordKeeps ==
    ASSUME LimitInv, NEW c \in Call, Record(c)
    PROVE  LimitInv'
  <1>1. /\ verdict[c] = "counted"
        /\ verdict' = [verdict EXCEPT ![c] = "allowed"]
        /\ in_window' = [in_window EXCEPT ![c] = {}]
        /\ lock' = [lock EXCEPT ![Caller[c]] = NoCall]
        /\ UNCHANGED <<now, stamp, retry_after, admitted>>
    BY DEF Record
  <1>2. \/ /\ file' = in_window[c] \union {LineOf(c)}
           /\ overlapped' = (overlapped \/ \E l \in InWindow(file, stamp[c]) \ in_window[c] :
                                               Caller[l.call] # Caller[c])
           /\ degraded' = degraded
        \/ degraded' = TRUE /\ file' = file /\ overlapped' = overlapped
    BY DEF Record, LineOf
  <1>3. /\ LimitOf(c) \in Nat \ {0} /\ WINDOW \in Nat \ {0} /\ Horizon \in Nat
        /\ Caller \in [Call -> Process] /\ NoCall \notin Call
    BY RateAssumption DEF LimitOf
  <1>4. /\ now \in Nat /\ now <= Horizon
        /\ \A d \in Call : stamp[d] \in Nat /\ stamp[d] <= now
    BY <1>3 DEF LimitInv, LimitTypeOK
  <1>5. Allowed' = Allowed \union {c} /\ c \notin Allowed /\ Allowed \subseteq Call
    BY <1>1 DEF Allowed, LimitInv, LimitTypeOK
  <1>6. LinesOf(Allowed)' = LinesOf(Allowed) \union {LineOf(c)}
    BY <1>1, <1>5 DEF LinesOf, LineOf
  <1>7. /\ verdict'[c] = "allowed"
        /\ \A d \in Call : d # c => verdict'[d] = verdict[d] /\ in_window'[d] = in_window[d]
        /\ in_window'[c] = {}
    BY <1>1 DEF LimitInv, LimitTypeOK
  <1>8. LimitTypeOK'
    <2>1. lock' \in [Process -> Call \union {NoCall}]
      BY <1>1 DEF LimitInv, LimitTypeOK
    <2>2. verdict' \in [Call -> {"none", "locked", "counted", "allowed", "refused"}]
      BY <1>1 DEF LimitInv, LimitTypeOK
    <2>3. in_window' \in [Call -> SUBSET Line]
      BY <1>1 DEF LimitInv, LimitTypeOK
    <2>4. overlapped' \in BOOLEAN /\ degraded' \in BOOLEAN
      BY <1>2 DEF LimitInv, LimitTypeOK
    <2> QED BY <1>1, <2>1, <2>2, <2>3, <2>4 DEF LimitInv, LimitTypeOK
  <1>9. LockInv'
    <2> SUFFICES ASSUME NEW d \in Call
                 PROVE  verdict'[d] \in {"locked", "counted"} <=> lock'[Caller[d]] = d
      BY DEF LockInv
    <2>1. lock'[Caller[d]] = IF Caller[d] = Caller[c] THEN NoCall ELSE lock[Caller[d]]
      BY <1>1, <1>3 DEF LimitInv, LimitTypeOK
    <2>2. /\ verdict[d] \in {"locked", "counted"} <=> lock[Caller[d]] = d
          /\ lock[Caller[c]] = c
      BY <1>1 DEF LimitInv, LockInv
    <2> QED BY <1>3, <1>7, <2>1, <2>2
  <1>10. FileInv'
    <2>1. CASE file' = file
      BY <1>6, <2>1 DEF LimitInv, FileInv
    <2>2. CASE file' = in_window[c] \union {LineOf(c)}
      <3>1. in_window[c] \subseteq LinesOf(Allowed) /\ IsFiniteSet(in_window[c])
        BY DEF LimitInv, CountInv
      <3>2. IsFiniteSet(file')
        BY <2>2, <3>1, FS_AddElement
      <3> QED BY <1>6, <2>2, <3>1, <3>2 DEF FileInv
    <2> QED BY <1>2, <2>1, <2>2
  <1>11. CountInv'
    <2> SUFFICES ASSUME NEW d \in Call
                 PROVE  /\ verdict'[d] \notin {"counted", "refused"} => in_window'[d] = {}
                        /\ in_window'[d] \subseteq LinesOf(Allowed)'
                        /\ IsFiniteSet(in_window'[d])
                        /\ \A l \in in_window'[d] : l.at \in stamp'[d] - WINDOW .. stamp'[d]
                        /\ verdict'[d] = "counted" =>
                              Cardinality(in_window'[d]) < LimitOf(d)
      BY DEF CountInv
    <2>1. CASE d # c
      BY <1>1, <1>6, <1>7, <2>1 DEF LimitInv, CountInv
    <2>2. CASE d = c
      <3>1. in_window'[d] = {} /\ IsFiniteSet({}) /\ verdict'[d] = "allowed"
        BY <1>7, <2>2, FS_EmptySet
      <3> QED BY <3>1
    <2> QED BY <2>1, <2>2
  <1>12. ASSUME ~ overlapped', ~ degraded'
         PROVE  /\ file' = in_window[c] \union {LineOf(c)}
                /\ ~ overlapped /\ ~ degraded /\ FileIsComplete /\ OwnCallsAreCounted
                /\ \A e \in Allowed :
                       /\ stamp[e] <= stamp[c]
                       /\ stamp[e] >= stamp[c] - WINDOW => LineOf(e) \in in_window[c]
    <2>1. /\ file' = in_window[c] \union {LineOf(c)} /\ ~ overlapped /\ ~ degraded
          /\ \A l \in InWindow(file, stamp[c]) \ in_window[c] : Caller[l.call] = Caller[c]
      <3> DEFINE Lost == \E l \in InWindow(file, stamp[c]) \ in_window[c] :
                             Caller[l.call] # Caller[c]
      <3>1. \/ /\ file' = in_window[c] \union {LineOf(c)}
               /\ (overlapped' <=> overlapped \/ Lost) /\ (degraded' <=> degraded)
            \/ degraded'
        BY <1>2
      <3>2. ~ Lost /\ ~ overlapped /\ ~ degraded /\ file' = in_window[c] \union {LineOf(c)}
        <4> HIDE DEF Lost
        <4> QED BY <1>12, <3>1
      <3> QED BY <3>2
    <2>2. FileIsComplete /\ OwnCallsAreCounted
      BY <2>1 DEF LimitInv
    <2> QED BY <1>1, <2>1, <2>2, CountedAll
  <1>13. ASSUME ~ overlapped', ~ degraded' PROVE FileIsComplete' /\ OwnCallsAreCounted'
    <2>1. ASSUME NEW e \in Allowed', \A d \in Allowed' : stamp[e] >= stamp[d] - WINDOW
          PROVE  LineOf(e) \in file'
      <3>1. e = c \/ LineOf(e) \in in_window[c]
        BY <1>5, <1>12, <1>13, <2>1
      <3> QED BY <1>12, <1>13, <3>1
    <2>2. FileIsComplete'
      BY <1>1, <2>1 DEF FileIsComplete, LineOf
    <2>3. ASSUME NEW d \in Call, NEW e \in Allowed',
                 verdict'[d] = "counted", Caller[e] = Caller[d], stamp[e] >= stamp[d] - WINDOW
          PROVE  LineOf(e) \in in_window'[d]
      <3>1. d # c /\ verdict[d] = "counted" /\ in_window'[d] = in_window[d]
        BY <1>7, <2>3
      <3>2. Caller[d] # Caller[c]
        BY <1>1, <3>1 DEF LimitInv, LockInv
      <3>3. e \in Allowed
        BY <1>5, <2>3, <3>2
      <3> QED BY <1>12, <1>13, <2>3, <3>1, <3>3 DEF OwnCallsAreCounted
    <2>4. OwnCallsAreCounted'
      BY <1>1, <2>3 DEF OwnCallsAreCounted, LineOf
    <2> QED BY <2>2, <2>4
  <1>14. RefusalInv'
    <2> SUFFICES ASSUME NEW d \in Call, verdict'[d] = "refused"
                 PROVE  /\ retry_after[d] >= 1
                        /\ admitted[d] \subseteq Allowed'
                        /\ admitted[d] # Allowed'
      BY <1>1 DEF RefusalInv
    <2>1. verdict[d] = "refused"
      BY <1>7
    <2>2. retry_after[d] >= 1 /\ admitted[d] \subseteq Allowed
      BY <2>1 DEF LimitInv, RefusalInv
    <2> QED BY <1>5, <2>2
  <1>15. RetryAfterIsEnough'
    <2>1. \A d \in Call : verdict'[d] = "refused" =>
              verdict[d] = "refused" /\ in_window'[d] = in_window[d]
      BY <1>7
    <2> QED BY <1>1, <2>1 DEF LimitInv, LimitIsKept, RetryAfterIsEnough
  <1>16. BudgetKept'
    <2> SUFFICES ASSUME ~ overlapped', ~ degraded', NEW x \in Allowed'
                 PROVE  \E last \in Allowed' :
                            /\ stamp[last] = stamp[x]
                            /\ Cardinality(WindowOf(x)') <= LimitOf(last)
      BY <1>1 DEF BudgetKept
    <2>1. x \in Call
      BY <1>5
    <2>w. WindowOf(x)' = {d \in Allowed' : stamp[d] \in stamp[x] - WINDOW .. stamp[x]}
      BY <1>1 DEF WindowOf
    <2>2. CASE x \in Allowed /\ c \notin WindowOf(x)'
      <3>1. WindowOf(x)' = WindowOf(x)
        BY <1>5, <2>2, <2>w DEF WindowOf
      <3>2. \E last \in Allowed :
                stamp[last] = stamp[x] /\ Cardinality(WindowOf(x)) <= LimitOf(last)
        BY <1>12, <2>2 DEF LimitInv, LimitIsKept, BudgetKept
      <3> QED BY <1>5, <3>1, <3>2
    <2>3. CASE x = c \/ c \in WindowOf(x)'
      <3> DEFINE W == {d \in Allowed : LineOf(d) \in in_window[c]}
      <3>1. stamp[x] = stamp[c]
        BY <1>3, <1>4, <1>5, <1>12, <2>1, <2>3, <2>w
      <3>2. WindowOf(x)' \subseteq W \union {c}
        BY <1>3, <1>4, <1>5, <1>12, <3>1, <2>w
      <3>3. IsFiniteSet(W) /\ Cardinality(W) < LimitOf(c)
        BY <1>1, CountedAreFew
      <3> HIDE DEF W
      <3>4. /\ IsFiniteSet(W \union {c}) /\ Cardinality(W) \in Nat
            /\ Cardinality(W \union {c}) <= Cardinality(W) + 1
        <4>1. /\ IsFiniteSet(W \union {c})
              /\ \/ Cardinality(W \union {c}) = Cardinality(W)
                 \/ Cardinality(W \union {c}) = Cardinality(W) + 1
          BY <3>3, FS_AddElement
        <4>2. Cardinality(W) \in Nat
          BY <3>3, FS_CardinalityType
        <4> QED BY <4>1, <4>2
      <3>5. /\ Cardinality(WindowOf(x)') <= Cardinality(W \union {c})
            /\ Cardinality(WindowOf(x)') \in Nat /\ Cardinality(W \union {c}) \in Nat
        BY <3>2, <3>4, FS_Subset, FS_CardinalityType
      <3>6. Cardinality(WindowOf(x)') <= LimitOf(c)
        BY <1>3, <3>3, <3>4, <3>5
      <3> QED BY <1>5, <3>1, <3>6
    <2> QED BY <1>5, <2>2, <2>3
  <1> QED BY <1>8, <1>9, <1>10, <1>11, <1>13, <1>14, <1>15, <1>16 DEF LimitInv, LimitIsKept

-----------------------------------------------------------------------------
LEMMA LimitInvariant == ShellSpec => []LimitInv
  <1>1. ShellInit => LimitInv
    BY LimitInitially DEF ShellInit, PlannerInit
  <1>2. LimitInv /\ [ShellNext]_shellVars => LimitInv'
    <2>1. LimitInv /\ UNCHANGED shellVars => LimitInv'
      BY LimitStutters DEF shellVars, plannerVars
    <2>2. LimitInv /\ ShellNext => LimitInv'
      BY LimiterSteps, LimitStutters, TickKeeps, TakeLockKeeps, CountKeeps, RecordKeeps
    <2> QED BY <2>1, <2>2
  <1> QED BY <1>1, <1>2, PTL DEF ShellSpec

\* The shell and every other planner of the user keep the rate limiter's promise
\* (check_and_consume): never more calls in a window than the process of the last of
\* them allows, and a wait that is enough for a process that allows as many calls as
\* the refused one found; for any number of calls and processes and any limits.
THEOREM LimitAlwaysKept == ShellSpec => []LimitIsKept
  <1>1. LimitInv => LimitIsKept
    BY DEF LimitInv
  <1> QED BY LimitInvariant, <1>1, PTL

-----------------------------------------------------------------------------
(* The inductive invariant of the planner's conversations.                 *)

Conversations ==
    /\ asked \in [Call -> Seq(Tool)] /\ answers \in [Call -> Seq(Tool)]
    /\ phase \in [Call -> {"none", "limit", "ask", "tools", "remember", "done"}]

\* The answers are those to the first tool calls of the completion: to all of them
\* unless the loop over them is under way.
AnswersInv ==
    \A c \in Call :
        /\ phase[c] \in {"none", "limit", "ask"} => answers[c] = asked[c]
        /\ phase[c] \in {"tools", "remember", "done"} =>
              /\ Len(answers[c]) <= Len(asked[c])
              /\ \A i \in 1 .. Len(answers[c]) : answers[c][i] = asked[c][i]
        /\ phase[c] = "remember" => Len(answers[c]) < Len(asked[c])

ToldInv == Conversations /\ AnswersInv /\ SavedFactsStay

LEMMA ToldInitially == PlannerInit => ToldInv
  <1> SUFFICES ASSUME PlannerInit PROVE ToldInv
    OBVIOUS
  <1> USE DEF PlannerInit
  <1>1. Conversations
    BY DEF Conversations
  <1>2. AnswersInv /\ SavedFactsStay
    BY DEF AnswersInv, SavedFactsStay
  <1> QED BY <1>1, <1>2 DEF ToldInv

LEMMA ToldStutters == ToldInv /\ UNCHANGED planVars => ToldInv'
  BY DEF ToldInv, Conversations, AnswersInv, SavedFactsStay, planVars

\* A step that leaves the tool calls alone, and does not begin to ask for them.
LEMMA OtherSteps ==
    ASSUME ToldInv, NEW c \in Call, UNCHANGED <<asked, answers, prefVars>>,
           NEW p \in {"limit", "ask", "done"},
           phase' = [phase EXCEPT ![c] = p],
           p # "done" => phase[c] \in {"none", "limit"}
    PROVE  ToldInv'
  <1>1. Conversations'
    BY DEF ToldInv, Conversations
  <1>2. \A d \in Call : phase'[d] = IF d = c THEN p ELSE phase[d]
    BY DEF ToldInv, Conversations
  <1>3. AnswersInv'
    <2>1. ASSUME NEW d \in Call
          PROVE  /\ answers'[d] = answers[d] /\ asked'[d] = asked[d]
                 /\ answers[d] = asked[d] =>
                       /\ Len(answers[d]) <= Len(asked[d])
                       /\ \A i \in 1 .. Len(answers[d]) : answers[d][i] = asked[d][i]
      BY DEF ToldInv, Conversations
    <2>2. ASSUME NEW d \in Call, d # c
          PROVE  phase'[d] = phase[d]
      BY <1>2, <2>2
    <2>3. phase'[c] = p /\ phase[c] \in {"none", "limit", "ask", "tools", "remember", "done"}
      BY <1>2 DEF ToldInv, Conversations
    <2>4. ASSUME NEW d \in Call
          PROVE  /\ phase'[d] \in {"none", "limit", "ask"} => answers[d] = asked[d]
                 /\ phase'[d] \in {"tools", "remember", "done"} =>
                       /\ Len(answers[d]) <= Len(asked[d])
                       /\ \A i \in 1 .. Len(answers[d]) : answers[d][i] = asked[d][i]
                 /\ phase'[d] = "remember" => Len(answers[d]) < Len(asked[d])
      <3>1. CASE d # c
        BY <2>2, <3>1 DEF ToldInv, AnswersInv
      <3>2. CASE d = c
        BY <2>1, <2>3, <3>2 DEF ToldInv, AnswersInv
      <3> QED BY <3>1, <3>2
    <2> QED BY <2>1, <2>4 DEF AnswersInv
  <1>4. SavedFactsStay'
    BY DEF ToldInv, SavedFactsStay, prefVars
  <1> QED BY <1>1, <1>3, <1>4 DEF ToldInv

\* The answer to the next tool call, in the order of the calls.
LEMMA OneMoreAnswer ==
    ASSUME ToldInv, NEW c \in Call, NEW tool \in Tool,
           phase[c] \in {"tools", "remember"}, Len(answers[c]) < Len(asked[c]),
           asked[c][Len(answers[c]) + 1] = tool, Answered(c, tool),
           phase' = [phase EXCEPT ![c] = "tools"], UNCHANGED asked
    PROVE  Conversations' /\ AnswersInv'
  <1>1. Conversations'
    BY DEF ToldInv, Conversations, Answered
  <1>2. /\ \A d \in Call : phase'[d] = IF d = c THEN "tools" ELSE phase[d]
        /\ \A d \in Call : d # c => answers'[d] = answers[d]
        /\ answers'[c] = Append(answers[c], tool)
        /\ asked[c] \in Seq(Tool) /\ answers[c] \in Seq(Tool)
    BY DEF ToldInv, Conversations, Answered
  <1>3. /\ Len(answers[c]) < Len(asked[c]) /\ Len(answers[c]) \in Nat
        /\ Len(asked[c]) \in Nat
        /\ \A i \in 1 .. Len(answers[c]) : answers[c][i] = asked[c][i]
    BY <1>2 DEF ToldInv, AnswersInv
  <1>4. /\ Len(answers'[c]) = Len(answers[c]) + 1
        /\ \A i \in 1 .. Len(answers'[c]) : answers'[c][i] = asked[c][i]
    BY <1>2, <1>3
  <1>5. Len(answers'[c]) <= Len(asked[c])
    BY <1>3, <1>4
  <1>6. AnswersInv'
    <2>1. ASSUME NEW d \in Call, d # c
          PROVE  /\ phase'[d] = phase[d] /\ answers'[d] = answers[d] /\ asked'[d] = asked[d]
      BY <1>2, <2>1
    <2>2. phase'[c] = "tools" /\ asked'[c] = asked[c]
      BY <1>2
    <2>3. ASSUME NEW d \in Call
          PROVE  /\ phase'[d] \in {"none", "limit", "ask"} => answers'[d] = asked'[d]
                 /\ phase'[d] \in {"tools", "remember", "done"} =>
                       /\ Len(answers'[d]) <= Len(asked'[d])
                       /\ \A i \in 1 .. Len(answers'[d]) : answers'[d][i] = asked'[d][i]
                 /\ phase'[d] = "remember" => Len(answers'[d]) < Len(asked'[d])
      <3>1. CASE d = c
        BY <1>4, <1>5, <2>2, <3>1
      <3>2. CASE d # c
        BY <2>1, <3>2 DEF ToldInv, AnswersInv
      <3> QED BY <3>1, <3>2
    <2> QED BY <2>3 DEF AnswersInv
  <1> QED BY <1>1, <1>6

LEMMA PlannerKeeps ==
    ASSUME ToldInv, NEW c \in Call, PlannerStep(c)
    PROVE  ToldInv'
  <1> USE DEF Answer
  <1>1. CASE Limit(c)
    BY <1>1, ToldStutters DEF Limit
  <1>2. CASE \/ Limited(c) \/ ProviderFails(c) \/ Summarised(c) \/ NothingToDo(c)
             \/ StateUnavailable(c) \/ ProposePlan(c)
    BY <1>2, OtherSteps DEF Limited, ProviderFails, Summarised, NothingToDo,
                            StateUnavailable, ProposePlan
  <1>3. ASSUME NEW has_text \in BOOLEAN, EndTurn(c, has_text) PROVE ToldInv'
    <2> HIDE DEF Answer
    <2>1. /\ phase[c] = "ask" /\ UNCHANGED prefVars
          /\ asked' = [asked EXCEPT ![c] = << >>] /\ answers' = [answers EXCEPT ![c] = << >>]
          /\ phase' = phase \/ phase' = [phase EXCEPT ![c] = "done"]
      <3>1. /\ phase[c] = "ask" /\ UNCHANGED prefVars
            /\ asked' = [asked EXCEPT ![c] = << >>] /\ answers' = [answers EXCEPT ![c] = << >>]
            /\ phase' = phase \/ Answer(c, "NoPlanProposed")
        BY <1>3, Zenon DEF EndTurn
      <3> QED BY <3>1 DEF Answer
    <2>2. Conversations'
      BY <2>1 DEF ToldInv, Conversations
    <2>3. /\ asked'[c] = << >> /\ answers'[c] = << >> /\ phase'[c] \in {"ask", "done"}
          /\ \A d \in Call : d # c => /\ phase'[d] = phase[d] /\ asked'[d] = asked[d]
                                      /\ answers'[d] = answers[d]
      BY <2>1 DEF ToldInv, Conversations
    <2>4. AnswersInv'
      BY <2>3 DEF ToldInv, AnswersInv
    <2> QED BY <2>1, <2>2, <2>4 DEF ToldInv, SavedFactsStay, prefVars
  <1>4. ASSUME NEW b \in Batches, ToolUse(c, b) PROVE ToldInv'
    <2>1. /\ UNCHANGED prefVars /\ b \in Seq(Tool)
          /\ asked' = [asked EXCEPT ![c] = b] /\ answers' = [answers EXCEPT ![c] = << >>]
          /\ phase' = [phase EXCEPT ![c] = "tools"]
      BY <1>4, PlannerAssumption DEF ToolUse
    <2>2. Conversations'
      BY <2>1 DEF ToldInv, Conversations
    <2>3. /\ asked'[c] = b /\ answers'[c] = << >> /\ phase'[c] = "tools"
          /\ \A d \in Call : d # c => /\ phase'[d] = phase[d] /\ asked'[d] = asked[d]
                                      /\ answers'[d] = answers[d]
      BY <2>1 DEF ToldInv, Conversations
    <2>4. AnswersInv'
      BY <2>1, <2>3 DEF ToldInv, AnswersInv
    <2> QED BY <2>1, <2>2, <2>4 DEF ToldInv, SavedFactsStay, prefVars
  <1>5. CASE AnswerTool(c) \/ AnswerQuery(c) \/ GiveState(c) \/ RejectPlan(c) \/ RefuseFact(c)
    <2>1. PICK tool \in Tool : PushResult(c, tool)
      BY <1>5 DEF AnswerTool, AnswerQuery, GiveState, RejectPlan, RefuseFact, Tool
    <2>2. /\ Calls(c, tool) /\ Answered(c, tool)
          /\ UNCHANGED <<phase, asked>> /\ UNCHANGED prefVars
      BY <2>1 DEF PushResult
    <2>3. phase' = [phase EXCEPT ![c] = "tools"]
      BY <2>2 DEF Calls, ToldInv, Conversations
    <2>4. Conversations' /\ AnswersInv'
      BY <2>2, <2>3, OneMoreAnswer DEF Calls
    <2> QED BY <2>2, <2>4 DEF ToldInv, SavedFactsStay, prefVars
  <1>6. CASE ReadPrefs(c)
    <2>1. /\ phase[c] = "tools" /\ Len(answers[c]) < Len(asked[c])
          /\ phase' = [phase EXCEPT ![c] = "remember"]
          /\ UNCHANGED <<asked, answers, prefs, told, raced>>
      BY <1>6 DEF ReadPrefs, Calls
    <2>2. Conversations' /\ \A d \in Call : phase'[d] = IF d = c THEN "remember" ELSE phase[d]
      BY <2>1 DEF ToldInv, Conversations
    <2>3. AnswersInv'
      BY <2>1, <2>2 DEF ToldInv, AnswersInv
    <2> QED BY <2>1, <2>2, <2>3 DEF ToldInv, SavedFactsStay
  <1>7. ASSUME NEW f \in Fact, AppendPref(c, f) \/ RemovePref(c, f) PROVE ToldInv'
    <2>1. PICK tool \in {"remember", "forget"} :
              asked[c][Len(answers[c]) + 1] = tool /\ Answered(c, tool)
      BY <1>7 DEF AppendPref, RemovePref
    <2>2. /\ phase[c] = "remember" /\ phase' = [phase EXCEPT ![c] = "tools"]
          /\ UNCHANGED asked
      BY <1>7 DEF AppendPref, RemovePref
    <2>3. Conversations' /\ AnswersInv'
      <3>1. Len(answers[c]) < Len(asked[c])
        BY <2>2 DEF ToldInv, AnswersInv
      <3>2. tool \in Tool /\ phase[c] \in {"tools", "remember"}
        BY <2>1, <2>2 DEF Tool
      <3> HIDE DEF Answer
      <3> QED BY <2>1, <2>2, <3>1, <3>2, OneMoreAnswer
    <2>4. SavedFactsStay'
      BY <1>7 DEF AppendPref, RemovePref, Rely, ToldInv, SavedFactsStay
    <2> QED BY <2>3, <2>4 DEF ToldInv
  <1>8. CASE NextTurn(c)
    <2>1. phase[c] = "tools" /\ Len(answers[c]) = Len(asked[c])
          /\ (\/ phase' = [phase EXCEPT ![c] = "ask"]
              \/ phase' = [phase EXCEPT ![c] = "done"])
          /\ UNCHANGED <<asked, answers>> /\ UNCHANGED prefVars
      BY <1>8 DEF NextTurn
    <2>2. answers[c] = asked[c]
      BY <2>1 DEF ToldInv, Conversations, AnswersInv
    <2>3. /\ Conversations' /\ phase'[c] \in {"ask", "done"}
          /\ \A d \in Call : d # c => phase'[d] = phase[d]
      BY <2>1 DEF ToldInv, Conversations
    <2>4. AnswersInv'
      BY <2>1, <2>2, <2>3 DEF ToldInv, AnswersInv
    <2> QED BY <2>1, <2>3, <2>4 DEF ToldInv, SavedFactsStay, prefVars
  <1> QED BY <1>1, <1>2, <1>3, <1>4, <1>5, <1>6, <1>7, <1>8 DEF PlannerStep

LEMMA ShellStepKeepsTold == ToldInv /\ ShellNext => ToldInv'
  <1> SUFFICES ASSUME ToldInv, ShellNext PROVE ToldInv'
    OBVIOUS
  <1>1. ASSUME NEW c \in Call, NEW k, AdmitIntent(c, k) \/ RefuseIntent(c, k)
        PROVE  ToldInv'
    BY <1>1, OtherSteps DEF AdmitIntent, RefuseIntent, Answer
  <1>2. CASE User
    <2>1. ASSUME NEW r \in Request, SubmitIntent(r) PROVE ToldInv'
      <3>1. r \in Call
        BY ShellAssumption
      <3>2. CASE NoCuratedState(r)
        BY <3>1, <3>2, OtherSteps DEF NoCuratedState, Answer
      <3> QED BY <1>1, <2>1, <3>1, <3>2 DEF SubmitIntent
    <2>2. CASE Approve \/ Reset \/ DismissReview
      BY <2>2, ToldStutters DEF Approve, Reset, DismissReview, plannerVars
    <2> QED BY <1>2, <2>1, <2>2 DEF User
  <1>3. ASSUME NEW c \in Call, Planning(c) \/ PlanElsewhere(c) PROVE ToldInv'
    BY <1>1, <1>3, PlannerKeeps DEF Planning, PlanElsewhere
  <1>4. ASSUME NEW r \in Request,
               Settled(r) \/ Executing(r) \/ ApprovalRejected(r) \/ SummaryReady(r)
        PROVE  ToldInv'
    BY <1>4, ToldStutters
       DEF Settled, PlanReady, PlanErrored, Settle, Executing, EmitResult,
           EmitCompleted, ApprovalRejected, SummaryReady, plannerVars
  <1>5. CASE Listening
    BY <1>5, ToldStutters DEF Listening, OnExecutionResult, OnOutcome, plannerVars
  <1>6. CASE Tick /\ UNCHANGED <<planVars, pageVars>>
    BY <1>6, ToldStutters
  <1> QED BY <1>2, <1>3, <1>4, <1>5, <1>6 DEF ShellNext

LEMMA ToldInvariant == ShellSpec => []ToldInv
  <1>1. ShellInit => ToldInv
    BY ToldInitially DEF ShellInit
  <1>2. ToldInv /\ [ShellNext]_shellVars => ToldInv'
    BY ShellStepKeepsTold, ToldStutters DEF shellVars, plannerVars
  <1> QED BY <1>1, <1>2, PTL DEF ShellSpec

\* Whatever the provider answers, in any number of conversations at once: each of
\* its tool calls is answered once and in order before it is asked again, and a
\* preference it was told is saved stays saved unless two conversations raced
\* (plan_with_executor, append_pref, remove_pref).
THEOREM AlwaysToldTruly == ShellSpec => []ToldTruly
  <1>1. ToldInv => ToldTruly
    BY DEF ToldInv, AnswersInv, ToldTruly, ToolCallsAnswered
  <1> QED BY ToldInvariant, <1>1, PTL

-----------------------------------------------------------------------------
(* A conversation comes to its end in boundedly many steps of its own.     *)

\* A turn is asked for only while one is left.
TurnInv ==
    /\ turn \in [Call -> Nat]
    /\ \A c \in Call :
           /\ turn[c] <= max_turns
           /\ phase[c] \in {"none", "limit", "ask"} => turn[c] < max_turns

VerdictTypeOK == verdict \in [Call -> {"none", "locked", "counted", "allowed", "refused"}]

TurnsInv == VerdictTypeOK /\ Conversations /\ TurnInv

\* The step is c's: it brings c forward, and every other conversation stays put.
ComesForward(c) ==
    /\ TurnInv' /\ Advances(c)
    /\ \A d \in Call \ {c} : UNCHANGED Conversation(d)

\* The conversation goes on to a later stage of its call, with its tool calls and
\* turns as they are.
LEMMA LaterStage ==
    ASSUME TurnsInv, NEW c \in Call, NEW p \in {"limit", "ask", "tools", "remember", "done"},
           UNCHANGED <<verdict, turn, asked, answers>>,
           phase' = [phase EXCEPT ![c] = p],
           \/ phase[c] = "none" /\ p \in {"limit", "done"}
           \/ phase[c] = "limit" /\ p \in {"ask", "done"}
           \/ phase[c] = "ask" /\ p = "done"
           \/ phase[c] = "tools" /\ p \in {"remember", "ask", "done"},
           p = "ask" => turn[c] < max_turns
    PROVE  ComesForward(c)
  <1>1. /\ phase'[c] = p /\ \A d \in Call \ {c} : phase'[d] = phase[d]
        /\ verdict[c] \in {"none", "locked", "counted", "allowed", "refused"}
        /\ turn[c] \in Nat /\ turn[c] <= max_turns
    BY DEF TurnsInv, VerdictTypeOK, Conversations, TurnInv
  <1>2. TurnInv'
    BY <1>1 DEF TurnsInv, TurnInv
  <1>3. Stage(c)' < Stage(c)
    BY <1>1 DEF Stage
  <1>4. Advances(c)
    <2>1. UNCHANGED <<turn[c], Unanswered(c)>>
      BY DEF Unanswered
    <2>2. TurnsLeft(c)' >= 0
      BY <1>1, PlannerAssumption DEF TurnsLeft
    <2> QED BY <1>3, <2>1, <2>2 DEF Advances
  <1>5. \A d \in Call \ {c} : UNCHANGED Conversation(d)
    BY <1>1 DEF Conversation
  <1> QED BY <1>2, <1>4, <1>5 DEF ComesForward

\* check_and_consume comes a step further for the call that waits for it.
LEMMA LimiterComesForward ==
    ASSUME TurnsInv, NEW c \in Call, Limit(c)
    PROVE  ComesForward(c)
  <1>1. PICK v \in {"locked", "counted", "refused", "allowed"} :
            /\ verdict' = [verdict EXCEPT ![c] = v]
            /\ \/ verdict[c] = "none" /\ v = "locked"
               \/ verdict[c] = "locked" /\ v \in {"counted", "refused"}
               \/ verdict[c] = "counted" /\ v = "allowed"
    <2>1. CASE TakeLock(c)
      BY <2>1 DEF TakeLock
    <2>2. CASE Count(c)
      BY <2>2 DEF Count
    <2>3. CASE Record(c)
      BY <2>3 DEF Record
    <2> QED BY <2>1, <2>2, <2>3 DEF Limit, Consume
  <1>2. phase[c] = "limit" /\ UNCHANGED <<phase, turn, asked, answers>>
    BY DEF Limit, planVars
  <1>3. /\ verdict'[c] = v /\ \A d \in Call \ {c} : verdict'[d] = verdict[d]
        /\ turn[c] \in Nat /\ turn[c] <= max_turns
    BY <1>1 DEF TurnsInv, VerdictTypeOK, TurnInv
  <1>4. TurnInv'
    BY <1>2 DEF TurnsInv, TurnInv
  <1>5. Stage(c)' < Stage(c)
    BY <1>1, <1>2, <1>3 DEF Stage
  <1>6. Advances(c)
    <2>1. UNCHANGED <<turn[c], Unanswered(c)>>
      BY <1>2 DEF Unanswered
    <2>2. TurnsLeft(c)' >= 0
      BY <1>2, <1>3, PlannerAssumption DEF TurnsLeft
    <2> QED BY <1>5, <2>1, <2>2 DEF Advances
  <1>7. \A d \in Call \ {c} : UNCHANGED Conversation(d)
    BY <1>2, <1>3 DEF Conversation
  <1> QED BY <1>4, <1>6, <1>7 DEF ComesForward

\* A tool call is answered.
LEMMA ToolAnswered ==
    ASSUME TurnsInv, NEW c \in Call, NEW tool \in Tool,
           phase[c] \in {"tools", "remember"}, Answered(c, tool),
           phase' = [phase EXCEPT ![c] = "tools"], UNCHANGED <<verdict, turn, asked>>
    PROVE  ComesForward(c)
  <1>1. /\ phase'[c] = "tools"
        /\ \A d \in Call \ {c} : phase'[d] = phase[d] /\ answers'[d] = answers[d]
        /\ answers'[c] = Append(answers[c], tool)
        /\ answers[c] \in Seq(Tool) /\ asked[c] \in Seq(Tool)
        /\ turn[c] \in Nat /\ turn[c] <= max_turns
    BY DEF TurnsInv, Conversations, TurnInv, Answered
  <1>2. TurnInv'
    BY <1>1 DEF TurnsInv, TurnInv
  <1>3. Unanswered(c)' < Unanswered(c)
    <2>1. Len(answers'[c]) = Len(answers[c]) + 1 /\ Len(answers[c]) \in Nat
          /\ Len(asked[c]) \in Nat /\ Len(asked'[c]) = Len(asked[c])
      BY <1>1
    <2>2. \A m, n \in Nat : m - (n + 1) < m - n
      OBVIOUS
    <2>3. Len(asked[c]) - (Len(answers[c]) + 1) < Len(asked[c]) - Len(answers[c])
      BY <2>1, <2>2
    <2>4. Len(asked'[c]) - Len(answers'[c]) < Len(asked[c]) - Len(answers[c])
      BY <2>1, <2>3
    <2> QED BY <2>4 DEF Unanswered
  <1>4. Advances(c)
    BY <1>1, <1>3, PlannerAssumption DEF Advances, TurnsLeft
  <1>5. \A d \in Call \ {c} : UNCHANGED Conversation(d)
    BY <1>1 DEF Conversation
  <1> QED BY <1>2, <1>4, <1>5 DEF ComesForward

\* A completion uses up a turn.
LEMMA TurnUsed ==
    ASSUME TurnsInv, NEW c \in Call, NEW p \in {"ask", "tools", "done"},
           NEW b \in Seq(Tool),
           phase[c] = "ask", phase' = [phase EXCEPT ![c] = p],
           turn' = [turn EXCEPT ![c] = @ + 1],
           asked' = [asked EXCEPT ![c] = b], answers' = [answers EXCEPT ![c] = << >>],
           UNCHANGED verdict, p = "ask" => turn[c] + 1 < max_turns
    PROVE  ComesForward(c)
  <1>1. /\ phase'[c] = p /\ turn'[c] = turn[c] + 1
        /\ turn[c] \in Nat /\ turn[c] < max_turns
        /\ \A d \in Call \ {c} : /\ phase'[d] = phase[d] /\ turn'[d] = turn[d]
                                 /\ asked'[d] = asked[d] /\ answers'[d] = answers[d]
    BY DEF TurnsInv, Conversations, TurnInv
  <1>2. TurnInv'
    <2>1. turn' \in [Call -> Nat]
      BY DEF TurnsInv, TurnInv
    <2>2. \A d \in Call : /\ turn'[d] <= max_turns
                          /\ phase'[d] \in {"none", "limit", "ask"} => turn'[d] < max_turns
      BY <1>1, PlannerAssumption DEF TurnsInv, TurnInv
    <2> QED BY <2>1, <2>2 DEF TurnInv
  <1>3. Advances(c)
    BY <1>1, PlannerAssumption DEF Advances, TurnsLeft
  <1>4. \A d \in Call \ {c} : UNCHANGED Conversation(d)
    BY <1>1 DEF Conversation
  <1> QED BY <1>2, <1>3, <1>4 DEF ComesForward

LEMMA PlannerComesForward ==
    ASSUME TurnsInv, NEW c \in Call, PlannerStep(c)
    PROVE  ComesForward(c)
  <1> USE DEF Answer, limitVars
  <1>1. CASE Limit(c)
    BY <1>1, LimiterComesForward
  <1>2. CASE \/ Limited(c) \/ ProviderFails(c) \/ Summarised(c) \/ NothingToDo(c)
             \/ StateUnavailable(c) \/ ProposePlan(c) \/ ReadPrefs(c) \/ NextTurn(c)
    <2>1. PICK p \in {"ask", "remember", "done"} :
              /\ UNCHANGED <<verdict, turn, asked, answers>>
              /\ phase' = [phase EXCEPT ![c] = p]
              /\ \/ phase[c] = "limit" /\ p \in {"ask", "done"}
                 \/ phase[c] = "ask" /\ p = "done"
                 \/ phase[c] = "tools" /\ p \in {"remember", "done"}
                 \/ phase[c] = "tools" /\ p = "ask" /\ turn[c] < max_turns
      BY <1>2 DEF Limited, ProviderFails, Summarised, NothingToDo, StateUnavailable,
                  ProposePlan, ReadPrefs, NextTurn, Calls
    <2>2. p = "ask" => turn[c] < max_turns
      BY <2>1 DEF TurnsInv, TurnInv
    <2> QED BY <2>1, <2>2, LaterStage
  <1>3. ASSUME NEW has_text \in BOOLEAN, EndTurn(c, has_text) PROVE ComesForward(c)
    <2>1. /\ phase[c] = "ask" /\ turn' = [turn EXCEPT ![c] = @ + 1] /\ UNCHANGED limitVars
          /\ asked' = [asked EXCEPT ![c] = << >>] /\ answers' = [answers EXCEPT ![c] = << >>]
          /\ \/ turn[c] + 1 < max_turns /\ phase' = phase
             \/ Answer(c, "NoPlanProposed")
      <3> HIDE DEF Answer, limitVars
      <3> QED BY <1>3, Zenon DEF EndTurn
    <2>2. PICK p \in {"ask", "done"} : /\ phase' = [phase EXCEPT ![c] = p]
                                       /\ p = "ask" => turn[c] + 1 < max_turns
      BY <2>1 DEF TurnsInv, Conversations
    <2>3. << >> \in Seq(Tool)
      OBVIOUS
    <2> QED BY <2>1, <2>2, <2>3, TurnUsed
  <1>4. ASSUME NEW b \in Batches, ToolUse(c, b) PROVE ComesForward(c)
    <2>1. b \in Seq(Tool)
      BY PlannerAssumption
    <2> QED BY <1>4, <2>1, TurnUsed DEF ToolUse
  <1>5. CASE AnswerTool(c) \/ AnswerQuery(c) \/ GiveState(c) \/ RejectPlan(c) \/ RefuseFact(c)
    <2>1. PICK tool \in Tool : PushResult(c, tool)
      BY <1>5 DEF AnswerTool, AnswerQuery, GiveState, RejectPlan, RefuseFact, Tool
    <2>2. /\ phase[c] = "tools" /\ Answered(c, tool)
          /\ UNCHANGED <<phase, turn, asked, verdict>>
      BY <2>1 DEF PushResult, Calls
    <2>3. phase' = [phase EXCEPT ![c] = "tools"]
      BY <2>2 DEF TurnsInv, Conversations
    <2> QED BY <2>2, <2>3, ToolAnswered
  <1>6. ASSUME NEW f \in Fact, AppendPref(c, f) \/ RemovePref(c, f) PROVE ComesForward(c)
    <2>1. PICK tool \in {"remember", "forget"} : Answered(c, tool)
      BY <1>6 DEF AppendPref, RemovePref
    <2>2. /\ phase[c] = "remember" /\ phase' = [phase EXCEPT ![c] = "tools"]
          /\ UNCHANGED <<verdict, turn, asked>> /\ tool \in Tool
      BY <1>6, <2>1 DEF AppendPref, RemovePref, Tool
    <2> QED BY <2>1, <2>2, ToolAnswered
  <1> QED BY <1>1, <1>2, <1>3, <1>4, <1>5, <1>6 DEF PlannerStep

\* A step of the shell or of another program is one of a conversation, or of none.
LEMMA ShellComesForward ==
    ASSUME TurnsInv, ShellNext
    PROVE  \/ \E c \in Call : ComesForward(c)
           \/ UNCHANGED <<verdict, planVars>>
  <1>1. ASSUME NEW c \in Call, NEW k, AdmitIntent(c, k) \/ RefuseIntent(c, k)
        PROVE  ComesForward(c)
    BY <1>1, LaterStage DEF AdmitIntent, RefuseIntent, Answer, limitVars
  <1>2. CASE User
    <2>1. ASSUME NEW r \in Request, SubmitIntent(r)
          PROVE  \E c \in Call : ComesForward(c)
      <3>1. r \in Call
        BY ShellAssumption
      <3>2. CASE NoCuratedState(r)
        BY <3>1, <3>2, LaterStage DEF NoCuratedState, Answer, limitVars
      <3> QED BY <1>1, <2>1, <3>1, <3>2 DEF SubmitIntent
    <2>2. CASE Approve \/ Reset \/ DismissReview
      BY <2>2 DEF Approve, Reset, DismissReview, plannerVars, limitVars
    <2> QED BY <1>2, <2>1, <2>2 DEF User
  <1>3. ASSUME NEW c \in Call, Planning(c) \/ PlanElsewhere(c) PROVE ComesForward(c)
    BY <1>1, <1>3, PlannerComesForward DEF Planning, PlanElsewhere
  <1>4. ASSUME NEW r \in Request,
               Settled(r) \/ Executing(r) \/ ApprovalRejected(r) \/ SummaryReady(r)
        PROVE  UNCHANGED <<verdict, planVars>>
    BY <1>4 DEF Settled, PlanReady, PlanErrored, Settle, Executing, EmitResult,
                EmitCompleted, ApprovalRejected, SummaryReady, plannerVars, limitVars
  <1>5. CASE Listening
    BY <1>5 DEF Listening, OnExecutionResult, OnOutcome, plannerVars, limitVars
  <1>6. CASE Tick /\ UNCHANGED <<planVars, pageVars>>
    BY <1>6 DEF Tick
  <1> QED BY <1>2, <1>3, <1>4, <1>5, <1>6 DEF ShellNext

\* plan_with_executor, summarize: a conversation has max_turns turns, and each of its
\* steps uses up one of them, a tool call of the turn, or a stage of the call, while
\* no other conversation can put it back.  None of the three ever falls below zero,
\* so that the loop ends for whatever the provider answers.
THEOREM ConversationsAreBounded ==
    /\ ShellSpec => ConversationsAdvance
    /\ ShellSpec => [](\A c \in Call : /\ TurnsLeft(c) \in 0 .. max_turns
                                       /\ Unanswered(c) \in Nat /\ Stage(c) \in 0 .. 8)
  <1>1. ShellInit => TurnInv
    BY PlannerAssumption DEF ShellInit, PlannerInit, TurnInv
  <1>2. ASSUME LimitInv, ToldInv, TurnInv, [ShellNext]_shellVars PROVE TurnInv'
    <2>1. CASE ShellNext
      <3>1. TurnsInv
        BY <1>2 DEF TurnsInv, VerdictTypeOK, LimitInv, LimitTypeOK, ToldInv
      <3>2. CASE UNCHANGED planVars
        BY <1>2, <3>2 DEF TurnInv, planVars
      <3> QED BY <2>1, <3>1, <3>2, ShellComesForward DEF ComesForward
    <2>2. CASE UNCHANGED shellVars
      BY <1>2, <2>2 DEF TurnInv, shellVars, plannerVars, planVars
    <2> QED BY <1>2, <2>1, <2>2
  <1>3. ASSUME LimitInv, ToldInv, TurnInv, [ShellNext]_shellVars
        PROVE  [\A c \in Call : UNCHANGED Conversation(c) \/ Advances(c)]_<<limitVars, planVars>>
    <2>1. CASE ShellNext
      <3>1. TurnsInv
        BY <1>3 DEF TurnsInv, VerdictTypeOK, LimitInv, LimitTypeOK, ToldInv
      <3>2. CASE UNCHANGED <<verdict, planVars>>
        BY <3>2 DEF Conversation, planVars
      <3> QED BY <2>1, <3>1, <3>2, ShellComesForward DEF ComesForward
    <2>2. CASE UNCHANGED shellVars
      BY <2>2 DEF shellVars, plannerVars
    <2> QED BY <1>3, <2>1, <2>2
  <1>4. ASSUME LimitInv, ToldInv, TurnInv, NEW c \in Call
        PROVE  /\ TurnsLeft(c) \in 0 .. max_turns
               /\ Unanswered(c) \in Nat /\ Stage(c) \in 0 .. 8
    <2>1. /\ turn[c] \in Nat /\ turn[c] <= max_turns
          /\ phase[c] \in {"none", "limit", "ask", "tools", "remember", "done"}
          /\ verdict[c] \in {"none", "locked", "counted", "allowed", "refused"}
          /\ asked[c] \in Seq(Tool) /\ answers[c] \in Seq(Tool)
      BY <1>4 DEF TurnInv, ToldInv, Conversations, LimitInv, LimitTypeOK
    <2>2. Len(answers[c]) <= Len(asked[c])
      BY <1>4, <2>1 DEF ToldInv, AnswersInv
    <2>3. TurnsLeft(c) \in 0 .. max_turns
      BY <2>1, PlannerAssumption DEF TurnsLeft
    <2>4. Unanswered(c) \in Nat
      BY <2>1, <2>2 DEF Unanswered
    <2>5. Stage(c) \in 0 .. 8
      BY <2>1 DEF Stage
    <2> QED BY <2>3, <2>4, <2>5
  <1>5. ShellSpec => []TurnInv
    BY <1>1, <1>2, LimitInvariant, ToldInvariant, PTL DEF ShellSpec
  <1>6. ShellSpec => ConversationsAdvance
    BY <1>3, <1>5, LimitInvariant, ToldInvariant, PTL DEF ShellSpec, ConversationsAdvance
  <1>7. ShellSpec => [](\A c \in Call : /\ TurnsLeft(c) \in 0 .. max_turns
                                        /\ Unanswered(c) \in Nat /\ Stage(c) \in 0 .. 8)
    <2>1. LimitInv /\ ToldInv /\ TurnInv =>
              \A c \in Call : /\ TurnsLeft(c) \in 0 .. max_turns
                              /\ Unanswered(c) \in Nat /\ Stage(c) \in 0 .. 8
      BY <1>4
    <2> QED BY <1>5, <2>1, LimitInvariant, ToldInvariant, PTL
  <1> QED BY <1>6, <1>7

-----------------------------------------------------------------------------
(* The inductive invariant of the page, as long as no request that was     *)
(* given up has been answered.                                             *)

Events == [event : {"execution-result", "job-completed"}, request : Request]

PageTypeOK ==
    /\ mode \in {"idle", "planning", "awaiting-approval", "executing", "reviewing",
                 "needs-reboot", "rolled-back", "failed"}
    /\ plan \in Request \union {NoCall}
    /\ job \in [Request -> {"none", "running", "emitting", "done"}]
    /\ inbox \in Seq(Events)
    /\ stale \in BOOLEAN

Result(r) == [event |-> "execution-result", request |-> r]
Busy(r) == job[r] \in {"running", "emitting"}

\* The job that runs is the plan's, and the page has not heard of its end.
OneJob ==
    \A r \in Request : Busy(r) =>
        /\ mode = "executing" /\ plan = r
        /\ \A i \in 1 .. Len(inbox) : inbox[i].event = "execution-result"
        /\ job[r] = "emitting" /\ Bridged =>
              IF inbox = << >> THEN pendingExecutionResult = r
              ELSE inbox[Len(inbox)] = Result(r)

\* The end of a job is the last event, is the plan's, and follows its result.
EndIsLast ==
    \A i \in 1 .. Len(inbox) : inbox[i].event = "job-completed" =>
        /\ i = Len(inbox) /\ mode = "executing" /\ plan = inbox[i].request
        /\ IF i = 1 THEN pendingExecutionResult = plan ELSE inbox[i - 1] = Result(plan)

PlanIsThere ==
    /\ plan \in {NoCall, intent}
    /\ mode \in {"awaiting-approval", "executing"} => plan # NoCall
    /\ mode = "reviewing" => review = plan

PageInv == PageTypeOK /\ (stale \/ (OneJob /\ EndIsLast /\ PlanIsThere))

LEMMA PageStutters == PageInv /\ UNCHANGED pageVars => PageInv'
  BY DEF PageInv, PageTypeOK, OneJob, EndIsLast, PlanIsThere, Busy, Result, pageVars

\* Steps of the user and of the promises, while no job runs and none has ended
\* unheard: whatever they put on the page.
LEMMA QuietSteps ==
    ASSUME PageInv, stale \/ mode # "executing",
           UNCHANGED <<job, inbox, pendingExecutionResult>>,
           mode' \in {"idle", "planning", "awaiting-approval"},
           plan' \in Request \union {NoCall}, stale' \in BOOLEAN, stale => stale',
           ~ stale' => PlanIsThere'
    PROVE  PageInv'
  <1>1. PageTypeOK'
    BY DEF PageInv, PageTypeOK
  <1>2. ~ stale' => OneJob' /\ EndIsLast'
    BY DEF PageInv, OneJob, EndIsLast, Busy
  <1> QED BY <1>1, <1>2 DEF PageInv

LEMMA UserKeepsPage == PageInv /\ User => PageInv'
  <1> SUFFICES ASSUME PageInv, User PROVE PageInv'
    OBVIOUS
  <1>0. NoCall \notin Request
    BY RateAssumption, ShellAssumption
  <1>1. ASSUME NEW r \in Request, SubmitIntent(r) PROVE PageInv'
    <2>1. /\ mode = "idle" /\ mode' = "planning" /\ plan' = NoCall
          /\ UNCHANGED <<job, inbox, pendingExecutionResult, stale>>
      BY <1>1 DEF SubmitIntent, Page
    <2> QED BY <2>1, QuietSteps DEF PlanIsThere, PageInv, PageTypeOK
  <1>2. CASE Approve
    <2>1. /\ mode = "awaiting-approval" /\ mode' = "executing"
          /\ job' = [job EXCEPT ![plan] = "running"]
          /\ UNCHANGED <<intent, plan, inbox, pendingExecutionResult, review, stale>>
      BY <1>2 DEF Approve
    <2>2. PageTypeOK'
      BY <2>1 DEF PageInv, PageTypeOK
    <2> SUFFICES ASSUME ~ stale PROVE OneJob' /\ EndIsLast' /\ PlanIsThere'
      BY <2>1, <2>2 DEF PageInv
    <2>3. OneJob /\ EndIsLast /\ PlanIsThere
      BY DEF PageInv
    <2>4. /\ \A r \in Request : ~ Busy(r)
          /\ \A i \in 1 .. Len(inbox) : inbox[i].event = "execution-result"
      <3>1. \A i \in 1 .. Len(inbox) : inbox[i] \in Events
        BY DEF PageInv, PageTypeOK
      <3>2. \A i \in 1 .. Len(inbox) : inbox[i].event # "job-completed"
        BY <2>1, <2>3 DEF EndIsLast
      <3>3. \A i \in 1 .. Len(inbox) : inbox[i].event \in {"execution-result", "job-completed"}
        BY <3>1 DEF Events
      <3> QED BY <2>1, <2>3, <3>2, <3>3 DEF OneJob
    <2>5. \A r \in Request : job'[r] = IF r = plan THEN "running" ELSE job[r]
      BY <2>1 DEF PageInv, PageTypeOK
    <2>6. OneJob'
      BY <2>1, <2>4, <2>5 DEF OneJob, Busy
    <2>7. EndIsLast'
      BY <2>1, <2>4 DEF EndIsLast
    <2>8. PlanIsThere'
      BY <2>1, <2>3 DEF PlanIsThere
    <2> QED BY <2>6, <2>7, <2>8
  <1>3. CASE Reset \/ DismissReview
    <2>1. /\ mode # "executing" /\ mode' = "idle" /\ plan' = NoCall
          /\ UNCHANGED <<job, inbox, pendingExecutionResult, stale>>
      BY <1>3 DEF Reset, DismissReview, Page
    <2> QED BY <2>1, QuietSteps DEF PlanIsThere, PageInv, PageTypeOK
  <1> QED BY <1>1, <1>2, <1>3 DEF User

LEMMA PromiseKeepsPage ==
    ASSUME PageInv, NEW r \in Request, Settled(r)
    PROVE  PageInv'
  <1>0. NoCall \notin Request
    BY RateAssumption, ShellAssumption
  <1>1. /\ stale' = (stale \/ ~ (mode = "planning" /\ intent = r))
        /\ UNCHANGED <<intent, job, inbox, pendingExecutionResult>>
        /\ mode' \in {"idle", "awaiting-approval"} /\ plan' \in {r, NoCall}
        /\ mode' = "awaiting-approval" => plan' = r
    BY DEF Settled, PlanReady, PlanErrored, Settle, Page
  <1>2. CASE stale'
    <2>1. PageTypeOK'
      BY <1>1, <1>2 DEF PageInv, PageTypeOK
    <2> QED BY <1>2, <2>1 DEF PageInv
  <1>3. CASE ~ stale'
    <2>1. mode = "planning" /\ intent = r /\ ~ stale
      BY <1>1, <1>3
    <2>2. PlanIsThere'
      BY <1>0, <1>1, <2>1 DEF PlanIsThere
    <2> QED BY <1>1, <1>3, <2>1, <2>2, QuietSteps
  <1> QED BY <1>2, <1>3

LEMMA JobKeepsPage ==
    ASSUME PageInv, NEW r \in Request,
           ApprovalRejected(r) \/ SummaryReady(r) \/ Executing(r)
    PROVE  PageInv'
  <1>1. CASE SummaryReady(r)
    <2>1. UNCHANGED <<mode, intent, plan, job, inbox, pendingExecutionResult, review, stale>>
      BY <1>1 DEF SummaryReady
    <2> QED BY <2>1 DEF PageInv, PageTypeOK, OneJob, EndIsLast, PlanIsThere, Busy
  <1>2. CASE ApprovalRejected(r)
    <2>1. /\ Busy(r) /\ job' = [job EXCEPT ![r] = "done"]
          /\ UNCHANGED <<intent, plan, inbox, pendingExecutionResult, stale>>
          /\ IF mode = "executing" THEN mode' = "failed" ELSE UNCHANGED <<mode, review>>
      BY <1>2 DEF ApprovalRejected, JobCompleted, Page, Busy
    <2>2. PageTypeOK'
      BY <2>1 DEF PageInv, PageTypeOK
    <2> SUFFICES ASSUME ~ stale PROVE OneJob' /\ EndIsLast' /\ PlanIsThere'
      BY <2>1, <2>2 DEF PageInv
    <2>3. OneJob /\ EndIsLast /\ PlanIsThere
      BY DEF PageInv
    <2>4. /\ mode = "executing" /\ plan = r /\ mode' = "failed"
          /\ \A i \in 1 .. Len(inbox) : inbox[i].event = "execution-result"
      BY <2>1, <2>3 DEF OneJob
    <2>5. OneJob'
      BY <2>1, <2>3, <2>4 DEF OneJob, Busy, PageInv, PageTypeOK
    <2>6. EndIsLast' /\ PlanIsThere'
      BY <2>1, <2>3, <2>4 DEF EndIsLast, PlanIsThere
    <2> QED BY <2>5, <2>6
  <1>3. CASE EmitResult(r)
    <2>1. /\ job[r] = "running" /\ job' = [job EXCEPT ![r] = "emitting"]
          /\ inbox' = IF Bridged THEN Append(inbox, Result(r)) ELSE inbox
          /\ UNCHANGED <<mode, intent, plan, pendingExecutionResult, review, stale>>
      BY <1>3 DEF EmitResult, Emit, Result
    <2>2. PageTypeOK'
      <3>1. Result(r) \in Events
        BY DEF Result, Events
      <3> QED BY <2>1, <3>1 DEF PageInv, PageTypeOK
    <2> SUFFICES ASSUME ~ stale PROVE OneJob' /\ EndIsLast' /\ PlanIsThere'
      BY <2>1, <2>2 DEF PageInv
    <2>3. OneJob /\ EndIsLast /\ PlanIsThere /\ inbox \in Seq(Events)
      BY DEF PageInv, PageTypeOK
    <2>4. /\ mode = "executing" /\ plan = r
          /\ \A i \in 1 .. Len(inbox) : inbox[i].event = "execution-result"
      BY <2>1, <2>3 DEF OneJob, Busy
    <2>5. \A i \in 1 .. Len(inbox') : inbox'[i].event = "execution-result"
      BY <2>1, <2>3, <2>4 DEF Result
    <2>6. Bridged => inbox' # << >> /\ inbox'[Len(inbox')] = Result(r)
      BY <2>1, <2>3
    <2>7. \A b \in Request : Busy(b)' => b = r
      BY <2>1, <2>3, <2>4 DEF OneJob, Busy, PageInv, PageTypeOK
    <2>8. OneJob'
      BY <2>1, <2>4, <2>5, <2>6, <2>7 DEF OneJob, Result
    <2>9. EndIsLast' /\ PlanIsThere'
      BY <2>1, <2>3, <2>5 DEF EndIsLast, PlanIsThere
    <2> QED BY <2>8, <2>9
  <1>4. CASE EmitCompleted(r)
    <2> DEFINE End == [event |-> "job-completed", request |-> r]
    <2>1. /\ job[r] = "emitting" /\ job' = [job EXCEPT ![r] = "done"]
          /\ inbox' = IF Bridged THEN Append(inbox, End) ELSE inbox
          /\ UNCHANGED <<mode, intent, plan, pendingExecutionResult, review, stale>>
      BY <1>4 DEF EmitCompleted, Emit
    <2>2. PageTypeOK'
      <3>1. End \in Events
        BY DEF Events
      <3> QED BY <2>1, <3>1 DEF PageInv, PageTypeOK
    <2> SUFFICES ASSUME ~ stale PROVE OneJob' /\ EndIsLast' /\ PlanIsThere'
      BY <2>1, <2>2 DEF PageInv
    <2>3. OneJob /\ EndIsLast /\ PlanIsThere /\ inbox \in Seq(Events)
      BY DEF PageInv, PageTypeOK
    <2>4. /\ mode = "executing" /\ plan = r
          /\ \A i \in 1 .. Len(inbox) : inbox[i].event = "execution-result"
          /\ Bridged => IF inbox = << >> THEN pendingExecutionResult = r
                        ELSE inbox[Len(inbox)] = Result(r)
      BY <2>1, <2>3 DEF OneJob, Busy
    <2>5. OneJob'
      BY <2>1, <2>3, <2>4 DEF OneJob, Busy, PageInv, PageTypeOK
    <2>6. EndIsLast'
      <3>1. CASE ~ Bridged
        BY <2>1, <2>4, <3>1 DEF EndIsLast
      <3>2. CASE Bridged
        <4>1. /\ Len(inbox') = Len(inbox) + 1 /\ Len(inbox) \in Nat /\ inbox'[Len(inbox')] = End
              /\ \A i \in 1 .. Len(inbox) : inbox'[i] = inbox[i]
          BY <2>1, <2>3, <3>2
        <4>2. ASSUME NEW i \in 1 .. Len(inbox'), inbox'[i].event = "job-completed"
              PROVE  /\ i = Len(inbox') /\ plan = inbox'[i].request
                     /\ IF i = 1 THEN pendingExecutionResult = plan
                        ELSE inbox'[i - 1] = Result(plan)
          <5>1. i = Len(inbox')
            BY <2>4, <4>1, <4>2
          <5>2. inbox'[i].request = r
            BY <4>1, <5>1
          <5>3. CASE Len(inbox) = 0
            BY <2>3, <2>4, <3>2, <4>1, <5>1, <5>2, <5>3
          <5>4. CASE Len(inbox) # 0
            <6>1. inbox[Len(inbox)] = Result(r) /\ inbox'[i - 1] = inbox[Len(inbox)]
              BY <2>3, <2>4, <3>2, <4>1, <5>1, <5>4
            <6> QED BY <2>4, <4>1, <5>1, <5>2, <5>4, <6>1
          <5> QED BY <5>3, <5>4
        <4> QED BY <2>1, <2>4, <4>2 DEF EndIsLast, Result
      <3> QED BY <3>1, <3>2
    <2>7. PlanIsThere'
      BY <2>1, <2>3 DEF PlanIsThere
    <2> QED BY <2>5, <2>6, <2>7
  <1> QED BY <1>1, <1>2, <1>3, <1>4 DEF Executing

LEMMA ListeningKeepsPage == PageInv /\ Listening => PageInv'
  <1> SUFFICES ASSUME PageInv, Listening PROVE PageInv'
    OBVIOUS
  <1>1. inbox \in Seq(Events) /\ inbox # << >> /\ inbox' = Tail(inbox)
    BY DEF Listening, OnExecutionResult, OnOutcome, PageInv, PageTypeOK
  <1>2. /\ Len(inbox) \in Nat /\ Len(inbox) >= 1 /\ Len(inbox') = Len(inbox) - 1
        /\ inbox' \in Seq(Events) /\ Head(inbox) = inbox[1] /\ inbox[1] \in Events
        /\ \A i \in 1 .. Len(inbox') : inbox'[i] = inbox[i + 1]
        /\ inbox' = << >> <=> Len(inbox) = 1
    <2>1. /\ Len(inbox) \in Nat /\ Len(inbox) >= 1 /\ inbox' \in Seq(Events)
          /\ Len(inbox') = Len(inbox) - 1
          /\ \A i \in 1 .. Len(inbox') : inbox'[i] = inbox[i + 1]
      BY <1>1
    <2>2. Head(inbox) = inbox[1] /\ inbox[1] \in Events
      BY <1>1, <2>1
    <2>3. inbox' = << >> <=> Len(inbox) = 1
      BY <2>1
    <2> QED BY <2>1, <2>2, <2>3
  <1>3. CASE OnExecutionResult
    <2>1. /\ inbox[1].event = "execution-result" /\ pendingExecutionResult' = inbox[1].request
          /\ UNCHANGED <<mode, intent, plan, job, review, stale>>
      BY <1>2, <1>3 DEF OnExecutionResult
    <2>2. PageTypeOK'
      BY <1>2, <2>1 DEF PageInv, PageTypeOK
    <2> SUFFICES ASSUME ~ stale PROVE OneJob' /\ EndIsLast' /\ PlanIsThere'
      BY <2>1, <2>2 DEF PageInv
    <2>3. OneJob /\ EndIsLast /\ PlanIsThere
      BY DEF PageInv
    <2>4. ASSUME NEW r \in Request, Busy(r)
          PROVE  /\ mode = "executing" /\ plan = r
                 /\ \A i \in 1 .. Len(inbox') : inbox'[i].event = "execution-result"
                 /\ job[r] = "emitting" /\ Bridged =>
                       IF inbox' = << >> THEN pendingExecutionResult' = r
                       ELSE inbox'[Len(inbox')] = Result(r)
      <3>1. /\ mode = "executing" /\ plan = r
            /\ \A i \in 1 .. Len(inbox) : inbox[i].event = "execution-result"
            /\ job[r] = "emitting" /\ Bridged => inbox[Len(inbox)] = Result(r)
        BY <1>1, <2>3, <2>4 DEF OneJob
      <3>2. \A i \in 1 .. Len(inbox') : inbox'[i].event = "execution-result"
        BY <1>2, <3>1
      <3>3. CASE Len(inbox) = 1
        BY <1>2, <2>1, <3>1, <3>2, <3>3 DEF Result
      <3>4. CASE Len(inbox) # 1
        <4>1. inbox'[Len(inbox')] = inbox[Len(inbox)]
          BY <1>2, <3>4
        <4> QED BY <1>2, <3>1, <3>2, <3>4, <4>1
      <3> QED BY <3>3, <3>4
    <2>5. OneJob'
      BY <2>1, <2>4 DEF OneJob, Busy, Result
    <2>6. ASSUME NEW i \in 1 .. Len(inbox'), inbox'[i].event = "job-completed"
          PROVE  /\ i = Len(inbox') /\ mode = "executing" /\ plan = inbox'[i].request
                 /\ IF i = 1 THEN pendingExecutionResult' = plan
                    ELSE inbox'[i - 1] = Result(plan)
      <3>1. i + 1 \in 1 .. Len(inbox) /\ inbox'[i] = inbox[i + 1] /\ i + 1 # 1
        BY <1>2
      <3>2. /\ i + 1 = Len(inbox) /\ mode = "executing" /\ plan = inbox[i + 1].request
            /\ inbox[i + 1 - 1] = Result(plan)
        BY <2>3, <2>6, <3>1 DEF EndIsLast
      <3>3. inbox[i] = Result(plan)
        BY <3>2
      <3>4. CASE i = 1
        <4>1. inbox[1] = Result(plan)
          BY <3>3, <3>4
        <4>2. pendingExecutionResult' = plan
          BY <2>1, <4>1 DEF Result
        <4>3. i = Len(inbox')
          BY <1>2, <3>2
        <4> QED BY <3>1, <3>2, <3>4, <4>2, <4>3
      <3>5. CASE i # 1
        <4>1. inbox'[i - 1] = inbox[i - 1 + 1]
          BY <1>2, <3>5
        <4> QED BY <1>2, <3>1, <3>2, <3>3, <3>5, <4>1
      <3> QED BY <3>4, <3>5
    <2>7. EndIsLast'
      BY <2>1, <2>6 DEF EndIsLast, Result
    <2>8. PlanIsThere'
      BY <2>1, <2>3 DEF PlanIsThere
    <2> QED BY <2>5, <2>7, <2>8
  <1>4. CASE OnOutcome
    <2>1. /\ inbox[1].event = "job-completed" /\ UNCHANGED <<intent, job, stale>>
          /\ IF pendingExecutionResult # NoCall THEN ReviewReady(pendingExecutionResult)
             ELSE JobCompleted(outcome[Head(inbox).request])
      BY <1>2, <1>4 DEF OnOutcome
    <2>2. mode' \in {mode, "idle", "reviewing", "needs-reboot", "rolled-back", "failed"}
          /\ plan' \in {plan, NoCall}
      BY <2>1 DEF ReviewReady, JobCompleted, Page
    <2>3. PageTypeOK'
      BY <1>2, <2>1, <2>2 DEF PageInv, PageTypeOK
    <2> SUFFICES ASSUME ~ stale PROVE OneJob' /\ EndIsLast' /\ PlanIsThere'
      BY <2>1, <2>3 DEF PageInv
    <2>4. OneJob /\ EndIsLast /\ PlanIsThere
      BY DEF PageInv
    <2>5. /\ Len(inbox) = 1 /\ mode = "executing" /\ pendingExecutionResult = plan
      BY <1>2, <2>1, <2>4 DEF EndIsLast
    <2>6. /\ mode' = "reviewing" /\ review' = plan /\ plan' = plan
      BY <2>1, <2>4, <2>5 DEF PlanIsThere, ReviewReady
    <2>7. \A r \in Request : ~ Busy(r)
      BY <1>2, <2>1, <2>4 DEF OneJob
    <2>8. OneJob' /\ EndIsLast'
      BY <1>2, <2>1, <2>5, <2>7 DEF OneJob, EndIsLast, Busy
    <2>9. PlanIsThere'
      BY <2>1, <2>4, <2>6 DEF PlanIsThere
    <2> QED BY <2>8, <2>9
  <1> QED BY <1>3, <1>4 DEF Listening

\* As long as the answer to a request that was given up by Reset has not arrived,
\* the plan on the page answers its intent, one job runs and the page says so, and
\* a review shows the result of that plan (shellReducer, subscribeDaemonEvents,
\* approve_preview), for any number of requests and events.
THEOREM PageNeverConfused == ShellSpec => []OnlyStaleAnswersConfuse
  <1>1. ShellInit => PageInv
    <2> SUFFICES ASSUME ShellInit PROVE PageInv
      OBVIOUS
    <2>1. PageTypeOK
      <3>1. job \in [Request -> {"none", "running", "emitting", "done"}]
        BY DEF ShellInit
      <3>2. inbox \in Seq(Events)
        BY DEF ShellInit
      <3> QED BY <3>1, <3>2 DEF ShellInit, PageTypeOK
    <2> QED BY <2>1 DEF ShellInit, PageInv, OneJob, EndIsLast, PlanIsThere, Busy
  <1>2. PageInv /\ [ShellNext]_shellVars => PageInv'
    <2> SUFFICES ASSUME PageInv, [ShellNext]_shellVars PROVE PageInv'
      OBVIOUS
    <2>1. CASE UNCHANGED pageVars
      BY <2>1, PageStutters
    <2>2. CASE User
      BY <2>2, UserKeepsPage
    <2>3. CASE \E c \in Call : Planning(c) \/ PlanElsewhere(c)
      BY <2>1, <2>3 DEF Planning, PlanElsewhere
    <2>4. CASE \E r \in Request :
                   Settled(r) \/ Executing(r) \/ ApprovalRejected(r) \/ SummaryReady(r)
      BY <2>4, PromiseKeepsPage, JobKeepsPage
    <2>5. CASE Listening
      BY <2>5, ListeningKeepsPage
    <2> QED BY <2>1, <2>2, <2>3, <2>4, <2>5 DEF ShellNext, shellVars
  <1>3. PageInv => OnlyStaleAnswersConfuse
    BY DEF PageInv, OneJob, PlanIsThere, Busy, OnlyStaleAnswersConfuse
  <1> QED BY <1>1, <1>2, <1>3, PTL DEF ShellSpec

-----------------------------------------------------------------------------
(* The setup (SetupSession).                                               *)

ThinkModes == {Unset, "true", "false"}

\* What the wizard's user may have agreed to.
LocalChoice ==
    {[provider |-> "ollama", model |-> m, ollama_think |-> t] :
        m \in DOMAIN OLLAMA_MODELS, t \in ThinkModes}

CloudChoice ==
    {[provider |-> p, model |-> Unset, ollama_think |-> Unset] : p \in DOMAIN DEFAULT_CLOUD_MODELS}

\* The [llm] the wizard gives for it.
Says(llm, choice) ==
    /\ choice \in LocalChoice \union CloudChoice
    /\ llm.provider = choice.provider /\ llm.ollama_think = choice.ollama_think
    /\ llm.model # Unset /\ choice.model \in {Unset, llm.model}
    /\ llm.max_turns = Unset

\* What is picked exists.
PicksTyped ==
    /\ DOMAIN picks = {"category", "cloudProvider", "selectedModel", "thinkOverride", "agreed"}
    /\ picks.selectedModel \in DOMAIN OLLAMA_MODELS /\ picks.thinkOverride \in ThinkModes

\* Once the user has agreed the picks stay what they were.
AgreedInv ==
    /\ wizard = "ollama-model" => picks.category = "local"
    /\ wizard = "cloud-key" =>
          picks.category = "cloud" /\ picks.cloudProvider \in DOMAIN DEFAULT_CLOUD_MODELS
    /\ wizard \in {"configure", "done"} =>
          \/ /\ picks.category = "local"
             /\ picks.agreed = [provider |-> "ollama", model |-> picks.selectedModel,
                   ollama_think |-> IF OLLAMA_MODELS[picks.selectedModel].supportsThinking
                                    THEN picks.thinkOverride ELSE Unset]
          \/ /\ picks.category = "cloud" /\ picks.cloudProvider \in DOMAIN DEFAULT_CLOUD_MODELS
             /\ picks.agreed = [provider |-> picks.cloudProvider, model |-> Unset,
                                ollama_think |-> Unset]

\* The file that is read says what the user agreed to, if it is the wizard's.
WizardFile ==
    wrote # NoChoice /\ place = config_path => configToml.parses /\ Says(configToml.llm, wrote)

\* What a running shell has is what it read, and the environment is still the same.
StartInv ==
    /\ environment \in Environments
    /\ running =>
          /\ start.env = ApplyDefaults(environment, start.llm)
          /\ start.wrote # NoChoice /\ start.place = config_path => Says(start.llm, start.wrote)
          /\ brain.fallback <=> ConfigError(start.env)
          /\ brain.config = IF ConfigError(start.env) THEN ollama_defaults ELSE FromEnv(start.env)
          /\ \/ planner = from_config(start.env, brain.config)
             \/ /\ brain.config.provider \notin {"ollama", "openai"}
                /\ planner = from_config(start.env, ollama_defaults)

SetupInv == PicksTyped /\ AgreedInv /\ WizardFile /\ StartInv

\* The models the wizard names, and which of them think.
LEMMA WizardModels ==
    /\ DOMAIN OLLAMA_MODELS = {"qwen3:8b", "gemma4:4b-it-qat", "gemma4:2b", "qwen3:30b-a3b",
                               "gemma4:27b", "mistral-small3.2:24b"}
    /\ \A m \in DOMAIN OLLAMA_MODELS :
          OLLAMA_MODELS[m].supportsThinking = (m \in {"qwen3:8b", "qwen3:30b-a3b"})
  <1>1. DOMAIN OLLAMA_MODELS = {"qwen3:8b", "gemma4:4b-it-qat", "gemma4:2b", "qwen3:30b-a3b",
                                "gemma4:27b", "mistral-small3.2:24b"}
    BY DEF OLLAMA_MODELS
  <1>2. ASSUME NEW m \in DOMAIN OLLAMA_MODELS
        PROVE  OLLAMA_MODELS[m].supportsThinking = (m \in {"qwen3:8b", "qwen3:30b-a3b"})
    BY SMT DEF OLLAMA_MODELS
  <1> QED BY <1>1, <1>2

\* The providers the wizard has a model for, all but Ollama.
LEMMA CloudModels ==
    /\ DOMAIN DEFAULT_MODEL = {"anthropic", "ollama", "openai", "gemini", "groq", "deepseek",
                               "mistral", "xai"}
    /\ DOMAIN DEFAULT_CLOUD_MODELS = DOMAIN DEFAULT_MODEL \ {"ollama"}
    /\ \A p \in DOMAIN DEFAULT_CLOUD_MODELS : DEFAULT_CLOUD_MODELS[p] # Unset
  BY DEF DEFAULT_MODEL, DEFAULT_CLOUD_MODELS, Unset

\* At first nothing is picked, written or running.
LEMMA SetupBegins == SetupInit => SetupInv
  <1> SUFFICES ASSUME SetupInit PROVE SetupInv
    OBVIOUS
  <1> USE DEF SetupInit, SetupBegin
  <1>1. PicksTyped
    BY WizardModels DEF PicksTyped, Unpicked, ThinkModes, Unset
  <1>2. AgreedInv /\ WizardFile /\ StartInv
    BY DEF AgreedInv, WizardFile, StartInv
  <1> QED BY <1>1, <1>2 DEF SetupInv

\* What the shell is started with: the file is the wizard's as long as nobody has
\* touched it since.
LEMMA StartKeeps ==
    ASSUME SetupInv, StartShell PROVE SetupInv'
  <1> DEFINE env == ApplyDefaults(environment, Load)
             config == IF ConfigError(env) THEN ollama_defaults ELSE FromEnv(env)
  <1>1. /\ running' = TRUE /\ UNCHANGED <<hostVars, wizardVars>>
        /\ start' = [env |-> env, llm |-> Load, wrote |-> wrote, place |-> place]
        /\ brain' = [config |-> config, fallback |-> ConfigError(env)]
        /\ \/ planner' = from_config(env, config)
           \/ /\ config.provider \notin {"ollama", "openai"}
              /\ planner' = from_config(env, ollama_defaults)
    BY DEF StartShell
  <1>2. PicksTyped' /\ AgreedInv' /\ WizardFile' /\ environment' = environment
    BY <1>1 DEF SetupInv, PicksTyped, AgreedInv, WizardFile, hostVars, wizardVars
  <1>3. wrote # NoChoice /\ place = config_path => Says(Load, wrote)
    BY DEF SetupInv, WizardFile, Load
  <1> HIDE DEF env, config
  <1>4. /\ start'.env = env /\ start'.llm = Load /\ start'.wrote = wrote /\ start'.place = place
        /\ brain'.config = config /\ brain'.fallback = ConfigError(env)
    BY <1>1
  <1>5. StartInv'
    <2>1. ConfigError(start'.env) <=> ConfigError(env)
      BY <1>4
    <2>2. FromEnv(start'.env) = FromEnv(env)
      BY <1>4
    <2> QED BY <1>1, <1>2, <1>3, <1>4, <2>1, <2>2 DEF SetupInv, StartInv, env, config
  <1> QED BY <1>2, <1>5 DEF SetupInv

\* A step of the page leaves what the shell was started with alone.
LEMMA ProcessStays ==
    ASSUME StartInv, UNCHANGED processVars, environment' = environment PROVE StartInv'
  <1>1. UNCHANGED <<running, start, brain, planner, environment>>
    BY DEF processVars
  <1>2. /\ ConfigError(start.env)' <=> ConfigError(start.env)
        /\ FromEnv(start.env)' = FromEnv(start.env)
    BY <1>1
  <1> QED BY <1>1, <1>2 DEF StartInv

\* A step of the wizard keeps the picks and what was agreed together.
LEMMA WizardKeeps ==
    ASSUME SetupInv, UNCHANGED <<hostVars, processVars>>, PicksTyped', AgreedInv'
    PROVE  SetupInv'
  <1>1. StartInv'
    BY ProcessStays DEF SetupInv, hostVars
  <1>2. WizardFile'
    BY DEF SetupInv, WizardFile, hostVars
  <1> QED BY <1>1, <1>2 DEF SetupInv

\* None of the wizard's steps changes the host, and each keeps the picks.
LEMMA WizardSteps ==
    ASSUME SetupInv,
           \/ SetupChecked \/ SelectLocal \/ SelectCloud \/ Back \/ Continue \/ Dismiss
           \/ \E p \in Clicked \intersect DOMAIN DEFAULT_CLOUD_MODELS : SelectCloudProvider(p)
           \/ \E m \in Clicked \intersect DOMAIN OLLAMA_MODELS : SelectModel(m)
           \/ \E t \in {Unset, "true", "false"} : ChooseThink(t)
           \/ \E n \in detecting, v \in Vrams : DetectionEnds(n, v)
    PROVE  SetupInv'
  <1> DEFINE Kept == UNCHANGED <<hostVars, processVars>> /\ PicksTyped' /\ AgreedInv'
  <1> USE DEF SetupInv, PicksTyped, AgreedInv, Go, Pick, ThinkModes
  <1>1. ASSUME SetupChecked PROVE Kept
    BY <1>1, WizardModels DEF SetupChecked, NewWizard, Unpicked, Unset
  <1>2. ASSUME SelectLocal PROVE Kept
    BY <1>2 DEF SelectLocal
  <1>3. ASSUME SelectCloud PROVE Kept
    BY <1>3 DEF SelectCloud
  <1>4. ASSUME Back PROVE Kept
    BY <1>4 DEF Back
  <1>5. ASSUME Continue PROVE Kept
    BY <1>5 DEF Continue, OnPage, ThinkingShown, NoChoice
  <1>6. ASSUME Dismiss PROVE Kept
    BY <1>6 DEF Dismiss
  <1>7. ASSUME NEW p \in Clicked \intersect DOMAIN DEFAULT_CLOUD_MODELS, SelectCloudProvider(p)
        PROVE  Kept
    BY <1>7 DEF SelectCloudProvider
  <1>8. ASSUME NEW m \in Clicked \intersect DOMAIN OLLAMA_MODELS, SelectModel(m) PROVE Kept
    BY <1>8 DEF SelectModel
  <1>9. ASSUME NEW t \in {Unset, "true", "false"}, ChooseThink(t) PROVE Kept
    BY <1>9 DEF ChooseThink, ThinkingShown
  <1>10. ASSUME NEW n \in detecting, NEW v \in Vrams, DetectionEnds(n, v) PROVE Kept
    BY <1>10 DEF DetectionEnds
  <1> HIDE DEF SetupInv, PicksTyped, AgreedInv, Go, Pick, ThinkModes
  <1>11. Kept
    BY <1>1, <1>2, <1>3, <1>4, <1>5, <1>6, <1>7, <1>8, <1>9, <1>10
  <1> QED BY <1>11, WizardKeeps

\* A file where the program does not look changes nothing that it reads.
LEMMA UnreadFileKeeps ==
    ASSUME SetupInv, CreateFile(CONFIG_PATH) PROVE SetupInv'
  <1>1. place' # config_path /\ UNCHANGED <<environment, processVars, wizardVars>>
    BY DEF CreateFile, config_path, CONFIG_PATH
  <1>2. PicksTyped' /\ AgreedInv' /\ WizardFile'
    BY <1>1 DEF SetupInv, PicksTyped, AgreedInv, WizardFile, wizardVars, config_path
  <1>3. StartInv'
    BY <1>1, ProcessStays DEF SetupInv
  <1> QED BY <1>2, <1>3 DEF SetupInv

\* What the wizard gives is what was agreed to.
LEMMA CreateFileKeeps ==
    ASSUME SetupInv, CreateFile(config_path) PROVE SetupInv'
  <1>1. /\ wizard \in {"configure", "done"} /\ wrote' = picks.agreed
        /\ configToml' = [parses |-> TRUE, llm |-> [k \in Key |->
                   IF k \in DOMAIN ConfigContent THEN ConfigContent[k] ELSE Unset]]
        /\ UNCHANGED <<environment, processVars, wizardVars>>
    BY DEF CreateFile
  <1>2. PicksTyped' /\ AgreedInv'
    BY <1>1 DEF SetupInv, PicksTyped, AgreedInv, wizardVars
  <1>3. StartInv'
    BY <1>1, ProcessStays DEF SetupInv
  <1>4. configToml'.parses /\ configToml'.llm.max_turns = Unset
    BY <1>1 DEF Key, ConfigContent
  <1>5. Says(configToml'.llm, picks.agreed)
    <2> USE DEF SetupInv, PicksTyped, AgreedInv
    <2>1. CASE picks.category = "local"
      <3> DEFINE t == IF OLLAMA_MODELS[picks.selectedModel].supportsThinking
                      THEN picks.thinkOverride ELSE Unset
      <3>1. picks.agreed = [provider |-> "ollama", model |-> picks.selectedModel, ollama_think |-> t]
        BY <1>1, <2>1
      <3>2. ConfigContent = picks.agreed
        BY <2>1, <3>1 DEF ConfigContent
      <3>3. t \in ThinkModes
        BY DEF ThinkModes
      <3> HIDE DEF t
      <3>4. picks.agreed \in LocalChoice
        BY <3>1, <3>3 DEF LocalChoice
      <3>5. picks.selectedModel # Unset
        BY WizardModels DEF Unset
      <3>6. /\ configToml'.llm.provider = "ollama" /\ configToml'.llm.ollama_think = t
            /\ configToml'.llm.model = picks.selectedModel
        BY <1>1, <3>1, <3>2 DEF Key
      <3> QED BY <1>4, <3>1, <3>4, <3>5, <3>6 DEF Says
    <2>2. CASE picks.category # "local"
      <3> DEFINE p == picks.cloudProvider
      <3>1. /\ p \in DOMAIN DEFAULT_CLOUD_MODELS
            /\ picks.agreed = [provider |-> p, model |-> Unset, ollama_think |-> Unset]
        BY <1>1, <2>2
      <3>2. ConfigContent = [provider |-> p, model |-> DEFAULT_CLOUD_MODELS[p],
                             ollama_think |-> Unset]
        BY <2>2 DEF ConfigContent
      <3> HIDE DEF p
      <3>3. picks.agreed \in CloudChoice
        BY <3>1 DEF CloudChoice
      <3>4. /\ configToml'.llm.provider = p /\ configToml'.llm.ollama_think = Unset
            /\ configToml'.llm.model = DEFAULT_CLOUD_MODELS[p]
        BY <1>1, <3>2 DEF Key
      <3>5. DEFAULT_CLOUD_MODELS[p] # Unset
        BY <3>1, CloudModels
      <3> QED BY <1>4, <3>1, <3>3, <3>4, <3>5 DEF Says
    <2> QED BY <2>1, <2>2
  <1>6. WizardFile'
    BY <1>1, <1>4, <1>5 DEF WizardFile, Says
  <1> QED BY <1>2, <1>3, <1>6 DEF SetupInv

\* Whatever else the user does to the host makes the file nobody's, or happens while
\* no shell runs.
LEMMA HostSteps ==
    ASSUME SetupInv, EditFile \/ ChangeEnvironment \/ QuitShell PROVE SetupInv'
  <1>1. CASE EditFile
    <2>1. StartInv'
      BY <1>1, ProcessStays DEF SetupInv, EditFile
    <2>2. PicksTyped' /\ AgreedInv' /\ WizardFile'
      BY <1>1 DEF SetupInv, EditFile, PicksTyped, AgreedInv, WizardFile, wizardVars
    <2> QED BY <2>1, <2>2 DEF SetupInv
  <1>2. CASE ChangeEnvironment
    BY <1>2 DEF SetupInv, ChangeEnvironment, PicksTyped, AgreedInv, WizardFile, StartInv,
                wizardVars, processVars
  <1>3. CASE QuitShell
    <2>1. StartInv' /\ WizardFile' /\ AgreedInv'
      BY <1>3 DEF SetupInv, QuitShell, StartInv, WizardFile, AgreedInv, hostVars
    <2>2. PicksTyped'
      BY <1>3, WizardModels DEF QuitShell, NewWizard, Unpicked, PicksTyped, ThinkModes, Unset
    <2> QED BY <2>1, <2>2 DEF SetupInv
  <1> QED BY <1>1, <1>2, <1>3

\* Every step keeps SetupInv.
LEMMA SetupKeeps == SetupInv /\ [SetupNext]_setupVars => SetupInv'
  <1> SUFFICES ASSUME SetupInv, [SetupNext]_setupVars PROVE SetupInv'
    OBVIOUS
  <1>1. CASE UNCHANGED setupVars
    <2>1. UNCHANGED <<hostVars, processVars, wizardVars>>
      BY <1>1 DEF setupVars, hostVars, processVars, wizardVars
    <2> QED BY <2>1, WizardKeeps DEF SetupInv, PicksTyped, AgreedInv, wizardVars
  <1> QED BY <1>1, StartKeeps, WizardSteps, CreateFileKeeps, UnreadFileKeeps, HostSteps
         DEF SetupNext

\* The names the program compares with are lower case already.
LEMMA LowerNames ==
    /\ \A p \in DOMAIN DEFAULT_MODEL : Lowercase(p) = p
    /\ \A m \in DOMAIN OLLAMA_MODELS : Lowercase(m) = m
    /\ Lowercase("true") = "true" /\ Lowercase("false") = "false"
    /\ Lowercase("") = "" /\ Lowercase(Unset) = Unset
  BY SetupAssumption

\* The environment wins key by key, and has every key.
LEMMA EnvironmentWins ==
    ASSUME SetupInv, running
    PROVE  /\ \A k \in Key : start.env[k] = IF environment[k] = Unset THEN start.llm[k]
                                            ELSE environment[k]
           /\ start.env.keys = environment.keys
           /\ start.env.blank = environment.blank /\ start.env.host = environment.host
  BY SetupAssumption DEF SetupInv, StartInv, ApplyDefaults, Key

\* The choice is in force, when nothing else names a provider, model or mode.
LEMMA ChoiceInForce ==
    ASSUME SetupInv, running, start.wrote # NoChoice, start.place = config_path,
           \A k \in Key : environment[k] = Unset
    PROVE  /\ ~ ConfigError(start.env) <=>
                 start.wrote.provider \in environment.keys \union {"ollama"}
           /\ FromEnv(start.env).provider = start.wrote.provider
           /\ start.wrote.model \in {Unset, FromEnv(start.env).model}
           /\ start.env.ollama_think = start.wrote.ollama_think
           /\ start.wrote \in LocalChoice \union CloudChoice
  <1> DEFINE choice == start.wrote
             env == start.env
  <1>1. /\ choice \in LocalChoice \union CloudChoice
        /\ start.llm.provider = choice.provider /\ start.llm.ollama_think = choice.ollama_think
        /\ start.llm.model # Unset /\ choice.model \in {Unset, start.llm.model}
        /\ start.llm.max_turns = Unset
    BY DEF SetupInv, StartInv, Says
  <1>2. choice.provider \in DOMAIN DEFAULT_MODEL /\ choice.provider # Unset
    BY <1>1, CloudModels DEF LocalChoice, CloudChoice, Unset
  <1>3. /\ env.provider = start.llm.provider /\ env.model = start.llm.model
        /\ env.ollama_think = start.llm.ollama_think /\ env.max_turns = start.llm.max_turns
        /\ env.keys = environment.keys
    BY EnvironmentWins DEF Key
  <1> HIDE DEF choice, env
  <1>4. ProviderName(env) = choice.provider
    BY <1>1, <1>2, <1>3, LowerNames DEF ProviderName
  <1>5. ~ ConfigError(env) <=> choice.provider \in environment.keys \union {"ollama"}
    BY <1>1, <1>2, <1>3, <1>4 DEF ConfigError, Unset
  <1>6. FromEnv(env).provider = choice.provider /\ FromEnv(env).model = start.llm.model
    BY <1>1, <1>3, <1>4 DEF FromEnv, OrDefault
  <1> QED BY <1>1, <1>3, <1>5, <1>6 DEF choice, env

\* A provider whose client cannot be built has another planner.
LEMMA BuiltPlanner ==
    ASSUME SetupInv, running, planner.config = brain.config, brain.config.provider = "ollama"
    PROVE  planner = from_config(start.env, brain.config)
  BY DEF SetupInv, StartInv

\* The planner thinks as the wizard's file says, or as the model is made.
LEMMA ThinkingApplies ==
    ASSUME SetupInv, running, start.wrote # NoChoice, start.place = config_path,
           \A k \in Key : environment[k] = Unset,
           ~ ConfigError(start.env), planner.config = brain.config,
           brain.config.provider = "ollama"
    PROVE  planner.think = IF start.wrote.ollama_think = Unset
                           THEN OLLAMA_MODELS[start.wrote.model].supportsThinking
                           ELSE start.wrote.ollama_think = "true"
  <1> DEFINE choice == start.wrote
             model == brain.config.model
             chosen == start.env.ollama_think
  <1>1. planner = [config |-> brain.config,
                   think |-> brain.config.provider = "ollama"
                                /\ resolve_ollama_think(start.env, model)]
    BY BuiltPlanner DEF from_config
  <1>2. brain.config = FromEnv(start.env)
    BY DEF SetupInv, StartInv
  <1>3. /\ choice.provider = "ollama" /\ choice.model \in {Unset, model}
        /\ chosen = choice.ollama_think /\ choice \in LocalChoice \union CloudChoice
    BY <1>2, ChoiceInForce
  <1>4. choice.model \in DOMAIN OLLAMA_MODELS /\ choice.model # Unset
    BY <1>3, CloudModels, WizardModels DEF LocalChoice, CloudChoice, Unset
  <1>5. choice.model = model
    BY <1>3, <1>4
  <1> DEFINE S == model \in {"qwen3:8b", "qwen3:30b-a3b"}
  <1>6. OLLAMA_MODELS[model].supportsThinking = S
    BY <1>4, <1>5, WizardModels, Zenon
  <1>7. Lowercase(model) \in ThinkingModels <=> S
    BY <1>4, <1>5, WizardModels, LowerNames DEF ThinkingModels
  <1>8. resolve_ollama_think(start.env, model) <=> IF chosen = Unset THEN S ELSE chosen = "true"
    <2>1. choice.ollama_think \in {Unset, "true", "false"}
      BY <1>3 DEF LocalChoice, CloudChoice, ThinkModes, Unset
    <2>2. chosen \in {Unset, "true", "false"}
      BY <1>3, <2>1
    <2>3. Lowercase(chosen) = chosen
      <3> HIDE DEF chosen
      <3> QED BY <2>2, LowerNames
    <2> HIDE DEF S
    <2> QED BY <1>7, <2>2, <2>3 DEF resolve_ollama_think, Unset
  <1>9. planner.think = IF chosen = Unset THEN S ELSE chosen = "true"
    BY <1>1, <1>8
  <1> QED BY <1>3, <1>5, <1>6, <1>9

\* What the user wrote after the wizard's choice into the file that is read is in force
\* after a restart, for any environments, models and files.
THEOREM ConfigurationAlwaysApplies == SetupSpec => []ConfigurationApplies
  <1>1. SetupInv => ConfigurationApplies
    <2> SUFFICES ASSUME SetupInv, running PROVE ConfigurationApplies
      BY DEF ConfigurationApplies
    <2>1. /\ brain.fallback <=> ConfigError(start.env)
          /\ ~ brain.fallback => brain.config = FromEnv(start.env)
      BY DEF SetupInv, StartInv
    <2>2. ASSUME ~ brain.fallback
          PROVE  /\ environment.provider # Unset =>
                       brain.config.provider = Lowercase(environment.provider)
                 /\ environment.model # Unset => brain.config.model = environment.model
      BY <2>1, <2>2, EnvironmentWins DEF FromEnv, ProviderName, OrDefault, Key
    <2>3. ASSUME start.wrote # NoChoice, start.place = config_path,
                 \A k \in Key : environment[k] = Unset
          PROVE  InForce(start.wrote)
      <3>1. /\ ~ brain.fallback <=> start.wrote.provider \in environment.keys \union {"ollama"}
            /\ ~ brain.fallback =>
                  /\ brain.config.provider = start.wrote.provider
                  /\ start.wrote.model \in {Unset, brain.config.model}
        BY <2>1, <2>3, ChoiceInForce
      <3>2. ASSUME planner.config = brain.config, brain.config.provider = "ollama",
                   ~ brain.fallback
            PROVE  planner.think = IF start.wrote.ollama_think = Unset
                                   THEN OLLAMA_MODELS[start.wrote.model].supportsThinking
                                   ELSE start.wrote.ollama_think = "true"
        BY <2>1, <2>3, <3>2, ThinkingApplies, Zenon
      <3> QED BY <3>1, <3>2, Zenon DEF InForce
    <2> QED BY <2>2, <2>3, Zenon DEF ConfigurationApplies
  <1> QED BY <1>1, SetupBegins, SetupKeeps, PTL DEF SetupSpec

-----------------------------------------------------------------------------

\* What the page knows of the setup is what the started shell could have told it: it
\* calls the setup done when somebody named the provider, or the file has changed
\* since; it is incomplete, and the wizard open, when nobody did.  A visit of the model
\* page knows the hardware, or is still detecting it.
PageTold ==
    /\ ~ running => wizard = "none"
    /\ wizard # "none" => needsSetup = "yes"
    /\ running /\ needsSetup = "no" =>
          \/ start.env.provider # Unset \/ "anthropic" \in start.env.keys \union start.env.blank
          \/ start.llm # checked
    /\ running /\ needsSetup = "yes" =>
          /\ "anthropic" \notin start.env.keys \union start.env.blank
          /\ start.env.provider \in {Unset, ""}
    /\ wizard = "ollama-model" => entries \in detecting \/ hardware.entry = entries

\* What provider_is_configured finds, it finds in what the shell was started with, or
\* in a file that has changed.
LEMMA CheckTells ==
    ASSUME SetupInv, PageTold, SetupChecked PROVE PageTold'
  <1>1. /\ running /\ wizard' \in {"none", "select"} /\ checked' = Load
        /\ needsSetup' = IF ProviderIsConfigured THEN "no" ELSE "yes"
        /\ wizard' = "select" => needsSetup' = "yes"
        /\ UNCHANGED <<running, start>>
    BY DEF SetupChecked, processVars
  <1>2. start.env.provider = IF environment.provider = Unset THEN start.llm.provider
                             ELSE environment.provider
    BY <1>1, EnvironmentWins DEF Key
  <1>3. CASE ProviderIsConfigured
    <2>1. \/ "anthropic" \in start.env.keys \union start.env.blank
          \/ start.env.provider \notin {Unset, ""} \/ Load.provider \notin {Unset, ""}
      BY <1>3 DEF ProviderIsConfigured
    <2>2. \/ start.env.provider # Unset \/ "anthropic" \in start.env.keys \union start.env.blank
          \/ start.llm # Load
      BY <1>2, <2>1
    <2> QED BY <1>1, <1>3, <2>2 DEF PageTold
  <1>4. CASE ~ ProviderIsConfigured
    <2>1. /\ "anthropic" \notin start.env.keys \union start.env.blank
          /\ start.env.provider \in {Unset, ""}
      BY <1>4 DEF ProviderIsConfigured
    <2> QED BY <1>1, <1>4, <2>1 DEF PageTold
  <1> QED BY <1>3, <1>4

\* What is none of these does not change what the page was told.
LEMMA PageStays ==
    ASSUME PageTold,
           UNCHANGED <<running, start, needsSetup, checked, wizard, entries, detecting, hardware>>
    PROVE  PageTold'
  BY DEF PageTold

\* Every step keeps PageTold.
LEMMA WizardTells ==
    ASSUME SetupInv, PageTold, [SetupNext]_setupVars PROVE PageTold'
  <1> USE DEF PageTold, Go, processVars, setupKnown
  <1>1. ASSUME StartShell PROVE PageTold'
    BY <1>1 DEF StartShell, wizardVars
  <1>2. ASSUME SetupChecked PROVE PageTold'
    BY <1>2, CheckTells
  <1>3. ASSUME QuitShell PROVE PageTold'
    BY <1>3 DEF QuitShell
  <1>4. ASSUME SelectLocal PROVE PageTold'
    BY <1>4 DEF SelectLocal
  <1>5. ASSUME SelectCloud \/ Back \/ Continue PROVE PageTold'
    BY <1>5 DEF SelectCloud, Back, Continue
  <1>6. ASSUME Dismiss PROVE PageTold'
    BY <1>6 DEF Dismiss
  <1>7. ASSUME NEW p, SelectCloudProvider(p) PROVE PageTold'
    BY <1>7 DEF SelectCloudProvider
  <1>8. ASSUME NEW m, SelectModel(m) \/ ChooseThink(m) PROVE PageTold'
    <2>1. UNCHANGED <<running, start, needsSetup, checked, wizard, entries, detecting, hardware>>
      BY <1>8 DEF SelectModel, ChooseThink
    <2> QED BY <2>1, PageStays
  <1>9. ASSUME NEW n, NEW v, DetectionEnds(n, v) PROVE PageTold'
    BY <1>9 DEF DetectionEnds
  <1>10. ASSUME \/ \E path \in {config_path, CONFIG_PATH} : CreateFile(path)
                \/ EditFile \/ ChangeEnvironment
         PROVE  PageTold'
    <2>1. UNCHANGED <<running, start, needsSetup, checked, wizard, entries, detecting, hardware>>
      BY <1>10 DEF CreateFile, EditFile, ChangeEnvironment, wizardVars
    <2> QED BY <2>1, PageStays
  <1>11. CASE UNCHANGED setupVars
    BY <1>11 DEF setupVars
  <1> HIDE DEF PageTold
  <1> QED BY <1>1, <1>2, <1>3, <1>4, <1>5, <1>6, <1>7, <1>8, <1>9, <1>10, <1>11 DEF SetupNext

\* Without a provider named by anybody the planner has Ollama, at the server it was
\* told of.
LEMMA UnnamedIsOllama ==
    ASSUME SetupInv, running, "anthropic" \notin start.env.keys \union start.env.blank,
           start.env.provider \in {Unset, ""}
    PROVE  /\ planner.config.provider = "ollama"
           /\ ~ brain.fallback =>
                 planner.config.ollama_url = OrDefault(start.env.ollama_url, "localhost")
  <1>1. ~ ConfigError(start.env) => FromEnv(start.env).provider = "ollama"
    <2>1. CASE start.env.provider = ""
      <3>1. ProviderName(start.env) = ""
        BY <2>1, LowerNames DEF ProviderName, Unset
      <3>2. "" \notin DOMAIN DEFAULT_MODEL
        BY CloudModels
      <3> QED BY <3>1, <3>2 DEF ConfigError
    <2>2. CASE start.env.provider = Unset
      <3>1. ProviderName(start.env) = "ollama"
        BY <2>2 DEF ProviderName
      <3> QED BY <3>1 DEF FromEnv
    <2> QED BY <2>1, <2>2
  <1>2. /\ brain.fallback <=> ConfigError(start.env)
        /\ ConfigError(start.env) => brain.config = ollama_defaults
        /\ ~ ConfigError(start.env) => brain.config = FromEnv(start.env)
        /\ \/ planner = from_config(start.env, brain.config)
           \/ brain.config.provider # "ollama"
    BY DEF SetupInv, StartInv
  <1>3. brain.config.provider = "ollama"
    <2>1. ollama_defaults.provider = "ollama"
      BY DEF ollama_defaults
    <2>2. CASE ConfigError(start.env)
      BY <1>2, <2>1, <2>2
    <2>3. CASE ~ ConfigError(start.env)
      BY <1>1, <1>2, <2>3
    <2> QED BY <2>2, <2>3
  <1>4. planner.config = brain.config
    <2>1. planner = from_config(start.env, brain.config)
      BY <1>2, <1>3, Zenon
    <2> QED BY <2>1 DEF from_config
  <1>5. ASSUME ~ brain.fallback
        PROVE  brain.config.ollama_url = OrDefault(start.env.ollama_url, "localhost")
    <2>1. brain.config = FromEnv(start.env)
      BY <1>2, <1>5, Zenon
    <2>2. FromEnv(start.env).ollama_url = OrDefault(start.env.ollama_url, "localhost")
      BY DEF FromEnv
    <2> QED BY <2>1, <2>2
  <1> QED BY <1>3, <1>4, <1>5

\* What the page says of the setup is true, for any environments and files, and with
\* the file changed at any time.
THEOREM WizardAlwaysTellsTruth == SetupSpec => []WizardTellsTruth
  <1>1. SetupInit => PageTold
    BY DEF SetupInit, SetupBegin, PageTold
  <1>2. SetupInv /\ PageTold => WizardTellsTruth
    <2> SUFFICES ASSUME SetupInv, PageTold, running PROVE WizardTellsTruth
      BY DEF WizardTellsTruth
    <2>1. ASSUME needsSetup = "yes"
          PROVE  /\ planner.config.provider = "ollama"
                 /\ ~ brain.fallback =>
                       planner.config.ollama_url = OrDefault(start.env.ollama_url, "localhost")
      BY <2>1, UnnamedIsOllama DEF PageTold
    <2>2. start.env.host = Unset => OllamaAsked = OrDefault(start.env.ollama_url, "localhost")
      BY DEF OllamaAsked, OrDefault
    <2> QED BY <2>1, <2>2 DEF PageTold, WizardTellsTruth
  <1>3. SetupInv /\ PageTold /\ [SetupNext]_setupVars => PageTold'
    BY WizardTells
  <1> QED BY <1>1, <1>2, <1>3, SetupBegins, SetupKeeps, PTL DEF SetupSpec
=============================================================================
