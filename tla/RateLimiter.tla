----------------------------- MODULE RateLimiter -----------------------------
(***************************************************************************)
(* rate_limit.rs: the sliding window that limits planning calls.  The      *)
(* window is a file of timestamps shared by every planner of the user; the *)
(* Mutex that guards a read-modify-write belongs to one process, and so    *)
(* does the limit: SYSKNIFE_MAX_RPM of its environment, or the default.    *)
(*                                                                         *)
(* The clock is read together with the file: a process that stops for a    *)
(* whole window between these two statements is left out.                  *)
(***************************************************************************)
EXTENDS Integers, FiniteSets, FiniteSetsExt

CONSTANTS
    Call,            \* Calls of check_and_consume.
    Process,         \* Processes with a planner: shells, CLI runs, MCP servers.
    Caller,          \* Caller[c]: the process that makes call c.
    NoCall,
    WINDOW,          \* 60 seconds, in ticks of the model.
    max_per_minute,  \* max_per_minute[p]: the limit process p was started with.
    Horizon          \* Bound on the clock.

ASSUME RateAssumption ==
    /\ IsFiniteSet(Call) /\ NoCall \notin Call
    /\ Caller \in [Call -> Process]
    /\ max_per_minute \in [Process -> Nat \ {0}]
    /\ WINDOW \in Nat \ {0} /\ Horizon \in Nat

VARIABLES
    now,         \* SystemTime::now, in ticks.
    file,        \* The lines of the timestamp file: [call, at].
    lock,        \* lock[p]: the call that holds the Mutex of process p, or NoCall.
    verdict,     \* verdict[c]: "none", "locked", "counted", "allowed", "refused".
    in_window,   \* in_window[c]: the lines c found in its window, kept if it was refused.
    stamp,       \* stamp[c]: the time c read.
    retry_after, \* retry_after[c]: the answer to a refused call.
    overlapped,  \* Has a process ever replaced lines of another it had not read?
    degraded,    \* Has reading or writing the file ever failed?
    admitted     \* admitted[c]: the calls allowed before c was refused.

limitVars == <<now, file, lock, verdict, in_window, stamp, retry_after,
               overlapped, degraded, admitted>>

Line == [call : Call, at : 0 .. Horizon]

\* self.max_per_minute, of the limiter that c calls.
LimitOf(c) == max_per_minute[Caller[c]]

LimitInit ==
    /\ now = 0
    /\ file = {}
    /\ lock = [p \in Process |-> NoCall]
    /\ verdict = [c \in Call |-> "none"]
    /\ in_window = [c \in Call |-> {}]
    /\ stamp = [c \in Call |-> 0]
    /\ retry_after = [c \in Call |-> 0]
    /\ overlapped = FALSE /\ degraded = FALSE
    /\ admitted = [c \in Call |-> {}]

-----------------------------------------------------------------------------
\* partition(|&t| t >= window_start)
InWindow(lines, t) == {l \in lines : l.at >= t - WINDOW}

\* (oldest + 60).saturating_sub(now).max(1)
RetryAfter(lines, t) ==
    LET oldest == Min({l.at : l \in lines})
    IN  Max({oldest + WINDOW - t, 1})

Allowed == {c \in Call : verdict[c] = "allowed"}

\* Mutant of TakeLock: every call has a Mutex of its own.
TakeOwnLock(c) ==
    /\ verdict[c] = "none"
    /\ lock' = [lock EXCEPT ![Caller[c]] = c]
    /\ verdict' = [verdict EXCEPT ![c] = "locked"]
    /\ UNCHANGED <<now, file, in_window, stamp, retry_after, overlapped, degraded, admitted>>

\* lock.lock()
TakeLock(c) ==
    /\ verdict[c] = "none" /\ lock[Caller[c]] = NoCall
    /\ lock' = [lock EXCEPT ![Caller[c]] = c]
    /\ verdict' = [verdict EXCEPT ![c] = "locked"]
    /\ UNCHANGED <<now, file, in_window, stamp, retry_after, overlapped, degraded, admitted>>

\* The file is read, an unreadable one counts as empty, and the window counted.
Count(c) ==
    /\ verdict[c] = "locked"
    /\ \E raw \in {file, {}} :
        LET lines == InWindow(raw, now)
            full  == Cardinality(lines) >= LimitOf(c)
        IN  /\ degraded' = (degraded \/ raw # file)
            /\ in_window' = [in_window EXCEPT ![c] = lines]
            /\ verdict' = [verdict EXCEPT ![c] = IF full THEN "refused" ELSE "counted"]
            /\ retry_after' = [retry_after EXCEPT ![c] = IF full THEN RetryAfter(lines, now) ELSE 0]
            /\ admitted' = [admitted EXCEPT ![c] = IF full THEN Allowed ELSE {}]
            /\ lock' = IF full THEN [lock EXCEPT ![Caller[c]] = NoCall] ELSE lock
    /\ stamp' = [stamp EXCEPT ![c] = now]
    /\ UNCHANGED <<now, file, overlapped>>

\* The temporary file is renamed over the old one; if that fails the call is
\* allowed all the same.
Record(c) ==
    /\ verdict[c] = "counted"
    /\ \/ /\ file' = in_window[c] \union {[call |-> c, at |-> stamp[c]]}
          /\ overlapped' = (overlapped \/ \E l \in InWindow(file, stamp[c]) \ in_window[c] :
                                              Caller[l.call] # Caller[c])
          /\ UNCHANGED degraded
       \/ /\ degraded' = TRUE
          /\ UNCHANGED <<file, overlapped>>
    /\ verdict' = [verdict EXCEPT ![c] = "allowed"]
    /\ in_window' = [in_window EXCEPT ![c] = {}]
    /\ lock' = [lock EXCEPT ![Caller[c]] = NoCall]
    /\ UNCHANGED <<now, stamp, retry_after, admitted>>

Tick ==
    /\ now < Horizon
    /\ now' = now + 1
    /\ UNCHANGED <<file, lock, verdict, in_window, stamp, retry_after,
                   overlapped, degraded, admitted>>

Consume(c) == Count(c) \/ Record(c)

-----------------------------------------------------------------------------
\* The calls allowed in the window that ends with c.
WindowOf(c) == {d \in Allowed : stamp[d] \in stamp[c] - WINDOW .. stamp[c]}

\* check_and_consume admits no more calls in a window than the limit of the process that
\* made the last of them, whatever the planners of one process do at once, unless the
\* file cannot be read or written or two processes overlap.
BudgetKept ==
    overlapped \/ degraded \/
    \A c \in Allowed : \E last \in Allowed :
        stamp[last] = stamp[c] /\ Cardinality(WindowOf(c)) <= LimitOf(last)

\* The wait a refusal names is enough, give or take a second (a line exactly one
\* window old still counts), for a process whose limit is not below the number of lines
\* the refused call found: who is refused again after it was overtaken by a call that
\* was allowed in the meantime.  A process with a lower limit than the one that filled
\* the window waits for the oldest line only, and may be refused again.
RetryAfterIsEnough ==
    \A c, d \in Call :
        (/\ verdict[c] = "refused" /\ verdict[d] = "refused"
         /\ Cardinality(in_window[c]) <= LimitOf(d)
         /\ stamp[d] > stamp[c] + retry_after[c])
            => admitted[c] # admitted[d]

\* The limit is kept, and what a refusal says about it is true.
LimitIsKept == BudgetKept /\ RetryAfterIsEnough
=============================================================================
