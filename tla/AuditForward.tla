---------------------------- MODULE AuditForward ----------------------------
(***************************************************************************)
(* The audit forwarder: a task is spawned for each preview and for each    *)
(* final status (forward_audit_event, forward_status_change_event), reads  *)
(* the row back and submits it to a bounded channel; one forwarder task    *)
(* takes events from the channel and sends them as UDP datagrams.          *)
(*                                                                         *)
(* submit is two steps apart, try_send and the reset of the drop counter,  *)
(* so that tasks of other events come between them.  Times are left out:   *)
(* a sleep ends when it ends.                                              *)
(***************************************************************************)
EXTENDS Integers, Sequences, Functions

CONSTANTS
    Event,                 \* Events to be forwarded.
    FORWARDER_QUEUE_DEPTH,
    DROP_WARN_THRESHOLD,
    MAX_BACKOFF_SECS

ASSUME ForwardAssumption ==
    /\ FORWARDER_QUEUE_DEPTH \in Nat \ {0}
    /\ DROP_WARN_THRESHOLD \in Nat \ {0}
    /\ MAX_BACKOFF_SECS \in Nat \ {0}

VARIABLES
    task,       \* task[e]: "none", "fetch", "reset" (try_send was Ok), "done".
    fate,       \* fate[e]: "none", or where e ended.
    queue,      \* The channel.
    hand,       \* What the forwarder task holds: << >> or <<e>>.
    fwd,        \* Where the forwarder task is: "recv", "send", "reopen", "sleep".
    socket,     \* Is a UDP socket bound?
    backoff,    \* backoff_secs.
    drops,      \* The atomic counter.
    accepted,   \* How many try_sends succeeded,
    turn,       \* and e's turn among them (0: e was not accepted).
    delivered,  \* Datagrams in the order they were sent.
    streak,     \* Consecutive events dropped since a try_send succeeded.
    warned,     \* WARNs since then.
    late,       \* Resets since then that came after a drop.
    uncapped    \* 1 when a socket is bound, doubled by each failure to bind one.

ghosts == <<accepted, turn, streak, warned, late>>
sender == <<socket, backoff, delivered, uncapped>>

forwardVars == <<task, fate, queue, hand, fwd, socket, backoff, drops,
                 accepted, turn, delivered, streak, warned, late, uncapped>>

\* spawn: the new task tries to bind once before its loop, without a backoff.
ForwardInit ==
    /\ task = [e \in Event |-> "none"]
    /\ fate = [e \in Event |-> "none"]
    /\ queue = << >> /\ hand = << >>
    /\ fwd = "recv"
    /\ socket \in BOOLEAN /\ backoff = 1 /\ uncapped = 1
    /\ drops = 0
    /\ streak = 0 /\ warned = 0 /\ late = 0
    /\ accepted = 0 /\ turn = [e \in Event |-> 0] /\ delivered = << >>

Ends(e, how) == fate' = [fate EXCEPT ![e] = how]

-----------------------------------------------------------------------------
(* dispatcher.rs: the tasks of the events.                                 *)

\* tokio::spawn in forward_audit_event or forward_status_change_event.
SpawnTask(e) ==
    /\ task[e] = "none"
    /\ task' = [task EXCEPT ![e] = "fetch"]

\* fetch_chain_row fails, or no longer finds the row: the event is given up.
FetchFails(e) ==
    /\ task[e] = "fetch"
    /\ task' = [task EXCEPT ![e] = "done"]
    /\ Ends(e, "unread")
    /\ UNCHANGED <<queue, hand, fwd, drops>> /\ UNCHANGED sender /\ UNCHANGED ghosts

\* submit, try_send Ok: the event is in the channel, drops.store(0) is to come.
SubmitOk(e) ==
    /\ task[e] = "fetch"
    /\ Len(queue) < FORWARDER_QUEUE_DEPTH
    /\ task' = [task EXCEPT ![e] = "reset"]
    /\ queue' = Append(queue, e)
    /\ accepted' = accepted + 1 /\ turn' = [turn EXCEPT ![e] = accepted + 1]
    /\ streak' = 0 /\ warned' = 0 /\ late' = 0
    /\ UNCHANGED <<fate, hand, fwd, drops>> /\ UNCHANGED sender

ResetDrops(e) ==
    /\ task[e] = "reset"
    /\ task' = [task EXCEPT ![e] = "done"]
    /\ drops' = 0
    /\ late' = IF streak > 0 THEN late + 1 ELSE late
    /\ UNCHANGED <<fate, queue, hand, fwd, accepted, turn, streak, warned>>
    /\ UNCHANGED sender

\* Mutant of WarnAt: a WARN for every drop past the threshold.
WarnFrom(prev) == prev + 1 >= DROP_WARN_THRESHOLD

WarnAt(prev) == prev + 1 = DROP_WARN_THRESHOLD

\* Mutant of SubmitFull: the newest event takes the place of the oldest.
SubmitEvicts(e) ==
    /\ task[e] = "fetch"
    /\ Len(queue) >= FORWARDER_QUEUE_DEPTH
    /\ task' = [task EXCEPT ![e] = "done"]
    /\ queue' = Append(Tail(queue), e)
    /\ drops' = drops + 1
    /\ streak' = streak + 1
    /\ warned' = IF WarnAt(drops) THEN warned + 1 ELSE warned
    /\ UNCHANGED <<fate, hand, fwd, accepted, turn, late>> /\ UNCHANGED sender

\* submit, try_send Full: fetch_add, and the WARN on reaching the threshold.
SubmitFull(e) ==
    /\ task[e] = "fetch"
    /\ Len(queue) >= FORWARDER_QUEUE_DEPTH
    /\ task' = [task EXCEPT ![e] = "done"]
    /\ Ends(e, "dropped")
    /\ drops' = drops + 1
    /\ streak' = streak + 1
    /\ warned' = IF WarnAt(drops) THEN warned + 1 ELSE warned
    /\ UNCHANGED <<queue, hand, fwd, accepted, turn, late>> /\ UNCHANGED sender

-----------------------------------------------------------------------------
(* audit_forward.rs: forwarder_task.                                       *)

Recv ==
    /\ fwd = "recv" /\ queue # << >>
    /\ hand' = <<Head(queue)>> /\ queue' = Tail(queue)
    /\ fwd' = "send"
    /\ UNCHANGED <<task, fate, drops>> /\ UNCHANGED sender /\ UNCHANGED ghosts

SendOk ==
    /\ fwd = "send" /\ socket
    /\ delivered' = Append(delivered, Head(hand))
    /\ Ends(Head(hand), "delivered")
    /\ hand' = << >>
    /\ fwd' = "recv"
    /\ UNCHANGED <<task, queue, socket, backoff, drops, uncapped>> /\ UNCHANGED ghosts

\* Mutant of SendFails: the event is put back for another try.
SendRequeues ==
    /\ fwd = "send"
    /\ queue' = queue \o hand
    /\ hand' = << >>
    /\ socket' = FALSE
    /\ fwd' = "reopen"
    /\ UNCHANGED <<task, fate, backoff, delivered, drops, uncapped>> /\ UNCHANGED ghosts

\* send_to fails, or there is no socket: the event is lost, the socket is
\* reopened.
SendFails ==
    /\ fwd = "send"
    /\ Ends(Head(hand), "lost")
    /\ hand' = << >>
    /\ socket' = FALSE
    /\ fwd' = "reopen"
    /\ UNCHANGED <<task, queue, backoff, delivered, drops, uncapped>> /\ UNCHANGED ghosts

Reopened == backoff' = 1

Reopen ==
    /\ fwd = "reopen"
    /\ socket' = TRUE /\ uncapped' = 1
    /\ Reopened
    /\ fwd' = "recv"
    /\ UNCHANGED <<task, fate, queue, hand, drops, delivered>> /\ UNCHANGED ghosts

\* bind fails: the sleep of backoff_secs begins.
ReopenFails ==
    /\ fwd = "reopen"
    /\ fwd' = "sleep" /\ uncapped' = 2 * uncapped
    /\ UNCHANGED <<task, fate, queue, hand, socket, backoff, drops, delivered>>
    /\ UNCHANGED ghosts

next_backoff_secs(prev) ==
    IF 2 * prev <= MAX_BACKOFF_SECS THEN 2 * prev ELSE MAX_BACKOFF_SECS

\* The sleep is over.
WakeUp ==
    /\ fwd = "sleep"
    /\ backoff' = next_backoff_secs(backoff)
    /\ fwd' = "recv"
    /\ UNCHANGED <<task, fate, queue, hand, socket, drops, delivered, uncapped>>
    /\ UNCHANGED ghosts

-----------------------------------------------------------------------------
\* The process ends: "pending events in the channel are dropped at shutdown"
\* (audit_forward.rs:151-154), and so are the tasks on their way to it; a later
\* start spawns a new forwarder.
ForwarderEnds ==
    /\ task' = [e \in Event |-> IF task[e] = "none" THEN "none" ELSE "done"]
    /\ fate' = [e \in Event |-> IF task[e] # "none" /\ fate[e] = "none"
                                THEN "abandoned" ELSE fate[e]]
    /\ queue' = << >> /\ hand' = << >>
    /\ fwd' = "recv"
    /\ socket' \in BOOLEAN /\ backoff' = 1 /\ uncapped' = 1
    /\ drops' = 0
    /\ streak' = 0 /\ warned' = 0 /\ late' = 0
    /\ UNCHANGED <<accepted, turn, delivered>>

TaskStep(e) ==
    \/ FetchFails(e)
    \/ SubmitOk(e)
    \/ ResetDrops(e)
    \/ SubmitFull(e)

ForwarderStep ==
    \/ Recv
    \/ SendOk
    \/ SendFails
    \/ Reopen
    \/ ReopenFails
    \/ WakeUp

-----------------------------------------------------------------------------
(* Properties.                                                             *)

EventSeq == Seq(Event)

ForwardTypeOK ==
    /\ task \in [Event -> {"none", "fetch", "reset", "done"}]
    /\ fate \in [Event -> {"none", "unread", "dropped", "delivered", "lost", "abandoned"}]
    /\ queue \in EventSeq /\ Len(queue) <= FORWARDER_QUEUE_DEPTH
    /\ hand \in EventSeq /\ Len(hand) <= 1 /\ (hand # << >> <=> fwd = "send")
    /\ fwd \in {"recv", "send", "reopen", "sleep"}
    /\ socket \in BOOLEAN
    /\ backoff \in 1 .. MAX_BACKOFF_SECS
    /\ drops \in Nat
    /\ accepted \in Nat /\ turn \in [Event -> 0 .. accepted] /\ delivered \in EventSeq
    /\ streak \in Nat /\ warned \in Nat /\ late \in Nat /\ uncapped \in Nat \ {0}

InTurn(s) == \A i, j \in 1 .. Len(s) : i < j => turn[s[i]] < turn[s[j]]
Accepted(f) == {e \in Event : turn[e] > 0 /\ fate[e] = f}

\* What the SIEM receives is, in order and once each, a part of what was
\* submitted: an event is never replayed, and a failed send, a rebind or a
\* restart never lets a later event overtake an earlier one.
DeliveredInOrder ==
    /\ InTurn(delivered) /\ Range(delivered) = Accepted("delivered")
    /\ InTurn(queue) /\ Range(queue) = Accepted("none") \ Range(hand)

\* The promise: an event is pending until its submit is decided, and what the
\* forwarder task holds is the front of the line.
Lossy == INSTANCE LossyQueue
         WITH pending <- {e \in Event : task[e] \in {"none", "fetch"}},
              line <- hand \o queue,
              received <- delivered,
              Capacity <- FORWARDER_QUEUE_DEPTH + 1

\* "Forwarding is fire-and-forget ... we do not retry the send in-process"
\* (audit_forward.rs:6-10, 30-36): whatever the tasks, the network and the process
\* do, each step is one of a bounded line that loses events at its two ends, or
\* all of them at once.
ForwardsAsPromised == Lossy!Spec

ResetPending == \E e \in Event : task[e] = "reset"

\* "Emit a single WARN to stderr after this many consecutive try_send drops"
\* (audit_forward.rs:50-52), for tasks that submit at once: the counter does
\* not reach the threshold unwarned, and an outage is announced once, plus once
\* for each reset that an earlier success was late with.
WarningsTellOutages ==
    /\ warned <= 1 + late
    /\ drops >= DROP_WARN_THRESHOLD /\ ~ ResetPending => warned >= 1

\* The wait before the next attempt is 1, 2, 4, ... capped, by the number of
\* failures since the socket was last bound: it never stays long after the
\* network has come back (audit_forward.rs:208-225).
BackoffTracksOutage ==
    LET due == IF fwd = "sleep" THEN uncapped \div 2 ELSE uncapped
    IN backoff = IF due <= MAX_BACKOFF_SECS THEN due ELSE MAX_BACKOFF_SECS

\* An outage of the SIEM is announced, and waited out no longer than it lasts.
OutageIsTracked == WarningsTellOutages /\ BackoffTracksOutage

\* In whatever order the tasks that submit, the forwarder and the network take their
\* turns, events keep theirs, and the counters beside them tell the outage as it is.
ForwardingIsSound == DeliveredInOrder /\ OutageIsTracked

\* Nothing is left hanging between the record and the SIEM: an event whose task
\* was spawned is delivered or given up.
EventsEnd == \A e \in Event : task[e] = "fetch" ~> fate[e] # "none"
=============================================================================
