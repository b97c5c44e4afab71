----------------------------- MODULE LossyQueue -----------------------------
(***************************************************************************)
(* What forwarding to the SIEM promises, and all it promises: a bounded    *)
(* line between the record and the receiver.  An event is offered to it    *)
(* once and joins at the end or is turned away; it leaves from the front,  *)
(* received or lost; a shutdown may take all that is on its way.  Nothing  *)
(* is sent twice, overtaken, or taken from the middle.                     *)
(***************************************************************************)
EXTENDS Naturals, Sequences

CONSTANTS
    Event,
    Capacity   \* The most events the line holds.

VARIABLES
    pending,   \* The events not yet offered, or still on their way to the line.
    line,      \* The events in it.
    received   \* The events that have come out, as they came.

vars == <<pending, line, received>>

Init == pending = Event /\ line = << >> /\ received = << >>

Enter(e) ==
    /\ e \in pending
    /\ Len(line) < Capacity
    /\ pending' = pending \ {e}
    /\ line' = Append(line, e)
    /\ UNCHANGED received

TurnAway(e) ==
    /\ e \in pending
    /\ pending' = pending \ {e}
    /\ UNCHANGED <<line, received>>

Leave ==
    /\ line # << >>
    /\ line' = Tail(line)
    /\ UNCHANGED pending

Receive == Leave /\ received' = Append(received, Head(line))

Lose == Leave /\ UNCHANGED received

Shutdown ==
    /\ pending' \in SUBSET pending
    /\ line' = << >>
    /\ UNCHANGED received

Next ==
    \/ \E e \in Event : Enter(e) \/ TurnAway(e)
    \/ Receive \/ Lose
    \/ Shutdown

Spec == Init /\ [][Next]_vars
=============================================================================
