----------------------------- MODULE DaemonEdge -----------------------------
(***************************************************************************)
(* The two ends of the daemon together: connections come in through the    *)
(* accept loop, and what their requests record goes out through the audit  *)
(* forwarder, in tasks that outlive the connection but not the process.    *)
(***************************************************************************)
EXTENDS AcceptLoop, AuditForward

CONSTANT Tx  \* Transactions.

ASSUME EdgeAssumption == Event \subseteq Tx \X {"preview", "final"}

VARIABLE forwarding  \* Is [audit.forward.syslog] configured?

vars == <<acceptVars, forwardVars, forwarding>>

Init == AcceptInit /\ ForwardInit /\ forwarding \in BOOLEAN

SpawnedOnly == UNCHANGED <<fate, queue, hand, fwd, drops, sender, ghosts>>

\* handle_preview has recorded the row, on a connection that is being served.
PreviewRecorded(c, t) ==
    /\ <<t, "preview">> \in Event
    /\ Serving(c)
    /\ forwarding
    /\ SpawnTask(<<t, "preview">>)
    /\ SpawnedOnly /\ UNCHANGED acceptVars

\* handle_execute has recorded the final status, on this connection or another.
FinalStatusRecorded(c, t) ==
    /\ {<<t, "preview">>, <<t, "final">>} \subseteq Event
    /\ Serving(c)
    /\ forwarding
    /\ task[<<t, "preview">>] # "none"
    /\ SpawnTask(<<t, "final">>)
    /\ SpawnedOnly /\ UNCHANGED acceptVars

ProcessEnds ==
    /\ ShutDown \/ Killed \/ FatalAcceptError
    /\ ForwarderEnds

ForwarderPolled == proc = "up" /\ forwarding /\ ForwarderStep /\ UNCHANGED acceptVars

TaskPolled(e) == TaskStep(e) /\ UNCHANGED acceptVars

Step ==
    \/ AcceptStep /\ UNCHANGED forwardVars
    \/ ProcessEnds
    \/ \E c \in Conn, t \in Tx : PreviewRecorded(c, t) \/ FinalStatusRecorded(c, t)
    \/ ForwarderPolled
    \/ \E e \in Event : TaskPolled(e)

Next == Step /\ UNCHANGED forwarding

Spec == Init /\ [][Next]_vars

\* The accept loop's fairness, and the runtime's: every task that can go on is
\* polled, sends and binds return, sleeps end.
Fairness ==
    /\ AcceptFairness
    /\ WF_forwardVars(ForwarderPolled)
    /\ \A e \in Event : WF_forwardVars(TaskPolled(e))

FairSpec == Spec /\ Fairness

\* Nothing hangs at either end: the door opens to every client (main.rs, dispatcher.rs)
\* and every event on its way to the SIEM is sent or given up (audit_forward.rs).
NothingHangs == DoorOpens /\ EventsEnd

\* One type invariant for both ends.
EdgeTypeOK == AcceptTypeOK /\ ForwardTypeOK /\ forwarding \in BOOLEAN
=============================================================================
