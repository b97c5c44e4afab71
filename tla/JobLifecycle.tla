---------------------------- MODULE JobLifecycle ----------------------------
(***************************************************************************)
(* What the daemon promises about the status of one job, as stated by the  *)
(* state machine of crates/sysknife-daemon/src/jobs.rs.  It is abstract:   *)
(* it knows nothing of connections, hashes, time or faults, only which     *)
(* status may follow which.  TransactionStore and ApprovalExec are shown   *)
(* to implement it, one machine per row of the transactions table.         *)
(***************************************************************************)

CONSTANT
    Job             \* The identities of jobs (transaction ids).

VARIABLE
    state           \* state[j]: the JobState of j, Absent before j exists.

-----------------------------------------------------------------------------

Absent == "Absent"

\* The five states is_terminal() answers true for.
Terminal == {"Succeeded", "Failed", "Canceled", "RolledBack", "NeedsReboot"}

JobState == {"Queued", "Running"} \union Terminal

allowed_transition(from, to) ==
    \/ from = "Queued"  /\ to \in {"Running", "Canceled"}
    \/ from = "Running" /\ to \in Terminal

-----------------------------------------------------------------------------

Init == state = [j \in Job |-> Absent]

\* JobStateMachine::new: a job is born Queued, whoever creates it.
New(j) == state[j] = Absent /\ state'[j] = "Queued"

\* transition_to; cancel() and needs_reboot() are transition_to with the
\* target fixed.  The Err branch leaves the machine as it was.
transition_to(j, next) ==
    /\ allowed_transition(state[j], next)
    /\ state'[j] = next

\* The machines are independent; one step may move several (one UPDATE of the
\* store may change several rows).
Next ==
    /\ state' \in [Job -> JobState \union {Absent}]
    /\ \A j \in Job :
        \/ state'[j] = state[j]
        \/ New(j)
        \/ \E next \in JobState : transition_to(j, next)

Spec == Init /\ [][Next]_state

=============================================================================
