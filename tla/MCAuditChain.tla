---------------------------- MODULE MCAuditChain ----------------------------
(***************************************************************************)
(* Three scenarios in one run, for their product is too large: the log,    *)
(* with two recordings at a time, three transactions and both backends,    *)
(* under one key and at most one change behind the daemon's back; the log  *)
(* of one recording at a time that is changed twice; and the key, with two *)
(* daemons that start together, a verifier and two crashes or              *)
(* interventions.                                                          *)
(***************************************************************************)
EXTENDS AuditChain, AuditKeyFile

CONSTANT Alone  \* The recording of the second scenario.

VARIABLE scene

MCInit == Init /\ KeyInit /\ \/ scene = "log"
                             \/ scene = "tampered" /\ backend = "postgres"
                             \/ scene = "key" /\ backend = "sqlite"

OneByOne == \A w \in Writer \ {Alone} : wpc'[w] = "idle"

MCNext ==
    /\ \/ scene = "log" /\ Next /\ tampered' <= 1 /\ UNCHANGED keyVars
       \/ scene = "tampered" /\ Next /\ OneByOne /\ UNCHANGED keyVars
       \/ scene = "key" /\ KeyNext /\ UNCHANGED vars
    /\ UNCHANGED scene

MCFairness ==
    /\ \A w \in Writer : WF_vars(WriterStep(w))
    /\ \A p \in Process : WF_keyVars(ProcessStep(p))
    /\ \A d \in Daemon : WF_keyVars(scene = "key" /\ StartDaemon(d))

\* Whoever writes the log goes on: a recording comes to its end (store/postgres.rs,
\* transactions.rs), and a daemon to its key (audit_chain.rs load_or_generate).
WritersGoOn == RecordingEnds /\ DaemonStarts

MCSpec == MCInit /\ [][MCNext]_<<vars, keyVars, scene>> /\ MCFairness
=============================================================================
