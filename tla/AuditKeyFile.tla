---------------------------- MODULE AuditKeyFile ----------------------------
(***************************************************************************)
(* Where the chain's key comes from and what a verifier concludes: the     *)
(* daemons that load the key file, or make it (audit_chain.rs), and sign   *)
(* rows with what they loaded; the commands that load it on their own and  *)
(* walk the chain (`sysknife audit verify` in runner.rs, the tools of      *)
(* mcp_server.rs); the operator, who may replace the key by hand.          *)
(*                                                                         *)
(* AuditChain asks what verify_chain detects under one key.  Here a row is *)
(* the key that signed it: every key has the same key_id, so that          *)
(* verify_chain cannot tell another key from a forgery.                    *)
(***************************************************************************)
EXTENDS Integers

CONSTANTS
    Daemon,         \* Daemon processes of one host; the unit starts them again.
    Verifier,       \* Verifying commands; each runs once.
    MaxTrouble      \* Bound on the operator's interventions and on the crashes.

ASSUME KeyFileAssumption ==
    Daemon \intersect Verifier = {} /\ MaxTrouble \in Nat

VARIABLES
    keyFile,        \* [key, written, private], or NoFile.
    table,          \* The keys the rows are signed with, or NoTable.
    step,           \* step[p]: where process p is.
    held,           \* held[p]: the key p made or has read; 0 none.
    verdict,        \* verdict[v]: which tool verifier v is, and what it reported.
    keys,           \* How many keys were made; the next is a new one.
    trouble,        \* How many interventions and crashes there were.
    orphaned,       \* History: was a key removed that rows or daemons depend on?
    cutShort        \* History: did a process end between open and write?

keyVars == <<keyFile, table, step, held, verdict, keys, trouble, orphaned, cutShort>>

Process == Daemon \union Verifier

\* What the three tools make of an outcome: outcome_to_exit_code, outcome_to_report,
\* and the status of the audit chain in doctor's report.
ExitCode(outcome) == IF outcome = "intact" THEN "0" ELSE IF outcome = "broken" THEN "1" ELSE "2"
ReportStatus(outcome) == outcome
DoctorStatus(outcome) == IF outcome = "cannot_verify" THEN "unknown" ELSE outcome

\* Any verifier may be any of the three.
ReportsOf(outcome) ==
    {<<"audit verify", ExitCode(outcome)>>, <<"sysknife_audit_verify", ReportStatus(outcome)>>,
     <<"sysknife_doctor", DoctorStatus(outcome)>>}
Report(v, outcome) == \E report \in ReportsOf(outcome) : verdict' = [verdict EXCEPT ![v] = report]

NoFile == [key |-> 0, written |-> FALSE, private |-> TRUE]
NoTable == {0}
Exists == keyFile # NoFile

Signers == table \ NoTable
Running(p) == step[p] \notin {"down", "done"}

-----------------------------------------------------------------------------
(* AuditKey::load_or_generate, one file operation at a time.               *)

MoveTo(p, next) == step' = [step EXCEPT ![p] = next]

\* Mutant: main prints the error and returns Ok, which the unit takes for the end.
GiveUpForGood(p) ==
    /\ held' = [held EXCEPT ![p] = 0]
    /\ MoveTo(p, "done")
    /\ IF p \in Daemon THEN UNCHANGED verdict
       ELSE Report(p, "cannot_verify")

\* A daemon without a key exits with an error, a verifier says why it cannot.
GiveUp(p) ==
    /\ held' = [held EXCEPT ![p] = 0]
    /\ IF p \in Daemon THEN MoveTo(p, "down") /\ UNCHANGED verdict
       ELSE MoveTo(p, "done") /\ Report(p, "cannot_verify")

\* if !path.exists()
LookForKey(p) ==
    /\ step[p] = "load"
    /\ MoveTo(p, IF Exists THEN "stat" ELSE "generate")
    /\ UNCHANGED <<keyFile, table, held, verdict, keys, trouble, orphaned, cutShort>>

\* Mutant: the file is opened with create and truncate.
CreateOver(p) ==
    /\ step[p] = "generate"
    /\ keys' = keys + 1
    /\ keyFile' = [key |-> keys + 1, written |-> FALSE, private |-> TRUE]
    /\ held' = [held EXCEPT ![p] = keys + 1]
    /\ MoveTo(p, "write")
    /\ UNCHANGED <<table, verdict, trouble, orphaned, cutShort>>

\* generate_key_at: create_new fails if somebody else was faster.
CreateKey(p) ==
    /\ step[p] = "generate"
    /\ IF Exists
       THEN GiveUp(p) /\ UNCHANGED <<keyFile, keys>>
       ELSE /\ keys' = keys + 1
            /\ keyFile' = [key |-> keys + 1, written |-> FALSE, private |-> TRUE]
            /\ held' = [held EXCEPT ![p] = keys + 1]
            /\ MoveTo(p, "write")
            /\ UNCHANGED verdict
    /\ UNCHANGED <<table, trouble, orphaned, cutShort>>

\* write_all and sync_all, to the file it made even if that was removed.
WriteKey(p) ==
    /\ step[p] = "write"
    /\ keyFile' = IF keyFile.key = held[p] THEN [keyFile EXCEPT !.written = TRUE] ELSE keyFile
    /\ MoveTo(p, "stat")
    /\ UNCHANGED <<table, held, verdict, keys, trouble, orphaned, cutShort>>

\* The permissions are looked at before the bytes.
StatKey(p) ==
    /\ step[p] = "stat"
    /\ IF Exists /\ keyFile.private
       THEN MoveTo(p, "read") /\ UNCHANGED <<held, verdict>>
       ELSE GiveUp(p)
    /\ UNCHANGED <<keyFile, table, keys, trouble, orphaned, cutShort>>

\* Mutant: a key that was not written yet is taken as it is.
ReadShortKey(p) ==
    /\ step[p] = "read"
    /\ IF Exists
       THEN /\ held' = [held EXCEPT ![p] = IF keyFile.written THEN keyFile.key ELSE 0]
            /\ MoveTo(p, "open") /\ UNCHANGED verdict
       ELSE GiveUp(p)
    /\ UNCHANGED <<keyFile, table, keys, trouble, orphaned, cutShort>>

\* Fewer than 32 bytes are no key.
ReadKey(p) ==
    /\ step[p] = "read"
    /\ IF Exists /\ keyFile.written
       THEN /\ held' = [held EXCEPT ![p] = keyFile.key]
            /\ MoveTo(p, "open") /\ UNCHANGED verdict
       ELSE GiveUp(p)
    /\ UNCHANGED <<keyFile, table, keys, trouble, orphaned, cutShort>>

-----------------------------------------------------------------------------
(* The daemon.                                                             *)

\* The unit starts it, and again after a failure.
StartDaemon(d) ==
    /\ step[d] = "down"
    /\ MoveTo(d, "load")
    /\ UNCHANGED <<keyFile, table, held, verdict, keys, trouble, orphaned, cutShort>>

\* open_with_key, PostgresStore::connect: the tables are made if there are none.
OpenStore(d) ==
    /\ d \in Daemon /\ step[d] = "open"
    /\ table' = Signers
    /\ MoveTo(d, "up")
    /\ UNCHANGED <<keyFile, held, verdict, keys, trouble, orphaned, cutShort>>

\* A preview is recorded, signed with the key in memory.
SignRow(d) ==
    /\ step[d] = "up" /\ table # NoTable
    /\ table' = table \union {held[d]}
    /\ UNCHANGED <<keyFile, step, held, verdict, keys, trouble, orphaned, cutShort>>

-----------------------------------------------------------------------------
(* The verifiers: `audit verify`, sysknife_audit_verify, sysknife_doctor.  *)

\* Without a key file they do not go on: only a daemon is to make one.
StartVerifier(v) ==
    /\ step[v] = "ready"
    /\ IF Exists THEN MoveTo(v, "load") /\ UNCHANGED <<held, verdict>> ELSE GiveUp(v)
    /\ UNCHANGED <<keyFile, table, keys, trouble, orphaned, cutShort>>

\* verify_sqlite asks whether the database is there; either backend may refuse.
FindStore(v) ==
    /\ v \in Verifier /\ step[v] = "open"
    /\ \/ table # NoTable /\ MoveTo(v, "verify") /\ UNCHANGED <<held, verdict>>
       \/ GiveUp(v)
    /\ UNCHANGED <<keyFile, table, keys, trouble, orphaned, cutShort>>

VerifyOutcome(v) == IF Signers \subseteq {held[v]} THEN "intact" ELSE "broken"

\* open_read_only initialises the tables, too; fetch_chain_rows, verify_chain,
\* outcome_to_exit_code and its likes report one of the three outcomes.
Verify(v) ==
    /\ step[v] = "verify"
    /\ table' = Signers
    /\ \/ /\ Report(v, VerifyOutcome(v))
          /\ MoveTo(v, "done") /\ UNCHANGED held
       \/ GiveUp(v)
    /\ UNCHANGED <<keyFile, keys, trouble, orphaned, cutShort>>

-----------------------------------------------------------------------------
(* Crashes and the operator.                                               *)

Trouble == trouble < MaxTrouble /\ trouble' = trouble + 1

\* A process ends anywhere.
ProcessDies(p) ==
    /\ Trouble /\ Running(p)
    /\ cutShort' = (cutShort \/ (step[p] = "write" /\ keyFile.key = held[p]))
    /\ MoveTo(p, IF p \in Daemon THEN "down" ELSE "done")
    /\ held' = [held EXCEPT ![p] = 0]
    /\ UNCHANGED <<keyFile, table, verdict, keys, orphaned>>

\* "Rotation is manual (delete the chain, regenerate a new key file)": in that
\* order and with the daemons stopped nothing depends on the old key.
DeleteChain ==
    /\ Trouble
    /\ table # NoTable
    /\ table' = NoTable
    /\ UNCHANGED <<keyFile, step, held, verdict, keys, orphaned, cutShort>>

DeleteKey ==
    /\ Trouble
    /\ Exists
    /\ keyFile' = NoFile
    /\ orphaned' = (orphaned \/ Signers # {} \/ \E p \in Process : Running(p) /\ step[p] # "ready")
    /\ UNCHANGED <<table, step, held, verdict, keys, cutShort>>

Chmod ==
    /\ Trouble
    /\ Exists
    /\ keyFile' = [keyFile EXCEPT !.private = ~ keyFile.private]
    /\ UNCHANGED <<table, step, held, verdict, keys, orphaned, cutShort>>

-----------------------------------------------------------------------------

KeyInit ==
    /\ keyFile = NoFile /\ table = NoTable
    /\ step = [p \in Process |-> IF p \in Daemon THEN "down" ELSE "ready"]
    /\ held = [p \in Process |-> 0]
    /\ verdict = [v \in Verifier |-> <<"none", "none">>]
    /\ keys = 0 /\ trouble = 0 /\ orphaned = FALSE /\ cutShort = FALSE

ProcessStep(p) ==
    \/ LookForKey(p) \/ CreateKey(p) \/ WriteKey(p) \/ StatKey(p) \/ ReadKey(p)
    \/ OpenStore(p) \/ FindStore(p) \/ Verify(p)

KeyNext ==
    \/ \E p \in Process : ProcessStep(p) \/ ProcessDies(p)
    \/ \E d \in Daemon : StartDaemon(d) \/ SignRow(d)
    \/ \E v \in Verifier : StartVerifier(v)
    \/ DeleteChain \/ DeleteKey \/ Chmod

\* A process runs on, and the unit has Restart=on-failure, RestartSec=5s.
KeyFairness ==
    /\ \A p \in Process : WF_keyVars(ProcessStep(p))
    /\ \A d \in Daemon : WF_keyVars(StartDaemon(d))

KeySpec == KeyInit /\ [][KeyNext]_keyVars /\ KeyFairness

-----------------------------------------------------------------------------
\* However starts, first starts included, race with each other, with crashes and
\* with verifiers, one key signs the chain, the one in the file: unless an operator
\* removes a key that rows or a running process depend on (audit_chain.rs
\* load_or_generate).
OneKeySigns ==
    orphaned \/
    /\ Signers \subseteq {keyFile.key}
    /\ \A d \in Daemon : step[d] = "up" => held[d] = keyFile.key

\* A verifier never calls a chain broken that nobody touched, whatever it races
\* with: a key it cannot read, a half-written key included, is a reason not to judge
\* (exit code 2, "do not treat the audit log as either intact or tampered").
VerdictIsFair == \A v \in Verifier : verdict[v] \in ReportsOf("broken") => orphaned

\* Who signs and who verifies, at once and interrupted anywhere, agree on the key.
KeyIsSound == OneKeySigns /\ VerdictIsFair

\* A daemon comes up again and again, unless the key file stays unusable: made
\* public by the operator, or left without its bytes by a process that ended
\* between open and write, which no later start repairs.
DaemonStarts ==
    \A d \in Daemon :
        \/ [](step[d] = "down")   \* It is not used at all.
        \/ []<>(step[d] = "up")
        \/ <>[](Exists /\ (~ keyFile.private \/ (~ keyFile.written /\ cutShort)))
=============================================================================
