---------------------------- MODULE ApprovalExec ----------------------------
(***************************************************************************)
(* The privileged daemon's preview -> approve -> execute protocol: the     *)
(* handlers of crates/sysknife-daemon/src/dispatcher.rs, one sequential    *)
(* handler per connection, interleaved over the shared audit store.  A     *)
(* handler's program counter names its next await point; what it read      *)
(* before an await it keeps in its own variables (req, tx, outcome).       *)
(*                                                                         *)
(* Faults of the environment are enabled by name:                          *)
(*   "disconnect"  a client goes away while its request is being served    *)
(*   "deaf"        a client stays and stops reading: sends have no timeout *)
(*   "store"       a store call fails without effect                       *)
(*   "lost_ack"    PostgreSQL commits but the call returns an error        *)
(*   "bad_output"  reading the command's stdout fails (not UTF-8)          *)
(*   "crash"       the daemon process dies and is restarted                *)
(*   "power"       the machine loses power; unsynced commits are lost      *)
(***************************************************************************)
EXTENDS TransactionStore

CONSTANTS
    Conn,               \* Connection slots of the daemon.
    Role,               \* Caller roles, as the ranks of policy.rs role_rank.
    NoTx,               \* Not a transaction.
    Valid,              \* Requests build_action_spec accepts.
    MinRole,            \* MinRole[r]: effective minimum role of r's action.
    RebootRequired,     \* Requests whose spec says reboot_required.
    RollbackAvailable,  \* Requests whose spec says rollback_available.
    HasRollbackSpec,    \* Requests rollback_spec_for knows a rollback for.
    Faults              \* The faults that may happen.

ASSUME ExecAssumption ==
    /\ NoTx \notin Tx
    /\ Role \subseteq Nat
    /\ Valid \subseteq Request
    /\ MinRole \in [Request -> Nat]
    /\ Faults \subseteq {"disconnect", "deaf", "store", "lost_ack", "bad_output",
                         "crash", "power"}

VARIABLES
    pc,         \* pc[c]: where c's handler is.
    peer,       \* peer[c]: the client is "gone", "reads" what it is sent, or is "deaf".
    role,       \* role[c]: caller_role, fixed when the connection is accepted.
    req,        \* req[c]: the request being served.
    tx,         \* tx[c]: transaction_id in handle_execute.
    outcome,    \* outcome[c]: final_status in handle_execute.
    durable,    \* durable[t]: the status of row t that survives a power loss.
    \* History of the machine and of what clients were told.
    starts,     \* starts[t]: how often t's command was spawned, 2 for more than once.
    ran,        \* ran[t]: the request whose command was spawned for t.
    ranRole,    \* ranRole[t]: the role of the caller it was spawned for.
    exit,       \* exit[t]: "none", "running", "ok" or "failed".
    rolled,     \* rolled[t]: "no", "running", "ok" or "failed".
    reported,   \* reported[t]: status in the JobCompleted sent for t; Absent before, and
                \*   Unheard if it could not be sent, for its client had gone.
    gap         \* gap[t]: an update failed; the JobCompleted has a warning of it.

connVars == <<pc, peer, role, req, tx, outcome>>
machineVars == <<starts, ran, ranRole, exit, rolled>>
vars == <<storeVars, connVars, durable, machineVars, reported, gap>>

-----------------------------------------------------------------------------

Fault(f) == f \in Faults

\* The caller_role of a slot without a connection.
NoRole == -1

\* policy.action_allowed: the caller's rank reaches the action's.
authorize_action(c, r) == role[c] >= MinRole[r]

\* attempt_rollback_if_needed goes past its two early returns.
RollsBack(r) == r \in RollbackAvailable \intersect HasRollbackSpec

Unheard == "Unheard"

\* The handler of c goes where it has no request in hand, and its locals are gone.
Drop(c, next) ==
    /\ pc' = [pc EXCEPT ![c] = next]
    /\ req' = [req EXCEPT ![c] = NoReq]
    /\ tx' = [tx EXCEPT ![c] = NoTx]
    /\ outcome' = [outcome EXCEPT ![c] = Absent]
    /\ UNCHANGED <<peer, role>>

\* The handler of c returns to recv(); it sends its answer, and will return then.
Return(c) == Drop(c, "idle")
Answer(c) == Drop(c, "answer")

\* The handler of c goes on at another await point, its locals unchanged.
Goto(c, next) ==
    /\ pc' = [pc EXCEPT ![c] = next]
    /\ UNCHANGED <<peer, role, req, tx, outcome>>

-----------------------------------------------------------------------------
(* Connections (handle_connection, dispatch_loop).                         *)

\* The role comes from the peer's credentials or token, once.
Accept(c, rl) ==
    /\ pc[c] = "closed"
    /\ pc' = [pc EXCEPT ![c] = "idle"]
    /\ peer' = [peer EXCEPT ![c] = "reads"]
    /\ role' = [role EXCEPT ![c] = rl]
    /\ UNCHANGED <<storeVars, req, tx, outcome, durable, machineVars, reported, gap>>

\* recv() returns an error, or the message is not JSON: the loop breaks.
Close(c) ==
    /\ pc[c] = "idle"
    /\ pc' = [pc EXCEPT ![c] = "closed"]
    /\ peer' = [peer EXCEPT ![c] = "gone"]
    /\ role' = [role EXCEPT ![c] = NoRole]
    /\ UNCHANGED <<storeVars, req, tx, outcome, durable, machineVars, reported, gap>>

\* The client goes away while the handler is busy; the handler does not notice
\* until it sends.
ClientGone(c) ==
    /\ Fault("disconnect")
    /\ pc[c] \notin {"closed", "idle"} /\ peer[c] # "gone"
    /\ peer' = [peer EXCEPT ![c] = "gone"]
    /\ UNCHANGED <<storeVars, pc, role, req, tx, outcome, durable, machineVars,
                   reported, gap>>

\* The client stays and reads nothing any more, although it may go on sending; one that
\* reads late only makes sends longer.
ClientDeaf(c) ==
    /\ Fault("deaf")
    /\ pc[c] # "closed" /\ peer[c] = "reads"
    /\ peer' = [peer EXCEPT ![c] = "deaf"]
    /\ UNCHANGED <<storeVars, pc, role, req, tx, outcome, durable, machineVars,
                   reported, gap>>

-----------------------------------------------------------------------------
(* Preview.  A request that fails validation or authorization is answered  *)
(* with an error and changes nothing, like QueryState, QueryAction,        *)
(* Describe, Cancel and unknown messages: those are stuttering steps.      *)

PreviewRequest(c, r) ==
    /\ pc[c] = "idle" /\ peer[c] # "gone"
    /\ r \in Valid /\ authorize_action(c, r)
    /\ pc' = [pc EXCEPT ![c] = "preview"]
    /\ req' = [req EXCEPT ![c] = r]
    /\ UNCHANGED <<storeVars, peer, role, tx, outcome, durable, machineVars,
                   reported, gap>>

\* collect_state has returned (or failed: the preview goes on without it) and
\* record_previewed runs.
RecordPreview(c) ==
    /\ pc[c] = "preview"
    /\ \/ \E t \in Tx : InsertRow(t, req[c])
       \/ Fault("store") /\ UNCHANGED storeVars
    /\ Answer(c)
    /\ UNCHANGED <<durable, machineVars, reported, gap>>

\* The preview or the error has been sent, or could not be: the connection goes on.
AnswerSent(c) ==
    /\ pc[c] = "answer"
    /\ Return(c)
    /\ UNCHANGED <<storeVars, durable, machineVars, reported, gap>>

-----------------------------------------------------------------------------
(* Execute.                                                                *)

\* Mutant of ExecuteRequest: the role is checked at the preview only.
ExecuteUnauthorised(c, r, approval_hash) ==
    /\ pc[c] = "idle" /\ peer[c] # "gone"
    /\ r \in Valid /\ approval_hash = r
    /\ pc' = [pc EXCEPT ![c] = "find"]
    /\ req' = [req EXCEPT ![c] = r]
    /\ UNCHANGED <<storeVars, peer, role, tx, outcome, durable, machineVars,
                   reported, gap>>

\* Validation, authorization and require_fresh_approval, before any await.
ExecuteRequest(c, r, approval_hash) ==
    /\ pc[c] = "idle" /\ peer[c] # "gone"
    /\ r \in Valid /\ authorize_action(c, r)
    /\ approval_hash = r
    /\ pc' = [pc EXCEPT ![c] = "find"]
    /\ req' = [req EXCEPT ![c] = r]
    /\ UNCHANGED <<storeVars, peer, role, tx, outcome, durable, machineVars,
                   reported, gap>>

\* find_by_request_hash; nothing found is answered stale_approval, an error
\* transient_infrastructure_failure.
FindPreview(c) ==
    /\ pc[c] = "find"
    /\ \/ \E t \in Tx :
            /\ Latest(t, req[c])
            /\ tx' = [tx EXCEPT ![c] = t]
            /\ pc' = [pc EXCEPT ![c] = "claim"]
            /\ UNCHANGED <<peer, role, req, outcome>>
       \/ (Matching(req[c]) = {} \/ Fault("store")) /\ Answer(c)
    /\ UNCHANGED <<storeVars, durable, machineVars, reported, gap>>

\* claim_for_execution: won, lost to a concurrent request, failed, or committed
\* by a server whose answer is lost.
Claim(c) ==
    /\ pc[c] = "claim"
    /\ \/ ClaimRow(tx[c]) /\ Goto(c, "start")
       \/ status[tx[c]] # "Queued" /\ UNCHANGED storeVars /\ Answer(c)
       \/ Fault("store") /\ UNCHANGED storeVars /\ Answer(c)
       \/ /\ Fault("lost_ack") /\ Backend = "postgres"
          /\ ClaimRow(tx[c]) /\ Answer(c)
    /\ UNCHANGED <<durable, machineVars, reported, gap>>

\* send_response(JobStarted).await? : a send that fails returns at once.  A send
\* to a client that is gone may still succeed (it fills a socket buffer).
SendJobStarted(c) ==
    /\ pc[c] = "start"
    /\ \/ Goto(c, "spawn")
       \/ peer[c] = "gone" /\ Return(c)
    /\ UNCHANGED <<storeVars, durable, machineVars, reported, gap>>

\* The action starts; its spawn may fail (program missing), which is a Failed
\* outcome like any other.  JobProgress sends are ignored when they fail.
RunCommand(c) ==
    /\ pc[c] = "spawn"
    /\ starts' = [starts EXCEPT ![tx[c]] = IF @ = 0 THEN 1 ELSE 2]
    /\ ran' = [ran EXCEPT ![tx[c]] = req[c]]
    /\ ranRole' = [ranRole EXCEPT ![tx[c]] = role[c]]
    /\ exit' = [exit EXCEPT ![tx[c]] = "running"]
    /\ Goto(c, "run")
    /\ UNCHANGED <<storeVars, durable, rolled, reported, gap>>

\* The status the outcome of the action gives, and where the handler goes.
Settle(c, result) ==
    /\ outcome' = [outcome EXCEPT ![c] = result]
    /\ pc' = [pc EXCEPT ![c] = IF result = "Failed" /\ RollsBack(req[c])
                               THEN "rollback" ELSE "update"]
    /\ UNCHANGED <<peer, role, req, tx>>

SpawnFails(c) ==
    /\ pc[c] = "spawn"
    /\ Settle(c, "Failed")
    /\ UNCHANGED <<storeVars, durable, machineVars, reported, gap>>

\* The command exits and its status is read.
CommandEnds(c, result) ==
    /\ pc[c] = "run"
    /\ exit[tx[c]] = "running"
    /\ exit' = [exit EXCEPT ![tx[c]] = result]
    /\ Settle(c, IF result = "failed" THEN "Failed"
                 ELSE IF req[c] \in RebootRequired THEN "NeedsReboot" ELSE "Succeeded")
    /\ UNCHANGED <<storeVars, durable, starts, ran, ranRole, rolled, reported, gap>>

\* Mutant of OutputError: the error leaves handle_execute, as JobStarted's does.
OutputErrorReturns(c) ==
    /\ Fault("bad_output")
    /\ pc[c] = "run"
    /\ Return(c)
    /\ UNCHANGED <<storeVars, durable, machineVars, reported, gap>>

\* lines.next_line() returns an error: the function returns it at once, and the
\* child is dropped without being waited for or killed.
OutputError(c) ==
    /\ Fault("bad_output")
    /\ pc[c] = "run"
    /\ Settle(c, "Failed")
    /\ UNCHANGED <<storeVars, durable, machineVars, reported, gap>>

\* A command or a rollback nobody waits for any more ends by itself, or is killed.
OrphanEnds(t, result) ==
    /\ \/ /\ exit[t] = "running"
          /\ \A c \in Conn : tx[c] = t => pc[c] # "run"
          /\ exit' = [exit EXCEPT ![t] = result]
          /\ UNCHANGED rolled
       \/ /\ rolled[t] = "running"
          /\ \A c \in Conn : tx[c] = t => pc[c] # "rolling"
          /\ rolled' = [rolled EXCEPT ![t] = result]
          /\ UNCHANGED exit
    /\ UNCHANGED <<storeVars, connVars, durable, starts, ran, ranRole, reported, gap>>

\* attempt_rollback_if_needed: the rollback command starts ...
StartRollback(c) ==
    /\ pc[c] = "rollback"
    /\ rolled' = [rolled EXCEPT ![tx[c]] = "running"]
    /\ Goto(c, "rolling")
    /\ UNCHANGED <<storeVars, durable, starts, ran, ranRole, exit, reported, gap>>

\* Mutant of RollbackEnds: a rollback that was tried counts as done.
RollbackTried(c, result) ==
    /\ pc[c] = "rolling"
    /\ rolled' = [rolled EXCEPT ![tx[c]] = result]
    /\ outcome' = [outcome EXCEPT ![c] = "RolledBack"]
    /\ pc' = [pc EXCEPT ![c] = "update"]
    /\ UNCHANGED <<storeVars, peer, role, req, tx, durable, starts, ran, ranRole,
                   exit, reported, gap>>

\* ... and ends; a failed rollback leaves the status Failed.
RollbackEnds(c, result) ==
    /\ pc[c] = "rolling"
    /\ rolled' = [rolled EXCEPT ![tx[c]] = result]
    /\ outcome' = [outcome EXCEPT ![c] = IF result = "ok" THEN "RolledBack" ELSE @]
    /\ pc' = [pc EXCEPT ![c] = "update"]
    /\ UNCHANGED <<storeVars, peer, role, req, tx, durable, starts, ran, ranRole,
                   exit, reported, gap>>

\* Mutant of UpdateFails: logged, but the client is not warned.
UpdateFailsSilently(c) ==
    /\ Goto(c, "complete")
    /\ UNCHANGED <<durable, machineVars, reported, gap>>

\* update_status fails: logged, and a warning in the JobResult.
UpdateFails(c) ==
    /\ gap' = [gap EXCEPT ![tx[c]] = TRUE]
    /\ Goto(c, "complete")
    /\ UNCHANGED <<durable, machineVars, reported>>

UpdatePostgres(c) ==
    /\ Backend = "postgres" /\ pc[c] = "update"
    /\ \/ /\ UpdateStatus(tx[c], outcome[c])
          /\ Goto(c, "complete")
          /\ UNCHANGED <<durable, machineVars, reported, gap>>
       \/ /\ \/ ~ Jobs!allowed_transition(status[tx[c]], outcome[c])
             \/ Fault("store")
          /\ UNCHANGED storeVars /\ UpdateFails(c)
       \/ /\ Fault("lost_ack")
          /\ UpdateStatus(tx[c], outcome[c]) /\ UpdateFails(c)

\* SQLite: the SELECT and the check ...
UpdateRead(c) ==
    /\ Backend = "sqlite" /\ pc[c] = "update"
    /\ UNCHANGED storeVars
    /\ \/ /\ Jobs!allowed_transition(status[tx[c]], outcome[c])
          /\ Goto(c, "write")
          /\ UNCHANGED <<durable, machineVars, reported, gap>>
       \/ /\ \/ ~ Jobs!allowed_transition(status[tx[c]], outcome[c])
             \/ Fault("store")
          /\ UpdateFails(c)

\* ... then an UPDATE that does not look at the status again.
UpdateWrite(c) ==
    /\ pc[c] = "write"
    /\ \/ /\ status' = [status EXCEPT ![tx[c]] = outcome[c]]
          /\ Goto(c, "complete")
          /\ UNCHANGED <<now, hash, created, seq, durable, machineVars, reported, gap>>
       \/ Fault("store") /\ UNCHANGED storeVars /\ UpdateFails(c)

\* Mutant of Complete: the result waits for a client that is there.
CompleteBlocks(c) ==
    /\ pc[c] = "complete" /\ peer[c] # "gone"
    /\ reported' = [reported EXCEPT ![tx[c]] = outcome[c]]
    /\ Return(c)
    /\ UNCHANGED <<storeVars, durable, machineVars, gap>>

\* JobCompleted: the status, and a warning if there is a gap; to a client that is gone
\* the send may fail.
Complete(c) ==
    /\ pc[c] = "complete"
    /\ \/ reported' = [reported EXCEPT ![tx[c]] = outcome[c]]
       \/ peer[c] = "gone" /\ reported' = [reported EXCEPT ![tx[c]] = Unheard]
    /\ Return(c)
    /\ UNCHANGED <<storeVars, durable, machineVars, gap>>

-----------------------------------------------------------------------------
(* Process and machine failures.  The daemon has no recovery step: a       *)
(* restarted daemon opens the store and accepts connections.               *)

Restart ==
    /\ pc' = [c \in Conn |-> "closed"]
    /\ peer' = [c \in Conn |-> "gone"]
    /\ req' = [c \in Conn |-> NoReq]
    /\ tx' = [c \in Conn |-> NoTx]
    /\ outcome' = [c \in Conn |-> Absent]
    /\ role' = [c \in Conn |-> NoRole]
    /\ UNCHANGED <<starts, ran, ranRole, reported, gap>>

\* Mutant of Crash: the restarted daemon queues interrupted jobs again.
CrashRequeues ==
    /\ Fault("crash")
    /\ \E c \in Conn : pc[c] # "closed"
    /\ Restart
    /\ status' = [t \in Tx |-> IF status[t] = "Running" THEN "Queued" ELSE status[t]]
    /\ UNCHANGED <<now, hash, created, seq, durable, exit, rolled>>

\* What the daemon had started lives on until OrphanEnds.
Crash ==
    /\ Fault("crash")
    /\ \E c \in Conn : pc[c] # "closed"
    /\ Restart
    /\ UNCHANGED <<storeVars, durable, exit, rolled>>

\* A checkpoint of the SQLite WAL.  With synchronous = NORMAL only it makes the
\* commits before it durable; PostgreSQL makes every commit durable.
Checkpoint ==
    /\ Fault("power") /\ Backend = "sqlite"
    /\ durable' = status
    /\ UNCHANGED <<storeVars, connVars, machineVars, reported, gap>>

PowerLoss ==
    /\ Fault("power")
    /\ Restart
    /\ status' = IF Backend = "sqlite" THEN durable ELSE status
    /\ exit' = [t \in Tx |-> IF exit[t] = "running" THEN "failed" ELSE exit[t]]
    /\ rolled' = [t \in Tx |-> IF rolled[t] = "running" THEN "failed" ELSE rolled[t]]
    /\ UNCHANGED <<now, hash, created, seq, durable>>

TimePasses == Tick /\ UNCHANGED <<connVars, durable, machineVars, reported, gap>>

-----------------------------------------------------------------------------

Init ==
    /\ StoreInit
    /\ pc = [c \in Conn |-> "closed"]
    /\ peer = [c \in Conn |-> "gone"]
    /\ role = [c \in Conn |-> NoRole]
    /\ req = [c \in Conn |-> NoReq]
    /\ tx = [c \in Conn |-> NoTx]
    /\ outcome = [c \in Conn |-> Absent]
    /\ durable = [t \in Tx |-> Absent]
    /\ starts = [t \in Tx |-> 0]
    /\ ran = [t \in Tx |-> NoReq]
    /\ ranRole = [t \in Tx |-> 0]
    /\ exit = [t \in Tx |-> "none"]
    /\ rolled = [t \in Tx |-> "no"]
    /\ reported = [t \in Tx |-> Absent]
    /\ gap = [t \in Tx |-> FALSE]

\* A step of c's handler that ends at its next await point.
HandlerStep(c) ==
    \/ RecordPreview(c)
    \/ AnswerSent(c)
    \/ FindPreview(c)
    \/ Claim(c)
    \/ SendJobStarted(c)
    \/ RunCommand(c)
    \/ SpawnFails(c)
    \/ StartRollback(c)
    \/ UpdatePostgres(c)
    \/ UpdateRead(c)
    \/ UpdateWrite(c)
    \/ Complete(c)

\* A step of the command or the rollback c's handler waits for.
MachineStep(c) ==
    \/ \E result \in {"ok", "failed"} : CommandEnds(c, result)
    \/ \E result \in {"ok", "failed"} : RollbackEnds(c, result)
    \/ OutputError(c)

ClientStep(c) ==
    \/ \E rl \in Role : Accept(c, rl)
    \/ Close(c)
    \/ ClientGone(c)
    \/ ClientDeaf(c)
    \/ \E r \in Request : PreviewRequest(c, r)
    \/ \E r, approval_hash \in Request : ExecuteRequest(c, r, approval_hash)

Next ==
    \/ \E c \in Conn : HandlerStep(c) \/ MachineStep(c) \/ ClientStep(c)
    \/ \E t \in Tx, result \in {"ok", "failed"} : OrphanEnds(t, result)
    \/ Crash
    \/ Checkpoint
    \/ PowerLoss
    \/ TimePasses

Spec == Init /\ [][Next]_vars

\* Where the handler sends: an answer, JobStarted, the JobProgress frames before, during
\* and after the command and the rollback, JobCompleted.
Sending(c) == pc[c] \in {"answer", "start", "spawn", "run", "rollback", "rolling", "complete"}

\* write_all (framing.rs:36-45) waits for ever for a peer that is there and does not
\* read, once the socket's buffer is full.
Blocked(c) == Sending(c) /\ peer[c] = "deaf"

\* tokio keeps polling a handler that can go on, every store call returns (busy timeout,
\* connection error), and a send returns unless its peer is deaf.  That commands end is
\* an assumption on the machine: the daemon sets no timeout on them.
Fairness ==
    \A c \in Conn : /\ WF_vars(HandlerStep(c) /\ ~ Blocked(c))
                    /\ WF_vars(MachineStep(c) /\ ~ Blocked(c))

FairSpec == Spec /\ Fairness

-----------------------------------------------------------------------------
(* Properties.                                                             *)

PC == {"closed", "idle", "answer", "preview", "find", "claim", "start", "spawn", "run",
       "rollback", "rolling", "update", "write", "complete"}

\* Where the handler owns the claimed row tx[c].
Holding(c) == pc[c] \in {"start", "spawn", "run", "rollback", "rolling",
                         "update", "write", "complete"}

Unattended(t) == \A c \in Conn : Holding(c) => tx[c] # t

VarsTyped ==
    /\ StoreTypeOK
    /\ pc \in [Conn -> PC]
    /\ peer \in [Conn -> {"gone", "reads", "deaf"}]
    /\ role \in [Conn -> Role \union {NoRole}]
    /\ req \in [Conn -> Request \union {NoReq}]
    /\ tx \in [Conn -> Tx \union {NoTx}]
    /\ outcome \in [Conn -> JobState \union {Absent}]
    /\ durable \in [Tx -> JobState \union {Absent}]
    /\ starts \in [Tx -> 0 .. 2]
    /\ ran \in [Tx -> Request \union {NoReq}]
    /\ ranRole \in [Tx -> Nat]
    /\ exit \in [Tx -> {"none", "running", "ok", "failed"}]
    /\ rolled \in [Tx -> {"no", "running", "ok", "failed"}]
    /\ reported \in [Tx -> JobState \union {Absent, Unheard}]
    /\ gap \in [Tx -> BOOLEAN]

\* What a handler keeps across its awaits is well typed: past "closed" it has a
\* caller, past "idle" a request, past the lookup a row, past the command a
\* final outcome.
HandlerTyped ==
    \A c \in Conn :
        /\ pc[c] # "closed" => role[c] \in Role
        /\ pc[c] \notin {"closed", "idle", "answer"} => req[c] \in Request
        /\ pc[c] = "claim" \/ Holding(c) => tx[c] \in Tx
        /\ pc[c] \in {"rollback", "rolling", "update", "write", "complete"}
              => outcome[c] \in Terminal

TypeOK == VarsTyped /\ HandlerTyped

\* However executes, disconnects, crashes and store failures interleave, one
\* previewed transaction runs its command at most once: the claim, not the
\* lookup before it, decides (SECURITY.md:114-119, dispatcher.rs:1325-1353).
AtMostOnce == \A t \in Tx : starts[t] <= 1

\* Two handlers never both believe they own a row, from the claim to the
\* JobCompleted.
ClaimExclusive ==
    \A c, d \in Conn : c # d /\ Holding(c) /\ Holding(d) => tx[c] # tx[d]

\* What runs for a transaction is what was previewed for it, and the caller it
\* runs for is entitled to it, although lookup, claim and run are apart and the
\* row does not record the caller.
ExecutionAuthorised ==
    \A t \in Tx : starts[t] > 0 =>
        /\ ran[t] = hash[t]
        /\ ran[t] \in Valid /\ ranRole[t] >= MinRole[hash[t]]

\* A JobCompleted without an audit warning tells the status the row has, then
\* and ever after: no other handler's update or claim can change it.
ReportedIsRecorded ==
    \A t \in Tx : reported[t] \notin {Absent, Unheard} /\ ~ gap[t] => status[t] = reported[t]

\* Why the three above hold.  A claim takes a Queued row nobody has run, so the
\* row is Running and unrun until its handler spawns the command, and Running
\* until that same handler writes the outcome; nobody else may touch it.
ClaimInv ==
    /\ \A c \in Conn : pc[c] = "claim" \/ Holding(c) => status[tx[c]] # Absent
    /\ \A c \in Conn : Holding(c) /\ pc[c] # "complete" => status[tx[c]] = "Running"
    /\ \A c \in Conn : pc[c] \in {"start", "spawn"} => starts[tx[c]] = 0
    /\ \A c \in Conn : pc[c] = "complete" =>
            status[tx[c]] = outcome[c] \/ (gap[tx[c]] /\ status[tx[c]] = "Running")
    /\ \A t \in Tx : status[t] \in {Absent, "Queued"} => starts[t] = 0 /\ reported[t] = Absent
    /\ \A t \in Tx : reported[t] # Absent => Unattended(t)
    /\ \A t \in Tx : status[t] # Absent => hash[t] # NoReq
    /\ ClaimExclusive
    /\ AtMostOnce
    /\ ReportedIsRecorded

\* Why ExecutionAuthorised holds: the checks made when the request arrived still
\* hold of the handler's locals, and the row it found was previewed with its
\* request.
AuthInv ==
    /\ \A c \in Conn : pc[c] \notin {"closed", "idle", "answer"} =>
            req[c] \in Valid /\ authorize_action(c, req[c])
    /\ \A c \in Conn : pc[c] = "claim" \/ Holding(c) => hash[tx[c]] = req[c]
    /\ \A t \in Tx : starts[t] > 0 => hash[t] # NoReq
    /\ ExecutionAuthorised

\* The status in the row is what happened on the machine: success only after an
\* exit code of zero, RolledBack only after a rollback that worked, Failed only if
\* there is no rollback or it failed too.  After an output error the command may
\* still succeed behind a Failed row.
OutcomeTrue ==
    \A t \in Tx :
        /\ status[t] \in {"Succeeded", "NeedsReboot"} => exit[t] = "ok" /\ rolled[t] = "no"
        /\ status[t] = "NeedsReboot" => hash[t] \in RebootRequired
        /\ status[t] = "Succeeded" => hash[t] \notin RebootRequired
        /\ status[t] = "RolledBack" => rolled[t] = "ok"
        /\ status[t] = "Failed" /\ RollsBack(hash[t]) => rolled[t] = "failed"
        /\ status[t] \in {"Failed", "RolledBack"} /\ ~ Fault("bad_output")
              => exit[t] # "ok"

\* While the daemon lives, a command that was started never leaves its row Running
\* behind the client's back: somebody is working on it, or the client was sent the
\* JobCompleted with the warning, or had gone before it.
NoSilentGap ==
    Fault("crash") \/ Fault("power") \/
        \A t \in Tx : starts[t] > 0 /\ status[t] = "Running" /\ Unattended(t)
                          => gap[t] /\ reported[t] # Absent

\* The comment of dispatcher.rs:1531-1533: the daemon "must not abort
\* privileged operations because the shell dropped its connection".  A claimed
\* operation that has not begun and that nobody will begin is aborted.
DisconnectNeverAborts ==
    \A t \in Tx : status[t] = "Running" /\ starts[t] = 0 => ~ Unattended(t)

\* transactions.rs:222-225: "an already-executed (Succeeded/Failed) transaction is
\* never returned" by find_by_request_hash.  (With SQLite and power losses it may
\* be: synchronous = NORMAL does not make the claim durable.)
ExecutedNeverFound == \A t \in Tx : starts[t] > 0 => t \notin Matching(hash[t])

\* Every request is answered or its connection given up, whatever clients that leave
\* and stores that fail do: a handler that does not return is for ever at a send to a
\* client that is there and does not read.
HandlersReturn ==
    \A c \in Conn : []<>(pc[c] \in {"idle", "closed"}) \/ <>[]Blocked(c)

\* The daemon uses the store as the store promises to be used: SQLite's SELECT
\* and unconditional UPDATE, kept apart here, never do what one atomic
\* update_status would not.
StoreRefinement == StoreSpec

\* A command that was started gets a final status in its row, or its handler knows that
\* it has none, even when the client has gone away (dispatcher.rs:1531-1533), but not
\* if the client stays and does not read.
StartedIsRecorded ==
    \A t \in Tx : starts[t] > 0 ~>
        \/ status[t] \in Terminal \/ gap[t]
        \/ \E c \in Conn : Holding(c) /\ tx[c] = t /\ Blocked(c)

\* Nothing is left open, but for clients that do not read: neither a request nor the
\* record of what was started.
EverythingEnds == HandlersReturn /\ StartedIsRecorded

=============================================================================
