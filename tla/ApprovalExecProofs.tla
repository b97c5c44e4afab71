------------------------- MODULE ApprovalExecProofs -------------------------
(***************************************************************************)
(* Theorems about ApprovalExec for any number of connections, transactions *)
(* and requests, any policy and any clock.                                 *)
(***************************************************************************)
EXTENDS ApprovalExec, TransactionStoreProofs

-----------------------------------------------------------------------------
(* Type correctness.                                                       *)

\* Whatever the initial policy and clock, the daemon starts well typed.
LEMMA InitTyped == Init => TypeOK
  BY ExecAssumption, StoreAssumption, StatusTypes
     DEF Init, StoreInit, TypeOK, VarsTyped, StoreTypeOK, HandlerTyped, Holding, PC

\* Every step of a handler, of the machine, of a client or of the environment
\* keeps the state well typed.
LEMMA StepTyped == TypeOK /\ [Next]_vars => TypeOK'
  <1> SUFFICES ASSUME TypeOK, [Next]_vars PROVE TypeOK'
    OBVIOUS
  <1> USE ExecAssumption, StatusTypes
      DEF TypeOK, VarsTyped, HandlerTyped, Holding, PC, connVars, machineVars, Goto,
          Drop, Return, Answer, Settle
  <1>store. StoreTypeOK
    OBVIOUS
  <1>1. ASSUME NEW c \in Conn, RecordPreview(c) PROVE TypeOK'
    <2>1. StoreTypeOK'
      BY <1>1, <1>store, StoreOpsTyped DEF RecordPreview
    <2> QED BY <1>1, <2>1 DEF RecordPreview
  <1>2. ASSUME NEW c \in Conn, FindPreview(c) PROVE TypeOK'
    <2>1. StoreTypeOK'
      BY <1>2, <1>store, StoreOpsTyped DEF FindPreview
    <2> QED BY <1>2, <2>1 DEF FindPreview
  <1>3. ASSUME NEW c \in Conn, Claim(c) PROVE TypeOK'
    <2>1. StoreTypeOK'
      BY <1>3, <1>store, StoreOpsTyped DEF Claim
    <2> QED BY <1>3, <2>1 DEF Claim
  <1>unch. UNCHANGED storeVars => StoreTypeOK'
    BY <1>store, StoreOpsTyped
  <1>4. ASSUME NEW c \in Conn, SendJobStarted(c) PROVE TypeOK'
    BY <1>4, <1>unch DEF SendJobStarted
  <1>5. ASSUME NEW c \in Conn, RunCommand(c) PROVE TypeOK'
    <2>1. tx[c] \in Tx /\ req[c] \in Request /\ role[c] \in Nat
      BY <1>5 DEF RunCommand
    <2>2. /\ starts' \in [Tx -> 0 .. 2] /\ ranRole' \in [Tx -> Nat]
          /\ ran' \in [Tx -> Request \union {NoReq}]
          /\ exit' \in [Tx -> {"none", "running", "ok", "failed"}]
      BY <1>5, <2>1 DEF RunCommand
    <2> QED BY <1>5, <2>1, <2>2, <1>unch DEF RunCommand
  <1>6. ASSUME NEW c \in Conn, SpawnFails(c) PROVE TypeOK'
    BY <1>6, <1>unch DEF SpawnFails
  <1>7. ASSUME NEW c \in Conn, NEW result \in {"ok", "failed"},
                CommandEnds(c, result) PROVE TypeOK'
    BY <1>7, <1>unch DEF CommandEnds
  <1>8. ASSUME NEW c \in Conn, OutputError(c) PROVE TypeOK'
    BY <1>8, <1>unch DEF OutputError
  <1>9. ASSUME NEW c \in Conn, StartRollback(c) PROVE TypeOK'
    BY <1>9, <1>unch DEF StartRollback
  <1>10. ASSUME NEW c \in Conn, NEW result \in {"ok", "failed"},
                RollbackEnds(c, result) PROVE TypeOK'
    BY <1>10, <1>unch DEF RollbackEnds
  <1>11. ASSUME NEW c \in Conn, UpdatePostgres(c) PROVE TypeOK'
    <2>1. tx[c] \in Tx /\ outcome[c] \in Terminal /\ pc[c] = "update"
      BY <1>11 DEF UpdatePostgres
    <2>2. StoreTypeOK'
      BY <1>11, <1>store, <2>1, StoreOpsTyped DEF UpdatePostgres
    <2>3. CASE Goto(c, "complete") /\ UNCHANGED <<durable, machineVars, reported, gap>>
      BY <1>11, <2>1, <2>2, <2>3
    <2>4. CASE UpdateFails(c)
      BY <1>11, <2>1, <2>2, <2>4 DEF UpdatePostgres, UpdateFails
    <2> QED BY <1>11, <2>3, <2>4 DEF UpdatePostgres
  <1>12. ASSUME NEW c \in Conn, UpdateRead(c) PROVE TypeOK'
    <2>1. tx[c] \in Tx /\ outcome[c] \in Terminal /\ pc[c] = "update" /\ StoreTypeOK'
      BY <1>12, <1>unch DEF UpdateRead
    <2>2. CASE Goto(c, "write") /\ UNCHANGED <<durable, machineVars, reported, gap>>
      BY <2>1, <2>2
    <2>3. CASE UpdateFails(c)
      BY <2>1, <2>3 DEF UpdateFails
    <2> QED BY <1>12, <2>2, <2>3 DEF UpdateRead
  <1>13. ASSUME NEW c \in Conn, UpdateWrite(c) PROVE TypeOK'
    <2>1. tx[c] \in Tx /\ outcome[c] \in Terminal /\ pc[c] = "write"
      BY <1>13 DEF UpdateWrite
    <2>2. StoreTypeOK'
      BY <1>13, <2>1, <1>unch DEF UpdateWrite, StoreTypeOK
    <2>3. CASE Goto(c, "complete") /\ UNCHANGED <<durable, machineVars, reported, gap>>
      BY <2>1, <2>2, <2>3
    <2>4. CASE UpdateFails(c)
      BY <2>1, <2>2, <2>4 DEF UpdateFails
    <2> QED BY <1>13, <2>3, <2>4 DEF UpdateWrite
  <1>14. ASSUME NEW c \in Conn, Complete(c) PROVE TypeOK'
    BY <1>14, <1>unch DEF Complete
  <1>15. ASSUME NEW c \in Conn, NEW rl \in Role, Accept(c, rl) PROVE TypeOK'
    BY <1>15, <1>unch DEF Accept
  <1>16. ASSUME NEW c \in Conn, Close(c) PROVE TypeOK'
    BY <1>16, <1>unch DEF Close
  <1>17. ASSUME NEW c \in Conn, ClientGone(c) PROVE TypeOK'
    BY <1>17, <1>unch DEF ClientGone
  <1>18. ASSUME NEW c \in Conn, NEW r \in Request, PreviewRequest(c, r) PROVE TypeOK'
    BY <1>18, <1>unch DEF PreviewRequest
  <1>19. ASSUME NEW c \in Conn, NEW r \in Request, NEW approval_hash \in Request,
                ExecuteRequest(c, r, approval_hash) PROVE TypeOK'
    BY <1>19, <1>unch DEF ExecuteRequest
  <1>20. ASSUME NEW t \in Tx, NEW result \in {"ok", "failed"},
                OrphanEnds(t, result) PROVE TypeOK'
    BY <1>20, <1>unch DEF OrphanEnds
  <1>21. ASSUME Crash PROVE TypeOK'
    BY <1>21, <1>unch DEF Crash, Restart
  <1>22. ASSUME Checkpoint PROVE TypeOK'
    BY <1>22, <1>unch DEF Checkpoint, StoreTypeOK
  <1>23. ASSUME PowerLoss PROVE TypeOK'
    BY <1>23, <1>unch DEF PowerLoss, Restart, StoreTypeOK
  <1>24. ASSUME TimePasses PROVE TypeOK'
    BY <1>24, <1>store, StoreOpsTyped DEF TimePasses
  <1>25. ASSUME UNCHANGED vars PROVE TypeOK'
    BY <1>25, <1>unch DEF vars
  <1>26. ASSUME NEW c \in Conn, AnswerSent(c) PROVE TypeOK'
    BY <1>26, <1>unch DEF AnswerSent
  <1>27. ASSUME NEW c \in Conn, ClientDeaf(c) PROVE TypeOK'
    BY <1>27, <1>unch DEF ClientDeaf
  <1> HIDE DEF TypeOK
  <1> QED
    BY <1>1, <1>2, <1>3, <1>4, <1>5, <1>6, <1>7, <1>8, <1>9, <1>10, <1>11, <1>12,
       <1>13, <1>14, <1>15, <1>16, <1>17, <1>18, <1>19, <1>20, <1>21, <1>22, <1>23,
       <1>24, <1>25, <1>26, <1>27
       DEF Next, HandlerStep, MachineStep, ClientStep

\* Every variable keeps its type whatever the handlers, clients and faults do.
\* HandlerTyped is what makes the invariant inductive: a handler's step writes
\* its locals into the history variables of a row.
THEOREM TypeCorrect == Spec => []TypeOK
  <1>1. Init => TypeOK
    BY InitTyped
  <1>2. TypeOK /\ [Next]_vars => TypeOK'
    BY StepTyped
  <1> QED BY <1>1, <1>2, PTL DEF Spec

-----------------------------------------------------------------------------
(* One execution per preview, and truthful reports.                        *)

\* No commit is lost: the store is PostgreSQL, or power does not fail.  With
\* SQLite and power losses the theorems below do not hold (run
\* exec_power).
CommitsAreDurable == Backend = "postgres" \/ ~ Fault("power")

\* A fresh table satisfies ClaimInv: no row, no handler past its claim.
LEMMA InitClaim == Init => ClaimInv
  BY StatusTypes
     DEF Init, StoreInit, ClaimInv, ClaimExclusive, AtMostOnce, ReportedIsRecorded,
         Holding, Unattended

\* Every step keeps ClaimInv.  The claim makes its handler the owner of the row;
\* no other action touches the status of a row that is Running.
LEMMA StepClaim ==
    ASSUME CommitsAreDurable
    PROVE  TypeOK /\ ClaimInv /\ [Next]_vars => ClaimInv'
  <1> SUFFICES ASSUME TypeOK, ClaimInv, [Next]_vars PROVE ClaimInv'
    OBVIOUS
  <1> USE StatusTypes, ExecAssumption, StoreAssumption, CommitsAreDurable
      DEF TypeOK, VarsTyped, StoreTypeOK, HandlerTyped, ClaimInv, ClaimExclusive,
      AtMostOnce,
          ReportedIsRecorded, Holding, Unattended, CommitsAreDurable,
          storeVars, connVars, machineVars, Goto,
          Drop, Return, Answer, Settle,
          Jobs!allowed_transition, Jobs!Terminal
  <1>1. ASSUME NEW c \in Conn, RecordPreview(c) PROVE ClaimInv'
    BY <1>1, SMTT(30) DEF RecordPreview, InsertRow
  <1>2. ASSUME NEW c \in Conn, FindPreview(c) PROVE ClaimInv'
    <2>1. CASE Answer(c)
      BY <1>2, <2>1 DEF FindPreview
    <2>2. ASSUME NEW t \in Tx, Latest(t, req[c]), tx' = [tx EXCEPT ![c] = t],
                 pc' = [pc EXCEPT ![c] = "claim"], UNCHANGED <<peer, role, req, outcome>>
          PROVE  ClaimInv'
      <3>1. status[t] = "Queued"
        BY <2>2 DEF Latest, Matching
      <3>2. pc[c] = "find" /\ UNCHANGED <<storeVars, durable, machineVars, reported, gap>>
        BY <1>2 DEF FindPreview
      <3> QED BY <2>2, <3>1, <3>2
    <2> QED BY <1>2, <2>1, <2>2 DEF FindPreview
  <1>3. ASSUME NEW c \in Conn, Claim(c) PROVE ClaimInv'
    <2>1. pc[c] = "claim" /\ tx[c] \in Tx /\ UNCHANGED <<durable, machineVars, reported, gap>>
      BY <1>3 DEF Claim
    <2>2. CASE ClaimRow(tx[c]) /\ Goto(c, "start")
      <3>1. /\ \A d \in Conn : Holding(d) => tx[d] # tx[c]
            /\ starts[tx[c]] = 0 /\ reported[tx[c]] = Absent
        BY <2>1, <2>2 DEF ClaimRow
      <3> QED BY <2>1, <2>2, <3>1, SMTT(30) DEF ClaimRow
    <2>3. CASE ClaimRow(tx[c]) /\ Answer(c)
      BY <2>1, <2>3, SMTT(30) DEF ClaimRow
    <2>4. CASE UNCHANGED storeVars /\ Answer(c)
      BY <2>1, <2>4
    <2> HIDE DEF Goto, Answer
    <2>5. \/ ClaimRow(tx[c]) /\ Goto(c, "start")
          \/ ClaimRow(tx[c]) /\ Answer(c)
          \/ UNCHANGED storeVars /\ Answer(c)
      BY <1>3, Zenon DEF Claim
    <2> HIDE DEF ClaimInv
    <2> QED BY <2>2, <2>3, <2>4, <2>5, Zenon
  <1>4. ASSUME NEW c \in Conn, SendJobStarted(c) PROVE ClaimInv'
    <2>1. /\ pc[c] = "start" /\ UNCHANGED <<storeVars, durable, machineVars, reported, gap>>
          /\ Goto(c, "spawn") \/ Return(c)
      BY <1>4, Zenon DEF SendJobStarted
    <2>2. CASE Goto(c, "spawn")
      BY <2>1, <2>2
    <2>3. CASE Return(c)
      BY <2>1, <2>3
    <2> QED BY <2>1, <2>2, <2>3, Zenon
  <1>5. ASSUME NEW c \in Conn, RunCommand(c) PROVE ClaimInv'
    BY <1>5 DEF RunCommand
  <1>6. ASSUME NEW c \in Conn, SpawnFails(c) PROVE ClaimInv'
    BY <1>6 DEF SpawnFails
  <1>7. ASSUME NEW c \in Conn, NEW result \in {"ok", "failed"},
                CommandEnds(c, result) PROVE ClaimInv'
    BY <1>7 DEF CommandEnds
  <1>8. ASSUME NEW c \in Conn, OutputError(c) PROVE ClaimInv'
    BY <1>8 DEF OutputError
  <1>9. ASSUME NEW c \in Conn, StartRollback(c) PROVE ClaimInv'
    BY <1>9 DEF StartRollback
  <1>10. ASSUME NEW c \in Conn, NEW result \in {"ok", "failed"},
                RollbackEnds(c, result) PROVE ClaimInv'
    BY <1>10, SMTT(30) DEF RollbackEnds
  <1>11. ASSUME NEW c \in Conn, UpdatePostgres(c) PROVE ClaimInv'
    BY <1>11, SMTT(30) DEF UpdatePostgres, UpdateStatus, UpdateFails
  <1>12. ASSUME NEW c \in Conn, UpdateRead(c) PROVE ClaimInv'
    BY <1>12 DEF UpdateRead, UpdateFails
  <1>13. ASSUME NEW c \in Conn, UpdateWrite(c) PROVE ClaimInv'
    BY <1>13, SMTT(30) DEF UpdateWrite, UpdateFails
  <1>14. ASSUME NEW c \in Conn, Complete(c) PROVE ClaimInv'
    <2>1. /\ tx[c] \in Tx /\ pc[c] = "complete" /\ pc' = [pc EXCEPT ![c] = "idle"]
          /\ tx' = [tx EXCEPT ![c] = NoTx] /\ outcome' = [outcome EXCEPT ![c] = Absent]
          /\ UNCHANGED <<storeVars, starts, gap>>
      BY <1>14 DEF Complete
    <2>2. /\ \A t \in Tx : t # tx[c] => reported'[t] = reported[t]
          /\ reported'[tx[c]] \in {Unheard, outcome[c]}
      BY <1>14, <2>1 DEF Complete
    <2>3. \A t \in Tx : reported'[t] # Absent => Unattended(t)'
      BY <2>1, <2>2, SMTT(30)
    <2>4. ReportedIsRecorded'
      BY <2>1, <2>2, SMTT(30)
    <2> QED BY <2>1, <2>2, <2>3, <2>4, SMTT(30)
  <1>15. ASSUME NEW c \in Conn, NEW rl \in Role, Accept(c, rl) PROVE ClaimInv'
    BY <1>15 DEF Accept
  <1>16. ASSUME NEW c \in Conn, Close(c) PROVE ClaimInv'
    BY <1>16 DEF Close
  <1>17. ASSUME NEW c \in Conn, ClientGone(c) PROVE ClaimInv'
    BY <1>17 DEF ClientGone
  <1>18. ASSUME NEW c \in Conn, NEW r \in Request, PreviewRequest(c, r) PROVE ClaimInv'
    BY <1>18 DEF PreviewRequest
  <1>19. ASSUME NEW c \in Conn, NEW r \in Request, NEW approval_hash \in Request,
                ExecuteRequest(c, r, approval_hash) PROVE ClaimInv'
    BY <1>19 DEF ExecuteRequest
  <1>20. ASSUME NEW t \in Tx, NEW result \in {"ok", "failed"},
                OrphanEnds(t, result) PROVE ClaimInv'
    BY <1>20 DEF OrphanEnds
  <1>21. ASSUME Crash PROVE ClaimInv'
    BY <1>21 DEF Crash, Restart
  <1>22. ASSUME Checkpoint PROVE ClaimInv'
    BY <1>22 DEF Checkpoint
  <1>23. ASSUME PowerLoss PROVE ClaimInv'
    BY <1>23 DEF PowerLoss, Restart, Fault
  <1>24. ASSUME TimePasses PROVE ClaimInv'
    BY <1>24 DEF TimePasses, Tick
  <1>25. ASSUME UNCHANGED vars PROVE ClaimInv'
    BY <1>25 DEF vars
  <1>26. ASSUME NEW c \in Conn, AnswerSent(c) PROVE ClaimInv'
    BY <1>26 DEF AnswerSent
  <1>27. ASSUME NEW c \in Conn, ClientDeaf(c) PROVE ClaimInv'
    BY <1>27 DEF ClientDeaf
  <1> HIDE DEF TypeOK, ClaimInv
  <1> QED
    BY <1>1, <1>2, <1>3, <1>4, <1>5, <1>6, <1>7, <1>8, <1>9, <1>10, <1>11, <1>12,
       <1>13, <1>14, <1>15, <1>16, <1>17, <1>18, <1>19, <1>20, <1>21, <1>22, <1>23,
       <1>24, <1>25, <1>26, <1>27
       DEF Next, HandlerStep, MachineStep, ClientStep


\* ClaimInv is inductive as long as commits are durable.
LEMMA ClaimInvariant == ASSUME CommitsAreDurable PROVE Spec => [](TypeOK /\ ClaimInv)
  <1>1. Init => TypeOK /\ ClaimInv
    BY InitTyped, InitClaim
  <1>2. TypeOK /\ ClaimInv /\ [Next]_vars => TypeOK' /\ ClaimInv'
    BY StepTyped, StepClaim
  <1> QED BY <1>1, <1>2, PTL DEF Spec

\* A previewed transaction runs at most once, for any number of concurrent
\* executes, disconnects, crashes, failed store calls and lost answers.
THEOREM RunsAtMostOnce == ASSUME CommitsAreDurable PROVE Spec => []AtMostOnce
  <1>1. ClaimInv => AtMostOnce
    BY DEF ClaimInv
  <1> QED BY <1>1, ClaimInvariant, PTL

\* No two handlers own one row.
THEOREM OwnsAlone == ASSUME CommitsAreDurable PROVE Spec => []ClaimExclusive
  <1>1. ClaimInv => ClaimExclusive
    BY DEF ClaimInv
  <1> QED BY <1>1, ClaimInvariant, PTL

\* The lookup never returns a row whose command has been started, so an approval
\* that was used cannot be used again.
THEOREM ReplaysNothing ==
    ASSUME CommitsAreDurable PROVE Spec => []ExecutedNeverFound
  <1>1. ClaimInv => ExecutedNeverFound
    BY DEF ClaimInv, ExecutedNeverFound, Matching
  <1> QED BY <1>1, ClaimInvariant, PTL

\* What a client was told without a warning is, and stays, what the row says.
THEOREM ReportsTruthfully ==
    ASSUME CommitsAreDurable PROVE Spec => []ReportedIsRecorded
  <1>1. ClaimInv => ReportedIsRecorded
    BY DEF ClaimInv
  <1> QED BY <1>1, ClaimInvariant, PTL

-----------------------------------------------------------------------------
(* Only what was previewed, only for who is entitled to it.                *)

\* Nothing has run, no handler holds a request.
LEMMA InitAuth == Init => AuthInv
  BY DEF Init, AuthInv, ExecutionAuthorised, Holding

\* Every step keeps AuthInv, a restart and a power loss included: what a handler
\* checked when its request arrived does not change under it.
LEMMA StepAuth == TypeOK /\ AuthInv /\ [Next]_vars => AuthInv'
  <1> SUFFICES ASSUME TypeOK, AuthInv, [Next]_vars PROVE AuthInv'
    OBVIOUS
  <1> USE StatusTypes, ExecAssumption, StoreAssumption
      DEF TypeOK, VarsTyped, StoreTypeOK, HandlerTyped, AuthInv, ExecutionAuthorised,
          authorize_action, Holding, storeVars, connVars, machineVars, Goto,
          Drop, Return, Answer, Settle
  <1>1. ASSUME NEW c \in Conn, RecordPreview(c) PROVE AuthInv'
    BY <1>1, SMTT(30) DEF RecordPreview, InsertRow
  <1>2. ASSUME NEW c \in Conn, FindPreview(c) PROVE AuthInv'
    BY <1>2, SMTT(30) DEF FindPreview, Latest, Matching, Rows
  <1>3. ASSUME NEW c \in Conn, Claim(c) PROVE AuthInv'
    BY <1>3, SMTT(30) DEF Claim, ClaimRow
  <1>4. ASSUME NEW c \in Conn, SendJobStarted(c) PROVE AuthInv'
    BY <1>4 DEF SendJobStarted
  <1>5. ASSUME NEW c \in Conn, RunCommand(c) PROVE AuthInv'
    BY <1>5 DEF RunCommand
  <1>6. ASSUME NEW c \in Conn, SpawnFails(c) PROVE AuthInv'
    BY <1>6 DEF SpawnFails
  <1>7. ASSUME NEW c \in Conn, NEW result \in {"ok", "failed"},
                CommandEnds(c, result) PROVE AuthInv'
    BY <1>7 DEF CommandEnds
  <1>8. ASSUME NEW c \in Conn, OutputError(c) PROVE AuthInv'
    BY <1>8 DEF OutputError
  <1>9. ASSUME NEW c \in Conn, StartRollback(c) PROVE AuthInv'
    BY <1>9 DEF StartRollback
  <1>10. ASSUME NEW c \in Conn, NEW result \in {"ok", "failed"},
                RollbackEnds(c, result) PROVE AuthInv'
    BY <1>10, SMTT(30) DEF RollbackEnds
  <1>11. ASSUME NEW c \in Conn, UpdatePostgres(c) PROVE AuthInv'
    BY <1>11, SMTT(30) DEF UpdatePostgres, UpdateStatus, UpdateFails
  <1>12. ASSUME NEW c \in Conn, UpdateRead(c) PROVE AuthInv'
    BY <1>12 DEF UpdateRead, UpdateFails
  <1>13. ASSUME NEW c \in Conn, UpdateWrite(c) PROVE AuthInv'
    BY <1>13 DEF UpdateWrite, UpdateFails
  <1>14. ASSUME NEW c \in Conn, Complete(c) PROVE AuthInv'
    BY <1>14 DEF Complete
  <1>15. ASSUME NEW c \in Conn, NEW rl \in Role, Accept(c, rl) PROVE AuthInv'
    BY <1>15 DEF Accept
  <1>16. ASSUME NEW c \in Conn, Close(c) PROVE AuthInv'
    BY <1>16 DEF Close
  <1>17. ASSUME NEW c \in Conn, ClientGone(c) PROVE AuthInv'
    BY <1>17 DEF ClientGone
  <1>18. ASSUME NEW c \in Conn, NEW r \in Request, PreviewRequest(c, r) PROVE AuthInv'
    BY <1>18 DEF PreviewRequest
  <1>19. ASSUME NEW c \in Conn, NEW r \in Request, NEW approval_hash \in Request,
                ExecuteRequest(c, r, approval_hash) PROVE AuthInv'
    BY <1>19 DEF ExecuteRequest
  <1>20. ASSUME NEW t \in Tx, NEW result \in {"ok", "failed"},
                OrphanEnds(t, result) PROVE AuthInv'
    BY <1>20 DEF OrphanEnds
  <1>21. ASSUME Crash PROVE AuthInv'
    BY <1>21 DEF Crash, Restart
  <1>22. ASSUME Checkpoint PROVE AuthInv'
    BY <1>22 DEF Checkpoint
  <1>23. ASSUME PowerLoss PROVE AuthInv'
    BY <1>23 DEF PowerLoss, Restart, Fault
  <1>24. ASSUME TimePasses PROVE AuthInv'
    BY <1>24 DEF TimePasses, Tick
  <1>25. ASSUME UNCHANGED vars PROVE AuthInv'
    BY <1>25 DEF vars
  <1>26. ASSUME NEW c \in Conn, AnswerSent(c) PROVE AuthInv'
    BY <1>26 DEF AnswerSent
  <1>27. ASSUME NEW c \in Conn, ClientDeaf(c) PROVE AuthInv'
    BY <1>27 DEF ClientDeaf
  <1> HIDE DEF TypeOK, AuthInv
  <1> QED
    BY <1>1, <1>2, <1>3, <1>4, <1>5, <1>6, <1>7, <1>8, <1>9, <1>10, <1>11, <1>12,
       <1>13, <1>14, <1>15, <1>16, <1>17, <1>18, <1>19, <1>20, <1>21, <1>22, <1>23,
       <1>24, <1>25, <1>26, <1>27
       DEF Next, HandlerStep, MachineStep, ClientStep

\* Whatever is lost or replayed (power losses included), a command runs only for
\* the request its row was previewed with and a caller entitled to it.
THEOREM RunsOnlyAuthorised == Spec => []ExecutionAuthorised
  <1>1. Init => TypeOK /\ AuthInv
    BY InitTyped, InitAuth
  <1>2. TypeOK /\ AuthInv /\ [Next]_vars => TypeOK' /\ AuthInv'
    BY StepTyped, StepAuth
  <1>3. AuthInv => ExecutionAuthorised
    BY DEF AuthInv
  <1> QED BY <1>1, <1>2, <1>3, PTL DEF Spec


-----------------------------------------------------------------------------
(* The handlers use the store as it promises to be used.                   *)

\* Every step of the daemon changes the table by one atomic store operation or
\* not at all.  The interesting step is SQLite's UpdateWrite, which does not
\* look at the status again: ClaimInv says what it would see.
LEMMA ExecStepIsStoreStep ==
    ASSUME CommitsAreDurable
    PROVE  TypeOK /\ ClaimInv /\ [Next]_vars => [StoreNext]_storeVars
  <1> SUFFICES ASSUME TypeOK, ClaimInv, [Next]_vars PROVE [StoreNext]_storeVars
    OBVIOUS
  <1>1. ASSUME NEW c \in Conn, RecordPreview(c) PROVE [StoreNext]_storeVars
    <2>1. req[c] \in Request
      BY <1>1 DEF TypeOK, HandlerTyped, RecordPreview
    <2> QED BY <1>1, <2>1 DEF RecordPreview, StoreNext
  <1>2. ASSUME NEW c \in Conn, Claim(c) PROVE [StoreNext]_storeVars
    <2>1. tx[c] \in Tx
      BY <1>2 DEF TypeOK, HandlerTyped, Claim
    <2> QED BY <1>2, <2>1 DEF Claim, StoreNext
  <1>3. ASSUME NEW c \in Conn, UpdatePostgres(c) PROVE [StoreNext]_storeVars
    <2>1. tx[c] \in Tx /\ outcome[c] \in JobState
      BY <1>3, StatusTypes DEF TypeOK, HandlerTyped, Holding, UpdatePostgres
    <2> QED BY <1>3, <2>1 DEF UpdatePostgres, StoreNext
  <1>4. ASSUME NEW c \in Conn, UpdateWrite(c) PROVE [StoreNext]_storeVars
    <2>1. tx[c] \in Tx /\ outcome[c] \in Terminal /\ status[tx[c]] = "Running"
      BY <1>4 DEF TypeOK, HandlerTyped, ClaimInv, Holding, UpdateWrite
    <2>2. outcome[c] \in JobState /\ Jobs!allowed_transition(status[tx[c]], outcome[c])
      BY <2>1, StatusTypes DEF Jobs!allowed_transition, Jobs!Terminal
    <2>3. CASE UNCHANGED storeVars
      BY <2>3
    <2>4. CASE /\ status' = [status EXCEPT ![tx[c]] = outcome[c]]
               /\ UNCHANGED <<now, hash, created, seq>>
      <3>1. UpdateStatus(tx[c], outcome[c])
        BY <2>2, <2>4 DEF UpdateStatus
      <3> QED BY <2>1, <2>2, <3>1 DEF StoreNext
    <2> QED BY <1>4, <2>3, <2>4 DEF UpdateWrite
  <1>5. ASSUME PowerLoss PROVE [StoreNext]_storeVars
    BY <1>5 DEF PowerLoss, CommitsAreDurable, Fault, storeVars
  <1>6. ASSUME TimePasses PROVE [StoreNext]_storeVars
    BY <1>6 DEF TimePasses, StoreNext
  <1>7. ASSUME NEW c \in Conn,
               \/ FindPreview(c) \/ SendJobStarted(c) \/ RunCommand(c) \/ SpawnFails(c)
               \/ AnswerSent(c)
               \/ StartRollback(c) \/ UpdateRead(c) \/ Complete(c)
        PROVE  UNCHANGED storeVars
    BY <1>7 DEF FindPreview, AnswerSent, SendJobStarted, RunCommand, SpawnFails, StartRollback,
                UpdateRead, Complete
  <1>8. ASSUME NEW c \in Conn, MachineStep(c) \/ ClientStep(c) PROVE UNCHANGED storeVars
    BY <1>8 DEF MachineStep, ClientStep, CommandEnds, RollbackEnds, OutputError, Accept,
                Close, ClientGone, ClientDeaf, PreviewRequest, ExecuteRequest
  <1>9. ASSUME NEW t \in Tx, NEW result \in {"ok", "failed"}, OrphanEnds(t, result)
        PROVE  UNCHANGED storeVars
    BY <1>9 DEF OrphanEnds
  <1>10. ASSUME Crash \/ Checkpoint \/ UNCHANGED vars PROVE UNCHANGED storeVars
    BY <1>10 DEF Crash, Checkpoint, vars
  <1> QED
    BY <1>1, <1>2, <1>3, <1>4, <1>5, <1>6, <1>7, <1>8, <1>9, <1>10
       DEF Next, HandlerStep

\* The protocol implements the store's atomic interface on both backends.
THEOREM ExecImplementsStore == ASSUME CommitsAreDurable PROVE Spec => StoreRefinement
  <1>1. Init => StoreInit
    BY DEF Init
  <1>2. TypeOK /\ ClaimInv /\ [Next]_vars => [StoreNext]_storeVars
    BY ExecStepIsStoreStep
  <1> QED BY <1>1, <1>2, ClaimInvariant, PTL DEF Spec, StoreRefinement, StoreSpec

\* Under any interleaving every transaction follows the job state machine: the
\* unconditional UPDATE of SQLite never overwrites a terminal status.
THEOREM ExecImplementsJobs == ASSUME CommitsAreDurable PROVE Spec => JobSpec
  BY ExecImplementsStore, StoreImplementsJobs, PTL DEF StoreRefinement

-----------------------------------------------------------------------------
(* What a row says at last is what happened on the machine.                *)

\* Status o would be true of transaction t.
TrueOf(o, t) ==
    /\ o \in {"Succeeded", "NeedsReboot"} => exit[t] = "ok" /\ rolled[t] = "no"
    /\ o = "NeedsReboot" => hash[t] \in RebootRequired
    /\ o = "Succeeded" => hash[t] \notin RebootRequired
    /\ o = "RolledBack" => rolled[t] = "ok"
    /\ o = "Failed" /\ RollsBack(hash[t]) => rolled[t] = "failed"
    /\ o \in {"Failed", "RolledBack"} /\ ~ Fault("bad_output") => exit[t] \in {"none", "failed"}

\* What a row says is true; what its handler is about to write is true; before that
\* the machine is where the handler believes it to be.
OutcomeInv ==
    /\ \A t \in Tx : TrueOf(status[t], t)
    /\ \A t \in Tx : status[t] \in {Absent, "Queued"} => rolled[t] = "no"
    /\ \A t \in Tx : starts[t] = 0 => exit[t] = "none"
    /\ \A c \in Conn : pc[c] \in {"start", "spawn", "run", "rollback"} => rolled[tx[c]] = "no"
    /\ \A c \in Conn : pc[c] = "run" => exit[tx[c]] = "running"
    /\ \A c \in Conn : pc[c] \in {"rollback", "rolling"} =>
          /\ outcome[c] = "Failed"
          /\ ~ Fault("bad_output") => exit[tx[c]] \in {"none", "failed"}
    /\ \A c \in Conn : pc[c] \in {"update", "write"} => TrueOf(outcome[c], tx[c])

\* An empty table says nothing untrue.
LEMMA InitOutcome == Init => OutcomeInv
  BY StatusTypes DEF Init, StoreInit, OutcomeInv, TrueOf

\* Every step keeps OutcomeInv: only the handler that owns a row touches its machine.
LEMMA StepOutcome ==
    ASSUME CommitsAreDurable
    PROVE  TypeOK /\ ClaimInv /\ AuthInv /\ OutcomeInv /\ [Next]_vars => OutcomeInv'
  <1> SUFFICES ASSUME TypeOK, ClaimInv, AuthInv, OutcomeInv, [Next]_vars PROVE OutcomeInv'
    OBVIOUS
  <1> USE StatusTypes, ExecAssumption, StoreAssumption, CommitsAreDurable
      DEF TypeOK, VarsTyped, StoreTypeOK, HandlerTyped, ClaimInv, ClaimExclusive, AuthInv,
          OutcomeInv, TrueOf, RollsBack, Holding, CommitsAreDurable, storeVars, connVars,
          machineVars, Goto, Drop, Return, Answer, Settle
  <1>1. ASSUME NEW c \in Conn, RecordPreview(c) PROVE OutcomeInv'
    BY <1>1, SMTT(30) DEF RecordPreview, InsertRow
  <1>2. ASSUME NEW c \in Conn, FindPreview(c) PROVE OutcomeInv'
    BY <1>2, SMTT(30) DEF FindPreview, Latest, Matching, Rows
  <1>3. ASSUME NEW c \in Conn, Claim(c) PROVE OutcomeInv'
    <2>1. pc[c] = "claim" /\ tx[c] \in Tx /\ UNCHANGED <<durable, machineVars, reported, gap>>
      BY <1>3 DEF Claim
    <2>2. CASE ClaimRow(tx[c]) /\ Goto(c, "start")
      <3>1. rolled[tx[c]] = "no" /\ \A d \in Conn : Holding(d) => tx[d] # tx[c]
        BY <2>1, <2>2 DEF ClaimRow
      <3> QED BY <2>1, <2>2, <3>1, SMTT(30) DEF ClaimRow
    <2>3. CASE ClaimRow(tx[c]) /\ Answer(c)
      BY <2>1, <2>3, SMTT(30) DEF ClaimRow
    <2>4. CASE UNCHANGED storeVars /\ Answer(c)
      BY <2>1, <2>4
    <2> HIDE DEF Goto, Answer
    <2>5. \/ ClaimRow(tx[c]) /\ Goto(c, "start")
          \/ ClaimRow(tx[c]) /\ Answer(c)
          \/ UNCHANGED storeVars /\ Answer(c)
      BY <1>3, Zenon DEF Claim
    <2> HIDE DEF OutcomeInv, ClaimInv
    <2> QED BY <2>2, <2>3, <2>4, <2>5, Zenon
  <1>4. ASSUME NEW c \in Conn, SendJobStarted(c) PROVE OutcomeInv'
    <2>1. /\ pc[c] = "start" /\ UNCHANGED <<storeVars, durable, machineVars, reported, gap>>
          /\ Goto(c, "spawn") \/ Return(c)
      BY <1>4, Zenon DEF SendJobStarted
    <2>2. CASE Goto(c, "spawn")
      BY <2>1, <2>2
    <2>3. CASE Return(c)
      BY <2>1, <2>3
    <2> QED BY <2>1, <2>2, <2>3, Zenon
  <1>5. ASSUME NEW c \in Conn, RunCommand(c) PROVE OutcomeInv'
    BY <1>5 DEF RunCommand
  <1>6. ASSUME NEW c \in Conn, SpawnFails(c) PROVE OutcomeInv'
    BY <1>6 DEF SpawnFails
  <1>7. ASSUME NEW c \in Conn, NEW result \in {"ok", "failed"},
                CommandEnds(c, result) PROVE OutcomeInv'
    BY <1>7 DEF CommandEnds
  <1>8. ASSUME NEW c \in Conn, OutputError(c) PROVE OutcomeInv'
    BY <1>8 DEF OutputError
  <1>9. ASSUME NEW c \in Conn, StartRollback(c) PROVE OutcomeInv'
    BY <1>9 DEF StartRollback
  <1>10. ASSUME NEW c \in Conn, NEW result \in {"ok", "failed"},
                RollbackEnds(c, result) PROVE OutcomeInv'
    BY <1>10, SMTT(30) DEF RollbackEnds
  <1>11. ASSUME NEW c \in Conn, UpdatePostgres(c) PROVE OutcomeInv'
    BY <1>11, SMTT(30) DEF UpdatePostgres, UpdateStatus, UpdateFails
  <1>12. ASSUME NEW c \in Conn, UpdateRead(c) PROVE OutcomeInv'
    BY <1>12 DEF UpdateRead, UpdateFails
  <1>13. ASSUME NEW c \in Conn, UpdateWrite(c) PROVE OutcomeInv'
    BY <1>13 DEF UpdateWrite, UpdateFails
  <1>14. ASSUME NEW c \in Conn, Complete(c) PROVE OutcomeInv'
    BY <1>14 DEF Complete
  <1>15. ASSUME NEW c \in Conn, ClientStep(c) PROVE OutcomeInv'
    BY <1>15 DEF ClientStep, Accept, Close, ClientGone, ClientDeaf, PreviewRequest,
                 ExecuteRequest
  <1>16. ASSUME NEW t \in Tx, NEW result \in {"ok", "failed"},
                OrphanEnds(t, result) PROVE OutcomeInv'
    BY <1>16 DEF OrphanEnds
  <1>17. ASSUME Crash \/ Checkpoint PROVE OutcomeInv'
    BY <1>17 DEF Crash, Restart, Checkpoint
  <1>18. ASSUME PowerLoss PROVE OutcomeInv'
    BY <1>18 DEF PowerLoss, Restart, Fault
  <1>19. ASSUME TimePasses \/ UNCHANGED vars PROVE OutcomeInv'
    BY <1>19 DEF TimePasses, Tick, vars
  <1>20. ASSUME NEW c \in Conn, AnswerSent(c) PROVE OutcomeInv'
    BY <1>20 DEF AnswerSent
  <1> HIDE DEF TypeOK, ClaimInv, AuthInv, OutcomeInv
  <1> QED
    BY <1>1, <1>2, <1>3, <1>4, <1>5, <1>6, <1>7, <1>8, <1>9, <1>10, <1>11, <1>12,
       <1>13, <1>14, <1>15, <1>16, <1>17, <1>18, <1>19, <1>20
       DEF Next, HandlerStep, MachineStep

\* dispatcher.rs, from the exit of the command through the rollback to update_status:
\* whatever fails or interleaves on the way, the final status is what happened.
THEOREM StatusIsTrue == ASSUME CommitsAreDurable PROVE Spec => []OutcomeTrue
  <1>1. Init => TypeOK /\ ClaimInv /\ AuthInv /\ OutcomeInv
    BY InitTyped, InitClaim, InitAuth, InitOutcome
  <1>2. TypeOK /\ ClaimInv /\ AuthInv /\ OutcomeInv /\ [Next]_vars
            => TypeOK' /\ ClaimInv' /\ AuthInv' /\ OutcomeInv'
    BY StepTyped, StepClaim, StepAuth, StepOutcome
  <1>3. OutcomeInv => OutcomeTrue
    BY DEF OutcomeInv, OutcomeTrue, TrueOf
  <1> QED BY <1>1, <1>2, <1>3, PTL DEF Spec

-----------------------------------------------------------------------------
(* No silent gap.                                                          *)

\* Nothing has been started.
LEMMA InitGap == Init => NoSilentGap
  BY DEF Init, NoSilentGap

\* A handler that has started a command leaves its row only with a final status in
\* it, or with the warning.
LEMMA StepGap ==
    ASSUME CommitsAreDurable
    PROVE  TypeOK /\ ClaimInv /\ NoSilentGap /\ [Next]_vars => NoSilentGap'
  <1> SUFFICES ASSUME TypeOK, ClaimInv, NoSilentGap, [Next]_vars PROVE NoSilentGap'
    OBVIOUS
  <1> USE StatusTypes, ExecAssumption, StoreAssumption, CommitsAreDurable
      DEF TypeOK, VarsTyped, StoreTypeOK, HandlerTyped, ClaimInv, ClaimExclusive,
      NoSilentGap,
          Unattended, Holding, CommitsAreDurable, storeVars, connVars, machineVars,
          Goto, Drop, Return, Answer, Settle
  <1>1. ASSUME NEW c \in Conn, RecordPreview(c) PROVE NoSilentGap'
    BY <1>1, SMTT(30) DEF RecordPreview, InsertRow
  <1>2. ASSUME NEW c \in Conn, FindPreview(c) PROVE NoSilentGap'
    BY <1>2, SMTT(30) DEF FindPreview, Latest, Matching, Rows
  <1>3. ASSUME NEW c \in Conn, Claim(c) PROVE NoSilentGap'
    BY <1>3, SMTT(30) DEF Claim, ClaimRow
  <1>4. ASSUME NEW c \in Conn, SendJobStarted(c) PROVE NoSilentGap'
    BY <1>4 DEF SendJobStarted
  <1>5. ASSUME NEW c \in Conn, RunCommand(c) PROVE NoSilentGap'
    BY <1>5 DEF RunCommand
  <1>6. ASSUME NEW c \in Conn, SpawnFails(c) PROVE NoSilentGap'
    BY <1>6 DEF SpawnFails
  <1>7. ASSUME NEW c \in Conn, NEW result \in {"ok", "failed"},
                CommandEnds(c, result) PROVE NoSilentGap'
    BY <1>7 DEF CommandEnds
  <1>8. ASSUME NEW c \in Conn, OutputError(c) PROVE NoSilentGap'
    BY <1>8 DEF OutputError
  <1>9. ASSUME NEW c \in Conn, StartRollback(c) PROVE NoSilentGap'
    BY <1>9 DEF StartRollback
  <1>10. ASSUME NEW c \in Conn, NEW result \in {"ok", "failed"},
                RollbackEnds(c, result) PROVE NoSilentGap'
    BY <1>10, SMTT(30) DEF RollbackEnds
  <1>11. ASSUME NEW c \in Conn, UpdatePostgres(c) PROVE NoSilentGap'
    BY <1>11, SMTT(30) DEF UpdatePostgres, UpdateStatus, UpdateFails
  <1>12. ASSUME NEW c \in Conn, UpdateRead(c) PROVE NoSilentGap'
    BY <1>12 DEF UpdateRead, UpdateFails
  <1>13. ASSUME NEW c \in Conn, UpdateWrite(c) PROVE NoSilentGap'
    BY <1>13 DEF UpdateWrite, UpdateFails
  <1>14. ASSUME NEW c \in Conn, Complete(c) PROVE NoSilentGap'
    <2>1. tx[c] \in Tx /\ outcome[c] \in Terminal /\ reported'[tx[c]] # Absent
      BY <1>14 DEF Complete, Unheard, Absent
    <2>2. \A t \in Tx \ {tx[c]} : reported'[t] = reported[t]
      BY <1>14, <2>1 DEF Complete
    <2> QED BY <1>14, <2>1, <2>2 DEF Complete
  <1>15. ASSUME NEW c \in Conn, ClientStep(c) PROVE NoSilentGap'
    BY <1>15 DEF ClientStep, Accept, Close, ClientGone, ClientDeaf, PreviewRequest,
                 ExecuteRequest
  <1>16. ASSUME NEW t \in Tx, NEW result \in {"ok", "failed"},
                OrphanEnds(t, result) PROVE NoSilentGap'
    BY <1>16 DEF OrphanEnds
  <1>17. ASSUME Crash \/ Checkpoint PROVE NoSilentGap'
    BY <1>17 DEF Crash, Restart, Checkpoint
  <1>18. ASSUME PowerLoss PROVE NoSilentGap'
    BY <1>18 DEF PowerLoss, Restart, Fault
  <1>19. ASSUME TimePasses \/ UNCHANGED vars PROVE NoSilentGap'
    BY <1>19 DEF TimePasses, Tick, vars
  <1>20. ASSUME NEW c \in Conn, AnswerSent(c) PROVE NoSilentGap'
    BY <1>20 DEF AnswerSent
  <1> HIDE DEF TypeOK, ClaimInv, NoSilentGap
  <1> QED
    BY <1>1, <1>2, <1>3, <1>4, <1>5, <1>6, <1>7, <1>8, <1>9, <1>10, <1>11, <1>12,
       <1>13, <1>14, <1>15, <1>16, <1>17, <1>18, <1>19, <1>20
       DEF Next, HandlerStep, MachineStep

\* As long as the process lives, nobody walks away from a command that runs without
\* a final status or a warning (dispatcher.rs handle_execute).
THEOREM NoGapIsSilent == ASSUME CommitsAreDurable PROVE Spec => []NoSilentGap
  <1>1. Init => TypeOK /\ ClaimInv /\ NoSilentGap
    BY InitTyped, InitClaim, InitGap
  <1>2. TypeOK /\ ClaimInv /\ NoSilentGap /\ [Next]_vars => TypeOK' /\ ClaimInv' /\ NoSilentGap'
    BY StepTyped, StepClaim, StepGap
  <1> QED BY <1>1, <1>2, PTL DEF Spec

=============================================================================
