----------------------------- MODULE AuditChain -----------------------------
(***************************************************************************)
(* The hash chain of the audit log: concurrent recordings append rows, each*)
(* carrying the keyed hash of its own immutable fields and of its          *)
(* predecessor's hash (audit_chain.rs), under the locks of SQLite          *)
(* (transactions.rs) or PostgreSQL (store/postgres.rs).  TransactionStore  *)
(* takes a recording to be one atomic step; here are its statements.       *)
(*                                                                         *)
(* The HMAC is a pair constructor: nobody without the key can make a hash, *)
(* and equal hashes have equal arguments.  The immutable fields are the seq*)
(* and the transaction id.  The key does not change.                       *)
(*                                                                         *)
(* Faults: "abort" a recording fails before it commits (busy timeout, lost *)
(* connection, daemon crash), "power" SQLite loses unsynced commits,       *)
(* "tamper" rows are changed by somebody who does not have the key.        *)
(***************************************************************************)
EXTENDS Integers, FiniteSets

CONSTANTS
    Writer,         \* Concurrent recordings.
    Tx,             \* Transaction ids, each recorded at most once.
    NoTx,           \* Not a transaction.
    Backends,       \* The backends to consider.
    MaxTamper,      \* Bound on the changes made behind the daemon's back.
    Faults

ASSUME ChainAssumption ==
    /\ NoTx \notin Tx
    /\ Backends \subseteq {"sqlite", "postgres"}
    /\ MaxTamper \in Nat
    /\ Faults \subseteq {"abort", "power", "tamper"}

VARIABLES
    backend,        \* The backend of this store; never changes.
    rows,           \* The committed rows.
    durable,        \* The rows that survive a power loss.
    wpc,            \* wpc[w]: where recording w is.
    wtx,            \* wtx[w]: the transaction it records.
    seen,           \* seen[w]: the rows its SELECT returned: none or the tail.
    pending,        \* pending[w]: the row it inserted and has not committed.
    written,        \* History: every row the daemon ever committed.
    begun,          \* History: the ids recorded, or tried: each is a fresh UUID.
    tampered,       \* History: how often somebody else changed the table.
    violation       \* History: a recording failed on UNIQUE (seq).

tableVars == <<rows, durable, written>>
writerVars == <<wpc, wtx, seen, pending>>
history == <<begun, tampered, violation>>
vars == <<backend, tableVars, writerVars, history>>

-----------------------------------------------------------------------------
(* The chain (audit_chain.rs).                                             *)

NoHash == <<>>

chain_hash(seq, tx, prev) == <<seq, tx, prev>>

ChainRow(seq, tx, prev) ==
    [seq |-> seq, tx |-> tx, prev |-> prev, hash |-> chain_hash(seq, tx, prev)]

\* ORDER BY seq DESC LIMIT 1: none, or the row with the greatest seq.
Tail(table) == {r \in table : \A q \in table : q.seq <= r.seq}

\* Mutants of Links: the predecessor is not compared; the hash is not recomputed.
LinksUnlinked(r) == r.hash = chain_hash(r.seq, r.tx, r.prev)
LinksUnkeyed(r) ==
    {q.hash : q \in Tail({p \in rows : p.seq < r.seq})}
       = (IF r.prev = NoHash THEN {} ELSE {r.prev})

\* What verify_chain compares at row r: prev_chain_hash with the hash of the row
\* before it in seq order, and chain_hash with the hash recomputed.
Links(r) ==
    /\ {q.hash : q \in Tail({p \in rows : p.seq < r.seq})}
          = (IF r.prev = NoHash THEN {} ELSE {r.prev})
    /\ r.hash = chain_hash(r.seq, r.tx, r.prev)

\* The rows verify_chain passes before it stops, and its verdict.
Checked == {r \in rows : \A q \in rows : q.seq <= r.seq => Links(q)}
Intact == Checked = rows

-----------------------------------------------------------------------------
(* A recording (record, record_previewed).                                 *)

Goto(w, next) == wpc' = [wpc EXCEPT ![w] = next]

\* It ends, committed or not, and its locks are released.
Return(w) ==
    /\ Goto(w, "idle")
    /\ wtx' = [wtx EXCEPT ![w] = NoTx]
    /\ seen' = [seen EXCEPT ![w] = {}]
    /\ pending' = [pending EXCEPT ![w] = {}]

\* SQLite: BEGIN IMMEDIATE takes the write lock of the database.
BeginImmediate(w, t) ==
    /\ backend = "sqlite" /\ wpc[w] = "idle" /\ t \notin begun
    /\ \A v \in Writer : wpc[v] = "idle"
    /\ wtx' = [wtx EXCEPT ![w] = t]
    /\ begun' = begun \union {t}
    /\ Goto(w, "select")
    /\ UNCHANGED <<backend, tableVars, seen, pending, tampered, violation>>

\* PostgreSQL: BEGIN (READ COMMITTED) takes no lock.
BeginReadCommitted(w, t) ==
    /\ backend = "postgres" /\ wpc[w] = "idle" /\ t \notin begun
    /\ wtx' = [wtx EXCEPT ![w] = t]
    /\ begun' = begun \union {t}
    /\ Goto(w, "select")
    /\ UNCHANGED <<backend, tableVars, seen, pending, tampered, violation>>

\* The SELECT of the tail, on a snapshot of the committed rows.
SelectTail(w) ==
    /\ wpc[w] = "select"
    /\ seen' = [seen EXCEPT ![w] = Tail(rows)]
    /\ Goto(w, IF backend = "postgres" /\ rows # {} THEN "lock" ELSE "insert")
    /\ UNCHANGED <<backend, tableVars, wtx, pending, history>>

\* Nobody else has locked the row w found.
TailIsFree(w) ==
    \A v \in Writer \ {w} : wpc[v] \in {"insert", "commit"} => seen[v] # seen[w]

\* PostgreSQL's FOR UPDATE: waits for the lock of the row it found.  Having it,
\* the row is looked at again, not the ORDER BY.
LockTail(w) ==
    /\ wpc[w] = "lock"
    /\ TailIsFree(w)
    /\ Goto(w, "insert")
    /\ UNCHANGED <<backend, tableVars, wtx, seen, pending, history>>

\* Mutant: the tail's prev_chain_hash is taken for its chain_hash.
NextRowWrongColumn(w) ==
    IF seen[w] = {} THEN ChainRow(1, wtx[w], NoHash)
    ELSE CHOOSE r \in {ChainRow(q.seq + 1, wtx[w], q.prev) : q \in seen[w]} : TRUE

\* The row w would insert: seq 1 and no predecessor in an empty table.
NextRow(w) ==
    IF seen[w] = {} THEN ChainRow(1, wtx[w], NoHash)
    ELSE CHOOSE r \in {ChainRow(q.seq + 1, wtx[w], q.hash) : q \in seen[w]} : TRUE

Uncommitted(w) == UNION {pending[v] : v \in Writer \ {w}}

\* Mutant: seq is not UNIQUE.
InsertUnchecked(w) ==
    /\ wpc[w] = "insert"
    /\ pending' = [pending EXCEPT ![w] = {NextRow(w)}]
    /\ Goto(w, "commit")
    /\ UNCHANGED <<backend, tableVars, wtx, seen, history>>

\* The INSERT waits while another uncommitted row has its seq.
Insert(w) ==
    /\ wpc[w] = "insert"
    /\ \A r \in rows \union Uncommitted(w) : r.seq # NextRow(w).seq
    /\ pending' = [pending EXCEPT ![w] = {NextRow(w)}]
    /\ Goto(w, "commit")
    /\ UNCHANGED <<backend, tableVars, wtx, seen, history>>

\* Mutant: the statement is tried again as it is.
InsertRetries(w) ==
    /\ wpc[w] = "insert"
    /\ \E r \in rows : r.seq = NextRow(w).seq
    /\ violation' = TRUE
    /\ UNCHANGED <<backend, tableVars, writerVars, begun, tampered>>

\* A committed row has its seq: the statement and with it the recording fail.
InsertViolatesUnique(w) ==
    /\ wpc[w] = "insert"
    /\ \E r \in rows : r.seq = NextRow(w).seq
    /\ violation' = TRUE
    /\ Return(w)
    /\ UNCHANGED <<backend, tableVars, begun, tampered>>

\* The INSERT of the preview and the COMMIT, or an error after which the
\* transaction is rolled back.
Commit(w) ==
    /\ wpc[w] = "commit"
    /\ rows' = rows \union pending[w]
    /\ written' = written \union pending[w]
    /\ durable' = IF backend = "postgres" THEN rows' ELSE durable
    /\ Return(w)
    /\ UNCHANGED <<backend, history>>

Abort(w) ==
    /\ "abort" \in Faults /\ wpc[w] # "idle"
    /\ Return(w)
    /\ UNCHANGED <<backend, tableVars, history>>

-----------------------------------------------------------------------------
(* The environment.                                                        *)

\* SQLite's WAL is synchronised; synchronous = NORMAL does it only now.
Checkpoint ==
    /\ "power" \in Faults /\ durable # rows
    /\ durable' = rows
    /\ UNCHANGED <<backend, rows, written, writerVars, history>>

PowerLoss ==
    /\ "power" \in Faults
    /\ rows' = durable
    /\ wpc' = [w \in Writer |-> "idle"]
    /\ wtx' = [w \in Writer |-> NoTx]
    /\ seen' = [w \in Writer |-> {}]
    /\ pending' = [w \in Writer |-> {}]
    /\ UNCHANGED <<backend, durable, written, history>>

\* The hashes anybody who reads the table knows.
KnownHash == {NoHash} \union {r.hash : r \in written}

\* A row is edited, moved, deleted, or one is made of known parts, while no
\* recording is under way.
Tamper ==
    /\ "tamper" \in Faults /\ tampered < MaxTamper
    /\ \A w \in Writer : wpc[w] = "idle"
    /\ \/ \E r \in rows : rows' = rows \ {r}
       \/ \E r \in rows, t \in Tx : rows' = (rows \ {r}) \union {[r EXCEPT !.tx = t]}
       \/ \E s \in 1 .. (Cardinality(Tx) + 1), t \in Tx, prev, hash \in KnownHash :
            /\ \A r \in rows : r.seq # s
            /\ rows' = rows \union {[seq |-> s, tx |-> t, prev |-> prev, hash |-> hash]}
    /\ durable' = rows'
    /\ tampered' = tampered + 1
    /\ UNCHANGED <<backend, written, writerVars, begun, violation>>

-----------------------------------------------------------------------------

Init ==
    /\ backend \in Backends
    /\ rows = {} /\ durable = {} /\ written = {}
    /\ wpc = [w \in Writer |-> "idle"]
    /\ wtx = [w \in Writer |-> NoTx]
    /\ seen = [w \in Writer |-> {}]
    /\ pending = [w \in Writer |-> {}]
    /\ begun = {}
    /\ tampered = 0
    /\ violation = FALSE

WriterStep(w) ==
    SelectTail(w) \/ LockTail(w) \/ Insert(w) \/ InsertViolatesUnique(w) \/ Commit(w)

Next ==
    \/ \E w \in Writer, t \in Tx : BeginImmediate(w, t) \/ BeginReadCommitted(w, t)
    \/ \E w \in Writer : WriterStep(w) \/ Abort(w)
    \/ Checkpoint
    \/ PowerLoss
    \/ Tamper

Spec == Init /\ [][Next]_vars

\* Every statement a recording has sent is executed, or waits for a lock.
FairSpec == Spec /\ \A w \in Writer : WF_vars(WriterStep(w))

-----------------------------------------------------------------------------
(* Properties.                                                             *)

ChainTypeOK ==
    /\ backend \in Backends
    /\ wpc \in [Writer -> {"idle", "select", "lock", "insert", "commit"}]
    /\ wtx \in [Writer -> Tx \union {NoTx}]
    /\ \A w \in Writer : Cardinality(seen[w]) <= 1 /\ Cardinality(pending[w]) <= 1
    /\ \A r \in rows \union durable \union written : r.seq \in Nat \ {0} /\ r.tx \in Tx
    /\ begun \subseteq Tx
    /\ tampered \in 0 .. MaxTamper
    /\ violation \in BOOLEAN

\* However recordings interleave, fail, crash or lose power, the log they leave
\* verifies: no two rows share a seq or a predecessor (verify_chain never cries
\* wolf).
HealthyChainIntact == tampered = 0 => Intact

\* Whatever was changed, every row verify_chain passes is a row the daemon wrote,
\* unaltered: nobody without the key makes a row that passes.
CheckedIsAuthentic == Checked \subseteq written

\* Row r was recorded as the first, or on top of a row the daemon had written.
OnWritten(r) ==
    \/ r.seq = 1 /\ r.prev = NoHash
    \/ \E q \in written : r.prev = q.hash /\ r.seq = q.seq + 1

\* Although verify_chain never looks at seq, no row is missing before or among the
\* rows it passes, nor is one there twice, unless the daemon was led to record on
\* top of a row it had not written.  (Rows cut off at the end are not missed:
\* audit_chain.rs:21-25.)
CheckedIsGapless ==
    (\A r \in written : OnWritten(r)) =>
        \A r \in Checked : r.seq = Cardinality({q \in Checked : q.seq <= r.seq})

\* A recording adds one row at the end and changes none; a power loss cuts rows
\* off the end; nothing else but somebody else's change touches the chain.
AppendOnly ==
    [][tampered' = 0 =>
          \/ rows \subseteq rows' /\ \A r \in rows' \ rows : r.seq = Cardinality(rows')
          \/ "power" \in Faults /\ rows' = {r \in rows : r.seq <= Cardinality(rows')}]_vars

\* The statement w has sent does not wait: for the tail's lock, or for an INSERT of
\* the same seq to be committed or undone.
CanGoOn(w) ==
    \/ wpc[w] \in {"select", "commit"}
    \/ wpc[w] = "lock" /\ TailIsFree(w)
    \/ /\ wpc[w] = "insert"
       /\ \/ \A r \in Uncommitted(w) : r.seq # NextRow(w).seq
          \/ \E r \in rows : r.seq = NextRow(w).seq

\* The locks of a recording and the unique index of seq (store/postgres.rs:124, 467)
\* never leave all recordings waiting for each other, whatever tails they saw.
NoDeadlock == (\E w \in Writer : wpc[w] # "idle") => \E w \in Writer : CanGoOn(w)

\* No recording waits for ever for a lock.
RecordingEnds == \A w \in Writer : wpc[w] # "idle" ~> wpc[w] = "idle"

\* store/postgres.rs:461-465: FOR UPDATE is there so that "concurrent writers
\* serialise on the chain tip.  Without this, two parallel record() calls could
\* both compute seq=N+1 and then race on the UNIQUE(seq) constraint".
NoUniqueViolation == ~ violation

=============================================================================
