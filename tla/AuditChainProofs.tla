--------------------------- MODULE AuditChainProofs ---------------------------
(***************************************************************************)
(* The log of AuditChain stays one chain, for any number of concurrent     *)
(* recordings, on both backends, under aborts and power losses; and the    *)
(* key of AuditKeyFile that signs it stays one key.                        *)
(***************************************************************************)
EXTENDS AuditChain, AuditKeyFile, NaturalSets

-----------------------------------------------------------------------------
(* The inductive invariant.                                                *)

\* Row r can follow the rows of log: it is the first, or its predecessor is
\* there; and its hash is its own.
Follows(r, log) ==
    /\ r.seq \in Nat \ {0}
    /\ r.hash = chain_hash(r.seq, r.tx, r.prev)
    /\ \/ r.seq = 1 /\ r.prev = NoHash
       \/ \E q \in log : r.seq = q.seq + 1 /\ r.prev = q.hash

\* No two rows of the table share a seq, and each follows the others.
Linked(log) ==
    /\ \A r \in log : Follows(r, log)
    /\ \A r, q \in log : r.seq = q.seq => r = q

\* A recording's tail is a committed row; what it has inserted follows the
\* committed rows under a seq that neither they nor another recording has.
WriterInv(w) ==
    /\ seen[w] \subseteq rows
    /\ \A p \in pending[w] :
          /\ wpc[w] = "commit"
          /\ Follows(p, rows)
          /\ \A r \in rows : r.seq # p.seq
          /\ \A v \in Writer \ {w} : \A r \in pending[v] : r.seq # p.seq
    /\ \A p, q \in pending[w] : p = q

\* The arrays are indexed by the writers.
Indexed ==
    /\ DOMAIN wpc = Writer /\ DOMAIN wtx = Writer
    /\ DOMAIN seen = Writer /\ DOMAIN pending = Writer
    /\ tampered \in Nat

ChainInv ==
    /\ Indexed
    /\ tampered = 0 =>
          /\ Linked(rows)
          /\ Linked(durable) /\ durable \subseteq rows
          /\ \A w \in Writer : WriterInv(w)

-----------------------------------------------------------------------------
(* The chain.                                                              *)

\* No hash is the empty one that stands before the first row.
LEMMA HashIsNotEmpty == \A s, t, p : chain_hash(s, t, p) # NoHash
  BY DEF chain_hash, NoHash

\* A table of linked rows passes verify_chain: the row before r in seq order is
\* the one r was linked to.
LEMMA LinkedIsIntact == Linked(rows) => Intact
  <1> SUFFICES ASSUME Linked(rows), NEW r \in rows PROVE Links(r)
    BY DEF Intact, Checked
  <1> DEFINE before == {p \in rows : p.seq < r.seq}
  <1>1. /\ \A p \in rows : p.seq \in Nat \ {0} /\ p.hash = chain_hash(p.seq, p.tx, p.prev)
        /\ \A p, q \in rows : p.seq = q.seq => p = q
    BY DEF Linked, Follows
  <1>2. CASE r.seq = 1 /\ r.prev = NoHash
    <2>1. before = {}
      BY <1>1, <1>2
    <2> QED BY <1>1, <1>2, <2>1 DEF Links, Tail
  <1>3. ASSUME NEW q \in rows, r.seq = q.seq + 1, r.prev = q.hash PROVE Links(r)
    <2>1. q \in before /\ \A p \in before : p.seq <= q.seq
      BY <1>1, <1>3
    <2>2. Tail(before) = {q}
      BY <1>1, <2>1 DEF Tail
    <2>3. r.prev # NoHash
      BY <1>1, <1>3, HashIsNotEmpty
    <2> QED BY <1>1, <1>3, <2>2, <2>3 DEF Links
  <1> QED BY <1>2, <1>3 DEF Linked, Follows

\* A row that follows a table still follows a larger one.
LEMMA FollowsGrows ==
    ASSUME NEW r, NEW S, NEW T, S \subseteq T, Follows(r, S) PROVE Follows(r, T)
  BY DEF Follows

\* A row that follows a linked table under a seq of its own may be added to it.
LEMMA LinkedGrows ==
    ASSUME NEW S, NEW P, Linked(S), \A p \in P : Follows(p, S),
           \A p \in P : \A r \in S : r.seq # p.seq, \A p, q \in P : p = q
    PROVE  Linked(S \union P)
  BY DEF Linked, Follows

\* The row a recording computes from the tail it has seen follows the rows.
LEMMA NextRowFollows ==
    ASSUME NEW w \in Writer, Linked(rows), seen[w] \subseteq rows
    PROVE  Follows(NextRow(w), rows)
  <1>1. CASE seen[w] = {}
    BY <1>1 DEF NextRow, ChainRow, Follows
  <1>2. CASE seen[w] # {}
    <2> DEFINE next == {ChainRow(q.seq + 1, wtx[w], q.hash) : q \in seen[w]}
    <2>1. NextRow(w) = CHOOSE r \in next : TRUE
      BY <1>2 DEF NextRow
    <2>2. PICK q \in seen[w] : NextRow(w) = ChainRow(q.seq + 1, wtx[w], q.hash)
      BY <1>2, <2>1
    <2>3. q \in rows /\ q.seq \in Nat \ {0}
      BY <2>2 DEF Linked, Follows
    <2> QED BY <2>2, <2>3 DEF Follows, ChainRow
  <1> QED BY <1>1, <1>2

-----------------------------------------------------------------------------
(* The invariant is inductive.                                             *)

LEMMA InitChain == Init => ChainInv
  BY DEF Init, ChainInv, Indexed, Linked, WriterInv

\* A step of one recording that leaves the table alone, drops what it has pending
\* or has nothing pending, and at most makes it see committed rows, keeps the
\* invariant.
LEMMA QuietStep ==
    ASSUME ChainInv, UNCHANGED <<rows, durable, tampered>>, Indexed', NEW w \in Writer,
           seen'[w] \subseteq rows \/ seen'[w] = seen[w],
           pending'[w] = {} \/ (wpc[w] # "commit" /\ pending'[w] = pending[w]),
           \A v \in Writer \ {w} :
              seen'[v] = seen[v] /\ pending'[v] = pending[v] /\ wpc'[v] = wpc[v]
    PROVE  ChainInv'
  <1> SUFFICES ASSUME tampered = 0, NEW v \in Writer PROVE WriterInv(v)'
    BY DEF ChainInv
  <1>1. pending'[w] = {}
    BY DEF ChainInv, WriterInv
  <1>2. CASE v = w
    BY <1>1, <1>2 DEF ChainInv, WriterInv
  <1>3. CASE v # w
    BY <1>1, <1>3 DEF ChainInv, WriterInv, Follows
  <1> QED BY <1>2, <1>3

\* The INSERT: the row computed from the tail follows the rows, and the unique
\* index gives it a seq that no other row has, committed or not.
LEMMA InsertStep ==
    ASSUME ChainInv, NEW w \in Writer, Insert(w) PROVE ChainInv'
  <1>1. Indexed' /\ UNCHANGED <<rows, durable, tampered, seen>>
    BY DEF Insert, ChainInv, Indexed, Goto, tableVars, history
  <1> SUFFICES ASSUME tampered = 0 PROVE \A v \in Writer : WriterInv(v)'
    BY <1>1 DEF ChainInv
  <1>2. /\ pending' = [pending EXCEPT ![w] = {NextRow(w)}]
        /\ wpc' = [wpc EXCEPT ![w] = "commit"]
        /\ \A r \in rows \union Uncommitted(w) : r.seq # NextRow(w).seq
    BY DEF Insert, Goto
  <1>3. Follows(NextRow(w), rows)
    BY NextRowFollows DEF ChainInv, WriterInv
  <1>4. \A v \in Writer \ {w} : \A r \in pending[v] : r.seq # NextRow(w).seq
    BY <1>2 DEF Uncommitted
  <1>5. /\ pending'[w] = {NextRow(w)} /\ wpc'[w] = "commit"
        /\ \A v \in Writer \ {w} : pending'[v] = pending[v] /\ wpc'[v] = wpc[v]
    BY <1>2 DEF ChainInv, Indexed
  <1>6. WriterInv(w)'
    BY <1>1, <1>2, <1>3, <1>4, <1>5 DEF ChainInv, WriterInv, Follows
  <1>7. ASSUME NEW v \in Writer \ {w} PROVE WriterInv(v)'
    BY <1>1, <1>2, <1>4, <1>5 DEF ChainInv, WriterInv, Follows
  <1> QED BY <1>6, <1>7

\* The COMMIT: the pending row becomes the end of the chain; the rows other
\* recordings have pending still follow, under seqs of their own.
LEMMA CommitStep ==
    ASSUME ChainInv, NEW w \in Writer, Commit(w) PROVE ChainInv'
  <1>1. Indexed' /\ UNCHANGED tampered
    BY DEF Commit, ChainInv, Indexed, Return, Goto, history
  <1> SUFFICES ASSUME tampered = 0
               PROVE  /\ Linked(rows)' /\ Linked(durable)' /\ durable' \subseteq rows'
                      /\ \A v \in Writer : WriterInv(v)'
    BY <1>1 DEF ChainInv
  <1>2. /\ rows' = rows \union pending[w]
        /\ durable' = rows' \/ durable' = durable
    BY DEF Commit
  <1>3. /\ seen'[w] = {} /\ pending'[w] = {}
        /\ \A v \in Writer \ {w} :
              seen'[v] = seen[v] /\ pending'[v] = pending[v] /\ wpc'[v] = wpc[v]
    BY DEF Commit, Return, Goto, ChainInv, Indexed
  <1>4. Linked(rows')
    BY <1>2, LinkedGrows DEF ChainInv, WriterInv
  <1>5. Linked(durable') /\ durable' \subseteq rows'
    BY <1>2, <1>4 DEF ChainInv
  <1>6. ASSUME NEW v \in Writer \ {w} PROVE WriterInv(v)'
    <2>1. ASSUME NEW p \in pending[v]
          PROVE  Follows(p, rows') /\ \A r \in rows' : r.seq # p.seq
      <3>1. Follows(p, rows')
        BY <1>2, FollowsGrows DEF ChainInv, WriterInv
      <3>2. \A r \in pending[w] : r.seq # p.seq
        BY DEF ChainInv, WriterInv
      <3> QED BY <1>2, <3>1, <3>2 DEF ChainInv, WriterInv
    <2> QED BY <1>2, <1>3, <2>1 DEF ChainInv, WriterInv, Follows
  <1>7. WriterInv(w)'
    BY <1>3 DEF WriterInv
  <1> QED BY <1>4, <1>5, <1>6, <1>7 DEF Linked, Follows

LEMMA StepChain == ChainInv /\ [Next]_vars => ChainInv'
  <1> SUFFICES ASSUME ChainInv, [Next]_vars PROVE ChainInv'
    OBVIOUS
  <1> USE DEF tableVars, writerVars, history, Goto, Return
  <1>1. ASSUME NEW w \in Writer, NEW t \in Tx, BeginImmediate(w, t) PROVE ChainInv'
    BY <1>1, QuietStep DEF BeginImmediate, ChainInv, Indexed
  <1>2. ASSUME NEW w \in Writer, NEW t \in Tx, BeginReadCommitted(w, t) PROVE ChainInv'
    BY <1>2, QuietStep DEF BeginReadCommitted, ChainInv, Indexed
  <1>3. ASSUME NEW w \in Writer, SelectTail(w) PROVE ChainInv'
    BY <1>3, QuietStep DEF SelectTail, Tail, ChainInv, Indexed
  <1>4. ASSUME NEW w \in Writer, LockTail(w) PROVE ChainInv'
    BY <1>4, QuietStep DEF LockTail, ChainInv, Indexed
  <1>5. ASSUME NEW w \in Writer, Insert(w) PROVE ChainInv'
    BY <1>5, InsertStep
  <1>6. ASSUME NEW w \in Writer, InsertViolatesUnique(w) PROVE ChainInv'
    BY <1>6, QuietStep DEF InsertViolatesUnique, ChainInv, Indexed
  <1>7. ASSUME NEW w \in Writer, Commit(w) PROVE ChainInv'
    BY <1>7, CommitStep
  <1>8. ASSUME NEW w \in Writer, Abort(w) PROVE ChainInv'
    BY <1>8, QuietStep DEF Abort, ChainInv, Indexed
  <1>9. ASSUME Checkpoint PROVE ChainInv'
    BY <1>9 DEF Checkpoint, ChainInv, Indexed, WriterInv, Linked
  <1>10. ASSUME PowerLoss PROVE ChainInv'
    BY <1>10 DEF PowerLoss, ChainInv, Indexed, WriterInv, Linked
  <1>11. ASSUME Tamper PROVE ChainInv'
    <2>1. tampered' = tampered + 1 /\ UNCHANGED writerVars
      BY <1>11 DEF Tamper
    <2>2. tampered' # 0 /\ Indexed'
      BY <2>1 DEF ChainInv, Indexed
    <2> QED BY <2>2 DEF ChainInv
  <1>12. ASSUME UNCHANGED vars PROVE ChainInv'
    BY <1>12 DEF vars, ChainInv, Indexed, WriterInv, Linked, Follows
  <1> QED
    BY <1>1, <1>2, <1>3, <1>4, <1>5, <1>6, <1>7, <1>8, <1>9, <1>10, <1>11, <1>12
       DEF Next, WriterStep

\* As long as nobody else changes the table, verify_chain passes every row,
\* however recordings interleave, fail or lose power: concurrent recordings never
\* fork the chain or leave a hole in it.
THEOREM ChainStaysIntact == Spec => []HealthyChainIntact
  <1>1. ChainInv => HealthyChainIntact
    BY LinkedIsIntact DEF ChainInv, HealthyChainIntact
  <1> QED BY <1>1, InitChain, StepChain, PTL DEF Spec

-----------------------------------------------------------------------------
(* The locks.                                                              *)

\* Only a recording about to commit has a row in the unique index.
LockInv ==
    /\ DOMAIN wpc = Writer /\ DOMAIN pending = Writer
    /\ \A w \in Writer : wpc[w] \in {"idle", "select", "lock", "insert", "commit"}
    /\ \A w \in Writer : pending[w] # {} => wpc[w] = "commit"

LEMMA StepLocks == LockInv /\ [Next]_vars => LockInv'
  <1> SUFFICES ASSUME LockInv, [Next]_vars PROVE LockInv'
    OBVIOUS
  <1> USE DEF LockInv, tableVars, writerVars, history, Goto, Return
  <1>1. ASSUME NEW w \in Writer, NEW t \in Tx, BeginImmediate(w, t) \/ BeginReadCommitted(w, t)
        PROVE  LockInv'
    BY <1>1 DEF BeginImmediate, BeginReadCommitted
  <1>2. ASSUME NEW w \in Writer, SelectTail(w) \/ LockTail(w) PROVE LockInv'
    BY <1>2 DEF SelectTail, LockTail
  <1>3. ASSUME NEW w \in Writer, Insert(w) PROVE LockInv'
    BY <1>3 DEF Insert
  <1>4. ASSUME NEW w \in Writer, InsertViolatesUnique(w) \/ Commit(w) \/ Abort(w) PROVE LockInv'
    BY <1>4 DEF InsertViolatesUnique, Commit, Abort
  <1>5. CASE Checkpoint \/ PowerLoss \/ Tamper
    BY <1>5 DEF Checkpoint, PowerLoss, Tamper
  <1>6. CASE UNCHANGED vars
    BY <1>6 DEF vars
  <1> QED BY <1>1, <1>2, <1>3, <1>4, <1>5, <1>6 DEF Next, WriterStep

\* Who waits for a row's lock waits for an INSERT or a COMMIT, who waits in an INSERT
\* waits for a COMMIT, and a COMMIT waits for nobody.
LEMMA SomebodyGoesOn == LockInv => NoDeadlock
  <1> SUFFICES ASSUME LockInv, NEW w \in Writer, wpc[w] # "idle"
               PROVE  \E v \in Writer : CanGoOn(v)
    BY DEF NoDeadlock
  <1>1. CASE \E v \in Writer : wpc[v] \in {"select", "commit"}
    BY <1>1 DEF CanGoOn
  <1>2. ASSUME NEW v \in Writer, wpc[v] = "insert", \A u \in Writer : wpc[u] # "commit"
        PROVE  CanGoOn(v)
    <2>1. Uncommitted(v) = {}
      BY <1>2 DEF LockInv, Uncommitted
    <2> QED BY <1>2, <2>1 DEF CanGoOn
  <1>3. CASE \A v \in Writer : wpc[v] \in {"idle", "lock"}
    BY <1>3 DEF CanGoOn, TailIsFree
  <1> QED BY <1>1, <1>2, <1>3 DEF LockInv

\* postgres.rs, transactions.rs: any number of recordings, on stale tails or fresh ones,
\* with aborts, power losses and a table changed behind their back, never all wait.
THEOREM RecordingsNeverDeadlock == Spec => []NoDeadlock
  <1>1. Init => LockInv
    BY DEF Init, LockInv
  <1> QED BY <1>1, StepLocks, SomebodyGoesOn, PTL DEF Spec

-----------------------------------------------------------------------------
(* What verify_chain passes is authentic, whatever was done to the table.  *)

\* A row as a recording makes it.
Made(r) == \E s \in Nat \ {0} : \E t, p : r = ChainRow(s, t, p)

\* A row as somebody else may leave it: with a hash that was in the table.
Found(r) ==
    \E s \in Nat \ {0}, h \in KnownHash : \E t, p :
        r = [seq |-> s, tx |-> t, prev |-> p, hash |-> h]

ForgeryInv ==
    /\ Indexed
    /\ \A r \in written : Made(r)
    /\ \A r \in rows \union durable : Found(r)
    /\ \A w \in Writer : \A p \in pending[w] : Made(p)
    /\ \A w \in Writer : \A q \in seen[w] : q.seq \in Nat \ {0}

\* A row that passes has a hash some written row has, hence all its fields.
LEMMA AuthenticRows == ForgeryInv => CheckedIsAuthentic
  <1> SUFFICES ASSUME ForgeryInv, NEW r \in Checked PROVE r \in written
    BY DEF CheckedIsAuthentic
  <1>0. r \in rows /\ Links(r)
    <2>1. r \in rows /\ r.seq \in Int
      BY DEF Checked, ForgeryInv, Found
    <2> QED BY <2>1 DEF Checked
  <1>1. r.hash = chain_hash(r.seq, r.tx, r.prev) /\ r.hash # NoHash
    BY <1>0, HashIsNotEmpty DEF Links
  <1>2. PICK q \in written : r.hash = q.hash
    <2>1. r.hash \in KnownHash
      BY <1>0 DEF ForgeryInv, Found
    <2> QED BY <1>1, <2>1 DEF KnownHash
  <1>3. PICK s, t, p : q = ChainRow(s, t, p)
    BY DEF ForgeryInv, Made
  <1>4. PICK s1, t1, p1, h : r = [seq |-> s1, tx |-> t1, prev |-> p1, hash |-> h]
    BY <1>0 DEF ForgeryInv, Found
  <1>5. h = chain_hash(s, t, p) /\ h = chain_hash(s1, t1, p1)
    BY <1>1, <1>2, <1>3, <1>4 DEF ChainRow
  <1>6. s = s1 /\ t = t1 /\ p = p1
    BY <1>5 DEF chain_hash
  <1>7. r = q
    BY <1>3, <1>4, <1>5, <1>6 DEF ChainRow
  <1> QED BY <1>7

\* The row a recording inserts is made with the key.
LEMMA NextRowMade == ForgeryInv => \A w \in Writer : Made(NextRow(w))
  <1> SUFFICES ASSUME ForgeryInv, NEW w \in Writer PROVE Made(NextRow(w))
    OBVIOUS
  <1>1. \A s \in Nat \ {0} : \A t, p : Made(ChainRow(s, t, p))
    BY DEF Made, ChainRow
  <1>2. CASE seen[w] = {}
    BY <1>1, <1>2 DEF NextRow
  <1>3. CASE seen[w] # {}
    <2> DEFINE next == {ChainRow(q.seq + 1, wtx[w], q.hash) : q \in seen[w]}
    <2>1. NextRow(w) = CHOOSE r \in next : TRUE
      BY <1>3 DEF NextRow
    <2>2. PICK q \in seen[w] : NextRow(w) = ChainRow(q.seq + 1, wtx[w], q.hash)
      BY <1>3, <2>1
    <2>3. q.seq + 1 \in Nat \ {0}
      BY DEF ForgeryInv
    <2> QED BY <1>1, <2>2, <2>3
  <1> QED BY <1>2, <1>3

LEMMA InitForgery == Init => ForgeryInv
  BY DEF Init, ForgeryInv, Indexed

\* Somebody else removes a row, edits one or adds one; no step but a recording's
\* makes a new hash.
LEMMA StepForgery == ForgeryInv /\ [Next]_vars => ForgeryInv'
  <1> SUFFICES ASSUME ForgeryInv, [Next]_vars PROVE ForgeryInv'
    OBVIOUS
  <1> USE DEF ForgeryInv, Indexed, Found, KnownHash, tableVars, writerVars, history,
              Goto, Return
  <1>1. ASSUME NEW w \in Writer, NEW t \in Tx, BeginImmediate(w, t) PROVE ForgeryInv'
    BY <1>1 DEF BeginImmediate, Made
  <1>2. ASSUME NEW w \in Writer, NEW t \in Tx, BeginReadCommitted(w, t) PROVE ForgeryInv'
    BY <1>2 DEF BeginReadCommitted, Made
  <1>3. ASSUME NEW w \in Writer, SelectTail(w) PROVE ForgeryInv'
    BY <1>3 DEF SelectTail, Tail, Made
  <1>4. ASSUME NEW w \in Writer, LockTail(w) PROVE ForgeryInv'
    BY <1>4 DEF LockTail, Made
  <1>5. ASSUME NEW w \in Writer, Insert(w) PROVE ForgeryInv'
    <2>1. \A v \in Writer : \A p \in pending'[v] : Made(p)
      BY <1>5, NextRowMade DEF Insert
    <2> QED BY <1>5, <2>1 DEF Insert, Made
  <1>6. ASSUME NEW w \in Writer, InsertViolatesUnique(w) PROVE ForgeryInv'
    BY <1>6 DEF InsertViolatesUnique, Made
  <1>7. ASSUME NEW w \in Writer, Commit(w) PROVE ForgeryInv'
    <2>1. /\ rows' = rows \union pending[w] /\ written' = written \union pending[w]
          /\ durable' = rows' \/ durable' = durable
          /\ UNCHANGED tampered
          /\ pending' = [pending EXCEPT ![w] = {}]
          /\ seen' = [seen EXCEPT ![w] = {}]
          /\ DOMAIN wpc' = Writer /\ DOMAIN wtx' = Writer
          /\ DOMAIN seen' = Writer /\ DOMAIN pending' = Writer
      BY <1>7 DEF Commit
    <2>2. \A r \in written' : Made(r)
      BY <2>1 DEF Made
    <2>3. KnownHash \subseteq KnownHash'
      BY <2>1
    <2>4. \A p \in pending[w] : Found(p)'
      BY <2>1 DEF Made, ChainRow
    <2>5. \A r \in rows \union durable : Found(r)'
      BY <2>3
    <2>6. \A v \in Writer : \A p \in pending'[v] : Made(p)
      BY <2>1 DEF Made
    <2>7. \A v \in Writer : \A q \in seen'[v] : q.seq \in Nat \ {0}
      BY <2>1
    <2>8. \A r \in (rows \union durable)' : Found(r)'
      BY <2>1, <2>4, <2>5
    <2> HIDE DEF Found, KnownHash
    <2> QED BY <2>1, <2>2, <2>6, <2>7, <2>8 DEF Made
  <1>8. ASSUME NEW w \in Writer, Abort(w) PROVE ForgeryInv'
    BY <1>8 DEF Abort, Made
  <1>9. ASSUME Checkpoint \/ PowerLoss PROVE ForgeryInv'
    BY <1>9 DEF Checkpoint, PowerLoss, Made
  <1>10. ASSUME Tamper PROVE ForgeryInv'
    <2>1. /\ UNCHANGED <<written, writerVars>> /\ tampered' = tampered + 1
          /\ durable' = rows'
      BY <1>10 DEF Tamper
    <2>2. \A r \in rows' : Found(r)
      BY <1>10 DEF Tamper
    <2> QED BY <2>1, <2>2 DEF Made
  <1>11. ASSUME UNCHANGED vars PROVE ForgeryInv'
    BY <1>11 DEF vars, Made
  <1> QED
    BY <1>1, <1>2, <1>3, <1>4, <1>5, <1>6, <1>7, <1>8, <1>9, <1>10, <1>11
       DEF Next, WriterStep

\* However the table is changed, by however many changes, a row that verify_chain
\* passes is one the daemon wrote.
THEOREM PassedIsAuthentic == Spec => []CheckedIsAuthentic
  BY InitForgery, StepForgery, AuthenticRows, PTL DEF Spec

-----------------------------------------------------------------------------
(* What verify_chain passes has no gap.                                    *)

OneRowPerSeq(log) == \A r, q \in log : r.seq = q.seq => r = q

\* The unique index: what a recording has inserted has a seq that neither the
\* committed rows nor another recording has.
PendingIsNew(w) ==
    \A p \in pending[w] :
        /\ wpc[w] = "commit"
        /\ \A q \in pending[w] : p = q
        /\ \A r \in rows : r.seq # p.seq
        /\ \A v \in Writer \ {w} : \A r \in pending[v] : r.seq # p.seq

\* Unlike WriterInv this does not depend on what was changed meanwhile.
SeqInv ==
    /\ OneRowPerSeq(rows) /\ OneRowPerSeq(durable)
    /\ \A w \in Writer : PendingIsNew(w)

\* A row that passes is the first, or the row with the number before its own
\* passes too: its prev_chain_hash is the hash of a row that carries that number.
LEMMA PassedHasPredecessor ==
    ASSUME ForgeryInv, \A r \in written : OnWritten(r), NEW r \in Checked, r.seq # 1
    PROVE  \E q \in Checked : q.seq = r.seq - 1
  <1> DEFINE before == {p \in rows : p.seq < r.seq}
  <1>1. /\ \A q \in rows : q.seq \in Nat \ {0}
        /\ \A q \in written : Made(q)
        /\ Checked \subseteq written
    BY AuthenticRows DEF ForgeryInv, Found, CheckedIsAuthentic
  <1>2. r \in rows /\ Links(r)
    BY <1>1 DEF Checked
  <1>3. PICK p \in written : r.prev = p.hash /\ r.seq = p.seq + 1
    BY <1>1 DEF OnWritten
  <1>4. \A q \in written : q.hash = chain_hash(q.seq, q.tx, q.prev) /\ q.hash # NoHash
    BY <1>1, HashIsNotEmpty DEF Made, ChainRow
  <1>5. PICK q \in Tail(before) : q.hash = p.hash
    BY <1>2, <1>3, <1>4 DEF Links
  <1>6. q \in rows /\ q.seq < r.seq
    BY <1>5 DEF Tail
  <1>7. q \in Checked
    BY <1>1, <1>2, <1>6 DEF Checked
  <1>8. chain_hash(q.seq, q.tx, q.prev) = chain_hash(p.seq, p.tx, p.prev)
    BY <1>1, <1>4, <1>5, <1>7
  <1>9. q.seq = p.seq
    BY <1>8 DEF chain_hash
  <1>10. p.seq \in Nat
    BY <1>1, <1>6, <1>9
  <1> QED BY <1>3, <1>7, <1>9, <1>10

\* So the numbers of the rows that pass are 1, 2, 3 and so on, each once.
LEMMA PassedAreNumbered == ForgeryInv /\ SeqInv => CheckedIsGapless
  <1> SUFFICES ASSUME ForgeryInv, SeqInv, \A q \in written : OnWritten(q), NEW r \in Checked
               PROVE  r.seq = Cardinality({q \in Checked : q.seq <= r.seq})
    BY DEF CheckedIsGapless
  <1> DEFINE upTo == {q \in Checked : q.seq <= r.seq}
  <1>1. \A q \in Checked : q \in rows /\ q.seq \in Nat \ {0}
    BY DEF Checked, ForgeryInv, Found
  <1>2. \A s \in 1 .. r.seq : \E q \in upTo : q.seq = s
    <2> DEFINE missing == {k \in Nat : k < r.seq /\ ~ \E q \in Checked : q.seq = r.seq - k}
    <2>1. missing = {}
      <3> SUFFICES ASSUME missing # {} PROVE FALSE
        OBVIOUS
      <3>1. PICK k \in missing : \A j \in missing : k <= j
        BY LeastExists
      <3>2. k # 0
        BY <1>1, <3>1
      <3>3. k - 1 \in Nat /\ k - 1 < r.seq /\ k - 1 \notin missing
        BY <1>1, <3>1, <3>2
      <3>4. PICK q \in Checked : q.seq = r.seq - (k - 1)
        BY <3>3
      <3>5. q.seq # 1
        BY <1>1, <3>1, <3>4
      <3>6. \E p \in Checked : p.seq = q.seq - 1
        BY <3>5, PassedHasPredecessor
      <3>7. q.seq - 1 = r.seq - k
        BY <1>1, <3>1, <3>4
      <3> QED BY <3>1, <3>6, <3>7
    <2>2. ASSUME NEW s \in 1 .. r.seq PROVE \E q \in upTo : q.seq = s
      <3>1. r.seq - s \in Nat /\ r.seq - s < r.seq /\ r.seq - (r.seq - s) = s
        BY <1>1
      <3>2. r.seq - s \notin missing
        BY <2>1
      <3>3. \E q \in Checked : q.seq = s
        BY <3>1, <3>2
      <3> QED BY <1>1, <3>3
    <2> QED BY <2>2
  <1>3. \A q \in upTo : q.seq \in 1 .. r.seq
    BY <1>1
  <1>4. \A p, q \in upTo : p.seq = q.seq => p = q
    BY <1>1 DEF SeqInv, OneRowPerSeq
  <1>5. r.seq \in Nat
    BY <1>1
  <1> HIDE DEF upTo
  <1>6. Cardinality(upTo) = r.seq
    BY <1>2, <1>3, <1>4, <1>5, NumberedCounts
  <1> QED BY <1>6 DEF upTo

LEMMA InitSeq == Init => SeqInv
  BY DEF Init, SeqInv, OneRowPerSeq, PendingIsNew

\* The INSERT is the only step that chooses a seq, and the index checks it.
LEMMA InsertSeq ==
    ASSUME ForgeryInv, SeqInv, NEW w \in Writer, Insert(w) PROVE SeqInv'
  <1>1. /\ UNCHANGED <<rows, durable>>
        /\ \A r \in rows \union Uncommitted(w) : r.seq # NextRow(w).seq
        /\ pending'[w] = {NextRow(w)} /\ wpc'[w] = "commit"
        /\ \A v \in Writer \ {w} : pending'[v] = pending[v] /\ wpc'[v] = wpc[v]
    BY DEF Insert, Goto, tableVars, ForgeryInv, Indexed
  <1>2. \A v \in Writer \ {w} : \A r \in pending[v] : r.seq # NextRow(w).seq
    BY <1>1 DEF Uncommitted
  <1>3. PendingIsNew(w)'
    BY <1>1, <1>2 DEF PendingIsNew
  <1>4. ASSUME NEW v \in Writer \ {w} PROVE PendingIsNew(v)'
    BY <1>1, <1>2 DEF SeqInv, PendingIsNew
  <1> QED BY <1>1, <1>3, <1>4 DEF SeqInv, OneRowPerSeq

\* Any other step of a recording that commits nothing leaves what is pending, or
\* drops it.
LEMMA QuietSeq ==
    ASSUME SeqInv, NEW w \in Writer, UNCHANGED <<rows, durable>>,
           pending'[w] = {} \/ (wpc[w] # "commit" /\ pending'[w] = pending[w]),
           \A v \in Writer \ {w} : pending'[v] = pending[v] /\ wpc'[v] = wpc[v]
    PROVE  SeqInv'
  <1>1. pending'[w] = {}
    BY DEF SeqInv, PendingIsNew
  <1>2. PendingIsNew(w)'
    BY <1>1 DEF PendingIsNew
  <1>3. ASSUME NEW v \in Writer \ {w} PROVE PendingIsNew(v)'
    BY <1>1 DEF SeqInv, PendingIsNew
  <1> QED BY <1>2, <1>3 DEF SeqInv, OneRowPerSeq

LEMMA CommitSeq ==
    ASSUME ForgeryInv, SeqInv, NEW w \in Writer, Commit(w) PROVE SeqInv'
  <1>1. /\ rows' = rows \union pending[w]
        /\ durable' = rows' \/ durable' = durable
        /\ pending'[w] = {}
        /\ \A v \in Writer \ {w} : pending'[v] = pending[v] /\ wpc'[v] = wpc[v]
    BY DEF Commit, Return, Goto, ForgeryInv, Indexed
  <1>2. OneRowPerSeq(rows') /\ OneRowPerSeq(durable')
    BY <1>1 DEF SeqInv, OneRowPerSeq, PendingIsNew
  <1>3. ASSUME NEW v \in Writer PROVE PendingIsNew(v)'
    BY <1>1 DEF SeqInv, PendingIsNew
  <1> QED BY <1>2, <1>3 DEF SeqInv, OneRowPerSeq

\* What somebody else may do to the rows.
LEMMA TamperKinds ==
    ASSUME Tamper
    PROVE  \/ \E r \in rows : rows' = rows \ {r}
           \/ \E r \in rows, t \in Tx : rows' = (rows \ {r}) \union {[r EXCEPT !.tx = t]}
           \/ \E s \in Nat : \E t, prev, hash :
                /\ \A r \in rows : r.seq # s
                /\ rows' = rows \union {[seq |-> s, tx |-> t, prev |-> prev, hash |-> hash]}
  <1>1. CASE \E r \in rows : rows' = rows \ {r}
    BY <1>1
  <1>2. CASE \E r \in rows, t \in Tx : rows' = (rows \ {r}) \union {[r EXCEPT !.tx = t]}
    BY <1>2
  <1>3. CASE \E s \in 1 .. (Cardinality(Tx) + 1), t \in Tx, prev, hash \in KnownHash :
               /\ \A r \in rows : r.seq # s
               /\ rows' = rows \union {[seq |-> s, tx |-> t, prev |-> prev, hash |-> hash]}
    <2>1. PICK s \in 1 .. (Cardinality(Tx) + 1), t \in Tx, prev \in KnownHash, hash \in KnownHash :
               /\ \A r \in rows : r.seq # s
               /\ rows' = rows \union {[seq |-> s, tx |-> t, prev |-> prev, hash |-> hash]}
      BY <1>3
    <2>2. s \in Nat
      OBVIOUS
    <2> QED BY <2>1, <2>2, Zenon
  <1> QED BY <1>1, <1>2, <1>3, Zenon DEF Tamper

\* seq is unique for whoever changes the table, too.
LEMMA TamperSeq == ASSUME ForgeryInv, SeqInv, Tamper PROVE SeqInv'
  <1>1. durable' = rows' /\ UNCHANGED writerVars /\ \A w \in Writer : wpc[w] = "idle"
    BY DEF Tamper
  <1>2. \A w \in Writer : pending'[w] = {}
    BY <1>1 DEF writerVars, SeqInv, PendingIsNew
  <1>3. OneRowPerSeq(rows')
    <2>1. ASSUME NEW r \in rows, rows' = rows \ {r} PROVE OneRowPerSeq(rows')
      BY <2>1 DEF SeqInv, OneRowPerSeq
    <2>2. ASSUME NEW r \in rows, NEW t \in Tx,
                 rows' = (rows \ {r}) \union {[r EXCEPT !.tx = t]}
          PROVE  OneRowPerSeq(rows')
      <3> DEFINE q == [r EXCEPT !.tx = t]
      <3>1. q.seq = r.seq
        BY DEF ForgeryInv, Found
      <3>2. rows' = (rows \ {r}) \union {q}
        BY <2>2
      <3>3. \A a, b \in rows : a.seq = b.seq => a = b
        BY DEF SeqInv, OneRowPerSeq
      <3> HIDE DEF q
      <3> QED BY <3>1, <3>2, <3>3 DEF OneRowPerSeq
    <2>3. ASSUME NEW s \in Nat, NEW t, NEW prev, NEW hash, \A r \in rows : r.seq # s,
                 rows' = rows \union {[seq |-> s, tx |-> t, prev |-> prev, hash |-> hash]}
          PROVE  OneRowPerSeq(rows')
      BY <2>3 DEF SeqInv, OneRowPerSeq
    <2> QED BY <2>1, <2>2, <2>3, TamperKinds
  <1> QED BY <1>1, <1>2, <1>3 DEF SeqInv, OneRowPerSeq, PendingIsNew

LEMMA StepSeq == ForgeryInv /\ SeqInv /\ [Next]_vars => SeqInv'
  <1> SUFFICES ASSUME ForgeryInv, SeqInv, [Next]_vars PROVE SeqInv'
    OBVIOUS
  <1> USE DEF tableVars, writerVars, history, Goto, Return, ForgeryInv, Indexed
  <1>1. ASSUME NEW w \in Writer, NEW t \in Tx,
               BeginImmediate(w, t) \/ BeginReadCommitted(w, t) PROVE SeqInv'
    BY <1>1, QuietSeq DEF BeginImmediate, BeginReadCommitted
  <1>2. ASSUME NEW w \in Writer, SelectTail(w) \/ LockTail(w) PROVE SeqInv'
    BY <1>2, QuietSeq DEF SelectTail, LockTail
  <1>3. ASSUME NEW w \in Writer, InsertViolatesUnique(w) \/ Abort(w) PROVE SeqInv'
    BY <1>3, QuietSeq DEF InsertViolatesUnique, Abort
  <1>4. ASSUME Checkpoint \/ PowerLoss PROVE SeqInv'
    BY <1>4 DEF Checkpoint, PowerLoss, SeqInv, OneRowPerSeq, PendingIsNew
  <1>5. ASSUME UNCHANGED vars PROVE SeqInv'
    BY <1>5 DEF vars, SeqInv, OneRowPerSeq, PendingIsNew
  <1> QED
    BY <1>1, <1>2, <1>3, <1>4, <1>5, InsertSeq, CommitSeq, TamperSeq DEF Next, WriterStep

\* However the table is changed, the rows verify_chain passes are numbered without
\* a gap or a repetition, as long as every row of the daemon's stands on a row of
\* the daemon's.
THEOREM PassedIsGapless == Spec => []CheckedIsGapless
  BY InitForgery, StepForgery, InitSeq, StepSeq, PassedAreNumbered, PTL DEF Spec

-----------------------------------------------------------------------------
(* The chain only grows at its end.                                        *)

\* The rows of the table are numbered from 1.
Numbered(log) ==
    \E n \in Nat : /\ \A r \in log : r.seq \in 1 .. n
                   /\ \A s \in 1 .. n : \E r \in log : r.seq = s

NumberedInv == tampered = 0 => Numbered(rows) /\ Numbered(durable)

\* A row that follows a numbered chain under a new number has the next one.
LEMMA NumberedLast ==
    ASSUME NEW S, Linked(S), Numbered(S), NEW p, Follows(p, S), \A r \in S : r.seq # p.seq
    PROVE  /\ Numbered(S \union {p})
           /\ p.seq = Cardinality(S \union {p})
  <1>1. PICK n \in Nat : /\ \A r \in S : r.seq \in 1 .. n
                         /\ \A s \in 1 .. n : \E r \in S : r.seq = s
    BY DEF Numbered
  <1>2. p.seq = n + 1
    BY <1>1 DEF Follows
  <1>3. /\ \A r \in S \union {p} : r.seq \in 1 .. (n + 1)
        /\ \A s \in 1 .. (n + 1) : \E r \in S \union {p} : r.seq = s
        /\ \A r, q \in S \union {p} : r.seq = q.seq => r = q
    BY <1>1, <1>2 DEF Linked
  <1>4. Cardinality(S \union {p}) = n + 1
    <2>1. \A T : \A m \in Nat :
             /\ \A r \in T : r.seq \in 1 .. m
             /\ \A s \in 1 .. m : \E r \in T : r.seq = s
             /\ \A r, q \in T : r.seq = q.seq => r = q
             => Cardinality(T) = m
      BY NumberedCounts
    <2>2. n + 1 \in Nat
      OBVIOUS
    <2> QED BY <1>3, <2>1, <2>2
  <1> QED BY <1>2, <1>3, <1>4 DEF Numbered

\* What a COMMIT does to a chain nobody else has changed.
LEMMA CommitAppends ==
    ASSUME ChainInv, NumberedInv, NEW w \in Writer, Commit(w), tampered = 0
    PROVE  /\ Numbered(rows') /\ Numbered(durable')
           /\ rows \subseteq rows' /\ \A r \in rows' \ rows : r.seq = Cardinality(rows')
  <1>1. rows' = rows \union pending[w] /\ (durable' = rows' \/ durable' = durable)
    BY DEF Commit
  <1>2. CASE pending[w] = {}
    BY <1>1, <1>2 DEF NumberedInv
  <1>3. ASSUME NEW p \in pending[w]
        PROVE  /\ Numbered(rows') /\ Numbered(durable')
               /\ rows \subseteq rows' /\ \A r \in rows' \ rows : r.seq = Cardinality(rows')
    <2>1. Linked(rows) /\ Follows(p, rows) /\ \A r \in rows : r.seq # p.seq
      BY DEF ChainInv, WriterInv
    <2>2. pending[w] = {p}
      BY DEF ChainInv, WriterInv
    <2>3. Numbered(rows \union {p}) /\ p.seq = Cardinality(rows \union {p})
      BY <2>1, NumberedLast DEF NumberedInv
    <2>4. rows' = rows \union {p}
      BY <1>1, <2>2
    <2> QED BY <1>1, <2>3, <2>4 DEF NumberedInv
  <1> QED BY <1>2, <1>3

LEMMA InitNumbered == Init => NumberedInv
  <1>1. Numbered({})
    BY DEF Numbered
  <1> QED BY <1>1 DEF Init, NumberedInv

\* Only a COMMIT, a synchronisation, a power loss and somebody else change the table.
LEMMA TableChanges ==
    ASSUME [Next]_vars, ChainInv, tampered' = 0
    PROVE  /\ tampered = 0
           /\ \/ UNCHANGED <<rows, durable>>
              \/ \E w \in Writer : Commit(w)
              \/ rows' = rows /\ durable' = rows
              \/ "power" \in Faults /\ rows' = durable /\ durable' = durable
  <1> USE DEF tableVars, writerVars, history, Return
  <1>1. CASE Tamper
    BY <1>1 DEF Tamper, ChainInv, Indexed
  <1>2. ASSUME NEW w \in Writer, NEW t \in Tx,
               BeginImmediate(w, t) \/ BeginReadCommitted(w, t)
        PROVE  UNCHANGED <<tampered, rows, durable>>
    BY <1>2 DEF BeginImmediate, BeginReadCommitted
  <1>3. ASSUME NEW w \in Writer, WriterStep(w) \/ Abort(w)
        PROVE  tampered' = tampered /\ (Commit(w) \/ UNCHANGED <<rows, durable>>)
    BY <1>3 DEF WriterStep, SelectTail, LockTail, Insert, InsertViolatesUnique, Commit, Abort
  <1>4. CASE Checkpoint
    BY <1>4 DEF Checkpoint
  <1>5. CASE PowerLoss
    BY <1>5 DEF PowerLoss
  <1>6. CASE UNCHANGED vars
    BY <1>6 DEF vars
  <1> QED BY <1>1, <1>2, <1>3, <1>4, <1>5, <1>6 DEF Next

LEMMA StepNumbered == ChainInv /\ NumberedInv /\ [Next]_vars => NumberedInv'
  <1> SUFFICES ASSUME ChainInv, NumberedInv, [Next]_vars, tampered' = 0
               PROVE  Numbered(rows') /\ Numbered(durable')
    BY DEF NumberedInv, Numbered
  <1>1. tampered = 0
    BY TableChanges
  <1>2. ASSUME NEW w \in Writer, Commit(w) PROVE Numbered(rows') /\ Numbered(durable')
    BY <1>1, <1>2, CommitAppends
  <1>3. Numbered(rows) /\ Numbered(durable)
    BY <1>1 DEF NumberedInv
  <1> QED BY <1>2, <1>3, TableChanges

\* A recording adds one row, at the end; a power loss cuts rows off the end.
LEMMA StepAppends ==
    ASSUME ChainInv, NumberedInv, [Next]_vars, tampered' = 0
    PROVE  \/ rows \subseteq rows' /\ \A r \in rows' \ rows : r.seq = Cardinality(rows')
           \/ "power" \in Faults /\ rows' = {r \in rows : r.seq <= Cardinality(rows')}
  <1>1. tampered = 0
    BY TableChanges
  <1>2. ASSUME NEW w \in Writer, Commit(w)
        PROVE  rows \subseteq rows' /\ \A r \in rows' \ rows : r.seq = Cardinality(rows')
    BY <1>1, <1>2, CommitAppends
  <1>3. ASSUME rows' = durable
        PROVE  rows' = {r \in rows : r.seq <= Cardinality(rows')}
    <2>1. /\ durable \subseteq rows /\ Numbered(durable)
          /\ \A r, q \in rows : r.seq = q.seq => r = q
          /\ \A r \in rows : r.seq \in Nat \ {0}
      BY <1>1 DEF ChainInv, NumberedInv, Linked, Follows
    <2>2. PICK n \in Nat : /\ \A r \in durable : r.seq \in 1 .. n
                           /\ \A s \in 1 .. n : \E r \in durable : r.seq = s
      BY <2>1 DEF Numbered
    <2>3. Cardinality(durable) = n
      BY <2>1, <2>2, NumberedCounts
    <2>4. ASSUME NEW r \in rows PROVE r \in durable <=> r.seq <= n
      <3>1. ASSUME r.seq <= n PROVE r \in durable
        <4>1. r.seq \in 1 .. n
          BY <2>1, <3>1
        <4> QED BY <2>1, <2>2, <4>1
      <3> QED BY <2>2, <3>1
    <2> QED BY <1>3, <2>1, <2>3, <2>4
  <1> QED BY <1>2, <1>3, TableChanges

\* As long as nobody else changes the log, a row once committed stays as it is and
\* where it is, except that a power loss may cut off the newest.
THEOREM LogOnlyGrows == Spec => AppendOnly
  <1>1. ChainInv /\ NumberedInv /\ [Next]_vars =>
           [tampered' = 0 =>
              \/ rows \subseteq rows' /\ \A r \in rows' \ rows : r.seq = Cardinality(rows')
              \/ "power" \in Faults /\ rows' = {r \in rows : r.seq <= Cardinality(rows')}]_vars
    BY StepAppends
  <1> QED
    BY <1>1, InitChain, StepChain, InitNumbered, StepNumbered, PTL DEF Spec, AppendOnly

-----------------------------------------------------------------------------
(* The key file.  One key signs the chain, and no verifier calls it broken *)
(* without cause: for any number of daemons and verifiers that start, race *)
(* and die, and any number of interventions of the operator.               *)

KeyTypeOK ==
    /\ keyFile \in [key : Nat, written : BOOLEAN, private : BOOLEAN]
    /\ step \in [Process -> {"down", "ready", "load", "generate", "write", "stat", "read",
                             "open", "up", "verify", "done"}]
    /\ held \in [Process -> Nat]
    /\ DOMAIN verdict = Verifier
    /\ keys \in Nat
    /\ orphaned \in BOOLEAN

\* Keys count from one: a file that is there holds one of them.
FileHoldsKey == keyFile.key = 0 => keyFile = NoFile

\* Where a process has a key, and where it cannot have one yet; only a verifier verifies.
KeyInHand ==
    \A p \in Process :
        /\ step[p] \in {"down", "ready", "load", "generate"} => held[p] = 0
        /\ step[p] \in {"write", "open", "up", "verify"} => held[p] # 0
        /\ step[p] = "verify" => p \in Verifier

\* As long as no key in use was removed, whoever runs holds the key of the file,
\* and the rows were signed with it.
OneKey ==
    orphaned \/
    /\ Signers \subseteq {keyFile.key}
    /\ \A p \in Process : Running(p) /\ held[p] # 0 => held[p] = keyFile.key

KeyInv == KeyTypeOK /\ FileHoldsKey /\ KeyInHand /\ OneKey /\ VerdictIsFair

-----------------------------------------------------------------------------
(* The verdicts.                                                           *)

\* No tool reports another outcome the way it reports a broken chain.
LEMMA OnlyBrokenReportsBroken ==
    ASSUME NEW outcome \in {"intact", "cannot_verify"}
    PROVE  ReportsOf(outcome) \intersect ReportsOf("broken") = {}
  BY DEF ReportsOf, ExitCode, ReportStatus, DoctorStatus

\* A report keeps the verdicts fair unless it calls a sound chain broken.
LEMMA FairReport ==
    ASSUME KeyTypeOK, VerdictIsFair, NEW v \in Verifier, orphaned => orphaned',
           NEW outcome \in {"intact", "broken", "cannot_verify"}, Report(v, outcome),
           outcome = "broken" => orphaned
    PROVE  VerdictIsFair'
  <1>1. PICK report \in ReportsOf(outcome) : verdict' = [verdict EXCEPT ![v] = report]
    BY DEF Report
  <1>2. report \in ReportsOf("broken") => orphaned
    BY <1>1, OnlyBrokenReportsBroken
  <1> QED BY <1>1, <1>2 DEF KeyTypeOK, VerdictIsFair

-----------------------------------------------------------------------------
(* The steps.                                                              *)

\* KeyInv holds at the start.
LEMMA KeyInitInv ==
    ASSUME KeyInit PROVE KeyInv
  <1> USE DEF KeyInit, NoFile
  <1>1. KeyTypeOK
    BY DEF KeyTypeOK
  <1>2. VerdictIsFair
    BY DEF VerdictIsFair, ReportsOf
  <1> QED BY <1>1, <1>2
          DEF KeyInv, FileHoldsKey, KeyInHand, OneKey, Signers, NoTable, Running

LEMMA LookForKeyKeeps ==
    ASSUME KeyInv, NEW p \in Process, LookForKey(p)
    PROVE  KeyInv'
  <1> USE KeyFileAssumption DEF KeyInv, KeyTypeOK, Process, LookForKey, MoveTo, Exists,
          NoFile, Trouble
  <1>1. KeyTypeOK'
    OBVIOUS
  <1>2. FileHoldsKey'
    BY DEF FileHoldsKey
  <1>3. KeyInHand'
    BY DEF KeyInHand, FileHoldsKey
  <1>4. OneKey'
    BY DEF OneKey, KeyInHand, FileHoldsKey, Signers, NoTable, Running
  <1>5. VerdictIsFair'
    BY DEF VerdictIsFair
  <1> QED BY <1>1, <1>2, <1>3, <1>4, <1>5

LEMMA CreateKeyKeeps ==
    ASSUME KeyInv, NEW p \in Process, CreateKey(p)
    PROVE  KeyInv'
  <1> USE KeyFileAssumption DEF KeyInv, KeyTypeOK, Process, CreateKey, MoveTo, Exists,
          NoFile, Trouble, GiveUp
  <1>1. KeyTypeOK'
    <2>1. CASE Exists
      BY <2>1 DEF Report
    <2>2. CASE ~ Exists
      <3>1. keys + 1 \in Nat
        OBVIOUS
      <3>2. [key |-> keys + 1, written |-> FALSE, private |-> TRUE]
               \in [key : Nat, written : BOOLEAN, private : BOOLEAN]
        BY <3>1
      <3>3. /\ held' = [held EXCEPT ![p] = keys + 1]
            /\ keyFile' \in [key : Nat, written : BOOLEAN, private : BOOLEAN]
        BY <2>2, <3>2
      <3>4. held' \in [Process -> Nat]
        BY <3>1, <3>3
      <3> QED BY <2>2, <3>1, <3>3, <3>4
    <2> QED BY <2>1, <2>2
  <1>2. FileHoldsKey'
    BY DEF FileHoldsKey
  <1>3. KeyInHand'
    BY DEF KeyInHand, FileHoldsKey
  <1>4. OneKey'
    BY DEF OneKey, KeyInHand, FileHoldsKey, Signers, NoTable, Running
  <1>5. VerdictIsFair'
    <2>1. CASE UNCHANGED verdict
      BY <2>1 DEF VerdictIsFair
    <2>2. CASE ~ UNCHANGED verdict
      BY <2>2, FairReport
    <2> QED BY <2>1, <2>2
  <1> QED BY <1>1, <1>2, <1>3, <1>4, <1>5

LEMMA WriteKeyKeeps ==
    ASSUME KeyInv, NEW p \in Process, WriteKey(p)
    PROVE  KeyInv'
  <1> USE KeyFileAssumption DEF KeyInv, KeyTypeOK, Process, WriteKey, MoveTo, Exists,
          NoFile, Trouble
  <1>1. KeyTypeOK'
    <2>1. [keyFile EXCEPT !.written = TRUE] \in [key : Nat, written : BOOLEAN, private : BOOLEAN]
      BY Zenon DEF KeyTypeOK
    <2> QED BY <2>1
  <1>2. FileHoldsKey'
    BY DEF FileHoldsKey, KeyInHand
  <1>3. KeyInHand'
    BY DEF KeyInHand, FileHoldsKey
  <1>4. OneKey'
    BY DEF OneKey, KeyInHand, FileHoldsKey, Signers, NoTable, Running
  <1>5. VerdictIsFair'
    BY DEF VerdictIsFair
  <1> QED BY <1>1, <1>2, <1>3, <1>4, <1>5

LEMMA StatKeyKeeps ==
    ASSUME KeyInv, NEW p \in Process, StatKey(p)
    PROVE  KeyInv'
  <1> USE KeyFileAssumption DEF KeyInv, KeyTypeOK, Process, StatKey, MoveTo, Exists,
          NoFile, Trouble, GiveUp
  <1>1. KeyTypeOK'
    BY DEF Report
  <1>2. FileHoldsKey'
    BY DEF FileHoldsKey
  <1>3. KeyInHand'
    BY DEF KeyInHand, FileHoldsKey
  <1>4. OneKey'
    BY DEF OneKey, KeyInHand, FileHoldsKey, Signers, NoTable, Running
  <1>5. VerdictIsFair'
    <2>1. CASE UNCHANGED verdict
      BY <2>1 DEF VerdictIsFair
    <2>2. CASE ~ UNCHANGED verdict
      BY <2>2, FairReport
    <2> QED BY <2>1, <2>2
  <1> QED BY <1>1, <1>2, <1>3, <1>4, <1>5

LEMMA ReadKeyKeeps ==
    ASSUME KeyInv, NEW p \in Process, ReadKey(p)
    PROVE  KeyInv'
  <1> USE KeyFileAssumption DEF KeyInv, KeyTypeOK, Process, ReadKey, MoveTo, Exists,
          NoFile, Trouble, GiveUp
  <1>1. KeyTypeOK'
    BY DEF Report
  <1>2. FileHoldsKey'
    BY DEF FileHoldsKey
  <1>3. KeyInHand'
    BY DEF KeyInHand, FileHoldsKey
  <1>4. OneKey'
    BY DEF OneKey, KeyInHand, FileHoldsKey, Signers, NoTable, Running
  <1>5. VerdictIsFair'
    <2>1. CASE UNCHANGED verdict
      BY <2>1 DEF VerdictIsFair
    <2>2. CASE ~ UNCHANGED verdict
      BY <2>2, FairReport
    <2> QED BY <2>1, <2>2
  <1> QED BY <1>1, <1>2, <1>3, <1>4, <1>5

LEMMA OpenStoreKeeps ==
    ASSUME KeyInv, NEW p \in Process, OpenStore(p)
    PROVE  KeyInv'
  <1> USE KeyFileAssumption DEF KeyInv, KeyTypeOK, Process, OpenStore, MoveTo, Exists,
          NoFile, Trouble
  <1>1. KeyTypeOK'
    OBVIOUS
  <1>2. FileHoldsKey'
    BY DEF FileHoldsKey
  <1>3. KeyInHand'
    BY DEF KeyInHand, FileHoldsKey
  <1>4. OneKey'
    BY DEF OneKey, KeyInHand, FileHoldsKey, Signers, NoTable, Running
  <1>5. VerdictIsFair'
    BY DEF VerdictIsFair
  <1> QED BY <1>1, <1>2, <1>3, <1>4, <1>5

LEMMA FindStoreKeeps ==
    ASSUME KeyInv, NEW p \in Process, FindStore(p)
    PROVE  KeyInv'
  <1> USE KeyFileAssumption DEF KeyInv, KeyTypeOK, Process, FindStore, MoveTo, Exists,
          NoFile, Trouble, GiveUp
  <1>1. KeyTypeOK'
    BY DEF Report
  <1>2. FileHoldsKey'
    BY DEF FileHoldsKey
  <1>3. KeyInHand'
    BY DEF KeyInHand, FileHoldsKey
  <1>4. OneKey'
    BY DEF OneKey, KeyInHand, FileHoldsKey, Signers, NoTable, Running
  <1>5. VerdictIsFair'
    <2>1. CASE UNCHANGED verdict
      BY <2>1 DEF VerdictIsFair
    <2>2. CASE ~ UNCHANGED verdict
      BY <2>2, FairReport
    <2> QED BY <2>1, <2>2
  <1> QED BY <1>1, <1>2, <1>3, <1>4, <1>5

LEMMA VerifyKeeps ==
    ASSUME KeyInv, NEW p \in Process, Verify(p)
    PROVE  KeyInv'
  <1> USE KeyFileAssumption DEF KeyInv, KeyTypeOK, Process, Verify, MoveTo, Exists,
          NoFile, Trouble, GiveUp
  <1>1. KeyTypeOK'
    BY DEF Report
  <1>2. FileHoldsKey'
    BY DEF FileHoldsKey
  <1>3. KeyInHand'
    BY DEF KeyInHand, FileHoldsKey
  <1>4. OneKey'
    BY DEF OneKey, KeyInHand, FileHoldsKey, Signers, NoTable, Running
  <1>5. VerdictIsFair'
    <2>1. CASE UNCHANGED verdict
      BY <2>1 DEF VerdictIsFair
    <2>2. CASE Report(p, VerifyOutcome(p))
      <3>1. VerifyOutcome(p) = "broken" => orphaned
        BY DEF VerifyOutcome, OneKey, KeyInHand, Running
      <3> QED BY <2>2, <3>1, FairReport DEF VerifyOutcome, KeyInHand
    <2>3. CASE GiveUp(p)
      BY <2>1, <2>3, FairReport
    <2> QED BY <2>2, <2>3
  <1> QED BY <1>1, <1>2, <1>3, <1>4, <1>5

LEMMA ProcessDiesKeeps ==
    ASSUME KeyInv, NEW p \in Process, ProcessDies(p)
    PROVE  KeyInv'
  <1> USE KeyFileAssumption DEF KeyInv, KeyTypeOK, Process, ProcessDies, MoveTo,
          Exists, NoFile, Trouble
  <1>1. KeyTypeOK'
    OBVIOUS
  <1>2. FileHoldsKey'
    BY DEF FileHoldsKey
  <1>3. KeyInHand'
    BY DEF KeyInHand, FileHoldsKey
  <1>4. OneKey'
    BY DEF OneKey, KeyInHand, FileHoldsKey, Signers, NoTable, Running
  <1>5. VerdictIsFair'
    BY DEF VerdictIsFair
  <1> QED BY <1>1, <1>2, <1>3, <1>4, <1>5

LEMMA StartDaemonKeeps ==
    ASSUME KeyInv, NEW d \in Daemon, StartDaemon(d)
    PROVE  KeyInv'
  <1> USE KeyFileAssumption DEF KeyInv, KeyTypeOK, Process, StartDaemon, MoveTo,
          Exists, NoFile, Trouble
  <1>1. KeyTypeOK'
    OBVIOUS
  <1>2. FileHoldsKey'
    BY DEF FileHoldsKey
  <1>3. KeyInHand'
    BY DEF KeyInHand, FileHoldsKey
  <1>4. OneKey'
    BY DEF OneKey, KeyInHand, FileHoldsKey, Signers, NoTable, Running
  <1>5. VerdictIsFair'
    BY DEF VerdictIsFair
  <1> QED BY <1>1, <1>2, <1>3, <1>4, <1>5

LEMMA SignRowKeeps ==
    ASSUME KeyInv, NEW d \in Daemon, SignRow(d)
    PROVE  KeyInv'
  <1> USE KeyFileAssumption DEF KeyInv, KeyTypeOK, Process, SignRow, MoveTo, Exists,
          NoFile, Trouble
  <1>1. KeyTypeOK'
    OBVIOUS
  <1>2. FileHoldsKey'
    BY DEF FileHoldsKey
  <1>3. KeyInHand'
    BY DEF KeyInHand, FileHoldsKey
  <1>4. OneKey'
    BY DEF OneKey, KeyInHand, FileHoldsKey, Signers, NoTable, Running
  <1>5. VerdictIsFair'
    BY DEF VerdictIsFair
  <1> QED BY <1>1, <1>2, <1>3, <1>4, <1>5

LEMMA StartVerifierKeeps ==
    ASSUME KeyInv, NEW v \in Verifier, StartVerifier(v)
    PROVE  KeyInv'
  <1> USE KeyFileAssumption DEF KeyInv, KeyTypeOK, Process, StartVerifier, MoveTo,
          Exists, NoFile, Trouble, GiveUp
  <1>1. KeyTypeOK'
    BY DEF Report
  <1>2. FileHoldsKey'
    BY DEF FileHoldsKey
  <1>3. KeyInHand'
    BY DEF KeyInHand, FileHoldsKey
  <1>4. OneKey'
    BY DEF OneKey, KeyInHand, FileHoldsKey, Signers, NoTable, Running
  <1>5. VerdictIsFair'
    <2>1. CASE UNCHANGED verdict
      BY <2>1 DEF VerdictIsFair
    <2>2. CASE ~ UNCHANGED verdict
      BY <2>2, FairReport
    <2> QED BY <2>1, <2>2
  <1> QED BY <1>1, <1>2, <1>3, <1>4, <1>5

LEMMA DeleteChainKeeps ==
    ASSUME KeyInv, DeleteChain
    PROVE  KeyInv'
  <1> USE KeyFileAssumption DEF KeyInv, KeyTypeOK, Process, DeleteChain, MoveTo,
          Exists, NoFile, Trouble
  <1>1. KeyTypeOK'
    OBVIOUS
  <1>2. FileHoldsKey'
    BY DEF FileHoldsKey
  <1>3. KeyInHand'
    BY DEF KeyInHand, FileHoldsKey
  <1>4. OneKey'
    BY DEF OneKey, KeyInHand, FileHoldsKey, Signers, NoTable, Running
  <1>5. VerdictIsFair'
    BY DEF VerdictIsFair
  <1> QED BY <1>1, <1>2, <1>3, <1>4, <1>5

LEMMA DeleteKeyKeeps ==
    ASSUME KeyInv, DeleteKey
    PROVE  KeyInv'
  <1> USE KeyFileAssumption DEF KeyInv, KeyTypeOK, Process, DeleteKey, MoveTo, Exists,
          NoFile, Trouble
  <1>1. KeyTypeOK'
    OBVIOUS
  <1>2. FileHoldsKey'
    BY DEF FileHoldsKey
  <1>3. KeyInHand'
    BY DEF KeyInHand, FileHoldsKey
  <1>4. OneKey'
    BY DEF OneKey, KeyInHand, FileHoldsKey, Signers, NoTable, Running
  <1>5. VerdictIsFair'
    BY DEF VerdictIsFair
  <1> QED BY <1>1, <1>2, <1>3, <1>4, <1>5

LEMMA ChmodKeeps ==
    ASSUME KeyInv, Chmod
    PROVE  KeyInv'
  <1> USE KeyFileAssumption DEF KeyInv, KeyTypeOK, Process, Chmod, MoveTo, Exists,
          NoFile, Trouble
  <1>1. KeyTypeOK'
    OBVIOUS
  <1>2. FileHoldsKey'
    BY DEF FileHoldsKey
  <1>3. KeyInHand'
    BY DEF KeyInHand, FileHoldsKey
  <1>4. OneKey'
    BY DEF OneKey, KeyInHand, FileHoldsKey, Signers, NoTable, Running
  <1>5. VerdictIsFair'
    BY DEF VerdictIsFair
  <1> QED BY <1>1, <1>2, <1>3, <1>4, <1>5

-----------------------------------------------------------------------------
(* The theorems.                                                           *)

\* Every step of a process, of the unit and of the operator keeps the invariant.
THEOREM KeyInvariant == KeySpec => []KeyInv
  <1>1. ASSUME KeyInv, [KeyNext]_keyVars PROVE KeyInv'
    <2>1. CASE UNCHANGED keyVars
      BY <1>1, <2>1 DEF keyVars, KeyInv, KeyTypeOK, FileHoldsKey, KeyInHand, OneKey,
         Signers,
         Running, VerdictIsFair
    <2>2. ASSUME NEW p \in Process, ProcessStep(p) \/ ProcessDies(p) PROVE KeyInv'
      BY <1>1, <2>2, LookForKeyKeeps, CreateKeyKeeps, WriteKeyKeeps, StatKeyKeeps,
         ReadKeyKeeps,
         OpenStoreKeeps, FindStoreKeeps, VerifyKeeps, ProcessDiesKeeps DEF ProcessStep
    <2> QED BY <1>1, <2>1, <2>2, StartDaemonKeeps, SignRowKeeps, StartVerifierKeeps,
               DeleteChainKeeps, DeleteKeyKeeps, ChmodKeeps DEF KeyNext
  <1> QED BY KeyInitInv, <1>1, PTL DEF KeySpec

\* load_or_generate: however many daemons and verifiers race for the key file and
\* die over it, the rows are signed with the one key it holds.
THEOREM OneKeyAlways == KeySpec => []OneKeySigns
  <1>1. KeyInv => OneKeySigns
    BY KeyFileAssumption DEF KeyInv, KeyTypeOK, KeyInHand, OneKey, OneKeySigns,
       Running, Process
  <1> QED BY KeyInvariant, <1>1, PTL

\* outcome_to_exit_code and its likes: a chain nobody touched is never called broken.
THEOREM VerdictAlwaysFair == KeySpec => []VerdictIsFair
  BY KeyInvariant, PTL DEF KeyInv

\* audit_chain.rs, from load_or_generate to outcome_to_exit_code: for any number of
\* daemons and verifiers, signing and verifying go by one key.
THEOREM KeyAlwaysSound == KeySpec => []KeyIsSound
  <1>1. OneKeySigns /\ VerdictIsFair => KeyIsSound
    BY DEF KeyIsSound
  <1> QED BY <1>1, OneKeyAlways, VerdictAlwaysFair, PTL

=============================================================================
