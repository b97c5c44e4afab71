-------------------------- MODULE TransactionStore --------------------------
(***************************************************************************)
(* The audit store behind the AuditStore trait (store.rs): the table of    *)
(* previewed transactions and the five operations that change it, for the  *)
(* SQLite backend (transactions.rs) and the PostgreSQL one                 *)
(* (store/postgres.rs).  A row is created by a preview, found again by its *)
(* request hash while it is fresh, claimed by one execute, and given a     *)
(* final status.  The chain columns of a row are not modelled here.        *)
(*                                                                         *)
(* A transaction id is a fresh UUID: an id of Tx is issued once.  A request*)
(* hash is the SHA-256 of action name and canonical parameters, taken to be*)
(* injective: the hash of request r is r itself.                           *)
(***************************************************************************)
EXTENDS Integers

CONSTANTS
    Tx,             \* Transaction ids.
    Request,        \* The (action, params) pairs a client may send.
    NoReq,          \* Not a request.
    Backend,        \* "sqlite" or "postgres".
    TTL,            \* The approval window (15 minutes), in clock ticks.
    DayLength,      \* A calendar day, in clock ticks.
    Minute,         \* A minute, in clock ticks.
    MaxTime         \* Bound on the clock: Tick stops here.

ASSUME StoreAssumption ==
    /\ NoReq \notin Request
    /\ Backend \in {"sqlite", "postgres"}
    /\ TTL \in Nat \ {0} /\ DayLength \in Nat \ {0} /\ MaxTime \in Nat
    /\ Minute \in Nat \ {0}

VARIABLES
    now,            \* The database clock.
    status,         \* status[t]: the status column, Absent if there is no row.
    hash,           \* hash[t]: the request_hash column, NoReq if t was never issued.
    created,        \* created[t]: when the row was inserted; see created_at.
    seq             \* seq[t]: the seq column.

storeVars == <<now, status, hash, created, seq>>

Jobs == INSTANCE JobLifecycle WITH Job <- Tx, state <- status

Absent == "Absent"
Terminal == Jobs!Terminal
JobState == Jobs!JobState

Rows == {t \in Tx : status[t] # Absent}

-----------------------------------------------------------------------------
(* The approval window.  PostgreSQL compares timestamps.  SQLite compares  *)
(* the TEXT "2026-01-31T09:00:00.000Z" written by strftime('%Y-%m-%dT...') *)
(* with the TEXT "2026-01-31 08:45:00" of datetime('now', '-15 minutes'):  *)
(* the dates are compared first, and on the same date the 'T' of the row   *)
(* is greater than the blank of the threshold whatever the times are.      *)

Day(x) == x \div DayLength

\* Mutant of created_at: now_iso's format drops digits of the minute too.
created_at_coarse(t) ==
    IF Backend = "sqlite" THEN created[t] ELSE created[t] - (created[t] % (2 * Minute))

\* The created_at column as a time: strftime('%Y-%m-%dT%H:%M:%fZ', 'now') writes the
\* seconds, now_iso ("%Y-%m-%dT%H:%M:%.3fZ") does not, and PostgreSQL reads its text
\* as the beginning of the minute.
created_at(t) ==
    IF Backend = "sqlite" THEN created[t] ELSE created[t] - (created[t] % Minute)

\* created_at > threshold, as find_by_request_hash evaluates it.
Fresh(t) ==
    \/ Backend = "sqlite"   /\ Day(created_at(t)) >= Day(now - TTL)
    \/ Backend = "postgres" /\ created_at(t) > now - TTL

\* Mutant of Stale: the comparison that is inclusive on one backend is not, and
\* conversely.
StaleOffByOne(t) ==
    \/ Backend = "sqlite"   /\ Day(created_at(t)) <= Day(now - TTL)
    \/ Backend = "postgres" /\ created_at(t) < now - TTL

\* created_at <= threshold, as cleanup_stale_queued evaluates it.
Stale(t) ==
    \/ Backend = "sqlite"   /\ Day(created_at(t)) < Day(now - TTL)
    \/ Backend = "postgres" /\ created_at(t) <= now - TTL

\* Mutant of Matching: the WHERE without request_hash = ?.
MatchingAnyHash(r) == {t \in Rows : status[t] = "Queued" /\ Fresh(t)}

\* The rows the SELECT of find_by_request_hash ranges over.
Matching(r) == {t \in Rows : hash[t] = r /\ status[t] = "Queued" /\ Fresh(t)}

\* The row it returns: ORDER BY seq DESC LIMIT 1.
Latest(t, r) ==
    /\ t \in Matching(r)
    /\ \A u \in Matching(r) : seq[u] <= seq[t]

\* next_seq_and_prev_hash: 1 in an empty table, else one more than the greatest
\* seq (the candidate that exceeds every row's seq).
CandidateSeq == {1} \union {seq[u] + 1 : u \in Rows}
IsNextSeq(s) == s \in CandidateSeq /\ \A u \in Rows : seq[u] < s

-----------------------------------------------------------------------------
(* The operations.                                                         *)

\* record and record_previewed: the row is inserted Queued, stamped with the
\* clock and the next seq, in one transaction (BEGIN IMMEDIATE / the locked
\* tail row of PostgreSQL).
InsertRow(t, r) ==
    /\ hash[t] = NoReq
    /\ \E s \in CandidateSeq : IsNextSeq(s) /\ seq' = [seq EXCEPT ![t] = s]
    /\ status' = [status EXCEPT ![t] = "Queued"]
    /\ hash' = [hash EXCEPT ![t] = r]
    /\ created' = [created EXCEPT ![t] = now]
    /\ UNCHANGED now

\* Mutant of ClaimRow: UPDATE without AND status = 'Queued'.
ClaimRowUnconditional(t) ==
    /\ status[t] # Absent
    /\ status' = [status EXCEPT ![t] = "Running"]
    /\ UNCHANGED <<now, hash, created, seq>>

\* claim_for_execution returning true: UPDATE ... WHERE status = Queued.
ClaimRow(t) ==
    /\ status[t] = "Queued"
    /\ status' = [status EXCEPT ![t] = "Running"]
    /\ UNCHANGED <<now, hash, created, seq>>

\* Mutant of UpdateStatus: allowed_transition is not consulted.
UpdateStatusUnchecked(t, next) ==
    /\ status[t] # Absent
    /\ status' = [status EXCEPT ![t] = next]
    /\ UNCHANGED <<now, hash, created, seq>>

\* update_status returning Ok, as one atomic step.  PostgreSQL locks the row
\* between its SELECT and its UPDATE; SQLite does not, and ApprovalExec models
\* its two statements apart.
UpdateStatus(t, next) ==
    /\ Jobs!allowed_transition(status[t], next)
    /\ status' = [status EXCEPT ![t] = next]
    /\ UNCHANGED <<now, hash, created, seq>>

\* Mutant of CleanupStaleQueued: every stale row is canceled, Queued or not.
CleanupStaleRows ==
    /\ status' = [t \in Tx |-> IF status[t] # Absent /\ Stale(t)
                               THEN "Canceled" ELSE status[t]]
    /\ UNCHANGED <<now, hash, created, seq>>

\* cleanup_stale_queued: every expired Queued row becomes Canceled at once.
CleanupStaleQueued ==
    /\ status' = [t \in Tx |-> IF status[t] = "Queued" /\ Stale(t)
                               THEN "Canceled" ELSE status[t]]
    /\ UNCHANGED <<now, hash, created, seq>>

\* The database clock advances; it is taken to be monotone.
Tick ==
    /\ now < MaxTime
    /\ now' = now + 1
    /\ UNCHANGED <<status, hash, created, seq>>

-----------------------------------------------------------------------------

\* The store may be created at any time of the day.
StoreInit ==
    /\ now \in 0 .. (DayLength - 1)
    /\ status = [t \in Tx |-> Absent]
    /\ hash = [t \in Tx |-> NoReq]
    /\ created = [t \in Tx |-> 0]
    /\ seq = [t \in Tx |-> 0]

StoreNext ==
    \/ \E t \in Tx, r \in Request : InsertRow(t, r)
    \/ \E t \in Tx : ClaimRow(t)
    \/ \E t \in Tx, next \in JobState : UpdateStatus(t, next)
    \/ CleanupStaleQueued
    \/ Tick

StoreSpec == StoreInit /\ [][StoreNext]_storeVars

-----------------------------------------------------------------------------
(* Properties.                                                             *)

StoreTypeOK ==
    /\ now \in Nat
    /\ status \in [Tx -> JobState \union {Absent}]
    /\ hash \in [Tx -> Request \union {NoReq}]
    /\ created \in [Tx -> Nat]
    /\ seq \in [Tx -> Nat]

\* The two WHERE clauses that read created_at cut the table in two: a Queued
\* row is either still approvable or collectable, never both and never
\* neither, at every instant including the boundary.  (find_by_request_hash
\* has `>`, cleanup_stale_queued has `<=`, in statements far apart.)
ExpiryPartition == \A t \in Rows : Fresh(t) <=> ~ Stale(t)

\* How early a backend may stamp a row: PostgreSQL's lose the seconds of their minute.
Lag(backend) == IF backend = "postgres" THEN Minute - 1 ELSE 0

\* A preview younger than the TTL is found, whatever the time of day; on PostgreSQL,
\* one that is younger than the TTL by the seconds its stamp may lack.
NoEarlyExpiry ==
    \A t \in Rows : status[t] = "Queued" /\ now - created[t] < TTL - Lag(Backend)
                       => t \in Matching(hash[t])

\* How late find_by_request_hash still returns a row: PostgreSQL not after the TTL,
\* SQLite not a day after it.
WindowCloses ==
    \A r \in Request : \A t \in Matching(r) :
        now - created[t] < IF Backend = "postgres" THEN TTL ELSE TTL + DayLength

\* The window in which a preview may be approved: it closes no earlier and no later
\* than stated, and at every instant a row is either approvable or collectable
\* (transactions.rs and postgres.rs, find_by_request_hash and cleanup_stale_queued).
ApprovalWindow == NoEarlyExpiry /\ WindowCloses /\ ExpiryPartition

\* What SECURITY.md:109-112 says of find_by_request_hash: it "returns only
\* Queued transactions within a 15-minute TTL".
ApprovalWithinTTL ==
    \A r \in Request : \A t \in Matching(r) : now - created[t] < TTL

\* What postgres.rs:245 says: "15-minute TTL window matches the SQLite path", where a
\* preview younger than the TTL is always found (NoEarlyExpiry).
FoundWithinTTL ==
    \A t \in Rows : status[t] = "Queued" /\ now - created[t] < TTL
                       => t \in Matching(hash[t])

\* An approval that has expired, been claimed or been canceled is never found
\* again, whatever the store is asked to do next.
GoneForGood ==
    [][\A t \in Rows : t \notin Matching(hash[t])
                            => t \notin Matching(hash[t])']_storeVars

\* Each row follows the job state machine of jobs.rs, the bulk UPDATE of
\* cleanup_stale_queued included (it must not clobber a Running row).
JobSpec == Jobs!Spec

=============================================================================
