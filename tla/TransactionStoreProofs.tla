----------------------- MODULE TransactionStoreProofs -----------------------
(***************************************************************************)
(* Theorems about TransactionStore, for any set of rows and requests, both *)
(* backends, and any TTL, day length and clock; about the history a user   *)
(* asks it for (JobHistory), for any hour, limits and filters; and about   *)
(* the calendar its timestamps are read with (CivilCalendar).              *)
(***************************************************************************)
EXTENDS JobHistory, CivilCalendar, FiniteSetTheorems, TLAPS

-----------------------------------------------------------------------------
(* Types.                                                                  *)

\* The statuses the store's callers assign are statuses of jobs.rs.
LEMMA StatusTypes ==
    /\ JobState = {"Queued", "Running", "Succeeded", "Failed", "Canceled",
                   "RolledBack", "NeedsReboot"}
    /\ Terminal = {"Succeeded", "Failed", "Canceled", "RolledBack", "NeedsReboot"}
    /\ Absent = "Absent"
  BY DEF Terminal, JobState, Absent, Jobs!Terminal, Jobs!JobState

\* The store's operations keep the table well typed, whoever calls them.
LEMMA StoreOpsTyped ==
    ASSUME StoreTypeOK
    PROVE  /\ \A t \in Tx, r \in Request : InsertRow(t, r) => StoreTypeOK'
           /\ \A t \in Tx : ClaimRow(t) => StoreTypeOK'
           /\ \A t \in Tx, next \in JobState : UpdateStatus(t, next) => StoreTypeOK'
           /\ CleanupStaleQueued => StoreTypeOK'
           /\ Tick => StoreTypeOK'
           /\ UNCHANGED storeVars => StoreTypeOK'
  <1> USE StatusTypes DEF StoreTypeOK
  <1>1. ASSUME NEW t \in Tx, NEW r \in Request, InsertRow(t, r) PROVE StoreTypeOK'
    <2>1. PICK s \in CandidateSeq : seq' = [seq EXCEPT ![t] = s]
      BY <1>1 DEF InsertRow
    <2>2. s \in Nat
      BY <2>1 DEF CandidateSeq, Rows
    <2> QED BY <1>1, <2>1, <2>2 DEF InsertRow
  <1>2. ASSUME NEW t \in Tx, ClaimRow(t) PROVE StoreTypeOK'
    BY <1>2 DEF ClaimRow
  <1>3. ASSUME NEW t \in Tx, NEW next \in JobState, UpdateStatus(t, next) PROVE StoreTypeOK'
    BY <1>3 DEF UpdateStatus
  <1>4. CleanupStaleQueued => StoreTypeOK'
    BY DEF CleanupStaleQueued
  <1>5. Tick => StoreTypeOK'
    BY DEF Tick
  <1>6. UNCHANGED storeVars => StoreTypeOK'
    BY DEF storeVars
  <1> QED BY <1>1, <1>2, <1>3, <1>4, <1>5, <1>6

\* The columns of the table keep their types.
THEOREM StoreTypeCorrect == StoreSpec => []StoreTypeOK
  <1>1. StoreInit => StoreTypeOK
    BY StoreAssumption, StatusTypes DEF StoreInit, StoreTypeOK
  <1>2. StoreTypeOK /\ [StoreNext]_storeVars => StoreTypeOK'
    BY StoreOpsTyped DEF StoreNext
  <1> QED BY <1>1, <1>2, PTL DEF StoreSpec

-----------------------------------------------------------------------------
(* Every row is a job state machine.                                       *)

\* One statement of the store, whichever rows it touches, moves each of them by
\* a transition jobs.rs allows, or not at all.
LEMMA StoreStepIsJobStep ==
    StoreTypeOK /\ StoreTypeOK' /\ (\A t \in Tx : hash[t] = NoReq => status[t] = Absent)
      /\ [StoreNext]_storeVars => [Jobs!Next]_status
  <1> SUFFICES ASSUME StoreTypeOK, StoreTypeOK', [StoreNext]_storeVars,
                      \A t \in Tx : hash[t] = NoReq => status[t] = Absent
               PROVE  [Jobs!Next]_status
    OBVIOUS
  <1> USE StatusTypes DEF StoreTypeOK, Jobs!Next, Jobs!New, Jobs!transition_to,
          Jobs!allowed_transition, Jobs!Terminal, Jobs!JobState, Jobs!Absent
  <1>1. ASSUME NEW t \in Tx, NEW r \in Request, InsertRow(t, r) PROVE Jobs!Next
    BY <1>1 DEF InsertRow
  <1>2. ASSUME NEW t \in Tx, ClaimRow(t) PROVE Jobs!Next
    BY <1>2 DEF ClaimRow
  <1>3. ASSUME NEW t \in Tx, NEW next \in JobState, UpdateStatus(t, next) PROVE Jobs!Next
    BY <1>3 DEF UpdateStatus
  <1>4. ASSUME CleanupStaleQueued PROVE Jobs!Next
    BY <1>4 DEF CleanupStaleQueued
  <1>5. CASE Tick
    BY <1>5 DEF Tick
  <1>6. CASE UNCHANGED storeVars
    BY <1>6 DEF storeVars
  <1> HIDE DEF Jobs!Next
  <1> QED BY <1>1, <1>2, <1>3, <1>4, <1>5, <1>6 DEF StoreNext

\* A row exists only under an id that was issued to it.
Issued == \A t \in Tx : hash[t] = NoReq => status[t] = Absent

\* No operation of the store makes a row without an id, or takes an id back.
LEMMA IssuedInvariant == StoreSpec => [](StoreTypeOK /\ Issued)
  <1>1. StoreInit => Issued
    BY StatusTypes DEF StoreInit, Issued
  <1>2. StoreTypeOK /\ Issued /\ [StoreNext]_storeVars => Issued'
    <2> SUFFICES ASSUME StoreTypeOK, Issued, [StoreNext]_storeVars PROVE Issued'
      OBVIOUS
    <2> USE StatusTypes, StoreAssumption DEF StoreTypeOK, Issued
    <2>1. ASSUME NEW t \in Tx, NEW r \in Request, InsertRow(t, r) PROVE Issued'
      BY <2>1 DEF InsertRow
    <2>2. ASSUME NEW t \in Tx, ClaimRow(t) PROVE Issued'
      BY <2>2 DEF ClaimRow
    <2>3. ASSUME NEW t \in Tx, NEW next \in JobState, UpdateStatus(t, next) PROVE Issued'
      BY <2>3 DEF UpdateStatus, Jobs!allowed_transition
    <2>4. ASSUME CleanupStaleQueued PROVE Issued'
      BY <2>4 DEF CleanupStaleQueued
    <2>5. CASE Tick \/ UNCHANGED storeVars
      BY <2>5 DEF Tick, storeVars
    <2> QED BY <2>1, <2>2, <2>3, <2>4, <2>5 DEF StoreNext
  <1> QED BY <1>1, <1>2, StoreTypeCorrect, PTL DEF StoreSpec

\* The table implements the job state machine of jobs.rs: rows are born Queued,
\* follow allowed_transition, and never leave a terminal status.
THEOREM StoreImplementsJobs == StoreSpec => JobSpec
  <1>1. StoreInit => Jobs!Init
    BY StatusTypes DEF StoreInit, Jobs!Init, Jobs!Absent
  <1>2. StoreTypeOK /\ StoreTypeOK' /\ Issued /\ [StoreNext]_storeVars => [Jobs!Next]_status
    BY StoreStepIsJobStep DEF StoreTypeOK, Issued
  <1> QED BY <1>1, <1>2, IssuedInvariant, PTL DEF StoreSpec, JobSpec, Jobs!Spec

-----------------------------------------------------------------------------
(* The approval window.                                                    *)

\* Division by a positive number is monotone.
LEMMA DayMonotone == \A x, y \in Int : x <= y => Day(x) <= Day(y)
  <1> SUFFICES ASSUME NEW x \in Int, NEW y \in Int, x <= y PROVE Day(x) <= Day(y)
    OBVIOUS
  <1> DEFINE d == DayLength
  <1>1. d \in Int /\ d > 0
    BY StoreAssumption
  <1>2. /\ Day(x) \in Int /\ d * Day(x) <= x /\ x < d * Day(x) + d
        /\ Day(y) \in Int /\ d * Day(y) <= y /\ y < d * Day(y) + d
    BY <1>1 DEF Day
  <1> QED BY <1>1, <1>2 DEF Day

\* The column created_at lacks at most the seconds of a minute, on PostgreSQL.
LEMMA StampIsEarly ==
    ASSUME StoreTypeOK, NEW t \in Tx
    PROVE  /\ created[t] \in Nat /\ created_at(t) \in Int /\ Lag(Backend) \in Nat
           /\ created_at(t) <= created[t] /\ created[t] <= created_at(t) + Lag(Backend)
           /\ Backend = "sqlite" => created_at(t) = created[t] /\ Lag(Backend) = 0
  <1>1. created[t] \in Nat /\ Minute \in Int /\ Minute > 0
    BY StoreAssumption DEF StoreTypeOK
  <1>2. created[t] % Minute \in 0 .. (Minute - 1)
    BY <1>1
  <1> QED BY <1>1, <1>2, StoreAssumption DEF created_at, Lag

\* What is outside the window stays outside as the clock goes from x to y.
LEMMA WindowMoves ==
    \A x, y, c \in Int : x <= y =>
        /\ Day(c) >= Day(y - TTL) => Day(c) >= Day(x - TTL)
        /\ c > y - TTL => c > x - TTL
  <1> SUFFICES ASSUME NEW x \in Int, NEW y \in Int, NEW c \in Int, x <= y
               PROVE  /\ Day(c) >= Day(y - TTL) => Day(c) >= Day(x - TTL)
                      /\ c > y - TTL => c > x - TTL
    OBVIOUS
  <1>1. x - TTL \in Int /\ y - TTL \in Int /\ x - TTL <= y - TTL
    BY StoreAssumption
  <1>2. Day(x - TTL) <= Day(y - TTL)
    BY <1>1, DayMonotone
  <1>3. Day(c) \in Int /\ Day(x - TTL) \in Int /\ Day(y - TTL) \in Int
    BY <1>1, StoreAssumption DEF Day
  <1> QED BY <1>1, <1>2, <1>3

\* A preview younger than the TTL, less the seconds PostgreSQL's stamp may lack, is
\* found, at every time of the day: SQLite's comparison as text errs only on the late side.
THEOREM NeverExpiresEarly == StoreSpec => []NoEarlyExpiry
  <1>1. StoreTypeOK => NoEarlyExpiry
    <2> SUFFICES ASSUME StoreTypeOK, NEW t \in Rows, status[t] = "Queued",
                        now - created[t] < TTL - Lag(Backend)
                 PROVE  Fresh(t)
      BY DEF NoEarlyExpiry, Matching, Rows
    <2>1. now \in Int /\ TTL \in Int /\ t \in Tx
      BY StoreAssumption DEF StoreTypeOK, Rows
    <2>2. now - TTL \in Int /\ now - TTL < created_at(t) /\ created_at(t) \in Int
      BY <2>1, StampIsEarly
    <2>3. Day(now - TTL) <= Day(created_at(t))
      BY <2>1, <2>2, DayMonotone
    <2>4. Day(now - TTL) \in Int /\ Day(created_at(t)) \in Int
      BY <2>1, <2>2, StoreAssumption DEF Day
    <2> QED BY <2>1, <2>2, <2>3, <2>4, StoreAssumption DEF Fresh
  <1> QED BY <1>1, StoreTypeCorrect, PTL

\* The lookup and the cleanup agree at every instant: a row is approvable or
\* collectable, never both and never neither.
THEOREM ExpiryHasNoGap == StoreSpec => []ExpiryPartition
  <1>1. StoreTypeOK => ExpiryPartition
    <2> SUFFICES ASSUME StoreTypeOK, NEW t \in Rows PROVE Fresh(t) <=> ~ Stale(t)
      BY DEF ExpiryPartition
    <2>1. now - TTL \in Int /\ created_at(t) \in Int
      BY StoreAssumption, StampIsEarly DEF StoreTypeOK, Rows
    <2>2. Day(created_at(t)) \in Int /\ Day(now - TTL) \in Int
      BY <2>1, StoreAssumption DEF Day
    <2> QED BY <2>1, <2>2, StoreAssumption DEF Fresh, Stale
  <1> QED BY <1>1, StoreTypeCorrect, PTL

\* A preview that is found is younger than the TTL on PostgreSQL, and than the TTL and
\* a day on SQLite.
THEOREM WindowIsBounded == StoreSpec => []WindowCloses
  <1>1. StoreTypeOK => WindowCloses
    <2> SUFFICES ASSUME StoreTypeOK, NEW r \in Request, NEW t \in Matching(r)
                 PROVE  now - created[t] < IF Backend = "postgres" THEN TTL ELSE TTL + DayLength
      BY DEF WindowCloses
    <2>1. /\ now \in Int /\ created[t] \in Int /\ TTL \in Int /\ t \in Tx
          /\ DayLength \in Int /\ DayLength > 0
      BY StoreAssumption DEF StoreTypeOK, Rows, Matching
    <2>2. Fresh(t)
      BY DEF Matching
    <2>3. CASE Backend = "postgres"
      <3>1. created_at(t) > now - TTL
        BY <2>2, <2>3 DEF Fresh
      <3> QED BY <2>1, <2>3, <3>1, StampIsEarly
    <2>4. CASE Backend = "sqlite"
      <3>1. Day(created[t]) >= Day(now - TTL)
        BY <2>1, <2>2, <2>4, StampIsEarly DEF Fresh
      <3> SUFFICES ASSUME created[t] + DayLength <= now - TTL PROVE FALSE
        BY <2>1, <2>4
      <3>2. Day(created[t] + DayLength) <= Day(now - TTL)
        BY <2>1, DayMonotone
      <3>3. Day(created[t] + DayLength) = Day(created[t]) + 1
        BY <2>1 DEF Day
      <3>4. Day(created[t]) \in Int /\ Day(now - TTL) \in Int
        BY <2>1 DEF Day
      <3> QED BY <3>1, <3>2, <3>3, <3>4
    <2> QED BY <2>3, <2>4, StoreAssumption
  <1> QED BY <1>1, StoreTypeCorrect, PTL

\* The window of approval, with its three parts, for every TTL, day length and
\* clock.
THEOREM WindowIsSound == StoreSpec => []ApprovalWindow
  <1>1. NoEarlyExpiry /\ WindowCloses /\ ExpiryPartition => ApprovalWindow
    BY DEF ApprovalWindow
  <1> QED BY <1>1, NeverExpiresEarly, WindowIsBounded, ExpiryHasNoGap, PTL


\* An approval that is expired, claimed or canceled stays so: time only makes a
\* row staler, ids are issued once and Queued is never entered again.
THEOREM ApprovalsNeverRevive == StoreSpec => GoneForGood
  <1>1. StoreTypeOK /\ StoreTypeOK' /\ Issued /\ [StoreNext]_storeVars =>
          [\A t \in Rows : t \notin Matching(hash[t])
                             => t \notin Matching(hash[t])']_storeVars
    <2> SUFFICES ASSUME StoreTypeOK, StoreTypeOK', Issued, StoreNext,
                        NEW t \in Rows, t \in Matching(hash[t])'
                 PROVE  t \in Matching(hash[t])
      OBVIOUS
    <2> USE StatusTypes, StoreAssumption DEF StoreTypeOK, Rows
    <2>0. t \in Tx /\ hash[t] # NoReq
      BY DEF Issued
    <2>1. status'[t] = "Queued" /\ Fresh(t)'
      BY DEF Matching
    <2>a. now <= now'
      BY DEF StoreNext, InsertRow, ClaimRow, UpdateStatus, CleanupStaleQueued, Tick
    <2> DEFINE Kept == created'[t] = created[t] /\ hash'[t] = hash[t] /\ status[t] = "Queued"
    <2>2. Kept
      <3>1. ASSUME NEW u \in Tx, NEW r \in Request, InsertRow(u, r) PROVE Kept
        BY <3>1, <2>0, <2>1 DEF InsertRow
      <3>2. ASSUME NEW u \in Tx, ClaimRow(u) PROVE Kept
        BY <3>2, <2>0, <2>1 DEF ClaimRow
      <3>3. ASSUME NEW u \in Tx, NEW next \in JobState, UpdateStatus(u, next) PROVE Kept
        BY <3>3, <2>0, <2>1 DEF UpdateStatus, Jobs!allowed_transition, Jobs!Terminal
      <3>4. ASSUME CleanupStaleQueued PROVE Kept
        BY <3>4, <2>0, <2>1 DEF CleanupStaleQueued
      <3>5. ASSUME Tick PROVE Kept
        BY <3>5, <2>0, <2>1 DEF Tick
      <3> QED BY <3>1, <3>2, <3>3, <3>4, <3>5 DEF StoreNext
    <2>3. Fresh(t)
      <3>1. now \in Int /\ now' \in Int /\ created_at(t) \in Int
        BY <2>0, StampIsEarly
      <3>2. /\ Day(created_at(t)) >= Day(now' - TTL) => Day(created_at(t)) >= Day(now - TTL)
            /\ created_at(t) > now' - TTL => created_at(t) > now - TTL
        BY <2>a, <3>1, WindowMoves
      <3>3. created_at(t)' = created_at(t)
        BY <2>2 DEF created_at
      <3>4. \/ Backend = "sqlite" /\ Day(created_at(t)) >= Day(now' - TTL)
            \/ Backend = "postgres" /\ created_at(t) > now' - TTL
        BY <2>1, <3>3 DEF Fresh, Day
      <3> QED BY <3>2, <3>4 DEF Fresh
    <2> QED BY <2>0, <2>2, <2>3 DEF Matching
  <1> QED BY <1>1, IssuedInvariant, PTL DEF StoreSpec, GoneForGood

-----------------------------------------------------------------------------
(* The history.                                                            *)

\* What is asked: the hours are the whole hours between the timestamp and the question.
QueryInv ==
    query # NoFilter =>
        /\ query.limit \in Nat /\ query.at \in Nat /\ query.at <= now
        /\ \/ query.since = NoFilter /\ query.hours = NoFilter
           \/ /\ query.since \in Nat /\ query.hours \in Nat
              /\ query.hours * Hour <= query.at - query.since
              /\ query.at - query.since < query.hours * Hour + Hour

\* What was listed, or missed, is a row: its id is issued, so its time and number stay.
PageInv ==
    shownAt # NoFilter =>
        /\ query # NoFilter
        /\ \A t \in listing \union missed : t \in Tx /\ hash[t] # NoReq

\* Rows come one at a time.
RowsFinite == IsFiniteSet(Rows)

HistoryInv == StoreTypeOK /\ Issued /\ RowsFinite /\ QueryInv /\ PageInv /\ HistoryWindow

\* since_to_hours rounds down to whole hours.
LEMMA HoursRoundDown ==
    ASSUME NEW x \in Nat
    PROVE  /\ x \div Hour \in Nat
           /\ (x \div Hour) * Hour <= x /\ x < (x \div Hour) * Hour + Hour
  <1>1. Hour \in Int /\ Hour > 0
    BY HistoryAssumption
  <1> QED BY <1>1

\* A statement of the store leaves a row's id, time and number alone once they are
\* given, adds at most one row, and never turns the clock back.
LEMMA RowsStay ==
    ASSUME StoreTypeOK, Issued, RowsFinite, [StoreNext]_storeVars
    PROVE  /\ now <= now' /\ RowsFinite'
           /\ \A t \in Tx : hash[t] # NoReq =>
                 hash'[t] = hash[t] /\ created'[t] = created[t] /\ seq'[t] = seq[t]
  <1> USE StatusTypes, StoreAssumption DEF StoreTypeOK
  <1> DEFINE Kept == \A t \in Tx : hash[t] # NoReq =>
                        hash'[t] = hash[t] /\ created'[t] = created[t] /\ seq'[t] = seq[t]
  <1>1. ASSUME NEW t \in Tx, NEW r \in Request, InsertRow(t, r)
        PROVE  now <= now' /\ Kept /\ Rows' \subseteq Rows \union {t}
    BY <1>1 DEF InsertRow, Rows
  <1>2. ASSUME NEW t \in Tx, ClaimRow(t) PROVE now <= now' /\ Kept /\ Rows' \subseteq Rows
    BY <1>2 DEF ClaimRow, Rows
  <1>3. ASSUME NEW t \in Tx, NEW next \in JobState, UpdateStatus(t, next)
        PROVE  now <= now' /\ Kept /\ Rows' \subseteq Rows
    BY <1>3 DEF UpdateStatus, Rows, Jobs!allowed_transition, Jobs!Terminal
  <1>4. ASSUME CleanupStaleQueued PROVE now <= now' /\ Kept /\ Rows' \subseteq Rows
    BY <1>4 DEF CleanupStaleQueued, Rows
  <1>5. ASSUME Tick \/ UNCHANGED storeVars PROVE now <= now' /\ Kept /\ Rows' \subseteq Rows
    BY <1>5 DEF Tick, storeVars, Rows
  <1>6. ASSUME NEW t \in Tx, Rows' \subseteq Rows \union {t} PROVE RowsFinite'
    BY <1>6, FS_AddElement, FS_Subset DEF RowsFinite
  <1>7. ASSUME Rows' \subseteq Rows PROVE RowsFinite'
    BY <1>7, FS_Subset DEF RowsFinite
  <1> HIDE DEF Kept
  <1>8. now <= now' /\ Kept /\ RowsFinite'
    BY <1>1, <1>2, <1>3, <1>4, <1>5, <1>6, <1>7 DEF StoreNext
  <1> QED BY <1>8 DEF Kept

\* Nothing the store does later takes back what a page said.
LEMMA StoreKeepsPage ==
    ASSUME HistoryInv, [StoreNext]_storeVars, UNCHANGED askVars
    PROVE  RowsFinite' /\ QueryInv' /\ PageInv' /\ HistoryWindow'
  <1>1. /\ now <= now' /\ RowsFinite'
        /\ \A t \in Tx : hash[t] # NoReq =>
              hash'[t] = hash[t] /\ created'[t] = created[t] /\ seq'[t] = seq[t]
    BY RowsStay DEF HistoryInv
  <1>2. UNCHANGED <<query, listing, missed, shownAt>>
    BY DEF askVars
  <1>3. now \in Nat /\ now' \in Int
    BY DEF HistoryInv, StoreTypeOK, StoreNext, InsertRow, ClaimRow, UpdateStatus,
           CleanupStaleQueued, Tick, storeVars
  <1>4. QueryInv'
    BY <1>1, <1>2, <1>3 DEF HistoryInv, QueryInv
  <1>5. PageInv'
    BY <1>1, <1>2 DEF HistoryInv, PageInv
  <1>6. HistoryWindow'
    <2>1. SUFFICES ASSUME shownAt # NoFilter PROVE HistoryWindow'
      BY <1>2 DEF HistoryWindow
    <2>2. \A t \in listing \union missed : created'[t] = created[t] /\ seq'[t] = seq[t]
      BY <1>1, <2>1 DEF HistoryInv, PageInv
    <2>3. Limit' = Limit /\ Lag(Backend)' = Lag(Backend)
      BY <1>2 DEF Limit, Lag
    <2>4. HistoryWindow
      BY DEF HistoryInv
    <2>5. \A t \in listing : Day(created[t])' = Day(created[t])
      BY <1>2, <2>2 DEF Day
    <2>6. Day(query.since)' = Day(query.since)
      BY <1>2 DEF Day
    <2> QED BY <1>2, <2>1, <2>2, <2>3, <2>4, <2>5, <2>6 DEF HistoryWindow
  <1> QED BY <1>1, <1>4, <1>5, <1>6

\* A question's hours are rounded down from what has passed when it is asked.
LEMMA AskKeeps ==
    ASSUME HistoryInv, Ask
    PROVE  RowsFinite' /\ QueryInv' /\ PageInv' /\ HistoryWindow'
  <1>1. PICK since \in (0 .. now) \union {NoFilter},
             status_filter \in {NoFilter} \union StatusFilters,
             action_filter \in {NoFilter} \union ActionFilters, limit \in Limits :
             AskHistory(since, status_filter, action_filter, limit)
    BY Zenon DEF Ask
  <1>2. /\ query = NoFilter /\ shownAt' = shownAt /\ now' = now /\ RowsFinite'
        /\ query'.since = since /\ query'.limit = limit /\ query'.at = now
        /\ query'.hours = IF since = NoFilter THEN NoFilter ELSE since_to_hours(since)
    BY <1>1 DEF AskHistory, storeVars, HistoryInv, RowsFinite, Rows
  <1>3. shownAt' = NoFilter
    BY <1>2 DEF HistoryInv, PageInv
  <1>4. now \in Nat /\ limit \in Nat
    BY HistoryAssumption DEF HistoryInv, StoreTypeOK
  <1>5. CASE since = NoFilter
    BY <1>2, <1>3, <1>4, <1>5 DEF QueryInv, PageInv, HistoryWindow
  <1>6. CASE since \in 0 .. now
    <2>1. since # NoFilter /\ since \in Nat /\ now - since \in Nat
      BY <1>4, <1>6, HistoryAssumption
    <2>2. query'.hours = (now - since) \div Hour
      BY <1>2, <2>1 DEF since_to_hours
    <2>3. /\ query'.hours \in Nat
          /\ query'.hours * Hour <= now - since /\ now - since < query'.hours * Hour + Hour
      BY <2>1, <2>2, HoursRoundDown
    <2> QED BY <1>2, <1>3, <1>4, <2>1, <2>3 DEF QueryInv, PageInv, HistoryWindow
  <1> QED BY <1>5, <1>6

\* When the answer is read nothing is asked or shown any more.
LEMMA ReadKeeps ==
    ASSUME HistoryInv, HistoryRead
    PROVE  RowsFinite' /\ QueryInv' /\ PageInv' /\ HistoryWindow'
  BY DEF HistoryRead, HistoryInv, RowsFinite, Rows, QueryInv, PageInv, HistoryWindow, storeVars

\* What is older than the hours that were sent is less than an hour younger than the
\* timestamp, but for the time the question took; and what is recent is not older.
LEMMA HoursMeanSince ==
    ASSUME HistoryInv, query # NoFilter, NEW t \in Tx
    PROVE  /\ Recent(t) /\ query.since # NoFilter =>
                 IF Backend = "sqlite" THEN Day(created[t]) >= Day(query.since)
                 ELSE created[t] > query.since
           /\ ~ Recent(t) => /\ query.since # NoFilter
                             /\ created[t] < query.since + Hour + (now - query.at) + Lag(Backend)
  <1>0. /\ created_at(t) \in Int /\ Lag(Backend) \in Int
        /\ created_at(t) <= created[t] /\ created[t] <= created_at(t) + Lag(Backend)
        /\ Backend = "sqlite" => created_at(t) = created[t]
    BY StampIsEarly DEF HistoryInv
  <1>1. /\ now \in Int /\ created[t] \in Int /\ Hour \in Int
        /\ query.at \in Int /\ query.at <= now
    BY HistoryAssumption DEF HistoryInv, StoreTypeOK, QueryInv
  <1>2. CASE query.since = NoFilter
    BY <1>2, HistoryAssumption DEF HistoryInv, QueryInv, Recent
  <1>3. CASE query.since # NoFilter
    <2> DEFINE back == query.hours * Hour
               threshold == now - back
    <2>1. /\ query.since \in Int /\ query.hours # NoFilter /\ back \in Int
          /\ back <= query.at - query.since /\ query.at - query.since < back + Hour
      BY <1>1, <1>3, HistoryAssumption DEF HistoryInv, QueryInv
    <2> HIDE DEF back
    <2>2. /\ threshold \in Int /\ query.since <= threshold
          /\ threshold < query.since + Hour + (now - query.at)
      BY <1>1, <2>1
    <2>3. Recent(t) <=> IF Backend = "sqlite" THEN Day(created_at(t)) >= Day(threshold)
                        ELSE created_at(t) > threshold
      BY <2>1 DEF Recent, back
    <2> HIDE DEF threshold
    <2>4. /\ Day(query.since) <= Day(threshold)
          /\ threshold <= created[t] => Day(threshold) <= Day(created[t])
          /\ Backend = "sqlite" => Day(created_at(t)) = Day(created[t])
      BY <1>0, <1>1, <2>1, <2>2, DayMonotone
    <2>5. Day(query.since) \in Int /\ Day(threshold) \in Int /\ Day(created[t]) \in Int
      BY <1>1, <2>1, <2>2, StoreAssumption DEF Day
    <2> QED BY <1>0, <1>1, <1>3, <2>1, <2>2, <2>3, <2>4, <2>5
  <1> QED BY <1>2, <1>3

\* A page is the newest rows of what is recent, at most as many as were asked for.
LEMMA ListKeeps ==
    ASSUME HistoryInv, ListTransactions
    PROVE  RowsFinite' /\ QueryInv' /\ PageInv' /\ HistoryWindow'
  <1> DEFINE selected == {t \in Wanted : Recent(t)}
  <1>1. PICK shown \in SUBSET selected :
             /\ IsPage(shown, selected)
             /\ listing' = shown /\ missed' = Wanted \ shown
    BY Zenon DEF ListTransactions
  <1>2. /\ query # NoFilter /\ shownAt' = now /\ query' = query
        /\ now' = now /\ status' = status /\ hash' = hash /\ created' = created /\ seq' = seq
    BY DEF ListTransactions, storeVars
  <1>3. RowsFinite' /\ QueryInv'
    BY <1>2 DEF HistoryInv, RowsFinite, Rows, QueryInv
  <1>4. \A t \in Wanted : t \in Tx /\ hash[t] # NoReq
    BY DEF Wanted, Rows, HistoryInv, Issued
  <1>5. PageInv'
    BY <1>1, <1>2, <1>4 DEF PageInv
  <1>6. /\ IsFiniteSet(selected) /\ Cardinality(selected) \in Nat
        /\ IsFiniteSet(shown) /\ Cardinality(shown) \in Nat
        /\ Cardinality(shown) = Cardinality(selected) => shown = selected
    <2>1. selected \subseteq Rows
      BY DEF Wanted
    <2>2. IsFiniteSet(selected)
      BY <2>1, FS_Subset DEF HistoryInv, RowsFinite
    <2> HIDE DEF selected
    <2> QED BY <2>2, FS_Subset, FS_CardinalityType
  <1>7. Limit \in Nat /\ Limit <= query.limit /\ query.limit \in Nat
    <2>1. query.limit \in Nat /\ U32 \in Int /\ U32 > 0 /\ HISTORY_CAP \in Nat
      BY <1>2, HistoryAssumption DEF HistoryInv, QueryInv
    <2>2. query.limit % U32 \in Nat /\ query.limit % U32 <= query.limit
      BY <2>1
    <2> QED BY <2>1, <2>2 DEF Limit
  <1>8. /\ \A t \in shown, u \in selected \ shown : seq[t] > seq[u]
        /\ Cardinality(shown) = IF Cardinality(selected) <= Limit
                                THEN Cardinality(selected) ELSE Limit
    BY <1>1 DEF IsPage
  <1>9. Limit' = Limit /\ Lag(Backend)' = Lag(Backend) /\ \A x : Day(x)' = Day(x')
    BY <1>2 DEF Limit, Lag, Day
  <1>10. Cardinality(shown) <= query.limit
    BY <1>6, <1>7, <1>8
  <1>11. ASSUME query.since # NoFilter, NEW t \in shown
         PROVE  IF Backend = "sqlite" THEN Day(created[t]) >= Day(query.since)
                ELSE created[t] > query.since
    BY <1>1, <1>2, <1>4, <1>11, HoursMeanSince
  <1>12. ASSUME NEW t \in Wanted \ shown
         PROVE  \/ Cardinality(shown) = Limit /\ \A u \in shown : seq[u] > seq[t]
                \/ /\ query.since # NoFilter
                   /\ created[t] < query.since + Hour + (now - query.at) + Lag(Backend)
    <2>1. CASE Recent(t)
      <3>1. t \in selected \ shown
        BY <2>1
      <3> QED BY <1>6, <1>8, <3>1
    <2>2. CASE ~ Recent(t)
      BY <1>2, <1>4, <2>2, HoursMeanSince
    <2> QED BY <2>1, <2>2
  <1>13. HistoryWindow'
    BY <1>1, <1>2, <1>9, <1>10, <1>11, <1>12 DEF HistoryWindow, Day
  <1> QED BY <1>3, <1>5, <1>13

\* How far an answer to "since" can be off, for every limit, filter and clock.
THEOREM HistoryIsBounded == HistorySpec => []HistoryWindow
  <1>1. HistoryInit => HistoryInv
    <2>1. StoreInit => StoreTypeOK /\ Issued
      BY StoreAssumption, StatusTypes DEF StoreInit, StoreTypeOK, Issued
    <2>2. StoreInit => RowsFinite
      <3>1. StoreInit => Rows = {}
        BY DEF StoreInit, Rows
      <3> QED BY <3>1, FS_EmptySet DEF RowsFinite
    <2> QED BY <2>1, <2>2 DEF HistoryInit, HistoryInv, QueryInv, PageInv, HistoryWindow
  <1>2. HistoryInv /\ StoreTypeOK' /\ Issued' /\ [HistoryNext]_<<storeVars, askVars>>
          => HistoryInv'
    <2> SUFFICES ASSUME HistoryInv, [HistoryNext]_<<storeVars, askVars>>
                 PROVE  RowsFinite' /\ QueryInv' /\ PageInv' /\ HistoryWindow'
      BY DEF HistoryInv
    <2>1. CASE [StoreNext]_storeVars /\ UNCHANGED askVars
      BY <2>1, StoreKeepsPage
    <2>2. CASE Ask
      BY <2>2, AskKeeps
    <2>3. CASE ListTransactions
      BY <2>3, ListKeeps
    <2>4. CASE HistoryRead
      BY <2>4, ReadKeeps
    <2> QED BY <2>1, <2>2, <2>3, <2>4 DEF HistoryNext
  <1>3. HistoryInv => HistoryWindow
    BY DEF HistoryInv
  <1>4. HistoryInit => StoreInit
    BY DEF HistoryInit
  <1>5. [HistoryNext]_<<storeVars, askVars>> => [StoreNext]_storeVars
    BY DEF HistoryNext, Ask, AskHistory, ListTransactions, HistoryRead
  <1>6. HistorySpec => StoreSpec
    BY <1>4, <1>5, PTL DEF HistorySpec, StoreSpec
  <1> QED BY <1>1, <1>2, <1>3, <1>6, IssuedInvariant, PTL DEF HistorySpec

-----------------------------------------------------------------------------
(* The calendar.  The steps below name SMT: it has the arithmetic.          *)

\* What DaysFromCivil counts up to the first of March of a year.
YearStart(z) ==
    LET yoe == z - (z \div 400) * 400
    IN  (z \div 400) * 146097 + yoe * 365 + yoe \div 4 - yoe \div 100

\* From one first of March to the next there are 365 days, or 366 if a February 29
\* lies between them.
LEMMA YearsHaveTheirLength ==
    ASSUME NEW y \in Nat
    PROVE  YearStart(y) = YearStart(y - 1) + IF Leap(y) THEN 366 ELSE 365
  <1> DEFINE e == (y - 1) \div 400
             q == (y - 1) - e * 400
  <1>1. e \in Int /\ q \in 0 .. 399 /\ y = e * 400 + q + 1
    BY SMT
  <1>2. YearStart(y - 1) = e * 146097 + q * 365 + q \div 4 - q \div 100
    BY SMT DEF YearStart
  <1>3. CASE q = 399
    <2>1. y \div 400 = e + 1
      BY <1>1, <1>3, SMT
    <2>2. y - (y \div 400) * 400 = 0
      BY <1>1, <1>3, <2>1, SMT
    <2>3. YearStart(y) = (e + 1) * 146097
      BY <1>1, <2>1, <2>2, SMT DEF YearStart
    <2>4. Leap(y)
      BY <1>1, <1>3, SMT DEF Leap
    <2> HIDE DEF e, q
    <2> QED BY <1>1, <1>2, <1>3, <2>3, <2>4, SMT
  <1>4. CASE q < 399
    <2>1. y \div 400 = e /\ y - (y \div 400) * 400 = q + 1
      BY <1>1, <1>4, SMT
    <2>2. YearStart(y) = e * 146097 + (q + 1) * 365 + (q + 1) \div 4 - (q + 1) \div 100
      BY <2>1, SMT DEF YearStart
    <2> HIDE DEF e, q
    <2>3. Leap(y) <=> (q + 1) % 4 = 0 /\ (q + 1) % 100 # 0
      BY <1>1, <1>4, SMT DEF Leap
    <2>4. /\ (q + 1) \div 4 = q \div 4 + IF (q + 1) % 4 = 0 THEN 1 ELSE 0
          /\ (q + 1) \div 100 = q \div 100 + IF (q + 1) % 100 = 0 THEN 1 ELSE 0
          /\ (q + 1) % 100 = 0 => (q + 1) % 4 = 0
      BY <1>1, SMT
    <2> QED BY <1>1, <1>2, <1>4, <2>2, <2>3, <2>4, SMT
  <1> QED BY <1>1, <1>3, <1>4, SMT

\* The days before a month, counted from March.
MonthStart(m) == (153 * (IF m > 2 THEN m - 3 ELSE m + 9) + 2) \div 5

\* DaysFromCivil is the start of the year, which begins in March, the start of the
\* month in it and the day.
LEMMA DaysSplit ==
    ASSUME NEW y \in Nat, NEW m \in 1 .. 12, NEW d \in Nat
    PROVE  DaysFromCivil(y, m, d)
             = YearStart(IF m > 2 THEN y ELSE y - 1) + MonthStart(m) + d - 719469
  BY SMT DEF DaysFromCivil, YearStart, MonthStart

\* The day number the algorithm gives to a date.
Number(a) == DaysFromCivil(a.y, a.m, a.d)

IsDate(a) ==
    /\ a.y \in Nat /\ a.m \in 1 .. 12 /\ a.d \in Nat \ {0} /\ a.d <= LastOf(a.y, a.m)
    /\ a.days \in Int

\* The formula (153 m + 2) / 5 counts months of 31, 30, 31, 30, 31 days.
LEMMA MonthLengths ==
    /\ MonthStart(1) = 306 /\ MonthStart(2) = 337 /\ MonthStart(3) = 0
    /\ MonthStart(4) = 31 /\ MonthStart(5) = 61 /\ MonthStart(6) = 92
    /\ MonthStart(7) = 122 /\ MonthStart(8) = 153 /\ MonthStart(9) = 184
    /\ MonthStart(10) = 214 /\ MonthStart(11) = 245 /\ MonthStart(12) = 275
  BY SMT DEF MonthStart

\* How the calendar's months end.
LEMMA MonthEnds ==
    ASSUME NEW y \in Nat
    PROVE  /\ LastOf(y, 2) = IF Leap(y) THEN 29 ELSE 28
           /\ \A m \in {4, 6, 9, 11} : LastOf(y, m) = 30
           /\ \A m \in {1, 3, 5, 7, 8, 10, 12} : LastOf(y, m) = 31
  BY SMT DEF LastOf

\* The day after a date has the next number.
LEMMA NextDayCounts ==
    ASSUME NEW a, IsDate(a)
    PROVE  IsDate(NextDay(a)) /\ Number(NextDay(a)) = Number(a) + 1
  <1> DEFINE b == NextDay(a)
  <1>0. SUFFICES IsDate(b) /\ Number(b) = Number(a) + 1
    OBVIOUS
  <1>1. /\ a.y \in Nat /\ a.m \in 1 .. 12 /\ a.d \in Nat \ {0} /\ a.d <= LastOf(a.y, a.m)
        /\ a.days \in Int
    BY SMT DEF IsDate
  <1>2. /\ b.y = IF a.m = 12 /\ a.d = 31 THEN a.y + 1 ELSE a.y
        /\ b.m = IF a.d < LastOf(a.y, a.m) THEN a.m ELSE (a.m % 12) + 1
        /\ b.d = IF a.d < LastOf(a.y, a.m) THEN a.d + 1 ELSE 1
        /\ b.days = a.days + 1
    BY SMT DEF NextDay
  <1> HIDE DEF b
  <1>3. LastOf(a.y, a.m) \in 28 .. 31
    BY <1>1, MonthEnds, SMT
  <1>4. \A z \in Int : YearStart(z) \in Int
    BY SMT DEF YearStart
  <1>5. CASE a.d < LastOf(a.y, a.m)
    <2>1. b.y = a.y /\ b.m = a.m /\ b.d = a.d + 1
      BY <1>1, <1>2, <1>3, <1>5, SMT
    <2> DEFINE s == YearStart(IF a.m > 2 THEN a.y ELSE a.y - 1) + MonthStart(a.m)
    <2>2. s \in Int
      BY <1>1, <1>4, MonthLengths, SMT
    <2>3. \A d \in Nat : DaysFromCivil(a.y, a.m, d) = s + d - 719469
      BY <1>1, DaysSplit, SMT
    <2> HIDE DEF s
    <2>4. IsDate(b)
      BY <1>1, <1>2, <1>3, <1>5, <2>1, SMT DEF IsDate
    <2>5. Number(b) = s + (a.d + 1) - 719469
      <3>1. Number(b) = DaysFromCivil(a.y, a.m, a.d + 1) /\ a.d + 1 \in Nat
        BY <1>1, <2>1, SMT DEF Number
      <3> QED BY <2>3, <3>1, SMT
    <2>6. Number(a) = s + a.d - 719469
      BY <1>1, <2>3, SMT DEF Number
    <2> QED BY <1>1, <2>2, <2>4, <2>5, <2>6, SMT
  <1>6. CASE a.d = LastOf(a.y, a.m) /\ a.m = 12
    <2>1. a.d = 31 /\ b.y = a.y + 1 /\ b.m = 1 /\ b.d = 1
      BY <1>1, <1>2, <1>6, MonthEnds, SMT
    <2>2. DaysFromCivil(a.y, 12, 31) = YearStart(a.y) + 275 + 31 - 719469
      BY <1>1, DaysSplit, MonthLengths, SMT
    <2>3. DaysFromCivil(a.y + 1, 1, 1) = YearStart(a.y) + 306 + 1 - 719469
      BY <1>1, DaysSplit, MonthLengths, SMT
    <2>4. IsDate(b)
      BY <1>1, <1>2, <2>1, MonthEnds, SMT DEF IsDate
    <2> QED BY <1>1, <1>4, <1>6, <2>1, <2>2, <2>3, <2>4, SMT DEF Number
  <1>7. CASE a.d = LastOf(a.y, a.m) /\ a.m = 2
    <2>1. b.y = a.y /\ b.m = 3 /\ b.d = 1
      BY <1>1, <1>2, <1>7, SMT
    <2>2. a.d = IF Leap(a.y) THEN 29 ELSE 28
      BY <1>1, <1>7, MonthEnds, SMT
    <2>3. DaysFromCivil(a.y, 2, a.d) = YearStart(a.y - 1) + 337 + a.d - 719469
      BY <1>1, DaysSplit, MonthLengths, SMT
    <2>4. DaysFromCivil(a.y, 3, 1) = YearStart(a.y) + 0 + 1 - 719469
      BY <1>1, DaysSplit, MonthLengths, SMT
    <2>5. IsDate(b)
      BY <1>1, <1>2, <2>1, MonthEnds, SMT DEF IsDate
    <2>6. YearStart(a.y) = YearStart(a.y - 1) + IF Leap(a.y) THEN 366 ELSE 365
      BY <1>1, YearsHaveTheirLength, SMT
    <2> QED BY <1>1, <1>4, <1>7, <2>1, <2>2, <2>3, <2>4, <2>5, <2>6, SMT DEF Number
  <1>8. CASE a.d = LastOf(a.y, a.m) /\ a.m \notin {2, 12}
    <2>1. b.y = a.y /\ b.m = a.m + 1 /\ b.d = 1
      BY <1>1, <1>2, <1>8, SMT
    <2>2. MonthStart(a.m + 1) = MonthStart(a.m) + LastOf(a.y, a.m) /\ MonthStart(a.m) \in Int
      BY <1>1, <1>8, MonthLengths, MonthEnds, SMT
    <2>3. (a.m + 1 > 2 <=> a.m > 2) \/ a.m = 2
      BY <1>1, SMT
    <2>4. LastOf(a.y, a.m + 1) \in Nat \ {0}
      BY <1>1, <1>8, MonthEnds, SMT
    <2>5. IsDate(b)
      BY <1>1, <1>2, <2>1, <2>4, SMT DEF IsDate
    <2>6. a.m + 1 \in 1 .. 12
      BY <1>1, <1>8, SMT
    <2>7. DaysFromCivil(a.y, a.m + 1, 1)
            = YearStart(IF a.m > 2 THEN a.y ELSE a.y - 1) + MonthStart(a.m + 1) + 1 - 719469
      BY <1>1, <1>8, <2>3, <2>6, DaysSplit, SMT
    <2>8. DaysFromCivil(a.y, a.m, a.d)
            = YearStart(IF a.m > 2 THEN a.y ELSE a.y - 1) + MonthStart(a.m) + a.d - 719469
      BY <1>1, DaysSplit, SMT
    <2> QED BY <1>1, <1>4, <1>8, <2>1, <2>2, <2>5, <2>7, <2>8, SMT DEF Number
  <1> QED BY <1>1, <1>3, <1>5, <1>6, <1>7, <1>8, SMT
\* The walk is at a date and knows the number the algorithm gives to it.
IsAnchored == IsDate(date) /\ Number(date) = date.days

\* Unix time begins where the algorithm says it does.
LEMMA EpochIsDayZero == DaysFromCivil(1970, 1, 1) = 0
  BY SMT DEF DaysFromCivil

\* The algorithm agrees with the calendar on every day that follows a date of which
\* it is right, however many days later: if it is right on one date, it is on all
\* later ones.
THEOREM CalendarIsRight ==
    ASSUME \A a \in Anchors : Number(a) = a.days
    PROVE  CalendarSpec => []CalendarAgrees
  <1>1. CalendarInit => IsAnchored
    BY CalendarAssumption, SMT DEF CalendarInit, IsAnchored, IsDate
  <1>2. IsAnchored /\ [CalendarNext]_walkVars => IsAnchored'
    <2> SUFFICES ASSUME IsAnchored, [CalendarNext]_walkVars PROVE IsAnchored'
      OBVIOUS
    <2>1. CASE date' = NextDay(date)
      <3>1. IsDate(date') /\ Number(date') = Number(date) + 1
        BY <2>1, NextDayCounts DEF IsAnchored
      <3>2. date'.days = date.days + 1
        BY <2>1 DEF NextDay
      <3> QED BY <3>1, <3>2 DEF IsAnchored
    <2>2. CASE date' = date
      BY <2>2 DEF IsAnchored
    <2> QED BY <2>1, <2>2 DEF CalendarNext, walkVars
  <1>3. IsAnchored => CalendarAgrees
    BY DEF IsAnchored, CalendarAgrees, Number
  <1> QED BY <1>1, <1>2, <1>3, PTL DEF CalendarSpec

=============================================================================
