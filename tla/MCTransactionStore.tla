------------------------- MODULE MCTransactionStore -------------------------
(***************************************************************************)
(* Four scenarios in one run, for their product is too large.  The store:  *)
(* two rows, two requests, a TTL of two ticks, days of four ticks and a    *)
(* clock that crosses two midnights.  The history: the same rows, no       *)
(* claims, questions with one kind of filter at a time.  PostgreSQL: the   *)
(* same again, with an hour and a TTL of two minutes, since its rows lack  *)
(* their seconds.  The calendar: some years from each of the anchors on.   *)
(***************************************************************************)
EXTENDS JobHistory, CivilCalendar, TLC

VARIABLES scene, pgQuery, pgListing, pgMissed, pgShownAt

pgVars == <<pgQuery, pgListing, pgMissed, pgShownAt>>

Postgres == INSTANCE JobHistory
    WITH Backend <- "postgres", TTL <- 2 * Minute, Hour <- 2 * Minute,
         query <- pgQuery, listing <- pgListing, missed <- pgMissed, shownAt <- pgShownAt

MCAnchors ==
    {[y |-> 1970, m |-> 1, d |-> 1, days |-> 0],
     [y |-> 1999, m |-> 12, d |-> 31, days |-> 10956],
     [y |-> 2023, m |-> 12, d |-> 31, days |-> 19722],
     [y |-> 2099, m |-> 12, d |-> 31, days |-> 47481]}

\* What the history scenarios leave out: claims, and questions with two filters.
InScene(asked, CollectableRow(_)) ==
    /\ now < MaxTime - 1
    /\ \A t \in Tx : \/ status[t] \in {Absent, "Queued"}
                     \/ status[t] = "Canceled" /\ CollectableRow(t)
    /\ asked # NoFilter => NoFilter \in {asked.status, asked.action}

MCInit ==
    /\ HistoryInit /\ CalendarInit /\ Postgres!HistoryInit
    /\ \/ scene \in {"store", "history", "postgres"} /\ date.y = 1970
       \/ scene = "calendar" /\ now = 0

MCNext ==
    /\ \/ scene = "store" /\ StoreNext /\ UNCHANGED <<askVars, pgVars, walkVars>>
       \/ /\ scene = "history" /\ HistoryNext /\ InScene(query, Stale)'
          /\ UNCHANGED <<pgVars, walkVars>>
       \/ /\ scene = "postgres" /\ Postgres!HistoryNext /\ InScene(pgQuery, Postgres!Stale)'
          /\ UNCHANGED <<askVars, walkVars>>
       \/ scene = "calendar" /\ CalendarNext /\ UNCHANGED <<storeVars, askVars, pgVars>>
    /\ UNCHANGED scene

MCSpec == MCInit /\ [][MCNext]_<<storeVars, askVars, pgVars, walkVars, scene>>

\* store/postgres.rs: how long a row is approvable and how far a listing can be off where
\* created_at lacks its seconds (now_iso).
PostgresWindows == scene = "postgres" => Postgres!StoreWindows

Symmetry == Permutations(Tx)
=============================================================================
