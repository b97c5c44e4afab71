----------------------------- MODULE JobHistory -----------------------------
(***************************************************************************)
(* The history of the store as a user asks for it: `sysknife history` and  *)
(* the tool sysknife_history turn the moment after which entries are       *)
(* wanted into whole hours (runner.rs, mcp_server.rs), the daemon turns    *)
(* the hours back into a moment, later, and selects (dispatcher.rs         *)
(* handle_query_action, list_transactions of both backends).               *)
(*                                                                         *)
(* The hash of a request stands for its action's name.  The text the rows  *)
(* are printed as and parsed from is left out.                             *)
(***************************************************************************)
EXTENDS TransactionStore, FiniteSets

CONSTANTS
    Hour,           \* An hour, in clock ticks.
    HISTORY_CAP,    \* The most rows list_transactions returns (100).
    U32,            \* The number of values of a u32.
    Limits,         \* The limits, statuses and actions asked for.
    StatusFilters, ActionFilters,
    NoFilter        \* A filter that is not given.

ASSUME HistoryAssumption ==
    /\ Hour \in Nat \ {0} /\ HISTORY_CAP \in Nat /\ U32 \in Nat \ {0}
    /\ Limits \subseteq Nat /\ StatusFilters \subseteq JobState /\ ActionFilters \subseteq Request
    /\ NoFilter \notin Nat \union JobState \union Request

VARIABLES
    query,          \* What is asked: [since, hours, status, action, limit, at], or NoFilter.
    listing,        \* The rows shown for it.
    missed,         \* The rows its filters let through that are not shown.
    shownAt         \* When they were selected, or NoFilter.

askVars == <<query, listing, missed, shownAt>>

-----------------------------------------------------------------------------

\* Mutant of since_to_hours: hours that have begun count.
since_to_hours_begun(since) == (now - since + Hour - 1) \div Hour

\* Whole hours that have passed since then.
since_to_hours(since) == (now - since) \div Hour

\* run_history, history_inner: a moment in the future is refused; build_history_params.
AskHistory(since, status_filter, action_filter, limit) ==
    /\ query = NoFilter
    /\ since \in Nat => since <= now
    /\ query' = [since |-> since, status |-> status_filter, action |-> action_filter,
                 limit |-> limit, at |-> now,
                 hours |-> IF since = NoFilter THEN NoFilter ELSE since_to_hours(since)]
    /\ UNCHANGED <<listing, missed, shownAt>> /\ UNCHANGED storeVars

\* The WHERE clauses of list_transactions that are about columns other than created_at.
Wanted == {t \in Rows : /\ query.status \in {NoFilter, status[t]}
                        /\ query.action \in {NoFilter, hash[t]}}

\* created_at > now - hours: compared as time, or, in SQLite, as the text "...T..."
\* with the text "... ...", where the row is the greater one on the same date.
Recent(t) ==
    LET threshold == now - query.hours * Hour
    IN  query.hours = NoFilter \/ IF Backend = "sqlite" THEN Day(created_at(t)) >= Day(threshold)
                             ELSE created_at(t) > threshold

\* `n as u32`, then limit.min(100).
Limit == LET n == query.limit % U32 IN IF n <= HISTORY_CAP THEN n ELSE HISTORY_CAP

\* ORDER BY seq DESC LIMIT.
IsPage(shown, selected) ==
    /\ Cardinality(shown) = IF Cardinality(selected) <= Limit THEN Cardinality(selected) ELSE Limit
    /\ \A t \in shown, u \in selected \ shown : seq[t] > seq[u]

\* handle_query_action for ListJobHistory, some time later.
ListTransactions ==
    /\ query # NoFilter /\ shownAt = NoFilter
    /\ \E shown \in SUBSET {t \in Wanted : Recent(t)} :
          /\ IsPage(shown, {t \in Wanted : Recent(t)})
          /\ listing' = shown /\ missed' = Wanted \ shown
    /\ shownAt' = now
    /\ UNCHANGED query /\ UNCHANGED storeVars

\* The answer is read and another question may follow.
HistoryRead ==
    /\ shownAt # NoFilter
    /\ query' = NoFilter /\ listing' = {} /\ missed' = {} /\ shownAt' = NoFilter
    /\ UNCHANGED storeVars

-----------------------------------------------------------------------------

HistoryInit == StoreInit /\ query = NoFilter /\ listing = {} /\ missed = {} /\ shownAt = NoFilter

Ask ==
    \E since \in (0 .. now) \union {NoFilter}, status_filter \in {NoFilter} \union StatusFilters,
       action_filter \in {NoFilter} \union ActionFilters, limit \in Limits :
          AskHistory(since, status_filter, action_filter, limit)

HistoryNext ==
    \/ StoreNext /\ UNCHANGED askVars
    \/ Ask \/ ListTransactions \/ HistoryRead

HistorySpec == HistoryInit /\ [][HistoryNext]_<<storeVars, askVars>>

-----------------------------------------------------------------------------
\* How far "only entries after this timestamp" (docs/cli.md:118) can be off, with the
\* hours rounded down on one side, added again later on the other, compared as text
\* and cut at a limit.  PostgreSQL shows nothing older, SQLite nothing of an earlier
\* day; what is not shown is older than everything shown, on a full page, or less than an
\* hour (and the time the question took, and the seconds PostgreSQL's rows lack) younger.
HistoryWindow ==
    shownAt # NoFilter =>
        /\ Cardinality(listing) <= query.limit
        /\ query.since # NoFilter => \A t \in listing :
              IF Backend = "sqlite" THEN Day(created[t]) >= Day(query.since)
              ELSE created[t] > query.since
        /\ \A t \in missed :
              \/ Cardinality(listing) = Limit /\ \A u \in listing : seq[u] > seq[t]
              \/ /\ query.since # NoFilter
                 /\ created[t] < query.since + Hour + (shownAt - query.at) + Lag(Backend)

\* Both windows of time, for an instance on PostgreSQL: how long a row is approvable
\* and how far a listing can be off, with stamps that lack their seconds.
StoreWindows == ApprovalWindow /\ HistoryWindow
=============================================================================
