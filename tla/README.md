# LACS / SysKnife: specification and proofs

This directory models SysKnife: the privileged daemon's preview → approve → execute
protocol, the audit store behind it, its hash chain and key, the daemon's two ends
(accept loop, audit forwarder), the clients that run plans against it, the planner that
makes the plans, the desktop shell, and the tables that say what each of 141 actions may do.
The models are TLA+ modules; TLC checks them on small instances, and TLAPS proves the
most important results for every value of the constants. All paths below are relative to
`src/`; `daemon/` stands for `crates/sysknife-daemon/src/`, `brain/` for
`crates/sysknife-brain/src/`, `cli/` for `apps/sysknife-cli/src/`, `shell/` for
`apps/sysknife-shell/`.

## 1. Inventory

| component | state | operations | what is hard | what must hold | module |
|---|---|---|---|---|---|
| **Job state machine** `daemon/jobs.rs` | a status per job | `new`, `transition_to`, `cancel`, `needs_reboot` | every writer must respect it | no transition out of a terminal status | JobLifecycle |
| **Audit store** `daemon/transactions.rs`, `daemon/store/postgres.rs` | previewed transactions: status, request hash, creation time, seq | `record(_previewed)`, `find_by_request_hash`, `claim_for_execution`, `update_status`, `cleanup_stale_queued`, `list_transactions` | comparing times kept as text, read-then-write updates, lost commits | the approval window, no revival of a used or expired approval | TransactionStore, JobHistory |
| **Audit chain** `daemon/audit_chain.rs` and the recordings of both stores | rows with `seq`, `prev_chain_hash`, `chain_hash`; the key file | recording (BEGIN, SELECT tail, INSERT, COMMIT), `verify_chain`, `load_or_generate` | interleaved statements, aborts, power loss, changes behind the daemon's back, processes that make the key at once | one chain whatever the interleaving; what verifies is authentic and complete; one key | AuditChain, AuditKeyFile |
| **Dispatcher** `daemon/dispatcher.rs` | per connection: role, request, transaction, outcome, kept across awaits | Preview, Execute, QueryState, QueryAction, Describe, Cancel | handlers interleave at every await; clients vanish; the store fails; crash and restart | at most one run per preview, only what was previewed and only for who may, truthful rows and answers, no silent gap | ApprovalExec, HostSession |
| **Accept loops** `daemon/main.rs`, `daemon/auth.rs`, `daemon/transport/` | 16 permits, role and token of each connection | start, accept, refuse, authenticate, shut down; the unit's restart | permits shared by two loops, tokens that rotate, silent peers, no timeouts after admission | a permit comes back when its peer leaves or fails to authenticate; nobody is served above what was granted | AcceptLoop |
| **Audit forwarder** `daemon/audit_forward.rs` | queue, drop counter, socket, backoff | `submit`, `forwarder_task` | tasks interleave, the queue is full, the socket fails | order kept, an outage announced once, backoff ends with it | AuditForward |
| **Role policy** `daemon/policy.rs` | minimum roles, overrides | `from_overrides`, `action_allowed` | overrides change between preview and execute | nothing changes for a role below the minimum | ActionTables, HostSession |
| **Action catalogue, executor** `daemon/actions/`, `executor.rs`, `preview.rs` | none: tables kept by hand in seven places | `build_action_spec`, `rollback_spec_for`, `preview_for` | the tables must agree | where they do not is known: dead ends, belittling and unclassified previews | ActionCatalogue, ActionTables, HostSession |
| **Plan executors** `cli/runner.rs`, `cli/mcp_server.rs`, `shell/src-tauri/src/commands.rs` | plan, step index, confirmations | `run_intent`, `execute_steps_inner`, `approve_preview`; `decide_step` | planner's risk versus the daemon's; a failed step in the middle | flags respected, steps in order, true outcome | ApprovalPolicy, PlanExecution |
| **History** `cli/runner.rs`, `cli/mcp_server.rs` | a question and its answer | `run_history`, `rfc3339_to_unix` | a timestamp becomes hours becomes a timestamp | how far the list may be off | JobHistory, CivilCalendar |
| **Planner** `brain/planner.rs`, `rate_limit.rs`, `prefs.rs` | turns, tool calls; two files shared by processes | `plan_intent`, `summarize`, `check_and_consume` | loop bounds, read-modify-write of files | answers complete, the limit kept, the loop ends | Planner, RateLimiter |
| **Prompt** `brain/prompt.rs`, `brain/planning_tools/` | statements about risks and parameters | `build_system_prompt`, query tools | what the prompt teaches, other tables may refuse | where an obedient model is stopped is known | PlannerPrompt, HostSession |
| **Shell page** `shell/src/` and `commands.rs` | reducer state, pending promises and events | submit, approve, reset, dismiss | late answers, event names | "planning" and "executing" end; only late answers confuse | ShellSession |
| **Setup and configuration** `crates/sysknife-core/src/config.rs`, `brain/config.rs`, `SetupWizard.tsx` | environment, `config.toml`, wizard | merge, read, check, choose | several sources win key by key | what was chosen is used; what is shown is true | SetupSession |
| **Distribution** `crates/sysknife-core/src/distro.rs`, `cli/distro_routing.rs` | `/etc/os-release` | `detect`, routing guard | malformed or derived files | the family fits | DistroDetection, HostSession |

A request flows like this. A client connects; its role is fixed from peer credentials
or a token. `Preview` validates and authorises the request, collects state and inserts a
`Queued` row with the hash of the request. The client approves by sending `Execute` with
that hash. The handler authorises again, looks the row up by hash (newest, `Queued`, inside
the window), claims it with a conditional UPDATE, announces `JobStarted`, runs the command,
perhaps a rollback, writes the final status, and sends `JobCompleted`. All handlers run
concurrently and share only the store and the machine. Two tasks per transaction hand its
events to the forwarder. The plan itself comes from a loop of model completions in the CLI,
the MCP server or the shell, all of which share a rate-limit and a preferences file.

## 2. Modules

```
JobLifecycle                     abstract: the status of each job
   ^ implemented by (JobSpec)
TransactionStore                 abstract: atomic store operations, the window
   ^ implemented by (StoreRefinement)      ^ extended by
ApprovalExec                     JobHistory          CivilCalendar
   handlers, await by await         questions           day numbers
AuditChain        AuditKeyFile             (side by side in MCAuditChain)
LossyQueue                       abstract: a bounded line that loses at its ends
   ^ implemented by (ForwardsAsPromised)
AuditForward    AcceptLoop
       ^ composed by ^
        DaemonEdge
ApprovalPolicy <- PlanExecution
RateLimiter <- Planner <- ShellSession     SetupSession   (side by side in MCShellSession)
ActionCatalogue <- ActionTables <- PlannerPrompt
                                      ^ composed by
                                   HostSession -> DistroDetection

TransactionStoreProofs (with JobHistory and CivilCalendar), ApprovalExecProofs,
AuditChainProofs (with AuditKeyFile), PlanExecutionProofs, DaemonEdgeProofs,
ShellSessionProofs (with SetupSession), HostSessionProofs; NaturalSets (facts about numbers)
MCTransactionStore, MCApprovalExec, MCPlanExecution, MCAuditChain, MCDaemonEdge,
MCShellSession, MCHostSession              instances
```

`PROJECT.json` maps each definition to its source lines. Operators whose comment begins
with "Mutant" are not part of the model: each is a plausible bug, kept beside the definition
it would replace, with the property that notices it named in `PROJECT.json`.

**JobLifecycle.** `state[j]` is the status of job `j`, `"Absent"` before
`JobStateMachine::new`; `transition_to` has `allowed_transition` as its guard.

**TransactionStore.** A row is the values at `t` of `status`, `hash`, `created`, `seq`. The
clock counts ticks; a day has `DayLength` of them, the window `TTL`. `Fresh` and `Stale`
are the two WHERE clauses. PostgreSQL compares instants. SQLite compares text: `strftime`
wrote `2026-01-31T09:00:00.000Z`, `datetime('now','-15 minutes')` yields
`2026-01-31 08:45:00`; on equal dates the `T` is greater than the blank, so only the days
count. PostgreSQL's rows are stamped by `now_iso`, whose format leaves the seconds out: `created_at(t)`, what the
column says, is the last full `Minute` before the row was `created`. Request hashes are taken to be injective; ids are fresh UUIDs, issued once. There is
one clock, although PostgreSQL's rows are stamped by the daemon's and compared with the
database's.

**JobHistory, CivilCalendar.** `AskHistory` turns "since" into whole hours, rounded down;
`ListTransactions` turns the hours back, some time later, and selects and cuts the page.
`DaysFromCivil` is the calendar arithmetic of `rfc3339_to_unix`; `NextDay` knows only the
lengths of the months.

**ApprovalExec.** Each connection slot has a program counter that names the handler's next
await point, and the locals that live across awaits (`req`, `tx`, `outcome`):

| pc | code |
|---|---|
| closed, idle | no connection; `dispatch_loop` waits in `recv` |
| answer | the preview, or an error, is being sent |
| preview | `handle_preview` before `record_previewed` |
| find, claim, start, spawn | `handle_execute`: lookup, claim, `JobStarted`, spawn |
| run | `stream_command_with_progress` |
| rollback, rolling | `attempt_rollback_if_needed` |
| update, write | `update_status`; `write` lies between SQLite's SELECT and UPDATE |
| complete | `JobCompleted` |

Requests that are refused, and the read-only ones, change nothing and are stuttering steps.
`starts`, `ran`, `ranRole`, `exit`, `rolled` record what happened on the machine, `reported`
and `gap` what the client was told; the code has no such variables and no guard of the daemon
reads them, except that a handler waits for its own command's end. Faults are named
constants, so each run says which it allows: a client that vanishes (`disconnect`) or stays and reads nothing (`deaf`), a
store call without effect (`store`), a PostgreSQL commit whose answer is lost (`lost_ack`),
unreadable output (`bad_output`), a crash of the daemon (`crash`), a power loss (`power`).
A send to a `peer` that has gone fails; one to a deaf peer may never end (`Blocked`), for `write_all` has no timeout. What
JobCompleted said counts as `reported` if it was written to a peer, which may have died before it read it,
and as `Unheard` if the peer was known to be gone.
With SQLite `durable` holds what the last checkpoint synchronised
(`synchronous = NORMAL`); with PostgreSQL a commit is durable.

**AuditChain.** `TransactionStore` takes a recording for atomic; here are its statements.
SQLite: `BEGIN IMMEDIATE` excludes every other writer until commit. PostgreSQL: the SELECT
reads a snapshot, `FOR UPDATE` waits for the lock of the row it found and then returns that
row again (READ COMMITTED re-reads the row and not the ORDER BY), and the INSERT waits for or
fails on a row with the same `seq`. The HMAC is a pair constructor. `Tamper` removes a row,
edits one, or adds one composed of hashes that were ever in the table. `Checked` is the
prefix `verify_chain` passes.

**AuditKeyFile.** Daemons and verifiers (`sysknife audit verify`, the doctor's check, the MCP
tools) each walk `load_or_generate` step by step: stat, exclusive create, write, stat the
permissions, read. A row is the key that signed it; a verdict is what the user is told, under
each command's names. Processes die between any two steps; an operator removes the key or
the chain or opens the file's permissions.

**AcceptLoop, AuditForward, DaemonEdge.** `conn[c]` is `backlog`, `auth` (VSOCK, first frame
awaited for ten seconds), `open`; `gone[c]` says that the client has left. An open connection ends when
its peer leaves or sends something that is not JSON, and in no other way: after admission there is no timeout. Every exit of the accept loop ends the process with status
0, every failure of start-up with status 1, and the unit restarts failures only. `task[e]` is the
task that forwards event `e`: it reads the row back, `try_send`s, and, apart from that, resets the
drop counter; the forwarder takes an event in `hand`, sends, reopens, sleeps. `turn[e]` (the place of `e`
among the accepted events) and `uncapped` (the wait if it had no ceiling) only observe. DaemonEdge joins
them: the tasks of a connection outlive it, and none of them outlives the process.

**LossyQueue.** What the forwarder promises: `pending` events are offered once each to a `line` of
bounded length, join at its end or are turned away, and leave from its front, `received` or lost; a shutdown
may take all of it. Seen so (`Lossy` in AuditForward), what the forwarder has in hand and what is in its
channel are the line, and a send that fails is a loss at the front.

**ApprovalPolicy, PlanExecution.** The decisions of `approval.rs` are pure operators.
`PlanExecution` is one loop with the differences of the clients as guards: the CLI asks by
the planner's risk and goes on after a failed job, the MCP server compares the risk of each
preview and stops at a result other than Succeeded, the shell stops too and may give up on
a job that goes on. `declared` and `assessed` are the planner's and the daemon's risk of a
step, independent of each other.

**RateLimiter, Planner.** Each process has the limit it read from `SYSKNIFE_MAX_RPM`
(`max_per_minute`), and all share a file. Each call of `check_and_consume` takes its process's Mutex, reads
and counts the shared file, and replaces it; another process may come between. `Planner` has
the tool-call loop: up to `max_turns` completions, each a sequence of calls answered one by
one (`Batches`), with queries, preferences read and replaced without a lock, and the ways
out of the loop. A query the daemon does not answer is an error of the tool (`AnswerQuery`), a state it
does not give is the end of the call (`StateUnavailable`).

**ShellSession, SetupSession.** The page's modes are the reducer's; `promise[r]` is a pending
`invoke`, `inbox` the events not yet handled, `Bridged` whether the names the backend emits are
the ones the page listens to (at this commit they are not, and `Bridged = TRUE` asks
whether the rest would work). `SetupSession` merges `config.toml` and environment at a start, key by key,
reads the result as `BrainConfig::from_env` does, and has the wizard's steps. The user makes the wizard's file
(`CreateFile`) where the page says (`CONFIG_PATH`) or where the program reads (`config_path`); these are two places.
Text that differs in case only is told apart where the code does (`Lowercase`).

**ActionCatalogue, ActionTables, PlannerPrompt, DistroDetection, HostSession.** Of a
constructor's command line the catalogue keeps the part of the host it changes, its risk,
reboot and rollback flags. The tables are the policy's tiers, the preview's profiles, the
parameters the executor insists on, the routing families, the query tools, and every
risk and parameter the three prompts state. `HostSession` takes one action at a time
through all of them, with restarts under other overrides and reconnects under other roles: a query or
a description may be asked by anybody, a preview and an execute by who is allowed to. A query that
ran and failed counts as run.

## 3. Runs

All passing runs explore every reachable state. Deadlock checking is off everywhere: rows,
ids, calls and plans are finite, so every instance stops once they are used up.

| run | question | bounds | distinct states |
|---|---|---|---|
| `store` | the approval window, no revival, the job state machine; how far `history` can be off; the calendar | scenes: store, history, PostgreSQL, calendar. 2 rows, 2 requests, TTL 2, day 4, a start at any hour, clock to 9 (two midnights); on PostgreSQL a minute of 2 and a TTL and an hour of 4; page cap 2 and a 2-bit `u32`; 800 days from 1970, 1999, 2023 and 2099 | 2.1 million |
| `exec_sqlite` | truthful status, no silent gap, refinement of the store, everything ends | 2 connections, 1 row, 2 requests of different privilege, one with reboot and rollback; disconnect, deaf, store, bad_output | 112 thousand |
| `exec_postgres` | no replay, at most one run, truthful answers | 2 connections, 2 rows, a clock that ends the window; disconnect, store, lost_ack, crash, power | 1.28 million |
| `exec_power` | authorisation when SQLite loses commits | 2 connections, 2 rows, 2 requests of different privilege; power | 7.3 million |
| `plan` | order and halting, flags, truth of the outcome, termination and the steps left until then | 3 clients, 2 steps, 3 × 3 risks per step, all flags | 134 thousand |
| `chain` | one chain, authenticity, completeness, append-only, every recording ends; one key, fair verdicts, daemons that start | scenes: 2 recordings at a time, 3 ids, both backends, one change; one at a time between two changes; 2 daemons and a verifier with 2 crashes or interventions | 381 thousand |
| `host` | changes are earned, dead ends, previews, prompt | all 141 actions, 7 configurations, 6 os-release files, 4 roles | 297 thousand |
| `edge` | admission, order of events, outages, refinement of the lossy queue, nothing hangs but by clients that stay | scenes: 2 clients that may leave, 1 permit, tokens; 3 events, queue 1, threshold 1, backoff 1, 2, 3 | 79 thousand |
| `shell` | limiter, planner and the bound of its conversations, page, setup | scenes: page with 2 requests; 4 calls of 2 processes with different limits in a window of 2; 2 conversations of 2 turns; setup with 6 environments, 5 files and the wizard's in either place | 439 thousand |
| `store_ttl` | *violated*: the window is 15 minutes | as `store` | |
| `exec_disconnect` | *violated*: a lost client aborts nothing | 2 connections, 2 rows | |
| `shell_stuck` | *violated*: "executing" ends, with the event names of this commit | as `shell` | |

*Scenes.* Where a run has several, their product would be too large and tell nothing:
the parts share no variable that matters to the question. Each MC module says what its
scenes leave out, in `InScene`, `Quiet`, `OneByOne` or `EditedBetween`.

*Why the bounds are enough to be interesting.* Two connections are what every race
here needs: two lookups of one row before one claim, an orphaned command and a second
handler, a write between another's read and write. Two rows with one request make the hash
ambiguous and `ORDER BY seq` matter; two requests of different privilege make the hash decide what runs, and for whom.
A minute of two ticks has a stamp that is right and one that is early. The clock passes two midnights, and the window is longer
than a tick and shorter than a day, so that both its ends fall on either side of a
midnight. Three recordings give a row with a predecessor and a successor, so that deletion, re-making
and reuse of a seq happen in the middle; a second change with a recording in between is what
`CheckedIsGapless` needs its condition for (section 5). Two steps are enough for "the next step" to be wrong and for
a ceiling broken only by the second. A queue and a threshold of one are reached by the
second event; the backoff doubles once and is then capped. Four calls exceed a limit of two
after some have left the window. The calendar crosses leap days, ends of years, 2000 and 2100.
`MaxTime`, `MaxTamper`, `MaxTrouble`, `Horizon`, `Span`, `MaxEntries` and the finite sets of
ids and calls are the only bounds on behaviours; `starts` counts to 2, "more than once".

### Fairness

- `ApprovalExec`: weak fairness per handler (tokio polls a handler that can go on; every
  store call ends, by SQLite's busy timeout or PostgreSQL's error; a send ends unless its peer is deaf) and per command
  (commands end: an assumption on the machine, since the daemon sets no timeout on them). A handler that is
  `Blocked` owes nothing, and `EverythingEnds` has it as the one exception.
- `PlanExecution`: the client is scheduled, the daemon serves, and whoever is asked for a confirmation answers (EOF is a
  no): the one thing assumed of users.
- `AuditChain`: each statement that can be executed is. Every attempt takes a fresh UUID, so
  attempts are finite in an instance; without that bound a stream of aborted recordings could
  overtake a waiting one, and the database's queue would have to be assumed fair.
- `AuditKeyFile`: a process that runs goes on; the unit starts the daemon.
- `DaemonEdge`: tasks are polled, sends, binds and sleeps end, timers fire, systemd restarts
  a service that failed, and the kernel reports the end of a stream whose peer left (`EndOfStream`). Clients need not
  speak, leave or be quick: an open connection may last for ever, and `NothingHangs` says what follows from that. A permit
  of a client that left or did not authenticate comes back (`PermitsReturn`); who knocks is admitted or
  refused (`BacklogAnswered`); and if the door stays closed, then by clients that were admitted and stay
  (`ClosedByStayers`). An exit with status 0 is not restarted, and nothing is promised after it.
- `ShellSession`: promises settle, the event loop runs, the provider and the daemon answer.

Nothing else is assumed of users, and nothing of clients, faults, other programs or time.

## 4. Proofs

TLAPS proves the following for any sets of connections, recordings, rows, requests, roles,
processes, planning calls, events, environments, configuration files, overrides and hosts, any plan
length, limit and window, TTL, day length and clock bound and any set of faults:

| module | theorems | assumption |
|---|---|---|
| TransactionStoreProofs | `StoreTypeCorrect`, `StoreImplementsJobs`, `NeverExpiresEarly`, `WindowIsBounded`, `ExpiryHasNoGap`, `WindowIsSound`, `ApprovalsNeverRevive`, `HistoryIsBounded` | – |
| | `CalendarIsRight` | the anchors are right |
| ApprovalExecProofs | `TypeCorrect`, `RunsOnlyAuthorised` | – |
| | `RunsAtMostOnce`, `ReplaysNothing`, `OwnsAlone`, `ReportsTruthfully`, `StatusIsTrue`, `NoGapIsSilent`, `ExecImplementsStore`, `ExecImplementsJobs` | `CommitsAreDurable` |
| AuditChainProofs | `ChainStaysIntact`, `PassedIsAuthentic`, `PassedIsGapless`, `LogOnlyGrows`, `RecordingsNeverDeadlock`, `KeyInvariant`, `OneKeyAlways`, `VerdictAlwaysFair`, `KeyAlwaysSound` | – |
| PlanExecutionProofs | `PlanInvariant`, `PlanOrderKept`, `PlanFlagsRespected`, `PlanOutcomeIsTrue`, `PlanIsBounded` | – |
| DaemonEdgeProofs | `EdgeAdmitsAsGranted`, `OutagesAnnounced`, `OutageTracked`, `ForwardsInOrder`, `ForwardingAlwaysSound`, `ForwarderIsLossyQueue` | – |
| ShellSessionProofs | `LimitAlwaysKept`, `AlwaysToldTruly`, `ConversationsAreBounded`, `PageNeverConfused`, `ConfigurationAlwaysApplies`, `WizardAlwaysTellsTruth` | – |
| HostSessionProofs | `EveryChangeIsEarned`, `NoOtherDeadEnds`, `PreviewsAlwaysTell`, `ObeyingThePromptIsSafe` | – |

The assumptions the modules make of their constants (`...Assumption`) are evaluated by TLC in
every run. `CommitsAreDurable` says PostgreSQL, or no power loss: with SQLite's
`synchronous = NORMAL` a power loss after the command ran puts the row back to Queued, and
the command may run again; that is why `exec_power` checks only authorisation.

**Authorisation** (`AuthInv`). Role, validity and hash are checked when the request
arrives, and used after several awaits. `ExecutionAuthorised` alone says nothing of a handler
that has not run its command yet; the invariant adds that each handler's request is still valid
and authorised, and that the row it found has that request's hash. Power loss does not disturb it:
rows may go back in status, but not in hash.

**The claim** (`ClaimInv`). "At most one run" is not inductive: a handler about to spawn must
have an unrun row, hence a Queued row was never run, hence a row someone owns is Running until
that handler writes its end, hence no two handlers own one row. `ClaimInv` is the conjunction,
together with what was reported.

**Outcome and gap** (`OutcomeInv`). A row's status is the handler's `outcome` of some steps
earlier, so the invariant carries the truth of `outcome` (`TrueOf`) from the command's exit
through the rollback to the write, on top of `ClaimInv`, by which nobody else writes meanwhile.
`NoSilentGap` follows step by step: only a handler whose update failed, or that was cut off before it began, leaves a row
Running, and the former has a JobCompleted with the warning behind it, written to its peer or `Unheard` by one that had gone. (That
the latter is not announced is `exec_disconnect`'s finding; its command was never started.)

**Refinement.** Every handler step is one atomic store operation or leaves the table alone. The
difficult case is SQLite's second statement, which writes without looking: `ClaimInv` says that
the row is still Running. `StoreImplementsJobs` then gives `ExecImplementsJobs`.

**The window.** `NeverExpiresEarly` and `WindowIsBounded` rest on lemmas about the day of an
instant (`x \div DayLength`): monotone, and less than a day off. On PostgreSQL the stamp of a row is early by less than a
`Minute` (`StampIsEarly`), so that nothing is found after the TTL and nothing is given up before the TTL less `Lag`.

**The chain.** `HealthyChainIntact` speaks of committed rows only. `ChainInv` adds what makes a
commit harmless: what a recording has inserted follows a committed row (or is the first), and no
other row, committed or pending, has its seq; on PostgreSQL the unique index keeps this in spite of the stale
tail. `LinkedIsIntact` is the other half: in a table of linked rows the row before `r` in seq order is the
one `r` was linked to. `PassedIsAuthentic` needs another invariant (`ForgeryInv`): every hash in
the table, whoever put it there, is one the daemon made, so that a row whose hash is right has
all the fields of a row it wrote. `PassedIsGapless` adds that seq is unique whatever is done to the table (`SeqInv`); a
row that passes carries the hash of the row before it, which passes too and has, being authentic,
the number before (`PassedHasPredecessor`); a least number without a row would contradict that
(`LeastExists`), and rows numbered 1 to n are n rows (`NumberedCounts`). `LogOnlyGrows` adds to
`ChainInv` that the seqs are 1 to n in the table and in what survives a power loss.

**No deadlock** (`LockInv`, in AuditChainProofs). That a recording ends is liveness; that recordings never all wait
for each other (`NoDeadlock`) is not, and is proved. Who waits for the lock of a row waits for a recording at its INSERT or COMMIT; an INSERT waits for rows
not yet committed, and only a recording at its COMMIT has one in the unique index, which is the invariant; a COMMIT
waits for nobody (`SomebodyGoesOn`).

**The key** (`KeyInv`). Every process that runs with a key holds the key of the file, and every row
was signed with it (`OneKey`), as long as no key in use was removed; `KeyInHand` says at which steps a
process has a key at all. Exclusive creation is what makes this inductive: of two processes
that found no file one fails, and gives up. A broken verdict then needs a row signed with another
key, and no report of another outcome looks like one (`OnlyBrokenReportsBroken`).

**Plans** (`PlanInv`). Past steps were approved by what their client goes by (`CliApproved`,
`McpBounded`), and in the clients that stop they succeeded (`PastSucceeded`); the job of the
step in hand may be ahead of what the client knows (`InFlight`). That `decide_plan` stops at a first step rests on
`LeastExists`. `PlanIsBounded` is the safety half of `PlanEnds`: `Left`, 5 N + 2 at the start, is lowered by
every step, the daemon's included, and never falls below zero (`StepLowersLeft`).

**History and calendar.** `HistoryIsBounded` is arithmetic on the answer of one step: what `since_to_hours`
rounds off is less than an hour, and the day of an earlier instant is not later. `CalendarIsRight` is an
induction along `CalendarNext`, day by day: the day after a date on which `DaysFromCivil` is right is one on
which it is right, by cases over the month (`IsAnchored`). Where it starts, it must be right, and
`EpochIsDayZero` gives 1970-01-01; TLC walks from four anchors.

**The edge** (`AcceptInv`, `WaitInv`, `OrderInv`). Permits are counted by the set of live handlers; each accept and
each end changes both by one. The backoff equals the capped `uncapped` through every reopening and sleep (`WaitInv`).
Order is a fact about three places at once: what was sent came before what is in hand, and that before what
waits (`SentBeforeHeld`); and an event has no turn before its `try_send` (`TurnsAreTaken`).
`ForwarderIsLossyQueue` maps each step of the edge to one of `LossyQueue` or to a stutter. It needs
the invariant of order, and of it that the forwarder never holds more than one event (`HeldIsOne`), so that a send takes
just the front of the line; the accept loop's steps are stutters, but for those that end the process.

**The rate limit** (`LimitInv`). That a new line leaves the window within the limit does not follow from
the count alone: the call that writes may have read the clock before others. `FileIsComplete` says that the
file has every allowed call in the window of all the others; with it, a call that replaces the file
without overlapping another process is the latest of all, and has counted everybody in its window
(`CountedAll`). The limit that holds is the one of the process that made the latest call of the window; a refusal's
wait is enough only where the file held no more lines than the limit of whoever waits, since it is counted from the oldest line.
A refusal stays true because the file changes only when somebody is admitted (`RefusalInv`).

**The conversation** (`ToldInv`). In the middle of a batch the answers are those to its first calls
(`AnswersInv`); the preferences need no more than `raced`. `ConversationsAreBounded` is the safety half of `PlanningEnds`,
and more, for the conversations share files: of the triple of turns left, calls unanswered and stage
of the call, each step of a conversation lowers the first part it changes, and no step of another one touches it
(`ComesForward`). None of the three is ever negative, which needs that a turn is asked for only while one is left
(`TurnInv`) and, until the very end, that no answer is without its call (`AnswersInv`).

**The page** (`PageInv`). Until the answer to a request given up arrives, one job runs, the plan's
(`OneJob`), and the end of a job is the last event on its way and follows that job's result (`EndIsLast`),
so that the result the page remembers is the one whose end arrives.

**The setup.** `ConfigurationApplies` relates the planner to a choice made before the last start. The invariant (`SetupInv`)
says what the wizard may have written (a cloud provider, or a local model from its list, with a thinking mode only
where that is offered), that a file nobody edited since, made where the program reads, holds just that, and that the running shell is what `StartShell`
made of environment and file; what follows is `ApplyDefaults` and `FromEnv` key by key. `WizardTellsTruth` needs
`PageTold`: a visit of the model page knows the hardware its own detection found, or is still waiting for it.

**The session** (`SessionInv`, `PromptInv`). What the tables say together is closed: no constant occurs in it, TLC
decides it on every run (`TiersAssumption`, `NamesAssumption`, `ToolsAssumption`, `PromptAssumption` in HostSession), and
nothing else about the tables is used. The proofs carry it through a session: an override in force only
raises (`OverridesRaise`), whatever configurations the daemon was restarted with in between; a change is
of the step in hand and by a role the policy in force admits (`ChangeIsOfStep`); a step came from a name the tables know
(`StepsAreNamed`) or out of a table of the prompt for that host (`Taught`), and a family is one its file names (`FamilyIsNamed`).
`PreviewsAlwaysTell` is about two steps with restarts and reconnects between them: what waits for approval is an action
the tables know (`ApprovedIsKnown`), and a run is recorded as failed only where no rollback was possible
(`FailedHadNoRollback`), which is what its preview said, but for four actions. Where prompt, preview and executor
disagree is named in the statements: `Understated` (five actions) and what is not in `ClassifiedProfile`. The comparison of the preview table
with the executor's is `PreviewsAssumption`, without a constant and evaluated by TLC as the others are.

*What the proofs corrected.* An override may restate a level: a query then runs an action that has an override, and
`ChangesAreEarned` had denied that until its proof failed; `MCRawOverrides` has such a configuration now. The wizard's
`DEFAULT_CLOUD_MODELS` has no entry for Ollama, as the model once had.

*Only model-checked.* All liveness, which is beyond the prover, as is ENABLED: `EverythingEnds`, `PlanEnds`,
`NothingHangs`, and of `WritersGoOn` and `PageMovesOn` the parts `RecordingEnds`, `DaemonStarts`, `PlanningEnds` and
`ExecutingEnds`. Of three of them the part that is safety is proved: no plan or conversation goes on for ever
(`PlanIsBounded`, `ConversationsAreBounded`), no recordings block each other (`RecordingsNeverDeadlock`). That what can
go on does go on is fairness, and TLC's.
What the tables of actions say of each other is decided by TLC, as the assumptions named above; the theorems add
that a session never needs more. Every other property of a passing run is a theorem (`PostgresWindows` is `ApprovalWindow` and
`HistoryWindow` on that backend), and one that no run checks: `NoDeadlock` follows on an instance from `WritersGoOn`, and for all of them from the proof.

*Several mutants.* `KeyIsSound`, `ForwardingIsSound`, `WritersGoOn`, `PageMovesOn`, `PostgresWindows` and `NothingHangs` are conjunctions of properties a run
checks together; `PROJECT.json` lists several mutants for each, and theorems prove the parts of the first two as well.

## 5. Where code and documents disagree

Shown by a run:

1. `store_ttl`: SQLite's window lasts until the end of the threshold's day, up to the TTL plus a
   day (`WindowCloses` has the true bound), not 15 minutes (SECURITY.md:109-112).
2. `exec_disconnect`: the `JobStarted` send ends the handler with `?`; the claimed operation is
   dropped and its row stays Running. The comment at `daemon/dispatcher.rs:1531-1533` excludes
   exactly that, for the later sends.
3. `shell_stuck`: the backend emits `sysknife:*`, the page listens to `lacs:*`; after Approve the
   page stays in "executing" (`commands.rs:246-248` says it is never left stuck there).

Stated in the modules without a run of their own; TLC refutes each when it is asked:

4. `FoundWithinTTL` (TransactionStore, with PostgreSQL): `now_iso` formats `%H:%M:%.3fZ`, without the seconds; rows are
   stamped up to 59 s early, and a preview younger than 15 minutes may be gone (`daemon/store/postgres.rs:176`; line 245
   says the window matches SQLite's). `NoEarlyExpiry` and `HistoryWindow` have that as `Lag`.
5. `PageNamesTheFile` (SetupSession): the wizard has the user create `~/.config/lacs/config.toml` and says that SysKnife will
   read it on startup (`SetupWizard.tsx:19, 546-548`); `config_path` is `~/.config/sysknife/config.toml`
   (`crates/sysknife-core/src/config.rs:405`), and the choice never applies.
6. `LowRiskIsShown` (HostSession): AptUpdate and AptAutoremove are Low by the comment of `daemon/preview.rs:118`, the former
   by that of `daemon/policy.rs:63-64` too, and are previewed as "High, unclassified action" (`preview.rs:423`).
7. `EveryCeilingAccepted` (PlanExecution): `parse_max_risk` (`cli/mcp_server.rs:606`) refuses the ceiling "high" that
   docs/mcp.md:65, 234-237 and the tool's own description (`cli/mcp_server.rs:334`) offer: there is no way to have the MCP
   server run a High step.
8. `CeilingBeforeExecution` (PlanExecution): the MCP server runs step one before it assesses
   step two (`cli/mcp_server.rs:327-328`, docs/mcp.md:67-68).
9. `HighIsConfirmed` (PlanExecution): with `--yes` a step the daemon assesses as High runs
   unconfirmed if the planner declared it lower (docs/cli.md:167).
10. `NoUniqueViolation` (AuditChain): PostgreSQL's FOR UPDATE does not prevent the race its comment
    describes (`daemon/store/postgres.rs:461-465`). `HealthyChainIntact` holds nevertheless:
    UNIQUE (seq) makes the loser fail, not the chain fork.

Written into the models and their properties as the code has it:

- *Chain.* `verify_chain` does not look at seq. Rows cut off the end are not missed
  (`audit_chain.rs:21-25` says so). Beyond that: rows deleted, a row forged on top, a recording
  onto it and the forged row removed leave a gap that passes; hence the condition of `CheckedIsGapless`.
- *Key.* A process that dies between create and write leaves a key file no later start repairs.
  A verifier may itself create the key. Once only the key is gone, verifiers call a sound chain broken.
- *Store.* A power loss can make an executed approval good again on SQLite (against
  `daemon/transactions.rs:222-225`); two previews of one request have one hash. `--since` is
  rounded to hours and compared as text (docs/cli.md:118); a limit is truncated to 32 bits.
- *Daemon.* A fatal accept error exits with status 0, which the unit does not restart
  (`daemon/main.rs:178-187`). Neither `recv` after admission nor `write_all` has a timeout (`daemon/dispatcher.rs:634`,
  `daemon/transport/framing.rs:36-45`): sixteen clients that stay and say nothing have everybody else refused, and a client that
  does not read keeps its handler, in the middle of an execute too. `cleanup_stale_queued` and `distro::current` are called by nobody.
- *Tables.* NetplanSet, ProAttach, ProDetach and RollbackDeployment promise a rollback that has
  no spec, as does GrubSetKargs in the executor only; AptAutoremove removes packages at
  risk Low; five actions that are High in the executor are previewed as Medium (AddPackageRepository, MaskService,
  SetDnsServers, ConfigureFirewall, CreateUser), and two that are Medium as High (the authorized-key actions); the preview of
  GrubSetKargs does not announce its reboot. Twenty-four actions have no arm in `preview_profile` and are shown as High,
  "unclassified action", of which the prompt teaches 21 as Low or Medium (all but GrubSetKargs, Fail2banBanIp and
  AppArmorEnforce): a plan that obeys the prompt is stopped there by the MCP server's ceiling. They are GrubSetKargs, UbuntuListFlatpaks,
  UbuntuInstall-, UbuntuRemove- and UbuntuUpdateFlatpak, ResolvectlStatus, ResolvectlSetDns, AptUpdate, AptAutoremove,
  AptListUpgradable, AptHistoryList, AddPpa, RemovePpa, SnapRevert, SnapClassicInstall, GrubGetKargs, Fail2banStatus,
  Fail2banBanIp, Fail2banUnbanIp, AppArmorStatus, AppArmorEnforce, AppArmorComplain, CheckPendingReboot and CloudInitStatus.
   ListJobHistory can be planned and not executed.
- *Prompt.* It asks for AptSearch's "package" where the executor wants "term"; worked examples
  omit the username of ListToolboxes, ListFlatpakRemotes, ListContainers and GetContainerInfo
  and are refused; five High actions are told Medium; AptAutoremove, told Low, runs unasked.
- *Distribution.* ID_LIKE is read and used by nobody; an Ubuntu version of three parts is no Ubuntu.
- *Planner.* `retry_after` is one second short at the edge of the window; each process has its own limit
  (`rate_limit.rs:73-84`) and names a wait that is too short if the file holds more lines than that; two processes may exceed the limit,
  and two conversations may lose each other's preferences (`prefs.rs:133`); an invalid `max_turns`
  replaces the whole configuration by Ollama's defaults.
- *Shell.* Answers to a request given up by Reset still reach the page; a plan of read-only steps is called
  completed without being sent (`App.tsx:146-149`); the GUI
  does not reload its configuration after the wizard (docs/configuration.md:15-16 says it does; the wizard says to restart);
  the wizard tests `OLLAMA_HOST`, which the planner ignores;
  a blank ANTHROPIC_API_KEY counts as configured.
- *CLI.* It exits with 0 after a plan with a Failed step (docs/cli.md:182).

## 6. Not modelled

- Text and bytes: prompt prose beyond risks and parameters, wording of previews, redaction of
  credentials, the sanitizer, RFC 5424, framing, command lines of the mechanisms, validation of parameter
  *values* (their presence is modelled), status names as printed and parsed.
- I/O: provider adapters, the client call layer (`client.rs`, `daemon_client.rs`) beyond its
  timeouts, losses and error answers, collection of system state, DDL and migrations.
- Displays: the REPL, the doctor's list, the shell's timeline and health indicator;
  `cancel_job` answers not_implemented.
- The CLI's `--timeout` (`cli/main.rs:34`), which ends the whole client: to the daemon, a client that vanishes.
- `SafetyAuditLog` (`brain/audit.rs`) is attached by nobody.
- Packaging, scripts, end-to-end tests, the daemon's test client.
- A process that stops for a whole window between reading the clock and the rate-limit file; a
  database clock apart from the daemon's; changes to the log while a recording is under way.

What could come next: what a wrong type or a malformed value of a parameter does to a step
(the executor's validators); a model of how two
commands on the machine interact when an orphaned one is still running; the deployment state behind rpm-ostree's rollback.
