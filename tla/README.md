# TLA+ specifications of the trading research system

These modules specify the parts of this repository where money, shares, broker
orders, model calls or human approvals can go wrong because steps of several
actors meet, or because a process dies between two of its commits: external and
local paper orders, the leases and budgets they run under, the positions they
make, the schedulers that run every day, and the research committee.  They are
model-checked with TLC, and part of them is proved with TLAPS.

File names below are relative to `src/src/trading_research/` unless they start
with `docs/`, `tests/` or `README.md`; `EB` is `paper_books/external_broker.py`
and `PR` is `storage/paper_books_repositories.py`.

Contents: 1 the system; 2 the modules and the code; 3 what the runs show;
4 bounds; 5 fairness; 6 proofs; 7 where code and documents disagree; 8 what is
not modelled; 9 plan.

## 1. The system

A research pipeline collects evidence, asks a committee of language-model roles
and several deterministic strategies for recommendations, and turns them into
order intents of several *paper books* (isolated portfolios).  An intent is
executed either by the local simulator or, for one enabled book, by an external
paper broker that is reached through a child process.  Everything durable is in
one SQLite database (WAL mode, autocommit connections, a busy timeout; explicit
`BEGIN IMMEDIATE` where a function needs a transaction).  Commands are started
from the command line, from the recurring paper scheduler, or by the shadow
scheduler: several processes may work on the same rows, and only some of them
take a lease.

The consequences for modelling are the same everywhere.  A statement outside an
explicit transaction commits by itself, so a step of a model is one commit, and
another process may act, or the process may die, between any two of them.  A
transaction holds SQLite's write lock from `BEGIN IMMEDIATE` to `COMMIT` and is
one step.  A call of the broker's runtime or of a model provider is outside every
transaction, and its request, effect and answer are separate steps.

### Components

| component | state it keeps | operations | what is hard, and what makes it correct |
|---|---|---|---|
| external order lease (`EB` OrderLeaseHandle, `PR` lease rows) | one row per order: owner, generation, expiry, status | acquire, heartbeat, fenced write, release | wall-clock expiry, takeover between two statements; a displaced call must not write or free its successor's lease |
| external order life cycle (`EB`) | event chain, lookups, previews, fills, reconciliations | preview, refresh, submit, retry, recover, reconcile, cancel, fill sweep | lost or late broker answers, crashes around the broker call, stale answers; no attempt sent twice, exposure reserved, fills booked once |
| daily notional budget (`EB`, `PR` attempt reservations) | one row per order, attempt and UTC date | reserve, settle, supersede, repair | several orders, midnight, repairs; the cap holds and exposure is counted |
| local execution simulator (`paper_books/execution.py`) | order rows, fill rows | submit_and_simulate, cancel, expire, persist | stale reads before the lock, crash between release and status; filled once, never short |
| cash ledger (`paper_books/cash_ledger.py`) | typed, append-only entries | reserve, release, settle | check-then-insert; a reservation is covered and released once |
| positions and lots (`paper_books/positions.py`) | quantity, average cost, FIFO lots, share reservations | apply buy or sell fill, reserve shares | oversell; lots add up to the position |
| execution namespace claims (`PR`) | one claim per intent | claim | local and external execution exclude each other |
| scheduled integration (`paper_books/scheduled_integration.py`, risk, valuation, pauses) | run records, decisions | one cycle: decide, approve, hand over | replays, partly done cycles |
| daily lifecycle and exits (`lifecycle.py`, `lifecycle_state.py`, `exit_policy.py`) | lifecycle runs, ATR levels, exit decisions and requests | resolve pending orders, expire, advance levels, decide and order exits | an exit rests for days, runs may overlap or die; a breached stop has an exit, and a stop never loosens |
| recurring paper scheduler (`recurring_scheduler.py`) | lease, run rows, queue, activation events | enqueue, claim, integrate, finalise; request, approve, deactivate | claims recovered by age, a lease renewed after it expired, approvals out of order |
| soak campaign (`soak_campaign.py`, `controlled_soak_readiness.py`) | attempts, one record per date, lifecycle and operator runs | run, resume, continue, review, promote | a crash in the middle of a date; nothing is done twice and a verdict rests on evidence |
| shadow scheduler, lease, pause, budget, attempts, health (`shadow/`) | run rows, lease, reservation, pause row, streaks | resolve a slot, reserve, call, settle; pause, resume, kill; fold a verdict | check-then-write without a transaction, runs that outlive their lease |
| research token budget (`strategies/research_budget.py`, `research/token_budget.py`) | reservations with claims | reserve, claim, settle, release, recover, reconcile | expiry racing settlement, midnight; the provider is not asked twice |
| research committee and cycle (`research/`) | runs, attempts, reports, decisions, symbol results | analyse, retry, resume | crashes between commits; a completed run is founded |
| runtime client and paper runtime (`runtime/`, `paper_runtime/`) | a child process, request ids | start, request, restart | late, garbled or missing answers; none is taken for another's |
| shadow alerts (`shadow/alerts.py`) | alert rows with a count, deliveries | raise, count within a window, deliver, resolve | look-then-write, sinks that fail; no report is lost |
| provider process (`research/bounded_subprocess.py`) | a child, two readers, a writer | run, terminate the group | helpers that keep pipes open; a result is whole, and a run ends |
| database opening (`storage/database.py`, `schema_version.py`) | ledger of schema versions | check, migrate, open | gaps, failures, two starters; each migration once and in order |
| credentialed execution path (`services/`, `execution/`, `paper/`) | submissions, events, ledger, results | submit, poll, book | a fill is booked once, whatever dies |
| strategies, evidence providers, storage, evaluation, backtesting, analysis, dashboard, command line | tables, results | read, compute, print | mostly pure or read-only |

Interactions.  The integration writes intents (`persist_order_intent`) and
either simulates them or enqueues them for the external book; the lifecycle
lists pending intents and simulates or expires them, and orders the exits of
what is held.  Both go through `execution.py`.  The recurring scheduler runs the
integration for queued cycles, and the soak campaign runs lifecycle and
integration date by date.  An operator's `preview` claims an enqueued intent for
the external namespace; `submit` reserves daily budget, then cash or shares,
writes a checkpoint event and calls the runtime.  Every later operation on the
order works on the same event chain under the order lease.  A reconciliation
verdict that is critical blocks preview and submit of the whole book.  The shadow
scheduler runs the research cycle under a lease and a budget of its own, and its
pause row stops the research and the soak campaign alike.

`PROJECT.json` lists every component with its sources, and under `hazards`
the lines where the difficulties above bite.

## 2. The modules

| module | what it is |
|---|---|
| `FencedLease` | abstract specification: grants with fresh tokens, writes by the latest grant only |
| `OrderLease` | the lease row and the handles of the calls, statement by statement, with a clock that may be set back; `ImplementsFencedLease` is its refinement of `FencedLease` |
| `ExternalOrder` | one external order: durable rows, concurrent operator calls, the broker |
| `DailyNotional` | attempt reservations of several orders under one cap per date |
| `LocalExecution` | local simulator, cash ledger and position of one book, commit by commit |
| `PositionLifecycle` | the position of one symbol through days of integration and lifecycle runs: lots, levels, stops, exits |
| `ProcessClient` | the runtime client and the children it starts one after another |
| `CredentialedOrder` | one credentialed order: submission, polling, booking, and the broker |
| `RecurringScheduler`, `ActivationLog` | the recurring scheduler's processes; its activation table |
| `SoakCampaign` | the soak campaign, date by date and commit by commit |
| `ShadowPause`, `ShadowCycle`, `ShadowHealth` | the pause row; the invocations of the shadow scheduler with lease and budget; the health streaks |
| `AlertLog` | the alert rows of shadow operations: window, counting, delivery, resolution |
| `BoundedProcess` | one run of a provider's command line tool: child, helper, pipes, threads |
| `SchemaLedger` | processes that open and migrate the database |
| `ResearchTokens`, `ResearchCommittee`, `ResearchCycle` | the token reservations and the provider; the committee's run over them; the cycle over its symbols |
| `ExternalOrderProofs`, `DailyNotionalProofs`, `RecurringSchedulerProofs` | theorems about the modules they are named after; the last one also about `ActivationLog` and `PositionLifecycle` |
| `LocalBooksProofs`, `PlatformProofs` | theorems about `LocalExecution`, `ProcessClient` and `CredentialedOrder`, and about a scene of `MCLocalBooks`; about `OrderLease`, `SchemaLedger`, `BoundedProcess` and `SoakCampaign` |
| `ResearchProofs`, `ShadowProofs` | theorems about `ResearchCommittee` over `ResearchTokens` and about `ResearchCycle`; about `ShadowCycle` and `ShadowHealth` over `ShadowPause`, and about `AlertLog` |
| `SumTheorems` | lemmas about sums over finite sets, for the budgets, the alerts' counters and the lots |
| `MC...` | instances for TLC: model sizes, symmetry, and the scenes that bound one part of a module each; their configurations have the names of the runs |

How they compose.  `ExternalOrder` does not repeat the lease row: it has
`holder`, the latest grant, and a write is guarded by `Fenced(p)`, which is
exactly what `FencedLease` promises and what `OrderLease` is shown and proved to
implement.  `DailyNotional` has several orders and their dates, and keeps of
each order only what its reservations depend on.  `LocalExecution` knows of the
external path only the claim and the queue entry, `ExternalOrder` of the local
simulator only `FillLocally`, and `PositionLifecycle` takes a fill as the one
transaction it is, its commits being `LocalExecution`'s.  `ShadowCycle` and
`ShadowHealth` extend `ShadowPause` and rewrite its row; `ResearchCommittee`
extends `ResearchTokens`, and every call of its roles is an invocation there.
`CredentialedOrder`'s `flight` is the request that `ProcessClient` gave up on.
Where an MC module extends several modules that share nothing (`MCPlatform`,
`MCLocalBooks`, `MCRecurring`, `MCShadow`), the initial state picks which one moves.

### OrderLease

`row` is the row of `paper_external_order_leases`; `pc`, `now` and `generation`
are the Python locals of a call inside `with _order_lease(...)`.  `Acquire` is
the conditional upsert of `acquire_external_order_lease`, `ReadBack` the
`SELECT` that follows it in a statement of its own.  `HeartbeatClock` and
`Heartbeat` are separate since the clock is read before the `UPDATE`.
`FencedWrite` is one step because `fenced_write` verifies and writes inside one
`BEGIN IMMEDIATE`.  `Release` is the `finally`, `Crash` leaves the row as it is.
`Tick` lets time pass or sets the host's clock back: expiry compares wall-clock
times.  `log` is a history of the generations that wrote.

### ExternalOrder

`chain` is the current row of `paper_external_order_events` (state, attempt),
`lookup` the latest row of the broker lookups with `current` telling whether it
is bound to the current event, `reservation` the attempt reservations, `hold`
what the order's cash or share reservation still holds, `booked` and `applied`
the fills in the local ledgers, `recon` the latest reconciliation verdict.
A call is a process `proc[p]`; `pc` names the place where it stands between two
commits or around a broker call.  Checks that the code makes before it takes the
lease are in `Enter` (`MayEnter`), those under the lease in `Begin...` and
`Refuse` (`MayBegin`); they are not repeated unless the code repeats them.

`admission` is what `_intent` and `_safety_checks` look at besides the order's
own rows.  `fresh`: preview, submit, retry and refresh refuse an intent older
than `reject_stale_market_price_seconds`, and it never gets younger
(`IntentAges`).  `side`: a SELL must not ask for more than the book's available
shares, which do not include what the order itself has reserved or sold
(`Oversold`); `Spare` are the shares beyond it, and other orders are taken to
leave them alone.  `barred`: a pause, a CRITICAL alert, or a critical
reconciliation of another order or of the book, any of which comes and goes
(`Bar`, `Unbar`); a retry checks it under its lease, a refresh not at all.
Reconciliation, recovery and cancellation have none of these checks.  Approval,
configuration and the book's status are settled when the order is created.

`Transitions` is `_TRANSITIONS`, and `AppendEvent` is `_append_event`: it is not
enabled where the code raises, and what happens then is `InvalidResponse` or a
swallowed exception in `Synchronise`.  The attempt reservation follows
`_settle_daily_reservation` and `_reconcile_attempt_reservation`.  The fill sweep
is `ReadFills`, one `ApplyFill` per fill (each is a transaction), `RecordFills`,
`ReleaseFilled`, `CloseSweep`.  `Fail` is any exception at a place where the code
can raise; where the code catches it the model goes on as the handler does
(`PersistFailure`, the `ERROR` status of a reconciliation).

The broker is external to the repository's core: one order per
`client_order_id`, requests that may be delivered late or never, fills of any
size, cancellation, expiry and rejection.  `Cumulative` selects the two shapes
of `list_order_fills` the gateway can return: one cumulative fill built from the
order, or a list of activities that may lag behind it.

Left out of it: `heartbeat_or_raise` (it only lets a displaced call stop earlier
than at its next fenced write); the baseline reconciliation and the
comparison of account fields beyond quantity; a reconciliation always names its
order, as the operations on an order do.

### DailyNotional

`row` maps `<<order, attempt, date>>`, the identity of a reservation, to its
state.  `ReserveAttempt` is `_reserve_daily_notional_locked`: the row of this
identity, or an unstarted reservation of an earlier date for the same lineage, is
reused; else the cap is checked and a row is inserted.  `Start` reads the clock,
so that a call reserves against the date it started on, also past midnight.
`Reserve` is not fenced by the lease, `PrepareRetry` is, as in the code.

### LocalExecution

`Load ... Fill` are `submit_and_simulate`, cut at its commits: load, claim,
reservation check, pricing, and the transaction of fill, position, settlement,
release and status.  `LoadToClose`, `Release`, `Close` are
`expire_pending_intent` and `cancel_pending_intent`, which commit the release and
the status separately.  (`cancel_pending_intent` has no caller in the
repository; `Reasons` includes it or not.)  `Persist`, `Enqueue` and
`ClaimExternally` are the ways of the integration and the external preview.
`Abort` is an exception or a crash at any step.  All intents are for one share of
one symbol, with equal notional: what is reserved, released and settled then
differs only in how often it happens, which is what the properties are about.

`Again` says whether an intent may be handed to `submit_and_simulate` again after
it left PENDING_SUBMISSION (replayed cycles and repeated commands do), `External`
whether the book may be enabled for the external broker, `Unpriced` whether a
cycle may find no market input for an approved intent and persist it only
(`scheduled_integration.py:385-391`; the risk engine rejects unsafe prices
earlier, so this is a defensive path).

### PositionLifecycle

`bought` and `sold` are the order rows of the symbol (the SELL of an exit has an
id made of its day's decision, so there is one per day), `position` and `lots`
the aggregate row and the lots (a closed one stays, with no shares; `OpenLots` is
`list_open_lots`), `rows` the append-only ATR levels,
`decided` and `asked` the exit decisions and a manual request.  `Buy` and
`Protect` are the entry path of the integration, which fills and saves the
levels in two commits.  A lifecycle run is `Begin` (it lists the pending orders
once), `BuyListed`, `SellListed` and `ExpireListed` for each of them, `Look`
(everything the evaluation reads before its first commit), `Advance` (the new
levels), `Decide`, `Order`.  `Decision` is `evaluate_exit_decision`, its reasons
in their order; the three kinds of stop are one, and so are an old position and
a reversed recommendation.  Prices are whole numbers.  At a reference price `p`
the simulator buys only below `p`'s limit and sells only above it, because half
the spread and the slippage are taken off first; an exit, whose limit is its
day's price, therefore rests, and the code after its fill
(`lifecycle.py:486-521`, the second partial-profit stage with it) is not reached.
No price is stale here: at a price `0` there is none, or none fit to trade on,
and everything is skipped.  In the code a stale price skips the exits
(`exit_policy.py:180`) and still fills or rejects the pending orders
(`lifecycle.py:129-147`); such days are not modelled.

### ProcessClient and CredentialedOrder

In `ProcessClient` `transport` is the child the client talks to, `inbox` and
`outbox` the lines of every child, `api` the operation of the caller.  `Request`
and `Send` are `_request`; `Timeout`, `EndOfFile`, `Receive` its three ends, with
lines that do not parse (`Garbled`); `GiveUp` marks the client unhealthy, and an
unhealthy client refuses or, for a read, restarts on a clean child (`Launch`,
`Advance`).  Callers start the client once.

`CredentialedOrder` has one BUY intent at price 1.  `BeginSubmit ... Record` are
the submission with its lookup before and after, `List ... SaveResult` one pass
of the poller: the event, the ledger's order, position and cash rows, the event's
flag, the submission's status and the result are commits of their own.
`applied` holds the events marked `ledger_applied`.
`position` is written absolutely, from what was read.  Left out: eligibility and
the intent's creation, REJECTED and ERROR as kinds of their own, attempt counts;
an unanswered poll changes nothing, and uncaught errors are crashes.

### RecurringScheduler and ActivationLog

`run` has one row per slot, `queue` the rows of a cycle, `lease` the singleton
row, `proc` the processes.  `Start` is what is read before the lease, `Acquire`
the conditional upsert, `BeginRun`, `Block`, `Pause` the gates, `Abandoned` and
`Claim` the recovery of old claims by age and the claims, `Heartbeat`,
`Integrate`, `FinalizeQueue`, `FinalizeRun` the work, `FailQueue`, `FailRun`,
`Release` the failure path; a process may `Crash` anywhere.  A deactivation is a
gate that fails in `BeginRun`; the owner column of run rows is dropped, and
terminal rows are kept in one normal form (`Settled`).  `ActivationLog` is the
table it is deactivated by: a call takes its time stamp, reads, and inserts
later (`Call`, `Read`, `Save`), and `Current` replays the events in the order of
their stamps.

### SoakCampaign

`attempts` holds the attempts with one record per date, `life` and `op` the
persisted lifecycle and operator runs of a date, `legacyDays` the first attempt's
old table, `process` the command at work.  `AtDate` onwards is the body of the day loop; `PassOver`,
`ReviewFailed`, `SkipDate`, `Recover`, `StartDay` are its branches by what an
earlier process left, `BeginLifecycle ... SaveLegacyDay` the stages of a date.
`Finish`, `Finalize`, `Review`, `Promote` close an attempt.  `begun` is a history
variable: whether a date's lifecycle has begun to change the books.  The run has one process
work at a time, which the command relies on; the numeric floors of the review are a free answer, completed
with and without warnings are one state, and reviews are not stored.

### ShadowPause, ShadowCycle, ShadowHealth

`Ask` and `Write` are the two statements of every pause transition.
`ShadowCycle`: `Invoke` resolves the slot (`Resolution`, from `Window`, `Margin`
and the rows), `Acquire` takes the slot's lease, `Reserve` and
`InsertReservation` are the check and the insert of the budget,
`BeforeAttempt`, `Charge`, `AfterAttempt` one model call, `Trip` and `TripWrite`
the pause after a structural failure, `Settle`, `UpdateRun`, `Release` the end.
`outlived` records that an invocation went on past its lease, or past its day
before it had one.  `ShadowHealth`: `ReadStreak` and `SaveStreak` are one
dimension's fold, `ApplyHealth` and `WritePause` the combined decision.
Abstractions: one cap of the several; the kinds of skipped and missed slots that
lead to the same step are one; no daylight saving; `created_at` ties do not
occur; a call's marker and usage row are one charge; the automatic paused states
are one.

### ResearchTokens, ResearchCommittee, ResearchCycle

`row` holds the reservations by idempotency key; `Reserve`, `Claim`, `Transmit`,
`Answered`, `Unclear`, `Unavailable` are an invocation, `Recover` the expiry of
claims, `Reconcile` the operator.  `ResearchCommittee`: `Turn` and `Hear` are a
role's call, `SaveAttempt`, `SaveOutcome`, `Finish` its commits, `Crash` between
any of them.  `ResearchCycle` has the symbols of a cycle, whose committee runs are
one step that completes or fails.  Requests have one size; the controller's
denial is the same as an unavailable provider; several reads of one statement
group are one step; the cycle's start is one step with its status read.

### AlertLog, BoundedProcess, SchemaLedger

`AlertLog`: `RaiseAlert` reads the clock, `Look` searches the window, `Count` and
`Store` are the two ways on, `Send` and `Record` one sink's attempts and their
rows.  A row has the name of the call that made it; a sink that raises has
failed; `Die` is a crash or a failing statement.  Severity and context are left out.

`BoundedProcess`: `PollChild`, `Deadline`, `Terminate`, `Kill`, `Join`,
`ClosePipes` are `run` and `terminate_process_group`; `Pump` is the reader (the
two output streams are alike and one stands for both), `EndFeed` the writer.  A
block is what one read returns.  `Help` lets the child start a process that inherits its pipes
and its group and may leave either.  Left out: the branch for a group that may
not be signalled (`PermissionError`), and errors of the reader itself.

`SchemaLedger`: `CheckVersion` is the refusal of newer databases, `FindPending`
reads the ledger, `Begin`, `Work`, `Commit` are a migration's transaction, whose
effect nobody sees before it commits; `Fail` is a migration that raises, a lock
that is not to be had, or a crash.  What a migration does is left out, and the additive
scripts, which are idempotent, do nothing here.

## 3. What the runs show

One run per question:

| run | question | properties |
|---|---|---|
| `MCPlatform` | can a displaced call write, or take the lease from its successor, under takeovers, crashes and clock adjustments; is each migration committed once and in order; is a provider's result whole, and does its run end? | `FencingSound`, and that the row implements `FencedLease` (`ImplementsFencedLease`); `LedgerIsSound`; `ResultIsWhole`, `RunEndsThere` |
| `MCExternalOrderRetry` | is an attempt ever sent twice, or exposure left unreserved, when two operators submit, retry and reconcile through timeouts, crashes and takeovers? | `ExecutedOnce`, `BudgetHeld`, `RetryRestsOnEvidence` |
| `MCExternalOrderFills` | do overlapping fill sweeps of a submission, a reconciliation and a cancellation keep books, chain and hold in agreement with the broker? | `BooksFollowBroker`, `HoldCoversExposure` |
| `MCExternalOrderLive` | does an operator who keeps repairing get every order out of the states that need repair, as far as the order may still be repaired? | `RepairEnds` |
| `MCDailyNotional` | does the cap hold on every date, and does everything that may execute count, across midnight? | `CapRespected`, `ExposureCountedOnce`, `FreedOnlyByOutcome` |
| `MCLocalBooks` | do services that simulate, persist and expire the same intents oversell, overbook, overdraw or release twice; does a caller of the runtime get another's answer; is a credentialed order booked as it filled and resolved in the end? | `PositionSound`, `ReleasedOnceAlone`, `NeverOverdrawn`, `NoStaleAnswer`, `BookedAsFilled`, `OrderIsResolved` |
| `MCRecurring` | do overlapping ticks work under one lease, and queue and report a slot's work truthfully; does the activation log replay to what was called; do entries and exits of a position add up? | `LeaseExcludes`, `QueueIsSound`, `ReplayFollowsCalls`, `TerminalRowsStay`, `ExitsAreSound`, `StopNeverLoosens` |
| `MCSoak` | does a campaign reach a verdict only on evidence, stop at a blocker and repeat nothing, through crashes and pauses? | `VerdictIsEarned`, `StopsAtBlocker`, `NothingDoneOver`, `AttemptEnds` |
| `MCShadow` | is a shadow slot worked once, spending bounded, and a pause or an outage effective, with several runners and operators; is an alert ever lost? | `SlotWorkedOnce`, `SpendingBounded`, `StreaksDecide`, `NothingIsLost`, `ServesOldestFirst`, `StructuralFailureStops` |
| `MCResearch` | does the daily token cap hold, is nothing paid for asked again, and does a cycle report what its symbols came to? | `CapKept`, `NotAskedAgain`, `CompletionStands`, `CycleTellsTruth` |
| `MCAmbiguousCancel` | violated: a cancellation that times out becomes UNKNOWN | `AmbiguousCancelIsUnknown` |
| `MCCompleteNotBooked` | violated: an order reported complete has its fills in the books | `CompleteIsBooked` |

Each property is preceded in its module by a comment that states it.  For each
one the module also holds a changed form of some definition (marked "Mutant:"),
a bug of the kind the code could have, under which the property fails:
dropping the fence, keeping the generation at a takeover, freeing the budget of
an ambiguous attempt, not repeating the position check under the lock, and so on.
`PROJECT.json` pairs them.

`MCPlatform`, `MCLocalBooks`, `MCRecurring`, `MCShadow` and `MCResearch` put several modules, or
several situations of one module, into one run.  Their initial states choose a
*scene* (`scene`, `part`): which of the modules moves, with which operations.  The
modules that do not move keep their initial state.  A scene holds the operations
whose interleaving the question is about; all scenes of a run are explored.

What holds under conditions that the scenes or the formulas spell out:

- `HoldCoversExposure` is checked for cumulative fill reports; with lagging
  activities it fails (section 7).  `BooksFollowBroker` also passes
  with `Cumulative = FALSE` (2.3 million states).
- `ReleasedOnceAlone` is for one service at a time and for intents created together
  with their reservation.  Without that it fails: `ReleaseNeedsReservation` (section 7) is one way, a
  second service that fills an intent while the first is expiring it is another.  With `Reasons = {"EXPIRED", "CANCELLED"}` it
  fails too: releases are told apart by their reason, and an intent that is cancelled after a crash between the release and the close of its
  expiry is released twice (no operation of the repository cancels one).
- `RepairEnds`.  An ambiguous order that is at the broker is found by
  reconciliation whatever else holds (`FoundIsResolved`).  One that may not be
  there is found or retried only while the retries last and the intent is
  admissible (`LostIsRetried`, `Admissible`): once the intent is too old, while
  work is paused, or if it sells shares that only its own hold keeps, the retry
  is refused, and an order that the broker does not know stays ambiguous.  The
  same holds at the retry limit.  The code has no other operation for it.
- `NeverOverdrawn` counts what was given back twice as available, and leaves out
  slippage, which no reservation includes (`MCNegativeCash`, section 7).
- `BookedAsFilled` is for one synchronisation at a time; two overlapping ones book a
  fill twice (section 7).
- `ExitsAreSound` and `StopNeverLoosens` are for runs of the lifecycle that do not
  overlap; with overlapping runs of different days a stop is lowered (section 7).
- `RunEndsThere` excludes a helper that left its group and keeps the pipes open (section 7).
- `CapKept` is for outcomes that the provider reports.  A call whose outcome stays
  unknown is settled at its estimate, which may be less than it cost.

## 4. Bounds

- `MCPlatform` (1.3 million states): three calls, so that a call can be displaced
  by one that is itself displaced; TTL 2, clock to 3, one unit of regress: a lease can expire
  exactly, after, and again after the clock was set back.  Two writes suffice to
  violate an order of writes.  A call takes the lease once (its owner id is a
  fresh uuid).  The database has three versions, so that a gap has versions on both sides, two
  processes of the newest code and one that is older, two failures; the provider's child
  may write twice as much as is allowed.
- `MCExternalOrderRetry` (2.2 million): a BUY, and a SELL of the whole position; two calls at a time, any number of calls one after
  the other, attempts 0 and 1, one share; up to two faults in a behaviour, one for a SELL,
  whose calls are those of a BUY with more refusals
  (`MaxFaults` counts crashes, takeovers of a running call, failed reads,
  exceptions, preview expiries, the ageing of the intent and pauses).  Lost and late requests, timeouts and
  broker events are not counted: they may happen always.
- `MCExternalOrderFills` (1.5 million): a BUY; two shares at limit price 2, so that partial fills and
  fills below the limit occur; two calls, one fault (a takeover is enough to make
  two sweeps overlap).  No retry: `MCExternalOrderRetry` has it.
- `MCExternalOrderLive` (142 thousand): a BUY, one call at a time, all operations,
  two attempts, two faults, no symmetry (it is unsound for liveness).  With a
  SELL beside it `RepairEnds` holds as well, in twice the time.
- `MCDailyNotional` (1.2 million): two orders of size 1 and 2 under cap 2, so that either fits
  alone and both do not; two calls, two attempts, two dates.  `MaxAttempt` 1 is
  enough for a lineage to be superseded.
- `MCLocalBooks` (1.1 million): two services; two intents that contend for cash
  3 with notional 2, or for one share; scene `alone` has one service, two BUY intents
  and a SELL, with a crash between any two commits.  The client scene has
  three starts of the child and eight requests, enough for a child that was given up
  on to answer while the next one is asked.  The order scene has a quantity of
  three, funds that cover it or only a part, one submission, one poller that repeats, two crashes.
  A fill costs one unit of slippage, so that cash runs short of what the fills take.
  The run also checks `OrderIsResolved`, so it has no symmetry.
- `MCRecurring` (1.7 million): part `scheduler` has one cycle, two slots, clock to
  2 with TTL 1 and work that may take longer than the TTL, two starts; part
  `activation` two writers and five events; part `gaps` one entry, with at most one day that lacks a
  price or an ATR, manual exits, and a process that dies; part `entries` two entries of the
  same symbol on days that lack nothing.  Prices 0, 2, 3, 4 lie below, at and above every
  level of an entry at 3; four days (0 to 3) let a stage be hit, break-even be reached, and
  the stop trail or the holding period (3) end.  The parts share no state.
- `MCSoak` (487 thousand): one runner and one reviewer, two dates, two attempts of the
  campaign, one crash, one pause.  Nothing in the code keeps a second process out of a
  campaign; the documented use is one operator's calls one after another, and the run's
  properties are about that use.
- `MCShadow` (1.2 million): two runners and an operator; two days, on which the market
  is open as on the day before them, since with a closed day too few slots would be left
  to be served in order (the theorem has any calendar); a catch-up of 1 so that the second
  oldest day is skipped; two calls in a run, so that one follows a structural failure and
  has to be held back (scene `calendar`, which has no pause, makes one call, at its full
  price: a call that costs nothing is as good as none); cap 1 with a slot and calls of cost 1, so that the second exceeds it;
  thresholds 1, 2, 2 and a recovery streak of 2, so that every threshold is
  reached and every streak can be broken one evaluation short.  Three reports of two
  conditions, a window of one of two instants, two sinks with two tries.
- `MCResearch` (1.1 million): two workers over one analyst and the roles after
  it, two attempts, cap 2 with requests of 1 and usage of 1 or 2 (the second exceeds its
  estimate); a lease of 1 and a clock that reaches the second of two days, so that
  a claim expires once midnight is past (the theorem has any lease and clock); a cycle of two symbols, three passes and one death.

The clock bounds, the number of writes, `MaxFaults` and the other maxima only cut
behaviours short; the proofs of section 6 need none of them to be small.  All runs
turn deadlock checking off: a system in which every call has ended, the clock is at its
bound or every intent is done has nothing left to do.

## 5. Fairness

Safety runs use none.

`FairSpec` of `ExternalOrder` has two parts.

- `WF_vars(Step(p))` for each call: a running Python call takes its next
  statement.  Crashes, takeovers and broker events are outside `Step` and never
  owed; neither is the delivery of a request.
- Operators come back: if a repair operation (retry, refresh, recover,
  reconcile) stays possible again and again, it is called again and again and
  gets the lease.  The code has no scheduler for repairs; they are commands
  (`cli.py`), and `docs/runbooks/alpaca-paper-operations.md` instructs the
  operator to repeat them until an order is resolved.  The liveness properties
  therefore say how far the code lets an operator get who follows the runbook,
  not that orders resolve by themselves: reconciliation is always possible, a
  retry only while the order is admissible (section 3).  Nothing of the kind is
  assumed of preview, submit and cancel, nor that work is resumed (`Unbar`) or an
  intent stays young.

`OrderFairness` of `CredentialedOrder`: a command that runs takes its next
statement, and the synchronisation command is repeated, as the header of
`sync_paper_orders.py` (lines 20-24) has it.  The broker need not fill: an order that
stays open at the broker is not owed an end (`OrderIsResolved` says so).

`ProcessFairness` of `BoundedProcess`: the runner and its threads take their next step, and
the clock reaches the deadline.  Nothing is assumed of the child and its helper.
`MCPlatform` uses symmetry of the lease's calls, which none of the process's
steps touches: in its scene every permutation leaves a behaviour as it is.

`CampaignFairSpec` of `SoakCampaign`: a started command takes its next step, and the operator
resumes an interrupted attempt.  Crashes and pauses are bounded by
`MaxCrashes` and `MaxPauses`; without a bound an operator may pause for ever.

## 6. Proofs

All theorems are checked by TLAPS for every value of the constants that satisfies
the module's named assumption (`LeaseAssumption`, `OrderAssumption`, `LocalAssumption`,
`ClientAssumption`, `NotionalAssumption`, `SchedulerAssumption`, `SchemaAssumption`, `TokenAssumption`,
`CommitteeAssumption`, `ProcessAssumption`, `PauseAssumption`, `CycleAssumption`,
`HealthAssumption`, `AlertAssumption`, `ActivationAssumption`, `LifecycleAssumption`, `CampaignAssumption`): any set of calls, any TTL
and clock regress; any operations, retries, misfortunes, quantity and limit price; any finite sets of intents, any amount of cash and shares, and any
combination of `Again`, `Unpriced` and `External`; any number of starts and requests; any
finite set of orders, any attempts, dates and cap; any finite set of roles, any workers, token counts and cap;
any operators, calendar, catch-up window, lease, costs and cap; any number of dimensions, any thresholds and policies;
any finite set of reports, any conditions, window, sinks
and attempts; any dates, floor of dates, attempts, reviewers, crashes and pauses of a campaign; any processes, cycles, slots, retries, lease and runtime lengths.

`PlatformProofs`, of `OrderLease`:

- `TypeCorrect`: `Spec => []TypeOK`.
- `FencingCorrect`: `Spec => []WritesFollowGenerations`, no call writes
  after a later one did.  Neither this nor the next property is inductive.  The invariant
  `IInv` adds that no generation, in a handle or in the log, exceeds the row's
  (`GenerationsBounded`), and that between upsert and read-back the row with this
  owner is active (`AcquiredIsActive`).  Together they give the
  argument: a write needs the row's generation, the row's generation only grows,
  so a displaced call's generation is strictly below every later write.
- `LeaseUndisturbed`: `Spec => []UndisturbedUntilDisplaced`, from the same `IInv`.
- `FencingIsSound`: both, the property `FencingSound` of the run.
- `LeaseImplementsFencedLease`: `ImplementsFencedLease`, that `OrderLease` implements `FencedLease` under
  `holder <- owner while ACTIVE`, `token <- row.generation`, `log <- log`.  The
  step that needs `IInv` is a write: the writer's generation is the token.

`ExternalOrderProofs`.  None of the run's properties is inductive, and one invariant of
everything would be unreadable: there are four, each layer proved from those below it.
A call does not hold what it read across a commit; what makes it safe is always that it
still holds the lease, so most parts speak of `holder = p`.

- `BaseInv` (what a call found stays true while the lease is its own): the types, the
  retry evidence between the check and the commit (`RetryStands`), the total a fill sweep
  read (`SweepIsCurrent`), the reports and the books against the broker's fills
  (`ReportsAreReal`, `FillsAreBooked`, `BookedAtBroker`).
- `ChainInv`: where each call stands fixes the chain (`FenceKeepsChain`); what a call saw
  at the broker does not come undone (`SeenIsReal`, `CancelsAreAnswered`); an unsent chain
  is clean everywhere (`UnsentIsClean`); requests follow the attempts (`CallsFollowChain`).
  A step of a call moves the chain in one of six ways (`ChainMoves`), which is what the
  later layers use.
- `BudgetInv`: attempts before the current one are superseded and later ones have no
  reservation (`OthersInactive`), and the current reservation says what the chain and the
  broker allow it to say (`CurrentFollowsChain`).
- `HoldInv`: what was sent is held (`SentIsHeld`), a sweep that follows an end has booked
  everything when it closes (`SweepIsComplete`), so the hold covers the rest at the limit
  price or nothing is left to fill (`HoldKept`).

The proofs of the layers share three lemmas about a step: what it leaves alone
(`CallFrames`), by which actions a call reaches a place (`CallArrives`: `Arrives`), and what
it carries along (`Remembers`).  The theorems:

- `OrderTypeCorrect`; `OrderExecutedOnce` and `BooksAlwaysFollowBroker` from the first two
  layers; `RetriesRestOnEvidence`, an action property, from `ChainMoves`.
- `BudgetAlwaysHeld`: `Spec => []BudgetHeld`.  At most the current attempt is active; it is
  active while the broker may execute the order, since NONE means unsent and RELEASED means
  rejected at the broker.
- `HoldAlwaysCovers`: `Spec => []HoldCoversExposure` where `Cumulative`.  The hypothesis is
  needed: with activities that lag behind the broker's status the code gives
  the hold back too early (`MCLateActivity` below).

`LocalBooksProofs`, of `LocalExecution`:

- `LocalTypeCorrect`: `Spec => []TypeOK`.
- `LocalFillsAreClaimed`: every fill has a local claim.  The claim is read
  several commits before the fill; the inductive invariant `ClaimInv` says that a
  call past its claim (`ClaimedWhilePricing`) works on an intent that is claimed
  locally, which stays true because a claim is never overwritten.
- `PositionIsExact` and `NeverShort`: the position is what the fills say, and
  never negative, from `PositionInv`.  Cardinalities of `fills` need the finite
  sets of the assumption.
- `PositionIsSound`: all three together, the property `PositionSound` of the run.
- `CashNeverOverdrawn`: `Spec => []NeverOverdrawn`.  `OverdraftInv` adds that an intent released as
  filled has its fill row, so that a fill takes from the settled cash what it takes off the reserved, once
  (`ReleaseFrees`); a release for another reason only lowers what is reserved, and a reservation leaves the rest
  of the sum as it was (`ReservedCashMoves`) and is made in the transaction that checks it.
- `AloneReleasesOnce`: `ReleasedOnce` of a service that works alone (`AloneSpec`: every step is a `WorksAlone` step), where one reason
  closes an intent (`OneReason`).  `LedgerFits` says what the ledger holds of an intent by its status.  A pending intent may be released already, by an
  expiry that died before it wrote the status; then the check for a whole reservation keeps it from being filled, and another expiry has the
  same entry to add.  `ServiceKnows` says what a service may rely on at each commit, because nobody else is at work.
- `AloneSceneReleasesOnce`: the run's property `ReleasedOnceAlone`, as the scene's steps are `WorksAlone` steps.

`LocalBooksProofs`, of `ProcessClient`:

- `ClientTypeCorrect`: `Spec => []TypeOK` of `ProcessClient`.
- `AnswersBelong`: an answer handed to a caller answers that caller's request
  (`NoStaleAnswer`).  The inductive invariant says that on a transport in use at most the request
  that is waited for, or one line for it, is under way (`InStep`); that an operation in
  progress has a transport in use (`InUse`); and that children not started yet, or
  ended, have nothing to do (`Quiet`).  It holds because a client that gave up on an
  answer is unhealthy and never takes another line from that child.

`LocalBooksProofs`, of `CredentialedOrder`:

- `CredentialedBooksHold`: `OrderSpec => []BookedAsFilled` where only one command polls
  (`OneSyncer`; with two the property fails, section 7).  Two
  invariants.  `AnswerInv`: an answer that was polled can only fall behind the broker, and a
  terminal one not even that; the events' ids are quantities that were recognized when they were saved
  (`EventsTell`), so an event derived from new fills has an id of its own (`NewFillsAreNew`), and
  one that is not new books nothing; once a terminal answer's event is saved, everything it fills is recognized, which
  is what makes the result true.  `BookInv`: the order row, the position and the cash are
  written in this order, each behind the one before, so that a crash between them can lose a
  booking but not make one up.

`DailyNotionalProofs`:

- `NotionalTypeCorrect`: `Spec => []TypeOK`.
- `ExposureIsCountedOnce` and `FreeingIsSound`: the run's properties
  `ExposureCountedOnce` (an attempt that may be at the broker has an active row, and a
  lineage never two) and `FreedOnlyByOutcome` (a row stops counting only with the outcome that
  justifies it).  The argument: every action changes the rows in one of four ways
  (`RowStep`: kept, inserted, moved between dates, replaced by a retry), and the invariant
  `NotionalInv` relates the rows to the calls on the way, so that a call that has touched an
  attempt is charged for it, a sent attempt was touched, and a lineage has one active row.
- `CapAlwaysRespected`: `Spec => []CapRespected`.  Of the four ways only an insertion, made under
  the check, raises a date's sum; a retry replaces a row by one of the same cost, and a move
  between dates is checked against the date it moves to.

`RecurringSchedulerProofs`, of `RecurringScheduler`:

- `LeaseIsExclusive`: `LeaseExcludes`.  The invariant `LeaseInv` says of every
  process that begins or works: before its lease runs out the row is its own, and as long
  as the row is its own the process knows when it runs out.  The second part is what an acquisition by
  another process contradicts: it needs a row that had expired when that process started.
- `QueueStaysSound`: `QueueIsSound`.  Every step moves open rows on or appends a queued
  row of a cycle that has none that counts (`QueueMoves`, `QueueGrows`), which gives
  the first two parts whatever overlaps.  For the third, `SoundQueue` has, as long as nobody
  overlapped: there is one worker, its claims stand until it settles them, what it integrated
  it had claimed, and what it is about to report is PROCESSED.
- `TerminalRowsAreFinal`: `TerminalRowsStay`.

`RecurringSchedulerProofs`, of `ActivationLog`:

- `ReplayAlwaysFollows`: `ReplayFollowsCalls`, for any history.  The state is a fold over the table, and the
  library proves nothing about folds, so the proof first shows what this one does: it exists for every length, an event
  put at the end is applied last (`ReplayAppends`), and it ends in what one of the events says (`ReplayEnds`).  The invariant
  `LogInv` then says, until two calls overlap, that a call in flight has a stamp no event of the table exceeds
  (`StampsFollow`), so that its event goes to the end, and that what it read is what the replay still says
  (`ReadStands`), so that its event takes effect.

`RecurringSchedulerProofs`, of `PositionLifecycle`:

- `StopNeverFalls`: `StopNeverLoosens` where a book has one lifecycle run at a time (`OneDailyRun`; with two
  the property fails, section 7).  A run looks the levels up and saves what it makes of them in a later
  commit.  `AdvancesCurrent` says that meanwhile they stay in force, or those of another entry took
  their place; `BuyerIsNew` that a cycle that owes an entry its levels has saved none of that entry before.
  Every row that is saved heads the table or leaves the row in force (`SavedHeads`), whatever its day.
- `ExitsStaySound`: `ExitsAreSound`, under `OneDailyRun` too, for any days, market, entries and order of the steps.  What a
  sale leaves of the lots is a sum over the lots before each one (`ConsumedShares`; a buy is `AppendedShares`), so
  that the aggregate row and the lots change by the same amount.  `ExitsInv` has two more parts.  `ExitsRest`:
  at most one exit rests, for no more than is held, and an exit of today has today's price as its limit, which that price less
  spread and slippage does not reach, so that it can only be filled on a later day.  `RunHolds`: what a run has listed still rests; once it has looked,
  nothing rests until it orders, so that the shares it decided on are still held; and a run that leaves the position without
  an exit has seen it above its stop.  A buy can come between that look and the run's end.  It pays today's price and
  moves the average toward that price, so it cannot breach a stop that was not breached (`AverageMoves`).

`PlatformProofs`, of `SchemaLedger`:

- `LedgerStaysSound`: `LedgerIsSound`.  The invariant adds that what a migrating process has
  listed as pending covers what the ledger lacks of its versions (`CoversMissing`), which stays
  true because the ledger only grows; the least pending version then has all smaller ones in it.

`PlatformProofs`, of `BoundedProcess`:

- `ResultIsAlwaysWhole`: `ResultIsWhole`.  The invariant has three parts: what was read is kept until there
  is too much of it, and a reader at the end of the file has read all there will be (`ReadIsKept`); a signal
  is only sent on the way to an exception (`SignalsRaise`); and past a termination the group is empty,
  past the joins of a run without an exception the reader ended (`EndsInOrder`).

`PlatformProofs`, of `SoakCampaign`, where one process runs the campaign at a time (`OneAtATime`):

- `VerdictsAreEarned`: `VerdictIsEarned`; `BlockersAlwaysStop`: `StopsAtBlocker`.  Both are judged by the tables, but
  a process reads them once, when it enters its attempt, and then decides date after date by what it remembers.  The invariant
  `CampaignIInv` therefore has two halves.  `CampaignTables` says what the tables hold whatever crashed: a completed record of a date that
  ran rests on a clean lifecycle, in the attempts and in the old table (`RecordsStand`); the old table follows the first
  attempt (`LegacyFollows`); an operator run without reasons is of a clean lifecycle, or of a date some attempt recorded (`RunsTell`);
  and an attempt records its dates in order, leaving out completed ones only (`InOrder`).  `ProcessOK` says what a process knows: its
  attempt is the newest and runs; what it remembers of the dates ahead is what the tables still say, and it is `blocked` exactly
  if a record it left or found is a blocker (`Remembers`); and what it may rely on in each stage of a date (`AtWork`).  `InOrder` is
  what makes the closing count right after a crash: the resumption skips to the first date without a record.
- `NothingIsDoneOver`: the action property `NothingDoneOver`, from the same invariant.  A step keeps the completed results
  (`KeepsCompleted`), since a record is only made of a date whose latest result is not a completed one; and a process
  that repeats a lifecycle is in a later attempt, of a date a review left open, by what `AtWork` says of the prior result.

  The hypothesis is needed: the campaign takes no lock, and with two processes in `MCSoak.cfg` TLC finds both
  `StopsAtBlocker` and `VerdictIsEarned` violated, each process going by what it read before the other saved.

`ResearchProofs`, of `ResearchCommittee` over `ResearchTokens`, because every call of a committee's role is an
invocation of the token controller, and of `ResearchCycle`:

- `ResearchTypeCorrect`: `Spec => []TypeOK`.
- `TokenCapKept`: `Spec => []CapKept`.  A step changes one row in one of five ways (`RowStep`:
  kept, given up, reserved, claimed, ended); only a reservation adds to what a date's rows
  sum to, and it is made in the transaction that found room for it.  An answer that uses more
  than its reservation is what `Breached` names.
- `CompletedRunStands`: `CompletionStands`.  What the committee's actions do to a worker and to the saved
  rows is one of eight moves (`Move`).  The invariant `Founded` says that a worker that has not failed
  has a saved report of every analyst behind it.  Where the workers share the ids of their
  attempts, `Settled` adds that a worker that failed has an analyst behind it that is `Lost`: taken, without a
  report, and owned by nobody, so that no run can be completed beside it.
- `ProviderNotAskedAgain`: `NotAskedAgain`.  A claimed reservation is never fresh again, and a caller is
  alone with its key (`ClaimedOnce`).  As long as nothing straddled midnight the attempts of a role
  are taken in order, one open at a time, and none is asked while an older outcome
  is unknown (`Orderly`, `NoneAhead`).
- `CycleAlwaysTells`: `CycleTellsTruth` of `ResearchCycle`, without a hypothesis.  The property excuses what
  follows an overlap of passes, so the invariant (`PassesTell`) speaks of the one pass there is until then: the symbols it is
  through with have a failed row only if it counted a failure, and one that stops has left a failed row behind.

`ShadowProofs`, of `ShadowCycle` over `ShadowPause`.  Every step of an invocation is one of ten moves (`InvocationMoves`: it picks a slot,
leaves, acquires, walks on, adds or updates a row, inserts, charges or settles a reservation),
or leaves alone all that the invariant speaks of.  `CycleInv` has five parts: a running row is
its invocation's own (`RowsOwned`); before a slot that anything is known of, all that the catch-up window
still has was completed (`OldestFirst`); an invocation that has not outlived its lease holds it
(`LeasesHeld`); in a slot nobody raced for, the running row is the newest and a COMPLETED one stays it
(`RunsOnce`); and what is left of a reservation pays for the call under way (`CallsArePaid`).

- `SlotAlwaysWorkedOnce`: `Spec => []SlotWorkedOnce`, from `LeasesHeld` and `RunsOnce`.
- `OldestServedFirst`: `ServesOldestFirst`.  `_last_completed_intended_time` takes the newest completed slot
  to stand for all before it; `OldestFirst` is why it may.
- `StructuralFailureAlwaysStops`: `StructuralFailureStops`, from `PauseStands`: while an invocation is
  distrusted the system is not ACTIVE, or the invocation is still about to ask for its pause.
- `SpendingAlwaysBounded`: `Spec => []SpendingBounded`, with the module's types, where `LeaseTtl <= 1`.
  The caps are read before the reservation is inserted, so the bound needs
  that no two do this at once.  `TakenInOrder` says so: a slot is
  taken only when every earlier one was completed or is out of the window, and `SlotsAreTodays` that
  whoever has one that is out of the window gives it up before the next opens.  `CapKept` adds that a
  reservation already settled, from which a retry spends again, has room for its rest, or is
  closed to spending.  The hypothesis is needed: with `LeaseTtl = 2` the run's model has two invocations,
  of yesterday's slot and of today's, that read the cap before either inserts.  The code accepts any positive
  `lease_ttl_seconds`; the configured one is an hour (`config/shadow_operations.yaml:22`,
  `config/production/shadow_operations.yaml:12`), a tick several.

`ShadowProofs`, of `ShadowHealth`:

- `StreaksAlwaysDecide`: `StreaksDecide`, for any number of runs that interleave.  A run's streaks are read a commit
  before they are saved.  `EvaluationStands` says what the read is still worth: if the history has grown no more since, it
  is the row; if it has, the save is one of the lost ones and the property stops speaking of that dimension.  A streak is
  the set of places of a history's last unbroken row of verdicts, and how one more verdict changes it
  (`CountingAfter`, `NewStreak`, `LengthAfter`) is proved of every history.  `AdvanceIs` is the same of the code's counters, so
  that `AgreesAfter` carries `Agrees` (the counters are the streaks, a required pause is borne out) across a save.
  `BlocksAreAnswered` is what makes an outage block: while no operator has let work go on, for each dimension that
  requires a pause the system is not ACTIVE, or an evaluation is on its way that has not come to the
  dimension yet, has seen it with a breach and thus will ask for the pause, or has asked for it.

`ShadowProofs`, of `AlertLog`:

- `NothingIsEverLost`: `NothingIsLost`, without a hypothesis.  A report's search and what it does about the result are
  separate commits, and nothing keeps two reports apart.  The property holds because a row, once
  stored, keeps its condition and its instant and is never deleted, so what a report found (`OriginalsAreRows`) is still right when
  it counts on it.  `CountsAgree` follows the sum of the counters: a count adds one to a row of the
  report's own condition and moves that report to the counted ones.  `DeliveryStands` says how far a report's
  deliveries are: of the sink it tries, the recorded attempts are the first of its tries, of which only the last
  can have succeeded; the sinks before it are settled and later ones untried.  The attempts are recorded after the
  last of them, one commit each, so a crash can only cut that story short.

`SumTheorems`.  The budgets, the alerts' counters and the shares of the lots are sums over finite sets, which the library defines by a recursive function
and proves nothing about.  What is needed (a sum over one more element, over a subset, of a function
changed at one place, of one that is larger on a marked set only, non-negative sums) is proved by a smallest
counterexample: a set of least cardinality for which it fails, and the element taken from it.

Only model-checked: liveness under fairness and ENABLED, which are out of the prover's reach.  Every invariant, every
action property and the refinement of a passing run is stated by a theorem, some for one actor at a time where section 3 says so.

## 7. Where code and documents disagree

Two disagreements have a listed run whose counterexample is the evidence; their
`findings` entry quotes the document.

- `MCAmbiguousCancel`: a cancellation that times out leaves CANCEL_REQUESTED,
  where README.md promises UNKNOWN_REQUIRES_RECONCILIATION: the handler calls
  `_record_unknown` without a required argument and raises TypeError.
- `MCCompleteNotBooked`: an order reported as complete whose fill was not written to the
  books (`services/submit_credentialed_paper_order.py:121`), where
  `docs/milestones/milestone-4.md:597` and `sync_paper_orders.py:3-8` have the books follow.

Further ones are stated as properties at the end of the modules.  Each is violated by
the configuration named with it, run with the module in parentheses, or under the module's
specification with the constants given.

Orders (`ExternalOrder`, `LocalExecution`, `CredentialedOrder`, `ProcessClient`; `EB` is
`paper_books/external_broker.py`):

- `MCStatusReopened` (ExternalOrder): cancel writes the broker's answer, read before its own fill
  sweep, over the FILLED that the sweep recorded (`EB:1987`; `EB:545`: "a terminal
  status always means "done"").
- `MCLateReservation` (ExternalOrder): the daily reservation of a submission is not fenced (`EB:1426`;
  `docs/milestones/25.md:393`); a call displaced before it reserves for an order that was
  rejected meanwhile, and nothing releases that reservation.
- `MCPartialExpiry` (ExternalOrder, `EB:75`): a partially filled order that
  expires at the broker reconciles as MATCHED and its chain stays open, because
  PARTIALLY_FILLED has no edge to EXPIRED or REJECTED.
- `MCRerunBlocked` (ExternalOrder, `EB:626`): a critical verdict for an order
  that was never sent blocks preview and submit, and rerunning reconciliation,
  as `docs/runbooks/alpaca-paper-operations.md:130` advises, never lifts it.
- `MCSaleStuck` (ExternalOrder, `EB:606`): a retry or refresh of a SELL of the whole position is
  refused, because the available shares do not include its own hold
  (`refresh_retry_preview`, `EB:1827-1831`: without it a confirmed-safe-to-retry order
  "could become permanently stuck").
- `MCLateActivity` (ExternalOrder, `EB:1362`): the hold is given
  back on the broker's terminal status, while activities for earlier fills are still
  to come.
- `ReleaseNeedsReservation` (LocalExecution; `Spec`, one BUY, one call, `Unpriced = TRUE`): an intent persisted without a reservation and expired
  later has a reservation released that it never had.
- `ClosedIsNeverFilled` (LocalExecution; one BUY, one call, `Again = TRUE`; `paper_books/execution.py:158`): an expired intent that is
  submitted again is filled.
- `FilledStaysFilled` (LocalExecution; one SELL of one share, two calls; `paper_books/execution.py:174`): a SELL that
  another service fills meanwhile is marked REJECTED.
- `MCNegativeCash` (LocalExecution, `paper_books/cash_ledger.py:245`): slippage is settled but not
  reserved; the configured cash buffer (10 % by default) hides it unless it is set near zero.
- `NeverOverbooked` (CredentialedOrder under `OrderSpec`, two `Syncer`, no crash): two synchronisations that overlap book a fill twice
  (`docs/milestones/milestone-4.md:1195`: "No duplicate ledger fill").
- `UsedOnlyVerified` (ProcessClient under `ClientSpec`, three starts and eight requests): after a read
  restarted the child and the capability check refused it, the client goes on using it
  (docstring at `process_client.py:162-165`).

Positions (`PositionLifecycle`):

- `MCStageTwice` (`StageOnce`, `lifecycle.py:484`): a partial exit rests in the run that decides it and is
  filled by a later one, which records no stage, so that the stage is decided and sold again
  (`docs/milestones/milestone-13.md:509`: "no stage can execute twice").
- `MCStopLoosens` (`StopNeverLoosens` with overlapping runs): both start
  from the same row, and the later row need not have the higher stop (`docs/milestones/milestone-13.md:467`: "For long
  positions, the stop must never decrease.").
- Stated without a configuration file; each is violated under the small `ExitSpec`:
  `NeverTrapped` (adding to a position makes the remaining quantity exceed the original,
  `lifecycle_state.py:56` raises, and no exit is evaluated any more), `LevelsAreThePositions`
  (an entry filled by a later lifecycle run has no levels of its own, the
  latest row is the symbol's), `ManualOnce` and `ManualIsActedOn` (a manual request is acted on
  twice, or consumed by a crash between decision and order), `BreachClosesAll`
  (`docs/milestones/milestone-13.md:551`).

Scheduling (`SoakCampaign`, `ActivationLog`, `RecurringScheduler`):

- `MCBlockingDateKept` (SoakCampaign, `soak_campaign.py:711`; `docs/runbooks/paper-soak-campaign.md:26`: "A
  hard blocker records the blocking date"): a crash after the blocked date is saved and before the
  attempt is leaves the attempt without it; the resumption ends the attempt as BLOCKED and takes
  the date from the attempt's own row only.
- `UncertainNotRepeated`, `RecoveredAsLive`, `ManifestCovered` (SoakCampaign; the
  constants of `MCSoak.cfg` with `SPECIFICATION CampaignSpec` and the one property): a lifecycle that
  has begun on a date is run again within the same attempt; a recovered date is recorded as completed after a
  lifecycle failure that blocks a date which did not crash; the manifest that a
  resumption recovers lacks dates, and the attempt is completed without them
  (`tests/unit/test_soak_campaign.py:217` expects all).
- `NoAutomaticResume` (ActivationLog, under `LogSpec`;
  `docs/runbooks/recurring-local-paper-trading.md:22`): of two calls that overlap, the approval
  read before a deactivation and written after it activates again.
- `TerminalSlotNotReplayed` (RecurringScheduler, same runbook, line 97): the run row is read before the lease, and
  the slot may have become terminal since.

Shadow operation and research:

- `CompletedNotRerun` (ShadowCycle; `Spec`, two runners, one trading day; `shadow/scheduler.py:686` before the lease at `:738`): a completed
  slot is run again (`docs/milestones/milestone-7.md`: "Do not create two cycles for the same intended
  schedule time.").
- `OldCyclesSkipped` (ShadowCycle; one runner, five trading days, `MaxCatchUp = 1`; `shadow/schedule.py:209-227`): a missed day beyond the catch-up
  window is reported as too old on every invocation of its day and keeps the days in the window from
  being worked (same document: "skip old cycles beyond the catch-up window").
- `KilledOnlyCleared` (ShadowPause, in ShadowCycle with a runner and an operator; `shadow/pause.py:148`): a pause that read its state before a kill
  overwrites KILLED (`pause.py:196`: "The only way to leave KILLED.").
- `ReleasedNeverSent` (MCResearch with the constants of `MCResearch.cfg`; docstring at `research/token_budget.py:118`): a reservation is
  released as never transmitted although its request was sent.
- `RecurrenceIsSeen` (AlertLog under `AlertSpec`, two reports of one condition, window 1, clock to 2;
  `docs/milestones/milestone-7 pending.md:229`: "deduplicate without hiding distinct violations"): what is
  reported after an operator resolved the row is counted on the resolved row within the window, and the
  gates that ask for unresolved critical alerts (`recurring_scheduler.py:316`,
  `external_broker.py:623`, `controlled_soak_readiness.py:140`) see nothing.  Same instance:
  `OneRowPerWindow` (overlapping reports make a row each) and `KnownIsDelivered` (a
  crash between row and delivery; the next report is counted and nobody is told).
- `TimeoutIsKept` and `GroupIsGone` (BoundedProcess under `ProcessFairSpec`, limit 2, 4 blocks;
  `research/bounded_subprocess.py:99`: "a wall-clock timeout, and guaranteed process-group cleanup"): a
  helper that left the group with the pipes open makes `pipe.close()` wait for it beyond any timeout;
  one that a successful child leaves behind with its own output is never signalled.
- `NewerIsRefused` and `NoneCollides` (SchemaLedger under `SchemaSpec`, two processes; the database section
  of `storage/schema_version.py`: "refused rather than silently opened", line 264: "must not raise on a
  database that already has the effect"): an older process that has checked opens what a newer one
  migrated meanwhile; of two processes that migrate at once the second fails on the ledger's key.
- Stated without a configuration file: `ResumeNotRefused` (ResearchCommittee,
  `docs/milestones/milestone-6.md:955`: "resumable per symbol"; a crash between `save_attempt` and
  `save_role_report` makes every rerun of the role fail), `UnresolvedBlocks` (ResearchTokens, comment at
  `research_budget.py:327`), `CompletedCoversAll` (ResearchCycle: a cycle is COMPLETED when no
  symbol failed, with symbols that have no result).

What the models made visible and no document speaks of:

- `acquire_recurring_lease` compares with the clock its process read when it started, so that
  a takeover is decided by an old time; of two processes that overlap one has outlived its
  lease, but it need not be the one that was there first.
- A second sweep over a filled SELL of the external path (`EB:1594-1620`) raises "partial-profit
  stage cannot complete twice".
- Splits are applied lot by lot without a transaction (`corporate_actions.py:36-62`,
  `positions.py:119-144`); nothing outside the tests calls it.
- `sync_paper_orders.py:148` books a later portion of an order at its cumulative average price.
- A crash, or a LedgerError, after `save_event` and before the ledger's commit loses the booking.
- `apply_health_result` may overwrite PAUSED_MANUAL.
- The shadow cap is checked and then written; it is exceeded only when an invocation stalls for
  more than a day or a slot is rerun.
- The reconciliation of research tokens has no caller in the command line.

## 8. What is not modelled

Every component is in `PROJECT.json` with its status and a note.

Of the modelled components: price and quantity arithmetic (intents are equal and atomic in
`LocalExecution`, whole shares elsewhere), opening cash, dividends, fees as separate
entries, average cost, malformed rows, the read-only views, the
comparison of account-level fields during reconciliation, and which wording an
error has.  Of the position lifecycle: the branch that exits through the external
broker, a second profit stage, splits, snapshots and the pause for a daily loss.

Not modelled: pure computations (strategies, scoring, sizing, metrics, backtests,
evaluation, reports), which have no state to check against interleavings and whose decimal and
statistical arithmetic is out of TLC's reach; paper book configuration and analysis, which read;
evidence providers and the rest of the storage layer, which are input, output and SQL that the other
modules model as the commits they make; command line, logging and scripts, which dispatch to the services; the
dashboard, which only reads.  These are most of the repository's lines: what
coordinates, persists and retries is the smaller part, and the modules follow that part.

## 9. Plan

Done: leases, external and local orders, the daily notional, positions and exits, the runtime's
client, credentialed orders, the recurring scheduler and activation log, the
soak campaign, shadow operation with its alerts, research with its token budget and its provider's
processes, and the opening of the database.

Left:

1. An abstract budget, "what is spent or may be spent never exceeds the cap", that
   `DailyNotional`, `ShadowCycle` and `ResearchTokens` implement.
2. Retry, rate limit and cache of the evidence providers.
3. Operators for pure algorithms worth a reference definition: position sizing, screening.
4. Proofs: an abstract order that `ExternalOrder` implements.
