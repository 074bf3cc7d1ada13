# LONGINVEST: TLA+ models and proofs

LONGINVEST watches Chinese A shares and sends price alerts: a Python backend
(`backend/src/long_invest`, about 78,000 lines), a React client, PostgreSQL.
This directory holds TLA+ models of its concurrent core, the TLC runs that
check them on small instances, and TLAPS proofs of every safety property the
runs check. Source paths below are relative to `backend/src/long_invest/` unless
they say otherwise; documents named v4.1, v4.4 and v4.7 are under
`docs/requirements/`.

Contents: [the system](#1-the-system), [the modules](#2-the-modules-and-the-code),
[the runs](#3-the-runs), [fairness](#4-fairness), [the proofs](#5-the-proofs),
[findings](#6-findings), [assumptions and omissions](#7-assumptions-and-omissions),
[plan](#8-plan).

## 1. The system

`docker compose` runs PostgreSQL, a migration, the HTTP API, the frontend, and
one `background-core` process (`entrypoints/background.py`,
`entrypoints/monitor_scheduler.py`). Every process may be restarted, and for a
moment an old and a new one overlap. In `background-core` run, as asyncio tasks:

- the scheduler (`DualPathScheduler`), woken by PostgreSQL `LISTEN` and by a
  heartbeat, which takes market snapshots and submits jobs;
- two `PostgresJobRunner`s, one for general jobs, one for history backfills;
- the `SignalEventProjector`;
- one delivery loop for each notification channel (WECOM, EMAIL).

All of these and the API share state through the database only: rows under
`SELECT ... FOR UPDATE` (with `SKIP LOCKED` for work queues), versions compared on
update, leases with tokens, idempotency keys under unique constraints, advisory
locks, and an outbox. So the atomic step of every module is one committed
transaction, unless what a transaction read without a lock is used later in it:
then the reading and the writing are two steps. The hazards are what happens
between the steps.

### Inventory

| component | state | operations | hard behaviour | what makes it correct | model |
|---|---|---|---|---|---|
| Job queue (`platform/jobs/postgres_service.py`, `postgres_repository.py`) | table `job`: status, attempts, recoveries, requests, lease, next run, version, checkpoint, result | submit, claim, renew, report, complete, fail, command, recover | leases that end while the worker lives; requests racing the end of an attempt | limits, one holder, late writers refused, requests obeyed, versions | `JobRow`, `PostgresJobs`, `JobLifecycle` |
| Job runner and administration (`postgres_runner.py`, `admin.py`) | the loop's position, the handler's progress, audited commands | scan, claim, handle, commit, heartbeat; commands with a version | crash anywhere, lost result, handler that outlives its lease, late or repeated requests | the holder is in step, success is complete, requests take effect, jobs settle | `JobRunner` |
| Dual path scheduler (`modules/scheduling`, `entrypoints`, `bootstrap/stage4_runtime.py`) | triggers, listener, refresh; the day's jobs, recoveries | refresh, listen, fire; submit at 17:00, scan for gaps, recover | edits during a refresh or a lost connection; restarts, outages | no edit forgotten, no trading day lost | `IntradayScheduler`, `DailyScheduler` |
| History backfill (`modules/history_backfills`) | a job's checkpoint, stored bars | handler: groups, disk guard, safe points, results, retry of items | bars stored outside the job's transaction; counts carried over retries | no symbol lost or counted twice, truthful result | `HistoryBackfill` |
| Daily data (`modules/daily_data`) | batches of a day, stages, bars | stage, validate, commit, recover days | overlapping workers and backfills of the same day | the end of a batch is true, only validated bars | `DailyBatch` |
| Quotes (`modules/quotes`) | cycles and items | collect, fall back, submit, end | overlapping, canceled, late collectors | the announced end holds | `QuoteCycles` |
| Monitoring (`modules/monitoring`, `monitor_schedules`) | subscriptions with revisions and audit; schedules | create, configure, enable, pause, archive, restore | late and repeated requests, stale versions | one open subscription, act on what was seen | `MonitorSubscriptions`, `IntradayScheduler` |
| Targets (`modules/targets`) | binding, calculations, reviews, revisions | reserve, calculate, complete, decide, set by hand | the world changes while a calculation runs or is reviewed; lock orders | replaces only what it saw; a version stands for one target | `Targets`, `TargetInForce` |
| Signals (`modules/signals`), positions | state machine of a subscription, events, outbox | evaluate a round, reevaluate, reset, project | two lock orders, late quotes, at-least-once projection | zone justified by price and target, one story, no older price | `Signals`, `SignalZones` |
| Notifications (`modules/notifications`) | events, deliveries, attempts, a circuit per channel | publish, process_once, record, recover, probe, reset, cancel, retry | crash between send and record, unknown outcomes, two transactions in one step, concurrent sums | request budget, truthful final status, circuit rules | `NotificationDelivery`, `NotificationEvents` |
| Providers (`modules/providers`) | a circuit per capability, leased budget | ask, call, report, observe; charge, release | writes from a snapshot, probes, expired leases, dead callers, threads that outlive their callers | never refuses for ever; reserves kept, and limits for what is awaited | `ProviderCircuit`, `ProviderBudget` |
| Backtests (`modules/backtests`) | tasks, items with tokens, frozen data; candidates with prices | claim, freeze, simulate, end, control, change prices | overlapping attempts, controls at any time, prices that change meanwhile | held by the current generation, truthful end, no older result; cash adds up | `Backtests`, `CandidateBacktests`, `BacktestEngine` |
| Strategies and screening (`modules/strategies`) | drafts, validations, versions, the Git repository; batches of results | edit, validate, publish; run, pause, cancel, retry | crash between Git and database, overlapping runs without fence | what is bound was tested, once; results final | `Strategies`, `Screening` |
| Authentication (`modules/auth`) | account, sessions, attempts to log in | log in, refresh, change, reset, revoke, disable | nothing is locked; columns written from old reads | sessions belong to the password in force, the limit holds | `Accounts` |
| Calendar (`modules/calendar`) | immutable versions, a pointer | import, override, restore | versions built beside each other, midnight between a check and its commit | no override undone, what had to be confirmed stays so | `CalendarVersions` |
| Securities and watchlists | master versions, revisions, universes; lists with audited answers | refresh, freeze; create, add, remove, batches | two reads in one freeze; three locks, replays | a universe is what its version names; answers and advice true | `Securities`, `Watchlists` |
| Adjusted prices (`modules/qfq`) | versions of a security's prices, one of them current; refresh runs | submit, fetch, validate, gate, activate, fail; import by a backfill | handlers of one run overlap; bars are revised and prices imported between their steps | readers, runs and answers agree; prices passed validation and gate | `QfqRefresh` |
| Market data store (`modules/market_data`) | immutable batches and revisions of corporate actions; quality issues with audited decisions | collect, read a timeline as of now; report, decide, ask for a refetch | callers that collect at once, clash and try again; reports and decisions of one issue | nothing told is lost or stored twice, a timeline is not older than its fetch; counted, decided once, truly answered | `CorporateActions`, `QualityIssues` |
| Alerts, settings | alerts; encrypted values | jobs and requests | less concurrency than the above | - | not modelled |
| Legacy RQ queue (`platform/jobs/service.py`) | history rows | read only; `admin.py` refuses every command | - | - | not modelled |
| Status, dashboard, health, client errors; outbox, events, audit; HTTP, logging; frontend, migrations | - | projections and wiring | - | - | not modelled |

`PROJECT.json` lists every component with its files and status, every hazard at
its line, and the source lines of every definition.

### How components meet

The scheduler, the API and other jobs submit to the queue; runners claim, run
handlers and commit. Handlers store data outside the job's transactions, report
at safe points and read the administrator's requests from the answer. Snapshots of
the market start rounds of signals; new targets, positions and resets are projected
into reevaluations; signals and alerts publish notification events; the channel
loops claim, send, record and tell the circuit. Requests to data sources pass
the circuit and the budget.

The models keep the calls that matter to a property. `JobRunner` composes the loop
and administration with the actions of `PostgresJobs`; `HistoryBackfill` runs its
handler on a row of `JobRow`; `Signals` evaluates against `TargetInForce`, which
`Targets` implements; `Signals` and `BacktestEngine` share `SignalZones`;
`DailyScheduler` ends a day the way `DailyBatch` lets a batch end. Where one
component hands another a committed fact or a frozen copy (a published version, an
eligible security, a frozen universe), the receiving model takes any such fact.

## 2. The modules and the code

Every component module has CONSTANTS with named assumptions, VARIABLES that are rows
and the local state of processes, one action for each transaction (or for each part
between two reads that are not locked), and its properties at the end. Definitions
called "Faulty variant" in a comment are deliberate mistakes. No specification uses
them; the table `mutants` of `PROJECT.json` pairs each property with the variant that
breaks it, which shows that the property depends on that code.

**`JobRow`** is one row of the table `job` and what every method of
`PostgresJobService` does to it: an operator from the old row to the new.
`HonourControl` is the order in which all methods ask: a cancel, a pause, their own
outcome. Times are kept as what is left of them (`lease`, `due`, counted down by
`Ticked`).

**`PostgresJobs`** is the table. A worker is only the token it was once granted, and
every token ever granted may be used at any later time, so every slow, stalled or
forgotten worker is there. `visible` is what SKIP LOCKED leaves. Refused calls
change nothing and are no step. `writer` is a history variable: under which token a
row was last written.

**`JobLifecycle`** is the abstract promise: status and waiting request of each job. A
request once accepted decides how the attempt ends. `PostgresJobs` implements it with
`phase <- status, wanted <- WantedOf(row)`. Its `Next` moves any number of
jobs at once, because a recovery commits a batch.

**`JobRunner`** adds the loop (`recover`, `claim`, `handle`, `commit`, `down`), the
heartbeat, a checkpointing handler with `Steps` safe points that ignores the answer
"your lease is gone" (as the handlers do), lost commits, crash and restart, and
administrators whose requests carry a version and may arrive late or twice.

**`HistoryBackfill`** is `PostgresHistoryBackfillJob` with the real contents of
checkpoint and result: cursor, counts, failures, retry items, totals.

**`DailyBatch`** is one trading day: the batch of the market close and the one of a
recovery, their stages, validation and commit, beside backfills that write the same
bars. Transactions that write bars are two actions, as absent rows cannot be locked.

**`QfqRefresh`** is the adjusted prices of one security. A version is the day it ends
on, a checksum, a lifecycle and its freshness; a run is an idempotency key with status,
day and the version of the bar it froze. A transaction holds the security's advisory
lock and is one action (`Submit`, `Begin`, `Validate`, `Activate`, `Supersede`, `Fail`,
`Import`); between them a handler fetches and reads the bar again (`Gate`), which is
revised meanwhile (`Revise`). A handler that has lost its lease goes on, so any number
of them work on one run. `gated`, `ends` and `told` record what happened and decide
nothing.

**`DailyScheduler`** is days with a part before and after 17:00: the day's job,
start-up scans, recoveries of several days with their checkpoint. **`IntradayScheduler`**
is one day in minutes: edits of schedules, the listener, the refresh, the triggers,
snapshots in two processes, whose start and end are transactions that may fail.
**`QuoteCycles`** is one batch of quotes with overlapping
executions; a quote is what its validation says of it, now and when it is submitted.
**`MonitorSubscriptions`** is the requests on subscriptions and those who freeze the
enabled ones.

**`Targets`** is one subscription's targets: reservation, executions of a
calculation's job, completion, reviews and decisions, values set by hand, changes of
the subscription. It implements **`TargetInForce`** (there is a target in force or
not, and a version tells one from another). **`Signals`** holds the two lock orders
of rounds and reevaluations, resets and the projector; **`SignalZones`** the zones
with hysteresis as operators.

**`NotificationDelivery`** is one channel: deliveries, circuit, overlapping executions
of `process_once`, publishers, probes, resets, cancellations. `process_once` writes a
result in one transaction and tells the circuit in another, through a repository whose
session was closed and which nobody commits: `leak` is the worker whose second
transaction hangs and locks the circuit until the session is collected (`Collect`),
`stuck` a worker whose second transaction waits for a row its first one holds.
**`NotificationEvents`** is one event with recipients and generations of deliveries; a
transaction locks its delivery, later the event, and writes the sum it computed.
`Aggregate` sums up one newest delivery per channel, as `admin.py` does; since rows of
one channel may tie, `Aggregates` is a set.

**`ProviderCircuit`** has callers that ask, call and report, and the observer that
writes from a snapshot; time is ages, in steps of the shortest cooldown.
**`ProviderBudget`** has used counts, leases with a deadline, callers that die, and
`threads`: adapters send from `asyncio.to_thread`, so a caller that runs out of time
gives back the lease (`Abandon`, `GiveUp`) while its request is still out.

**`Backtests`** is a task with items, one job per generation, attempts that overlap.
An exception is recorded (`Fail`) or not (`FailUnrecorded`: `run_item` does not name it,
or recording it fails too), and then the item stays held.
**`CandidateBacktests`** is the task of a screened batch whose prices change.
**`CorporateActions`** is one security and the callers that prepare its adjustment
timeline: a fetch, the transaction that numbers and inserts revisions statement by
statement (`Read`, `Lock`, `Insert`, `Commit`), and the statements that read the
timeline (`Cover`, `Select`). A content is the hash of all that is told of an event.
**`QualityIssues`** is one issue, found without a lock, then inserted or amended, and
decided by administrators under idempotency keys.
**`BacktestEngine`** walks one item's bars with the code's roundings, money in cents;
an iteration of the loop over company actions is `Adjust`, the rest of a bar is `Bar`.

**`Strategies`** is drafts, validations and the publication over three transactions
with the Git repository between them. **`Screening`** is one batch and the overlapping
runs of its job. **`Accounts`**, **`CalendarVersions`**, **`Watchlists`** and
**`Securities`** are what their names say.

`MC*` modules are the instances. Several of them join components that share no
row: a variable `kind` says which of them a behaviour moves, the others stay as
they began. So a run asks the questions of several components for the price of one,
and its states are the sum, not the product, of theirs.

| module | code |
|---|---|
| `JobRow`, `PostgresJobs`, `JobLifecycle` | `platform/jobs/{postgres_service,postgres_repository,models,contracts}.py` |
| `JobRunner` | `platform/jobs/{postgres_runner,admin}.py` |
| `HistoryBackfill` | `modules/history_backfills/jobs.py`, retries in `postgres_service.py` |
| `DailyBatch`, `DailyScheduler` | `modules/daily_data/{jobs,service,repository}.py`, `modules/scheduling/runtime.py`, `modules/monitoring/scheduler.py` |
| `QfqRefresh` | `modules/qfq/{application,service,repository,models}.py`, `bootstrap/jobs.py` (qfq_refresh), `bootstrap/history_backfills.py` |
| `IntradayScheduler` | `entrypoints/monitor_scheduler.py`, `modules/scheduling/runtime.py`, `modules/monitor_schedules` |
| `QuoteCycles` | `modules/quotes/{collection,service,application}.py` |
| `MonitorSubscriptions` | `modules/monitoring/{service,application,repository}.py` |
| `Targets`, `TargetInForce` | `modules/targets/{service,strategy_service,application}.py` |
| `Signals`, `SignalZones` | `modules/signals/{service,jobs,projector,state_machine}.py`, `modules/positions/service.py` |
| `NotificationDelivery`, `NotificationEvents` | `modules/notifications/{runtime,service,delivery,circuit,repository,admin}.py` |
| `ProviderCircuit`, `ProviderBudget` | `modules/providers/{resilience,repository,postgres_runtime,budget}.py` |
| `Backtests`, `CandidateBacktests`, `BacktestEngine` | `modules/backtests/{service,application,candidate_application,engine}.py`, `bootstrap/backtest_postgres_jobs.py` |
| `CorporateActions`, `QualityIssues` | `modules/market_data/{service,repository,application,quality_application,models}.py`, `bootstrap/stage4_runtime.py` |
| `Strategies`, `Screening` | `modules/strategies/{service,application,jobs,git_store,screening}.py`, `bootstrap/strategy_validation.py` |
| `Accounts` | `modules/auth/{service,account_service,session_policy,postgres_rate_limit}.py` |
| `CalendarVersions`, `Securities`, `Watchlists` | `modules/{calendar,securities,watchlists}/{service,repository,application}.py` |

## 3. The runs

Distinct states as TLC finds them, with symmetry where a cfg declares it.

| run | bounds | checks | states |
|---|---|---|---|
| `leases` | two jobs of different priority (2 attempts and 1 recovery; 1 attempt, not recoverable), version up to 5; or two callers of a source with one request at a time, four a day, and at most one thread nobody awaits | `AttemptLimitValid`, `LeaseWhileRunning`, `WritesSound`, `ImplementsLifecycle`; `BudgetSound` | 1,331,000 |
| `runner` | one job of one attempt, one recovery and one safe point, two runners, one administrator with one request, one crash | `RunnerSound`, `CancelTakesEffect`, `PauseTakesEffect`, `JobsSettle` | 502,000 |
| `daily_data` | a backfill of three symbols in groups of two, two workers, one command; or a day of two symbols, one suspended, two collectors, two jobs; or two refreshes of a security and an import, three starts of two handlers, one revision; or one issue, two reports, two administrators with two keys, two sources | `ProgressSound`, `NothingLost`; `StoredSound` (its parts `BatchTruth` and `OnlyValidated`, `PricesSound`, `IssueSound`) | 3,369,000 |
| `circuits` | one delivery of four requests, two workers, two probes at a time, three in all; or two callers of a source, three cooldowns | `CircuitsSound` (`DeliverySound` and the circuit of a source), `LastRequestDecides`, `LatestProbeDecides`, `DeliveriesSettle`; `GrantsAgain` | 354,000 |
| `targets` | one configuration, one administrator, two calculations of up to two attempts, three revisions | `ReplacesWhatItSaw`, `ImplementsPromise`, `CalculationsEnd` | 864,000 |
| `signals` | two rounds, two target revisions, three prices, two jobs; or six bars with two company actions; or two recipients on two channels, two transactions, two generations | `ZoneJustified`, `PriceNeverRegresses`, `OneStory`; `EngineSound` (`OrderMatchesPosition` and `TradesExplainCash`); `EventsSound` | 3,307,000 |
| `scheduling` | one schedule, one manual snapshot, two edits, one fault; or four trading days, two outages, one failure; or two symbols and two collectors; or one security, five requests | `IntradaySound`; `DailySound`; `EndHolds`; `SubscriptionsSound` | 2,820,000 |
| `backtests` | a task of one or two items, two at a time, two attempts, two commands, one interrupt (an attempt cut off, or a failure not recorded); or one candidate in two runs with one change of prices; or two callers that fetch two corporate actions, of two contents, over two days or one | `BacktestsSound` (`ItemsSound` and `ActionsSound`), `StopsSound`; `PricesNeverGoBack` | 3,509,000 |
| `administration` | two publishers with one fault; a screening of three results in two runs; two sessions and two logins, limits of one; three days in three calendar versions; two lists and two securities; two refreshes and one freeze | `PublicationSound`; `ResultsKept`; `LimitHolds`, `SessionsSound`; `CalendarSound`; `ListsExplained`, `AdviceTrue`; `SecuritiesSound` | 3,006,000 |
| `delivery_streak` | one delivery, one worker | violation of `ThreeFailuresOpen` | |
| `delivery_stuck` | two deliveries, one worker | violation of `NeverStuck` | |
| `event_shared` | two recipients on one channel | violation of `DeliveredToAll` | |

What the runs show, and why the bounds reach the cases that matter:

- `leases`: two jobs show priority, one transaction recovering both, and a token used on
  the wrong row; version 5 admits four commands or reports beside the attempts. Two
  callers are a lease that ran out, or was given back, and the request let out beside it.
- `runner`: two runners on one job are a process and its replacement. Temporal
  properties need the complete graph, so the instance is small; the safety part is
  proved for every size.
- `daily_data`: groups of two over three symbols give a full and a partial group, and a
  retry selects of both. Two workers are as many as are alive around one lost lease; a
  suspended symbol makes days without a bar. Two handlers work on one run, or on two runs
  that activate in either order; the third start is a handler that finds its run ended. An
  import or a revised bar comes between any two steps, and two checksums are prices that
  stay and prices that change. Two callers report, decide and repeat each other's requests
  on one issue; a third would only wait for the same row.
- `circuits`: two probes overlap and the first comes last; four requests are the first,
  two retries or a compensation, and one more. Three cooldowns are all the code has.
- `targets`: two calculations and a value set by hand are two that were reserved on the
  same base and a third that overtakes both.
- `signals`: three prices lie in three zones; a late price is one of an older round.
  A reset between two rounds and a job that read before it are both within the bounds.
  Six bars hold two round trips, with company actions between or within them or two at
  once before a bar.
- `scheduling`: an edit before, within and after a refresh while the connection is lost;
  a snapshot whose end is not recorded, and its repetition;
  outages long enough that two days are missed; a quote valid when scoped and stale when
  submitted; a request delivered twice around another.
- `backtests`: two attempts are one that lost its lease and the next; two commands are
  a pause with its resume, or a retry of what was canceled. Two fetches of two events
  clash on one of them or on both, cover each other or not, and are stored in either
  order. The third attempt of a caller at storing takes three events that appear one after
  the other; the instance has the second, the proof any number.
- `administration`: of each component two transactions overlap, and a third actor
  (a fault, a replay, a reader) comes between them. The run does not reach logins under
  an unknown name, limits above one, or a reset that overtakes a change (`overtaken`;
  three passwords take too long together with the rest): the theorems cover those.

`CHECK_DEADLOCK FALSE` is set where the system may really stop: all commands spent,
everything final. `runner` checks deadlock.

Each module has a type invariant (`TypeOK` or a `...Typed` operator); they are part of the
inductive invariants proved below and are not checked by runs of their own.

## 4. Fairness

- **Runners** (`JobRunner!Fairness`): weak fairness of each runner's own step (scan,
  claim, safe point, return, commit, restart), and of time. `run_forever` catches the
  exceptions of a scan and goes on, and the container's restart policy restarts a stopped
  process. Heartbeats, administrators and failures are not owed. Claiming is fair
  although SKIP LOCKED may pass over a locked row: the lock of a short transaction is
  released before the next scan.
- **Channels** (`NotificationDelivery!Fairness`): weak fairness of each worker's step, of
  the end of leases, waits and deferrals, and of `Collect`: an abandoned session is
  reclaimed by the garbage collector, which rolls its transaction back. Probes, resets,
  publications and cancellations are not owed. `DeliveriesSettle` leaves out a circuit
  that is not closed, because an open circuit may wait for an administrator for ever, and
  a worker that is stuck, which is a finding.
- **Data sources** (`ProviderCircuit!Fairness`): time passes and a call that is under way
  ends, because every request has a timeout. No caller is obliged to begin, or not to die.
  `GrantsAgain` assumes that administrators do not reset for ever.
- **Targets** (`Targets!Fairness`): the queue runs the jobs it holds (which `JobsSettle`
  is about), a request to decide a review ends, and PostgreSQL breaks a deadlock.
  `CalculationsEnd` is about calculations whose job still comes to an end of its own: one
  whose job an administrator cancels, or whose attempts are all lost, stays CALCULATING.
- **Signals**: weak fairness of the projector, part of the specification; no checked
  property depends on it.

All other specifications are without fairness and have safety properties only.

## 5. The proofs

Eight modules hold about 17,900 proof obligations, all checked by TLAPS. Their
theorems hold for **every** value of the constants the assumptions allow: any number of
jobs, workers, tokens, securities, lists, sessions, crashes, commands. The bounds of
the runs are ordinary constants of the modules, so the theorems hold for each value of
those as well. Every invariant and every action property that a passing run checks is
the conclusion of a theorem, and so are the two refinements.

| theorem | property | the inductive invariant and why it is needed |
|---|---|---|
| `LeasesProofs`: `TypeCorrect`, `AttemptLimits`, `Leases`, `Writes` | `TypeOK`, `AttemptLimitValid`, `LeaseWhileRunning`, `WritesSound` | `TableInv`: `RowInv` of each row, absent ones included (that a pending row has an attempt left needs that a row not yet inserted has one); tokens are at most `issued`, and no row was written under a token later than the one it holds |
| `Refinement` | `ImplementsLifecycle` | each operator of `JobRow` is one job's part of an abstract step (`LifeMove`); `MoveIsLifecycleNext` lifts it to the table |
| `BudgetKept` | `BudgetSound` | `BudgetInv`: every request that is awaited has a lease of its own that outlasts the awaiting (`Leased`, `Timely`), the used count pays for them (`Funded`), leases are counted by capability (`Counted`) |
| `RunnersSound`, `RunnersKeepQueue` | `RunnerSound`, and all of the queue's | `RunnerInv`: a runner's token was issued to it (`OwnTokens`), what a live holder has done it has saved (`Earned`), a request names a version seen before (`SeenBefore`) |
| `DailyDataProofs`: `Progress`, `NoSymbolLost` | `ProgressSound`, `NothingLost` | `BackfillInv`: every worker, also one without lease, carries a checkpoint whose counts add up to the frozen universe and whose done symbols are stored; so the row is sound whoever reports last |
| `Batches`, `BatchesEnd` | the batches' part of `StoredSound` | `DailyInv`: a stage says of a bar what is stored or still to be committed; a committing transaction covers its batch, and is alone in it |
| `AdjustedPrices`, `StoredTruth` | `StoredSound` | `AdjustedInv`: a handler about to activate carries a window that passed the validation and the gate of its own run (`HandlersSound`); every version is one an import or a run ended with, and no end names a version still to come (`EndsKnown`) |
| `Quality` | the issues' part of `StoredSound` | `IssueInv`: what is about to be committed follows from the row as it still is, and one transaction at a time is about to commit |
| `DeliveryProofs`: `Deliveries`, `LastRequests`, `LatestProbes` | `DeliverySound`, `LastRequestDecides`, `LatestProbeDecides` | `DeliveryInv`: at most two claims of a delivery are live, the last and the one compensated; a delivery that waits for a first request has none |
| `SourceKept`, `CircuitsKept` | `CircuitsSound` | `SourceInv`: not the row alone, every snapshot a caller carries is one that single updates would leave, so it does no harm whenever it is written |
| `TargetsProofs`: `Replacements`, `PromiseKept` | `ReplacesWhatItSaw`, `ImplementsPromise` | `TargetsInv`: who holds the subscription's row works on a current calculation; a decided review was pending; each version is accounted for by a reservation or a revision |
| `SignalsProofs`: `Zones`, `Prices`, `Stories` | `ZoneJustified`, `PriceNeverRegresses`, `OneStory` | `SignalsInv`: whoever holds the lock works on what is still true of the state, but for a reset; no event is newer than what he has seen |
| `Trades` | `EngineSound` | `EngineInv`: an order fits the cash and holding it will meet; cash and holding together are worth what the trades say, to half a cent while something is held (`Worth`) |
| `EventsTold`, `OneMessage` | `EventsSound` and its part `OneUnderWay` | `DeliveriesInv`: a session that has locked the event sums up rows nobody else can change, but for claims, which alter no sum |
| `SchedulingProofs`: `Intraday` | `IntradaySound` | an edit is in what a refresh has read or still to be heard; every RUNNING occurrence has its run or lost it since its last start |
| `Daily` | `DailySound` | a date a batch collected was in its plan and is counted once |
| `CycleEnd`, `SubscriptionsKept` | `EndHolds`, `SubscriptionsSound` | only an open cycle has anything left to do; what a request has seen was true of the revision it read |
| `BacktestsProofs`: `BacktestItems`, `BacktestStops` | `ItemsSound`, `StopsSound` | `BacktestInv`: `ItemOK` of each item with the attempts' standing towards it; `TaskOK` ties the task to the rows: a cancellation leaves no unfinished item that nobody holds, and a held item has a holder that is at it, or left it without a record |
| `ActionFacts`, `BacktestsKept` | `ActionsSound`, `BacktestsSound` | `ActionsInv`: what each caller holds at each statement is sound of what is stored (`CallerSound`), and stays so as facts and batches are added (`SoundLater`), unless rows not yet committed clash, which they never do, pair by pair |
| `CandidatePrices` | `PricesNeverGoBack` | what is saved or simulated is no newer than the prices, and whoever holds the token simulated prices no older than what was saved |
| `AdministrationProofs`: `LimitHeld`, `Sessions`, `ReplaysEndNothing` | `LimitHolds`, `SessionsSound` | a login under way owns the one PENDING row it writes, and each of the three limits counts it; whatever carries a version carries the password that went with it |
| `Calendar`, `MasterData` | `CalendarSound`, `SecuritiesSound` | the pointer names the newest version, every override answered stands in it, and it covers what the last import or restore had to (an override keeps the other days); a universe is the master at the version it names |
| `Publication`, `ScreeningResults` | `PublicationSound`, `ResultsKept` | a version is bound once, by the run that tested the draft it froze |
| `WatchlistAnswers`, `WatchlistAdvice` | `ListsExplained`, `AdviceTrue` | what is about to be committed still follows from the row, and the advice about to be given is still true, as long as the three locks are held |

The pattern is the same everywhere: typing and inductive invariant of the initial
states; a lemma for each action (under it a step for each conjunct the action can
disturb); the theorem by PTL. What matters of one item, row or delivery is collected
in one operator about that item (`RowInv`, `ItemOK`, `Carries`), so that a step of
one actor is a statement about one instance, and frame lemmas leave the others alone.

Assumptions. Each is named, stands in the module that declares the constants, and is
evaluated by TLC in a run: `JobRowAssumption`, `PostgresJobsAssumption`,
`JobRunnerAssumption` (a checkpoint is a number of safe points; cited for the runners
alone), `BudgetAssumption` (the reserves are less than the daily limit, as the settings
demand), `HistoryBackfillAssumption` (a universe without duplicates),
`NotificationDeliveryAssumption`, `TargetsAssumption`, `TargetInForceAssumption`,
`SignalsAssumption`, `SignalZonesAssumption`, `EngineAssumption` (positive prices and
factors), `EventsAssumption`, `IntradayAssumption`, `SchedulingAssumption`,
`BacktestsAssumption`, `CircuitsAssumption` (three cooldowns), `LimitAssumption`,
`KeyAssumption`, `AdministrationAssumption`.
They say that bounds are numbers, sets are finite where they are counted, and marks such
as "none" are no values. One theorem has a hypothesis more: `EventsTold` needs
`OwnChannel`, that no two recipients of an event share a channel. Without it the
property is false, which the run `event_shared` shows; the run `signals` is an instance
that satisfies it.

One fact needs an induction over numbers, which the library states for operator
parameters only: that a scan recovering any number of leases leaves the circuit sound, as
that many failures one by one would. It is proved in set form, from the pigeonhole
principle (`DeliveryProofs`).

The attempt to prove some properties changed the models or what is known of the code.
`TradesExplainCash` was false as first stated: after a company action the quantity may be
rounded down to nothing (`engine.py:259-274`), so a buy has neither a sale nor a holding.
`SessionsSound` needs the mark `overtaken`, because a reset of the password writes the
version it read plus one without comparing (`account_service.py:72-99`).

Only model-checked: liveness (`CancelTakesEffect`, `PauseTakesEffect`, `JobsSettle`,
`DeliveriesSettle`, `GrantsAgain`, `CalculationsEnd`). Liveness under fairness needs ENABLED,
which the prover does not treat. No module uses RECURSIVE operators.

## 6. Findings

Three runs show the code doing other than a document of the repository says.

1. **The circuit is never told of real sends** (`delivery_streak`;
   `modules/notifications/runtime.py:181`). v4.4 line 3474: three failures in a row open
   the circuit. `process_once` passes a repository whose session was closed at line 103;
   the transaction it starts is never committed.
2. **A channel's worker may wait for itself** (`delivery_stuck`; the same line). If the
   circuit's release touches the delivery being recorded, the second transaction waits
   for the first, which waits for the coroutine. The database sees no cycle and no lock
   timeout is set; v4.4 line 1927 asks that every task has a timeout. It takes a
   publication that races a reset of the circuit.
3. **An event is delivered when one recipient of a channel is** (`event_shared`;
   `modules/notifications/admin.py:450` and `:466`). v4.7 line 17 asks that failures of
   one recipient do not concern others; the sum is over one newest delivery per channel.

Met while modelling, and without a run of their own. Where a definition is named it
states the expectation; TLC refutes it on the module's instance.

- *Jobs.* The diagram in v4.4 (lines 2245-2255) has no pause of a PENDING job, no cancel
  of a PAUSED one and no retry of a PARTIAL one, which the code allows. A retry may repeat
  finished work (`RetryOnlyUnfinished`; `postgres_service.py:288`, v4.4 line 2328), because
  an expired lease fails a job without writing a result. A lost heartbeat does not stop
  the handler.
- *Scheduler.* A listener that waits never notices a dead connection, and edits within
  the two seconds of a reconnect are lost until the next refresh. A failed refresh leaves
  no intraday triggers; a minute that comes due during a refresh fires twice or never; a
  crash, or an end that cannot be recorded (`monitoring/scheduler.py:282`), leaves its
  occurrence RUNNING until the request is repeated. A recovery's key comes from its dates, its hash also
  from the time and the calendar version: after a restart the same gap conflicts, and a
  FAILED one is never submitted again. A PARTIAL day without failed items cannot be
  retried (v4.1 line 4020 draws that arrow).
- *Quotes.* A primary quote that turns stale between scope and submission gets no
  fallback; a deadline between check and submission leaves the cycle FETCHING.
- *Subscriptions.* Configuring an enabled subscription changes its target mode without
  the readiness check.
- *Daily data.* An overlapping worker may stage after the validation; two workers may
  freeze different universes and one batch ends in a conflict; a FAILED batch is final. When
  the last symbol of the universe needs no retry, the market's individual retry drops
  what it has fetched since it last stored twenty (`jobs.py:384`, `:428`).
- *Adjusted prices.* `activate` compares the bar's version but neither the day nor the
  version the user saw (`service.py:214`), so a run submitted earlier may cover newer
  prices; `docs/superpowers/specs/2026-07-16-qfq-refresh-design.md:70` says a late task
  must not. A run whose job is canceled stays active for good. The event of an import is
  deduplicated by security and checksum, so content that returns is not told.
- *Corporate actions.* A content that returns to an earlier one of its event is not
  stored again (`service.py:273-285` of `market_data`), so the revision in between stays
  the last. Revisions are numbered in the order of commits, not of observation. A timeline
  takes the facts observed by the batch it stands on; what a narrower fetch, observed
  later, has stored first is missing from it although the caller was told of it, without
  the failure v4.4 line 330 asks for incomplete data. `TimelineSound` names the exception.
- *Targets and signals.* A round locks state before subscription, a reevaluation the
  other way round, and completion and decision of a review likewise; the database breaks
  the cycles. A target stays out of force while its successor is CALCULATING or under
  review (`OldTargetServes`; v4.1 line 1043). A crash leaves CALCULATING until a later attempt.
- *Backtests.* The first item that raises ends the attempt, its siblings run on; a crash
  or a failure that is not recorded (`application.py:331-354`, `:402-411`) leaves tokens
  behind and an item nobody works on is refused as running (`ItemsIndependent`), and a
  pause or a cancellation waits for it until another attempt recovers the task, for ever
  if the job has failed. A pause between recovering and starting an item does not stick
  (`PauseSticks`), and a pause with no item held reopens a task that has ended
  (`EndIsFinal`; `service.py:423`). For candidates, a price changed during a simulation is
  not simulated (`ChangesTakeEffect`), a new run overrides a pause or a cancellation, and
  an end overwrites CANCELED.
- *Providers.* More requests may be on the wire than the source may be sent at a time
  (`WireLimit`; `.autoresearch/issues/issue-005-provider-request-budget.md:5`), because a
  thread goes on with the request its caller has given up (`browser_http_client.py:66`,
  `baostock.py:159`, `tushare.py:219`, `sina.py:218`). Outcomes and half-open states are written from snapshots
  (`repository.py:681`, `:887`), a late success closes an OPEN circuit (`OpenUntilProbed`),
  and refusals by the budget count as failures of the source.
- *Strategies and screening.* A failed publication can leave the strategy PUBLISHING with
  no job left to end it (`PublishSettles`; `service.py:1064`, against the message in
  `application.py:785`), and a validation that ends late takes a strategy out of the archive
  (`ArchivedStays`). Of overlapping runs of a screening one ends the batch while the other
  still works, and failed stocks do not keep a batch from SUCCEEDED
  (`CandidatesComplete`); a batch can be left CANCELING with no run and no job
  (`CancelEnds`; `screening.py:881`), or RUNNING when a transaction of one stock fails
  (`screening.py:668`).
- *Administration.* A login between disabling and enabling keeps its session; a repeated
  login with the same key rolls back on the audit. The key of the calendar's outbox omits
  the market; coverage reads pointer and days in two statements; claimed daily jobs
  are not canceled on a day that stops being one (v4.4 line 3980). A midnight between
  the check of an import and its commit leaves a day less covered than asked. A batch of watchlist
  items retried after a partial failure ends in VERSION_CONFLICT for the failed item. A
  refresh of the master data applied but not recorded fails when its job is retried, and
  overlapping refreshes may apply the older observation last.

## 7. Assumptions and omissions

- Channel adapters report an unknown outcome whenever the message may have arrived, and
  closing their client does not fail. The circuit state DISABLED is set by no code.
- Among due jobs of one priority the code takes the oldest; the models take any.
- `now` is read before the wait for a row's lock; the models read it when the lock is
  granted. The row cannot have been recovered in between, as recovery needs the lock.
- At most twenty leases are recovered by one scan of a channel; the instances have fewer,
  and the proofs allow any number.
- A lease lasts until a tick, which may come at once; so a heartbeat never guarantees it.
- What a data source, a sandbox or a static analysis answers is an input: any answer the
  code distinguishes.
- Commands and faults are bounded by constants named `Max...`, at the head of each module.
- A lease of the budget outlasts the awaiting of its request because its grace (five
  seconds) is longer than the event loop takes to notice that a timeout has passed.
- Winning and losing trades are told apart in the code by a rounded rate; the engine's
  model counts sales only. The unique source version of a calendar is left out, and the
  lookup of an import of securities by it: that version is the moment of the fetch
  (`bootstrap/jobs.py:292`), so it finds nothing the key does not.
- The individual retry of daily bars stores twenty at a time; the model stores at the end.
- Left out of components that are modelled partly: HTTP and previews; recipients' settings,
  templates and idempotent publication of events; the evaluation of single quote items by
  a job (`signals/jobs.py:194-259`); the quality checks of one quote; the router of data
  sources and the parsers; repeated creation, rerun and reports of backtests; static
  analysis and sandbox of strategies; password hashes and token formats.
- Of the market data store, the listing of issues and the reading of stored bars for
  strategies (`bootstrap/strategy_data.py`). Rows locked or inserted by one statement are
  taken at once; where the database takes them one by one, two may wait for each other
  and one fails, which is a failure the models allow anywhere.
- Components of section 1 marked so have no model: their concurrency is that of modules
  that have one (settings follow the compare-and-set of versions), or they hold no
  protocol.

## 8. Plan

Done: the queue and its runners; backfills, daily data, adjusted prices, corporate actions and quality issues; notifications; scheduler,
quotes and subscriptions; targets and signals; providers; backtests; strategies and
screening; accounts, calendar, securities and watchlists; proofs of every safety
property of the runs and of both refinements.

Left, in this order:

1. The router of data sources (`modules/providers/router.py`), above circuit and budget.
2. `Alerts`: opening, escalation, resolution; composed with `NotificationEvents`.
3. Positions' idempotency and audit, settings' versions, the event stream's cursor.
4. Reruns and reports of backtests; evaluation of single quote items.

Each joins the run of its neighbours, with an inductive invariant and a theorem beside
those of the proof module that belongs to the run.
