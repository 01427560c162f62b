# A formal model of BuyNotBuy.com

This directory holds TLA+ specifications of the BuyNotBuy backend. Eight state
machines describe the parts in which order, failure and time decide what is
right: which process may write, what becomes of a signal, of a vote and of a
write the database refused, which venue is asked for a market's data, who is
served what from the cache, how candles and the schema come to be what they are.
Fifteen further modules describe what the backend computes from what it reads,
as functions over exact numbers. TLC checks all of them on small instances;
TLAPS proves the safety properties of all eight state machines for every value
of their constants: any number of processes, requests, writers, bars, entries,
versions, whatever the bounds of the instances.

All paths below are relative to `src/src/backend/` of the repository.

## The system

A Fastify process serves a dashboard's API and, once a minute, runs a *market
cycle* for every configured market: read the bars from a venue, analyse them,
record the analysis, publish the market's signal, and measure the signals that
have ended. Beside it one *ingestion scheduler* per market copies closed bars
into PostgreSQL. Several such processes may share one database.

    venues --> provider (breaker) --> failover --> market cache
                                                      |
         poller --lease--> market cycle --> analysis, snapshot, history, votes
                                 |                         |
                                 +--> publishSignal        +--> spool / buffer --> drain
                                 +--> reconcile outcomes
      scheduler --lease--> ingestion --> candles --> retention

### Components

| Component | State | Operations | Hard part | Correct when | Module |
|---|---|---|---|---|---|
| Market lease, loops (`db/lease.ts`, `services/poller.ts`, `bootstrap/`) | advisory lock on a session, parked session, tail promise; per loop timer and in-flight cycle | ensureHeld, release, tick, start, stop | two ends of a session fail separately; the gate is asked before the cycle; shutdown order | no lock given away under a cycle, none left behind, a dead leader is replaced | `MarketPipeline` |
| Signal lifecycle, outcomes (`signals/`, `outcomes/`) | one `signal_state` row per series, its transitions, `signal_outcome` rows | decideNext, publishSignal, settle | state read before an await; a cycle failing half way; measurement over a moving window of bars | signals end on time, row and trail agree, the measured entry is the one held, a measurement happens once | `SignalLifecycle` (partly) |
| Write backlog (`observability/write-spool.ts`, `bounded-write-buffer.ts`, `history/`) | file, queue, byte count, buffer, attempts | append, peek/confirm/drop/rotate, compact, flush | appends during the drain's await; torn writes; crashes; lost answers | one owner until written, no stall, rows only move forward | `HistoryBacklog` (partly) |
| Votes (`indicators/performance/`) | hourly rows, votes not yet written, settlements under way | record, trim, settleForwardReturns | late and replayed writes beside a settlement of the same row | a return is the row's own move to its own horizon, and does not change | `VoteLedger` |
| Decision journal (`services/analysis.persistence.ts`, `strategies/decision-log.repository.ts`) | table, two lanes of refused rows | record, rotate, drain, shadow report | one lane failing, an outage taken for attempts | a decision is journalled once, under the snapshot it was made on | `DecisionRecords` (partly) |
| Venue failover (`market/failover.provider.ts`) | preferred venue, recovery run | runAttributed, recordSuccess | overlapping requests share the preference | every venue is tried once per undisturbed request, the site returns to the primary | `VenueChain` |
| Circuit breaker, transport (`market/providers/`) | failures, openUntil, probe reservation | tryAcquire, record*, releaseProbe, retries | late answers of earlier requests | one probe at a time, no reservation kept for ever | `VenueChain`, `ServiceHealth` (partly) |
| Market cache (`market/market.service.ts`, `services/analysis.service.ts`) | snapshot, fetch and flight per market | getMarketData, analyzeMarketWithStatus | shared flight, stale fallback, retry after another's failure | a caller gets its own market, never an over-age snapshot, and the work is written once | `AnalysisReads` |
| Candles (`history/`) | candle rows, cursor | ingestOnce, runBackfill | overlapping windows, forming bars, resumption | a closed row is the bar as it ended; no holes | `CandleStore`, `CandleSeries` |
| Strategy registry, promotion (`strategies/`, `lifecycle/`, `services/promotion-gate.ts`) | stages of each rule, evidence | resolve, promote, fall back | evidence that goes stale while it is judged | only a rule with evidence becomes active | `DecisionPanel`, `StrategyBench` (partly) |
| Retention, migrations (`db/`, `services/retention.runner.ts`) | ledger of versions, advisory lock, last run of each server | applyMigrations, maybeRun, prune | concurrent runners, dead sessions, one table of several failing | each version once, in order; only what is past its age goes | `DatabaseUpkeep` |
| API (`api/`) | rate-limit counters, cursors | middleware, pages, conditional reads | shared counters, rows trimmed while a client walks | a walk neither skips nor repeats | `ApiReads` |
| Analysis, consensus (`services/analysis.engine.ts`, `signals/`, `analysis/`) | snapshots | computeAnalysis, calculateSignal, explain | a stage of several failing | what is published follows from what was read | `DecisionPanel`, `DecisionRecords` (partly) |
| Indicators (`indicators/`) | — | readings, regime, pivots, divergences, votes | warm-up, repainting, empty denominators | a reading depends on the past only | `IndicatorReadings` (partly) |
| Performance, calibration (`performance/`) | — | samples, metrics, drift | small samples, open windows | no statistic of what has not happened | `PerformanceStudy` (partly) |
| Backtest, research (`backtest/`, `research/`) | the sealed holdout | walk-forward, optimise, replay, bench, coins | leakage from the future, selection | a window is not read before its turn | `WalkForward`, `BacktestEvidence`, `StrategyBench`, `PerformanceStudy` (partly) |
| Risk (`risk/`) | — | metrics, margin, liquidation | exact against rounded, failures in part | an amount is exact, or its absence has its reason | `ExactNumbers`, `PositionRisk`, `MarginAssessment` (partly) |
| Instruments, assets, configuration (`instruments/`, `config/`, `market/capability.ts`) | asset and instrument rows | parse, classify, seed, route | tables written by several | a market that starts is served | `MarketRegistry` (partly) |
| Health, metrics (`observability/`) | components, incidents, series, reservoirs | observe, judge, render | the worst of several, late observations | what is reported was observed | `ServiceHealth` (partly) |
| Database pool (`db/`) | sessions | connect, release | — | as far as the lease uses it | `MarketPipeline` (partly) |
| Development tools (`research/dependency-graph.ts`, `layering-lint.ts`, `architecture-lint.ts`) | — | imports, cycles, lints of the source | two tools that disagree, cycles that neither search sees | what is forbidden is reported, a cycle that is shown is one | `SourceLayers` (partly) |
| Web frontend | — | — | — | — | not modelled |

`PROJECT.json` lists every component with its status and what is left out of it,
and every hazard found in the code with the properties that watch it.

## The modules

| Module | Models |
|---|---|
| `LeaderTerms` | what the lease promises: terms of leadership, without sessions |
| `MarketPipeline` | lease, loops, start, stop, crash, sessions of several processes |
| `SignalLifecycle` | one series: market cycle, decision, publish, settlement |
| `HistoryBacklog` | one series' spool, buffer, drain and upsert |
| `VenueChain` | one market's failover chain, its venues' breakers and requests |
| `AnalysisReads` | concurrent analyses over a cache, shared fetches and flights |
| `CandleStore` | one series' candles, its ingesting processes and its backfill |
| `VoteLedger` | one indicator's hourly votes and their forward returns |
| `DatabaseUpkeep` | migration jobs, the servers that boot on their schema, retention |
| `MC...` | instances of these for TLC |
| `...Proofs` | the theorems about the eight state machines, one module for each |
| the others | pure computations, and in `...Checks` what is checked of them; see below |

### MarketPipeline

State. `mode`, `stopped` and `loop` are a process' lifecycle, the stopped flag
of each poller and where each loop is (`off`, armed `timer`, awaiting the
`gate`, in a `run`). `queue` is the tail promise of `serialize`: the loops that
await `ensureHeld`, in order. `pc`, `cur` and `reply` are the job at its head:
the await it is suspended in, its session and the server's answer. `client` is
the parked session. A session has two ends, `open` (the client's) and `backend`
(the server's), and the advisory `lock` belongs to the server's.

Steps. Each await is a step boundary, and a query takes three steps: sent,
evaluated by the server (`ServerEvaluates`), answered (`Acquired`, `Contended`,
`Checked`, `QueryFails`, `ReleaseEnds`). Between any two of them the connection
may be lost for the client (`ConnectionLost`), the server may end the session
(`BackendDies`), and each end learns of the other later (`ClientNotices`,
`BackendReaped`). The pool may close idle sessions and hands out idle ones
before fresh ones. `Boot`, `Signal`, `StopLoop`, `ReleaseBegins`, `Exit` follow
`workers.start`, `shutdown` and `workers.stop`; `Crash` may come at any time.
`grant[p][l]` is not in the code: it remembers the session a running cycle was
admitted under, so that properties can speak of it.

Each process has its own configuration: `StartOrder[p]` are the loops its
`MARKET_SYMBOLS` make, none in a process that only serves reads.

Bounds. `MaxFaults` caps crashes, lost connections and failed connects. The
identities of sessions are a finite set, reused once nothing remembers them.
One process has two loops, which share the lease's queue, and the other contends
with one: the smallest at which two loops wait behind one query while somebody
else can take the lock. With two faults a leader can be lost in every state of
its cycle and its queries, and its successor after it; the proofs of safety have
no bound on the number of anything.

`LeaderTerms` is the abstract specification: at most one open term, a new one
only when none is open, and every cycle under a term its own process stood for.
It lets a term close under a running cycle, because the code does. The mapping
is `term <- lock`, `owner <- home`, `work <- grant`.

### SignalLifecycle

One series. `row` is its `signal_state` row, `trail` the last transition,
`outcome[h]` the measurement row at horizon `h`, and `cycle[c]` a market cycle
with what it has read so far: the newest bar, the candidate, the row. A cycle
is `Observe`, `GetLive`, `Publish`, `FindClosed`, `Settle`, one step per
transaction or read, and `CycleFails` may end it between any two.

Prices and confidences are a few levels; the configured percentages are
distances between levels, so that each branch of `decideNext` (too small to
republish, worth republishing, far enough to invalidate) is taken. A bar is its
number; the market read returns the last `Window` of them, which is small
enough that a measurement can lose sight of its entry. `signals`, and in an
outcome `signal`, `measured` and `from`, are not columns: they tell apart the
signals that share the one row of a series. Returns, excursions and the verdict
among win, loss and flat are one verdict, `resolved`.

Two cycles are in flight at once while two processes lead, after a lost lease. In
the passing run two may begin side by side up to the bar `LastOverlap`, and go on
beside each other from there: the first two bars are enough for every decision
but an expiry to be raced. What a cycle decided on may then be gone when it
writes, and it puts back what it read; the properties about a decision speak of
cycles nobody disturbed, those about row, trail and outcomes of all. Its data is smaller
for that: two price levels, so that a move republishes or invalidates, one
confidence, no snapshot. The violation runs have one cycle, three levels and a rule.

### HistoryBacklog

One series of `recordSignalHistory`, its spool, its memory buffer and the drain
of both. Entries are numbered in the order of their timestamps and filed under
two hours; one of them is refused for a reason of its own (`Poison`). A step is
an uninterrupted stretch of code between awaits: `Record` with what `append` and
`push` do when the write was refused, `FlushBegins`, and the continuation of the
drain after each awaited write. `lines`, `fragment` and `bytes` are the file, its
unfinished last line and `fileBytes`; `queue`, `dirty` and `buffer` are the
code's variables, and `pending` and `writing` the drain's locals. `accepted`,
`forgone`, `undercut` and `tore` record history for the properties.

Failures. The database goes down and comes back, refuses one row, or stores a
row whose answer is lost. The disk refuses a write, keeping none of the line,
part of it or all of it. The process dies between steps or in the middle of an
append, and boots from the file. Each kind has a bound (`MaxOutages`,
`MaxDiskFaults`, `MaxCrashes`); four entries are enough to fill a file of three
lines and a buffer of two and to evict from both. The attempts of
an entry before it is given up are two instead of the code's larger constant,
which keeps both sides of the comparison in reach.

Left out: counters per market, the trim after a successful write and the summaries
(the latter two are in `ApiReads`), and the start of `recordSignalHistory` after an awaited success.
A refused write's await in `Record` is one step: the entry is in no
queue while it is awaited, and nothing in the module reads it meanwhile.

### VenueChain

The chain of one market and what lies under it. `preferred` and `recovery` are
the fields of the failover provider; `failures`, `cooling` and `probing` are, per
venue, a breaker's `consecutiveFailures`, whether its `openUntil` lies in the
future, and `probeInFlight`. `call[r]` is a request with its locals: the await it
is in (`fetch`, `backoff`, `body`), or the throw that leaves it (`thrown`), its
venue, its step in the loop, its attempt and whether it holds the reservation.
Failures are counted up to the threshold, past which the code only compares.

Steps. A step is a stretch between awaits: `Begin` and `CatchNext` turn to a
venue and ask its breaker; an attempt ends in `Unreachable` (no connection, a
timeout, a 5xx), `Throttled` (a rate limit) or `Answered` (2xx, or a 4xx that the
breaker counts as an answer); `Retry` follows a backoff; the body is `Unreadable`
or `Read`, and with that `Prefer` is `recordSuccess` of the chain. Time is only
the end of a cooldown, `CooldownEnds`, which may come at any moment.

Not in the code: `asked` and `moved` in a request's locals, the venues it has
turned to and whether the preference changed since it began; and `disturbed[v]`,
set when another request of `v` resets the breaker while a probe is out and
cleared when no probe is. A straggler from before the breaker opened can do that,
and a second probe is then admitted beside the first; `ProbesAlone` excuses
exactly this case.

Bounds. Two venues, as the program is configured, two overlapping requests, one
retry, a threshold and a recovery run of two: the smallest at which counting up,
a single failure that is not enough, and a refusal at both venues all happen.
What the program never passes, an abort signal, is left out, and so are the
several awaits of a paged historical read and the health records. A chain is
modelled alone. In the program the chains of different intervals share a venue's
breakers; to one of them the other's requests look like further requests
that do not touch its preference.

### AnalysisReads

Calls for the analysis of a market: page loads, the cycle and the scheduler ask
`analyzeMarketWithStatus`. The only thing a call waits for is the venue; what
follows an answer (flights settle, followers wake, the analysis is computed and
handed out) runs in one turn of the event loop, so an action is one turn: a call
begins (`AskCached`, `AskVenue`, `Join`), or the venue of a market answers
(`VenueAnswers`) or fails (`VenueFails`). `cache` and `fetching` are the service's
map of snapshots and its `inFlight`, `flight[m]` the caller whose analysis the
single-flight holds. `told` and `wrote` are what the turn told its callers and
wrote, and exist for the properties.

A follower whose leader failed runs the work once more itself (`Reject`), in the
same turn when the candles are cached, otherwise over a new fetch that all such
followers share. What the stages of the analysis say is one of three outcomes.

Bounds: three calls over two markets, so that two followers can retry while the
other market goes on; `CacheTtl` 1, `MaxStale` 2 and `Horizon` 3 put an age
below, at and above each limit.

### CandleStore

Time is counted in bars: bar b opens at b and closes at b + 1. A writer reads its
clock, the venue takes a snapshot, the answer arrives, and each bar is written:
four moments between which bars close and others write. A row is absent,
`forming`, `final`, or `early`: marked closed with the values of a bar that was
still moving, the state that must never be. `Put` is the upsert's rule. The
backfill reads the oldest stored bar, asks for pages below it and stops at its
target, at an empty page or at its budget; it may fail after any step and be
started again. `jumped` is not in the code: it remembers the bars that lie
between a bar an ingestion writes and the bottom of the series above it. A malformed bar is one the table's CHECK refuses: it ends the
ingestion that meets it, each time, until it has left the window, and the
backfill's validation drops it. A price of 0 passes that validation; a page with
one fails at the table, which `FillFails` allows at any time.

Bounds: two ingesting processes (a deposed leader beside the new one) with
windows of three bars, so that one may be interrupted with a hole behind it, a
backfill in pages of two over three bars, one malformed bar anywhere, the clock
running for one bar beyond the forming one. The clock stops at `LastBar`, and with it everything may
have been written, so deadlock is not checked in this run.

### VoteLedger

The rows of one indicator are hours. `Vote` is an analysis' vote, `Record` the
transaction that upserts it and trims the table, at once or after a spell in the
backlog (`waiting`); `SettleLists` and `SettleWrites` are the two halves of
`settleForwardReturns`, over the candles of the analysis it follows. A return is
named by the vote it was computed from and the bar it took, so that the property
can ask whether it is the row's own. `written` remembers when the row's vote was
committed and is not a column.

Bounds: three hours of two bars, horizons of one and two hours, a window of three
bars (a horizon can leave it), two rows kept of three.

### DatabaseUpkeep

`db:migrate` jobs of two builds and servers of two builds over one database.
A job asks for the advisory lock until its patience is out, inspects the ledger,
applies the missing versions one transaction at a time and gives the lock back,
which can fail; a crash leaves its session, its lock and the tables of its open
transaction until the database notices (`SessionEnds`, of which nothing is
assumed). A server starts only on the schema of its own build, and keeps running
when a later one is applied: nothing stops a job from migrating under it, and
`OneHistory` allows that. Its retention runner deletes table by table, each
deletion waiting for the tables a migration holds, and marks the day only when
all are done; the mark is in memory. What a run has left is the set of the
policies it has not come to, of which the first is next. A table has one policy:
its name is the primary key of `retention_policy` (`db/migrations/010_retention_policy.ts:21`).

Bounds: a job of build 1 and one of build 2, a server of each, three tables one of which is
protected, three days.

### The pure modules

These have no state of their own: each operator is a function of the code, from
its arguments to its result, and the assumptions of a `...Checks` module
say over small sets of inputs what the function must guarantee: against a
reference definition, against its inverse, against another function of the code
that is meant to agree, or against what the code does not do. TLC evaluates them
before it explores the run that extends the module.

| Module | Functions of | Checked in | With run |
|---|---|---|---|
| `WalkForward` | the plan and audit of walk-forward windows, the simulation, the fit | `BacktestChecks` | `candles` |
| `BacktestEvidence` | prices of a trade, metrics, resampling, grid search, replays, the sealed holdout | `BacktestChecks` | `candles` |
| `DecisionPanel` | the consensus, the fallback strategy, stages and the evidence gate | `DecisionChecks` | `votes` |
| `DecisionRecords` | stages of an analysis, explanation, snapshots, the journal of decisions | `DecisionChecks` | `votes` |
| `IndicatorReadings` | indicators, the graph they are planned in, regime, pivots, divergences, votes, point-in-time readings | `MarketStudyChecks` | `venues` |
| `StrategyBench` | the rules in the registry, their series, the bench and its walk-forward | `MarketStudyChecks` | `venues` |
| `PerformanceStudy` | outcomes, samples, metrics, calibration, drift, labelled rows, coins | `MarketStudyChecks` | `venues` |
| `SourceLayers` | the table of layers, the graph of imports and its cycles, the lints of the database and of market names | `MarketStudyChecks` | `venues` |
| `ExactNumbers` | exact rationals of binary floats, rounding, bounded rationals | `RiskChecks` | `lifecycle` |
| `PositionRisk`, `MarginAssessment` | a position's metrics, margin, liquidation and report | `RiskChecks` | `lifecycle` |
| `CandleSeries` | the candle clock, validation, quality, audits, daily bars, the paging of a venue's history, the reads and the inventory of a stored series | `MarketDataChecks` | `upkeep` |
| `MarketRegistry` | tickers, classification, asset tables, routing, configurations | `MarketDataChecks` | `upkeep` |
| `ApiReads` | summaries, pages and cursors, conditional reads, rate limit, errors, what a venue's failure becomes and a chain's | `ServiceChecks` | `reads` |
| `ServiceHealth` | components, incidents, providers, readiness; the registry of metrics, percentiles, telemetry, the exposition | `ServiceChecks` | `reads` |

Data. Prices are whole numbers, and what is computed from them is an exact
fraction; a deviation is kept as its square and a ratio over one as its sign or
its square, so nothing is rounded that the code does not round. The one module
about rounding, `ExactNumbers`, takes the format as a parameter and is evaluated
with three bits of precision, where every pair of numbers can be tried.
What may be null or NaN is a set of at most one value. Random draws are inputs,
so a statement about a resampling test holds for every outcome of its draws.

## The runs

| Run | Shows |
|---|---|
| `lease` | two processes with two loops and with one, two sessions, two faults: five safety invariants, the refinement of `LeaderTerms`, cycles go on while a process stays up, and a stopping process comes down |
| `lifecycle` | four bars, two signals, two cycles, every verdict of the panel: row and trail, expiry, entries, outcomes |
| `lifecycle_reopen` | violation: an expired row is expired again instead of opening a new signal |
| `outcome_one_signal` | violation: a measurement row opened by one signal is finished by the next |
| `backlog` | four entries and every failure above: rows move forward, an entry has one owner until it is written, what is spooled survives, no entry waits for ever, and what the spool still holds once the outages are over is written |
| `spool_confirm` | violation: `confirm` removes an entry that was never written |
| `venues` | two requests over two venues: reservations, probes, switches, what an undisturbed request asks, and that every request ends |
| `reads` | three calls over two markets: what is served and how old, who writes, and that every call ends |
| `candles` | two writers and a backfill: closed rows are final, no holes, and the backfill ends |
| `candles_forming` | violation: an ingestion writes all it was given and has no row for the bar that is forming |
| `votes` | late votes beside settlements: what a return measures, and that it does not change |
| `upkeep` | two builds: one history of the schema, what a prune deletes, and that every job ends |

Deadlock is checked in all of them but `candles` and `candles_forming`, whose
clock stops. No run uses symmetry. Every run but those of the lease and the backlog evaluates assumptions of the
pure modules besides its own state space, which takes most of a minute in
`venues`.

### Disagreements with the code's own words

Found by the violation runs:

* `signals/lifecycle.ts:43` says that with nothing live an opinion opens a new
  signal. `getLive` returns a closed row too, so an expired signal is expired
  again by every cycle, and neither an opening nor a reversal is reached.
* `outcomes/outcome.repository.ts:223` says a second measurement is of the same
  signal. All signals of a series have the same state id, so it need not be.
* `observability/write-spool.ts:85` says that `confirm` removes the entry whose
  write succeeded. If an append evicts that entry during the await, `confirm`
  removes another one, uncounted.
* `history/ingestion.service.ts:61` says "The forming bar is stored too", so that
  the dashboard can show the candle that is forming (line 21 says the same, and
  `ingestion.service.test.ts:94` tests it with a venue that keeps that bar). The
  venues of the program do not hand it out: `dropStillFormingCandles`
  (`market/providers/binance.provider.ts:345`) and `toCandles`
  (`bitget.provider.ts:519`) leave out what has not ended when the answer arrives.
  `FormingBarIsStored`.

Characterised by a property that says what does hold:

* `observability/write-spool.ts:35` says that "an outage longer than any bound
  leaves the entries on disk". The drain counts an attempt against the entry whose
  write fails before it can tell an outage from an entry that is refused for good
  (`history/signal-history.service.ts:327`): an outage of as many flushes as there
  are attempts drops the head of the spool, healthy or not, although the comment of
  `drop` (`write-spool.ts:87`) speaks of what "the database has refused". Evictions
  at the ceilings and a crash over the buffer give up healthy entries too.
  `HeldEntriesSettle` therefore says less than the comment: no entry waits for
  ever, each is written or counted as given up, and what the spool still holds when
  the database is up for good and nothing is appended any more is written.
* `db/lease.ts:6` says "one writer at a time". The lease is asked before a
  cycle; a session lost under a running cycle lets a contender start its own.
  `OverlapNeedsLoss`: cycles overlap only after a loss.
* `market/failover.provider.ts:16` says that a call that throws hands over to the
  next venue for that same request. The loop computes each step's venue from what
  is preferred by then: if another request switches in between, it asks the same
  venue twice and the other not at all. `UndisturbedRequestAsksAll`.
* `observability/write-spool.ts:79` says that queue and file cannot disagree.
  After a write that was cut short the next append makes one unreadable line of
  the fragment and its own entry. `SpooledSurvives`, `OneOwnerUntilWritten`.

### Also visible in the models

Behaviour the models show and the text of the code says otherwise or does not
say. An operator named in brackets states it in the module or its `...Checks`.

Signals, backlog, venues.
* The comment above `snapshotId` in `signals/publish.ts:53` says that updating a
  signal changes neither the bar it stands on nor the snapshot that holds that
  bar. `Publishing` keeps the snapshot and takes the panel's bar, price and
  direction: after an update or a reversal the row's snapshot is of another bar
  than the row, and a reversal's outcome is credited to the rule before it.
* Two cycles of two leaders overwrite each other: the later write puts back the
  signal its cycle had read, and the trail follows it.
* An append past the file's ceiling evicts the whole queue: the loop tests the
  size of a file that evicting does not change.
* A measurement whose market read no longer reaches back to the entry counts its
  horizon from the first bar it did read; `ResolvesOnceOnItsBar` says which bar it is.
* A late answer of a request that began under an earlier preference moves the
  site off a primary that has just recovered.
* `market/failover.provider.ts:353-359` says that a client gets 504 only when every
  venue was late. The status is that of the kind, so it is 504 too when one was late
  and the other's circuit was open. When no venue was throttled the chain says that
  the read may be tried again, also where no venue did, and of a throttled one it
  forgets the wait (`TheChainForgetsItsVenues`).

Reads and API.
* A cached snapshot exactly as old as the TTL is neither a hit nor stale: if the
  venue fails then, the call is refused.
* After a failed leader every retrying follower leads, and writes its own set.
* A fetch with too few candles is `fresh`, a later hit on it `partially_available`.
* `lastTransition` looks at 24 hours though the durations do not. A late row
  resurrects a trimmed hour until the next trim. The rate limit fails open, counts
  refused requests, and admits twice its budget across a window's boundary.

Candles and upkeep.
* `market/providers/bitget.provider.ts:477` says that the two providers must agree on how many candles a series holds. In the last millisecond of a
  bar they do not, and a history that fits one page of Binance is one bar short where
  Bitget's is not (`VenuesAgreeOnClosedBars`, `HistoriesAreTheNewest`). A page that a venue
  refuses by an empty answer reads as the end of its history
  (`HistoriesAreMissingNothingBetween`).
* The inventory counts every stored row as of unknown provenance, so no series in
  the database is ever allowed (`NothingStoredIsReliedOn`; its comment says that no
  claim of the storage is upgraded).
* `history/backfill.service.ts:132` says of the validation of a bar that it "is the
  table's own constraint as well". The constraint refuses a price of 0
  (`db/migrations/005_market_candles.ts:33`), the validation does not, and a bar of
  that price costs a backfill the page it is in (`TheTableIsStricter`).
* Forming rows are only ever of bars that closed while the answer was under way.
* A backfill's cursor is the oldest row, whoever wrote it. An ingestion that
  writes a bar below the bottom of the series and is interrupted before it has
  reached it leaves bars out that the backfill, which goes on below, passes over:
  it reports `target_reached` with a hole above its cursor (`jumped`; the next
  ingestion mends it if the bars are still inside its window).
* A malformed bar ends every ingestion until it has left the window; downtime
  longer than the window leaves interior gaps, which a backfill below the oldest
  row does not fill. A page whose bars are all malformed ends a backfill as
  `no_more_bars`.
* Live reads hold closed bars only, so their freshness scores 0.5 against a
  threshold of 0.6 and `dataQualityUsable` is false except on a bar's boundary.
* A deletion may succeed while its `retention_run` row is refused; one failing
  table keeps the later ones from being pruned; a restarted server prunes again
  the same day. A dead job keeps lock and tables until its session is noticed, and
  an older server cannot restart after a newer schema.

Votes, panel, records.
* A refused vote written after an earlier vote of its hour was measured replaces
  time, signal and price but keeps the other's return (`MeasuredAtItsHorizon` names
  the case). Votes older than the window are never measured.
* In the panel heads decide, not weight, and a vote of no weight can force a tie;
  the refusal for want of weight cannot be reached. Evidence counts rows of
  `signal_state`, of which a symbol has few, so the shadow minimum of 60 is out of
  reach. A `promotionMargin` below zero lets a slightly worse candidate pass.
* The fallback's settings are read again where a failed stage is caught, so a
  wrong one fails every analysis (`AWrongSettingFailsEveryAnalysis`). A cycle may
  store its analysis under two snapshots (`ACycleMayStoreTwice`). An outage counts
  as an attempt (`AnOutageGivesRowsUp`). The shadow report of an active fallback
  compares it with itself.

Indicators and rules.
* A plateau pivot's `confirmedAtIndex` is earlier than the bar at which it could
  be known, contrary to `types/analysis.ts:117-121` (`PivotsAreNotRepainted`).
* One reading that throws fails all indicators of the analysis, also one that is
  not returned (`OneReadingFailsAll`); the bars required leave out ADX and the
  bands (`VotesBeforeTheRegime`). A price that has fallen below its average while the closes
  stay above votes LONG, with more weight the further it fell (`TheVoteOfTheAverage`).
* `strategies/series.ts` says the first candle contributes no true range; it does
  (`TheFirstBarIsInTheRange`). The repository's two RSI differ (`TwoOfEachIndicator`);
  `rsi-reversion` sells a market that stands still (`ReversionSellsTheCalm`). The
  channel rule's exit is at the first close inside, not at the far side
  (`TheExitIsInsideTheChannel`). A rule is first asked one bar after it is ready
  (`TheFirstReadyBarIsNotAsked`). The walk-forward's minimum share decides only the
  wording of the reason (`TheShareDecidesNothing`).

Performance and research.
* `outcomes/outcome.ts:41` says `expired` is a series that ended before the window did;
  it is said while no bar has followed, and a series that ends inside the window
  stays `unknown` (`AMeasuredHorizonIsFinal`).
* `meanClaimed` is the accuracy itself when no bucket is measured
  (`TheClaimMayBeTheOutcome`). Loading takes the oldest rows up to the limit
  (`TheOldestRowsAreRead`).
* `splitByTime` cuts both boundaries at the test's start, so rows of the training
  part may be labelled inside the validation part (`TheTrainPartMayReachTheValidation`).
  The features divide the range by the close twice (`TheRangeIsDividedTwice`); a
  label that is unknown is class 0 when kept (`AnUnknownLabelIsAFall`).
* `compareAgainstCoins` calls a result significant against a single coin and can
  report p = 0, which `research/` elsewhere calls not a measurement (`OneCoinIsEnough`).

Backtest.
* A validation ratio of 0 still takes one bar, though its doc says it disables
  validation. `roundTripCost`'s doc is true of long trades only (`WhatATradeCosts`).
  The permutation of the order of trades leaves the statistic it judges unchanged
  (`TheTotalKnowsNoOrder`). A grid above its limit keeps the low values of its
  first parameter only. A rejected fold can never be replayed. Sealing the holdout
  counts the bars before it and does not compare their fingerprints.

Development tools.
* `research/dependency-graph.ts` says that its rule is a total order. It is one of
  the layers that decide; those that everyone may import may import each other, and
  `observability` and `db` too (`TheTableIsAnOrder`). Each of its two searches follows one
  kind of edge, so a permitted cycle that leaves a layer by one file and returns by
  another is shown by neither (`MixedCyclesAreMissed`).
* It and `layering-lint.ts` guard the same line and draw it in different places
  (`TheTwoLintsDiffer`): the lint does not see the pool when it is imported as a
  namespace, at run time, exported again, or as a default beside names.

Risk.
* A section's reason may be of a milder metric than its status. A position under
  water is `valid` with its ratio not applicable. Inverse metrics read the
  contract size of the input, margin and liquidation that of the rules.

Health, metrics, markets.
* Of several markets only the last one is reported when it is empty, contrary to
  the comment at `observability/health.registry.ts:107` (`TheMissingMarketIsPassedOver`).
  Incidents are recorded and never close. Readiness is the database's alone.
* Backlog totals are exposed twice, by hand with their value and from the registry
  as 0. `metricLabelLimit` is not enforced. A reservoir keeps its first 256 values.
* The primary symbol is filed under the primary venue at every interval, also
  where another one serves it (`FiledUnderTheLeader`). A start accepts a market
  whose venue is neither provider nor fallback (`WhatStartsIsServed`).

## Fairness

`MarketPipeline!FairSpec`: timers fire; cycles end and queries are answered or
fail (`statement_timeout`, `connectionTimeoutMillis`, request timeouts); each end
of a dead connection learns of it; a process that stops goes on stopping. Nothing
is assumed to start, signal or crash a process. `Connect` is strongly fair: the
finite set of session identities can be used up for a moment by the other
process, which a real database does not do. The client sets no timeout of its
own on a query, so for a half-open connection "learns of it" rests on TCP.

`HistoryBacklog!FairSpec`: the drain is called again (the tick of a process that
leads, or its shutdown), an awaited write is answered or times out, and an
outage ends. A process that never leads does not tick its drain: for it the
first assumption is not justified, and its backlog may wait.

`VenueChain!FairSpec`: a fetch is answered or times out (the request carries an
`AbortSignal.timeout`), a backoff is over, a body is read or is not, and a caught
error goes on. No request is assumed to begin and no cooldown to end.

`AnalysisReads!FairSpec`: a fetch of each market ends, with an answer or with a
failure, which the request's timeout sees to. No call is assumed to begin.

`CandleStore!FairSpec`: a backfill's next step happens: a venue answers or times
out, the database too. Nothing is assumed of the ingestions or of the clock.

`DatabaseUpkeep!FairSpec`: a job's next query gets an answer unless it is refused
first (`statement_timeout`, `lock_timeout`). Nothing is assumed of dead sessions.

`SignalLifecycle` and `VoteLedger` state no fairness: their properties are safety.

## The proofs

`MarketPipelineProofs` proves, from the two named assumptions of
`MarketPipeline` (a start order lists no loop twice, `None` is no session)
and for every `Process`, `Loop`, `Session` and `MaxFaults`:

`TypeCorrect`, `LoopsNeverOverlap`, `CyclesAreCovered`, `ExclusiveBetweenLosses`,
`NoLeakedLock`, `ReleaseIsFinal`, and `PipelineImplementsTerms`.

The invariant behind them is `IInv`: the properties `TypeOK`,
`NeverOverlapsItself`, `CoveredUntilLost` and `PoolHoldsNoLock` with four facts
they need to be inductive.

* `Ownership`: a session that is parked, worked on or was granted belongs to
  that process. Without it a session given to one process could be the grant of
  another, and a lost lock could not be traced to its holder.
* `Parking`: the job's session and the parked one relate as the code's control
  flow says (a `check` is on the parked session or on one that was just dropped;
  a `try` or an `unlock` while none is parked), and no answer is left over.
* `Locking`: the lock is held by a live server end; a parked session whose server
  end lives holds it; a positive answer not yet read means that the lock is still
  there unless the server's end has gone, and a negative one, or an answered
  unlock, that it is not.
* `Stopping`: in each stage of `workers.stop` what it awaited is over, and a
  question to the lease has a loop behind it.

`Invariance` proves that `IInv` holds initially and that each of the actions
preserves it, with one step per action. `ExclusiveBetweenLosses` follows from
`CoveredUntilLost` (two live grants would both be the lock) and `Ownership`;
`ReleaseIsFinal` from `Stopping`, `Parking` and `Locking`. The refinement uses
`IInv` for the two guards of `LeaderTerms`: a session that is given a new home
is neither the lock nor the grant of a running cycle, and a grant is a session
of its own process.

`VenueChainProofs` proves, from `ChainAssumption` (a chain has a venue, the two
thresholds are positive) and for every `Request`, `Venues` and thresholds,
`TypeCorrect`, `NoStrandedProbe`, `OneProbeAtATime`,
`SwitchNeedsThePrimaryAsked` and `NoVenueIsSkipped`. Its `IInv` adds to `TypeOK` and
`ReservationHasHolder`:

* `ProbesAreOut` and `AttemptsLeft`: a request holds a reservation only in an
  attempt or between two, and waits for another only while one is left. Without
  the first a request that turns to the next venue could take a holder away.
* `OneHolder`: unless disturbed, a venue has one holder and the flag is set while
  it has. The flag is what refuses a second probe, so the bound on holders needs it.
* `AskedInOrder`: a request that saw no switch has asked the venue of each of its
  steps, as they are counted from what is preferred now. At step 0 that is the
  preferred venue, which gives `SwitchesOnFailure`; after the last step it is every
  venue of the chain, since they are counted modulo its length (`EveryVenueComesUp`).

`CallOver` is the common case: a request that ends its call of a venue leaves the
reservations in order, whether it resets the breaker or returns the reservation.

`SignalLifecycleProofs` proves, from `LifecycleAssumption` and `NoneAssumption`
(`None` is no value of another kind) and for any cycles, prices, rules and
horizons: `TypeCorrect`, `TrailAndRowAgree`, `LiveSignalsAreYoung`, `EntryIsKept`
and `ResolvedOnceOnTime`. The invariant needs one fact beyond the properties:
`JobsAreOfThePast`, a cycle works on a bar that has closed. Without it a cycle
could settle on the bar of a later one, and the exit of a horizon need not be a
bar the market has. The action properties then follow from what each of the five
decisions can write (`Decisions`, `WhatIsWritten`).

`HistoryBacklogProofs` proves, from `BacklogAssumption` and for any number of
entries, any poison and any ceilings: `TypeCorrect`, `RowsShowTheNewest`,
`OneOwner` and `SpoolOutlivesCrash`. Its invariant has a part for the database,
the queue, the file, the buffer, the drain and the counters, and two that relate
them:

* `Apart`: no entry is in two of queue, buffer and drain. What boot reads is what
  the dead process had, so an entry that is twice in the file would be twice in
  the queue: `FileOK` says that only unreadable lines are there twice.
* `AllAccounted`: every entry is accepted, held or counted as given up, or else an
  append was cut short or an entry was evicted under its write.
* In `DrainOK`: the entry the drain awaits is the head of its lane unless it was
  undercut. The violated claim of `confirm` is the other side of this.

What boot reads is a recursive function on a sequence of any length. The
library's rule of induction takes an operator as a parameter; `AllNaturals` states
it for a set instead, from the well-ordering of finite sets by inclusion, and
`ParsedIsDefined` and `ParsedReadsEntries` apply it.

`AnalysisReadsProofs` proves, from `ReadsAssumption` and for any callers,
markets and limits: `TypeCorrect`, `NewestWithinLimits` and `ComputedIsWritten`.
Its invariant adds `CacheIsOwn` (a snapshot is of its market), `JoinersFollow` and
`RegisteredLeads` (who joined follows the one analysis that is registered, and
that is the only first one) and `FetchIsDue` (a venue is asked only when the
cache does not answer). An analysis is written once because one caller leads it,
and that holds over the turns in which a refusal sends the joiners back to ask
again. The proof of the age limits needs `CacheTtl <= MaxStale`, which
`config/market.schema.ts:253` enforces.

`CandleStoreProofs` proves, from `StoreAssumption` and for any window, page,
target and budget: `TypeCorrect`, `NoHoleLeft` and `FinishedStaysFinished`.

* `RunsInOrder` and `FillInOrder`: clock, answer and now come in this order, so what
  is closed by the clock had closed when it was read. `StoredHadClosed` keeps it.
* `WithinBudget`, with the page in hand: no write goes over the budget.
* `PageIsWhole` and `SolidBelowTop`: from the bottom of the series up to where the
  run began every bar is accounted for; `CursorIsStored` and `BottomAtTarget` tie
  the cursor to the rows, which ingestions write meanwhile.

The first attempt at this proof failed: with a window of three bars or more an
ingestion that reads an old clock writes below the bottom of the series and leaves
bars out, and the backfill, whose cursor is the oldest row, never returns to them.
TLC found the trace once the bound on the window was raised. The property now names
the bars left out that way (`jumped`).

`VoteLedgerProofs` proves, from `LedgerAssumption` and for any hour, horizons,
window and limit: `TypeCorrect`, `ReturnsFitTheirRows` and `RowsOnlyGoForward`. Its
`ListedIsRowOrOlder` is what makes a settlement safe whose list is stale: the vote
it measured is still the row's, or the row's came after the last bar the
settlement knows and none of its horizons has ended yet, or the hour was trimmed,
and the newer hours that displaced it keep it out.

`DatabaseUpkeepProofs` proves, from `UpkeepAssumption` and for any jobs, servers,
builds and policies: `TypeCorrect`, `SchemaHasOneHistory` and `PolicyIsKept`.
`HolderGoesInOrder` says that whoever is past the lock holds it, a process that
died with its session open included, and is at the version after the stored one:
so two builds cannot interleave. `PruneGoesInOrder` says that a run has deleted
what every policy it is done with allows, which needs one policy per table.

Each `IInv` was an invariant of its component's run before it was proved.

Only model-checked:

* Liveness, which this prover does not reach: `PipelineGoesOn`, `StopCompletes`,
  `RequestsEnd`, `HeldEntriesSettle`, `CallsEnd`, `BackfillEnds`, `RunnersEnd`.
* What the pure modules compute. `IndicatorReadings`, `SourceLayers`,
  `ServiceChecks`, `DecisionChecks` and `MarketDataChecks` use `RECURSIVE` operators, and the others
  are folds, whose value for every input is induction over data.

## Not modelled, and the plan

Of the runs' safety properties on the eight state machines, each that holds is a
theorem. To be proved yet: lemmas about the pure operators that are not recursive
(the exact arithmetic of `ExactNumbers`, the candle clock of `CandleSeries`, the
tables of `MarketRegistry`, cursors and pages of `ApiReads`), which the
assumptions of the `...Checks` modules establish over small inputs only.

Not modelled, in code that could be: two processes over one
spool directory; chains of two intervals over shared breakers; trained models, ensembles and evolution under
`research/`; the schema's rules about the time of candles and the hashes of an
input's identity in `risk/`.

Not modelled, because there is nothing to check: the web frontend keeps no state
the backend depends on; `research/docs-generate.ts` and the parsing of the
repository's own source, which `SourceLayers` takes as its input; logging, wording
and layout of reports.
