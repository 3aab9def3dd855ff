# Verification of CoinPilot

TLA+ models of the stateful parts of CoinPilot (`src/src/coinpilot`), checked
with TLC, and proofs about them checked with TLAPS. CoinPilot never sends a real
order: it records public Upbit feeds, keeps a simulated ("shadow") account on
them, paper-trades closed candles and backtests. What can go wrong is therefore
not an order but an account: money that appears or vanishes across a restart, a
fill that crosses a gap in the data, a halt that does not hold, an alert that is
lost.

## The system

| Component | State it keeps | Operations | What is hard |
| --- | --- | --- | --- |
| Shadow ledger and engine (`hft_shadow_store.py`, `hft_shadow.py`) | SQLite rows: runs, account state, decisions, orders, fills, outbox | `start_run`, `process_book`, `halt`, `stop_run`, each one `BEGIN IMMEDIATE` transaction | orders wait across books; crashes, stops and restarts between any two transactions; halts from two threads |
| Shadow service (`shadow_service.py`) | process lock, capture reservation, policy memory, heartbeat thread | record loop → `consume` → `process_book` → `halt_if_flat`; heartbeat → `update_heartbeat`, `halt`; `finally` → `stop` | two threads on one engine; a join that times out; a status read before it is used |
| Notifier (`shadow_ops.py`) | none of its own; leases in `notification_outbox` | claim, send, mark, record failure | lost answers, dead workers, leases that run out, retries |
| Status server, watchdog (`shadow_ops.py`) | none | reads; one idempotent alert per stale feed | – |
| Archive recorder (`hft_archive.py`) | partition writer, connection and backoff state | write, rotate, finalise, abort | crash between the steps of a finalisation |
| Audit journal (`hft_audit_journal.py`) | write-ahead file of one partition | append, discard, scan, quarantine, recover | torn frames; recovery killed and run again |
| Artifacts (`hft_workflow.py`) | lock, staging directory, completion marker | promote, invalidate, write, verify | crash between promotions |
| Paper account (`paper.py`, `store.py`) | JSON account with a revision, event rows, a file lock | `process_snapshot`, `save_paper_step`, `run_paper_once` | compare-and-set against a second process; two saves in one call |
| Bar engine, broker, risk (`engine.py`, `broker.py`, `risk.py`) | portfolio, pending signal, cooldown, halt | `process_bar`, `liquidate` | entry, stop, gap and drawdown halt on one bar |
| Market data (`data.py`, `store.py`) | candle table | fetch pages, drop open candles, store, load the newest rows | candles that appear between pages; rows left by earlier commands; clocks |
| Backtest, walk-forward, research (`backtest.py`, `strategy.py`, `research.py`) | prediction table, one account per run, a bundle of five files | fit and calibrate per refit, execute bars, split at the holdout | rows whose label is not known yet; market gaps; two runs writing one bundle |
| Depth replay (`hft_depth.py`) | none: archive in, outcomes out | load, index into runs, choose a book, sweep it | marks on records the replay skips; boundaries of a run; rounding at a level |
| Features, models, simulation | tables | pure functions | numerical |
| Command line, configuration, Mac scripts | files | parsing, validation, launchd jobs | – |

The recorder calls the service's `consume` for every public event, after the
audit journal made it durable. `consume` reads the account, asks the policy and
hands book and intent to the engine. Every engine transaction may enqueue
notices; the notifier, a separate process, drains them. The heartbeat thread
halts the engine when the disk fills. The next process, started by launchd,
finds in the ledger whatever the last one left.

What makes each part correct: **ledger** – an order fills once, in its own run,
on its own connection, after the latency and before the data is stale; the
account covers it when it does; restarts keep the account and lose the order;
nothing trades before a warmup; a halt stays. **Outbox** – nothing is lost,
nothing is reopened, a live lease excludes others, everything ends.
**Journal and archive** – a committed event keeps a durable source through any
crash and is archived in the end; no data file is published without its
manifest. **Service** – whatever the feed missed reaches the account with the next
book, a limit exceeded ends buying, a stop request ends the session.
**Artifacts** – a marker names only what it was computed from, and a mixture is
refused. **Paper** – no fill twice, no fill lost, no resume after a halt.
**Candles and predictions** – nothing that was open at the cutoff, no label that
was not known. **Bar engine** – trades are those the labels speak of, stops cost
no more than budgeted, a cooldown is served, a drawdown ends trading. **Depth
replay** – an order settles at the first book after its latency across an
unbroken archive, and takes no more than was visible.

`PROJECT.json` lists the hazards line by line with the properties meant for
each.

## Modules

| Module | Models |
| --- | --- |
| `ShadowLedger` | the shadow account: all four store transactions and every branch of `process_book` |
| `ShadowLifecycle` | abstract specification of the account: exposure changes only while trading, an interruption withdraws the order, trading resumes after a warmup, a warmup starts flat |
| `MCShadowLedger` | instance for TLC (a fee function) |
| `ShadowService` | one shadow process on that account: recorder loop, consumer, policy, heartbeat thread, start and shutdown. EXTENDS `ShadowLedger`, and every step that writes the account is one of its transactions |
| `ShadowServiceProofs` | first the account: its inductive invariant, the theorems it yields, what a step may do, and that it implements `ShadowLifecycle`. Then the service: the joint invariant of both, the theorems it yields, and that it implements the account's specification |
| `MCShadowService` | instance for TLC |
| `NotificationOutbox` | outbox rows and the notifier processes |
| `NotificationOutboxProofs` | inductive invariant of the outbox and the theorems it yields |
| `MCNotificationOutbox` | instance for TLC |
| `CaptureJournal` | partition writer, audit journal and their recovery, one system call at a time |
| `CaptureJournalProofs` | inductive invariant of the archive and its journal and the theorems it yields |
| `MCCaptureJournal` | instance for TLC |
| `PaperAccount` | the paper account, one call of `run_paper_once` in the steps others can come between |
| `PaperAccountProofs` | inductive invariant of `PaperAccount`, what its fills have to do with the account, and the theorems both yield |
| `SetFacts` | induction over finite sets, sums over them, folds of sequences and the order of finite sets of numbers, for the proofs |
| `MCPaperAccount` | instance for TLC |
| `ArtifactBundle` | runs that publish files and their completion marker, in the three protocols of the repository, and a reader |
| `ArtifactBundleProofs` | inductive invariant of the bundles and the theorems it yields |
| `MCArtifactBundle` | instance for TLC |
| `WalkForward` | which rows a walk-forward model may be fitted on, as operators |
| `BarEngine` | one bar of the execution engine with broker and sizing, as operators |
| `Backtest` | download, table, predictions and bars of a backtest or research assessment. EXTENDS both |
| `BacktestProofs` | inductive invariant of a backtest, what a walk-forward model may know, what a stop may cost, and the theorems they yield |
| `DepthReplay` | recorded envelopes, loader, index, choice of a book and sweep |
| `DepthReplayProofs` | what the recorder leaves, what loader, index and sweep make of it, and the theorems they yield |
| `MCBacktest` | the two evaluations of recorded data, `Backtest` or `DepthReplay`, one of them in a behaviour |

### ShadowLedger

`run` holds `shadow_runs` joined with `shadow_state`, including the two status
columns the code writes separately; `pending` the orders whose status is
pending; `last` the `last_*` columns; `alerted` the halt alert keys of the run;
`phase` the life of the process. One action is one transaction:

| Action | Code |
| --- | --- |
| `StartFirst`, `StartNext` | `start_run` without and with a predecessor: choice by wall clock, expiry, `interrupted`, carried account, inherited halt |
| `BookBreaks` | continuity branch: gap flag, other capture or connection |
| `BookLiquidates` | recovery sale, placed and filled on one book |
| `BookTrades` | `_resolve_pending`, warmup count, `_record_intent` |
| `BookRepeats`, `BookRaises` | exact duplicate; regressed or colliding book |
| `Halt`, `HaltCollides` | `halt`; the same halt again, whose alert key collides |
| `Stop`, `Exit` | `stop_run` from the `finally` clause; end or death of the process |

Amounts are natural numbers and a depth sweep is nondeterministic (part or all
of the request, any listed proceeds), so that no property rests on prices.
A connection stands for (capture, connection); a position on it for ordinal and
monotonic time, which rise together; a gap flag also for the
monotonic-regression marker. Equity, drawdown, samples and informational alerts
are absent: no guard of the engine reads them. The policy is any intent at all,
and `Halt` may come at any time, also after `Stop`, because the heartbeat thread
can outlive the join (the join waits `heartbeat_seconds + 1`, SQLite up to 30 s).
`streak` is an observer: unbroken books since a start, break or recovery.

### ShadowService

`loop` is the place of the main thread, `feed` the recorder's socket, its pending
gap and the position of the last event, `record` the event in the consumer's
hands, `mark` the closure's `intervening_boundary`, `heard` the signal's count,
`decided` and `risk` the policy's intent and `_risk_halt_reason`, `beat` the
heartbeat thread and `stop` what `stopped()` answers. `drawn` says whether the
account's `max_drawdown` is beyond its limit; it is a column of the ledger and
survives the process. The observers are `lost` and `breached`.

| Action | Code |
| --- | --- |
| `Begin`, `Crash`, `Unwind`, `CloseRun`, `Leave` | lock and `ShadowEngine.start`; death; the `finally` clause of `_run_shadow_service_locked`, `engine.stop`, the end |
| `Request`, `SessionEnds`, `Continue` | a signal; the head of the recorder's loop |
| `Connect`, `ConnectFails`, `Drop`, `Reject`, `Nothing`, `RecorderFails`, `Receive` | one turn of `record`: open or fail to open a socket, lose it, a message that cannot be normalised, a timeout or a heartbeat message, an error that ends the session, an event |
| `Consume`, `Apply`, `ApplyFails` | `consume`: signal and mark, status read and intent; `process_book` as the joint step with `BookBreaks`, `BookTrades` and the others of `ShadowLedger`; its failure |
| `LookFlat`, `HaltFlat` | `halt_if_flat`: the read and the halt are two transactions |
| `BeatHalts`, `BeatStops`, `BeatBreaks`, `BeatEnds` | `heartbeat`: halt on a full disk, then stop; an exception; the end |

The signal's score is any side it may say once it has heard enough books; equity
enters as whether a limit is exceeded. One capture of one market is modelled per
process, as the service runs it.

### NotificationOutbox

`row` is the table with the two deadlines held as time left; `batch`, `answer`
and `spent` are a notifier's claimed rows, the answer in hand and the time on
the current notice. `Claim`, `MarkDelivered`, `RecordFailure` and `Enqueue` are
the store calls, `Send` the request between them, `LeaseGone` the
`ShadowInvariantError` that `run_notifier` does not catch, `Crash` any other
death. A request that fails may still have reached Slack; `confirmed` therefore
counts 200 answers, not messages seen. `Tick` passes time unless a worker has
spent `SendTime` on its notice: the 10 s request timeout and the 1 s pause bound
that. The attempt count read with the batch only sets the backoff, so any wait
of `Retry` may follow a failure.

### CaptureJournal

`job` is what each recorder is doing: the next system call (`pc`), the segment,
the events of the open partition and where to go once the segment is dealt with.
`wal` and `disk` are the journal files as processes see them and as they are
synced; `names` is the history of the file names since the last sync.

| Action | Code |
| --- | --- |
| `Acquire` | the recorder lock, taken before recovery and held until the session ends |
| `Recover`, `AsideData` … `AsideSync`, `Recovered` | `_recover_one` for every journal left: unusable, already committed, or to be rebuilt after what is there was set aside |
| `Rotate`, `CreateJournal`, `SyncHeader`, `ListJournal`, `CreateFails` | a new partition and its journal |
| `AppendFrame`, `SyncFrame`, `Consume` | write, durable append, `on_record`, for one event |
| `PromoteManifest` … `SyncData` | `finalize`, and the same order in `_write_recovered_bundle` |
| `FinalizeFails`, `UndoData`, `UndoManifest`, `Abort` | the error handlers |
| `DropJournal`, `SyncDrop`, `DiscardFails` | removal of the journal, best effort when recording |
| `Kill`, `PowerFails` | the process dies: files stay as they are; the power fails: unsynced contents and names may be lost |

The consumer is the ledger transaction: it commits, or raises on either side of
its commit. A signal during a write taints the partition as an error does. A
journal file never holds more than one unsynced frame, so after a power failure
it holds the synced frames, all frames, or the synced frames and a torn one.
`Shared` says how names survive. TRUE: changes reach the disk in the order they
were made, whatever directory they are in, and any sync settles all earlier ones
(a file system with one metadata journal, as on the supported Macs). FALSE: each
directory stands alone, which is all that `fsync` of a directory promises.
Files named `*.partial` are left out, as are symbolic links and a frame that is
complete but corrupt.

### PaperAccount

`account` is the row of `paper_state`, `fills` the fill rows of `paper_events`,
`lock` the holder of `paper_account_lock`. For each process `pc` is its place in
`run_paper_once`, `copy` the `PortfolioState` in its memory, `news` the fills it
has yet to save, `found` the newest candle of its history with the signal on it.
`caller` says whether processes come through the command line, which takes the
lock, or call `run_paper_once` directly, which does not.

| Action | Code |
| --- | --- |
| `Start` | `paper_account_lock`, which refuses a second command at once |
| `Load` | account read; an open position goes to the risk-only step |
| `RiskSnapshot`, `RiskSave` | a ticker against the stored stops, twice when it causes a drawdown halt; first save |
| `Fetch` | candles, readiness, prediction |
| `BarSnapshot`, `Save` | a second ticker, `process_snapshot` on the newest candle, second save |
| `SaveRefused` | `ConcurrentPaperUpdate` and colliding events; nothing is written and the process ends |
| `Fail` | any other error, retried by the loop or not, and a kill at any point |
| `Tick`, `Rewind` | the local clock, which may be set back |

`Processed` is `process_snapshot` with the order of its rules kept: halts, exits,
entry, marks and drawdown, cooldown, stamps. A position is one lot at the ticker
price, so that cash is exact in integers; a prediction is the decision it leads
to; a revision is `fresh`, true as long as nobody else saved, because revisions
only grow. The newest candle may jump by any number of bars, which stands for
missed calls and for gaps in the table alike. A changed configuration is refused
before anything is written and left out, as is the text of events.

### ArtifactBundle

`files` and `marker` name the writers of the members and of the hashes in the
marker; `lock`, `reservation`, `staged`, `pc`, `at` and `sums` are the bundle
lock, the reservation file, each run's staging files, its step, the member it is
at and the hashes it has computed. `protocol` picks the order of the steps:

- "workflow" (`hft_workflow.py` and its commands): look, stage, lock, invalidate
  the old marker, promote, hash, publish the marker;
- "backtest" (`write_backtest_artifacts`): lock, stage, hash the staged files,
  promote, replace the summary, which is the marker and is never invalidated;
- "record" (`hft-record` and the shadow service): look, reserve the capture id,
  write, hash, link the marker.

| Action | Code |
| --- | --- |
| `Check`, `Reserve` | `_validate_output_path`, `hft-record`'s look; the hard link of the reservation |
| `Stage`, `Lock`, `Invalidate` | `write_*_atomic` into staging paths, `artifact_bundle_lock`, `invalidate_artifact_completion` with the checks that open a promotion |
| `Promote`, `Note`, `UnlinkStaged` | `promote_staged_artifacts`: one member replaced, or linked where nothing may be there; the sync and `promoted.append`; the unlinking of the staging files |
| `Undo` | its `except BaseException`: the members in `promoted`, last first, where the staging file is still the same file |
| `Hash`, `Publish`, `Tidy` | `write_artifact_completion`: one member's digest; the marker; its temporary name goes |
| `Fail`, `Interrupt`, `Kill` | an `OSError` of any step that does not swallow it, with the unwinding of that place; `KeyboardInterrupt` between any two steps; SIGKILL, with the lock dropped by the kernel |
| `Appear` | someone else creates a file under the name of a member |
| `OpenMarker`, `VerifyMember` | `verify_artifact_completion`, `verify_backtest_artifacts`: one file at a time, without the lock |

A file's content is the name of its writer, so two runs never write equal bytes.

The undoing of a promotion goes by a list and by the staging files, and the code
can lose sight of a member: a link that was made and not yet noted, members whose
staging files are gone already when the interrupt comes, an undo that raises
(swallowed) or is interrupted. `torn` records the runs this happens to, and
`NoPartialBundle` speaks of the others: a bundle that another process's file, an
error or an interrupt at any other point breaks off is all there or all gone. A
torn run leaves members and no marker; the docstring of
`write_artifact_completion` tells consumers to treat such files as uncommitted,
which is `MarkerIsTrue`, and no document promises more, so this is not a finding.

### Backtest, WalkForward, BarEngine

A candle is the slot it opens at. The table of candles outlives the commands that
fill it: `SyncCommand`, `BacktestCommand` and `OfflineBacktest` (`--offline`) start
one after the other, and the user may set the local clock in between. `FetchPage`
and `RequestFails` are `fetch_candles` with its cursor, page size, retries and the
cutoff fixed at the first page; `Store` is `closed_candles` and `upsert_candles`,
after which a sync is over and a backtest goes on; `Load` takes the newest rows of
the table, whichever command stored them, and applies `closed_candles` by the local
clock as `_load_backtest_data` does. A backtest whose download gave too few closed
rows is therefore completed from the rows an earlier sync left, and its frame then
has a hole where neither reached, although the exchange had candles there; features,
labels and the engine treat it as a gap of the market. That is what the code does.
`FrameIsFinal` says how far it goes: `covered` records the stretches the downloads
stored, and inside them a frame leaves nothing out. `early` records stored rows that
were served before their candle closed; none of them is ever in a frame. `Predict`
computes the walk-forward of `generate_walk_forward_predictions` (`Predictions`)
and chooses the whole frame, the development rows or the holdout, as
`run_research_assessment` does; `ProcessBar` is one turn of `run_backtest`'s
loop, `liquidate` after the last. `WalkForward` gives, per row, the rows a model
is fitted and calibrated on, in both signal modes: features within a market
segment, labels `Horizon` slots on, purging, refits and models kept in between.
`BarEngine.Processed` is `process_bar`, one operator per rule in the order of the
code. Prices, costs and lots are whole numbers: the caps of `size_entry` are
rounded down to lots, the stop to a price. What a fitted model says is
nondeterministic; where there is no model it says nothing. `trades` keeps with
each trade the row of the signal it came from.

### DepthReplay

`archive` is the recorded sequence with the marks the recorder puts on an
envelope (`RecordEvent`: losses, reconnects, messages refused, a clock that goes
back, a partition that is missing). Two envelopes may have the same receive time,
so that the book an order is decided on need not be the first of its time.
`Replay` is `hft-depth-replay` on any sample
of the books: `Books` is `public_orderbooks_from_records`, `RunStart` and
`RunEnd` the runs of `_ReplayBookIndex`, `Candidate` its `select`, `Sweep`
`sweep_visible_depth` in the unit of the request. Input files may be read in any
order and may repeat records. `outcomes` stays while the archive grows, so that
an outcome is also compared with what was recorded after it.

## Runs

| Run | Shows |
| --- | --- |
| `ledger_orders` | the life of orders: `PendingOnlyWhileTrading`, `OrdersCovered`, `WarmEntry`, `FillCausal` (461 337 states) |
| `ledger_restarts` | the account across processes: `AccountCarriedOver`, `LatchLiftedOnlyByBreak` and the refinement of `ShadowLifecycle` (3 039 587 states) |
| `ledger_latch` | violation of `LatchHolds` |
| `ledger_clock` | violation of `AccountCarriedOver` when the clock steps back |
| `outbox_delivery` | `NothingLost`, `BatchBackedByLease`, `ResentOnlyAfterLapse`, `TerminalStays`, `EventuallySettled` (688 901 states) |
| `outbox_double_send` | violation of `NoDoubleSend` without any crash |
| `journal_crashes` | `LedgerHasSource`, `VerifierBeforeData`, `LiveJournalKept`, `VersionsAgree`, `EventuallyArchived` (454 822 states) |
| `journal_alone` | violation of `LedgerHasSource` where directories stand alone |
| `paper_calls` | `AuditMatchesAccount`, `EntriesAreFresh`, `CooldownServed`, `ActiveMeansContiguous`, `NoConflictUnderLock`, `HaltIsFinal`, `HaltedPositionIsSold` (616 818 states) |
| `offline_evaluations` | a backtest from the exchange to the last trade: `FrameIsFinal`, `PredictionsAreCausal`, `TradesFollowLabels`, `CooldownServed`, `DrawdownEndsTrading`, `LossWithinBudget`; or a depth replay: `SettledAtFirstBook`, `SweepWithinDepth` (1 137 799 states) |
| `bundle_publish` | `MarkerIsTrue`, `VerifiedWasWhole`, `NoPartialBundle`, `EveryRunEnds` (522 194 states) |
| `service_session` | service and account together: `NoBuyAfterBreach`, `RiskHalts`, `LossEndsOrders`, `StopIsServed` (1 115 411 states) |

The type invariants and `OnePendingOrder`, `NoPyramiding` and `OnlyNewestActive`
are not among the runs' properties: they are proved for every instance, and the
runs check what is harder.

**Bounds.** `ledger_orders`: two runs, two connections, books at 0..8 with steps
0 (redelivery), 1, 2 and 4, warmup of two books, latency 2 and staleness limit 1,
so an order can meet a book that is early, in time, too late or across a
boundary, and can do it twice in one run; buys of 2..4 against 3 of cash with a
fee cover affordable, exactly affordable, unaffordable and over-limit orders;
sells cover partial, full and oversized. `ledger_restarts`: three runs, because
a take-over of a run that itself took over is where inherited halts and the
choice of predecessor show; two halt reasons, so that a latch can be replaced by
another; two fingerprints; warmup of one. A halt reason and a fingerprint are only
compared, never ordered, and two of each reach every comparison.
`outbox_delivery`: two workers, two notices in a batch, a lease of two time
units and at most one unit per notice: the first notice of a batch always
settles within its lease and the second may not, as with 60 s, 11 s and a batch
of 20. Three attempts, two crashes; observers saturate at 4, one above the
number any property compares. Deadlock checking is off in these runs because
runs, books and crashes are bounded and the models stop there.
`journal_crashes`: two recorders contend for the lock; three events and three
segments give a partition of two events next to a rotation, and a segment after
a restart; two kills put a second death into the recovery from the first, one
power failure may hit any state these reach, and one call fails anywhere. A
journal is handled without regard to the others, so more segments add nothing
but repetition. Deadlock is checked: a recorder can always be started again.
`paper_calls`: two processes; candles of two time units, a signal delay of one,
time up to 8, so that the account can be stopped on bar 1, pass a cooldown of one
bar and enter again on bar 3; overlapping direct calls stop at 4, after two bars.
One step of the clock backwards, up to time 4. Prices 80 and 100, a cost of 4 and
limits of 10 % (stop), 15 % (trailing) and 15 % (drawdown) of 200 make the first
stop come without a drawdown halt and a later loss with one, so `stop`,
`risk_halt`, `horizon_exit`, `model_exit` and the risk-only step's second
snapshot all occur. Deadlock is checked: a process can always start.
`offline_evaluations`: nine rows out of at most twelve slots with two candles
missing anywhere, so that a gap can fall into the warmup, a label, a holding
period or the holdout; pages of four candles, answers late by up to a whole
candle, a local clock ahead or behind. Two commands: a sync of three rows at the
first candles, or of ten late, or a backtest that fails, and then a backtest with or
without a download, before or after the clock is set. A late backtest's ten rows end
at an open candle and one that closed just now, so that by the cutoff eight or nine
are final: the frame comes from the download alone, is completed without a hole or
with one, or stays too short, and each of these is reached. Horizon, holding time and refit distance
of two, a training window of three, one calibration row, a holdout after five
rows. Bars are flat, through the stop during the bar, through it at the open,
down without a stop, and up; with them every exit reason, a cooldown that ends
within the frame and a drawdown at a close occur. The replay part: four records
(a book decided on, two records between, a book to meet), two books, and orders
that end inside a level, within the rounding error, at the depth and beyond it.
The command of a behaviour is chosen at its start; the two share nothing.
`bundle_publish`: three runs in each protocol, so that one can wait while another
unwinds and a third has published; three members, so that a reader can be between
two of them while a writer is at the third; one failure or interrupt and one kill
at any step, a stranger's file at any moment (so that a promotion can break off and
its undoing then fail), one verification that may start at any moment.
`service_session`: two runs with an unfinished one between them, connections and
silences on both sides of the gap threshold, warmup of one book. Deadlock is off
in these three because work is finite: every run, replay or session may be over.

**Fairness.** The ledger properties are safety properties and need none.
`EventuallySettled` assumes weak fairness of each worker's own steps (a loop
with no wait but bounded sleeps and a request timeout; launchd restarts it,
`KeepAlive` in `ops/launchd/dev.coinpilot.notifier.plist.in`) and of time. No
fairness is assumed of Slack, of enqueuing or of crashes, and crashes are finite.
`EventuallyArchived` assumes weak fairness of every recorder's next step,
starting included: `KeepAlive` restarts the service, a session has a finite
duration (`shadow.session_seconds`) and no step waits for anything but the disk.
`HaltedPositionIsSold` assumes that a command is started when none runs and the
loop goes on (weak), that the ticker endpoint answers again and again although
calls fail in between (strong for `RiskSnapshot`), that a call gets from there to
its save again and again (strong), and that time passes. Nothing is assumed of
the candle endpoint or the model: the risk-only step exists to do without them.
`EveryRunEnds` assumes that a run that is alive takes its next step (weak): no
step but `Lock` waits for another run. `StopIsServed` assumes weak fairness of
the service's main thread only: receiving has a timeout, a pause is cut at the
deadline and the join has a limit. Nothing is assumed of the heartbeat thread,
the exchange or the order of threads.

## What the checks found

1. **A halt is lifted by the next gap** (`ledger_latch`). `process_book` answers
   a continuity break by overwriting `lifecycle_status` and `halt_reason`
   whatever they were (`hft_shadow.py:366-374`), so an `external_halt:*` or
   `restart_fingerprint_changed` latch is replaced by warmup or by automatic
   liquidation. `docs/ARCHITECTURE.md:219-220` says such a run admits no
   automatic new entry. `LatchLiftedOnlyByBreak`
   shows this is the only way out of a latch: stops, crashes and restarts keep it.
2. **The predecessor is chosen by wall clock** (`ledger_clock`,
   `hft_shadow_store.py:577-593`). Stopped runs remain candidates for ever; after
   a backward clock step an older account is carried over. All other results
   about restarts assume `ClockMayStepBack = FALSE`.
3. **Healthy notifiers can double-send** (`outbox_double_send`). A batch outlasts
   its lease. `claim_notifications` says it cannot happen; a single notifier, as
   deployed, is not affected unless it is restarted. `ResentOnlyAfterLapse`
   bounds it: one extra confirmation per lapse.
4. **Recovery trusts a rename that was never synced** (`journal_alone`,
   `hft_audit_journal.py:766-780`). A recorder killed between renaming the data
   file and syncing its directory leaves a partition that looks committed.
   Recovery deletes its journal and syncs that deletion, but not the partition's
   directory; a power failure may then undo the rename alone. The module's header
   promises a recoverable source for every ledger row. With ordered name changes
   (`Shared`) the promise holds.

A consequence of the first: the next halt for the same reason meets its own
alert key with another creation time and raises (`HaltCollides`), which ends the
service with `runtime_error`.

## Proofs

`ShadowServiceProofs` begins with the account. It proves, for every value of the constants that satisfies
`InputAssumption`, `FeeAssumption` and `ReasonAssumption`, and for
`ClockMayStepBack = FALSE`: type correctness (so no fill drives cash or position
negative), `PendingOnlyWhileTrading`, `OnePendingOrder`, `OrdersCovered`,
`NoPyramiding`, `WarmEntry`, `OnlyNewestActive` and `AccountCarriedOver`.

None of these is inductive. That a fill is covered needs that only one order
waits and that the run still trades; that needs that every transaction which
leaves trading expires the order; that a restart expires the right order needs
that the predecessor chosen by wall clock is the newest run, hence that starts
are ordered in time (`StartedInOrder`) and that the newest run is always
recoverable; that an order follows a warmup needs the relation between counter,
observer and lifecycle (`WarmupCounted`). `Inductive` is their conjunction. The
argument: `InitInductive`; one lemma per kind of step, where `LeavingTrading` serves break, halt and stop alike,
`PhaseOnly` the steps that write nothing, and `PredecessorIsNewest` the
take-over; `NextStep` collects them.

It goes on, under the same assumptions, to what a single step may do. `FillsAreCausal` (`FillCausal`) needs one more invariant, `Dated`: a waiting
order is no younger than the last book and falls due one latency after it was
placed, so a book that fills it comes after the one it was placed on.
`LatchSurvives` (`LatchLiftedOnlyByBreak`) shows, kind of step by kind of step,
that a latch is copied; the take-over uses `PredecessorIsNewest` once more, since
the halt it inherits is the predecessor's. `LifecyclePromised` is the refinement
of `ShadowLifecycle`: one lemma names the abstract step of each transaction (a
break is a `Break`, `StartFirst` and `StartNext` a `Launch`, a recovery sale a
`Liquidate`, `halt` and `stop_run` a `Latch` and a `Stop`), and the rest are
`WarmUp`, `Trade`, `Crash` or stutters. It needs `Dated`'s second half, that a run
that warms up carries no halt: the mode of a halted run would be `latched`.

The fee assumption says that a part of an order never costs more in fees than
the whole and that a fee never exceeds its amount: both hold for
`amount * fee_rate` with `fee_rate` in [0, 1).

`PaperAccountProofs` proves, for any number of processes, prices, ages, limits and
bounds that satisfy `PaperAssumption`, with or without the lock: type
correctness, `ActiveMeansContiguous`, `NoConflictUnderLock` and `HaltIsFinal`.
The account alone cannot carry these, since each save writes what a process made
of a copy. The strengthening (`Current`) says that a process nobody has overtaken
works on the account as saved: it knows of its halt, holds no entry after one,
and is at most one bar ahead while it may trade. A process that was overtaken may
hold anything, and `Committing` shows that its save is the one the revision check
refuses. `LockHeld` says that under the lock nobody is overtaken. `SnapshotKeeps`
is the one lemma about `process_snapshot` that the steps use. Its conclusion
depends on the order of the rules only through what it preserves (types, halts,
the bar), which is why the theorems hold for every signal and price.

Its second half is about the fills: `EntriesAreFresh`, `CooldownServed` and
`AuditMatchesAccount`, under the same assumptions. They relate fills of different
calls, which no snapshot sees together; what links them is the account.
`Served(a, fs)` says that an account belongs to a set of fills: none lies ahead of
its bar, its cooldown makes up for the bars that have not passed since each stop
(`a.cooldown + (a.bar - f.bar) >= CooldownBars`), the position it holds is the one
entry of its bar, and (`Audited`) its cash is what the fills left of the initial
cash. `SnapshotMoves` reduces `process_snapshot` to four kinds of move (a stop,
another sale, an entry on the next bar, neither) with the exact cash of each;
`MoveServes` shows that each keeps `Served`; `AccountsServed` claims it of the
account with the fills saved, and of the copy of every process that nobody has
overtaken with the fills it is about to save, so that the save itself changes
nothing.

The audit is a sum, which `MapThenSumSet` computes one element at a time in an
order nobody knows. `SetFacts` therefore proves that every finite set has exactly
one function of sums of its subsets (`SumsExist`, `FoldSums`), by an induction in
which the property is a set; `SpentAdds` is what remains of it: a fill that is
not there yet adds its outlay. That it is not there yet is the point of the
proof: the event table ignores a row it has, so a fill equal to an older one would
be paid for and not recorded. A sale is new because the entry it closes was open;
an entry is new because its bar is. `AuditKept` assumes that a signal is stale
before the next bar closes (`MaxSignalDelay < Interval`, 120 s against 60 min by
default): the model's clock is coarse, and with a longer delay two entries on
neighbouring bars could share the time by which a sale names its entry. In the
code that time has microseconds.

The assumption that every price covers `Cost` holds because fee and slippage are
fractions of the price.

The second part of `ShadowServiceProofs` is about the service. Its
assumption `Unbounded` says that the clock does not step back between two starts
and that a position of any size may be asked to be sold, as the policy does; the
instance has positions of one lot only.
`Together` ties the two: where the main thread is, the run is open; the account's
position is behind the recorder's; a gap in the feed, in the event in hand or in
`mark` accounts for every loss; a limit the policy has seen, or a drawdown in the
account, leaves no order to buy. Each step is shown to be a step of
`ShadowLedger` or a stutter (`AccountServed`, an implementation proof), so that
the account's own theorems hold in the service without being proved again. From
the joint invariant follow `NothingBoughtBeyondLimit`, `ExceededLimitHalts` and
`LossReachesAccount`.

`NotificationOutboxProofs` proves type correctness, `NothingLost`,
`BatchBackedByLease` and `TerminalStays` for any number of workers and notices,
assuming only `Countable`: that the observers count at least as far as
`MaxAttempts`. None follows from the rows alone: `NothingLost` needs that the refusals
observed are at least the attempts a row records, one more while the holder has
an error in hand that it has not recorded, and that an answer 200 in hand was
counted (`RequestsCounted`); and that a row that is not settled has an attempt
left. A worker whose lease ran out may have an answer for a row that now belongs
to another; the steps split on `Holds`. `ResendsArePaid` (`ResentOnlyAfterLapse`) is a
counting argument: at any time the confirmations of a notice, and the workers
that may still send it, are together no more than its first claim and its
lapsed leases pay for (`Budget`). A claim adds one worker and one payment, an
answer 200 turns a worker into a confirmation.

`ArtifactBundleProofs` proves type correctness and the three safety properties
for any number of runs and members, any failures, interrupts and kills, in all three
protocols. The invariant is built around who holds the bundle (`Holder`): by the
lock, or by the reservation. Only the holder is past the invalidation of the old
marker, so only it moves files; `Promoted` and `Hashed` say how far it is;
`Refusing` why a run that may not overwrite and is not torn can undo what it did:
behind the member the undoing is at, nothing is its own. A marker
belongs to a run that writes no more members (`Marked`). For the reader, who takes no lock, `Reading`
says that if it began on a mixture some member ahead of it still differs from
the hashes: writers may change that member, but never to the writer that is done.

`CaptureJournalProofs` proves type correctness, `VerifierBeforeData`,
`LiveJournalKept` and `VersionsAgree` for any number of recorders, events and
partitions, any kills, power failures and failed calls, under either reading of
how names survive. What survives is any state of the history of names, so the
invariant speaks of every entry of `names` and not of the last (`NamesSound`):
one action appends one entry, a sync cuts the history to its end, a power failure
picks entries from it. `FramesApart` and `LedgerSynced` say that a committed event
is a synced frame of one journal, hence that whatever a torn or unsynced write
loses was not committed. `Fits` ties the step a recorder is at to the files of its
partition: while recording, the partition was never published and its journal is
in every state that may survive; from the rebuilt manifest to the drop of the
journal, what is in memory, in the journal and in the bundle are the same events.
None of the properties is inductive without it: a data file has its manifest
because promotion and undoing come in opposite orders, versions agree because a
rebuild starts from the synced frames, and those hold the committed ones.
`SourceKept` (`LedgerHasSource`) takes `Shared` as its hypothesis. Without it the
statement is false (finding 4), and the place where the proof needs it is the one
the run `journal_alone` shows: a journal may be unlisted only where the bundle is
complete in the same entry of the history.

`BacktestProofs` proves all six properties of the offline run that are about a
backtest, for any frame, bars, predictions, windows, limits and costs that satisfy
the named assumptions (among them `MinStop <= MaxStop`, which `config.py:311-313`
enforces, and that `Unset` lies before any time a clock shows). Three arguments are
independent of each other.
The *download*: `Downloaded` says that the slots from the cursor up to any fetched
one are fetched, and that the cutoff, once fixed, is no later than the answer any
row came with (`CutoffEarly`, the one place where the clock's skew and the reserve
matter). From it `StoredRows` gets that the closed rows of a download are final and
without a hole. `Cached` says the same of the table, whatever was stored in it
before: no row is early, and what the exchange had where a download reached is
there. `LoadedFrame` shows that a frame is the newest rows of the table with none
left out, and the two give `FramesAreFinal`.
The *walk-forward*: `ActiveModels` is a recursive function, of which the prover
knows nothing, not even that it exists. `RollExists` constructs it,
`RollAgree` compares two of them and `RollValues` says that each value is a fit;
the inductions are over sets of numbers (`NatSetInduction`). `SameFit` shows that a
fit on a frame cut after its row is the same fit, since every candidate's label ends
by then; the first calibration row exists because a finite set of numbers has a
least and a greatest member (`CalibrationFirst`). `PredictionsCausal` follows.
The *bars*: `Outcome` lists the six ways a bar may go (nothing, an entry, an entry
stopped at once, a position kept, stopped, sold at the open) and `BarSummary` reduces
`process_bar` to them, rule by rule in the order of the code. `Ran` is what they
preserve. `Grounded` says of a position that it was entered on the row after its
signal, that no candle is missing since and that its horizon is not reached:
without "no candle is missing" a horizon counted in slots would not be a row, so
`TradesFollow` could not be concluded from the account. `Rested` relates the cooldown
to the rows since each stop, `Ended` the halt to the breach. `LiquidatedFields`
adds the sale at the end. `LossesWithinBudget` adds `InBudget`, the sizing rule as it
was at the entry. It assumes `FinePrices`: prices are whole numbers in the model
and the stop is rounded down to one, a loss the code does not have; where the
slippage per lot on the price that the widest stop leaves is at least 99
hundredths, the reserve for it in the sizing covers that too. With any slippage at
all, a smaller unit of price satisfies it; the instance does (2 * 80).

`DepthReplayProofs` proves `SettledAtFirstBook` and `SweepWithinDepth` of
`ReplaySpec`, which is `ReplayNext` alone, the replay's half of the run
`offline_evaluations`, for any archive, depth, orders, rounding error and longest
lapse. The two are about the result of a chain of pure functions, so the
invariant is small (`ReplayInv`): the archive is `Recorded`, every envelope
following the one before with a higher ordinal and a mark wherever line or clock
did not go on, and the outcomes are those of some earlier length of it
(`RecordedGrows` carries them on). The work is in what the functions make of a
recorded archive.
*Loader.* Ordinals ascend (`Ascends`), so that sorting by ordinal gives back the
archive, whatever the order and repetition of the files (`TakenInOrder`,
`FilesRange`). `BooksHold` then says where each book came from: `Holds` gives the
places of the books, and a book is marked just if an envelope since the book
before it is marked or follows a hole. A place is a witness the loader does not
keep; without it no statement about an envelope between two books can be made.
*Index.* `RunReaches` says that inside a run the archive is whole and no two
neighbouring books are too far apart; `NotBeyond` that nothing beyond the end of a
run is reached without a gap. Times go up inside a run (`RunTimes`), so the number of books
that are too early is the distance to the first that is not (`CandidateIs`).
`OutcomeSettled` puts them together: the book chosen is the least ordinal of those
`Continuous` allows, also when the archive has grown since.
*Sweep.* `FoldLeft` is a fold over the set of positions, which unfolds into a
recursive function the prover knows nothing of. `SetFacts` constructs that
function (`FoldsLeftExist`), and from it loader, sweep and the sum of the offers
advance one element at a time (`LoadSteps`, `SweepSteps`, `TotalSteps`).
`SweepTakes` is an induction over the levels: before the level that is enough the
request takes all of each, at it the rest, after it nothing.

Every invariant and every action property a run checks is thereby a theorem,
those that are expected to be violated apart. Model-checked only are the liveness
properties `EventuallySettled`, `EventuallyArchived`, `HaltedPositionIsSold`,
`EveryRunEnds` and `StopIsServed`, which are out of the prover's reach. The
library's induction theorems take an operator, which the provers cannot
instantiate; `SetFacts` does with sets.

## Plan

Done: the account and its service, the outbox, the journal, the paper account,
the bundles and the offline evaluations, with the proofs above. What could
follow: several captures of several markets in one replay; an abstract
specification of the archive that `CaptureJournal` implements.

## Not modelled

- Feature values, fitted models, the high-frequency tables, `hft_sim.py` and the
  reports: numerical functions without state of their own. Which rows they may
  use is modelled, what they compute is not. The same holds for benchmarks,
  metrics and research gates.
- Fees and slippage of a depth replay: they decide neither which book is met nor
  what is taken. Several markets or captures in one replay are kept apart by
  keys and are replayed one at a time here.
- The service's summary and `stop_reason`, health rows, informational alerts,
  ping and backoff delays: nothing reads them back.
- Two completion markers that share a member (`--output` paths chosen to
  overlap), two writers with identical contents, and a kill between the
  removals of single staging files.
- Two commands on the candle table at the same time. `paper` stores its downloads
  there as `sync` does, and `SyncCommand` stands for it. Prices of a row that is
  served again are taken to be the same.
- Rows whose features are not finite although their segment is long enough (no
  volume or no movement in a window): `build_feature_dataset` leaves them out of
  training and prediction. Which rows those are depends on their own past alone.
- An answer of Slack with status 200 whose body cannot be read: the code records a
  failure, and so does `Send`. `confirmed` counts the answers a worker has seen, so
  `ResentOnlyAfterLapse` says nothing of an acceptance nobody saw.
- The readers of `hft_workflow.py` that verify a manifest before they use its files
  (`_load_and_verify_manifest`) only read.
- The status server only reads; the watchdog keeps no state and enqueues a
  notice under a key, which is `Enqueue` of the outbox.
- Parsing, configuration and the Mac scripts are data and plumbing; the limits
  they enforce are the assumptions on the constants.
- A wall clock that moves within a process, SQLite itself (assumed to commit
  atomically and durably under `synchronous = FULL`) and two starts within one
  nanosecond.
