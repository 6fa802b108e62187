# Verification of l2shock

l2shock records limit-order-book and trade archives of three futures venues (Binance, Bybit, OKX),
replays them into books, samples liquidity and price once a second, stores immutable hourly blocks
in PostgreSQL and draws charts of them. It is one asyncio process (NiceGUI) with worker threads, a
database, a directory of raw Parquet archives and a directory of checkpoints. Remote workers do the
same headlessly and publish artifacts which the application imports.

No single part of this is hard. Hard is that the database and the two directories are changed by
separate steps and the process may die between any two of them; that other processes may share all
three; that an hour is processed again later from another starting point; that threads outlive the
tasks that wait for them; and that providers lose, repeat, reorder and revise what they serve.

This directory holds TLA+ modules translated from the source, configurations for TLC, and proofs for
TLAPS. `PROJECT.json` maps each definition to the lines it stands for, lists the hazards of the code
at their lines with the properties that would catch them, and for every property a *mutant*: a
definition that, changed the way a bug would change the code, makes the property fail. The changed
definitions stand in the modules under a comment that begins `Slip:`; no specification uses them.

Run `tlc -config X.cfg M` or `tlapm M.tla` in this directory.

Contents: 1 inventory, 2 modules, 3 runs and bounds, 4 fairness, 5 disagreements and known limits,
6 proofs, 7 not modelled, 8 what could follow.

## 1. Inventory

Paths are below `src/l2shock`.

| Part | State | Operations | What is hard | Modules |
|---|---|---|---|---|
| Archive reader, `ingest/parquet_reader.py` | the event under construction, counters, report | next row, deliver, refuse, cancel | an event is a run of rows; a bad row far in; ids spelled differently by venue | `ArchiveReader` |
| Venue contracts, `ingest/venue_adapter.py` | none | frontiers before and after an event | three venues name continuity differently; Bybit may omit a snapshot's frontier | `VenueSequence` |
| Replay, `ingest/replay.py` | book, validity, frontier, initialization, signature; price heaps and range indexes | snapshot, update, archive boundary, checkpoint, restore | gaps, repeats and reordering over hours, restart at any boundary, indexes that drift from the book | `OrderBookReplay`, `ReplayAgreement`, `RecordedFeed`, `DepthMetrics` |
| Samplers and depth, `ingest/sampling.py`, `liquidity/` | bucket cursor, last or pending receive time | before/after event, completion, depth of a band | bucket edges, regressing times, exact decimals of many scales | `EndOfBucketSampling`, `LiquiditySampler`, `BookSampler`, `SamplerAgreement`, `DepthMetrics` |
| Price, `price/hourly.py` | ids seen, a candle per second | consume, finish | one hour's trades lie in adjacent archives, late, repeated | `TradeCandles` |
| Stored blocks, `*/block_codec.py` | immutable rows | encode, decode, digest | the same numbers must give the same bytes on every machine | `HourBlocks` |
| Acquisition, `acquisition/` | source rows, raw files, hidden files, fetch runs, request window | admit, reuse, download, publish, record, prune, quarantine, reconcile | file before row, death in between, other processes, changed content, cancelled writes | `RawArchive`, `FetchRun`, `RequestAdmission` |
| Availability, `acquisition/availability.py`, `ui/tab_fetch.py` | the calendar shown, the refresh under way | select a date, refresh, hand over | loads race with what they read and with the selection; time zones | `AvailabilityCalendar` |
| Processing, `processing/`, `db/` | rows, checkpoints, provenance, advisory locks | plan, lock, replan, publish, commit; batch over targets | plan against change, publication against commit, reprocessing | `CheckpointOwnership`, `ProcessingRun` |
| Presets, `presets/`, `db/analytical_repository.py` | preset rows, their hours | create, edit, enable, disable, delete | statements of two transactions interleave at READ COMMITTED | `PresetLifecycle` |
| Remote worker, `remote_worker.py`, `remote/` | published chain, bucket objects, journals | select, process, publish, migrate | deaths between uploads, repeated requests, overlapping runs, hours without a checkpoint | `RemoteCatchUp`, `B2Publication` |
| Remote import, `remote/importer.py`, `ui/remote_import_runtime.py` | the run, its pin, its items | pin, download, import, stop | threads that cannot be interrupted; local work on the same hours | `RemoteImport`, `CheckpointOwnership` |
| Runtimes and shutdown, `ui/state.py`, `ui/*_runtime.py`, `ui/shutdown.py` | operation name and lock, tasks, threads, engine | start, stop, cancel, callback, shut down | callbacks of older tasks, cancellation before the first step | `OperationAdmission`, `AutomaticFetch` |
| Maintenance, `maintenance_*.py`, `ui/maintenance_confirmation.py` | previews, confirmations | preview, confirm, verify, execute | the world moves between preview and execution | `MaintenanceAction`, `RawArchive`, `CheckpointOwnership` |
| Analysis, `analysis/`, `ui/tab_l2_view.py` | a load, what a page shows | load, merge, publish, export | rows change under the load; the user moves on | `AnalysisView`, `BatchBars`, `ChartPublication` |

Who talks to whom: the reader calls the replay event by event and the replay calls the samplers
before or after each (callbacks on borrowed state). Fetch, processing, import and maintenance meet in
the source rows under advisory locks, and in the two directories without any. Inside a process they
exclude each other by one operation lock. Workers and application meet only in published objects.
Pages meet the analysis loader through its sequence number of ended loads.

`PROJECT.json` has the status of each component and the reason where one is not or only partly
modelled.

## 2. What is modelled

### 2.1 Reading and replay

`ArchiveReader`: the archive is of any venue, or of trades, which are read of Binance only, and is
chosen row by row. `BeginEvent`, `ContinueEvent`, `FinishEvent` are the grouping of rows; `Refuse`,
`Cancel` and `EndOfFile` end it; `ReadTrade` is the other kind. The report is kept as the code keeps
it and compared with what all rows say.

`VenueSequence` has the contracts; `OrderBookReplay` has `OrderBookReplayState` as one record.
`Consume` is `apply` with every refusal; `NextArchive` ends an archive; `Restore` and `ColdStart`
begin a later run. A price is a number and a payload a model value, since replay only stores and
compares them. `ReplayAgreement` adds a second run over the same events with its own restarts.
`RecordedFeed` adds the exchange: `Truth[f]` is the venue's book at position `f`, every well-formed
event of the symbol is genuine, and the archive drops, repeats and reorders them. One assumption is
made of the provider: a Bybit snapshot without a frontier is taken not before the frontier the
previous hour reached (`TakenAt`). The code cannot check it; without it a book may mix two positions.

`DepthMetrics` has what the record hides: a dictionary, a heap with lazy deletion and compaction
and a sorted list per side, keyed by decimals of several spellings, and on top of them the exact
intervals, sums and imbalance of a band (`Observe`).

### 2.2 Sampling, price and blocks

`EndOfBucketSampling` is the abstract promise and both samplers refine it by `INSTANCE ... WITH`: one
writes buckets *before* an event from a state it borrows, the other holds the newest receive
time back *after* it. `SamplerAgreement` runs both over the same archives. `TradeCandles` gives every
target hour the same stream of trades and compares each candle with the one its trades determine.
`HourBlocks` encodes hours of decimals digit by digit, damages rows, and decodes them: a digest is
modelled as what it digests, Arrow and zstd as a function of the table.

### 2.3 Acquisition

`RawArchive`, per source hour: the row, the file at the canonical path, the hidden pruning files; per
process the operation under way and the locks of its transaction. `Crash` ends a process at any step,
the provider may republish an hour, a file may rot. `FetchRun` has the run row and the sources one
fetch admits and closes, with joined writes, stops and cancellations while one is in flight, failed
writes and deaths, and with what `run()` raises at its end. `RequestAdmission` has the rolling window of the limiter, its lock in order of
arrival, a limit lowered under waiters, and the attempts of each download. `AutomaticFetch` has the
persisted switch, written by the loop and by Stop from different threads, the retry cursor and its
rotation over a window that moves, over several lives of the process. `AvailabilityCalendar` has the
load of a local date next to changes of the rows it reads, the selection and refresh of the page, the
search for the newest window and its handoff; local time is an offset per tick.

### 2.4 Processing and the database

`CheckpointOwnership`: consecutive hours of one market; rows with the output and input checkpoint
they name, provenance per hour and preset, checkpoint files, sessions with locks. A local run is
`Begin`, `LockSources`, `Replan`, `LockInput`, `Publish`, `Commit`; an import `ImportBegin`, `Publish`,
`ImportCommit`; an orphan deletion `DeleteBegin`, `DeleteUnlink`. `Abort` is any failure or death and
leaves the files. An archive is reduced to how it leaves a book, and an hour has one possible
checkpoint, which is what `ReplayAgreement` shows. `ProcessingRun` has the batch above it: targets,
chains that stop at a failure, cancellation, and the transaction of each trade hour with its choice
of archives, checked again under lock: the hour's own archive by default, which is what the runtime
and the worker ask for, and the adjacent ones as well in a run that asks for them
(`include_adjacent_sources`); runs of both kinds follow one another. `PresetLifecycle` is at the granularity of statements: a
statement sees what is committed when it begins and waits for the rows it needs. `MaintenanceAction`
has preview, confirmation, second preview and execution item by item, and the consistency report.

### 2.5 Remote

`RemoteCatchUp` has overlapping runs of the worker on both backends, from the selection of an hour to
its publication, and ends of a run between any two steps. `B2Publication` has the bucket request by
request: an artifact, its manifest and the descriptor that pins a version of each; lost answers that
the SDK repeats; deleted versions; the generations of a worker and the migration with its journal.
`RemoteImport` has the import of a range next to workers and local operations.

### 2.6 Application and charts

`OperationAdmission` has every owner of the operation lock, its task and the thread that outlives it,
registered readers, and the stages of a shutdown up to the disposal of the engine. A step is what a
coroutine does between two awaits. `AnalysisView` folds the stored hours of markets and price chunk by
chunk into bars, outage regions and the digest that names the result; a read answers any content the
hour may have. `BatchBars` extends it with the in-memory way to the same bars. `ChartPublication` is a
page over the one loader of the process, with other pages that admit loads. A publication may be
refused before the commit of the chart before is withdrawn, or fail after that.

### 2.7 How they compose

`ReplayAgreement` and `RecordedFeed` compose replays; `SamplerAgreement` the samplers; `BatchBars` two
ways to one result. `AnalyticalDatabase`, `Application`, `DataPath`, `MCDataPath`, `MCHourData` and
`MCRawArchive` are *unions*: a variable `stage` or `part`, chosen at first and never changed, says
which instance moves; the others rest in an initial state. A union is checked as its parts would be
one by one; the parts do not interact, and some properties of a part begin with `stage = ... =>`.
The first three leave the sizes open, so that theorems are about them; `MCAnalyticalDatabase` gives
the first its values, and `MCDataPath` the third, to which it adds stages of its own.
Where components do interact, one module has both sides: `ProcessingRun` the operations that change
its rows, `RemoteImport` the local operations, `MaintenanceAction` the steps of other processes,
`FetchRun` the processing of its sources.

## 3. Runs

| Run | Module | Questions | Bounds |
|---|---|---|---|
| `data_path` | `MCDataPath` | one grouped invariant per stage, below | below |
| `hour_data` | `MCHourData` | do both samplers implement the promise and agree? is what the reader delivers and reports exactly what the rows of an archive of any venue say (`ReadingIsExact`)? is an hour whose archive is missing, corrupt or withdrawn acquired again? | 3 buckets of 2 ticks, 4 events, 2 hours; 5 rows of 7 to 9 kinds a venue, 2 rows an event, 2 issues kept; 1 hour, 2 contents, 1 death |
| `raw_archive` | `MCRawArchive` | can the bytes a row claims always be recovered? does a digest stay? what do locks and publication without clobbering keep between processes? | 1 process, 2 hours, 1 republication, 1 death; 2 processes, 1 hour |
| `analytical_database` | `MCAnalyticalDatabase` | do owned checkpoints exist, do orphans stay out, does deletion spare references? is an import what was published? is a preset deleted only without hours? does maintenance do only what was confirmed? | 2 hours, look-back 1, 2 presets, 2 sessions; 2 hours, 2 artifacts, 2 runs, 2 events; 2 processes, 2 presets; 1 row, 1 file, 2 pages, 3 events, clock 0..2 |
| `application` | `Application` | one operation at a time, disposal after the last thread, every reservation ends; Stop is final, no hour starves; a run row tells the truth and no source stays open | all six owners, 2 calls, 2 shutdowns; window of 3 hours, 2 presses, 1 restart, 1 fault; 2 files, 2 runs, 1 fault, 1 death |
| `remote_catch_up` | `RemoteCatchUp` | is the published chain sound and final, published in order by each run, and complete in the end? | 3 hours, 2 overlapping runs, look-back 2 or 3, 1 upset |

Stages of `data_path`:

| Stage | Invariant | Bounds |
|---|---|---|
| `replay` | `ReplaysAgree`, `OneCheckpointPerBoundary`, `BookIsTruthful`, `CheckpointIsTruthful`, `AnyReplayIsExact` | 2 prices, 2 payloads, frontiers 0..3; genuine, garbled, one-sided, frontier-less and foreign events; Bybit, and Binance with updates over two positions |
| `depth`, `rows` | `ObservationsAreExact` | 2 or 3 prices a side in several spellings, 6 changes, 2 bands that share an edge, a heap of 2; 2 rows, 11 decimals, 2 damages |
| `candles` | `CandlesAreTruthful` | 4 records of 8 trades, 2 hours of 2 buckets |
| `run` | `RunIsTruthful` | 2 hours, 2 contents, 2 presets, 2 runs, 3 events |
| `chart`, `page` | `ChartIsItsInput`, `PageIsTruthful` | 2 markets, hours of 2 seconds, 3 timeframes; 3 loads, 1 task, 2 sources |
| `requests` | `RequestsAreLimited` | 2 downloads of 2 attempts, limit 1 or 2, window 2, clock 0..4 |
| `bucket` | `BucketIsTruthful` | 2 keys, 2 contents, 2 attempts a request, 1 migration, 1 upset; overlapping writers without upsets |
| `calendar` | `CalendarIsTruthful` | days of 2 hours of 2 ticks, 3 zones, 2 markets, 2 presets, 2 changes |

Runs that are expected to be violated (section 5): `replay_inheritance`, `raw_archive_revision`,
`raw_archive_quarantine`, `checkpoint_durable`, `automatic_intent`, `remote_seed`.

Why these bounds are telling. Replay compares each event with one frontier, so four frontiers give a
gap, a repeat, a regression and a continuation in every combination, and two prices a side are the
least that lets a stale level survive. Three buckets have a first, a middle and a last; two ticks put
an event on and off an edge. Two contents distinguish "the durable one" from "another". Three hours
of a worker with look-back two have a target, a predecessor, a continuation and a bound; in the
database two hours are a predecessor and its continuation, and two presets are what it
takes to process an hour twice. Five rows are an event of two rows, another, and a row that is wrong
after both. A heap of two lets six changes pass the bound and compaction happen. Two downloads fill
a limit of one and of two. The theorems remove the bounds for the safety properties they name.

In `analytical_database` and `raw_archive` model values that only stand for names are symmetry sets;
no liveness is checked there. In `data_path` the first source of a page, preset of a run and content
of an archive that is met has the first name (`FirstNames`), for their names are interchangeable. Deadlock is checked except where the system may rightly stop: samplers
which have finished, presses used up, a bounded provider with nothing left to do.

## 4. Fairness

Only liveness properties use it: `Reacquired` (`hour_data`, `raw_archive_revision`), `NoHourStarves` and
`EverythingEnds` (`application`), `ChainCatchesUp` (`remote_catch_up`).

- *Archives*: start-up, the end of a started fetch, pruning or quarantine are weakly fair: each is a
  coroutine the event loop resumes, and its waits are bounded by timeouts. Admission and quarantine of
  an incomplete hour are strongly fair, because automatic fetch polls for ever and its rotation
  returns to every incomplete hour, which `NoHourStarves` shows in its turn. Download, publication
  and recording are strongly fair: a transient failure may happen any number of times but not always.
- *Automatic fetch*: the loop, writes in flight and the restart of the process are weakly fair; the
  attempt of an hour is strongly fair, for another operation may hold the lock again and again but
  not for ever at each poll. Rotation is fair only if a window has enough polls before it moves.
- *Application*: threads end, the loop resumes what is ready, the waits of a shutdown have timeouts.
- *Fetch run*: joined writes end, and the downloader answers or times out.
- *Worker*: it is scheduled every hour, some started run moves while any can, and the provider
  releases and serves every hour in the end.

Nothing is assumed of what a user does, of deaths, or of a provider beyond the hypothesis a property
states itself.

## 5. Disagreements and known limits

Each of these is a run that TLC must find violated; `PROJECT.json` quotes the line it contradicts.

1. `replay_inheritance`: a Bybit snapshot without its frontier is accepted after in-archive updates
   and keeps *their* frontier, though the code's own message says it must not. `BookIsTruthful`
   shows that the book stays truthful under the assumption of 2.1 on the provider.
2. `raw_archive_revision`: once other content was downloaded for an hour which owns a digest, the
   refused file stays at the canonical path and every later fetch reuses it.
3. `raw_archive_quarantine`: a death between the quarantine move and the commit leaves a row claiming
   a file that is gone, though the comment says they never disagree.
4. `checkpoint_durable`: processing an hour again for another preset, after its predecessor's archive
   was pruned, can publish nothing and takes the committed checkpoint from the row.
5. `automatic_intent`: Start followed by a shutdown, without Stop, while the enable write is in
   flight leaves the automatic fetch switched off at the next start.
6. `remote_seed`: the first hour of a chain may be published without a usable checkpoint.

What the models show besides, without contradicting a line of the repository:

- *Archives.* `record_artifact` reattaches a re-fetched archive to a pruned processed row, although
  the repository's `README.md:1854-1856` says it cannot. With two processes a fetch may record an
  archive another process has just pruned, so `ClaimedBytesSurvive` is stated for one process and
  `UnprocessedBytesKept` for two. A retry does not lower the shared request limit a second time.
- *Processing.* Runs with `--hour` may leave hours unprocessed or without price in between. A price
  row of other archives (adjacent ones were asked for, or there were fewer of them then) makes a later
  run or import conflict for good; default runs never conflict with a row of the hour's own archive.
  Conflicting trade ids are detected within one target hour only. Between the second plan and the lock
  on the input digest nothing is held on it (`l2_coordinator.py:500`); the checkpoint is in memory by
  then, so the result is right. Source locks are tried and never waited for, so the order in which
  they are taken does not matter, contrary to what a comment on acquiring the target first suggests.
- *Presets.* One that is deleted while another process's run works is created again, enabled, by that
  run. The delete dialog uses the selection at confirmation, not the identity it showed.
- *Bucket.* A publication that was interrupted and is retried after a deployment with other bytes
  conflicts for ever; a pinned version somebody deletes refuses its key for good; two overlapping
  writers may publish two contents of a key, and each pinned read still answers what was pinned.
- *Maintenance.* The minimum age of an orphan is not checked again under the lock of the item. A
  commit that fails after an unlink reports the file as failed though it is gone. The diagnostics read
  references before files and may call a checkpoint an orphan that was published in between; previews
  are protected by the age. Recovery of stale downloads dates a row by its discovery, so it may hit
  an old row that is being downloaded again.
- *Pages.* A refresh that is asked for during a load that fails is lost; the page says that it failed.
  Changes of a preset on the settings page ask for no refresh of the calendar. A date whose local
  midnight does not exist or exists twice cannot be shown. A corrupt L2 row fails a whole load, a
  corrupt price row only the price behind it. `analysis/aggregation.py` and `timeframes.py` are used
  by tests and exports only, and agree with the streamed view. A viewport that waits for a load carries
  no source (`tab_l2_view.py:365-371`, `786-795`): if the page shows another, cached source when the
  load ends, it is restored there. The property says only that it returns with its own load.
- *Reader.* Adjacent exact repeats of an event are refused as a repeated level; Binance snapshot rows
  with a missing and with an equal transaction time are one event, silently.
- *Rows after an import.* Local processing keeps the `remote_*` metadata of an import; the import
  compares the digest of the current hour only.

## 6. Proofs

| Theorem | Module | Shows, for every value of the constants |
|---|---|---|
| `TypeCorrect`, `ValidStateOwnsFrontier` | `ReplayProofs` | the replay record keeps its shape; a valid state owns the frontier of its last update |
| `Agreement`, `CheckpointsNeverConflict` | `ReplayProofs` | two replays of the same bytes never trust or freeze different books |
| `TrustedBookIsTruthful`, `FrozenCheckpointIsTruthful`, `TrustedBookIsExact` | `ReplayProofs` | a trusted book is the venue's; exactly so for Binance and OKX |
| `SamplerTypeCorrect`, `EmittedBucketsAreLatest`, `SamplerImplementsSampling` | `ReadingAndSamplingProofs` | the eager sampler refines `EndOfBucketSampling` |
| `BookSamplerImplementsSampling`, `SameSamples` | `ReadingAndSamplingProofs` | so does the deferred one, and of one hour both sample the same, for any hour length |
| `ReadingTellsTheTruth` | `ReadingAndSamplingProofs` | the reader delivers the events or trades its rows are, nothing it refuses, and its report counts just what breaks the sequence, for any rows of any venue |
| `TypeCorrect`, `IdentityDurable`, `UnprocessedBytesStay`, `ClaimedBytesAreNeverLost` | `RawArchiveProofs` | rows keep their digest; unprocessed bytes stay, for any number of processes; claimed bytes survive, for one |
| `TypeCorrect`, `OwnedCheckpointsExist`, `OrphansStayOut`, `ReferencesSpared` | `AnalyticalDatabaseProofs` | ownership, orphans and deletion, for any number of hours, presets and sessions |
| `DisposalSafe`, `WorkExclusive` | `ApplicationProofs` | exclusive work is of one owner; the engine is disposed only when no thread, task or reader is left, for any owners, readers, calls and shutdowns |
| `StopFinal`, `Rotation` | `ApplicationProofs` | after Stop the switch ends off; no hour has two turns while another waits, for any window, presses and restarts |
| `RunsAreTruthful` | `ApplicationProofs` | the row of a fetch run says what became of its files; `run()` returns or raises its cancellation exactly when it closed that row, and a cancelled one returns only when every cancellation came while an interrupted source was closed; a failed write of the row is raised instead; no source or run stays open but by a lost write, for any files, runs, faults and deaths |
| `TypesHold` | `ApplicationProofs` | every state of the application is well formed |
| `TypeCorrect`, `CatchUpSound`, `StoreInOrder` | `RemoteCatchUpProofs` | each published hour continues its predecessor or justly does not, is final, and hours are published in order, for any hours, overlapping runs and interruptions |
| `ImportTrue` | `AnalyticalDatabaseProofs` | what the result of an import says of each key is so; a source hour owns its rows; every end is counted |
| `PresetsSafe` | `AnalyticalDatabaseProofs` | a deletion takes a disabled preset without hours; every hour has its preset; the user's choice is kept |
| `MaintenanceConfirmed` | `AnalyticalDatabaseProofs` | maintenance does what was confirmed, once, to what is still a candidate, and reports what it did |
| `LimitsHold` | `DataPathProofs` | no window has more requests than the limit in force, whoever lowers it, fails or is cancelled, for any downloads, limits and window |
| `RunsTellTheTruth` | `DataPathProofs` | what a processing run reports and writes is so, over the hour's own archive and over adjacent ones, for any hours, contents, runs and interference |
| `BucketTellsTheTruth` | `DataPathProofs` | what is published in a bucket reads as published or not at all, under one content for a single writer; generations agree; journals are true, for any plan, deletions, repeats and migrations |
| `PagesTellTheTruth` | `DataPathProofs` | a page exports what is shown and overlooks no load, for any loads and suspended tasks |
| `CandlesTellTheTruth` | `HourProofs` | candles are those of the distinct trades of their buckets, every trade is in one hour, no check refuses a finished hour, for any hours, bucket length, trades and order of arrival |
| `CalendarTellsTheTruth` | `HourProofs` | a page at rest shows the hours of its date as they are, the window it offers and the part the analysis takes are the newest, a date and a range ask for the hours they touch, for any zone, world and interleaving |

**Replay.** The invariant is the *shape* of a state: valid states have a frontier, a live
initialization and a signature at their frontier; others are empty. It is inductive because every
refusal goes through one operator. Agreement needs one lemma: an update one state applies cannot be
one the other skips as a repeat, for a repeat's frontier is not ahead. Truthfulness is by level: a
touched level takes its true value at the new frontier, an untouched one did not change between the
two positions. The assumptions are those of `RecordedFeed` (genuine events).

**Sampling.** What is checked is that emitted buckets are right; what is inductive is that the clock
lies between the end of the last emitted bucket and the end of the next one. The refinement shows each
step of the sampler to be a step or a stutter of the abstract one. The deferred sampler needs
`BookInv` instead: what it has emitted while an hour is active ends *strictly before* the pending time,
so that no later event of the hour can belong to it, and the pending event is the last one. `BothInv`
puts the two side by side: while the deferred sampler has not refused an event, both have seen the same
arrivals, which are sorted; over sorted arrivals the latest event of a bucket is unique, and both
samplers emit it. Where the eager one clamps a regressing time the deferred one refuses it, which
is why agreement is claimed until it has failed.

**Raw archives.** `UnprocessedBytesKept` is not inductive alone. `Undisturbed` adds what the sessions
rely on: a file is garbled only where the disk rotted; the file a process is about to record is still
the one it validated, unless the hour is processed meanwhile; a downloaded or processed row has a
digest; only the pruning (and the start-up recovery) holds moved files, and what a pruning transaction
has moved belongs to processed rows. `ClaimedBytesSurvive` is proved for one process (`OneApp`) with
`Recoverable`: every hidden file belongs to a processed row that owns its bytes, the rows of files
being unlinked are detached, and the archive about to be recorded is still in its place.

**Checkpoints.** `OwnedCheckpointExists` alone is not inductive: a commit owns a file published
several steps before. `Inv` says what each session has secured. A working session holds its hour; once
it has locked its input it holds that digest; once published, the file is there. A deleting session
holds one hour *and* the digest of the same checkpoint, and found it unreferenced. Then a commit adds
references only inside its own locks (`ReferencesGrow`), which are disjoint from a deleter's, so an
unlink never meets a reference; and a plan's input was owned when it was chosen, so it belongs to
`everOwned` for ever.

**Admission and shutdown.** `AdmissionInv` has three parts. `Reserved` says who holds the operation
name and lock: a running owner's task, the automatic loop only around an attempt. `Joined` says a
worker thread has a task that still waits for it, so a free lock means no thread. `Proved` says what a
shutdown has left behind at each stage of `StageOrder`: unless something was unproved, the owners whose
stages are over do not run, and before the decision the readers are gone. `Later(o)` is the set of
stages an owner is known to be quiet in; it is what makes the order of the stages matter.

**Automatic fetch.** `SwitchInv` follows the write that is going to switch off: if the last press was
Stop and the switch is still on, then either the Stop handler's write is in flight, or the loop is
still enabling and has been told, or it is undoing. For the rotation `RotationInv` takes the history
`skipped` (k was attempted since h was) in the cyclic order of attempts: from the newest hour down and
again from the newest. `Between(h, k, c)` says that of h, its successor k and the cursor c, k came
first; a second turn of k before h would have to pass h, which is the next incomplete hour.

**Fetch runs.** `RunInv`: files are disposed of in order and each once; a file reported available is on
record; a source in `downloading` is the one at hand or one whose closing failed (`open`); a run that
ends before its last file was stopped or failed; and at its end the row is the count of its items, and
what `run()` raises agrees with it: a cancellation that was remembered, unless the write failed.

**Worker chain.** `ChainInv`: every published artifact is `Sound` (its input existed, its checkpoint
was replayed); what a run has built and not published is sound as well; the single writer of a B2
bucket is `Alone`, so what it does not find it is the one to write; and `ItsTurn` keeps the reason why
the target of a run was next: from the start of the window or from a usable hour, everything before it
is there. That reason is stable because publications stay.

**Import.** `ImportInv` says of each item, as soon as it is noted, what the result will claim: an
imported key is stored as published at or before the pin, a missing one was published after it if at
all. It is stable because stored rows and publications never change and later publications get later
commits (`Grows`). The pin belongs to the backend of the runtime whenever an item may be noted
(`Pinned`), the downloaded artifact is the published one (`Fetched`), items follow the planned keys
(`InOrder`). `Owned` relates source rows and analytical rows over imports and local runs alike.

**Presets.** `PresetInv` says where each transaction stands and what its statement has secured: only
one process inserts the row of a preset, and only where none is; a locked row is there, has neither a
second lock nor an hour another transaction has inserted (`LocksExclude`); and what a deletion found
empty stays so until it commits, which the foreign key's share of the lock makes true.

**Maintenance.** The number of a preview belongs to one page (`Apart`) until it is reported
(`Unreported`), and the page of an execution stays as it was confirmed, with the lock (`Confirmed`), so
the second click of a double click finds nothing pending. `Undone` says no effect has the number of a
preview not yet executed, `Progress` that each item of an execution is still to do, done or failed.
`AtHand` says the checkpoint about to be unlinked is unreferenced and not open, which holds under the
locks from the check to the unlink.

**Requests.** `RequestInv` keeps with the limiter all that it ever admitted. What it remembers is the
end of that history and what it forgot has expired (`Remembered`), so that at an admission the kept
times are all of the window's and `WindowIsKept` is their number plus one; admissions are in the order
of the clock, so the first live one has only live ones after it (`KeptAreLive`). The queue holds each
waiting download once (`Waits`), its head sleeps until the oldest admission expires and was refused
under a limit that has only been lowered since (`Sleeps`), and a download has been admitted once per
attempt (`Attempted`). That something expired can be dropped at all rests on the least number of a set,
which `WFMin` of the library gives.

**Processing runs.** `RunInv` has the order of the queue and of the items done (`InOrder`): order-book
hours precede trade hours and each kind goes by hour, so a failed hour of the chain is behind
every later one, which `Blocked` then sees. `Succeeded` says that what the run has completed is
processed and built, which others cannot undo: fetches, pruning, quarantine and imports keep
`processed` rows processed and built rows built (`Grows`). `Chosen` says of a trade hour that its locks
are among the archives it chose; from the second selection to the write the locked rows do not change
(`OthersTouch`). A default run chose its own hour only, so a row of that archive alone is the one it
would write: both name the digest of the source row.

**Bucket.** `ObjectInv` is about versions, which are only added and deleted (`Ages`): whatever a writer
found or wrote stays what it was, or is deleted (`Secured`), so each descriptor pins one content
(`Pinned`), and each result too (`Known`); this needs no single writer. Under one, `Alone` says what
its phase has ruled out: from the first look on that the key has no descriptor, from the verification
on that all its versions are of its content. `Single` then has one content a key. It had to be
weakened while it was proved: if the artifact, the manifest and the descriptor of a publication are all
deleted, the key is as new and takes another content, which three deletions show; hence `Gone` in
`OneContentPerKey`. `Remembers` ties what a generation has read to the pinned publication, and
`JournalInv` the journal under way to what is left: each key of the plan is left, copied, or something
is missing; each terminal key is left or verified before anything is copied; and the copy at hand is
the head of what is left (`CopiesHead`).

**Pages.** `PageInv` says of a commit that the browser shows the displayed chart and that no suspended
task is about to change it (`Committed`). `Ended` and `Heard` count loads: the last projection is of an
ended load, and a page that has counted a success has loaded it or something later. A viewport waits
for a load that the page has yet to hear of (`Awaited`), and a task that captures one still has what it
will publish afterwards (`Held`).

**Candles.** `CandleInv` says of an hour that reads what its accumulator is of the stream: it has seen
the trades of its time, and the candle of a bucket is one of the *arrivals* of that bucket, the first
record of each such trade (`IsCandle`). `OfArrivals` names four of them: the first and the last
in the order of trade time and arrival, the highest and the lowest. An arrival more either is the new
one of the four or leaves it (`ExtendedCandle`), whatever its time; a record of another hour or one
that was seen leaves the arrivals as they were (`NextArrival`). The order is total, so the four
determine what `TheCandle` chooses (`TheOneCandle`). A finished hour keeps the arrivals it had, which
later records do not change (`CandlesStay`). That its checks refuse nothing needs the counters:
`Total` is a recursive function over the traded buckets, and the number of the arrivals in them is
another that satisfies its equation (`PartsAreCounted`); two that do agree, by the least cardinality
at which they would not (`TotalOfCounts`). The bounds of a bucket are integer division
(`BucketsOfHours`).

**Calendar.** Three parts. `CalendarInv` keeps windows and what the page takes over well formed and
relates a load under way to the world: what it has read so far *is so*, unless something that will ask
for another load has happened since (`Unsettling`). A page at rest has no such thing, so what
it published when its load ended is what is there. The newest window is found by the pure search
`NewestWindow`, and `WindowOfHours` shows of it that it is a run of hours that can be
analysed, that it cannot begin earlier and that no later hour can be analysed. Dates are bounded by midnights; that an hour belongs to
a date exactly when it meets the bounds of the query follows from floor division and from an order of
local times that a midnight divides (`Midnight`, `HoursOfADate`).

**Reading.** Of the rows so far, the *cuts* are those unlike the row before them, and the reader never
looks at more than the last. `ReadingInv` ties the two: the event under construction is the run of rows
from the last cut (`Assembles`), and what is delivered is of the runs before it, as many as there are
cuts but one. A row more adds a cut or prolongs the last run and leaves the earlier runs as they were
(`CutsOfMore`, `EventsOfMore`); this is why validating a row before the event it ends is delivered, or
failing in the consumer, delivers neither too much nor an event in two parts. `ReportInv` says more of
the report than the property does: each delivered update leads on, its frontier lies beyond its
predecessor (`GoesOn`), and ids regress no more often than updates mismatch. So the updates after a
snapshot that mismatch nowhere are a chain that only grows. The contracts of the venues enter in
`ValidUpdatesGoOn` alone.

A union moves one part at a time, and what it does each part does or sleeps through
(`AdmissionInside`, `ImportInside` and so on); so the invariant of a part, proved of its own
next-state relation, is one of `AppSpec`, `PartsSpec` and `DataSpec`.

Assumptions. Named in the modules, and evaluated by TLC: look-back is positive, model values are
distinct from data, events are of the event type, the genuineness assumptions of 2.1, sizes and bounds
are natural numbers (`SizesAssumption`), `Null` is no page, and of an import (`ImportAssumptions`) that
requests are of hours, markets and a depth that are there and nothing that is written is Null. Of
requests (`RequestAssumption`): limits, the window and the number of attempts are positive, as
`AsyncRollingWindowRateLimiter` and `CryptoHFTConfig` check. Of a run (`RunAssumption`): its range has
finitely many hours, and no content or provenance is Null. Of the bucket (`BucketAssumption`): the plan
is a sequence of keys, the source may hold a content of each, and no content or reference is a
placeholder. Of a page (`PageAssumption`): no input and no load is Null. Of an archive
(`ReaderAssumption`): its columns hold what their types say, a missing field is no number, prices and
quantities that convert are not negative (a cell that holds another is one that does not convert), and
the empty builder is neither a builder nor an event. Of candles (`CandleAssumption`): an hour is a whole
number of buckets of whole ticks, as `3600` one-second buckets are, times and prices are numbers, and no
candle is the placeholder. Of the calendar (`CalendarAssumption`): an hour has ticks, each zone gives
every instant a local time, a preset has markets and no value is a placeholder; and where a midnight
exists exactly once in a zone, an instant is before it exactly when its local time is: clocks that are
set back across a midnight show it twice, and `local_to_utc` refuses that midnight, as it does one that
is skipped.

Only model-checked: all liveness (`Reacquired`, `NoHourStarves` beyond its rotation, `EverythingEnds`,
`ChainCatchesUp`), which the prover cannot do; and `ObservationsAreExact` and `ChartIsItsInput`:
`HourBlocks`, `AnalysisView`, `BatchBars` and `DepthMetrics` compare recursive operators or folds over
data, which the prover cannot reason about, with their definitions on bounded inputs. `AnyReplayIsExact`
is `Agreement` and `TrustedBookIsExact` on longer restarts, and `SharedHourIsKept` is
`UnprocessedBytesStay` and `IdentityDurable` on two processes. The violated properties are shown by
their traces.

## 7. Not modelled

- Byte formats, compression, Arrow and Parquet decoding; the containers of checkpoints and
  artifacts, which are `HourBlocks` over other columns. A cell of an archive converts or does not.
- Statuses `invalid` and `quarantined` of a source row, which no production path here writes.
- Transports (HTTP, S3, Hugging Face) below the level of requests and answers; PostgreSQL itself: a
  transaction commits or leaves nothing, and advisory locks end with it; migrations.
- The database reports that only read, progress events, logging, configuration.
- NiceGUI pages beyond the analysis and fetch page and the operations the others admit; layout, chart
  options and JavaScript; behaviour of the calendar after the handoff.
- More than one possible output checkpoint of an hour; the reconciliation of checkpoint output by an
  import beyond what `CheckpointOwnership` has.
- A done callback that runs after a newer start of the automatic fetch
  (`automatic_fetch_runtime.py:1158`): a task's end and its callback are one step.
- Scripts beside the application, probes, tests.

## 8. What could follow

1. A refinement of `RemoteCatchUp`'s storage by `B2Publication`, whose `GenerationAgrees` is stated
   beside it.
2. The Hugging Face commit at the granularity of its requests, as `B2Publication` has it.
