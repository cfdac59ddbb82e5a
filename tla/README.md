# timstool in TLA+

timstool migrates PostgreSQL (and MySQL, TiDB, MongoDB) databases to TiDB and can
keep the target in step with the source afterwards by change data capture (CDC).
It is driven from a web console. This directory holds TLA+ modules of the core
and of the console's pages, TLC configurations that check them on small
instances, and TLAPS proofs of the core's main properties for every instance.
All paths below are relative to the repository; "cdc" is `src/internal/cdc`,
"webapi" is `src/internal/webapi`, and the console's files are under
`src/web/frontend/src`.

Contents: [inventory](#inventory) · [modules](#modules-and-code) ·
[abstractions](#what-is-abstracted-and-why) · [runs](#runs-bounds-fairness) ·
[proofs](#proofs) ·
[known departures](#what-the-code-says-of-itself-and-does-not-do) ·
[the console](#the-console-does-not-promise) ·
[not modelled](#what-is-not-modelled) · [plan](#plan)

## Inventory

One Go binary is a CLI, a web server (`timstool web`), and, started by the web
server as a child process, the CDC process (`timstool cdc start`).

| Component | State it keeps | Operations | Correct means |
|---|---|---|---|
| CDC source (cdc/source.go, checkpoint.go) | replication slot on PostgreSQL, `lsnCurrent`, event channel, checkpoint file | start streaming, read, parse, send event, acknowledge, stop, save | nothing undelivered is confirmed or saved over; restarts only repeat |
| CDC applier (cdc/applier.go, transformer.go) | per-table buffers, worker channels, missing tables, counters, fatal error | dispatch, flush, apply with retries, skip, halt | order within a table; a refused event stops its table; nothing hangs |
| CDC runner (cdc/runner.go, src/cmd/cdc.go) | select loop, signals, checkpoint ticker, DDL poller | run, signal, tick, wind down | the checkpoint tells what was settled; the process ends when it should |
| DDL capture (cdc/ddl_tracker.go, filter.go) | log of statements on the source, cursor, missing tables | poll, convert, apply, skip, halt | the target's tables follow; no row is lost uncounted |
| Binlog CDC (src/internal/canalpatch, cdc/binlog*.go) | binlog position, event channel | stream, push rows, gate DDL, save | no DDL is stepped over, and no row of a table there is |
| CDC control (webapi/cdc_supervisor.go, cdc_watchdog.go, cdc_handler.go) | supervisor state, child PID, restart counter, `desired`, status file | start, stop, restart with back-off, adopt, revive | one consumer at a time; a stop is final; a wanted CDC comes back |
| CDC chain and guards (webapi/cdc_chain*.go, cdc_mutex_guard.go) | the position recorded before a load (`ChainStartLSN`, in the run and in the store), slot, checkpoint file | prepare, load, seed the file, start CDC, reset, switch the source | no window between the copy and the stream |
| Orchestrator (src/internal/orchestrator) | phase, its copy of the checkpoint | precheck, schema, data, validate | the result says what happened |
| Checkpoint (src/internal/common/checkpoint) | table states, phase states, one JSON file | load, mark, save whole | nothing done is forgotten, nothing undone believed |
| Data migration (src/internal/data) | CSV files, per-table goroutines, its copy of the checkpoint | export, Lightning, fall back, stream by foreign-key level | every row once, parents first |
| Web task manager (webapi/server.go, src/internal/store) | task rows (SQLite), `taskRuns`, `runningTasks`, `runSeq` | start, resume, pause, cancel, delete, server restart | one run per task; the row shows the current run |
| Incremental sync (webapi/incremental.go, wm_dialect.go) | watermark per table, saved when a run ends | scan by watermark, write, drain a value that fills a batch, jump past it, finish | no row falls between two batches or two runs |
| Validator (src/internal/validator) | per table: counts, windows, a bag of hashes, differences | count whole or by ranges, hash windows by key, compare as a bag, drill | equal is reported exactly when equal, and the differences are named |
| Compare tasks, MongoDB compare | tasks, runs, one comparison at a time | create, run, pause, compare | a report is of the run it stands under |
| Schema, DDL export and compare, assessment, prechecks | none | read and transform text | |
| Adapters, tools, configuration, logging | none that decides anything | | |

The console is a single-page application in the operator's browser. What each
page keeps is its own and is lost when the page is left, but for a few values in
localStorage and one shared list of data sources. Everything else it asks from
the web server, by requests that may be answered late, out of order or not at
all, while the server is also driven by other tabs.

| Page | State it keeps | Operations | Correct means |
|---|---|---|---|
| Task page (views/TaskDetailView.vue) | task, phases, summary rows, buttons, progress frames, log drawer | poll 5 s, start, pause, resume, stop; take a frame; open the log and its stream | it comes to show the run that is on, and its log entire |
| Comparison page (views/CompareView.vue) | task list, active task, report, expanded rows; the form's tables, exceptions and watermark conditions | create, select, poll, take a frame, expand; fill in, suggest, save, run | the report comes up by itself; what runs is what the page listed |
| MongoDB comparison (views/CompareCreateView.vue, components/DbBrowseSelect.vue) | database, collections, selection, exceptions | browse, pick, choose, send | nothing is sent of a collection that is not compared |
| CDC page (views/CDCView.vue) | status, statistics, slot, configuration, precheck and its tab, position history | refresh 5 s, start, stop, check, edit the connection | it shows the process as it is; a failing check is seen once |
| Incremental page (views/IncrementalView.vue) | job form, jobs, tracked runs, log drawer | batch, suggest, check, save, run, poll 3 s, pull 1 s | a job has no table the check has not seen; a run is reported |
| Wizard (views/WizardView.vue) | step, source and target, tests, tables, tool, options | next, back, test, list, validate, create | what is created is what the summary said |
| Topology (views/PipelineView.vue) | data sources, DDL comparisons, open popover | refresh 30 s or by hand | edges are comparisons between hosts there are |
| Task list, history (views/TaskListView.vue, HistoryView.vue) | tasks, page | poll 5 s, delete, turn the page | never an empty page of a list that is not empty |
| Data sources (views/DataSourcesView.vue, composables/useDataSources.ts) | the list all pickers share, dialog | load, save, test, remove | a list is not replaced by an older one |
| DDL comparison (views/DdlCompareView.vue) | both sides' source and schema, result, history | choose, list, run, reopen | the result is of the last run |
| Shell (App.vue, router/index.ts) | folded groups (localStorage), features, heartbeat | navigate, fold, reload, beat | the menu stays as the user left it |
| Dashboard, assessment, DDL export, shared parts | one answer each | fetch and display | |

How they interact. The source hands events to the applier over a bounded
channel; the runner selects over the applier's return, signals, a ticker and
the context, and writes the checkpoint file; the applier's workers and the DDL
poller share the missing-table set. The web server sees the child through its
exit, its PID and a status file. A task's goroutine in the web server calls the
orchestrator; the orchestrator calls the data migrator, and the two have
separate in-memory copies of one checkpoint file which each writes as a whole.

What is hard: positions in the WAL that are not monotone along the stream; a
process that can die, be signalled, halt or lose its connection between any two
writes; per-worker channels that fill when their worker has gone; a stop, a
start, the watchdog and a supervise loop that meet in the middle of one
another; a replaced run that returns late and writes; reruns over what an
earlier run left; pages whose polls, listings, checks and frames overtake each
other while the user goes on. `PROJECT.json` lists these hazards one by one, each at its
line of code and with the properties that guard it.

## Modules and code

| Module | Models | Variables ↔ code | Actions ↔ code |
|---|---|---|---|
| `CdcWal` | pgoutput's stream (external) | constants: `Lsn` = `WALStart`, `Commit` = end of the transaction's commit record | `ResumesAt` = START_REPLICATION |
| `CdcReplay` | abstract: at-least-once in order | `next`, `got` | `HandOver`, `Interrupt` |
| `CdcSource` | `Source.Start`, `streamLoop`, `Stop`, `Checkpoint` | `lsn` = `lsnCurrent`, `slot` = `confirmed_flush_lsn`, `file` | `Receive`, `Send`, `Ack`, `ParseFailure`, `Start`, … |
| `CdcApplier` | `Applier.Start`, dispatcher, workers | `buf`, `wch`, `missing`, `cnt`, `halt`, `fatal` under the same names in applier.go | one action per lock section or channel operation |
| `CdcRunner` | `Run`'s select; composes `CdcSource` and `CdcApplier` by INSTANCE | `rpc` = where `Run` is, `sig` = the signal | `Tick`, `ApplierEnds`, `SignalSeen`, `SignalEnds`, `ContextEnds`, `DdlHalts`, `Killed` |
| `CdcConverge` | the statements `transformer.go` makes, applied one by one | `src`, `tgt` = rows by key, `log` = events with the images pgoutput sends, `next` | source statements, `Applies`, `DropsDuplicate`, `DropsTransient`, `Restarts` |
| `CdcDdl` | event triggers, `runDDLPoller`, beside the row stream | `ddlLog` = `pg2tidb_ddl_log`, `lastID` = the cursor, `batch`, `missing`, `saved` = both cursors in the file | statements, `Fetches`, `Executes`, `Skips`, `Halts`, `AppliesRow`, `CountsRow`, `Ends` |
| `CdcBinlog` | canal's event loop, `canalStreamer`, `BinlogRunner.Run` | `cur` = the event canal is through with, `pos` = `curFile`/`lastPos`, `flight` = rows in channels and applier, `saved` | `PushesRow` = `OnRow`, `SkipsRows` = the errors `handleRowsEvent` ignores, `Advancing` = `OnXID`/`OnRotate`, `GateHalts` = `gateDDLQuery`, the ticker and each end |
| `CdcChain` | `prepareCDCChainFor`, `seedChainCheckpoint`, `startCDCChainAfterSuccess`, around a load | `slots` = confirmed positions, `file`, `task` = the task with `ChainStartLSN` in run and store and what was read of each table, `child` = the CDC process, `match` = config.yaml has this task's source | `StartsTask`, `ResumesTask`, `ReadsTable`, `LoadsTable`, the chain in three steps `ChainPasses`, `ChainSeeds`, `ChainStarts`; `ChildStarts` and what the process does; `ResetsCheckpoint`, `SwitchesSource` |
| `Incremental` | `syncOneTable`, `incCursorStep`, `incJumpAfterDrain`, `finalizeIncRun` | `run` = `syncOneTable`'s locals, `st` = `LastWatermark`, `setup` = the job's options | one action per query or statement: `ProbesMin`, `Scans`, `WritesBatch`, `Drains`, `Jumps`, `Ends`; `BatchFails`, `Breaks`; `Edits`, `Resets` |
| `Checksum` | `validateChecksumChunked` with its counts (count_chunked.go), `validateSamplingWithHashGroup`, `drillRowDiffs` | `tbl` = both tables, `run` = the locals of the comparison and of its window goroutines, which wait for one another, `drill` = the two `diffStream`s and what was found, `rep` = the verdict | one action per query: `ScansBounds`, `CountsSource`, `CountsTarget`, `ReadsSource`, `ReadsTarget`, `BagReads…`, `ScansNulls`, `Fetches…`, and each one's failure; `Moves` = anybody's write meanwhile |
| `CdcControl` | `CDCSupervisor`, `cdcWatchdog`, start and stop handlers | the supervisor's fields, `loop` = each `supervise` goroutine, `wpc` = the tick | one action per critical section or blocking call |
| `Migrate` | `Orchestrator.Run`, `data.Migrator.Run`, `checkpoint.Manager` | `om`, `dm` = the two copies, `file`, `csv`, `target`, `work` = goroutine of a table | one action per write of the file or step of a goroutine |
| `Tasks` | task handlers, `runMigration`, store | `row`, `owner`/`seq` = `taskRuns`/`runSeq`, `pc` = each run's goroutine, `req` = each request | one action per lock section or database write |

The console. A page's module has the page's refs as VARIABLES, usually under
their names in the code, beside the part of the server the page asks (`srv`) and
the requests on their way; an action is a handler, a watcher included in the
step that triggers it, or the arrival of an answer.

| Module | Page | Variables ↔ code | Actions ↔ code |
|---|---|---|---|
| `UiTaskDetail` | task page on a comparison | `task`, `summaries`/`rows` = `mcSummary` asked for and shown, `loading` = `mcSummaryLoading`, `acting` | `PollTick` = `fetchTask`, `WatchTask` = the watcher, `GotRows`, the buttons; the runs and other clients on the server |
| `UiTaskLog` | its log drawer | `logs`, `loads` = lists under way, `sock` = `logWs`, `buf` = the server's log buffers | `loadLogs`, `connectLogWS`, the stream's frames, a restart of the task |
| `UiCompareRun` | comparison page, runs | `list`, `active`, `report`, `cache` = expanded rows, `creating`, `frame` = frames of the hub | `refreshTasks`, `selectTask`, `loadReport`, `onFrame`, expand |
| `UiCompareWm` | its watermark cards | `card`, `wm`, `entry`, `cands`, `confirmed`, `starting`, `options` | edits with their watchers, columns that come in, confirm, run, store, reopen; the engine's reading (internal/validator/wmfilter.go) |
| `UiCompareForm` | its list of tables | `available`, `selected`, `tableWms`, `stored` = the last run's exceptions | `loadTables`, the watcher of the list, restoring |
| `UiCompareCreate` | MongoDB comparison | `srcDb`, `browsed`, `entries`, `selected`, `wm`, `dialog` | listing, the watchers of the database, exceptions, `submit` |
| `UiCdcWatch` | CDC page, refreshes | `shown`, `cfg`, `slot`, `timer`, `refreshes` = each refresh and the request it is at | `refresh` request by request, `callCDC`, `loadConnConfig` |
| `UiCdcPrecheck` | its precheck | `pre`, `err`, `checks`, `tab`, `failActive`, `userLeft` | `runPrecheck`, the watcher that switches tabs, save, import, start |
| `UiCdcPosition` | its sparkline | `pos`, `history`, `latest`, `risk` | `parsePosition`, `pushPosition` |
| `UiIncForm` | job dialog | `rows`, `batch`, `column`, `preview`, `mode`, `asked`, `checked`, `saved` | batch, suggestion, the watchers, check, save |
| `UiIncRuns` | tracked runs | `jobs`, `active` = `activeRuns`, `timer`, `running` | `run`, `loadJobs`, `reconcileActiveRuns`; runs and deletes on the server |
| `UiIncLogs` | log drawer of a run | `run`, `events`, `last` = the cursor, `status`, `timer` | open, close, `pullRunLogs` |
| `UiWizard` | wizard | `step`, `source`, `green` = tests that went well, `list`, `picked`, `tool`, `prefill` | `nextStep`, tests, listings, `createTask` |
| `UiPipeline` | topology | `datasources`, `ddlTasks`, `answers`, `openNode` | refresh, the computed graph |
| `UiTaskList` | task list and history | `tasks`, `page`, `fetches` | fetch, delete, the page's clamp |
| `UiDataSources` | data sources | `list`, `listings` = the shared promise, `dialog`, `saving` | `load(force)`, save, test, remove |
| `UiDdlCompare` | DDL comparison | `ref`, `schema`, `running`, `result`, `history` | choose, list, run, reopen |
| `UiNav` | shell | `path`, `route`, `features`, `collapsed`, `storage`, `beats` | navigate, fold, reload, beat |

`MCConsole` composes them, twice: `WatchSpec` of the pages that follow the server
and `FormsSpec` of those that make requests. A tab shows one page
and forgets it when it is left, so both are sums: a session starts on one page
and stays on it, and ten slots `v1`..`v10` are that page's variables. Nothing of
one page reaches another but through the server (and the shared list of data
sources, which `UiDataSources` has for all pages), and the server's part of each
page is driven by other clients too.

The map in `PROJECT.json` gives the lines of every definition. Each module
begins with a comment on every variable. Definitions commented "Mutant" are not
part of any specification: each is a plausible mistake in the code it stands
next to, and replacing the real definition by it must break the property
`PROJECT.json` pairs it with.

`MCSync` is the sum of the five modules about what keeps a target in step and of
`Checksum`, which says whether it is. They share no state: a behaviour is one of a
part (`part`), with a variable of its own where only that part has it, and with one
(`setup`, `src`, `tgt`, …) that stands for each part's variable of that name otherwise.
`CdcDdl` and `Incremental` come in two parts each that differ in bounds alone
("table"/"tables", "few"/"many"), `Checksum` in two instances ("rest"/"busy").
`SyncAssumption` says what the constants have to be.
`CdcConverge` takes the order within a table from `CdcApplier` (`TableOrder`),
`CdcDdl` has one row stream in WAL order in its place, `CdcBinlog` lets rows
in flight settle in any order, and the process of `CdcChain` applies in the order
of the log what lies behind its position: which position that is, and what a
restart repeats, is the question of `CdcSource` and `CdcBinlog`.

`CdcRunner` is the composition: one set of variables, `Src == INSTANCE
CdcSource`, `App == INSTANCE CdcApplier`, the channel and the context shared. A
process of its own (`Killed`, `Ends`) takes the applier's memory with it; the
slot, the file and the target survive. `CdcControl` is kept apart from it: for
the supervisor a child is alive, told to end, halted or gone.

## What is abstracted, and why

- Rows, SQL and types. In `CdcApplier` an event is its number, its table and its
  kind; applying it succeeds, fails for good, fails in a way that is retried, or
  meets a missing table. What rows become is `CdcConverge`: a row is a key, a
  large column that pgoutput may leave out, and one other column. Types, quoting
  and further columns are left out.
- DDL texts. `CdcDdl` has statements that TiDB understands and repeats
  (`create`, `drop`), understands once (`add`), does not understand (`odd`), and
  the log entries that ride on one for a sequence or an index (`rider`). A
  statement whose transform is a comment is passed with a log line, as a rider is.
  Any statement may meet an error that halts the process (`Halts`): a lost connection, a
  lock time-out, an unsupported change, with or without having been executed.
- The structure of a table on the MySQL source. `CdcBinlog` follows one selected table:
  canal reads its structure when it comes to the first of its rows events, and the binlog
  says whether it is still there (`Missing`). Rows of excluded tables are no rows of the model.
- The text of a watermark. `Incremental` compares values, and beside the cursor keeps
  whether it is written as `CursorValue` writes it (`spelt`): the one text it is compared with.
- Binlog coordinates. An event is its place; its coordinate is the number of
  rotations before it and of events in its file.
- A batch of `Migrate` is half a table. Two are the fewest with which a table can
  be partly loaded, and a rerun can meet rows that are already there.
- Retries are one nondeterministic outcome: the loops of `execWithRetry` and
  `execBatch` keep no state beyond their counter.
- Clocks. A ticker, a back-off or a time-out may fire whenever it is armed.
- Files. A checkpoint write of the CDC process (`os.WriteFile`) may be torn; the
  migration's (temporary file and rename) is atomic.
- Row counters, log lines, progress weights, reports: nothing reads them back to
  decide anything.
- Pages. Layout, texts, colours and toasts are left out unless a property is about
  them. A form's fields are the ones some handler or gate reads. An HTTP request
  whose sending nothing else waits for meets the server as it is sent (a slow
  one is one sent later) and its answer arrives at any time after, with what the
  server held when it answered.
- Environment. PostgreSQL resumes a slot as documented (`ResumesAt`). Lightning
  loads what it finds in the CSV files, fails part-way, or refuses: its local backend
  wants empty tables (src/internal/orchestrator/orchestrator.go:314-315), while its own checks are
  switched off (src/internal/data/migrator.go:744, 788), so that into tables with rows
  it may do either.

## Runs, bounds, fairness

Every run is one question. `CHECK_DEADLOCK FALSE` stands where a system may
really come to rest (a chain that is down, an idle server, a finished
migration); the comment in the .cfg says which.

| Run | Instance | Shows |
|---|---|---|
| `source` | 7 messages, 3 transactions of which two overlap (WALStart goes back from 4 to 2), the last record unreadable; 3 process starts | neither slot nor file passes what was not handed over, a refused record is met again, the source implements `CdcReplay` |
| `applier` | 6 events, 2 tables, 2 workers, batch size 2 (also the capacity of a worker's channel), an event channel of 1; a structural failure, a table created late, cancellation anywhere | order within a table, a halted table stays halted, counters add up, a clean return settled everything, `Start` returns |
| `runner` | 3 messages, 1 worker, 1 process; signal, kill, halt and connection loss anywhere | the process implements `CdcSource`, a clean end loses nothing, the process comes down, events are settled |
| `runner_save` (violated) | the same without fairness | the ticker saves ahead of the applier |
| `sync` | rows: 2 keys, 3 statements, one restart, one event that outlives its retries, strategies `replace` and `skip` (in the model `upsert` acts as the one and `insert_ignore` as the other), both replica identities; DDL: one table with 3 operations and one restart, two tables with 3 operations and none; binlog: 10 events over a rotation, three rows events of a table that is dropped behind the second and made again, 2 rows an event, 2 in flight, 2 ends; chain: one table, 3 writes, 2 loads, 2 starts of the process, both kinds of source, every older checkpoint file, the slot config.yaml has by default; watermark sync: 2 rows and 2 writes with batches of 1 and of 2 and edits from one to the other, 3 rows and 1 write with batches of 2, 3 watermark values, 2 runs, the default mode and the strict one, with a watermark whose MIN is spelt as its values and, for batches of 2, one whose MIN is not, and plain INSERTs from a configured watermark; comparison: 3 keys and a NULL, each row of the source there or not and of the target missing, the same or another, windows of 2, nine configurations (kind of key, hashes with or without it, either side sorting in another order, NULLs first or last, counts whole or by ranges), at rest; 2 keys and a NULL, windows of 1, three configurations, 2 writes anywhere in between; any query fails | repeated events leave the source's rows; the target follows the statements, over halts and lost answers, and loses no row uncounted; the binlog position steps over no DDL, and no row but those of a table that is gone; a load and the process behind it miss nothing; a watermark run misses no row and leaves none behind its watermark; a comparison passes only what agrees where nobody wrote, raises no false alarm at rest, and its drill names what differs |
| `control` | 1 operator with 3 requests, 4 children, 1 restart, 1 failed spawn, 1 web restart, watchdog on | one wanted child, a stop is final, every request is answered, a wanted CDC comes back |
| `control_two` (violated) | 2 operators | a start during a stop spawns a second child |
| `migrate` | parent and child table, all 24 configurations, `Parallel` 2, 2 failures or kills | success is complete, completed tables have their CSV, no progress lost, phases finished, parents first, reruns succeed unless rows are in the way |
| `migrate_forced` (violated) | the same | drop and truncate do not start fresh |
| `tasks` | one start or resume beside one pause, cancel or delete; 2 generations per server process; any number of server restarts and database errors | one wanted run, no zombie row, nothing stale shown, no task running for ever |
| `console_watch` | nine pages: 2 runs and 2 polls on their way (task page), 2 log buffers of 2 entries opened twice, 1 comparison with 2 lists on their way, 1 change of the CDC process, 2 runs of a job, 2 events of a run, 3 tasks, 2 hosts | a summary is loaded once at a time, the log is whole, no page is empty; what the user folded stays folded over reloads; every page left open comes to show the server; a report comes up without its frame |
| `console_forms` | eleven pages and dialogs: 2 sources or databases, 2 tables or collections and a view, 2 requests, 2 comparisons, numbers of 3 bits for the position | requests are what the page shows as they leave; no page contradicts itself; restored options, shared lists and a failing precheck take nothing from the user. The pages of reports, of the position and of DDL comparisons have only their types here: what one would expect of them is among what the console does not promise |

Why the bounds are enough for what they are asked. `source`: the WAL order that
makes a position unsafe needs two overlapping transactions and one later;
three starts give a crash, a resume and a resume of the resume. `applier`: a
worker that stops needs one event being applied, more behind it than its channel holds, and a
second worker to be waited for. `sync`: a repeat needs an event, a newer
one on the same row and a restart between; a row that overtakes its statement
needs the statement, the row and a rider or a drop; a position inside an
event needs two rows, one across files a rotation, and a resume of a resume two ends.
A window between load and stream needs a write before the recorded position, one
after the reading of the table and one behind it; a second load gives the stale
position and the file the first one left, a second start the process that met
it. Two tables, and one with 4 writes, 3 loads and 3 starts, pass too; they add states and no case.
A watermark run goes wrong where a value fills a batch, which two rows of one
value and a batch of one do, or where a batch is cut inside a value, which takes
three rows and a batch of two; what is behind a saved watermark takes a second run. A row slips between two windows when they are cut at different keys, which takes
a row more than a window; a window's rows can change their number when one is
written before it is counted and one after, two writes.
`control`: every defect found took two children
and at most three requests. `migrate`: a failure in one run and another in its
rerun. `tasks`: a replaced run and its replacement.
The console: a race between answers needs two of a kind, the older and the newer
one, and a list that shrinks under a page needs one more row than a page and
an answer hold; every counterexample found to the formulas of [the
console](#the-console-does-not-promise) lies within these bounds. In each module the bound is
a named constant (`MaxRestarts`, `MaxProcs`, `MaxRequests`, `MaxFails`,
`WebRestarts`, `MaxFaults`, `MaxRuns`, `MaxOps`, `MaxRewinds`, `MaxEnds`, `MaxWrites`,
`MaxLoads`, `MaxStarts`, `MaxMoves`); the
theorems do not depend on their values.

The three `Quiet…` constants of `CdcControl` leave moments out, because there
the code is known not to keep its promise: `QuietLoops` (no request while a
supervise loop is between publishing its terminal state and `finish`),
`QuietWatchdog` (no request inside a tick) and `QuietWeb` (the web server
restarts only when the child has written its status, and not after a stop).
`control` therefore says: outside those moments the promises hold. What happens
inside them is under "What the code says of itself and does not do".

Fairness.
- `CdcApplier`, `CdcRunner`: weak fairness of each goroutine (the dispatcher, each
  worker, each ready case of `Run`'s select) since the Go scheduler runs what
  can run; the target answers each statement, as the driver's time-outs make it;
  the poller reaches `ResetMissingTables` after a create. Nothing is assumed of
  commits, connection loss, signals and kills, so no liveness property relies
  on them.
- `CdcControl`: goroutines are weakly fair; a child that got SIGTERM or SIGKILL
  ends; the watchdog's "too soon after the last revive" is not true for ever
  (strong fairness of its check passing). Requests, crashes and web restarts
  are never obliged to happen.
- `Migrate`: weak fairness of the steps that are not failures. It contains the
  operator's rerun of a failed command, which is what `EventuallyMigrated` is
  about: rerunning ends in success once failures stop. The property excludes
  the policy `none` with OnError abort once a run that did not succeed has left rows
  in TiDB (`RowsInTheWay`): they make streaming fail at every rerun, as duplicates,
  and Lightning may refuse tables that hold rows.
- The console: intervals fire, requests are answered and their answers taken, under
  one weak fairness condition for each kind of request; strong fairness only where requests share
  a slot of the model, or where a list may fail (it fails now and then, not for
  ever). Frames of the hub need not arrive, users need not act, other clients
  need not stop. `PagesSettle` says what a page shows once the server rests.
- `Tasks`: handlers and run goroutines are weakly fair; a pipeline ends
  (`PipelineReturns`): its phases are finite and it watches its context.

## Proofs

Eight modules hold proofs, all checked from nothing by `tlapm`: about 370
obligations in `CdcSource_proofs.tla`, 510 in `CdcRunner_proofs.tla`, 1550 in
`CdcApplier_proofs.tla`, 890 in `CdcControl_proofs.tla`, 1410 in `Migrate_proofs.tla`,
970 in `Tasks_proofs.tla`, 4840 in `Tables_proofs.tla` (the comparison and the watermark sync) and
5580 in `MCSync_proofs.tla`, which takes eight minutes. Every safety property a run checks of
one of these components is a theorem, except where "Only model-checked" below says
otherwise. The inductive invariants were first checked by TLC on the bounds of the
runs, but for the two that say "there is a history" (`ConvInv`, `DdlInv` below).

**CdcSource** (assumption: `WalAssumption`, what PostgreSQL guarantees of the order of
a logical stream; and `Seed # 0`, a chain whose checkpoint file was seeded, for
everything but `TypeCorrect`).
`NoGap` is not inductive: nothing in it says that the position about to be
confirmed is itself safe. `IInv` adds that the running process's `lsn` covers
only what was handed over, that a process stands at most one past it
(`ResumesWithinGot`), and that a refused record lies above every stored
position (`Retained`). The heart is `ReceiveCovers`: advancing to the WALStart of a
message completes no transaction that has an unread message, because only a
commit record reaches its transaction's `Commit`. From `IInv` follow
`SourceNoGap`, `SourceRetainsRefused` and, step by step, `SourceImplementsReplay`.

**CdcRunner** (assumption `RunnerAssumption`: those of its two parts). The process is
`CdcSource` and `CdcApplier` as instances, so their theorems are cited for its own
variables. `RunnerImplementsSource`: every step of the process is a step of
the source or leaves it alone; the one invariant needed is that the process
is up exactly when `Run` runs. With it every theorem about the source is one
about the process, whatever the applier does. `CleanEnds` (with `Seed # 0`) is
`CleanEndsLoseNothing`, which joins the two: the source knows what it handed over,
the applier what it settled. Its invariant `Chain` says that what the stream has passed
since the seed is with the applier or settled, and between two processes that what
slot or file covers is settled, which is what the next one resumes from (`Delivered`);
that a position covers nothing the stream has not passed (`Passed`); and
that settled fates and rough ends are remembered (`FatesCount`, `Remembered`). It
cites of the applier that a return without an error has lost nothing of what it was fed.

**CdcApplier** (assumptions `ApplierAssumption` and `WalAssumption`: any routing, batch
size, number of workers, capacity). An event moves from the channel to its table's
buffer, to a flush, to the channel of the worker its table is routed to, to that
worker's hand, and is settled. `TableOrder` is not inductive, for it
speaks of the last two places only. `InOrder` says of each place that, within a
table, what it holds follows everything further on and, as long as the applier
lives, nothing is missing between (`Ordered`); `Routed` that a table is only ever
with one worker. `FedInOrder` says the channel was fed a first part of the stream;
`Account` counts the places, for `CountersAddUp`; `Draining` says that what was
emptied on the way to a return stays empty, for `CleanReturnSettlesAll`, and
that only the halt itself settles an event as fatal.

**CdcControl** (any bounds, any children and crashes). `TypeCorrect` has no hypothesis.
`OneChildWanted` and `StopIsFinal` assume `Quiet`: one client, and no
request or restart of the server inside the moments the three Quiet constants name.
Without each of these conditions the property is false of the code: these
are the departures 2, 3, 10 and 11 below, found by TLC. The invariant says that a child nobody told to
end is the one whose PID the supervisor holds (`OnePid`), and holds none
exactly when nothing is wanted (`Pids`); that there is at most one supervise loop,
which agrees with the state (`Loops`); that a stop on its way keeps
watchdog and wish down and waits for the loop there is (`Stops`); that what a
tick has read still holds when it acts (`Ticks`); and that nothing is on its way
after a stop (`Final`).

**Tasks** (any number of requests beside each other and any number of runs). `OneIsWanted`
needs no hypothesis: a start owns the task before it cancels the run it replaces, and
generations are not given out twice (`Requested`, `Distinct`, `Fresh`);
`Wanted` extends the property to runs about to be launched.
`RunningHasARun` and `NothingIsStale` assume `OneStarter`: one client that starts and
resumes, any number that pause, cancel and delete. With two both are false
(departure 13). Their invariant `Single` adds that the generation on its way is the
task's current one (`Latest`), what the row says at each step of a start (`NotYet`,
`Stamped`, `Cleared`), and that a run about to write its end has its result in the
row (`Concluded`).

**MCSync** (assumption `SyncAssumption`: the constants have the types they are used with,
the binlog is finite, a rows event has a row, the value that stands for no key is no key).
`MCSync_proofs` has an inductive invariant for each part, under the prefix of its
instance, with theorems about the component's own specification, and then the six
properties of the run `sync` as theorems of the sum (`Sync…`): a step of the sum is a step of
the part it is in or stutters (`PartStays`), so that each invariant carries over. What bounds a
part in the sum (`Alone`, `Slight`, `Rare`) is not used: the theorems are of the components.

- `ConvInv` ⇒ `RepeatedRowsConverge` (`CdcConverge`). While old events are repeated a row of the
  target may be newer than the worker is, so that no equation with the source
  holds. The invariant says there is a history of the source's tables, one for each event
  and made by it (`ConvHistory`), such that each row of the target is the one of some
  moment not before the worker's (`ConvFollows`). In the default identity, where an update
  may leave the large column out and has no image to restore, that is true of each column only.
  At the end of the log one moment is left. Rows whose key
  was moved and those a duplicate or a transient error has cost are excepted, as in the property.
- `DdlInv` ⇒ `DdlSchemaFollows`, `DdlRowsFollow`, `DdlNoneSteppedOver`, `DdlDuplicateIsReplay` (`CdcDdl`). The columns and
  the existence of the source's tables are a function of its log (`DdlWorld`). Of both
  cursors, the poller's and the one in the file, it is claimed (`DdlClaim`) that a statement of
  the table went unseen up to it, or the table is dropped behind it, or the target has what
  the log says up to it and beyond that only what later statements brought. The claim about the
  saved cursor is what a restart goes on from. That both cursors pass only what was
  executed or recorded as skipped, or was committed behind them (`late`), is an invariant
  of its own, of the poller's cursor, of the one in the file and of the entries fetched.
- `ChainInv` ⇒ `ChainNothingBetween` (`CdcChain`; hypothesis `ChainSlot`: config.yaml names the slot
  the load has made, which is the default; with a slot of one's own the property is
  false, departure 20). A process may go on from three positions: the slot's, the file's and the
  one it is at. From each the last write of every table that is loaded is still ahead or in
  the target, and of one that was read and is not yet loaded nothing written since is before it
  (`ChainWindows`). `ChainAhead` says that a process that runs has passed what slot and file say.
- `BinIInv` ⇒ `BinlogTypeCorrect`, `BinlogSavedWasSent`, `BinlogDdlNeverPassed`, `BinlogCleanEndSettles`
  (`CdcBinlog`; nothing is assumed of `Cap`). None of them is inductive: they speak of the checkpoint, which
  takes whatever position the process has. The invariant adds what makes that position
  safe: it covers only events canal is through with, in canal's file (`BinPosBehind`, so that
  keeping the file in `OnRow` is right); the rows of those events were pushed, or
  skipped with their table (`BinBehind`); no DDL is among them (`BinNoDdlUpTo`); the same of what was saved
  (`BinSavedBehind`); and what was pushed is settled or in flight unless an end was
  not in order (`BinNothingElse`). The arithmetic is that two events never have one
  coordinate: the later one has more rotations before it, or more events in its file.
- `SyncIncrementalComplete` and `SyncCompareHonest` cite `Tables_proofs` (next) as an instance, `RestP`,
  the latter also as `BusyP`; what is left is that the two instances each of `Incremental` and of
  `Checksum` are the same (`SameSync…`, `SameRest…`, `SameBusy…`). `MCSync` gives `Checksum` numbers for its
  sizes; for every size it is `CompareIsHonest`.

**Checksum**, in `Tables_proofs` (assumption `Sized`: tables, values, windows and writes of any size, and configurations
as the code admits them: counts by range only over a primary key, and without a key the hash
shows none). `CompareIsHonest` is `CompareHonest`, which speaks of the end of a comparison only. Its
invariant says what each stage knows of the rows nobody has written since it began:

- `Bounds`, `Tally`, `Sums`: bounds are keys in the source's order; a count of none has met no
  row, and at rest it is exact, or, on a side with an order of its own, leaves no row out;
- `Windows`, `Half`: as long as no window differed, a row that does is behind the boundary on each
  side that has it (`ToCome`), so that windows which end by a short one have compared
  every row, and windows which end by their number have, at rest, since what they covered is
  what was counted; between the source's window and the target's, what the source gave is a
  page of its rows;
- `Bag`: unless a read was cut off, the hash is that of all rows;
- `Merging`, for the drill: there is a key up to which everything is aligned and named for what it
  is, and behind which the two streams hold exactly the rows they have reached (`Aligns`). A row that
  a side's own order puts elsewhere is `Doomed`: the window that reaches it is refused as out of
  order, so that the drill gives its reason;
- `Verdict`, `Drill`: the four parts of the property, from the moment the verdict is given.

The arithmetic is that of ORDER BY and LIMIT: a page is a first part of the rows behind its position, and
all of it when it is short; and that two finite sets with one inside the other and as many members are
the same.

**Incremental**, in the same module (assumption `IncSized`: a table that may have rows, and any
watermarks, configurations with their batch sizes, writes and runs). `RunsAreComplete`, `WatermarkIsSound`
and `ScansGoForward` are the three parts of the run's `IncrementalComplete`.
`RunCopies` speaks of a run's end, `NoneBehind` of what it saves, and neither
says anything of a run under way. `IncProgress` does: at each step, which of the rows the run
answers for (`IncDue`) are in the target already (`IncBehind`) or in the batch about to be
written (`IncInBatch`). `IncPositions` says where a cursor can stand: never
beyond the largest watermark committed, but for one the configuration gave, so that
a row committed in order comes at or behind no position; a cursor that is spelt otherwise than
`CursorValue` does is one no scan has begun at yet, so that the batch it fails to recognise is read
once more and not for ever; and a scan that reads
strictly beyond its cursor begins at a value it has read, saved or was given, which
`over` remembers. `IncVersions` says that a batch brings no row back. The arithmetic of LIMIT is
`IncBatchIsFirst`: a batch is a first part of what is to be read, and all of it when
it is short.

**Migrate** (no assumption beyond `MigrateAssumption`: any finite set of tables,
any foreign keys, any configurations, any parallelism, any number of failures
and kills). `RunFrame` and `DataFrame` say once what a step of the
orchestrator or of the migrator leaves alone; on them rest
- `ICopies` (outside the migrator the file, if it exists, is the orchestrator's
  copy) ⇒ `ProgressIsKept`;
- `IPhases` (at each point of a run only its own phase runs, in file and copy) ⇒
  `PhasesAreFinished`;
- `IExport` (the orchestrator's stale copy is sound too, and a table whose CSV is
  being rewritten is completed in neither copy) ⇒ `CompletedHasCsv`. It needs
  `ICopies`: the migrator starts from the file, and a table the
  orchestrator's copy alone called completed would be exported again and then
  be believed half-way;
- `IDone` (what is in TiDB at each point) ⇒ `SuccessIsComplete`, through `IExport`
  for the tables whose export was skipped;
- `IParents` (a table that is being streamed has parents that are done) ⇒
  `ParentsComeFirst`, with `IDone`. It assumes `Acyclic`, no cycle of foreign keys:
  a cycle is one last level in the code too. What the recursive function `Topo`
  computes is proved for every set of tables: that its defining equation has a solution
  (`TopoExists`: one over the largest family of sets that has one), hence
  `TopoEquation`, and that every parent is in an earlier level than its
  children (`TopoLayered`). Both argue on a smallest counterexample
  (`SmallestMember`), since the provers have no induction with an
  operator as its parameter.

Only model-checked: liveness (`ShutsDown`, `ComesDown`, `EventuallySettled`,
`RequestsEnd`, `Revived`, `EventuallyMigrated`, `NeverStuck`, `PagesSettle`, `ReportsComeUp`), which the
provers do not reach; and everything about the console. The
type invariants of the modules with proofs are theorems, in `MCSync` as a conjunct of the
`Sync…` ones; the other modules' are part of an invariant of their run.

## What the code says of itself and does not do

Three of these are runs of their own. The others are formulas in the modules
that are true of no run; add the formula to the named .cfg to see TLC's
counterexample.

1. *"Call this after successfully applying a batch"* (cdc/checkpoint.go:162). The
   ticker saves what the stream has read: run `runner_save`, `AppliedBeforeSaved`.
2. *"spawning another would double-consume"* (webapi/cdc_watchdog.go:81). A start
   in state `stopping` spawns: run `control_two`, `SingleChild`.
3. *"an explicit Stop that raced this tick … must win"* (cdc_watchdog.go:183). The
   lock is released before `Start`: `StopWins` in `CdcControl.cfg` with
   `QuietWatchdog = FALSE`.
4. *"cleared checkpoint … to force fresh data migration"*
   (src/internal/orchestrator/orchestrator.go:205). The next save writes the copy in memory
   back: run `migrate_forced`, `ForcedFresh`.
5. The final save after a halt is not kept below the event the applier halted
   on: `FinalSaveBelowHalt` (PROPERTY) in `MCCdcRunner.cfg`. A torn checkpoint
   file ends every later start: `Resumable` (INVARIANT), same .cfg.
6. A structural failure may be returned as a mere cancellation, and events
   dropped on cancellation appear in no counter: `FatalIsReturned`,
   `CountersAddUpAtEnd` (INVARIANTs) in `MCCdcApplier.cfg`.
7. A worker that met a missing table may mark it missing just after the poller
   created it and cleared the set: `MissingIsAbsent` (INVARIANT), `MCCdcApplier.cfg`.
8. A start after a chain whose file was never seeded resumes at the current WAL
   end: with `Seed = 0` in `MCCdcSource.cfg`, `NoGap` fails. Chains prepared by the
   web server are seeded.
9. *"Halted (self-fatal) CDC is never revived"* (cdc_watchdog.go:23), but a halt is an exit like any other
   for the supervisor, and at the restart cap the state is `failed`, which the
   watchdog revives: `HaltedStaysDown` (PROPERTY) in `CdcControl.cfg`.
10. `supervise` publishes `failed` before `finish` reads the done channel. A start in
    between has its own channel closed by the old loop, and a later stop
    returns with the child alive: `StopWins` in `CdcControl.cfg` with
    `QuietLoops = FALSE`. With `Clients = {c1, c2}`, `MaxProcs = 3` and
    `WebRestarts = 0` as well, a stop can wait for a channel nobody closes:
    `RequestsEnd`.
11. A web server that restarts before the child has written its status file
    cannot adopt it: `StopWins` in `CdcControl.cfg` with `QuietWeb = FALSE`.
12. A run superseded after its last check still starts the CDC chain
    (webapi/server.go:1653-1656 asks that it does not): `ChainOfOwner` (PROPERTY); pause
    and cancel may overwrite `completed`: `CompletedStays` (PROPERTY), both in
    `Tasks.cfg`.
13. Two starts may take their generations in one order and stamp the row in the
    other (the comment at webapi/server.go:1549 rules it out): with `Starting = {r1, r2}` and
    `Others = {}` in `Tasks.cfg`, `RunningIsLive` and `NothingStale` fail.
14. A restart repeats the update of a row's key on rows already moved. The WHERE
    meets the row a later update moved there, or finds the new key taken
    (1062), is retried and dropped: the target loses a row. `MovedRowsConverge` of
    `CdcConverge`.
15. TRUNCATE of several tables in one statement is emitted for the first only
    (cdc/source.go:414-418).
16. A statement whose transaction commits after one with a higher SERIAL id was
    applied lies behind the cursor and is never fetched (cdc/ddl_tracker.go:237-287
    reads `id > lastID`); a statement made while no trigger is installed, after
    a teardown or a failed setup, is not logged at all. `SchemaFollows` excepts
    both (`Unseen`).
17. A name that is dropped and created again while rows are on their way: rows of
    the old table reach the new one, or rows of the new one go with the old.
    `RowsFollow` excepts it (`Recreated`).
18. Any error of a statement that is not degradable halts the process
    (cdc/runner.go:430-455). Where the statement was an `ADD COLUMN` that TiDB has executed, for
    the answer was lost or the process killed before the cursor was saved, the next
    start meets its own column (1060, not degradable) and halts, and so does every one after it
    from the same file. `DuplicateIsReplay` says no other statement meets a
    duplicate column, `NoneSteppedOver` that no halt costs a statement. A row whose column is
    not there yet fails at once (1054) and is counted.
19. The binlog position is what canal has handed over, not what is applied
    (`SavedIsSettled`); it may lie between a table map and its last rows event, where a
    new dump cannot decode what follows (`SavedIsDecodable`); and a first start
    begins at the master's position of the moment, which may be behind a DDL
    (`NoDdlPassedAtAll`). All three are of `CdcBinlog`.

20. *"零丢失衔接"*, a load and a stream with nothing lost between (README.md:23). A task has
    no `slot_name` of its own: the chain records and seeds for the default slot
    (webapi/cdc_chain.go:88-97), and the process uses the one config.yaml names. Where
    that is another, the process creates it when it starts, or finds it behind or
    past the recorded position. `NothingBetween` of `CdcChain` with `Slots = {"own"}`.
21. *"an existing checkpoint is always ≥ the chain point and wins"* (cdc_chain.go:219,
    144). A file of another slot, or of the same one with an older position, is written over
    (263-277); and a process that comes up between the check and the seed has its
    file replaced, or replaces it. The model follows the code.
22. Where the seed is not written the messages promise a replay from the slot
    (cdc_chain.go:252-257; webapi/cdc_precheck.go:539), but a process without a
    position asks for the WAL of the moment (cdc/source.go:166-171) and the window is
    lost. `NothingBetween` excepts it: "unseeded" (the file has no slot name or
    cannot be read), "late start" (a start without a position after tables were
    read), "not stored" (the position could not be stored and the task was
    resumed), and "beside" (a process applied rows across the load of their table).
23. *"默认 `≥` 模式 … 保证同秒迟到行不丢"*, a late row of the boundary's second is not lost
    (README.md:19). It is, when it is committed after the drain of its value and the
    query for the next value finds a larger one: `BoundaryKept` of `Incremental`.
24. *"严格模式 … 同秒迟到行可能丢失"*, strict mode may lose late rows of one second (README.md:19).
    It also loses rows that were there all along: a batch that is cut inside
    a value goes on behind the value. `NoneBehind` excepts such values (`over`).
25. *"state resets only via the API's explicit reset flag"* (webapi/incremental.go:41).
    There is no such flag: a table's state goes when the table leaves the job
    (`Resets`), and outlives a change of its watermark column or source.

26. *"harmless when wrong: chunk sums equal the whole-table count"*
    (validator/count_chunked.go:96-97). The ranges of an empty table are one without
    bounds, whose query ends in `WHERE` and nothing behind it (376-380): equal
    empty tables fail. `EmptyPasses` of `Checksum`.
27. The number of windows is derived from the count (validator/checksum.go:142-150), and
    rows that come in during the scan push others behind the last one. Only a
    table without a primary key is looked at again (346-347); the other passes
    with rows never compared: `PassCoversAll`, on the part "busy". `PassCovers` says
    what a pass does cover: everything, where the scan ended on a short window.
28. *"windows covered fewer rows than the count phase counted — a NULL-keyed table
    always does"* (checksum.go:318-320). Not if a row with a key came in after the count: then
    as many are covered and the NULL one is not compared. `PassCoversAll` again, with a unique
    key.
29. Windows are cut by the columns of the key also when the user has them ignored.
    The two sides' windows then hold other rows of equal tables, or the same of
    different ones: `HiddenIsSame`, on the part "rest" with `Contents <- 0..2`.
30. *"a hung hash_group query fails this table"* (validator/validator.go:1257). The loops
    over the rows of either side (1306-1318, and the target's in nopk.go) do not ask for the error
    they ended on, so that two reads cut off by the deadline may pass: `CutFails`.
31. A probe for NULL keys that fails counts as one that found none
    (validator/rowdiff.go:737-760); NULL rows are then left out of the differences without
    the note that says so, unless a window meets one: `NullsNamed`.

32. *"missing-table-schema errors surface as a fatal stream error, never a silent skip"*
    (cdc/binlog_canal.go:14-17). Of the errors `GetTable` may return, `handleRowsEvent` ignores three
    (src/internal/canalpatch/sync.go:329-338). When canal comes to the first rows of a table that
    was dropped or renamed since they were written, it passes over them, and `OnXID` moves the
    position on; the DDL behind them halts the stream later, and rows of a renamed
    table are lost: `NeverSilentSkip` of `CdcBinlog`. `SavedWasSent` and `CleanEndSettles` except such rows.
33. *"the saturation equality check never sees a T/Z-vs-space mismatch"* (webapi/wm_dialect.go:596-601).
    It does: `MIN(…)` and the value jumped to are read as text, which the driver gives in
    RFC 3339 for a time (`ParseTime`, src/internal/common/config/config.go:291), and compared with what `CursorValue`
    wrote (webapi/incremental.go:148). A batch that such a value fills is therefore not drained but read
    again, once, now under the other spelling: `NeverRepeats` of `Incremental`. Under plain INSERTs the
    repeat meets its own rows and the run fails; in the strict mode there is no repeat and
    the rows of that value beyond the first batch are skipped, which the comment at
    webapi/incremental.go:1106-1111 rules out (`NoneBehind` excepts them, `over`).

For 26 to 31, extend `MCSync` and check `On("rest") => Rest!EmptyPasses` (`On("busy") =>
Busy!PassCoversAll` for 27 and 28) as an INVARIANT under its `Spec`. One more is excepted in
`FailDiffers`: where the two databases sort keys differently, equal tables may fail.

For 14, 19, 20, 23, 32 and 33, extend `MCSync` and check `On("rows") => Conv!MovedRowsConverge`
or `On("binlog") => Bin!SavedIsSettled` and so on as an INVARIANT under its `Spec`
(for 20, change `LoadSlots` in the .cfg; for 23, `On("few") => Inc!BoundaryKept`, for 33 `On("many") => Inc!NeverRepeats`).

## The console does not promise

What follows is said by comments of the pages, or expected of them, and is not
so. Each is a formula at the end of its module, under "Not kept". To see TLC's
counterexample, extend the composition the page is in and check one page:

    ---- MODULE See ----
    EXTENDS MCConsole
    Only == FormsInit /\ On("wizard") /\ [][FormsNext]_vars
    Claim == Wizard!TargetWasTested
    ====

with `SPECIFICATION Only`, `INVARIANT Claim` (`PROPERTY Claim` for a formula that
begins with `[][` or is temporal) and `CHECK_DEADLOCK FALSE`; `WatchInit` and
`WatchNext` for a page that follows the server. For `StaleRowsGo`,
`LogsLive` and `Retried` conjoin `Fairness` to `Only`, so that the
page is not merely idle.

| Formula | Page as instanced | What the code says | What happens |
|---|---|---|---|
| `StaleRowsGo` | `Detail` ("task") | a restart invalidates the rows of the run before (views/TaskDetailView.vue:95-98) | a restart that ends between two polls is never seen as running: its page keeps the first run's rows for good |
| `LogsLive` | `Log` ("log") | the log is live | a restart makes a new log buffer; the stream of the old one stays open and brings nothing more |
| `ReportOfActive` | `Report` ("report") | rows are fetched as the active task's (CompareView.vue:917) | the report asked for before another task was chosen (705) comes up under that one, and rows expanded in it are the other task's |
| `AnnouncedRuns` | `Wm` ("wm") | the dialog shows "every selected table's EFFECTIVE watermark before the task starts" (CompareView.vue:388-390) | the columns asked for before come in while the dialog is awaited (735): a column is chosen (162-164), or the watcher (199) leaves the range, and another condition is sent |
| `StoresWhatRan` | `Wm` | "save of the comparison parameters after a successful run start" (CompareView.vue:619) | they are read off the form once the request is answered; edited by then, they are not those of the run |
| `NeverStuckInRange` | `Wm` ("wm") | "the form cannot deadlock with no way back" (CompareView.vue:194-197) | the last run's range is restored with an empty value, and eligibility is read off the value until candidates are loaded: the watcher sees no change, and the range is on where no toggle is offered |
| `ExceptionsSurvive` | `Form` ("form") | exceptions go "only when a fresh table load REPLACED the list" (CompareView.vue:378-379) | `loadTables` empties the list first, so that every reload wipes them |
| `SelectedListed` | `Form` | | two listings of two sources answered in the wrong order leave a selection of the one over the tables of the other |
| `PickerOfDb` | `Create` ("create") | "a switch must not leave a stale picker" (CompareCreateView.vue:110-112) | a listing that was under way at the switch fills the picker afterwards |
| `OneTask` | `Create` | | a task is created, then started (439-440): when the start fails the page stays, and sending again makes a second task |
| `ClearedAtOnce` | `Cdc` ("cdc") | a switch to MySQL "clears a stale PG slot card immediately" (CDCView.vue:506-508) | a slot asked for before the switch is answered after it, and stays until the next refresh |
| `FailIsShown` | `Precheck` ("precheck") | "only the no-fail→fail TRANSITION fires" (CDCView.vue:480-482) | leaving any other tab sets `userLeftPrecheckTab` too (501), and the first failure then brings up nothing |
| `GateIsCurrent` | `Precheck` | the precheck gates the start | between saving a connection and its check the result of the one before gates the start |
| `FailureOnScreen` | `Precheck` | "never swallow" (CDCView.vue:614) | the banner is inside the card of a result (258): when the first check fails there is none |
| `Monotonic` | `Position` ("position") | "a monotonic number" (CDCView.vue:733-735) | the index is multiplied by 1e9, and an offset may exceed it: the next file then has a smaller number |
| `CheckedHere` | `Job` ("job") | a batch is saved only when the check of its tables is passed (IncrementalView.vue:524-587) | `checkBatch` takes its answer whatever the source is by then (329-332): tables chosen again at the new source pass for the old one's check |
| `NoLeak` | `Job` ("job") | "never let one source's candidates leak" (IncrementalView.vue:199-200) | a suggestion under way at the switch fills in the new source's form |
| `Retried` | `RunLog` ("runlog") | "next tick retries" (IncrementalView.vue:791) | the timer is started by an answer, so that nothing retries a first pull that failed |
| `TimerOnlyWhileOpen` | `RunLog` | "runs ONLY while the drawer is open" (IncrementalView.vue:733) | the answer of a pull that was under way at the closing starts it |
| `OwnEventsOnce` | `RunLog` | | two pulls from one cursor append the same events twice; one of the run before lands in the next run's list |
| `ToldOnce` | `Runs` ("runs") | | an older list, answered late, lets the page track a run anew that it has reported |
| `ActiveVisible` | `Nav` ("nav") | a reload that lands in a group unfolds it (App.vue:116) | the CDC entry is there only once /features has answered, after the router was ready |
| `PopIsCurrent` | `Pipe` ("pipeline") | | the popover keeps the node object of the refresh it was opened in |
| `DeletedStayGone` | `History` ("history") | | a list asked for before the delete and answered after it |
| `AllListed` | `History` | all data is loaded (TaskListView.vue:45, HistoryView.vue:32) | the server lists the newest 50 (webapi/server.go:1446) |
| `OwnChangesListed` | `Sources` ("sources") | "every picker on the page sees fresh data" (composables/useDataSources.ts:5-6) | `load(true)` joins a list that was asked for before the change |
| `SchemaOfRef` | `Ddl` ("ddl") | | a side's schema outlives the choice of another data source, and a listing under way brings the older source's |
| `TargetWasTested` | `Wizard` ("wizard") | "the green-light gates … enforce a successful connection test" (views/WizardView.vue:491-493) | the first step's validation is awaited: a double click moves on twice, past the target |

Two more facts are in the models rather than in a formula. A comparison's pause
only writes a status and its run goes on (webapi/compare_handler.go:426-431), so
that starting a paused task again leaves two runs; and the server drops log
entries for a stream that does not keep up (webapi/logbuffer.go:45-49).

## What is not modelled

In the modelled parts: an XLogData frame that cannot be parsed at all, which the source
logs and passes over (cdc/source.go:271-275); the age of the status file, which the
adoption of a child looks at (webapi/cdc_supervisor.go:404-406) and which in the end
leads to the same respawn; in `CdcControl` a stop's unlock and its signals are one
step, and a stop of an adopted child signals the one adopted at that moment; the slot name a
file of another kind of source leaves behind when it is discarded (cdc/checkpoint.go:131-135,
233-240). What filters (`filter.go`) leave out of the DDL log, DDL on
schemas, indexes and functions, and the texts the transformer rewrites; for
MySQL, GTIDs and the TiDB variant of the stream; chunked exports and the shared CSV directory; the
Source+CIR route of the orchestrator (MySQL, TiDB); phases a task skips;
connection tests, options and history of tasks. Of the chain: the prechecks, the
guard between a watermark run and CDC (it stands in one start handler only,
while the chain, the watchdog and the supervisor start past it), a switch to
another host (the file is kept), config.yaml switched away again, and the DDL
cursor that stays in a file seeded over another slot's. Of the watermark sync: rows whose
watermark is NULL (they are never read), a column or source that is changed while the
state is kept (`Edits` keeps the kind of watermark), targets without a key, the tables that run in parallel (each
has its own state), run logs, and a last save that fails (the run is then shown
as running until the server restarts). Of the comparison: the sampling, aggregate and
bucket modes, tables without a column to compare, keys that are integers on one
side only, the watermark condition, the rendering of values, and the files with
the differences. Of the console: a migration's
phases and progress frames on the task page; the layout of reports and
downloads; form fields no handler or gate reads.

Whole components, with the reason, are the ones `PROJECT.json` calls
`not_modelled`. The MongoDB comparison's engine is planned (below).
Schema conversion, DDL export and assessment transform text without state;
adapters, tool drivers, configuration, logging and reports keep no state that
decides anything. The console's dashboard, assessment and DDL export pages are
one request and its display; its connection form, pickers and API client have
no state of their own: what they do is part of the page that uses them.

## Plan

In order of importance.

1. Done: `CdcWal`, `CdcReplay`, `CdcSource`, `CdcApplier`, `CdcRunner`, `CdcControl`,
   `CdcConverge`, `CdcDdl`, `CdcBinlog`, `CdcChain`, `Incremental`, `Checksum`, `Migrate`, `Tasks`; proofs of the source, the
   applier, the runner, the control channel, the MySQL stream, repeated rows, statements
   beside rows, the chain, the watermark sync, the comparison, the migration and the task manager; the console's eighteen modules and their two
   compositions.
2. CDC, next: `CdcGuard` (incremental run against CDC start), and `CdcChain` over
   `CdcSource` and `CdcBinlog` in place of its process in order.
3. The validator's aggregate and bucket modes, the MongoDB comparison, the compare task's
   lifecycle, foreign-key levels and filter matching as checked pure operators;
   the Source+CIR route and chunked exports in `Migrate`.
4. Proofs, next: the console's pages. Liveness, recursive operators and ENABLED stay with TLC.
