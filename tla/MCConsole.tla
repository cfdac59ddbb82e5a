----------------------------- MODULE MCConsole -----------------------------
(***************************************************************************)
(* The console: the pages that follow the server with the shell around     *)
(* them (WatchSpec), and those that make requests of what the user enters  *)
(* and of lists that come in late (FormsSpec).  A tab shows one page and   *)
(* forgets it when it is left, so each instance is the sum of its pages: a *)
(* session starts on one page and stays on it.  The slots v1..v10 are that *)
(* page's variables; a slot its page does not use is 0.                    *)
(***************************************************************************)
EXTENDS Naturals

VARIABLES route, v1, v2, v3, v4, v5, v6, v7, v8, v9, v10

vars == <<route, v1, v2, v3, v4, v5, v6, v7, v8, v9, v10>>

On(r) == route = r

-----------------------------------------------------------------------------
(* The pages that follow the server. *)

Detail == INSTANCE UiTaskDetail WITH MaxRuns <- 2, MaxPolls <- 2,
  srv <- v1, task <- v2, rows <- v3, loading <- v4, summaries <- v5, answers <- v6, acting <- v7

Log == INSTANCE UiTaskLog WITH MaxBufs <- 2, MaxLogs <- 2, MaxOpens <- 2,
  cur <- v1, buf <- v2, logs <- v3, loads <- v4, sock <- v5, mounted <- v6, opens <- v7

Compare == INSTANCE UiCompareRun WITH MaxTasks <- 1, MaxLists <- 2,
  srv <- v1, frame <- v2, list <- v3, active <- v4, report <- v5, lists <- v6, reports <- v7,
  creating <- v8, cache <- v9

Cdc == INSTANCE UiCdcWatch WITH MaxPolls <- 2, MaxChanges <- 1,
  srv <- v1, shown <- v2, cfg <- v3, slot <- v4, timer <- v5, refreshes <- v6, configs <- v7, op <- v8

Nav == INSTANCE UiNav WITH MaxBeats <- 1, MaxReloads <- 1,
  server <- v1, path <- v2, route <- v3, features <- v4, collapsed <- v5, storage <- v6,
  kept <- v7, beats <- v8, beat <- v9, reloads <- v10

RunLog == INSTANCE UiIncLogs WITH MaxEvents <- 2, MaxPulls <- 2, MaxOpens <- 2,
  made <- v1, live <- v2, visible <- v3, run <- v4, events <- v5, last <- v6, status <- v7,
  timer <- v8, pulls <- v9, opens <- v10

Runs == INSTANCE UiIncRuns WITH MaxRuns <- 2, MaxLists <- 2,
  runs <- v1, job <- v2, jobs <- v3, active <- v4, timer <- v5, lists <- v6, running <- v7, told <- v8

Tasks == INSTANCE UiTaskList WITH Monitor <- TRUE, Limit <- 2,
  MaxTasks <- 3, MaxFetches <- 2,
  srv <- v1, tasks <- v2, page <- v3, fetches <- v4

\* Two data sources on two hosts, one of them a TiDB.
HostOf == [d |-> "s", e |-> "t"]
Pipe == INSTANCE UiPipeline WITH Host <- HostOf, Hosts <- {"s", "t"}, TiDB <- {"t"},
  MaxTasks <- 2, MaxChanges <- 1,
  srv <- v1, datasources <- v2, ddlTasks <- v3, answers <- v4, openNode <- v5

WatchInit ==
  \/ route = "task"     /\ Detail!Init  /\ v8 = 0 /\ v9 = 0 /\ v10 = 0
  \/ route = "log"      /\ Log!Init     /\ v8 = 0 /\ v9 = 0 /\ v10 = 0
  \/ route = "compare"  /\ Compare!Init /\ v10 = 0
  \/ route = "cdc"      /\ Cdc!Init     /\ v9 = 0 /\ v10 = 0
  \/ route = "nav"      /\ Nav!Init
  \/ route = "runlog"   /\ RunLog!Init
  \/ route = "runs"     /\ Runs!Init    /\ v9 = 0 /\ v10 = 0
  \/ route = "tasks"    /\ Tasks!Init   /\ v5 = 0 /\ v6 = 0 /\ v7 = 0 /\ v8 = 0 /\ v9 = 0 /\ v10 = 0
  \/ route = "pipeline" /\ Pipe!Init    /\ v6 = 0 /\ v7 = 0 /\ v8 = 0 /\ v9 = 0 /\ v10 = 0

\* A step A of the page on the screen.
InDetail(A)  == On("task")     /\ A /\ UNCHANGED <<route, v8, v9, v10>>
InLog(A)     == On("log")      /\ A /\ UNCHANGED <<route, v8, v9, v10>>
InCompare(A) == On("compare")  /\ A /\ UNCHANGED <<route, v10>>
InCdc(A)     == On("cdc")      /\ A /\ UNCHANGED <<route, v9, v10>>
InNav(A)     == On("nav")      /\ A /\ UNCHANGED route
InRunLog(A)  == On("runlog")   /\ A /\ UNCHANGED route
InRuns(A)    == On("runs")     /\ A /\ UNCHANGED <<route, v9, v10>>
InTasks(A)   == On("tasks")    /\ A /\ UNCHANGED <<route, v5, v6, v7, v8, v9, v10>>
InPipe(A)    == On("pipeline") /\ A /\ UNCHANGED <<route, v6, v7, v8, v9, v10>>

WatchNext ==
  \/ InDetail(Detail!Next) \/ InLog(Log!Next) \/ InCompare(Compare!Next)
  \/ InCdc(Cdc!Next) \/ InNav(Nav!Next) \/ InRunLog(RunLog!Next)
  \/ InRuns(Runs!Next) \/ InTasks(Tasks!Next) \/ InPipe(Pipe!Next)

\* Each page's own fairness.  A session has one page, so one condition on what
\* several pages do is that condition on each.
Timer ==
  \/ InDetail(Detail!PollTick) \/ InCompare(Compare!PollTick) \/ InCdc(Cdc!PollTick)
  \/ InNav(Nav!Poll) \/ InRunLog(RunLog!Tick) \/ InRuns(Runs!PollTick)
  \/ InTasks(Tasks!PollTick) \/ InPipe(Pipe!PollTick)

\* What was clicked or opened is answered.
Accepted ==
  \/ InDetail(Detail!FairServe) \/ InLog(Log!StreamOpens) \/ InCompare(Compare!Started)
  \/ InCdc(Cdc!Called) \/ InNav(Nav!RouterReady) \/ InRuns(Runs!Accepted)

Loaded(k) ==
  \/ k = "pg" /\ (InDetail(Detail!FairRows) \/ InLog(Log!FairLoads) \/ InNav(Nav!GotFeatures))
  \/ k = "mysql" /\ InLog(Log!Delivered)
  \/ InCdc(Cdc!GotConfig(k))

\* The s-th poll on its way.
Polled(s) ==
  \/ InCompare(Compare!GotList(s)) \/ InRunLog(RunLog!GotPull(s)) \/ InRuns(Runs!GotList(s))
  \/ InTasks(Tasks!GotTasks(s) \/ Tasks!FetchFails(s))

Answered == InDetail(Detail!FairTask) \/ InNav(Nav!FairBeat)

Refreshed(p) == InCdc(Cdc!Continues(p)) \/ InCompare(p \in 1..2 /\ Compare!GotReport(p))

Fairness ==
  /\ WF_vars(Timer) /\ WF_vars(Accepted)
  /\ \A k \in Cdc!Kinds : WF_vars(Loaded(k))
  /\ \A s \in 1..2 : WF_vars(Polled(s)) /\ SF_vars(InTasks(Tasks!GotTasks(s)))
  /\ \A p \in Cdc!Procs : WF_vars(Refreshed(p))
  /\ WF_vars(Answered)
  /\ SF_vars(InPipe(Pipe!FairSources)) /\ SF_vars(InPipe(Pipe!FairTasks))

WatchSpec == WatchInit /\ [][WatchNext]_vars /\ Fairness

\* The variables of the page on the screen have their types.
WatchTypes ==
  /\ On("task")     => Detail!TypeOK
  /\ On("log")      => Log!TypeOK
  /\ On("compare")  => Compare!TypeOK
  /\ On("cdc")      => Cdc!TypeOK
  /\ On("nav")      => Nav!TypeOK
  /\ On("runlog")   => RunLog!TypeOK
  /\ On("runs")     => Runs!TypeOK
  /\ On("tasks")    => Tasks!TypeOK
  /\ On("pipeline") => Pipe!TypeOK

\* In whatever order answers and frames come, what a page shows is whole: one
\* summary of a task on its way, every log entry the server has sent, a page of
\* the list that exists (the comments quoted where the conjuncts are defined).
ShownIsReal ==
  /\ WatchTypes
  /\ On("task")     => Detail!OneSummary
  /\ On("log")      => Log!LogsComplete
  /\ On("tasks")    => Tasks!NoEmptyPage

\* A group of the menu the user folded stays folded over reloads, until he unfolds
\* it or comes to a page of it, though the route reads as "/" while a page is
\* loaded (App.vue, the comment on router.isReady).
FoldsSurvive == On("nav") => Nav!FoldsSurvive

\* A page left open comes to show the server as it is, whichever answers were
\* late or lost: the task and its summary, the log, the CDC process, a server
\* that is gone, the log of a run, no run tracked after its end, the list of
\* tasks, the topology.
PagesSettle ==
  <>[] /\ On("task")     => Detail!InStep
       /\ On("log")      => Log!InStep
       /\ On("cdc")      => Cdc!InStep
       /\ On("nav")      => Nav!InStep
       /\ On("runlog")   => RunLog!InStep
       /\ On("runs")     => Runs!InStep
       /\ On("tasks")    => Tasks!InStep
       /\ On("pipeline") => Pipe!InStep

\* The poll alone brings up the report of the active comparison once it is over,
\* though its frames are lost (the comment in refreshTasks of CompareView.vue).
\* There is one comparison here: once it is awaited it stays so.
ReportsComeUp == []<>(On("compare") => (Compare!Awaited(1) => Compare!Brought(1)))

-----------------------------------------------------------------------------
(* The pages that ask. *)

\* Two sources: a PostgreSQL one with a table and a MySQL one with two.
TablesOf == [p |-> {"a"}, m |-> {"a", "b"}]

Wizard == INSTANCE UiWizard WITH Tables <- TablesOf, MySQL <- {"m"}, Paths <- {"x"}, MaxEdits <- 1,
  step <- v1, source <- v2, green <- v3, testing <- v4, prefill <- v5, list <- v6,
  picked <- v7, tool <- v8, asked <- v9, sent <- v10

Form == INSTANCE UiCompareForm WITH Tables <- TablesOf, MaxEdits <- 1,
  source <- v1, optionsLoaded <- v2, available <- v3, listings <- v4, selected <- v5,
  tableWms <- v6, stored <- v7

Wm == INSTANCE UiCompareWm WITH
  card <- v1, wm <- v2, entry <- v3, cands <- v4, confirmed <- v5, starting <- v6,
  options <- v7

Report == INSTANCE UiCompareRun WITH MaxTasks <- 2, MaxLists <- 2,
  srv <- v1, frame <- v2, list <- v3, active <- v4, report <- v5, lists <- v6, reports <- v7,
  creating <- v8, cache <- v9

\* Two databases of which one has a view.
CollsOf == [x |-> {"a", "b", "v"}, y |-> {"a"}]
Create == INSTANCE UiCompareCreate WITH Colls <- CollsOf, Views <- {"v"}, MaxSends <- 2, MaxPicks <- 2,
  srcDb <- v1, browsed <- v2, entries <- v3, selected <- v4, loading <- v5, wm <- v6,
  dialog <- v7, server <- v8

\* Each table has the shared column in one of the two sources.
ColumnIn == [s |-> {"a"}, t |-> {"b"}]
Job == INSTANCE UiIncForm WITH Tables <- {"a", "b"}, Has <- ColumnIn, MaxRows <- 2,
  source <- v1, rows <- v2, batch <- v3, column <- v4, preview <- v5, mode <- v6, asked <- v7,
  checked <- v8, seen <- v9, saved <- v10

Precheck == INSTANCE UiCdcPrecheck WITH MaxRevs <- 2, MaxChecks <- 2,
  conf <- v1, pre <- v2, err <- v3, checks <- v4, checking <- v5, editing <- v6, chain <- v7,
  tab <- v8, failActive <- v9, userLeft <- v10

\* Parts of two bits: a number is safe up to 7, so the largest of either kind is not.
RadixOf  == [pg |-> 4, mysql |-> 3]
LowMaxOf == [pg |-> 3, mysql |-> 4]
Position == INSTANCE UiCdcPosition WITH Radix <- RadixOf, LowMax <- LowMaxOf, HighMax <- 2,
  Safe <- 7, Cap <- 2,
  kind <- v1, pos <- v2, ckpt <- v3, live <- v4, latest <- v5, history <- v6, risk <- v7

Sources == INSTANCE UiDataSources WITH Ids <- {"d", "e"}, MaxRevs <- 3,
  srv <- v1, list <- v2, listings <- v3, dialog <- v4, saving <- v5, answers <- v6

Ddl == INSTANCE UiDdlCompare WITH Refs <- {"x", "y"}, MaxRuns <- 2, MaxPicks <- 3,
  ref <- v1, schema <- v2, listing <- v3, runs <- v4, running <- v5, result <- v6,
  resultTaskID <- v7, history <- v8

History == INSTANCE UiTaskList WITH Monitor <- FALSE, Limit <- 2,
  MaxTasks <- 3, MaxFetches <- 2,
  srv <- v1, tasks <- v2, page <- v3, fetches <- v4

FormsInit ==
  \/ route = "wizard"   /\ Wizard!Init
  \/ route = "precheck" /\ Precheck!Init
  \/ route = "report"   /\ Report!Init   /\ v10 = 0
  \/ route = "job"      /\ Job!Init
  \/ route = "create"   /\ Create!Init   /\ v9 = 0 /\ v10 = 0
  \/ route = "ddl"      /\ Ddl!Init      /\ v9 = 0 /\ v10 = 0
  \/ route = "form"     /\ Form!Init     /\ v8 = 0 /\ v9 = 0 /\ v10 = 0
  \/ route = "wm"       /\ Wm!Init       /\ v8 = 0 /\ v9 = 0 /\ v10 = 0
  \/ route = "position" /\ Position!Init /\ v8 = 0 /\ v9 = 0 /\ v10 = 0
  \/ route = "sources"  /\ Sources!Init  /\ v7 = 0 /\ v8 = 0 /\ v9 = 0 /\ v10 = 0
  \/ route = "history"  /\ History!Init  /\ v5 = 0 /\ v6 = 0 /\ v7 = 0 /\ v8 = 0 /\ v9 = 0 /\ v10 = 0

FormsNext ==
  \/ On("wizard")   /\ Wizard!Next   /\ UNCHANGED route
  \/ On("precheck") /\ Precheck!Next /\ UNCHANGED route
  \/ On("report")   /\ Report!Next   /\ UNCHANGED <<route, v10>>
  \/ On("job")      /\ Job!Next      /\ UNCHANGED route
  \/ On("create")   /\ Create!Next   /\ UNCHANGED <<route, v9, v10>>
  \/ On("ddl")      /\ Ddl!Next      /\ UNCHANGED <<route, v9, v10>>
  \/ On("form")     /\ Form!Next     /\ UNCHANGED <<route, v8, v9, v10>>
  \/ On("wm")       /\ Wm!Next       /\ UNCHANGED <<route, v8, v9, v10>>
  \/ On("position") /\ Position!Next /\ UNCHANGED <<route, v8, v9, v10>>
  \/ On("sources")  /\ Sources!Next  /\ UNCHANGED <<route, v7, v8, v9, v10>>
  \/ On("history")  /\ History!Next  /\ UNCHANGED <<route, v5, v6, v7, v8, v9, v10>>

FormsSpec == FormsInit /\ [][FormsNext]_vars

\* The variables of the page on the screen have their types.
FormsTypes ==
  /\ On("wizard")   => Wizard!TypeOK
  /\ On("precheck") => Precheck!TypeOK
  /\ On("report")   => Report!TypeOK
  /\ On("job")      => Job!TypeOK
  /\ On("create")   => Create!TypeOK
  /\ On("ddl")      => Ddl!TypeOK
  /\ On("form")     => Form!TypeOK
  /\ On("wm")       => Wm!TypeOK
  /\ On("position") => Position!TypeOK
  /\ On("sources")  => Sources!TypeOK
  /\ On("history")  => History!TypeOK

\* However the user went back and forth and whatever came in late, what is sent
\* is what the page shows: the migration of the summary, the filter shown for
\* each table as the request leaves, exceptions only of collections that are
\* compared.
RequestsAsShown ==
  /\ On("wizard") => Wizard!SentAsShown
  /\ On("wm")     => Wm!RunsWhatWasShown
  /\ On("create") => Create!ExceptionsInScope

\* What stands on a page agrees, in whatever order it came: no table is both
\* picked and excluded, none has two rows of a job, an exception is of a table
\* that is listed, the history shows a page it has.
PageAgrees ==
  /\ FormsTypes
  /\ On("wizard")   => Wizard!Disjoint
  /\ On("job")      => Job!OneRowEach
  /\ On("form")     => Form!ExceptionsListed
  /\ On("history")  => History!NoEmptyPage

\* What comes in behind the user's back takes nothing from him: options that
\* are restored show what the last run was shown to be, a list is not replaced
\* by an older one, a failing precheck drags him to its tab once.
NothingTaken ==
  [][/\ On("wm")       => Wm!Restores
     /\ On("sources")  => Sources!ListsInOrder
     /\ On("precheck") => Precheck!DragsOnce]_vars
=============================================================================
