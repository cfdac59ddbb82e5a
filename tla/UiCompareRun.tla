---------------------------- MODULE UiCompareRun ----------------------------
(***************************************************************************)
(* The standalone comparison page (views/CompareView.vue) once a task is   *)
(* chosen: the task list, the active task, its report and the row content  *)
(* fetched when a row is expanded, fed by three sources that overtake each *)
(* other: the answers of the list, of the reports and of the row content,  *)
(* the poll of a running task, and the frames of the websocket hub.        *)
(* A list request meets the server as it is sent; its answer is taken at   *)
(* any later time.  Filling in the form is module UiCompareForm.           *)
(***************************************************************************)
EXTENDS Naturals, FiniteSets

CONSTANTS
  MaxTasks,   \* bound: compare tasks ever created
  MaxLists    \* bound: list requests in flight together

VARIABLES
  srv,       \* the server's tasks
  frame,     \* the frame of the hub on its way: the hub drops what a client cannot take
  list,      \* tasks.value
  active,    \* activeTask: id and status; NoTask when null
  report,    \* activeReport: whose report is shown; 0 when null
  lists,     \* list answers in flight, each with the report to load after it
  reports,   \* the reports asked for and not yet taken
  creating,  \* createCompare's answer on its way: the task created; 0 when none
  cache      \* rowDiffContentCache: for each key, whose rows it holds

vars == <<srv, frame, list, active, report, lists, reports, creating, cache>>

Ids    == 1..MaxTasks
Ended  == {"completed", "failed"}             \* a cancelled task is treated as a failed one
Status == Ended \cup {"none", "running"}
NoTask == [id |-> 0, status |-> "none"]
Quiet  == NoTask                              \* no frame
Slots  == 1..MaxLists
NoList == [tasks |-> [i \in Ids |-> "none"], then |-> 0, sent |-> FALSE]

TypeOK ==
  /\ srv \in [Ids -> Status] /\ list \in [Ids -> Status]
  /\ \A t \in {frame, active, creating} : t \in [id : 0..MaxTasks, status : Status]
  /\ report \in 0..MaxTasks /\ reports \subseteq Ids
  /\ lists \in [Slots -> [tasks : [Ids -> Status], then : 0..MaxTasks, sent : BOOLEAN]]
  /\ cache \in [Ids -> 0..MaxTasks]

Init ==
  /\ srv = [i \in Ids |-> "none"] /\ frame = Quiet
  /\ list = srv /\ active = NoTask /\ report = 0
  /\ lists = [s \in Slots |-> NoList] /\ reports = {} /\ creating = NoTask
  /\ cache = [i \in Ids |-> 0]

-----------------------------------------------------------------------------
(* The server runs one comparison at a time. *)

Fresh == {i \in Ids : srv[i] = "none" /\ \A j \in 1..i - 1 : srv[j] # "none"}
Idle  == \A i \in Ids : srv[i] # "running"

\* runCompare ends, or is cancelled, and broadcasts its last frame.
CompareEnds ==
  /\ \E i \in Ids, s \in Ended :
       /\ srv[i] = "running"
       /\ srv' = [srv EXCEPT ![i] = s]
       /\ frame' \in {frame, [id |-> i, status |-> s]}
  /\ UNCHANGED <<list, active, report, lists, reports, creating, cache>>

Progress ==
  /\ \E i \in Ids : srv[i] = "running" /\ frame' = [id |-> i, status |-> "running"]
  /\ UNCHANGED <<srv, list, active, report, lists, reports, creating, cache>>

-----------------------------------------------------------------------------
(* The page. *)

Free == {s \in Slots : ~lists[s].sent}
Room == Free # {}

\* refreshTasks, and what its caller does after it.
RefreshTasks(then) ==
  LET s == CHOOSE f \in Free : \A g \in Free : f <= g
  IN  lists' = [lists EXCEPT ![s] = [tasks |-> srv, then |-> then, sent |-> TRUE]]

\* The interval: only while the active task is shown running.
PollTick ==
  /\ active.status = "running" /\ Room
  /\ RefreshTasks(0)
  /\ UNCHANGED <<srv, frame, list, active, report, reports, creating, cache>>

Refreshed(l) == l.tasks[active.id]
After(l)     == {l.then} \ {0}

\* Mutant: the report is left to the frame of the end.
TakesListNoFallback(l) ==
  IF active.id # 0 /\ Refreshed(l) # "none"
    THEN active' = [active EXCEPT !.status = Refreshed(l)] /\ reports' = reports \cup After(l)
    ELSE reports' = reports \cup After(l) /\ UNCHANGED active

\* A task still listed takes its new status, and one seen to complete loads its
\* report; so does, after the list, the frame that ended the task.
TakesList(l) ==
  IF active.id # 0 /\ Refreshed(l) # "none"
    THEN /\ active' = [active EXCEPT !.status = Refreshed(l)]
         /\ reports' = reports \cup After(l)
              \cup {i \in {active.id} : active.status = "running" /\ Refreshed(l) = "completed"}
    ELSE reports' = reports \cup After(l) /\ UNCHANGED active

\* The continuation of refreshTasks.
GotList(s) ==
  /\ lists[s].sent /\ lists' = [lists EXCEPT ![s] = NoList]
  /\ list' = lists[s].tasks
  /\ TakesList(lists[s])
  /\ UNCHANGED <<srv, frame, report, creating, cache>>

\* ws.onmessage: the active task is edited in place; every frame refreshes the list.
GotFrame ==
  /\ frame # Quiet /\ frame' = Quiet /\ Room
  /\ IF frame.id = active.id
       THEN /\ active' = frame
            /\ RefreshTasks(IF frame.status = "running" THEN 0 ELSE frame.id)
       ELSE RefreshTasks(0) /\ UNCHANGED active
  /\ UNCHANGED <<srv, list, report, reports, creating, cache>>

\* The continuation of loadReport.  A task that did not complete has none (404).
GotReport(i) ==
  /\ i \in reports /\ reports' = reports \ {i}
  /\ report' = IF srv[i] = "completed" THEN i ELSE 0
  /\ UNCHANGED <<srv, frame, list, active, lists, creating, cache>>

StartCompare ==
  /\ creating = NoTask /\ Idle
  /\ \E i \in Fresh : /\ srv' = [srv EXCEPT ![i] = "running"]
                      /\ creating' = [id |-> i, status |-> "running"]
  /\ UNCHANGED <<frame, list, active, report, lists, reports, cache>>

\* The continuation of createCompare: the new task becomes the active one.
Started ==
  /\ creating # NoTask /\ creating' = NoTask /\ Room
  /\ active' = creating /\ report' = 0
  /\ RefreshTasks(0)
  /\ UNCHANGED <<srv, frame, list, reports, cache>>

\* cancelActive asks; the task ends by itself (CompareEnds).

\* viewTask takes the task as the list shows it.
ViewTask(i) ==
  /\ list[i] # "none"
  /\ active' = [id |-> i, status |-> list[i]] /\ report' = 0
  /\ reports' = IF list[i] = "completed" THEN reports \cup {i} ELSE reports
  /\ UNCHANGED <<srv, frame, list, lists, creating, cache>>

\* rowDiffCacheKey, for a table both tasks compare.
RowKey == active.id

\* What the card of the active task shows.
ReportOnScreen == active.id # 0 /\ report # 0

\* onReportRowExpand: one fetch for each key, of the active task's rows; the task
\* asked and the key are fixed before the answer, so its time does not matter.
ExpandRow ==
  /\ ReportOnScreen /\ cache[RowKey] = 0
  /\ cache' = [cache EXCEPT ![RowKey] = active.id]
  /\ UNCHANGED <<srv, frame, list, active, report, lists, reports, creating>>

Next ==
  \/ CompareEnds \/ Progress
  \/ PollTick
  \/ \E s \in Slots : GotList(s)
  \/ GotFrame
  \/ \E i \in Ids : GotReport(i)
  \/ StartCompare \/ Started
  \/ \E i \in Ids : ViewTask(i)
  \/ ExpandRow

\* Requests are answered and the timer fires; frames need not arrive.
Fairness ==
  /\ WF_vars(PollTick) /\ WF_vars(Started)
  /\ \A s \in Slots : WF_vars(GotList(s))
  /\ \A i \in Ids : WF_vars(GotReport(i))

Spec == Init /\ [][Next]_vars /\ Fairness

-----------------------------------------------------------------------------

\* The poll alone brings the report of the active task up (the comment in
\* refreshTasks), whatever frames are lost, as long as no other task's report
\* can come between.
Only(i)    == \A j \in Ids \ {i} : srv[j] = "none"
Awaited(i) == Only(i) /\ active.id = i /\ srv[i] = "completed"
Brought(i) == report = i \/ ~Only(i)
ReportComesUp == \A i \in Ids : Awaited(i) ~> Brought(i)

-----------------------------------------------------------------------------
(* Not kept: TLC has a counterexample to this (README.md). *)

\* The report on screen is the active task's: the rows expanded under it are
\* fetched, and labelled, as the active task's.
ReportOfActive == ReportOnScreen => report = active.id
=============================================================================
