---------------------------- MODULE UiTaskDetail ----------------------------
(***************************************************************************)
(* The task page of the web console (views/TaskDetailView.vue) on a        *)
(* MongoDB compare task: the 5 s poll, the rows of the summary and the     *)
(* buttons, against the server (internal/webapi/compare_handler.go), whose *)
(* task other clients drive too: a pause writes a status and the run goes  *)
(* on, so that a task may have two runs.  A run writes summary.json just   *)
(* before the status it ends with: one step here.  An answer carries what  *)
(* the server held when it gave it, and the page takes it at any later     *)
(* time, in any order, after whatever happened since.                      *)
(* A poll and a click meet the server as they are sent: each may be sent   *)
(* at any time, so a slow request is one sent later.  A poll that fails    *)
(* changes nothing here and is one that was not sent.                      *)
(* Left out: the phases of a migration (a compare task has none), the      *)
(* progress frames, which edit the task in place, run no watcher and, for  *)
(* a compare task, carry no status, and the downloads.  The log drawer is  *)
(* module UiTaskLog.                                                       *)
(***************************************************************************)
EXTENDS Naturals, FiniteSets

CONSTANTS
  MaxRuns,   \* bound: starts of the task
  MaxPolls   \* bound: answers of getTask on their way together

VARIABLES
  srv,       \* the server's task: its status, its runs so far, those that go on, those
             \* that were cut off, and the run whose summary.json is there, 0 for none
  task,      \* task.value: NoTask, or the status and run of the answer shown
  rows,      \* mcSummary: the run whose collection rows are shown; 0 for none
  loading,   \* mcSummaryLoading
  summaries, \* the summary requests: Idle, 0 until answered, then the run or Missing
  answers,   \* the answers of getTask in flight
  acting     \* the answer of a clicked button on its way

vars == <<srv, task, rows, loading, summaries, answers, acting>>

Runs    == 1..MaxRuns
Missing == MaxRuns + 1                    \* 404, or the request failed
Idle    == MaxRuns + 2
Done    == {"completed", "failed"}
Status  == Done \cup {"running", "paused", "cancelled"}
Shown   == [status : Status, run : Runs]
NoTask  == [status |-> "none", run |-> 0]
Starts  == {"start", "resume"}
Acts    == Starts \cup {"pause", "cancel"}

TypeOK ==
  /\ srv \in [status : Status, run : Runs, live : SUBSET Runs, cut : SUBSET Runs,
              art : 0..MaxRuns]
  /\ task \in Shown \cup {NoTask}
  /\ rows \in 0..MaxRuns /\ loading \in BOOLEAN
  /\ summaries \in [1..2 -> 0..Idle]
  /\ answers \subseteq Shown
  /\ acting \in {"none", "ok", "refused"}

\* onMounted asks for the task at once.
Init ==
  /\ srv \in {[status |-> "running", run |-> 1, live |-> {1}, cut |-> {}, art |-> 0],
              [status |-> "completed", run |-> 1, live |-> {}, cut |-> {}, art |-> 1]}
  /\ task = NoTask /\ rows = 0 /\ loading = FALSE
  /\ summaries = [i \in 1..2 |-> Idle]
  /\ answers = {[status |-> srv.status, run |-> srv.run]}
  /\ acting = "none"

-----------------------------------------------------------------------------
(* The server. *)

Allowed(kind) ==
  CASE kind = "start"  -> srv.status # "running"
    [] kind = "resume" -> srv.status = "paused"
    [] kind = "pause"  -> srv.status = "running"
    [] kind = "cancel" -> TRUE

\* A start and a resume both drop the summary.json there is (resetCompareArtifacts).
Begins ==
  /\ srv.run < MaxRuns
  /\ srv' = [srv EXCEPT !.status = "running", !.run = @ + 1, !.live = @ \cup {srv.run + 1}, !.art = 0]

\* A cancel reaches the last run, and the run writes the status.
Handles(kind) ==
  /\ Allowed(kind)
  /\ \/ kind \in Starts /\ Begins
     \/ kind = "pause"  /\ srv' = [srv EXCEPT !.status = "paused"]
     \/ kind = "cancel" /\ srv' = [srv EXCEPT !.cut = @ \cup ({srv.run} \cap srv.live)]

OtherClient ==
  /\ \E kind \in Acts : Handles(kind)
  /\ UNCHANGED <<task, rows, loading, summaries, answers, acting>>

\* runMongoCompare ends, whatever the status has become meanwhile.  One that fails
\* may have written its summary.
RunEnds(r) ==
  /\ r \in srv.live
  /\ \E s \in Done \cup {"cancelled"}, a \in {srv.art, r} :
       /\ s = "completed" => a = r
       /\ s = "cancelled" => r \in srv.cut /\ a = srv.art
       /\ srv' = [srv EXCEPT !.status = s, !.live = @ \ {r}, !.cut = @ \ {r}, !.art = a]
  /\ UNCHANGED <<task, rows, loading, summaries, answers, acting>>

SummaryServed(i) ==
  /\ summaries[i] = 0
  /\ \E a \in {Missing} \cup ({srv.art} \cap Runs) : summaries' = [summaries EXCEPT ![i] = a]
  /\ UNCHANGED <<srv, task, rows, loading, answers, acting>>

-----------------------------------------------------------------------------
(* The page. *)

Asks == answers' = answers \cup {[status |-> srv.status, run |-> srv.run]}

\* The interval does not wait for the answer before it.
PollTick ==
  /\ Cardinality(answers) < MaxPolls
  /\ Asks
  /\ UNCHANGED <<srv, task, rows, loading, summaries, acting>>

RequestSummary ==
  /\ loading' = TRUE
  /\ summaries' = IF summaries[1] = Idle THEN [summaries EXCEPT ![1] = 0]
                                           ELSE [summaries EXCEPT ![2] = 0]

\* Mutant: only the rows already there stop a request, not the one in flight.
LoadSummaryTwice ==
  IF rows # 0 THEN UNCHANGED <<loading, summaries>> ELSE RequestSummary

\* loadMcSummary, called by the watcher of a finished task.
LoadSummary ==
  IF rows # 0 \/ loading THEN UNCHANGED <<loading, summaries>> ELSE RequestSummary

\* Mutant: rows once loaded stay.
WatchTaskKeeps(t) ==
  IF t.status \in Done
    THEN LoadSummary /\ UNCHANGED rows
    ELSE UNCHANGED <<rows, loading, summaries>>

\* watch(task): a finished task loads its summary, any other drops the rows.
WatchTask(t) ==
  IF t.status \in Done
    THEN LoadSummary /\ UNCHANGED rows
    ELSE rows' = 0 /\ UNCHANGED <<loading, summaries>>

\* The continuation of fetchTask.
GotTask(t) ==
  /\ t \in answers /\ answers' = answers \ {t}
  /\ task' = t
  /\ WatchTask(t)
  /\ UNCHANGED <<srv, acting>>

\* The continuation of loadMcSummary: it does not look at the task again.
GotSummary(i) ==
  /\ summaries[i] \in 1..Missing
  /\ rows' = IF summaries[i] \in Runs THEN summaries[i] ELSE rows
  /\ loading' = FALSE
  /\ summaries' = [summaries EXCEPT ![i] = Idle]
  /\ UNCHANGED <<srv, task, answers, acting>>

\* The card of the collection results, and its table.
RowsOnScreen == task.status \in Done /\ rows # 0

\* The buttons the status shown offers: restartCompare, action, cancelTask.
Offered(status) ==
  CASE status = "none"    -> {}
    [] status = "running" -> {"pause", "cancel"}
    [] status = "paused"  -> Starts \cup {"cancel"}
    [] OTHER              -> {"start"}

\* The server judges a click by its own status, not by the one shown.
Click ==
  /\ acting = "none"
  /\ \E kind \in Offered(task.status) :
       \/ Handles(kind) /\ acting' = "ok"
       \/ ~Allowed(kind) /\ acting' = "refused" /\ UNCHANGED srv
  /\ UNCHANGED <<task, rows, loading, summaries, answers>>

\* Success fetches the task again; a refusal is a message.
Clicked ==
  /\ acting # "none" /\ acting' = "none"
  /\ \/ acting = "ok" /\ Cardinality(answers) < MaxPolls /\ Asks
     \/ acting = "refused" /\ UNCHANGED answers
  /\ UNCHANGED <<srv, task, rows, loading, summaries>>

Next ==
  \/ OtherClient
  \/ \E r \in Runs : RunEnds(r)
  \/ \E i \in 1..2 : SummaryServed(i)
  \/ PollTick
  \/ \E t \in answers : GotTask(t)
  \/ \E i \in 1..2 : GotSummary(i)
  \/ Click \/ Clicked

\* The timer fires, and requests are answered and their answers taken.  That each
\* answer is taken follows: what is left of an older task does not come again.
FairServe == \E i \in 1..2 : SummaryServed(i)
FairRows  == \E i \in 1..2 : GotSummary(i)
FairTask  == \E t \in answers : GotTask(t)

Fairness ==
  /\ WF_vars(PollTick)
  /\ WF_vars(FairServe) /\ WF_vars(FairRows) /\ WF_vars(FairTask)

Spec == Init /\ [][Next]_vars /\ Fairness

-----------------------------------------------------------------------------

\* loadMcSummary never overlaps itself, however often polls run the watcher.
OneSummary == \E i \in 1..2 : summaries[i] = Idle

\* Answers that overtake each other do not last: once the task is left alone
\* the page shows its status, and while a run is on it shows no rows.
InStep == task.status = srv.status /\ (srv.status = "running" => rows = 0)
Settles == <>[]InStep

-----------------------------------------------------------------------------
(* Not kept: TLC has a counterexample to this (README.md). *)

\* A restart invalidates the rows of the run before (the comment on the watcher
\* of the task): they do not stay on the page of a run that has finished since.
StaleRowsGo == ~<>[](srv.status = "completed" /\ RowsOnScreen /\ rows # srv.art)
=============================================================================
