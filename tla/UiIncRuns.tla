------------------------------- MODULE UiIncRuns -------------------------------
(***************************************************************************)
(* The runs of a watermark job on its page (views/IncrementalView.vue): a  *)
(* run is accepted with 202 and goes on at the server; the page tracks its *)
(* id and lists the jobs every 3 s until the run's record in the history   *)
(* has left "running".  Two pages drive the job, one of them this one.     *)
(* A list request meets the server as it is sent and its answer is taken   *)
(* at any later time; one that fails is one that was not sent.             *)
(***************************************************************************)
EXTENDS Naturals, FiniteSets

CONSTANTS
  MaxRuns,   \* bound: runs of the job
  MaxLists   \* bound: lists of the jobs in flight

VARIABLES
  runs,     \* the server: for each run "none", "running" or "over"
  job,      \* the server still has the job
  jobs,     \* jobs.value: the runs of the job as last listed; Gone without the job
  active,   \* activeRuns: the run tracked; 0 for none
  timer,    \* runPollTimer is set
  lists,    \* the lists in flight
  running,  \* runJob: 0, or the run accepted and not yet known to the page
  told      \* how often reportRunDone has told of each run

vars == <<runs, job, jobs, active, timer, lists, running, told>>

Ids   == 1..MaxRuns
Slots == 1..MaxLists
State == {"none", "running", "over"}
Gone  == [i \in Ids |-> "gone"]
Empty == [i \in Ids |-> "empty"]            \* no list in flight
Now   == IF job THEN runs ELSE Gone

TypeOK ==
  /\ runs \in [Ids -> State] /\ job \in BOOLEAN /\ timer \in BOOLEAN
  /\ jobs \in [Ids -> State] \cup {Gone}
  /\ active \in 0..MaxRuns /\ running \in 0..MaxRuns
  /\ lists \in [Slots -> [Ids -> State] \cup {Gone, Empty}]
  /\ told \in [Ids -> 0..2]

\* onMounted lists the jobs; a run of an earlier visit may be going.
Init ==
  /\ runs \in {[i \in Ids |-> IF i = 1 THEN s ELSE "none"] : s \in {"none", "running"}}
  /\ job = TRUE /\ jobs = Gone
  /\ active = 0 /\ timer = FALSE /\ running = 0
  /\ lists = [s \in Slots |-> IF s = 1 THEN runs ELSE Empty]
  /\ told = [i \in Ids |-> 0]

-----------------------------------------------------------------------------
(* The server runs a job once at a time. *)

Fresh == {i \in Ids : runs[i] = "none" /\ \A j \in 1..i - 1 : runs[j] = "over"}

Starts(i) == job /\ i \in Fresh /\ runs' = [runs EXCEPT ![i] = "running"]

\* handleDeleteIncrementalJob refuses while a run goes on.
Deletes == job /\ job' = FALSE /\ (\A i \in Ids : runs[i] # "running") /\ UNCHANGED runs

OtherPage ==
  /\ (\E i \in Ids : Starts(i) /\ UNCHANGED job) \/ Deletes
  /\ UNCHANGED <<jobs, active, timer, lists, running, told>>

RunEnds ==
  /\ \E i \in Ids : runs[i] = "running" /\ runs' = [runs EXCEPT ![i] = "over"]
  /\ UNCHANGED <<job, jobs, active, timer, lists, running, told>>

-----------------------------------------------------------------------------
(* The page. *)

\* The newest record of the history.
Newest(l) == {i \in Ids : l[i] \in {"running", "over"} /\ \A j \in i + 1..MaxRuns : l[j] = "none"}

Known(l, i) == i # 0 /\ l[i] = "over"

\* A run going on is adopted: started elsewhere, or before a reload.
Adopts(l) == {i \in Newest(l) : l[i] = "running"}

\* Mutant: the job that is gone stays tracked.
TracksForever(l) ==
  IF l = Gone THEN active
  ELSE IF Known(l, active) THEN 0
  ELSE IF active = 0 /\ Adopts(l) # {} THEN CHOOSE i \in Adopts(l) : TRUE ELSE active

\* reconcileActiveRuns: what is tracked after a list.
Tracks(l) ==
  IF l = Gone \/ Known(l, active) THEN 0
  ELSE IF active = 0 /\ Adopts(l) # {} THEN CHOOSE i \in Adopts(l) : TRUE ELSE active

\* loadJobs, pollActiveRuns.
List(l) ==
  \E s \in Slots : /\ lists[s] = Empty /\ \A q \in 1..s - 1 : lists[q] # Empty
                   /\ lists' = [lists EXCEPT ![s] = l]

\* The continuation: the list is shown and reconciled; with nothing tracked the
\* timer stops, else it goes on.
GotList(s) ==
  /\ lists[s] # Empty /\ lists' = [lists EXCEPT ![s] = Empty]
  /\ jobs' = lists[s]
  /\ active' = Tracks(lists[s])
  /\ timer' = (active' # 0)
  /\ told' = IF Known(lists[s], active) /\ told[active] < 2
               THEN [told EXCEPT ![active] = @ + 1] ELSE told
  /\ UNCHANGED <<runs, job, running>>

PollTick ==
  /\ timer /\ List(Now)
  /\ UNCHANGED <<runs, job, jobs, active, timer, running, told>>

\* loadJobs by hand: after a save or a removal.
Reload ==
  /\ List(Now)
  /\ UNCHANGED <<runs, job, jobs, active, timer, running, told>>

\* runJob, offered while nothing is tracked; the server refuses a second run.
RunJob ==
  /\ jobs # Gone /\ active = 0 /\ running = 0
  /\ \E i \in Ids : Starts(i) /\ running' = i
  /\ UNCHANGED <<job, jobs, active, timer, lists, told>>

\* 202: track, keep the timer, list at once (and open the log, module UiIncLogs).
Accepted ==
  /\ running # 0 /\ running' = 0
  /\ active' = running /\ timer' = TRUE
  /\ List(Now)
  /\ UNCHANGED <<runs, job, jobs, told>>

\* removeJob: the server first; the page lists again when it has the answer.
RemoveJob ==
  /\ jobs # Gone /\ Deletes
  /\ UNCHANGED <<jobs, active, timer, lists, running, told>>

Next ==
  \/ OtherPage \/ RunEnds
  \/ \E s \in Slots : GotList(s)
  \/ PollTick \/ Reload
  \/ RunJob \/ Accepted \/ RemoveJob

\* The timer fires, answers come.
Fairness ==
  /\ WF_vars(PollTick) /\ WF_vars(Accepted)
  /\ \A s \in Slots : WF_vars(GotList(s))

Spec == Init /\ [][Next]_vars /\ Fairness

-----------------------------------------------------------------------------

\* No run is tracked for ever: once every run is over the page comes to rest, also
\* when the job went before the page learnt of the end.
InStep == (\A i \in Ids : runs[i] # "running") /\ running = 0 => active = 0 /\ ~timer
ComesToRest == <>[]InStep

-----------------------------------------------------------------------------
(* Not kept: TLC has a counterexample to this (README.md). *)

\* A run is reported once.
ToldOnce == \A i \in Ids : told[i] <= 1
=============================================================================
