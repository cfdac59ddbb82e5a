------------------------------- MODULE UiIncLogs -------------------------------
(***************************************************************************)
(* The log drawer of the watermark page (views/IncrementalView.vue): the   *)
(* events of one run, pulled with after = the last sequence number seen,   *)
(* at once when the drawer opens and every second while the run is live.   *)
(* A pull does not wait for the one before it, and its answer does not say *)
(* which run it was asked for.  A pull meets the server as it is sent; one *)
(* that fails changes nothing, which matters for the first of a drawer     *)
(* only: a later one is one that was not sent.                             *)
(***************************************************************************)
EXTENDS Naturals

CONSTANTS
  MaxEvents,  \* bound: events of a run
  MaxPulls,   \* bound: pulls in flight together
  MaxOpens    \* bound: times the drawer is opened

VARIABLES
  made,    \* for each run, the events it has logged so far
  live,    \* the runs still going
  visible, \* logVisible
  run,     \* logRunId; 0 before the first opening
  events,  \* logEvents: how often each event of each run is in the list
  last,    \* logLastSeq
  status,  \* logStatus: "", "running" or "over"
  timer,   \* logTimer is set
  pulls,   \* the pulls in flight
  opens    \* openings so far

vars == <<made, live, visible, run, events, last, status, timer, pulls, opens>>

Runs  == {1, 2}
Seqs  == 1..MaxEvents
Slots == 1..MaxPulls
NoPull == [run |-> 0, from |-> 0, to |-> 0, status |-> ""]

TypeOK ==
  /\ made \in [Runs -> 0..MaxEvents] /\ live \subseteq Runs
  /\ {visible, timer} \subseteq BOOLEAN
  /\ run \in 0..2 /\ last \in 0..MaxEvents /\ opens \in 0..MaxOpens
  /\ events \in [Runs -> [Seqs -> 0..MaxPulls]]
  /\ status \in {"", "running", "over"}
  /\ pulls \in [Slots -> [run : 0..2, from : 0..MaxEvents, to : 0..MaxEvents,
                          status : {"", "running", "over"}]]

Nothing == [r \in Runs |-> [s \in Seqs |-> 0]]

\* One run going, one over.
Init ==
  /\ made = [r \in Runs |-> IF r = 1 THEN 0 ELSE MaxEvents] /\ live = {1}
  /\ visible = FALSE /\ run = 0 /\ events = Nothing /\ last = 0
  /\ status = "" /\ timer = FALSE
  /\ pulls = [s \in Slots |-> NoPull] /\ opens = 0

-----------------------------------------------------------------------------
(* The server: a run's events come from memory while it goes, from its      *)
(* archive after.                                                           *)

Logs(r) ==
  /\ r \in live /\ made[r] < MaxEvents /\ made' = [made EXCEPT ![r] = @ + 1]
  /\ UNCHANGED <<live, visible, run, events, last, status, timer, pulls, opens>>

Ends(r) ==
  /\ r \in live /\ live' = live \ {r}
  /\ UNCHANGED <<made, visible, run, events, last, status, timer, pulls, opens>>

-----------------------------------------------------------------------------
(* The page. *)

Answer(r, after) ==
  [run |-> r, from |-> after, to |-> made[r], status |-> IF r \in live THEN "running" ELSE "over"]

Pull(r, after) ==
  \E s \in Slots : /\ pulls[s] = NoPull /\ \A q \in 1..s - 1 : pulls[q] # NoPull
                   /\ pulls' = [pulls EXCEPT ![s] = Answer(r, after)]

\* openRunLogs: by runJob or from the history; its pull may fail.
OpenRunLogs(r) ==
  /\ opens < MaxOpens /\ opens' = opens + 1
  /\ run' = r /\ events' = Nothing /\ last' = 0 /\ status' = "" /\ visible' = TRUE
  /\ Pull(r, 0) \/ UNCHANGED pulls
  /\ UNCHANGED <<made, live, timer>>

\* The tick does nothing while the drawer is closed.
Tick ==
  /\ timer /\ visible
  /\ Pull(run, last)
  /\ UNCHANGED <<made, live, visible, run, events, last, status, timer, opens>>

\* Mutant: the answer of a finished run only stops the timer.
TakenLive(p) ==
  IF p.to > p.from /\ p.status = "running"
    THEN /\ events' = [events EXCEPT ![p.run] =
              [s \in Seqs |-> @[s] + (IF s \in p.from + 1..p.to /\ @[s] < MaxPulls THEN 1 ELSE 0)]]
         /\ last' = p.to
    ELSE UNCHANGED <<events, last>>

\* The events are appended, and the last of them is where the next pull begins.
Taken(p) ==
  IF p.to > p.from
    THEN /\ events' = [events EXCEPT ![p.run] =
              [s \in Seqs |-> @[s] + (IF s \in p.from + 1..p.to /\ @[s] < MaxPulls THEN 1 ELSE 0)]]
         /\ last' = p.to
    ELSE UNCHANGED <<events, last>>

\* The continuation of pullRunLogs, whatever the drawer shows by now.
GotPull(s) ==
  /\ pulls[s] # NoPull /\ pulls' = [pulls EXCEPT ![s] = NoPull]
  /\ Taken(pulls[s])
  /\ status' = pulls[s].status
  /\ timer' = (pulls[s].status = "running")
  /\ UNCHANGED <<made, live, visible, run, opens>>

\* watch(logVisible).
Close ==
  /\ visible /\ visible' = FALSE /\ timer' = FALSE
  /\ UNCHANGED <<made, live, run, events, last, status, pulls, opens>>

Next ==
  \/ \E r \in Runs : Logs(r) \/ Ends(r) \/ OpenRunLogs(r)
  \/ Tick \/ Close
  \/ \E s \in Slots : GotPull(s)

\* The timer fires and answers come.
Fairness == WF_vars(Tick) /\ \A s \in Slots : WF_vars(GotPull(s))

Spec == Init /\ [][Next]_vars /\ Fairness

-----------------------------------------------------------------------------

\* A drawer opened once shows every event of its run, also those logged while
\* pulls were under way, once its first pull got an answer.
InStep ==
  visible /\ opens = 1 /\ status # "" => \A s \in 1..made[run] : events[run][s] > 0
LogsArrive == <>[]InStep

-----------------------------------------------------------------------------
(* Not kept: TLC has a counterexample to each of these (README.md). *)

\* So it does though the first pull failed: the next tick retries (the comment in
\* pullRunLogs).  There is no tick before an answer.
Retried == <>[](visible /\ opens = 1 => \A s \in 1..made[run] : events[run][s] > 0)

\* The timer runs only while the drawer is open (the comment above logVisible).
TimerOnlyWhileOpen == timer => visible

\* The drawer lists its own run's events, each once.
OwnEventsOnce == \A r \in Runs, s \in Seqs : events[r][s] <= IF r = run THEN 1 ELSE 0
=============================================================================
