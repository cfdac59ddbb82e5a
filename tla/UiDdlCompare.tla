----------------------------- MODULE UiDdlCompare -----------------------------
(***************************************************************************)
(* The DDL comparison page (views/DdlCompareView.vue): the data source and *)
(* the schema of each side, one synchronous run at a time, its result with *)
(* the report to download, and the history.                                *)
(* Bounds: MaxRuns runs, MaxPicks changes of a side's data source.         *)
(* Left out: what is compared and how a result is rendered.                *)
(***************************************************************************)
EXTENDS Naturals

CONSTANTS
  Refs,    \* data sources
  MaxRuns, \* bound: runs
  MaxPicks \* bound: changes of a data source

VARIABLES
  ref,     \* for each side its data source ("" for none); changes so far
  schema,  \* for each side the data source its schema was listed for
  listing, \* the side and the data source of loadSchemas in flight
  runs,    \* the runs so far, and the data sources of the last
  running, \* a run is in flight
  result,  \* the run whose result is on the screen; 0 for none
  resultTaskID, \* the run whose report is offered
  history  \* the last run in the history, and the history in flight; 0 for none

vars == <<ref, schema, listing, runs, running, result, resultTaskID, history>>

Sides == {"source", "target"}
Idle  == [side |-> "", ref |-> ""]

TypeOK ==
  /\ ref \in [source : Refs \cup {""}, target : Refs \cup {""}, picks : 0..MaxPicks]
  /\ schema \in [Sides -> Refs \cup {""}]
  /\ listing \in [side : Sides, ref : Refs] \cup {Idle}
  /\ runs \in [n : 0..MaxRuns, over : 0..MaxRuns] /\ running \in BOOLEAN
  /\ result \in 0..MaxRuns /\ resultTaskID \in 0..MaxRuns
  /\ history \in [shown : 0..MaxRuns, asked : SUBSET (0..MaxRuns)]

\* onMounted asks for the history.
Init ==
  /\ ref = [source |-> "", target |-> "", picks |-> 0] /\ schema = [s \in Sides |-> ""]
  /\ listing = Idle /\ runs = [n |-> 0, over |-> 0] /\ running = FALSE
  /\ result = 0 /\ resultTaskID = 0 /\ history = [shown |-> 0, asked |-> {0}]

\* The pickers: the schemas that were listed stay.
PickRef ==
  /\ ref.picks < MaxPicks
  /\ \E s \in Sides, r \in Refs :
       ref[s] # r /\ ref' = [ref EXCEPT ![s] = r, !.picks = @ + 1]
  /\ UNCHANGED <<schema, listing, runs, running, result, resultTaskID, history>>

\* loadSchemas: both buttons wait for the one that was pressed.
LoadSchemas(s) ==
  /\ listing = Idle /\ ref[s] # "" /\ listing' = [side |-> s, ref |-> ref[s]]
  /\ UNCHANGED <<ref, schema, runs, running, result, resultTaskID, history>>

GotSchemas ==
  /\ listing # Idle /\ listing' = Idle
  /\ \E got \in BOOLEAN : schema' = IF got THEN [schema EXCEPT ![listing.side] = listing.ref] ELSE schema
  /\ UNCHANGED <<ref, runs, running, result, resultTaskID, history>>

\* canRun.
CanRun == (\A s \in Sides : ref[s] # "" /\ schema[s] # "") /\ ~running

RunCompare ==
  /\ CanRun /\ runs.n < MaxRuns
  /\ runs' = [runs EXCEPT !.n = @ + 1] /\ running' = TRUE /\ result' = 0
  /\ UNCHANGED <<ref, schema, listing, resultTaskID, history>>

\* The server has written the run down before it answers.
Compared ==
  /\ running /\ runs.over < runs.n /\ runs' = [runs EXCEPT !.over = @ + 1]
  /\ UNCHANGED <<ref, schema, listing, running, result, resultTaskID, history>>

\* The continuation of runCompare; the history is read again.
GotResult ==
  /\ running /\ runs.over = runs.n /\ running' = FALSE
  /\ result' = runs.n /\ resultTaskID' = runs.n
  /\ history' = [history EXCEPT !.asked = @ \cup {runs.over}]
  /\ UNCHANGED <<ref, schema, listing, runs>>

RunFails ==
  /\ running /\ running' = FALSE /\ runs' = [runs EXCEPT !.over = runs.n]
  /\ UNCHANGED <<ref, schema, listing, result, resultTaskID, history>>

\* The continuation of loadHistory: a failure empties it.
GotHistory ==
  /\ \E h \in history.asked, got \in BOOLEAN :
       history' = [shown |-> IF got THEN h ELSE 0, asked |-> history.asked \ {h}]
  /\ UNCHANGED <<ref, schema, listing, runs, running, result, resultTaskID>>

Next ==
  \/ PickRef \/ (\E s \in Sides : LoadSchemas(s)) \/ GotSchemas
  \/ RunCompare \/ Compared \/ GotResult \/ RunFails
  \/ GotHistory

Spec == Init /\ [][Next]_vars

-----------------------------------------------------------------------------
(* Not kept: TLC has a counterexample to this (README.md). *)

\* A run compares schemas of the data sources it names.
SchemaOfRef == running => \A s \in Sides : schema[s] = ref[s]
=============================================================================
