------------------------------ MODULE UiPipeline ------------------------------
(***************************************************************************)
(* The topology page (views/PipelineView.vue): hosts as nodes, DDL         *)
(* comparisons as edges, computed from two lists that are fetched together *)
(* every 30 seconds or by hand, either of which may fail.  A request meets *)
(* the server as it is sent.  An end of a comparison is a host.            *)
(* Bounds: MaxTasks comparisons, MaxChanges changes of the registry.       *)
(* Left out: verdicts and their colours, the chips, coordinates, schemas.  *)
(***************************************************************************)
EXTENDS Naturals, Sequences, FiniteSets, SequencesExt

CONSTANTS
  Host,      \* the host of each data source that can be registered
  Hosts,     \* hosts a comparison can name
  TiDB,      \* the hosts of TiDB data sources
  MaxTasks,  \* bound: comparisons
  MaxChanges \* bound: changes of the registry

VARIABLES
  srv,      \* the server: registered, comparisons on disk, how many began, whether
            \* the last one is going on, changes so far
  datasources, ddlTasks,   \* what was fetched
  answers,  \* refreshes in flight: by the timer and by hand
  openNode  \* the node of the open popover, as it was when it was clicked

vars == <<srv, datasources, ddlTasks, answers, openNode>>

Task    == [from : Hosts, to : Hosts]
None    == [datasources |-> {}, ddlTasks |-> <<>>, none |-> TRUE]
Closed  == [host |-> "", sources |-> {}, column |-> "source", srcCount |-> 0, tgtCount |-> 0,
            inEdges |-> 0]

Init ==
  /\ srv = [datasources |-> {}, ddlTasks |-> <<>>, began |-> 0, going |-> FALSE, changes |-> 0]
  /\ datasources = {} /\ ddlTasks = <<>>
  /\ answers = [r \in {"timer", "button"} |-> None] /\ openNode = Closed

-----------------------------------------------------------------------------
(* The graph. *)

\* The groups: one per pair of hosts, none for a host with itself.
Pairs == {<<ddlTasks[i].from, ddlTasks[i].to>> :
            i \in {j \in DOMAIN ddlTasks : ddlTasks[j].from # ddlTasks[j].to}}

\* register: data sources first, one node per host, then the hosts of edges.
NodeHosts == {Host[d] : d \in datasources} \cup {p[1] : p \in Pairs} \cup {p[2] : p \in Pairs}

\* The first data source names the node, the others are listed in it.
Sources(h) == {d \in datasources : Host[d] = h}

\* The side of the canvas: an end of edges goes right, a start left, the rest by type.
Column(h) ==
  IF h \in {p[2] : p \in Pairs} \/ (h \in TiDB /\ h \notin {p[1] : p \in Pairs})
  THEN "target" ELSE "source"

Node(h) ==
  [host |-> h, sources |-> Sources(h), column |-> Column(h),
   srcCount |-> Cardinality({i \in DOMAIN ddlTasks : ddlTasks[i].from = h}),
   tgtCount |-> Cardinality({i \in DOMAIN ddlTasks : ddlTasks[i].to = h}),
   inEdges  |-> Cardinality({p \in Pairs : p[2] = h})]

-----------------------------------------------------------------------------
(* The server. *)

Register ==
  /\ srv.changes < MaxChanges
  /\ \E d \in DOMAIN Host :
       srv' = [srv EXCEPT !.changes = @ + 1, !.datasources =
                 IF d \in @ THEN @ \ {d} ELSE @ \cup {d}]
  /\ UNCHANGED <<datasources, ddlTasks, answers, openNode>>

\* handleDDLCompareRun writes the task down as failed before it looks at anything.
Begins ==
  /\ ~srv.going /\ srv.began < MaxTasks
  /\ \E t \in Task :
       srv' = [srv EXCEPT !.ddlTasks = Append(@, t), !.began = @ + 1, !.going = TRUE]
  /\ UNCHANGED <<datasources, ddlTasks, answers, openNode>>

\* It ends: the task stays, failed or completed, or its directory is removed again
\* (more objects than are allowed).
Compared ==
  /\ srv.going
  /\ \E ts \in {srv.ddlTasks, Front(srv.ddlTasks)} :
       srv' = [srv EXCEPT !.ddlTasks = ts, !.going = FALSE]
  /\ UNCHANGED <<datasources, ddlTasks, answers, openNode>>

-----------------------------------------------------------------------------
(* The page. *)

\* refresh; the button spins while the page is loading, the timer does not ask.
Refresh(r) ==
  /\ answers[r] = None
  /\ r = "button" => answers["timer"] = None
  /\ answers' = [answers EXCEPT ![r] =
                   [datasources |-> srv.datasources, ddlTasks |-> srv.ddlTasks, none |-> FALSE]]
  /\ UNCHANGED <<srv, datasources, ddlTasks, openNode>>

\* Mutant: one that fails fails the other (Promise.all).
TakesAllOrNothing(a, ds, dc) ==
  /\ datasources' = IF ds /\ dc THEN a.datasources ELSE datasources
  /\ ddlTasks' = IF ds /\ dc THEN a.ddlTasks ELSE ddlTasks

\* What was fulfilled is taken.
Takes(a, ds, dc) ==
  /\ datasources' = IF ds THEN a.datasources ELSE datasources
  /\ ddlTasks' = IF dc THEN a.ddlTasks ELSE ddlTasks

GotAnswer(r, ds, dc) ==
  /\ answers[r] # None /\ Takes(answers[r], ds, dc)
  /\ answers' = [answers EXCEPT ![r] = None]
  /\ UNCHANGED <<srv, openNode>>

\* openPop; the layer over the canvas takes the next click.
OpenPop(h) ==
  /\ openNode = Closed /\ h \in NodeHosts /\ openNode' = Node(h)
  /\ UNCHANGED <<srv, datasources, ddlTasks, answers>>

ClosePop ==
  /\ openNode # Closed /\ openNode' = Closed
  /\ UNCHANGED <<srv, datasources, ddlTasks, answers>>

PollTick == Refresh("timer")

Next ==
  \/ Register \/ Begins \/ Compared
  \/ PollTick \/ Refresh("button")
  \/ \E r \in DOMAIN answers, ds, dc \in BOOLEAN : GotAnswer(r, ds, dc)
  \/ \E h \in Hosts : OpenPop(h)
  \/ ClosePop

\* The timer fires; each list is served now and then, both together need not be,
\* and a refresh may wait for ever.
FairSources == \E r \in DOMAIN answers, dc \in BOOLEAN : GotAnswer(r, TRUE, dc)
FairTasks   == \E r \in DOMAIN answers, ds \in BOOLEAN : GotAnswer(r, ds, TRUE)

Spec ==
  /\ Init /\ [][Next]_vars /\ WF_vars(PollTick)
  /\ SF_vars(FairSources) /\ SF_vars(FairTasks)

-----------------------------------------------------------------------------

TypeOK ==
  /\ srv \in [datasources : SUBSET DOMAIN Host, ddlTasks : BoundedSeq(Task, MaxTasks),
              began : 0..MaxTasks, going : BOOLEAN, changes : 0..MaxChanges]
  /\ datasources \subseteq DOMAIN Host /\ ddlTasks \in BoundedSeq(Task, MaxTasks)
  /\ openNode = Closed \/ openNode.host \in Hosts
  /\ \A r \in DOMAIN answers : answers[r] = None \/ answers[r].datasources \subseteq DOMAIN Host

\* The canvas comes to show the server, also when one list at a time fails.
InStep == datasources = srv.datasources /\ ddlTasks = srv.ddlTasks
Settles == <>[]InStep

-----------------------------------------------------------------------------
(* Not kept: TLC has a counterexample to this (README.md). *)

\* The open popover tells what the canvas under it shows.
PopIsCurrent == openNode # Closed => openNode.host \in NodeHosts /\ openNode = Node(openNode.host)
=============================================================================
