------------------------------ MODULE UiTaskList ------------------------------
(***************************************************************************)
(* The two lists of tasks: the monitor (views/TaskListView.vue), polled    *)
(* every 5 seconds, and the history (views/HistoryView.vue), fetched when  *)
(* it is opened and after each delete.  Both are cut into pages in the     *)
(* browser.  A request meets the server as it is sent; several may be in   *)
(* flight and are answered in any order.                                   *)
(* Bounds: MaxTasks tasks, MaxFetches requests in flight; one row a page,  *)
(* Limit rows an answer (50 of the newest, however many there are).        *)
(* Left out: the columns, page sizes, the toasts.                          *)
(***************************************************************************)
EXTENDS Naturals, FiniteSets

CONSTANTS
  Monitor,   \* the page is the monitor, else the history
  Limit,     \* the tasks the server lists
  MaxTasks,  \* bound: tasks ever
  MaxFetches \* bound: requests in flight

VARIABLES
  srv,     \* the server: tasks so far, those it has, those that are over
  tasks,   \* the rows
  page,    \* the page on the screen
  fetches  \* for each request in flight, its answer; Free for none

vars == <<srv, tasks, page, fetches>>

Ids     == 1..MaxTasks
Fetches == 1..MaxFetches
Free    == {0}

\* The newest tasks the server has; the history keeps those that are over.
Newest(s) == {t \in s.have : Cardinality({u \in s.have : u > t}) < Limit}
Listed(s) == IF Monitor THEN Newest(s) ELSE Newest(s) \cap s.over

Pages(rows) == IF rows = {} THEN 1 ELSE Cardinality(rows)

TypeOK ==
  /\ srv \in [had : 0..MaxTasks, have : SUBSET Ids, over : SUBSET Ids]
  /\ tasks \subseteq Ids /\ page \in 1..MaxTasks
  /\ fetches \in [Fetches -> (SUBSET Ids) \cup {Free}]

Idle == [f \in Fetches |-> Free]
Sent(f, rows) == fetches[f] = Free /\ fetches' = [fetches EXCEPT ![f] = rows]

\* onMounted: the first request is on its way.
Init ==
  /\ \E n \in 0..MaxTasks : \E over \in SUBSET (1..n) :
       srv = [had |-> n, have |-> 1..n, over |-> over]
  /\ tasks = {} /\ page = 1 /\ fetches = [Idle EXCEPT ![1] = Listed(srv)]

-----------------------------------------------------------------------------
(* The server, driven from other pages. *)

Created ==
  /\ srv.had < MaxTasks
  /\ srv' = [srv EXCEPT !.had = @ + 1, !.have = @ \cup {srv.had + 1}]
  /\ UNCHANGED <<tasks, page, fetches>>

Ended ==
  /\ \E t \in srv.have \ srv.over : srv' = [srv EXCEPT !.over = @ \cup {t}]
  /\ UNCHANGED <<tasks, page, fetches>>

\* A task that is over is started again.
Restarted ==
  /\ \E t \in srv.have \cap srv.over : srv' = [srv EXCEPT !.over = @ \ {t}]
  /\ UNCHANGED <<tasks, page, fetches>>

DeletedElsewhere ==
  /\ \E t \in srv.have \cap srv.over : srv' = [srv EXCEPT !.have = @ \ {t}]
  /\ UNCHANGED <<tasks, page, fetches>>

-----------------------------------------------------------------------------
(* The page. *)

\* The timer asks whether or not the last answer is there.
PollTick == Monitor /\ (\E f \in Fetches : Sent(f, Listed(srv))) /\ UNCHANGED <<srv, tasks, page>>

\* Mutant: the page stays where it is.
ClampNone(rows) == page

\* watch(tasks.length): rows that went away take the last pages with them.
Clamp(rows) == IF page > Pages(rows) THEN Pages(rows) ELSE page

\* The continuation of fetchTasks and fetchHistory; a failure leaves the rows.
GotTasks(f) ==
  /\ fetches[f] # Free /\ fetches' = [fetches EXCEPT ![f] = Free]
  /\ tasks' = fetches[f] /\ page' = Clamp(tasks')
  /\ UNCHANGED srv

FetchFails(f) ==
  /\ fetches[f] # Free /\ fetches' = [fetches EXCEPT ![f] = Free]
  /\ UNCHANGED <<srv, tasks, page>>

\* deleteTask, of the history, confirmed: the list is fetched again.
DeleteTask ==
  /\ ~Monitor
  /\ \E t \in tasks \cap srv.have \cap srv.over, f \in Fetches :
       /\ srv' = [srv EXCEPT !.have = @ \ {t}]
       /\ Sent(f, Listed(srv'))
  /\ UNCHANGED <<tasks, page>>

TurnPage ==
  /\ page' \in 1..Pages(tasks) /\ page' # page
  /\ UNCHANGED <<srv, tasks, fetches>>

Next ==
  \/ Created \/ Ended \/ Restarted \/ DeletedElsewhere
  \/ PollTick \/ \E f \in Fetches : GotTasks(f) \/ FetchFails(f)
  \/ DeleteTask \/ TurnPage

\* The timer fires, and every request that keeps being sent is answered at last.
Spec ==
  /\ Init /\ [][Next]_vars /\ WF_vars(PollTick)
  /\ \A f \in Fetches : SF_vars(GotTasks(f)) /\ WF_vars(GotTasks(f) \/ FetchFails(f))

-----------------------------------------------------------------------------

\* However rows go away, the page on the screen is one of them (the comments on
\* the clamp: never an empty page).
NoEmptyPage == page <= Pages(tasks)

\* The monitor comes to show what the server lists.
InStep == Monitor => tasks = Listed(srv)
Settles == <>[]InStep

-----------------------------------------------------------------------------
(* Not kept: TLC has a counterexample to each of these (README.md). *)

\* What is deleted from the history does not come back.
DeletedStayGone == [][~Monitor => \A t \in Ids : t \notin tasks /\ t \notin srv.have => t \notin tasks']_vars

\* Every task is in its list, however many there are (the comments on the pages:
\* all of the data is loaded).
AllListed == \A t \in srv.have : Monitor \/ t \in srv.over => t \in Listed(srv)
=============================================================================
