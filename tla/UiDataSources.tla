----------------------------- MODULE UiDataSources -----------------------------
(***************************************************************************)
(* The page of data sources (views/DataSourcesView.vue) and the registry   *)
(* behind every picker (composables/useDataSources.ts): one list for all   *)
(* pages, read again after each change, and never twice at a time: whoever *)
(* asks meanwhile waits for the list that is on its way.  A request meets  *)
(* the server as it is sent.                                               *)
(* Bound: MaxRevs changes of the registry.                                 *)
(* Left out: the form's fields, and what a test finds.                     *)
(***************************************************************************)
EXTENDS Naturals, FiniteSets

CONSTANTS
  Ids,    \* data sources
  MaxRevs \* bound: changes of the registry

VARIABLES
  srv,      \* the server: data sources, and its changes so far
  list,     \* datasources, as of a change
  listings, \* the lists on their way
  dialog,   \* "closed", "new", or the data source being edited
  saving,   \* a save: "", "ok" or "failed" once the server met it, "list" while it lists
  answers   \* tests and deletes the server has done, to be answered

vars == <<srv, list, listings, dialog, saving, answers>>

Registry == [have : SUBSET Ids, rev : 0..MaxRevs]

TypeOK ==
  /\ srv \in Registry /\ list \in Registry /\ listings \subseteq Registry
  /\ dialog \in {"closed", "new"} \cup Ids /\ saving \in {"", "ok", "failed", "list"}
  /\ answers \in 0..2

\* onMounted reads the list.
Init ==
  /\ srv \in [have : SUBSET Ids, rev : {0}] /\ list = [have |-> {}, rev |-> 0]
  /\ listings = {srv} /\ dialog = "closed" /\ saving = "" /\ answers = 0

Changes(have) ==
  srv.rev < MaxRevs /\ srv' = [have |-> have, rev |-> srv.rev + 1]

\* Mutant: whoever asks gets a list of their own.
LoadOwn == listings' = listings \cup {srv}

\* load(true).
Load == listings' = IF listings = {} THEN {srv} ELSE listings

-----------------------------------------------------------------------------

\* Another console.
ChangesElsewhere ==
  /\ \E have \in SUBSET Ids : Changes(have)
  /\ UNCHANGED <<list, listings, dialog, saving, answers>>

\* The list is there, or has failed and leaves the old one; whoever waits goes on.
GotList ==
  /\ \E l \in listings : listings' = listings \ {l} /\ list' \in {l, list}
  /\ saving' = IF saving = "list" THEN "" ELSE saving
  /\ UNCHANGED <<srv, dialog, answers>>

OpenDialog ==
  /\ dialog = "closed" /\ dialog' \in {"new"} \cup list.have
  /\ UNCHANGED <<srv, list, listings, saving, answers>>

CloseDialog ==
  /\ dialog # "closed" /\ dialog' = "closed"
  /\ UNCHANGED <<srv, list, listings, saving, answers>>

\* save: only its button waits, the dialog can be closed meanwhile.
Save ==
  /\ dialog # "closed" /\ saving = ""
  /\ \/ dialog = "new" /\ (\E d \in Ids \ srv.have : Changes(srv.have \cup {d})) /\ saving' = "ok"
     \/ dialog \in srv.have /\ Changes(srv.have) /\ saving' = "ok"
     \/ UNCHANGED srv /\ saving' = "failed"
  /\ UNCHANGED <<list, listings, dialog, answers>>

\* The continuation of save closes whichever dialog is open.
Saved ==
  /\ \/ saving = "ok" /\ saving' = "list" /\ dialog' = "closed" /\ Load
     \/ saving = "failed" /\ saving' = "" /\ UNCHANGED <<dialog, listings>>
  /\ UNCHANGED <<srv, list, answers>>

\* testDS, whose verdict the server keeps.
TestDS ==
  /\ list.have \cap srv.have # {} /\ answers < 2 /\ Changes(srv.have) /\ answers' = answers + 1
  /\ UNCHANGED <<list, listings, dialog, saving>>

\* removeDS, confirmed.
RemoveDS ==
  /\ answers < 2 /\ \E d \in list.have \cap srv.have : Changes(srv.have \ {d})
  /\ answers' = answers + 1
  /\ UNCHANGED <<list, listings, dialog, saving>>

\* The continuations of both read the list again.
Answered ==
  /\ answers > 0 /\ answers' = answers - 1 /\ Load
  /\ UNCHANGED <<srv, list, dialog, saving>>

Next ==
  \/ ChangesElsewhere \/ GotList
  \/ OpenDialog \/ CloseDialog \/ Save \/ Saved
  \/ TestDS \/ RemoveDS \/ Answered

Spec == Init /\ [][Next]_vars

-----------------------------------------------------------------------------

\* Whatever is saved, tested and removed while lists are read, no list is
\* replaced by an older one.
ListsInOrder == list.rev' >= list.rev
NeverOlder == [][ListsInOrder]_vars

-----------------------------------------------------------------------------
(* Not kept: TLC has a counterexample to this (README.md). *)

\* Once everything is answered, the list tells what was done here (the comment
\* on the cache: views refresh it so every picker sees fresh data).
OwnChangesListed ==
  (answers = 0 /\ saving = "" /\ listings = {}) => list.rev = srv.rev
=============================================================================
