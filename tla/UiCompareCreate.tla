---------------------------- MODULE UiCompareCreate ----------------------------
(***************************************************************************)
(* The page that creates a MongoDB comparison (views/CompareCreateView.vue *)
(* and the database picker components/DbBrowseSelect.vue): the source's    *)
(* database, the collections of it to compare, watermark exceptions of     *)
(* single collections, and the request.  Collections and databases are     *)
(* listed late, and the database can be typed over meanwhile.              *)
(* Of the watermarks only the complete exceptions are told apart: the      *)
(* global one concerns every collection alike.                             *)
(* Bounds: MaxSends requests, MaxPicks changes of the database.            *)
(* Left out: the target's form, connection tests, engine knobs, formats.   *)
(***************************************************************************)
EXTENDS Naturals, FiniteSets

CONSTANTS
  Colls,     \* for each database of the source, its collections
  Views,     \* those that are views
  MaxSends,  \* bound: requests
  MaxPicks   \* bound: changes of the database

VARIABLES
  srcDb,     \* the database and how often it was changed; "" for none
  browsed,   \* DbBrowseSelect: fetching, and the databases on offer
  entries,   \* collEntries
  selected,  \* collSelectedNames
  loading,   \* the database loadColls was asked for; "" for none
  wm,        \* wmEnabled, and collWms: the collections with a complete exception
  dialog,    \* the request that was assembled, while it is confirmed and sent; else NoSpec
  server     \* tasks created, and tasks started

vars == <<srcDb, browsed, entries, selected, loading, wm, dialog, server>>

Databases == DOMAIN Colls
Names     == UNION {Colls[d] : d \in Databases}
All       == {"*"}     \* no whitelist: every collection of the database
NoSpec    == [db |-> "", collections |-> {}, exceptions |-> {}]
Requests  == [db : Databases, collections : (SUBSET Names) \cup {All}, exceptions : SUBSET Names]

TypeOK ==
  /\ srcDb \in [name : Databases \cup {""}, picks : 0..MaxPicks]
  /\ browsed \in [fetching : BOOLEAN, dbs : SUBSET Databases]
  /\ entries \subseteq Names /\ selected \subseteq entries \ Views
  /\ loading \in Databases \cup {""}
  /\ wm \in [on : BOOLEAN, of : SUBSET Names]
  /\ dialog \in Requests \cup {NoSpec}
  /\ server \in [created : 0..MaxSends, started : 0..1]

Init ==
  /\ srcDb = [name |-> "", picks |-> 0] /\ browsed = [fetching |-> FALSE, dbs |-> {}]
  /\ entries = {} /\ selected = {} /\ loading = ""
  /\ wm = [on |-> FALSE, of |-> {}]
  /\ dialog = NoSpec /\ server = [created |-> 0, started |-> 0]

\* A task that was started is gone to: the page is left.  A dialog takes every click.
Present  == server.started = 0
Editable == Present /\ dialog = NoSpec

-----------------------------------------------------------------------------
(* The database. *)

FetchDbs ==
  /\ Editable /\ ~browsed.fetching /\ browsed' = [browsed EXCEPT !.fetching = TRUE]
  /\ UNCHANGED <<srcDb, entries, selected, loading, wm, dialog, server>>

\* A failure leaves typing.
GotDbs ==
  /\ Present /\ browsed.fetching
  /\ \E dbs \in {{}, Databases} : browsed' = [fetching |-> FALSE, dbs |-> dbs]
  /\ UNCHANGED <<srcDb, entries, selected, loading, wm, dialog, server>>

\* watch(srcDb).
Forgets == entries' = {} /\ selected' = {}

\* Typed, or picked from the list, which loses nothing when it is filtered.
PickDb ==
  /\ Editable /\ srcDb.picks < MaxPicks
  /\ \E d \in Databases \ {srcDb.name} : srcDb' = [name |-> d, picks |-> srcDb.picks + 1]
  /\ Forgets
  /\ UNCHANGED <<browsed, loading, wm, dialog, server>>

-----------------------------------------------------------------------------
(* The collections. *)

LoadColls ==
  /\ Editable /\ srcDb.name # "" /\ loading = "" /\ loading' = srcDb.name
  /\ UNCHANGED <<srcDb, browsed, entries, selected, wm, dialog, server>>

\* All that can be compared is checked at first.
PickedAtFirst(listed) == listed \ Views

\* The continuation of loadColls; a failure leaves what was listed.
GotColls ==
  /\ Present /\ loading # "" /\ loading' = ""
  /\ \/ entries' = Colls[loading] /\ selected' = PickedAtFirst(Colls[loading])
     \/ UNCHANGED <<entries, selected>>
  /\ UNCHANGED <<srcDb, browsed, wm, dialog, server>>

\* onCollSelectionChange, after a row, selectAllColls or clearCollSelection.
Select ==
  /\ Editable /\ entries # {}
  /\ \/ \E c \in entries \ Views :
          selected' = IF c \in selected THEN selected \ {c} ELSE selected \cup {c}
     \/ selected' \in {{}, entries \ Views} \ {selected}
  /\ UNCHANGED <<srcDb, browsed, entries, loading, wm, dialog, server>>

-----------------------------------------------------------------------------
(* Watermarks. *)

SwitchWm ==
  /\ Editable /\ wm' = [wm EXCEPT !.on = ~@]
  /\ UNCHANGED <<srcDb, browsed, entries, selected, loading, dialog, server>>

\* saveCwmEntry: any name, once.  Removing one is always offered.
SaveCwmEntry ==
  /\ Editable /\ wm.on /\ \E c \in Names \ wm.of : wm' = [wm EXCEPT !.of = @ \cup {c}]
  /\ UNCHANGED <<srcDb, browsed, entries, selected, loading, dialog, server>>

RemoveCwmEntry ==
  /\ Editable /\ wm.on /\ \E c \in wm.of : wm' = [wm EXCEPT !.of = @ \ {c}]
  /\ UNCHANGED <<srcDb, browsed, entries, selected, loading, dialog, server>>

-----------------------------------------------------------------------------
(* The request. *)

Partial == entries # {} /\ selected # entries \ Views

\* Mutant: a partial pick does not look at the exceptions.
OrphansNone == {}

\* submit: exceptions of collections that are not compared.
Orphans == IF wm.on /\ Partial /\ selected # {} THEN wm.of \ selected ELSE {}

Whitelist == IF Partial THEN selected ELSE All

Assembled ==
  [db |-> srcDb.name, collections |-> Whitelist, exceptions |-> IF wm.on THEN wm.of ELSE {}]

\* submit, up to the dialog that lists what will be compared, if it is opened.
Submit ==
  /\ Editable /\ srcDb.name # "" /\ loading = "" /\ server.created < MaxSends
  /\ Orphans = {}
  /\ entries \ Views # {} => selected # {}
  /\ dialog' = Assembled
  /\ UNCHANGED <<srcDb, browsed, entries, selected, loading, wm, server>>

Refuse ==
  /\ dialog # NoSpec /\ wm.on /\ dialog' = NoSpec
  /\ UNCHANGED <<srcDb, browsed, entries, selected, loading, wm, server>>

\* The task is created, then started; either may fail, and the page stays.
Create ==
  /\ dialog # NoSpec /\ dialog' = NoSpec
  /\ \E started \in {0, 1} :
       server' = [created |-> server.created + 1, started |-> started]
  /\ UNCHANGED <<srcDb, browsed, entries, selected, loading, wm>>

CreateFails ==
  /\ dialog # NoSpec /\ dialog' = NoSpec
  /\ UNCHANGED <<srcDb, browsed, entries, selected, loading, wm, server>>

Next ==
  \/ FetchDbs \/ GotDbs \/ PickDb
  \/ LoadColls \/ GotColls \/ Select
  \/ SwitchWm \/ SaveCwmEntry \/ RemoveCwmEntry
  \/ Submit \/ Refuse \/ Create \/ CreateFails

Spec == Init /\ [][Next]_vars

-----------------------------------------------------------------------------

\* No exception is sent for a collection the same request leaves out, and no
\* request has an empty whitelist (the comments F3 and coll-select in submit).
ExceptionsInScope ==
  dialog # NoSpec /\ dialog.collections # All =>
    dialog.collections # {} /\ dialog.exceptions \subseteq dialog.collections

-----------------------------------------------------------------------------
(* Not kept: TLC has a counterexample to each of these (README.md). *)

\* What is listed is of the database that was chosen (the comment on watch(srcDb):
\* a switch must not leave a stale picker).
PickerOfDb == entries # {} => entries = Colls[srcDb.name]

\* One request, one task.
OneTask == server.created <= 1
=============================================================================
