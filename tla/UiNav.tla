--------------------------------- MODULE UiNav ---------------------------------
(***************************************************************************)
(* The shell of the console (App.vue) around the routes of router/index.ts:*)
(* the sidebar of groups, which fold, are kept in localStorage and unfold  *)
(* around the current route; the CDC entry, there once /features says so;  *)
(* and the heartbeat in the top bar.  Until the router is ready the route  *)
(* reads as "/", whatever the address is.                                  *)
(***************************************************************************)
EXTENDS Naturals, FiniteSets

CONSTANTS
  MaxBeats,   \* bound: heartbeats in flight
  MaxReloads  \* bound: reloads of the page

VARIABLES
  server,    \* the server: CDC enabled, a task running, reachable
  path,      \* the address
  route,     \* what useRoute has: Start until the first navigation is over
  features,  \* the answer of /features: "asked", "on", "off" (disabled or failed)
  collapsed, \* the groups folded
  storage,   \* localStorage: the groups folded, and whether it takes writes
  kept,      \* history: groups the user folded for good, not unfolded or visited since
  beats,     \* answers of the heartbeat in flight
  beat,      \* backendUp and whether runningCount is positive
  reloads    \* reloads so far

vars == <<server, path, route, features, collapsed, storage, kept, beats, beat, reloads>>

\* Two groups of navSections, an entry of each, and the optional one.
Groups == {"overview", "sync"}
Paths  == {"/", "/incremental", "/cdc"}
Start  == "START_LOCATION"
Beat   == [up : BOOLEAN, running : BOOLEAN]
Now    == [up |-> server.up, running |-> server.running]

TypeOK ==
  /\ server \in [cdc : BOOLEAN, running : BOOLEAN, up : BOOLEAN]
  /\ path \in Paths /\ route \in {path, Start} /\ features \in {"asked", "on", "off"}
  /\ collapsed \subseteq Groups /\ kept \subseteq Groups
  /\ storage \in [folded : SUBSET Groups, writable : BOOLEAN]
  /\ beats \subseteq Beat /\ beat \in Beat /\ reloads \in 0..MaxReloads

\* The page is opened with what an earlier visit stored.
Init ==
  /\ server \in [cdc : BOOLEAN, running : BOOLEAN, up : {TRUE}]
  /\ path \in Paths /\ route = Start /\ features = "asked"
  /\ storage \in [folded : SUBSET Groups, writable : BOOLEAN]
  /\ collapsed = storage.folded /\ kept = storage.folded
  /\ beats = {} /\ beat = [up |-> TRUE, running |-> FALSE] /\ reloads = 0

-----------------------------------------------------------------------------

\* navSections.
Items(g) ==
  IF g = "overview" THEN {"/"}
  ELSE {"/incremental"} \cup (IF features = "on" THEN {"/cdc"} ELSE {})

\* isActive, of what the route reads as.
Holds(g, r) == (IF r = Start THEN "/" ELSE r) \in Items(g)

\* persistCollapse: a failed write counts for this visit only.
Persist(c) ==
  collapsed' = c /\ storage' = IF storage.writable THEN [storage EXCEPT !.folded = c] ELSE storage

\* toggleGroup.
ToggleGroup(g) ==
  /\ IF g \in collapsed
       THEN Persist(collapsed \ {g}) /\ kept' = kept \ {g}
       ELSE Persist(collapsed \cup {g}) /\ kept' = IF storage.writable THEN kept \cup {g} ELSE kept
  /\ UNCHANGED <<server, path, route, features, beats, beat, reloads>>

\* expandActiveGroup.
ExpandActiveGroup(r) ==
  /\ IF \E g \in collapsed : Holds(g, r)
       THEN Persist({g \in collapsed : ~Holds(g, r)})
       ELSE UNCHANGED <<collapsed, storage>>
  /\ kept' = {g \in kept : ~Holds(g, r)}

\* router.isReady and watch(route.path): the address has become the route.
RouterReady ==
  /\ route = Start /\ route' = path
  /\ ExpandActiveGroup(route')
  /\ UNCHANGED <<server, path, features, beats, beat, reloads>>

\* An entry on screen, or a link of a page; watch(route.path).
Navigate(p) ==
  /\ route # Start /\ p # path /\ path' = p /\ route' = p
  /\ ExpandActiveGroup(route')
  /\ UNCHANGED <<server, features, beats, beat, reloads>>

\* Mutant: the watcher is immediate, it runs while the route is still Start.
RestoresEager == {g \in storage.folded : ~Holds(g, Start)}

\* What a load reads from localStorage; the watcher is not immediate.
Restores == storage.folded

Reload ==
  /\ reloads < MaxReloads /\ reloads' = reloads + 1
  /\ route' = Start /\ features' = "asked" /\ collapsed' = Restores
  /\ beats' = {} /\ beat' = [up |-> TRUE, running |-> FALSE]
  /\ UNCHANGED <<server, path, storage, kept>>

\* onMounted asks /features once; no answer hides CDC.
GotFeatures ==
  /\ features = "asked"
  /\ features' \in {"off"} \cup {IF server.cdc THEN "on" ELSE "off"}
  /\ UNCHANGED <<server, path, route, collapsed, storage, kept, beats, beat, reloads>>

\* pollHeartbeat, first after /features and then every 5 s.
Poll ==
  /\ features # "asked" /\ Cardinality(beats) < MaxBeats
  /\ beats' = beats \cup {Now}
  /\ UNCHANGED <<server, path, route, features, collapsed, storage, kept, beat, reloads>>

\* Mutant: a failed beat is dropped.
TakenIfUp(b) == IF b.up THEN b ELSE beat

\* No answer leaves the count.
Taken(b) == IF b.up THEN b ELSE [beat EXCEPT !.up = FALSE]

GotBeat(b) ==
  /\ b \in beats /\ beats' = beats \ {b}
  /\ beat' = Taken(b)
  /\ UNCHANGED <<server, path, route, features, collapsed, storage, kept, reloads>>

\* Tasks start and end; the backend goes away for good.
ServerMoves ==
  /\ server.up
  /\ server' \in {[server EXCEPT !.running = ~@], [server EXCEPT !.up = FALSE]}
  /\ UNCHANGED <<path, route, features, collapsed, storage, kept, beats, beat, reloads>>

Next ==
  \/ \E g \in Groups : ToggleGroup(g)
  \/ RouterReady \/ Reload \/ GotFeatures \/ Poll \/ ServerMoves
  \/ \E p \in Paths : Navigate(p)
  \/ \E b \in beats : GotBeat(b)

\* The router gets ready, /features answers or fails, the timer fires, and
\* heartbeats are answered.
FairBeat == \E b \in beats : GotBeat(b)

Fairness ==
  /\ WF_vars(RouterReady) /\ WF_vars(GotFeatures) /\ WF_vars(Poll)
  /\ WF_vars(FairBeat)

Spec == Init /\ [][Next]_vars /\ Fairness

-----------------------------------------------------------------------------

\* A group the user folded stays folded, on the screen and for the next visit,
\* until he unfolds it or comes to a page of it, over any reload and whatever
\* page is loaded (the comment on router.isReady).
FoldsSurvive == kept \subseteq collapsed \cap storage.folded

\* A backend that is gone is noticed.
InStep == ~server.up => ~beat.up
GoneIsNoticed == <>[]InStep

-----------------------------------------------------------------------------
(* Not kept: TLC has a counterexample to this (README.md). *)

\* The entry of the route is visible (the comment on expandActiveGroup), also when
\* it appears late: after a reload the group of /cdc stays folded around it.
ActiveVisible == [][\A g \in Groups :
  features = "asked" /\ features' = "on" /\ route # Start /\ Holds(g, route)' => g \notin collapsed']_vars
=============================================================================
