------------------------------ MODULE UiCdcWatch ------------------------------
(***************************************************************************)
(* The live part of the CDC page (views/CDCView.vue): refresh, which asks  *)
(* the status, then the statistics, then the replication slot, every 5 s   *)
(* whether or not the refresh before it is over; callCDC, which starts or  *)
(* stops CDC and refreshes; and loadConnConfig, which tells the page the   *)
(* kind of the source, hence whether there is a slot to show.              *)
(* A request meets the server as it is sent, its answer is taken at any    *)
(* later time.  A failed request of a refresh changes nothing and is not   *)
(* modelled.  The numbers refresh brings are module UiCdcPosition, the     *)
(* startup precheck is module UiCdcPrecheck.                               *)
(***************************************************************************)
EXTENDS Naturals

CONSTANTS
  MaxPolls,   \* bound: polls under way together
  MaxChanges  \* bound: changes of the server's state

VARIABLES
  srv,       \* the server: CDC enabled, CDC on, kind of the source, changes so far
  shown,     \* status and control: what the page shows of srv
  cfg,       \* connCfg: the source's kind; "none" before the first answer
  slot,      \* slotView shows a replication slot
  timer,     \* the interval is set
  refreshes, \* the refreshes under way: where each is, what its answer says
  configs,   \* answers of loadConnConfig in flight
  op         \* callCDC: "idle", its request in "sent" or "refused", its "refresh"

vars == <<srv, shown, cfg, slot, timer, refreshes, configs, op>>

Kinds == {"pg", "mysql"}
Polls == 1..MaxPolls
Own   == 0                    \* the refresh of callCDC
Watch == MaxPolls + 1         \* the refreshSlot of the watcher of srcIsMySQL
Procs == Own..Watch
View  == [enabled : BOOLEAN, on : BOOLEAN]
Seen  == [enabled |-> srv.enabled, on |-> srv.on]
At(where) == [at |-> where, saw |-> Seen, pg |-> srv.src = "pg"]
Over  == [at |-> "over", saw |-> [enabled |-> FALSE, on |-> FALSE], pg |-> FALSE]

TypeOK ==
  /\ srv \in [enabled : BOOLEAN, on : BOOLEAN, src : Kinds, n : 0..MaxChanges]
  /\ shown \in View /\ cfg \in Kinds \cup {"none"}
  /\ slot \in BOOLEAN /\ timer \in BOOLEAN
  /\ refreshes \in [Procs -> [at : {"over", "status", "stats", "slot"}, saw : View, pg : BOOLEAN]]
  /\ configs \subseteq Kinds
  /\ op \in {"idle", "sent", "refused", "refresh"}

\* onMounted: a first refresh, the configuration, the interval.
Init ==
  /\ srv \in [enabled : BOOLEAN, on : {FALSE}, src : Kinds, n : {0}]
  /\ shown = [enabled |-> TRUE, on |-> FALSE]
  /\ cfg = "none" /\ slot = FALSE /\ timer = TRUE
  /\ refreshes = [p \in Procs |-> IF p = 1 THEN At("status") ELSE Over]
  /\ configs = {srv.src} /\ op = "idle"

-----------------------------------------------------------------------------
(* The server: other clients, and a child that dies. *)

Changed(s) == srv.n < MaxChanges /\ srv' = [s EXCEPT !.n = @ + 1]

Elsewhere ==
  /\ \/ srv.enabled /\ Changed([srv EXCEPT !.on = ~@])
     \/ Changed([srv EXCEPT !.src = IF @ = "pg" THEN "mysql" ELSE "pg"])
  /\ UNCHANGED <<shown, cfg, slot, timer, refreshes, configs, op>>

-----------------------------------------------------------------------------
(* The page. *)

PollTick ==
  /\ timer
  /\ \E p \in Polls : /\ refreshes[p] = Over
                      /\ \A q \in 1..p - 1 : refreshes[q] # Over
                      /\ refreshes' = [refreshes EXCEPT ![p] = At("status")]
  /\ UNCHANGED <<srv, shown, cfg, slot, timer, configs, op>>

Ends(p) ==
  /\ refreshes' = [refreshes EXCEPT ![p] = Over]
  /\ op' = IF p = Own THEN "idle" ELSE op

\* A module that is off stops the polling.
GotStatus(p) ==
  /\ refreshes[p].at = "status"
  /\ shown' = refreshes[p].saw
  /\ IF shown'.enabled
       THEN refreshes' = [refreshes EXCEPT ![p] = At("stats")] /\ UNCHANGED <<timer, op>>
       ELSE timer' = FALSE /\ Ends(p)
  /\ UNCHANGED <<srv, cfg, slot, configs>>

\* Mutant: the card is left alone when the source is MySQL.
RefreshSlotKeeps(p) ==
  IF cfg = "mysql" THEN Ends(p) /\ UNCHANGED slot
  ELSE refreshes' = [refreshes EXCEPT ![p] = At("slot")] /\ UNCHANGED <<slot, op>>

\* refreshSlot: nothing to ask for MySQL.
RefreshSlot(p) ==
  IF cfg = "mysql" THEN slot' = FALSE /\ Ends(p)
  ELSE refreshes' = [refreshes EXCEPT ![p] = At("slot")] /\ UNCHANGED <<slot, op>>

GotStats(p) ==
  /\ refreshes[p].at = "stats"
  /\ RefreshSlot(p)
  /\ UNCHANGED <<srv, shown, cfg, timer, configs>>

\* The answer of cdcSlot is shown whatever the source has become since.
GotSlot(p) ==
  /\ refreshes[p].at = "slot"
  /\ slot' = refreshes[p].pg
  /\ Ends(p)
  /\ UNCHANGED <<srv, shown, cfg, timer, configs>>

\* The continuation of loadConnConfig, and the watcher of srcIsMySQL.
GotConfig(k) ==
  /\ k \in configs /\ configs' = configs \ {k}
  /\ cfg' = k
  /\ IF (cfg = "mysql") = (k = "mysql")
       THEN UNCHANGED <<slot, refreshes>>
       ELSE IF k = "mysql"
              THEN slot' = FALSE /\ UNCHANGED refreshes
              ELSE refreshes' = [refreshes EXCEPT ![Watch] = At("slot")] /\ UNCHANGED slot
  /\ UNCHANGED <<srv, shown, timer, op>>

\* saveConn, importConn and importFromDS replace the server's connection and load
\* the configuration again.  The imports are offered only while CDC is not shown
\* active, saving is offered always.
SaveConn ==
  /\ cfg # "none" /\ op = "idle"
  /\ \E k \in Kinds : /\ Changed([srv EXCEPT !.src = k])
                      /\ configs' = configs \cup {k}
  /\ UNCHANGED <<shown, cfg, slot, timer, refreshes, op>>

\* The buttons of the status bar: the start (its precheck is module
\* UiCdcPrecheck) while CDC is shown off, the stop while it is shown on.
CallCDC ==
  /\ op = "idle" /\ shown.enabled
  /\ IF srv.enabled /\ srv.on = shown.on
       THEN Changed([srv EXCEPT !.on = ~@]) /\ op' = "sent"
       ELSE op' = "refused" /\ UNCHANGED srv
  /\ UNCHANGED <<shown, cfg, slot, timer, refreshes, configs>>

\* callCDC goes on: a refusal the server words is refreshed after, too; a request
\* that failed only shows its message.
Called ==
  /\ op \in {"sent", "refused"}
  /\ \/ op' = "refresh" /\ refreshes' = [refreshes EXCEPT ![Own] = At("status")]
     \/ op = "refused" /\ op' = "idle" /\ UNCHANGED refreshes
  /\ UNCHANGED <<srv, shown, cfg, slot, timer, configs>>

Next ==
  \/ Elsewhere
  \/ PollTick
  \/ \E p \in Procs : GotStatus(p) \/ GotStats(p) \/ GotSlot(p)
  \/ \E k \in Kinds : GotConfig(k)
  \/ SaveConn
  \/ CallCDC \/ Called

\* The timer fires and requests are answered.
Continues(p) == GotStatus(p) \/ GotStats(p) \/ GotSlot(p)

Fairness ==
  /\ WF_vars(PollTick) /\ WF_vars(Called)
  /\ \A p \in Procs : WF_vars(Continues(p))
  /\ \A k \in Kinds : WF_vars(GotConfig(k))

Spec == Init /\ [][Next]_vars /\ Fairness

-----------------------------------------------------------------------------

\* Refreshes that overlap and overtake each other settle: once the server is left
\* alone the page shows whether CDC is on, a page that knows its source is MySQL
\* shows no replication slot and one that knows it is PostgreSQL does; a page
\* told that CDC is disabled asks no more.
InStep ==
  /\ shown = Seen
  /\ IF srv.enabled THEN cfg = srv.src => (slot <=> srv.src = "pg")
                    ELSE ~timer /\ \A p \in Polls : refreshes[p] = Over
Settles == <>[]InStep

-----------------------------------------------------------------------------
(* Not kept: TLC has a counterexample to this (README.md). *)

\* A switch to MySQL clears the slot card at once (the comment on the watcher of
\* srcIsMySQL).
ClearedAtOnce == cfg = "mysql" => ~slot
=============================================================================
