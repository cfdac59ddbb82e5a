----------------------------- MODULE UiCdcPrecheck -----------------------------
(***************************************************************************)
(* The startup precheck of the CDC page (views/CDCView.vue): the           *)
(* connection tab, whose saving and imports replace the server's           *)
(* connection and check it again, the precheck tab, which a failing result *)
(* brings to the front, and the start the result gates.                    *)
(* Several prechecks may be under way: the one of onMounted, those of the  *)
(* connection tab, of the reset, of the no-PK fix and of the button.  The  *)
(* server judges when it gets to it, the answer is taken at any later time.*)
(***************************************************************************)
EXTENDS Naturals

CONSTANTS
  MaxRevs,    \* bound: connections saved
  MaxChecks   \* bound: prechecks under way together

VARIABLES
  conf,       \* the server's connection, and whether a check of it fails now
  pre,        \* precheck: the connection judged and the verdict; None before
  err,        \* precheckError is not empty
  checks,     \* the prechecks under way
  checking,   \* the flag the button waits for
  editing,    \* editingConn
  chain,      \* saveConn, import: "idle", "sent", "config" (loadConnConfig), "check"
  tab,        \* activeTab
  failActive, \* precheckFailActive
  userLeft    \* userLeftPrecheckTab

vars == <<conf, pre, err, checks, checking, editing, chain, tab, failActive, userLeft>>

Conf   == [rev : 1..MaxRevs, fails : BOOLEAN]
None   == [rev |-> 0, fails |-> FALSE]
Tabs   == {"overview", "conn", "precheck"}
Slots  == 1..MaxChecks
Check(at, own, saw) == [at |-> at, own |-> own, saw |-> saw]   \* own: of the chain
Over   == Check("over", FALSE, None)

TypeOK ==
  /\ conf \in Conf /\ pre \in Conf \cup {None}
  /\ checks \in [Slots -> [at : {"over", "asked", "answered", "failed"}, own : BOOLEAN,
                        saw : Conf \cup {None}]]
  /\ {err, checking, editing, failActive, userLeft} \subseteq BOOLEAN
  /\ chain \in {"idle", "sent", "config", "check"} /\ tab \in Tabs

\* onMounted runs a precheck.
Init ==
  /\ conf \in {[rev |-> 1, fails |-> b] : b \in BOOLEAN}
  /\ pre = None /\ err = FALSE
  /\ checks = [s \in Slots |-> IF s = 1 THEN Check("asked", FALSE, None) ELSE Over] /\ checking = TRUE
  /\ editing = FALSE /\ chain = "idle"
  /\ tab = "overview" /\ failActive = FALSE /\ userLeft = FALSE

-----------------------------------------------------------------------------
(* The server. *)

\* The databases change under the checks.
Drift ==
  /\ conf' = [conf EXCEPT !.fails = ~@]
  /\ UNCHANGED <<pre, err, checks, checking, editing, chain, tab, failActive, userLeft>>

CheckServed(s) ==
  /\ checks[s].at = "asked"
  /\ checks' \in {[checks EXCEPT ![s] = Check("answered", @.own, conf)],
                  [checks EXCEPT ![s] = Check("failed", @.own, None)]}
  /\ UNCHANGED <<conf, pre, err, checking, editing, chain, tab, failActive, userLeft>>

-----------------------------------------------------------------------------
(* The page. *)

\* runPrecheck.
RunPrecheck(own) ==
  \E s \in Slots :
    /\ checks[s] = Over /\ \A r \in 1..s - 1 : checks[r] # Over
    /\ checks' = [checks EXCEPT ![s] = Check("asked", own, None)] /\ checking' = TRUE

\* Its button, which the result shown carries; the no-PK fix and the reset of the
\* checkpoint, offered there too, end in a precheck as well.
Recheck ==
  /\ tab = "precheck" /\ pre # None /\ ~checking
  /\ RunPrecheck(FALSE)
  /\ UNCHANGED <<conf, pre, err, editing, chain, tab, failActive, userLeft>>

\* Mutant: every failing result takes the operator to its tab.
WatchPrecheckAlways(p) ==
  IF p.fails THEN tab' = "precheck" /\ failActive' = TRUE /\ UNCHANGED userLeft
             ELSE failActive' = FALSE /\ userLeft' = FALSE /\ UNCHANGED tab

\* watch(precheck).
WatchPrecheck(p) ==
  IF ~p.fails
    THEN failActive' = FALSE /\ userLeft' = FALSE /\ UNCHANGED tab
    ELSE IF failActive \/ userLeft
      THEN UNCHANGED <<failActive, userLeft, tab>>
      ELSE failActive' = TRUE /\ tab' = "precheck" /\ UNCHANGED userLeft

\* The continuation of runPrecheck, and of the save it was part of; a request
\* that failed leaves the result and says so.
GotCheck(s) ==
  /\ checks[s].at \in {"answered", "failed"}
  /\ checks' = [checks EXCEPT ![s] = Over] /\ checking' = FALSE
  /\ \/ /\ checks[s].at = "answered" /\ pre' = checks[s].saw /\ err' = FALSE
        /\ WatchPrecheck(checks[s].saw)
     \/ /\ checks[s].at = "failed" /\ err' = TRUE
        /\ UNCHANGED <<pre, failActive, userLeft, tab>>
  /\ chain' = IF checks[s].own THEN "idle" ELSE chain
  /\ UNCHANGED <<conf, editing>>

\* A click on a tab, and watch(activeTab).
PickTab(t) ==
  /\ t # tab /\ tab' = t
  /\ userLeft' = (userLeft \/ t # "precheck")
  /\ UNCHANGED <<conf, pre, err, checks, checking, editing, chain, failActive>>

StartEdit ==
  /\ tab = "conn" /\ ~editing /\ editing' = TRUE
  /\ UNCHANGED <<conf, pre, err, checks, checking, chain, tab, failActive, userLeft>>

CancelEdit ==
  /\ editing /\ editing' = FALSE
  /\ UNCHANGED <<conf, pre, err, checks, checking, chain, tab, failActive, userLeft>>

\* saveConn (while editing), importConn and importFromDS (while not): the server
\* has the connection before the answer is here.
SaveConn ==
  /\ tab = "conn" /\ chain = "idle" /\ conf.rev < MaxRevs
  /\ \E b \in BOOLEAN : conf' = [rev |-> conf.rev + 1, fails |-> b]
  /\ chain' = "sent"
  /\ UNCHANGED <<pre, err, checks, checking, editing, tab, failActive, userLeft>>

Saved ==
  /\ chain = "sent" /\ chain' = "config" /\ editing' = FALSE
  /\ UNCHANGED <<conf, pre, err, checks, checking, tab, failActive, userLeft>>

\* loadConnConfig, answered or not, goes on to the precheck.
ConfigLoaded ==
  /\ chain = "config" /\ chain' = "check"
  /\ RunPrecheck(TRUE)
  /\ UNCHANGED <<conf, pre, err, editing, tab, failActive, userLeft>>

Next ==
  \/ Drift
  \/ \E s \in Slots : CheckServed(s) \/ GotCheck(s)
  \/ Recheck
  \/ \E t \in Tabs : PickTab(t)
  \/ StartEdit \/ CancelEdit \/ SaveConn \/ Saved \/ ConfigLoaded

Spec == Init /\ [][Next]_vars

-----------------------------------------------------------------------------

\* precheckPassed: the start is offered.
StartOffered == pre # None /\ ~pre.fails

\* The precheck tab shows its card, with the banner of a failed request in it.
CardOnScreen == pre # None

\* Only the change from no failure to a failure brings the tab to the front: in
\* one failing episode the operator who left it is never dragged back (the
\* comment on precheckFailActive).
DragsOnce == (\E s \in Slots : GotCheck(s)) => (tab' = tab \/ ~pre.fails)
NeverDraggedBack == [][DragsOnce]_vars

-----------------------------------------------------------------------------
(* Not kept: TLC has a counterexample to each of these (README.md). *)

\* A failing precheck activates its tab (the same comment).
FailIsShown == [][~pre.fails /\ pre'.fails => tab' = "precheck"]_vars

\* The precheck gates the start: what passed is the connection CDC starts with.
GateIsCurrent == StartOffered => pre.rev = conf.rev

\* A failed precheck request is never swallowed: its banner is on the page.
FailureOnScreen == err => CardOnScreen
=============================================================================
