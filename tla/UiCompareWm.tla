----------------------------- MODULE UiCompareWm -----------------------------
(***************************************************************************)
(* The watermark conditions of the comparison page (views/CompareView.vue):*)
(* the global group, the exception of one table, what the page shows for   *)
(* the table, the request it sends and what the engine makes of it         *)
(* (internal/validator/wmfilter.go).  The page resolves the conditions a   *)
(* second time, on fields the request does not all carry.                  *)
(* A field is empty or filled; of a value only its shape matters.  Filling *)
(* in a group is one step: any content the controls accept.  The page is   *)
(* left only while nothing it asked for but the columns is on its way.     *)
(***************************************************************************)
EXTENDS Naturals

VARIABLES
  card,      \* form.mode = 'watermark'
  wm,        \* wmConfig
  entry,     \* tableWms[t]; Off when absent
  cands,     \* the suggested columns, with their types: "none", "asked", "known"
  confirmed, \* what the pre-run dialog lists for the table; <<>> when it is not open
  starting,  \* the request on its way: "no", "same" as the fields, or they are "edited"
  options    \* what saveCompareParams stored, and whether it is what ran last

vars == <<card, wm, entry, cands, confirmed, starting, options>>

Columns == {"", "ts", "num"}          \* none, a datetime column, an integer column
Shapes  == {"", "date", "int"}        \* what a typed value looks like
Group   == [col : Columns, value : Shapes, from : BOOLEAN, to : BOOLEAN, range : BOOLEAN]
Off     == [col |-> "", value |-> "", from |-> FALSE, to |-> FALSE, range |-> FALSE]
Full    == <<"full">>

-----------------------------------------------------------------------------
(* The page's resolution: exception, then global group, then the whole table. *)

\* twmActive and globalWmActive.
Active(g) == g.col # "" /\ (g.value # "" \/ (g.from /\ g.to))

\* wmCondShort.
Condition(g) == <<g.col, IF g.range /\ g.from /\ g.to THEN "range" ELSE "value">>

\* wmStateFor.
Shown ==
  IF Active(entry) THEN <<"override", Condition(entry)>>
  ELSE IF card /\ Active(wm) THEN <<"global", Condition(wm)>> ELSE Full

-----------------------------------------------------------------------------
(* The request, and the engine's resolution of it. *)

\* Mutant: every filled field is sent.
SentAll(g) == g

\* One form or the other, by the range toggle.
Sent(g) ==
  IF g.range THEN [g EXCEPT !.value = ""] ELSE [g EXCEPT !.from = FALSE, !.to = FALSE]

Request ==
  [entry |-> IF Active(entry) THEN Sent(entry) ELSE Off,
   wm    |-> IF card THEN Sent(wm) ELSE Off]

\* wmArgs: a full interval wins over a value.
Applied(g) == <<g.col, IF g.from /\ g.to THEN "range" ELSE "value">>

\* wmFilterFor.
Engine(r) ==
  IF Active(r.entry) THEN <<"override", Applied(r.entry)>>
  ELSE IF Active(r.wm) THEN <<"global", Applied(r.wm)>> ELSE Full

-----------------------------------------------------------------------------

\* wmKindInferred: by the type of a suggested column, else by the value's shape.
Eligible(g, known) == IF known /\ g.col # "" THEN g.col = "ts" ELSE g.value = "date"

\* watch(wmRangeEligible): only a change to ineligible leaves the range.
Watched(g, known) ==
  IF Eligible(wm, cands = "known") /\ ~Eligible(g, known) THEN [g EXCEPT !.range = FALSE] ELSE g

\* The controls: an interval's fields only while the range is on, its toggle
\* only while the column is eligible.
Edits(g) ==
  /\ g.range # wm.range => Eligible(wm, cands = "known") /\ [g EXCEPT !.range = wm.range] = wm
  /\ wm.range /\ g.range => g.value = wm.value
  /\ ~wm.range => g.from = wm.from /\ g.to = wm.to

\* validateWmValue.
ValidGlobal == wm.col # "" /\ (IF wm.range THEN wm.from /\ wm.to ELSE wm.value # "")

\* validateTwmEntry.
ValidEntry(g) == g.col # "" /\ (IF g.range THEN g.from /\ g.to ELSE g.value # "")

\* What applyCompareOptions makes of a stored group.
Restored(g) == [g EXCEPT !.range = g.from /\ g.to]

Init ==
  /\ card = FALSE /\ wm = Off /\ entry = Off /\ cands = "none"
  /\ confirmed = <<>> /\ starting = "no"
  /\ options = [entry |-> Off, wm |-> Off, ran |-> FALSE]

\* The dialog is modal: with it open only answers come in.
Editable == confirmed = <<>>

\* A field is edited.
Edited == starting' = IF starting = "no" THEN "no" ELSE "edited"

PickMode ==
  /\ Editable /\ card' \in BOOLEAN
  /\ Edited /\ UNCHANGED <<wm, entry, cands, confirmed, options>>

EditGlobal ==
  /\ Editable /\ card
  /\ \E g \in Group : Edits(g) /\ wm' = Watched(g, cands = "known")
  /\ Edited /\ UNCHANGED <<card, entry, cands, confirmed, options>>

LoadWmColumns ==
  /\ Editable /\ card /\ cands = "none" /\ cands' = "asked"
  /\ UNCHANGED <<card, wm, entry, confirmed, starting, options>>

\* The continuation of loadWmColumns picks the best column only when none is chosen.
GotWmColumns ==
  /\ cands = "asked" /\ cands' = "known"
  /\ \E c \in {"ts", "num"} :
       wm' = Watched(IF wm.col = "" THEN [wm EXCEPT !.col = c] ELSE wm, TRUE)
  /\ Edited /\ UNCHANGED <<card, entry, confirmed, options>>

\* The editor dialog: saveTwmEntry and clearTwmEntry.
SaveTwm ==
  /\ Editable
  /\ \E g \in Group : ValidEntry(g) /\ g.from = g.to /\ g.value # "int" /\ (g.range => g.col = "ts")
                   /\ entry' = g
  /\ Edited /\ UNCHANGED <<card, wm, cands, confirmed, options>>

ClearTwm ==
  /\ Editable /\ entry' = Off
  /\ Edited /\ UNCHANGED <<card, wm, cands, confirmed, options>>

\* startCompare: with an active exception, the table's or another's, it first lists
\* what every table will be compared by.
Confirm ==
  /\ Editable /\ starting = "no" /\ confirmed' = Shown
  /\ UNCHANGED <<card, wm, entry, cands, starting, options>>

\* The user, or the validation after the dialog, sends the run back.
Refuse ==
  /\ confirmed # <<>> /\ confirmed' = <<>>
  /\ UNCHANGED <<card, wm, entry, cands, starting, options>>

\* Then it validates and sends.
Runs == (Active(entry) => confirmed # <<>>) /\ (card => ValidGlobal)

Run ==
  /\ Runs /\ starting = "no" /\ starting' = "same"
  /\ confirmed' = <<>>
  /\ UNCHANGED <<card, wm, entry, cands, options>>

\* The answer: saveCompareParams stores the fields as they are now.
Started ==
  /\ starting # "no" /\ starting' = "no"
  /\ options' = [entry |-> Request.entry, wm |-> Request.wm, ran |-> starting = "same"]
  /\ UNCHANGED <<card, wm, entry, cands, confirmed>>

StartFails ==
  /\ starting # "no" /\ starting' = "no"
  /\ UNCHANGED <<card, wm, entry, cands, confirmed, options>>

\* The page is left and opened again: loadSavedConnection restores the options.
Reopen ==
  /\ Editable /\ starting = "no"
  /\ card' = (options.wm # Off) /\ wm' = Restored(options.wm)
  /\ entry' = Restored(options.entry) /\ cands' = "none"
  /\ UNCHANGED <<confirmed, starting, options>>

Next ==
  \/ PickMode \/ EditGlobal \/ LoadWmColumns \/ GotWmColumns
  \/ SaveTwm \/ ClearTwm
  \/ Confirm \/ Refuse \/ Run \/ Started \/ StartFails
  \/ Reopen

Spec == Init /\ [][Next]_vars

TypeOK ==
  /\ card \in BOOLEAN /\ cands \in {"none", "asked", "known"}
  /\ {wm, entry, options.wm, options.entry} \subseteq Group
  /\ starting \in {"no", "same", "edited"}

-----------------------------------------------------------------------------

\* Whenever a run may be sent, the engine will compare the rows the page shows for
\* the table: no drift between what is displayed and what is executed (the
\* comments on tableWms and wmStateFor).
RunsWhatWasShown == Runs => Engine(Request) = Shown

\* Opening the page again shows what the engine ran last, unless fields were edited
\* while that request was on its way.
Restores == (Reopen /\ options.ran) => Shown' = Engine(options)
RestoresWhatRan == [][Restores]_vars

-----------------------------------------------------------------------------
(* Not kept: TLC has a counterexample to this (README.md). *)

\* The range is on only where its toggle is offered: no way back is ever missing
\* (the comment on the watcher of wmRangeEligible).
NeverStuckInRange == wm.range => Eligible(wm, cands = "known")

\* The dialog discloses every table's effective watermark before the task starts
\* (the comment on confirmTableWmsBeforeRun).
AnnouncedRuns == [][Run /\ confirmed # <<>> => confirmed = Shown]_vars

\* The parameters stored are those of the run that was started (the comment on
\* saveCompareParams).
StoresWhatRan == [][Started => starting = "same"]_vars
=============================================================================
