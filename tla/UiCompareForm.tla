----------------------------- MODULE UiCompareForm -----------------------------
(***************************************************************************)
(* Which tables the comparison page (views/CompareView.vue) compares: the  *)
(* source, its tables, those that are selected, and those with a watermark *)
(* exception of their own, remembered from the last run.  Tables are       *)
(* listed late, by a button that stays enabled.  UiCompareWm has the       *)
(* conditions, UiCompareRun what becomes of the run.                       *)
(* Bounds: MaxEdits changes of the source, one listing of each in flight.  *)
(* Left out: the connection tests, which gate nothing here, the search.    *)
(***************************************************************************)
EXTENDS Naturals, FiniteSets

CONSTANTS
  Tables,  \* for each source, the tables it has
  MaxEdits \* bound: changes of the source

VARIABLES
  source,   \* the source, and how often it was changed
  optionsLoaded,
  available, \* the source availableTables is of; "" while it is empty
  listings, \* the sources whose tables are on their way
  selected, \* selectedTables
  tableWms, \* the tables with an exception
  stored    \* the exceptions the server remembers

vars == <<source, optionsLoaded, available, listings, selected, tableWms, stored>>

Sources == DOMAIN Tables
Names   == UNION {Tables[s] : s \in Sources}

TypeOK ==
  /\ source \in [is : Sources, edits : 0..MaxEdits] /\ optionsLoaded \in BOOLEAN
  /\ available \in Sources \cup {""} /\ listings \subseteq Sources
  /\ selected \subseteq Names /\ tableWms \subseteq Names /\ stored \subseteq Names

Init ==
  /\ source \in [is : Sources, edits : {0}] /\ optionsLoaded = FALSE
  /\ available = "" /\ listings = {} /\ selected = {}
  /\ tableWms = {} /\ stored \in SUBSET Names

\* loadSavedConnection: the form is disabled until it is over.
OptionsLoaded ==
  /\ ~optionsLoaded /\ optionsLoaded' = TRUE
  /\ tableWms' \in {stored, {}}
  /\ UNCHANGED <<source, available, listings, selected, stored>>

\* onSourceTypeChange, the picker, the connection form.
EditSource ==
  /\ optionsLoaded /\ source.edits < MaxEdits
  /\ \E s \in Sources \ {source.is} : source' = [is |-> s, edits |-> source.edits + 1]
  /\ UNCHANGED <<optionsLoaded, available, listings, selected, tableWms, stored>>

\* Mutant: only an emptied list drops exceptions.
KeptByEmpty(s) == IF s = "" THEN {} ELSE tableWms

\* watch(availableTables): the exceptions of tables that are not listed any more go.
Kept(s) == IF s = "" THEN {} ELSE tableWms \cap Tables[s]

\* loadTables empties the list first.
LoadTables ==
  /\ optionsLoaded /\ source.is \notin listings /\ listings' = listings \cup {source.is}
  /\ available' = "" /\ selected' = {} /\ tableWms' = Kept("")
  /\ UNCHANGED <<source, optionsLoaded, stored>>

\* The continuation of loadTables.  Rows stay selected under a list that is
\* replaced by another (reserve-selection); a failure leaves the list.
GotTables(s) ==
  /\ s \in listings /\ listings' = listings \ {s}
  /\ \/ available' = s /\ tableWms' = Kept(s)
     \/ UNCHANGED <<available, tableWms>>
  /\ UNCHANGED <<source, optionsLoaded, selected, stored>>

\* handleTableSelection.
Select(t) ==
  /\ selected' = IF t \in selected THEN selected \ {t} ELSE selected \cup {t}
  /\ UNCHANGED <<source, optionsLoaded, available, listings, tableWms, stored>>

\* saveTwmEntry and clearTwmEntry, from the rows of the list.
ExceptTable(t) ==
  /\ tableWms' = IF t \in tableWms THEN tableWms \ {t} ELSE tableWms \cup {t}
  /\ UNCHANGED <<source, optionsLoaded, available, listings, selected, stored>>

\* startCompare: what was run is remembered (saveCompareParams).
StartCompare ==
  /\ optionsLoaded /\ stored' = tableWms
  /\ UNCHANGED <<source, optionsLoaded, available, listings, selected, tableWms>>

\* The page is left and opened again.
Reopen ==
  /\ optionsLoaded /\ optionsLoaded' = FALSE /\ available' = "" /\ listings' = {}
  /\ selected' = {} /\ tableWms' = {}
  /\ UNCHANGED <<source, stored>>

Next ==
  \/ OptionsLoaded \/ EditSource
  \/ LoadTables \/ \E s \in Sources : GotTables(s)
  \/ available # "" /\ \E t \in Tables[available] : Select(t) \/ ExceptTable(t)
  \/ StartCompare \/ Reopen

Spec == Init /\ [][Next]_vars

-----------------------------------------------------------------------------

\* Under a list of tables there is no exception of a table that is not in it,
\* which nobody could see or clear, whichever list came late (the comment on
\* watch(availableTables)).
ExceptionsListed == available # "" => tableWms \subseteq Tables[available]

-----------------------------------------------------------------------------
(* Not kept: TLC has a counterexample to each of these (README.md). *)

\* The exceptions of tables that are still there survive a reload of the list
\* (the same comment: only when a fresh table load replaced the list).
ExceptionsSurvive ==
  [][\A s \in Sources : GotTables(s) /\ available' = s /\ stored \subseteq Tables[s]
       => stored \subseteq tableWms']_vars

\* What is selected is listed.
SelectedListed == available # "" => selected \subseteq Tables[available]
=============================================================================
