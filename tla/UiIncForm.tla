------------------------------- MODULE UiIncForm -------------------------------
(***************************************************************************)
(* The dialog of a watermark job (views/IncrementalView.vue): the tables   *)
(* configured one by one, the batch that shares one watermark column, and  *)
(* the suggestion that fills the batch and lists what it cannot cover as   *)
(* exceptions.  Sources are ever chosen anew, suggestions and checks are   *)
(* answered at any time after.  A row with a column is complete; of a      *)
(* table's columns only whether it has the shared one matters.  The        *)
(* suggestion of a source covers the tables that have it.  Bound: one      *)
(* suggestion or one check is in flight.                                   *)
(* Left out: initial watermarks, key warnings, the list of tables.         *)
(***************************************************************************)
EXTENDS Naturals, Sequences, FiniteSets, SequencesExt

CONSTANTS
  Tables,   \* names of tables
  Has,      \* for each source, the tables that have the shared column
  MaxRows   \* bound: rows

VARIABLES
  source,   \* form.source_ref; "" for none
  rows,     \* form.tables
  batch,    \* batchTables, while batchMode is on
  column,   \* batchColumn is chosen
  preview,  \* batchPreview: for each table "unchecked", "ok" or "missing"
  mode,     \* batchMode
  asked,    \* the source suggestWatermark was asked for, then answered; "" for none
  checked,  \* the request of columnsBatch in flight: the source and tables
  seen,     \* history: the source the check in the preview was of; "" for none
  saved     \* the last job sent: "none", its batch "checked" at its source, or "unchecked"

vars == <<source, rows, batch, column, preview, mode, asked, checked, seen, saved>>

Sources == DOMAIN Has
Row     == [table : Tables \cup {""}, column : BOOLEAN, auto : BOOLEAN]
NoCheck == [source |-> "", tables |-> {}]
Unchecked == [t \in Tables |-> "unchecked"]

TypeOK ==
  /\ source \in Sources \cup {""} /\ asked \in Sources \cup {""}
  /\ rows \in BoundedSeq(Row, MaxRows)
  /\ batch \subseteq Tables /\ {column, mode} \subseteq BOOLEAN
  /\ preview \in [Tables -> {"unchecked", "ok", "missing"}]
  /\ checked \in [source : Sources \cup {""}, tables : SUBSET Tables]
  /\ seen \in Sources \cup {""} /\ saved \in {"none", "checked", "unchecked"}

\* openCreate.
Init ==
  /\ source = "" /\ rows = <<>> /\ batch = {} /\ column = FALSE /\ preview = Unchecked
  /\ mode = FALSE /\ asked = "" /\ checked = NoCheck /\ seen = "" /\ saved = "none"

-----------------------------------------------------------------------------

Named(s) == {s[i].table : i \in DOMAIN s}
Manual   == SelectSeq(rows, LAMBDA r : ~r.auto)

\* watch(form.source_ref) and resetTablePicker.
PickSource ==
  /\ source' \in Sources \ {source}
  /\ rows' = Manual
  /\ batch' = {} /\ column' = FALSE /\ preview' = Unchecked
  /\ UNCHANGED <<mode, asked, checked, seen, saved>>

SwitchMode ==
  /\ mode' = ~mode
  /\ UNCHANGED <<source, rows, batch, column, preview, asked, checked, seen, saved>>

\* addRow: not while a row has no name.
AddRow ==
  /\ Len(rows) < MaxRows /\ "" \notin Named(rows)
  /\ rows' = Append(rows, [table |-> "", column |-> FALSE, auto |-> FALSE])
  /\ UNCHANGED <<source, batch, column, preview, mode, asked, checked, seen, saved>>

RemoveRow(i) ==
  /\ rows' = RemoveAt(rows, i)
  /\ UNCHANGED <<source, batch, column, preview, mode, asked, checked, seen, saved>>

\* onTableChanged: a name another row has is taken back.
ChangeTable(i) ==
  /\ \E t \in Tables :
       rows' = [rows EXCEPT ![i] = [column |-> FALSE, auto |-> FALSE,
                  table |-> IF \E j \in DOMAIN rows \ {i} : rows[j].table = t THEN "" ELSE t]]
  /\ UNCHANGED <<source, batch, column, preview, mode, asked, checked, seen, saved>>

\* onColumnPicked: the row becomes the user's.
PickRowColumn(i) ==
  /\ ~rows[i].column /\ rows' = [rows EXCEPT ![i].column = TRUE, ![i].auto = FALSE]
  /\ UNCHANGED <<source, batch, column, preview, mode, asked, checked, seen, saved>>

\* watch(batchTables): the checks of the tables that stay are kept.
Select(b) ==
  /\ batch' = b
  /\ preview' = [t \in Tables |-> IF t \in b THEN preview[t] ELSE "unchecked"]
  /\ column' = (column /\ b # {})

PickBatch ==
  /\ mode /\ source # "" /\ \E b \in SUBSET Tables : b # batch /\ Select(b)
  /\ UNCHANGED <<source, rows, mode, asked, checked, seen, saved>>

\* A column all the checked tables have is offered.
PickColumn ==
  /\ mode /\ ~column /\ \E t \in batch : preview[t] = "ok"
  /\ \A t \in batch : preview[t] # "missing"
  /\ column' = TRUE
  /\ UNCHANGED <<source, rows, batch, preview, mode, asked, checked, seen, saved>>

\* batchMoveToSingle.
MoveToSingle(t) ==
  /\ mode /\ t \in batch /\ t \notin Named(rows) /\ Len(rows) < MaxRows
  /\ rows' = Append(rows, [table |-> t, column |-> FALSE, auto |-> FALSE])
  /\ Select(batch \ {t})
  /\ UNCHANGED <<source, mode, asked, checked, seen, saved>>

CheckBatch ==
  /\ mode /\ source # "" /\ batch # {} /\ asked = "" /\ checked = NoCheck
  /\ checked' = [source |-> source, tables |-> batch]
  /\ UNCHANGED <<source, rows, batch, column, preview, mode, asked, seen, saved>>

\* The continuation of checkBatch: the answer is the preview.
Checked ==
  /\ checked # NoCheck /\ checked' = NoCheck
  /\ preview' = [t \in Tables |-> IF t \notin checked.tables THEN "unchecked"
                                  ELSE IF t \in Has[checked.source] THEN "ok" ELSE "missing"]
  /\ seen' = checked.source
  /\ UNCHANGED <<source, rows, batch, column, mode, asked, saved>>

AutoSuggest ==
  /\ mode /\ source # "" /\ asked = "" /\ checked = NoCheck /\ asked' = source
  /\ UNCHANGED <<source, rows, batch, column, preview, mode, checked, seen, saved>>

\* Mutant: only the tables just selected are skipped.
ExceptsByBatch(s) == (Tables \ Has[s]) \ Has[s]

\* syncAutoExceptRows lists what the suggestion cannot cover and nothing else has.
Excepts(s) == (Tables \ Has[s]) \ Named(Manual)

\* autoSuggestWM goes on to applyWMCandidate: the batch, the exceptions, a check.
Suggested ==
  /\ asked # "" /\ asked' = ""
  /\ Len(Manual) + Cardinality(Excepts(asked)) <= MaxRows
  /\ batch' = Has[asked] /\ column' = TRUE
  /\ rows' = Manual \o SetToSeq({[table |-> t, column |-> FALSE, auto |-> TRUE] : t \in Excepts(asked)})
  /\ preview' = [t \in Tables |-> IF t \in Has[asked] THEN preview[t] ELSE "unchecked"]
  /\ checked' = IF Has[asked] # {} THEN [source |-> source, tables |-> Has[asked]] ELSE NoCheck
  /\ UNCHANGED <<source, mode, seen, saved>>

Body ==
  (IF mode THEN SetToSeq({[table |-> t, column |-> column] : t \in batch}) ELSE <<>>)
    \o [i \in DOMAIN rows |-> [table |-> rows[i].table, column |-> rows[i].column]]

Sound(b) ==
  /\ b # <<>> /\ IsInjective([i \in DOMAIN b |-> b[i].table])
  /\ \A i \in DOMAIN b : b[i].table # "" /\ b[i].column

\* save: what it refuses.
Acceptable ==
  /\ mode => batch # {} /\ column /\ \A t \in batch : preview[t] = "ok"
  /\ Sound(Body)

Save ==
  /\ source # "" /\ Acceptable
  /\ saved' = IF mode /\ seen # source THEN "unchecked" ELSE "checked"
  /\ UNCHANGED <<source, rows, batch, column, preview, mode, asked, checked, seen>>

Next ==
  \/ PickSource \/ SwitchMode
  \/ AddRow \/ \E i \in DOMAIN rows : RemoveRow(i) \/ ChangeTable(i) \/ PickRowColumn(i)
  \/ PickBatch \/ PickColumn \/ \E t \in Tables : MoveToSingle(t)
  \/ CheckBatch \/ Checked \/ AutoSuggest \/ Suggested
  \/ Save

Spec == Init /\ [][Next]_vars

-----------------------------------------------------------------------------

\* Whatever order rows come in, typed, moved from the batch or listed by the
\* suggestion, no table has two.
OneRowEach ==
  \A i, j \in DOMAIN rows : rows[i].table = rows[j].table /\ rows[i].table # "" => i = j

-----------------------------------------------------------------------------
(* Not kept: TLC has a counterexample to this (README.md). *)

\* One source's suggestion does not leak into another's form (the comment on the
\* watcher of source_ref).
NoLeak == [][(batch' # batch /\ asked' # asked) => asked = source]_vars

\* A batch is saved only when its tables have passed the check (save,
\* IncrementalView.vue), which is of the job's source.
CheckedHere == saved # "unchecked"
=============================================================================
