------------------------------- MODULE CdcDdl -------------------------------
(***************************************************************************)
(* DDL replication from PostgreSQL: the event triggers of                  *)
(* internal/cdc/ddl_tracker.go, which log a statement with a SERIAL id in  *)
(* its own transaction, and runDDLPoller of internal/cdc/runner.go, which  *)
(* applies the log in id order on a channel of its own beside the rows.    *)
(* One file holds both cursors.  Tables have columns and rows; a column or *)
(* a row is named by the operation that added it.                          *)
(***************************************************************************)
EXTENDS Integers, Sequences, FiniteSets

CONSTANTS
  Tables,
  MaxOps,      \* bound: operations of the source
  MaxRestarts  \* bound: processes started after the first

VARIABLES
  wal,       \* the source's operations: kind, table, and for a row its columns
  src,       \* the source's tables
  open,      \* statements whose transaction is not committed
  trigger,   \* the event triggers are installed
  ddlLog,    \* pg2tidb_ddl_log: ids of logged statements, committed or not
  poller,    \* "down" without a process, "off" (setup failed), "on", "halted"
  lastID,    \* the poller's cursor and Checkpoint.LastDDLID in memory
  batch,     \* entries FetchNewDDL returned and the poller has yet to handle
  dml,       \* the operation the row stream comes to next
  saved,     \* the checkpoint file: both cursors
  tgt,       \* the target's tables
  missing,   \* Applier.missingTables
  counted,   \* history: rows counted as failed or skipped
  marked,    \* history: entries MarkSkipped was called for
  executed,  \* history: entries the target executed
  late,      \* history: entries committed when the poller was past them, see Reached
  restarts

srcVars == <<wal, src, open>>
logVars == <<srcVars, trigger, ddlLog>>
pollVars == <<poller, lastID, batch>>
rowVars == <<dml, missing, counted>>
vars == <<logVars, pollVars, rowVars, saved, tgt, marked, executed, late, restarts>>

Ops == 1..Len(wal)
NoTable == [here |-> FALSE, cols |-> {}, rows |-> {}]
NewTable == [here |-> TRUE, cols |-> {}, rows |-> {}]
Kinds == {"create", "add", "odd", "rider", "drop", "row"}
IsTable(r) == r.here \in BOOLEAN /\ r.cols \subseteq Ops /\ r.rows \subseteq Ops

TypeOK ==
  /\ \A i \in Ops : /\ wal[i].kind \in Kinds /\ wal[i].table \in Tables
                    /\ wal[i].cols \subseteq Ops
  /\ \A t \in Tables : IsTable(src[t]) /\ IsTable(tgt[t])
  /\ open \subseteq Ops /\ ddlLog \subseteq Ops /\ trigger \in BOOLEAN
  /\ poller \in {"down", "off", "on", "halted"}
  /\ lastID \in 0..Len(wal) /\ batch \subseteq ddlLog
  /\ dml \in 1..Len(wal) + 1
  /\ saved.ddl \in 0..Len(wal) /\ saved.lsn \in 1..Len(wal) + 1
  /\ missing \subseteq Tables /\ counted \subseteq Ops
  /\ marked \subseteq ddlLog /\ executed \subseteq ddlLog /\ late \subseteq ddlLog

\* The migration has copied the tables; the chain is seeded, not yet started.
Init ==
  /\ wal = <<>> /\ open = {} /\ trigger = FALSE /\ ddlLog = {}
  /\ \E some \in SUBSET Tables : src = [t \in Tables |-> IF t \in some THEN NewTable ELSE NoTable]
  /\ tgt = src
  /\ poller = "down" /\ lastID = 0 /\ batch = {} /\ dml = 1
  /\ saved = [lsn |-> 1, ddl |-> 0]
  /\ missing = {} /\ counted = {} /\ marked = {} /\ executed = {}
  /\ late = {} /\ restarts = 0

-----------------------------------------------------------------------------
(* The source and its triggers. *)

Op == Len(wal) + 1

\* A transaction that changes a table keeps the others out of it.
Locked(t) == \E i \in open : wal[i].table = t

\* A statement on t, logged where the triggers are installed.  Its transaction
\* may stay open.
Does(kind, t, table) ==
  /\ Len(wal) < MaxOps /\ ~Locked(t)
  /\ wal' = Append(wal, [kind |-> kind, table |-> t,
                         cols |-> IF kind = "row" THEN src[t].cols ELSE {}])
  /\ src' = [src EXCEPT ![t] = table]
  /\ ddlLog' = IF trigger /\ kind # "row" THEN ddlLog \cup {Op} ELSE ddlLog
  /\ open' \in IF kind = "row" \/ open # {} THEN {open} ELSE {open, open \cup {Op}}
  /\ UNCHANGED <<trigger, pollVars, rowVars, saved, tgt, marked, executed, late, restarts>>

Creates(t) == ~src[t].here /\ Does("create", t, NewTable)
Drops(t)   == src[t].here /\ Does("drop", t, NoTable)
Adds(t)    == src[t].here /\ Does("add", t, [src[t] EXCEPT !.cols = @ \cup {Op}])

\* A statement TiDB does not understand after Transform.
AddsOddly(t) == src[t].here /\ Does("odd", t, [src[t] EXCEPT !.cols = @ \cup {Op}])

\* The same statement is logged once more for a sequence or an index it made.
Rides(t) ==
  /\ wal # <<>> /\ wal[Len(wal)].kind = "add" /\ wal[Len(wal)].table = t
  /\ Does("rider", t, src[t])

InsertsRow(t) == src[t].here /\ Does("row", t, [src[t] EXCEPT !.rows = @ \cup {Op}])

Up == poller # "down"

\* The poller does not come to the entry any more: its cursor, or without a process
\* the saved one, is past it, or a later one is in its hands.
Reached(i) == i <= (IF Up THEN lastID ELSE saved.ddl) \/ \E j \in batch : i < j

Commits ==
  /\ open # {}
  /\ open' = {}
  /\ late' = late \cup {i \in open \cap ddlLog : Reached(i)}
  /\ UNCHANGED <<wal, src, trigger, ddlLog, pollVars, rowVars, saved, tgt, marked, executed, restarts>>

-----------------------------------------------------------------------------
(* The process. *)

\* Run: load the checkpoint, start the stream, setupDDLReplication.  Where the
\* setup fails the process goes on with rows only.
Starts ==
  /\ poller = "down"
  /\ \/ poller' = "on" /\ trigger' = TRUE
     \/ poller' = "off" /\ UNCHANGED trigger
  /\ lastID' = saved.ddl /\ batch' = {}
  /\ dml' = saved.lsn /\ missing' = {}
  /\ UNCHANGED <<srcVars, ddlLog, counted, saved, tgt, marked, executed, late, restarts>>

\* The ticker, and every end that saves: both cursors in one file.
Save == saved' = [lsn |-> dml, ddl |-> lastID]

Ticks ==
  /\ Up /\ poller # "halted"
  /\ Save
  /\ UNCHANGED <<logVars, pollVars, rowVars, tgt, marked, executed, late, restarts>>

\* The process ends: it saves on a signal or a halt, not on a kill or a cancelled
\* context, and teardownDDL removes the triggers if it can.
Ends ==
  /\ Up /\ restarts < MaxRestarts
  /\ Save \/ UNCHANGED saved
  /\ trigger' \in IF poller = "off" THEN {trigger} ELSE {trigger, FALSE}
  /\ poller' = "down" /\ batch' = {} /\ restarts' = restarts + 1
  /\ UNCHANGED <<srcVars, ddlLog, lastID, rowVars, tgt, marked, executed, late>>

-----------------------------------------------------------------------------
(* The DDL poller. *)

Visible == ddlLog \ open

\* FetchNewDDL: WHERE id > lastID ORDER BY id, of what is committed.
Fetches ==
  /\ poller = "on" /\ batch = {}
  /\ \E i \in Visible : i > lastID
  /\ batch' = {i \in Visible : i > lastID}
  /\ UNCHANGED <<logVars, poller, lastID, rowVars, saved, tgt, marked, executed, late, restarts>>

Entry == CHOOSE i \in batch : \A j \in batch : i <= j

\* The entry is done with: the cursor is on it.
Passes ==
  /\ lastID' = Entry
  /\ batch' = batch \ {Entry}
  /\ UNCHANGED poller

\* Mutant: whatever rode on a statement repeats it.
AppliesRiders(i) == TRUE

\* shouldApplyDDL: only the row of the statement's own object.
ShouldApply(i) == wal[i].kind # "rider"

\* A rider's text is the statement before it.
Text(i) == IF wal[i].kind = "rider" THEN i - 1 ELSE i

\* What the target says: IF [NOT] EXISTS makes CREATE and DROP repeatable
\* (makeDDLIdempotent), a missing table (1146) and an unknown syntax (1064) are
\* degradable, a duplicate column (1060) is not (isDegradableError).
Answer(i) ==
  LET t == tgt[wal[i].table]
  IN  CASE wal[Text(i)].kind = "odd"    -> "skip"
        [] wal[Text(i)].kind = "add"    ->
             IF ~t.here THEN "skip" ELSE IF Text(i) \in t.cols THEN "halt" ELSE "done"
        [] wal[Text(i)].kind \in {"create", "drop"} -> "done"

Made(i) ==
  LET t == tgt[wal[i].table]
  IN  CASE wal[Text(i)].kind = "create" -> IF t.here THEN t ELSE NewTable
        [] wal[Text(i)].kind = "drop"   -> NoTable
        [] wal[Text(i)].kind = "add"    -> [t EXCEPT !.cols = @ \cup {Text(i)}]

PassesRider ==
  /\ poller = "on" /\ batch # {} /\ ~ShouldApply(Entry)
  /\ Passes
  /\ UNCHANGED <<logVars, rowVars, saved, tgt, marked, executed, late, restarts>>

\* ExecContext succeeds: the cursor moves in memory, the tables the applier
\* took for missing are tried again (ResetMissingTables).
Executes ==
  /\ poller = "on" /\ batch # {} /\ ShouldApply(Entry) /\ Answer(Entry) = "done"
  /\ tgt' = [tgt EXCEPT ![wal[Entry].table] = Made(Entry)]
  /\ executed' = executed \cup {Entry}
  /\ missing' = {}
  /\ Passes
  /\ UNCHANGED <<logVars, dml, counted, saved, marked, late, restarts>>

\* A degradable error: MarkSkipped, and on.
Skips ==
  /\ poller = "on" /\ batch # {} /\ ShouldApply(Entry) /\ Answer(Entry) = "skip"
  /\ marked' = marked \cup {Entry}
  /\ Passes
  /\ UNCHANGED <<logVars, rowVars, saved, tgt, executed, late, restarts>>

\* Any other error is reported to Run, which ends: the duplicate column, or a lost
\* connection, a lock timeout and the like, whatever the statement.  The target may
\* have executed a statement whose answer is lost.
Halts ==
  /\ poller = "on" /\ batch # {} /\ ShouldApply(Entry)
  /\ poller' = "halted"
  /\ \/ UNCHANGED <<tgt, executed>>
     \/ /\ Answer(Entry) = "done"
        /\ tgt' = [tgt EXCEPT ![wal[Entry].table] = Made(Entry)]
        /\ executed' = executed \cup {Entry}
  /\ UNCHANGED <<logVars, lastID, batch, rowVars, saved, marked, late, restarts>>

-----------------------------------------------------------------------------
(* The row stream, in WAL order (CdcApplier is the detail). *)

AtRow == poller \in {"off", "on"} /\ dml <= Len(wal) /\ dml \notin open
Row == wal[dml]

\* Operations that are no row are not in the stream.
Streams ==
  /\ AtRow /\ Row.kind # "row"
  /\ dml' = dml + 1
  /\ UNCHANGED <<logVars, pollVars, missing, counted, saved, tgt, marked, executed, late, restarts>>

AppliesRow ==
  /\ AtRow /\ Row.kind = "row" /\ Row.table \notin missing
  /\ tgt[Row.table].here /\ Row.cols \subseteq tgt[Row.table].cols
  /\ tgt' = [tgt EXCEPT ![Row.table].rows = @ \cup {dml}]
  /\ dml' = dml + 1
  /\ UNCHANGED <<logVars, pollVars, missing, counted, saved, marked, executed, late, restarts>>

\* A missing table outlasts its retries (1146) or is known to be missing: the
\* row is skipped; an unknown column (1054) fails it at once.  Both are counted.
CountsRow ==
  /\ AtRow /\ Row.kind = "row"
  /\ \/ Row.table \in missing /\ UNCHANGED missing
     \/ ~tgt[Row.table].here /\ missing' = missing \cup {Row.table}
     \/ /\ tgt[Row.table].here /\ ~(Row.cols \subseteq tgt[Row.table].cols)
        /\ UNCHANGED missing
  /\ counted' = counted \cup {dml}
  /\ dml' = dml + 1
  /\ UNCHANGED <<logVars, pollVars, saved, tgt, marked, executed, late, restarts>>

Next ==
  \/ \E t \in Tables : \/ Creates(t) \/ Drops(t) \/ Adds(t) \/ AddsOddly(t) \/ Rides(t)
                       \/ InsertsRow(t)
  \/ Commits \/ Starts \/ Ticks \/ Ends
  \/ Fetches \/ PassesRider \/ Executes \/ Skips \/ Halts
  \/ Streams \/ AppliesRow \/ CountsRow

Spec == Init /\ [][Next]_vars

-----------------------------------------------------------------------------
(* Properties. *)

Of(t) == {i \in Ops : wal[i].table = t}
Statements(t) == {i \in Of(t) : wal[i].kind # "row"}

\* What the target does not get to see: a statement made while no trigger was
\* installed, one TiDB does not understand, and one committed too late for the
\* poller, which never came back to it.
Unseen(t) ==
  \/ \E i \in Statements(t) : i \notin ddlLog \/ wal[i].kind = "odd"
  \/ \E i \in Statements(t) : i \in late \ (executed \cup marked)

HandledAll == poller = "on" /\ open = {} /\ \A i \in ddlLog : i <= lastID

\* When the poller is through its log, a table of which nothing went unseen has
\* the columns it has in the source: no restart that applies statements again,
\* no skipped error and no rider leaves another schema behind.
SchemaFollows ==
  HandledAll =>
    \A t \in Tables : Unseen(t) \/
      (tgt[t].here = src[t].here /\ tgt[t].cols = src[t].cols)

\* The cursor, in memory and in the file, passes no statement the target has neither
\* executed nor refused, but for those committed late: over halts, lost answers,
\* kills and the two channels' one file, nothing in the log is stepped over.
NoneSteppedOver ==
  \A i \in ddlLog \ open :
    i <= (IF Up THEN lastID ELSE saved.ddl) /\ ShouldApply(i) => i \in executed \cup marked \cup late

\* Error 1060 halts the process at every restart.  A column the target has already
\* was added by that very statement, whose cursor was not saved or whose answer was
\* lost: no rider and no order of restarts makes another statement meet it.
DuplicateIsReplay ==
  batch # {} /\ ShouldApply(Entry) /\ Answer(Entry) = "halt" => Entry \in executed

Recreated(t) == \E i, j \in Of(t) : i < j /\ wal[i].kind = "drop" /\ wal[j].kind = "create"

\* Rows and statements come on two channels.  When both are through, a table
\* whose name was not reused holds the source's rows but for those that were
\* counted as failed or skipped: the order between the two may cost rows, not
\* without a count.
RowsFollow ==
  HandledAll /\ dml > Len(wal) =>
    \A t \in Tables :
      \/ Unseen(t) \/ Recreated(t)
      \/ src[t].rows \ counted \subseteq tgt[t].rows /\ tgt[t].rows \subseteq src[t].rows

=============================================================================
