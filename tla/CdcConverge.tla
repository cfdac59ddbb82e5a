---------------------------- MODULE CdcConverge ----------------------------
(***************************************************************************)
(* What the statements of internal/cdc/transformer.go leave in a table of  *)
(* the target.  The source runs row operations; each becomes an event with *)
(* the images pgoutput sends; the table's worker applies them one by one   *)
(* (CdcApplier.TableOrder), and a restart applies a tail of them again.    *)
(* A row is a large column t and one other column v; a value is the number *)
(* of the operation that wrote it.                                         *)
(***************************************************************************)
EXTENDS Integers, Sequences

CONSTANTS
  Keys,       \* primary keys
  Strategies, \* BatchConfig.ConflictStrategy: "replace", "insert_ignore", "upsert", "skip"
  MaxOps,     \* bound: operations of the source
  MaxRewinds  \* bound: restarts; one event outlives its retries

NoKey == "no key"
Unchanged == -1   \* pgoutput 'u': a large value that did not change is not sent
Null == -2        \* SQL NULL
NoRow == [v |-> -3, t |-> -3]

VARIABLES
  setup,    \* the conflict strategy, and the table's replica identity: "default" or "full"
  src,      \* the source's rows
  log,      \* its operations, as CDCEvents
  next,     \* the event the worker applies next
  tgt,      \* the target's rows
  lost,     \* history: keys of the event that outlived its retries
  rewinds   \* restarts so far

vars == <<setup, src, log, next, tgt, lost, rewinds>>

Row == [v : Nat, t : Nat]

TypeOK ==
  /\ setup \in [strategy : Strategies, identity : {"default", "full"}]
  /\ src \in [Keys -> Row \cup {NoRow}]
  /\ log \in Seq([kind : {"insert", "update", "delete", "truncate"},
                  key : Keys \cup {NoKey}, old : Keys \cup {NoKey},
                  before : Row \cup {NoRow},
                  cols : [v : Nat, t : Nat \cup {Unchanged}] \cup {NoRow}])
  /\ next \in 1..Len(log) + 1
  /\ tgt \in [Keys -> Row \cup {NoRow}]
  /\ lost \subseteq Keys
  /\ rewinds \in Nat

\* The full load has brought the rows of the chain's start to the target.
Init ==
  /\ setup \in [strategy : Strategies, identity : {"default", "full"}]
  /\ \E some \in SUBSET Keys :
       src = [k \in Keys |-> IF k \in some THEN [v |-> 0, t |-> 0] ELSE NoRow]
  /\ tgt = src
  /\ log = <<>> /\ next = 1 /\ lost = {} /\ rewinds = 0

-----------------------------------------------------------------------------
(* The source: a statement on one row, or TRUNCATE. *)

Op == Len(log) + 1
Rows(of) == {k \in Keys : of[k] # NoRow}

\* The old image of a row: all of it under REPLICA IDENTITY FULL, else its key
\* where the key changes or the row goes.
Before(k) == IF setup.identity = "full" THEN src[k] ELSE NoRow
OldKey(k, new) == IF setup.identity = "full" \/ new # k THEN k ELSE NoKey

Writes(e, rows) ==
  /\ Len(log) < MaxOps
  /\ log' = Append(log, e)
  /\ src' = rows
  /\ UNCHANGED <<setup, next, tgt, lost, rewinds>>

SourceInserts ==
  \E k \in Keys \ Rows(src) :
    LET row == [v |-> Op, t |-> Op]
    IN  Writes([kind |-> "insert", key |-> k, old |-> NoKey, before |-> NoRow, cols |-> row],
               [src EXCEPT ![k] = row])

\* An update may move the row to a free key and may leave t as it is.
SourceUpdates ==
  \E k \in Rows(src) : \E new \in {k} \cup (Keys \ Rows(src)) : \E t \in {Op, Unchanged} :
    LET row == [v |-> Op, t |-> IF t = Unchanged THEN src[k].t ELSE t]
    IN  Writes([kind |-> "update", key |-> new, old |-> OldKey(k, new), before |-> Before(k),
                cols |-> [v |-> Op, t |-> t]],
               [src EXCEPT ![k] = NoRow, ![new] = row])

SourceDeletes ==
  \E k \in Rows(src) :
    Writes([kind |-> "delete", key |-> k, old |-> k, before |-> Before(k), cols |-> NoRow],
           [src EXCEPT ![k] = NoRow])

SourceTruncates ==
  Writes([kind |-> "truncate", key |-> NoKey, old |-> NoKey, before |-> NoRow, cols |-> NoRow],
         [k \in Keys |-> NoRow])

-----------------------------------------------------------------------------
(* The target. *)

\* buildWhere: the key columns of the old image (all columns under FULL), or
\* those of the new image where there is none.
Where(e) ==
  LET key == IF e.old = NoKey THEN e.key ELSE e.old
  IN  {k \in Rows(tgt) : k = key /\ (e.before = NoRow \/ tgt[k] = e.before)}

\* Mutant: a column that was not sent is rendered as NULL (#t48 Bug 'u').
SetAll(e, row) == [v |-> e.cols.v, t |-> IF e.cols.t = Unchanged THEN Null ELSE e.cols.t]

\* transformUpdate: SET drops the column that was not sent.
Set(e, row) == [v |-> e.cols.v, t |-> IF e.cols.t = Unchanged THEN row.t ELSE e.cols.t]

Ignores == setup.strategy \in {"insert_ignore", "skip"}

\* REPLACE INTO, or INSERT IGNORE under the ignoring strategies
\* (applyConflictStrategy).
Inserted(e) ==
  IF Ignores /\ tgt[e.key] # NoRow THEN tgt ELSE [tgt EXCEPT ![e.key] = e.cols]

\* UPDATE ... SET ... WHERE: no row, or the one it matches.
Updated(e) ==
  IF Where(e) = {} THEN tgt
  ELSE LET k == CHOOSE k \in Where(e) : TRUE
       IN  [tgt EXCEPT ![k] = NoRow, ![e.key] = Set(e, tgt[k])]

\* The row would take a key that is in use (1062).
Duplicate(e) == e.kind = "update" /\ tgt[e.key] # NoRow /\ \E k \in Where(e) : k # e.key

Result(e) ==
  CASE e.kind = "insert"   -> Inserted(e)
    [] e.kind = "update"   -> Updated(e)
    [] e.kind = "delete"   -> [k \in Keys |-> IF k \in Where(e) THEN NoRow ELSE tgt[k]]
    [] e.kind = "truncate" -> [k \in Keys |-> NoRow]

\* The statement succeeds.
Applies ==
  /\ next <= Len(log)
  /\ ~Duplicate(log[next])
  /\ tgt' = Result(log[next])
  /\ next' = next + 1
  /\ UNCHANGED <<setup, src, log, lost, rewinds>>

\* A duplicate key is no fatal error for applyEvent: it is retried MaxRetries
\* times, counted as failed and left behind.  UPDATE IGNORE leaves it at once.
DropsDuplicate ==
  /\ next <= Len(log)
  /\ Duplicate(log[next])
  /\ next' = next + 1
  /\ UNCHANGED <<setup, src, log, tgt, lost, rewinds>>

\* The target fails for longer than the retries last.
DropsTransient ==
  /\ next <= Len(log)
  /\ lost = {}
  /\ lost' = IF log[next].kind = "truncate" THEN Keys ELSE {log[next].key}
  /\ next' = next + 1
  /\ UNCHANGED <<setup, src, log, tgt, rewinds>>

\* A restart resumes at the checkpoint, at or behind what was applied.
Restarts ==
  /\ rewinds < MaxRewinds
  /\ next' \in 1..next
  /\ rewinds' = rewinds + 1
  /\ UNCHANGED <<setup, src, log, tgt, lost>>

Next ==
  \/ SourceInserts \/ SourceUpdates \/ SourceDeletes \/ SourceTruncates
  \/ Applies \/ DropsDuplicate \/ DropsTransient \/ Restarts

Spec == Init /\ [][Next]_vars

-----------------------------------------------------------------------------
(* Properties. *)

\* Keys a row left or took over.
Moved == UNION {{log[i].old, log[i].key} : i \in {j \in 1..Len(log) :
  log[j].kind = "update" /\ log[j].old \notin {NoKey, log[j].key}}}

\* A target that has caught up holds the source's row, or none, under every
\* key no update moved a row from or to, however often restarts applied old
\* events to newer rows and whatever the conflict strategy: the statements are
\* made to be repeated (REPLACE, WHERE on the replica identity, no SET of what
\* was not sent).  An event that is lost costs its own rows alone.
RowsConverge ==
  next > Len(log) => \A k \in Keys \ (Moved \cup lost) : tgt[k] = src[k]

\* What does not hold (see the README): the same of moved rows, where a repeated
\* statement meets the row under its new key.
MovedRowsConverge ==
  next > Len(log) /\ lost = {} => tgt = src

=============================================================================
