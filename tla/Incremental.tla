----------------------------- MODULE Incremental -----------------------------
(***************************************************************************)
(* The watermark sync of one table of a job (syncOneTable): batches of     *)
(* rows in the order of a watermark column, from the watermark the last    *)
(* run left, the drain of a value that fills a batch, and what of a run is *)
(* kept (finalizeIncRun).  A row's version numbers its writes; the version *)
(* the target has is the one that was last handed to it, for an INSERT     *)
(* IGNORE that declines a row settles it too.  The code compares the text  *)
(* of two watermarks, so that a cursor is a value and how it is spelt.     *)
(***************************************************************************)
EXTENDS Integers, FiniteSets, FiniteSetsExt

CONSTANTS
  Rows,       \* keys of the table
  MaxWm,      \* watermarks are 1..MaxWm; 0 is none
  Setups,     \* configurations of the job, see Setup
  MaxWrites,  \* bound: writes of the source
  MaxRuns     \* bound: runs of the job

None == -1

VARIABLES
  setup,    \* BatchSize, StrictMode, ConflictStrategy = "error", InitialWatermark, see Setup
  src,      \* row -> its watermark, 0 if there is none, and version
  tgt,      \* row -> version
  st,       \* LastWatermark as saved
  run,      \* syncOneTable's locals
  top,      \* history: the largest watermark committed
  ordered,  \* history: rows whose last write was committed in watermark order
  over,     \* history: values a strict scan went on from: read up to, saved or configured
  raced,    \* history: rows committed at a drained value before the jump from it
  floor,    \* history: where the first run since the reset began
  writes, runs

vars == <<setup, src, tgt, st, run, top, ordered, over, raced, floor, writes, runs>>
job == <<setup, st, floor, runs>>
source == <<src, top, ordered, writes>>

Wms == 0..MaxWm

\* alike: MIN is read as a row's value is rendered.  Not so for the times of a MySQL
\* source: MIN comes in RFC 3339, CursorValue renders "2006-01-02 15:04:05".
Setup == [size : Nat \ {0}, strict : BOOLEAN, unique : BOOLEAN, init : Wms, alike : BOOLEAN]
BatchSize == setup.size
Batch == UNION {[S -> 0..MaxWrites] : S \in SUBSET Rows}
Empty == [r \in {} |-> 0]

\* spelt: the cursor is text as CursorValue renders it; from: where the run began;
\* passed, was: the cursor of the scan before; changed: rows written since the run began.
Idle == [pc |-> "idle", wm |-> 0, spelt |-> TRUE, ge |-> FALSE, batch |-> Empty, last |-> 0,
         total |-> FALSE, from |-> 0, passed |-> 0, was |-> TRUE, changed |-> {}]

TypeOK ==
  /\ setup \in Setups /\ Setups \subseteq Setup
  /\ src \in [Rows -> [wm : Wms, n : 0..MaxWrites]]
  /\ tgt \in [Rows -> None..MaxWrites]
  /\ {st, top, floor} \subseteq Wms /\ over \subseteq Wms
  /\ {ordered, raced} \subseteq SUBSET Rows
  /\ run \in [pc : {"idle", "min", "scan", "write", "drain", "probe", "end"}, wm : Wms,
              spelt : BOOLEAN, ge : BOOLEAN, batch : Batch, last : Wms, total : BOOLEAN,
              from : Wms, passed : Wms, was : BOOLEAN, changed : SUBSET Rows]
  /\ writes \in 0..MaxWrites /\ runs \in 0..MaxRuns

Init ==
  /\ setup \in Setups
  /\ src \in [Rows -> [wm : Wms, n : {0}]]
  /\ tgt = [r \in Rows |-> None]
  /\ st = 0 /\ run = Idle
  /\ top = Max({src[r].wm : r \in Rows})
  /\ ordered = Rows /\ over = {} /\ raced = {} /\ floor = 0
  /\ writes = 0 /\ runs = 0

-----------------------------------------------------------------------------
(* The source and the job. *)

Wm(r) == src[r].wm
Live == {r \in Rows : Wm(r) # 0}

\* A write is committed at watermark w, in order or late.
SourceWrites ==
  /\ writes < MaxWrites
  /\ \E r \in Rows, w \in 1..MaxWm :
       /\ src' = [src EXCEPT ![r] = [wm |-> w, n |-> writes + 1]]
       /\ top' = Max({top, w})
       /\ ordered' = IF w >= top THEN ordered \cup {r} ELSE ordered \ {r}
       /\ raced' = IF run.pc = "probe" /\ w = run.wm THEN raced \cup {r} ELSE raced \ {r}
       /\ run' = [run EXCEPT !.changed = IF run.pc = "idle" THEN {} ELSE @ \cup {r}]
  /\ writes' = writes + 1
  /\ UNCHANGED <<job, tgt, over>>

SourceDeletes ==
  /\ writes < MaxWrites
  /\ \E r \in Live : src' = [src EXCEPT ![r].wm = 0]
  /\ writes' = writes + 1
  /\ UNCHANGED <<job, run, tgt, top, ordered, over, raced>>

\* handleUpdateIncrementalJob: the table keeps its state, and is the same table.
Edits ==
  /\ run.pc = "idle"
  /\ setup' \in {new \in Setups \ {setup} : new.alike = setup.alike}
  /\ UNCHANGED <<source, st, floor, runs, run, tgt, over, raced>>

\* The table leaves the job and comes back, or the job does.
Resets ==
  /\ run.pc = "idle" /\ st # 0
  /\ st' = 0 /\ floor' = 0 /\ over' = {} /\ raced' = {}
  /\ UNCHANGED <<source, setup, runs, run, tgt>>

-----------------------------------------------------------------------------
(* A run. *)

\* What was saved CursorValue rendered, what was configured is spelt in any way.
Begins ==
  /\ run.pc = "idle" /\ runs < MaxRuns
  /\ LET wm == IF st # 0 THEN st ELSE setup.init
     IN  \E spelt \in IF st = 0 /\ wm # 0 THEN BOOLEAN ELSE {TRUE} :
           run' = [Idle EXCEPT !.pc = IF wm = 0 THEN "min" ELSE "scan", !.wm = wm,
                               !.spelt = spelt, !.from = wm]
  /\ runs' = runs + 1
  /\ UNCHANGED <<source, setup, st, floor, tgt, over, raced>>

\* An empty table has no lowest watermark: the run is over.
ProbesMin ==
  /\ run.pc = "min"
  /\ run' = IF Live = {} THEN Idle
            ELSE LET low == Min({Wm(r) : r \in Live})
                 IN  [run EXCEPT !.pc = "scan", !.wm = low, !.spelt = setup.alike,
                                 !.from = low, !.ge = TRUE]
  /\ UNCHANGED <<source, job, tgt, over, raced>>

\* BuildSelectSQL, read to its end: LIMIT cuts among equal watermarks anywhere.
Strict == setup.strict /\ ~run.ge
Within == {r \in Live : IF Strict THEN Wm(r) > run.wm ELSE Wm(r) >= run.wm}
IsBatch(S) ==
  /\ Cardinality(S) = Min({BatchSize, Cardinality(Within)})
  /\ \A r \in S, q \in Within \ S : Wm(r) <= Wm(q)

Scans ==
  /\ run.pc = "scan"
  /\ \E S \in SUBSET Within :
       /\ IsBatch(S)
       /\ run' = IF S = {} THEN [run EXCEPT !.pc = "end"]
                 ELSE [run EXCEPT !.pc = "write", !.batch = [r \in S |-> src[r].n],
                                  !.last = Max({Wm(r) : r \in S}),
                                  !.passed = run.wm, !.was = run.spelt]
  /\ over' = IF Strict /\ run.wm \in {run.last, st, setup.init} THEN over \cup {run.wm} ELSE over
  /\ UNCHANGED <<source, job, tgt, raced>>

\* The target takes rows at the given versions; a plain INSERT only new ones.
Takes(b) ==
  /\ setup.unique => \A r \in DOMAIN b : tgt[r] = None
  /\ tgt' = [r \in Rows |-> IF r \in DOMAIN b THEN b[r] ELSE tgt[r]]
  /\ raced' = raced \ {r \in DOMAIN b : b[r] = src[r].n}

\* incCursorStep: a full batch of the value the scan began at has to be drained, if
\* the two have the same text; a short one is the last.
Saturated == Cardinality(DOMAIN run.batch) = BatchSize /\ run.last = run.wm /\ run.spelt
CursorStep(full) ==
  IF ~full THEN [run EXCEPT !.pc = "end", !.total = TRUE, !.batch = Empty]
  ELSE IF Saturated THEN [run EXCEPT !.pc = "drain", !.total = TRUE, !.batch = Empty]
  ELSE [run EXCEPT !.pc = "scan", !.wm = run.last, !.spelt = TRUE, !.ge = FALSE, !.total = TRUE,
                   !.batch = Empty]

WritesBatch ==
  /\ run.pc = "write"
  /\ Takes(run.batch)
  /\ run' = CursorStep(Cardinality(DOMAIN run.batch) = BatchSize)
  /\ UNCHANGED <<source, job, over>>

\* Every row at the cursor's value, in one statement.
Drains ==
  /\ run.pc = "drain"
  /\ Takes([r \in {q \in Live : Wm(q) = run.wm} |-> src[r].n])
  /\ run' = [run EXCEPT !.pc = "probe"]
  /\ UNCHANGED <<source, job, over>>

\* Mutant: the scan behind a jump is strict in strict mode.
AfterJumpStrict(w) == [run EXCEPT !.pc = "scan", !.wm = w, !.spelt = setup.alike, !.ge = FALSE]

\* The value jumped to has not been read: its rows are, in either mode.
AfterJump(w) == [run EXCEPT !.pc = "scan", !.wm = w, !.spelt = setup.alike, !.ge = TRUE]

\* incJumpAfterDrain: on to the next value, if there is one.
Jumps ==
  /\ run.pc = "probe"
  /\ LET above == {Wm(r) : r \in Live} \ 0..run.wm
     IN  run' = IF above = {} THEN [run EXCEPT !.pc = "end"] ELSE AfterJump(Min(above))
  /\ UNCHANGED <<source, job, tgt, over, raced>>

\* incAdvanceWatermark and finalizeIncRun: a run that read no row keeps the
\* watermark; a file that cannot be written loses the new one.
Ends ==
  /\ run.pc = "end"
  /\ \/ /\ run.total
        /\ st' = run.last
        /\ floor' = IF st = 0 THEN run.from ELSE floor
     \/ UNCHANGED <<st, floor>>
  /\ run' = Idle
  /\ UNCHANGED <<source, setup, runs, tgt, over, raced>>

\* Some of the rows of a statement are written, in shards, and the rest is refused.
BatchFails ==
  /\ run.pc \in {"write", "drain"}
  /\ LET b == IF run.pc = "write" THEN run.batch
              ELSE [r \in {q \in Live : Wm(q) = run.wm} |-> src[r].n]
     IN  \E S \in SUBSET DOMAIN b : Takes([r \in S |-> b[r]])
  /\ run' = Idle
  /\ UNCHANGED <<source, job, over>>

\* A query fails, the run panics, or the server dies: the saved watermark stands.
Breaks ==
  /\ run.pc # "idle"
  /\ run' = Idle
  /\ UNCHANGED <<source, job, tgt, over, raced>>

Next ==
  \/ SourceWrites \/ SourceDeletes \/ Edits \/ Resets
  \/ Begins \/ ProbesMin \/ Scans \/ WritesBatch \/ Drains \/ Jumps
  \/ Ends \/ BatchFails \/ Breaks

Spec == Init /\ [][Next]_vars

-----------------------------------------------------------------------------
(* Properties. *)

Copied(r) == tgt[r] = src[r].n

\* A run that comes to its end has handed over every row at or above the
\* watermark it began at that nobody wrote meanwhile, however many rows share
\* a value and wherever the batches are cut, and however earlier runs broke off;
\* a strict one leaves out rows at the values its scans went on from.
RunCopies ==
  run.pc = "end" =>
    \A r \in Live \ run.changed : Wm(r) >= run.from /\ Wm(r) \notin over => Copied(r)

\* Rows that were committed in watermark order and lie behind the saved watermark
\* have been copied, over all runs, failures and changes of the configuration:
\* but for values strict scans went on from, and rows committed between the
\* drain of their value and the jump from it.
NoneBehind ==
  st # 0 =>
    \A r \in Live \cap ordered :
      floor <= Wm(r) /\ Wm(r) < st /\ Wm(r) \notin over /\ r \notin raced => Copied(r)

\* No run reads the same full batch for ever: a scan begins behind the one before
\* it, or where that one began, once, if its cursor was spelt in another way.
AlwaysForward ==
  run.pc = "scan" => \/ run.wm > run.passed
                     \/ run.wm = run.passed /\ run.spelt /\ ~run.was

\* What the code does not keep (see the README): the test for a full batch of one
\* value never fails over how the value is spelt (wm_dialect.go:596-601);
NeverRepeats == run.pc = "scan" => run.wm > run.passed

\* README.md:19, in the default mode no late row of the boundary's second is lost.
BoundaryKept ==
  st # 0 /\ ~setup.strict /\ over = {} =>
    \A r \in Live \cap ordered : floor <= Wm(r) /\ Wm(r) < st => Copied(r)

=============================================================================
