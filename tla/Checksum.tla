------------------------------ MODULE Checksum ------------------------------
(***************************************************************************)
(* The checksum comparison of one table (validateChecksumChunked): row     *)
(* counts of both sides, whole or by ranges of the source's keys; hashes   *)
(* of keyset windows, each one cut on both sides behind the last key the   *)
(* source gave; the comparison of all rows as a bag where windows cannot   *)
(* be trusted; and the drill that names the rows that differ.  Each query  *)
(* sees the tables as they are then.  The goroutines of the windows wait   *)
(* for one another, so one program counter stands for them.                *)
(***************************************************************************)
EXTENDS Integers, Sequences, FiniteSets, FiniteSetsExt

CONSTANTS
  MaxKey,     \* keys are 1..MaxKey
  MaxVal,     \* contents are 1..MaxVal
  ChunkSize,  \* ChecksumChunkSize
  CountSize,  \* ChunkedCountTarget
  DrillSize,  \* rowDiffWindow
  Setups,     \* configurations, see Setup
  Contents,   \* what the rows of the source may hold at the start
  MaxMoves    \* bound: writes to either side during the comparison

NullKey == 0
Nil == -1
Slots == NullKey..MaxKey
Sides == {"source", "target"}
Classes == {"content", "source", "target"}

VARIABLES
  setup,    \* the table's key, and how the databases order it
  tbl,      \* side -> slot -> content, 0 if there is no such row
  touched,  \* history: slots written during the comparison
  moves,
  run,      \* validateChecksumChunked's locals
  drill,    \* drillRowDiffs's locals
  rep       \* the report of the table, and by what it was decided

vars == <<setup, tbl, touched, moves, run, drill, rep>>
tables == <<setup, tbl, touched, moves>>

\* key: primary key, unique index or none; hidden: hashes leave the key out (the
\* user ignores its columns, or there is none); own: the side that sorts keys in
\* an order of its own; nullsLast: on the source; ranged: counted by ranges, for
\* which "only a REAL primary key" will do (maybeCountChunked).
Setup ==
  {s \in [key : {"pk", "unique", "none"}, hidden : BOOLEAN, own : Sides \cup {"none"},
           nullsLast : BOOLEAN, ranged : BOOLEAN] :
    (s.ranged => s.key = "pk") /\ (s.key = "none" => s.hidden)}

\* rows: fetched and not yet aligned; seek: the last key fetched; done: there are no more.
Stream == [rows |-> [s \in {} |-> 0], seek |-> Nil, done |-> FALSE]

TypeOK ==
  /\ setup \in Setups /\ Setups \subseteq Setup
  /\ tbl \in [Sides -> [Slots -> 0..MaxVal]]
  /\ touched \subseteq Slots /\ moves \in 0..MaxMoves
  /\ run.pc \in {"bounds", "count", "countTarget", "window", "windowTarget", "bag", "bagTarget",
                 "nulls", "nullsTarget", "fetch", "fetchTarget", "end"}
  /\ run.seek \in {Nil} \cup Slots /\ run.left \in Nat /\ {run.null, run.bad, run.error} \subseteq BOOLEAN
  /\ drill.note \in {"none", "null", "order", "error"}
  /\ drill.found \in [Classes -> SUBSET Slots]
  /\ rep \in [status : {"none", "PASS", "FAIL"}, by : {"none", "count", "windows", "bag", "error"}]

Init ==
  /\ setup \in Setups
  /\ tbl \in [Sides -> [Slots -> 0..MaxVal]]
  /\ \A s \in Slots : tbl["source"][s] \in Contents
  /\ setup.key # "unique" => \A d \in Sides : tbl[d][NullKey] = 0
  /\ touched = {} /\ moves = 0
  /\ run = [pc |-> IF setup.ranged THEN "bounds" ELSE "count",
            bounds |-> <<>>, range |-> 1, source |-> 0, target |-> 0,
            left |-> 0, seek |-> Nil, fetched |-> {}, hash |-> Stream.rows, covered |-> 0,
            null |-> FALSE, bad |-> FALSE, error |-> FALSE, short |-> FALSE, cut |-> FALSE]
  /\ drill = [stream |-> [d \in Sides |-> Stream], note |-> "none", missed |-> FALSE,
              found |-> [c \in Classes |-> {}]]
  /\ rep = [status |-> "none", by |-> "none"]

-----------------------------------------------------------------------------
(* The tables. *)

Present(d) == {s \in Slots : tbl[d][s] # 0}

\* Replication, or a writer of one side, changes a row while the comparison runs.
Moves ==
  /\ moves < MaxMoves /\ run.pc # "end"
  /\ \E d \in Sides, s \in Slots, v \in 0..MaxVal :
       /\ v # tbl[d][s] /\ (s = NullKey => setup.key = "unique")
       /\ tbl' = [tbl EXCEPT ![d][s] = v]
       /\ touched' = touched \cup {s}
  /\ moves' = moves + 1
  /\ UNCHANGED <<setup, run, drill, rep>>

\* ORDER BY the key: TiDB and MySQL put NULL first, PostgreSQL last.
Rank(d, s) ==
  IF s = NullKey THEN (IF d = "source" /\ setup.nullsLast THEN MaxKey + 1 ELSE -(MaxKey + 1))
  ELSE IF setup.own = d THEN -s ELSE s

\* key > seek, which no NULL satisfies; no condition without a seek.
Behind(d, seek) ==
  {s \in Present(d) : seek = Nil \/ (s # NullKey /\ Rank(d, s) > Rank(d, seek))}

\* ORDER BY key LIMIT n.
Window(d, seek, n) ==
  LET all == Behind(d, seek)
  IN  {s \in all : Cardinality({q \in all : Rank(d, q) < Rank(d, s)}) < n}

LastOf(d, rows) == CHOOSE s \in rows : \A q \in rows : Rank(d, q) <= Rank(d, s)

\* The bag of row hashes: what it tells of rows that show their key, or do not.
Hash(d, rows) ==
  IF setup.hidden THEN [v \in 1..MaxVal |-> Cardinality({s \in rows : tbl[d][s] = v})]
  ELSE [s \in rows |-> tbl[d][s]]

Ends(status, by) == rep' = [status |-> status, by |-> by]

-----------------------------------------------------------------------------
(* Counts. *)

\* chunkCountBoundaries: the source's keys in windows; the last of each is a bound.
ScansBounds ==
  /\ run.pc = "bounds"
  /\ LET w == Window("source", run.seek, CountSize)
         last == LastOf("source", w)
     IN  run' = [run EXCEPT !.pc = IF Cardinality(w) < CountSize THEN "count" ELSE @,
                            !.bounds = IF w = {} THEN @ ELSE Append(@, last),
                            !.seek = IF w = {} THEN @ ELSE last]
  /\ UNCHANGED <<tables, drill, rep>>

\* (bounds[range - 1], bounds[range]], without the one that does not exist.
InRange(d) ==
  LET i == run.range
      low == IF i = 1 THEN Nil ELSE run.bounds[i - 1]
  IN  {s \in Behind(d, low) :
        i <= Len(run.bounds) => s # NullKey /\ Rank(d, s) <= Rank(d, run.bounds[i])}

\* A range without bounds is "WHERE " and nothing behind it.
NoStatement == setup.ranged /\ run.bounds = <<>>

CountsSource ==
  /\ run.pc = "count"
  /\ ~NoStatement
  /\ run' = [run EXCEPT !.pc = "countTarget", !.source = @ + Cardinality(InRange("source"))]
  /\ UNCHANGED <<tables, drill, rep>>

\* DetectTableKey, an error of which is a table without a key.
Hashing(r) ==
  {[r EXCEPT !.pc = "bag"]} \cup
    (IF setup.key = "none" THEN {}
     ELSE {[r EXCEPT !.pc = "window", !.seek = Nil,
                     !.left = (r.source + ChunkSize - 1) \div ChunkSize]})

\* A mismatch is drilled if the table has a key.
Drilling(r) ==
  [r EXCEPT !.pc = CASE setup.key = "pk" -> "fetch" [] setup.key = "unique" -> "nulls"
                     [] OTHER -> "end"]

CountsTarget ==
  /\ run.pc = "countTarget"
  /\ LET r == [run EXCEPT !.target = @ + Cardinality(InRange("target"))]
         all == [r EXCEPT !.bounds = <<>>, !.range = 1, !.target = 0]
     IN  \/ /\ r.range <= Len(r.bounds)
            /\ run' = [r EXCEPT !.pc = "count", !.range = @ + 1]
            /\ UNCHANGED rep
         \/ /\ r.range > Len(r.bounds) /\ r.source # r.target
            /\ run' = Drilling(all) /\ Ends("FAIL", "count")
         \/ /\ r.range > Len(r.bounds) /\ r.source = r.target
            /\ IF r.source = 0 THEN run' = [all EXCEPT !.pc = "end"] /\ Ends("PASS", "count")
               ELSE run' \in Hashing(all) /\ UNCHANGED rep
  /\ UNCHANGED <<tables, drill>>

\* A count fails after its retries, or the table is cancelled before it starts.
CountFails ==
  /\ run.pc \in {"bounds", "count", "countTarget"}
  /\ run' = [run EXCEPT !.pc = "end", !.error = ~(run.pc = "count" /\ NoStatement)]
  /\ Ends("FAIL", "error")
  /\ UNCHANGED <<tables, drill>>

-----------------------------------------------------------------------------
(* Windows. *)

\* Mutant: the windows of a unique index are trusted like those of a primary key.
UntrustedNever(r) == FALSE

\* The guardrail: a unique index may hold NULLs, which no seek passes.
Untrusted(r) == setup.key = "unique" /\ (r.null \/ r.covered < r.source)

\* wg.Wait is over: the verdict of the windows.
Closes(r) ==
  IF Untrusted(r) THEN run' = [r EXCEPT !.pc = "bag"] /\ UNCHANGED rep
  ELSE /\ run' = IF r.bad THEN Drilling(r) ELSE [r EXCEPT !.pc = "end"]
       /\ Ends(IF r.bad \/ r.error THEN "FAIL" ELSE "PASS", "windows")

ReadsSource ==
  /\ run.pc = "window"
  /\ LET w == Window("source", run.seek, ChunkSize)
     IN  run' = [run EXCEPT !.pc = "windowTarget", !.fetched = w, !.hash = Hash("source", w)]
  /\ UNCHANGED <<tables, drill, rep>>

\* The boundary goes to the next window, or the scan stops.
ReadsTarget ==
  /\ run.pc = "windowTarget"
  /\ LET w == Window("target", run.seek, ChunkSize)
         null == NullKey \in run.fetched \cup w
         short == Cardinality(run.fetched) < ChunkSize
         r == [run EXCEPT !.covered = @ + Cardinality(run.fetched), !.null = null,
                          !.bad = @ \/ Hash("target", w) # run.hash, !.short = ~null /\ short,
                          !.left = @ - 1, !.fetched = {}, !.hash = Stream.rows, !.seek = Nil]
     IN  IF null \/ short \/ r.left = 0 THEN Closes(r)
         ELSE /\ run' = [r EXCEPT !.pc = "window", !.seek = LastOf("source", run.fetched)]
              /\ UNCHANGED rep
  /\ UNCHANGED <<tables, drill>>

\* A query fails or is cancelled: the scan stops, and the guardrail looks at it.
WindowFails ==
  /\ run.pc \in {"window", "windowTarget"}
  /\ Closes([run EXCEPT !.error = TRUE])
  /\ UNCHANGED <<tables, drill>>

-----------------------------------------------------------------------------
(* All rows as a bag (validateSamplingWithHashGroup, validateHashGroup). *)

\* The end of the rows is not asked for an error: a read may be cut off anywhere.
Reads(d) == {{s \in Present(d) : s <= k} : k \in {Nil} \cup Slots}

BagReadsSource ==
  /\ run.pc = "bag"
  /\ \E rows \in Reads("source") :
       run' = [run EXCEPT !.pc = "bagTarget", !.hash = Hash("source", rows),
                          !.cut = rows # Present("source")]
  /\ UNCHANGED <<tables, drill, rep>>

BagReadsTarget ==
  /\ run.pc = "bagTarget"
  /\ \E rows \in Reads("target") :
       /\ run' = [run EXCEPT !.pc = "end", !.hash = Stream.rows,
                            !.cut = @ \/ rows # Present("target")]
       /\ Ends(IF Hash("target", rows) = run.hash THEN "PASS" ELSE "FAIL", "bag")
  /\ UNCHANGED <<tables, drill>>

BagFails ==
  /\ run.pc \in {"bag", "bagTarget"}
  /\ run' = [run EXCEPT !.pc = "end", !.error = TRUE]
  /\ Ends("FAIL", "error")
  /\ UNCHANGED <<tables, drill>>

-----------------------------------------------------------------------------
(* The drill (maybeDrillRowDiffs, drillRowDiffs). *)

At(pc) == run' = [run EXCEPT !.pc = pc]
Aborts(note) == drill' = [drill EXCEPT !.note = note] /\ At("end")

\* rowDiffNullKeyScan: rows without a key cannot be aligned.  A probe that fails
\* counts as one that found none.
ScansNulls(pc, d, next) ==
  /\ run.pc = pc
  /\ \/ NullKey \in Present(d) /\ Aborts("null")
     \/ NullKey \notin Present(d) /\ At(next) /\ UNCHANGED drill
     \/ At(next) /\ drill' = [drill EXCEPT !.missed = TRUE]
  /\ UNCHANGED <<tables, rep>>

\* push: the keys come in the order the merge compares by.
Sorted(d, w) ==
  LET seek == drill.stream[d].seek
  IN  /\ \A s, q \in w : Rank(d, s) < Rank(d, q) => s < q
      /\ \A s \in w : seek < s

\* fetchDiffWindow, for a side that ran dry; the rows it gives then.
Dry(d) == drill.stream[d].rows = Stream.rows /\ ~drill.stream[d].done
Fetch(d) == Window(d, drill.stream[d].seek, DrillSize)
Fetched(d, w) ==
  [drill.stream EXCEPT ![d] =
    [rows |-> [s \in w |-> tbl[d][s]], seek |-> IF w = {} THEN @.seek ELSE LastOf(d, w),
     done |-> Cardinality(w) < DrillSize]]

Refuses(d, w) ==
  \/ NullKey \in w /\ Aborts("null")
  \/ NullKey \notin w /\ ~Sorted(d, w) /\ Aborts("order")

FetchesSource ==
  /\ run.pc = "fetch"
  /\ IF ~Dry("source") THEN At("fetchTarget") /\ UNCHANGED drill
     ELSE LET w == Fetch("source")
          IN  \/ Refuses("source", w)
              \/ /\ NullKey \notin w /\ Sorted("source", w)
                 /\ drill' = [drill EXCEPT !.stream = Fetched("source", w)] /\ At("fetchTarget")
  /\ UNCHANGED <<tables, rep>>

\* The merge goes on until a side that has more rows to come runs dry.
Aligned(st) ==
  LET keys == [d \in Sides |-> DOMAIN st[d].rows]
      open == {d \in Sides : ~st[d].done}
      now  == {k \in keys["source"] \cup keys["target"] : \A d \in open : k <= Max(keys[d])}
      both == keys["source"] \cap keys["target"] \cap now
  IN  [stream |-> [d \in Sides |->
                    [st[d] EXCEPT !.rows = [k \in keys[d] \ now |-> st[d].rows[k]]]],
       found |-> [content |-> {k \in both : st["source"].rows[k] # st["target"].rows[k]},
                  source |-> (keys["source"] \ keys["target"]) \cap now,
                  target |-> (keys["target"] \ keys["source"]) \cap now]]

Merges(st) ==
  LET a == Aligned(st)
  IN  /\ drill' = [drill EXCEPT !.stream = a.stream,
                                !.found = [c \in Classes |-> @[c] \cup a.found[c]]]
      /\ At(IF \A d \in Sides : a.stream[d].done /\ a.stream[d].rows = Stream.rows
            THEN "end" ELSE "fetch")

FetchesTarget ==
  /\ run.pc = "fetchTarget"
  /\ IF ~Dry("target") THEN Merges(drill.stream)
     ELSE LET w == Fetch("target")
          IN  \/ Refuses("target", w)
              \/ NullKey \notin w /\ Sorted("target", w) /\ Merges(Fetched("target", w))
  /\ UNCHANGED <<tables, rep>>

\* No directory for the details, no answer on the key, a query or a write that fails.
DrillFails ==
  /\ run.pc \in {"nulls", "nullsTarget", "fetch", "fetchTarget"}
  /\ Aborts("error")
  /\ UNCHANGED <<tables, rep>>

Next ==
  \/ Moves
  \/ ScansBounds \/ CountsSource \/ CountsTarget \/ CountFails
  \/ ReadsSource \/ ReadsTarget \/ WindowFails
  \/ BagReadsSource \/ BagReadsTarget \/ BagFails
  \/ ScansNulls("nulls", "source", "nullsTarget") \/ ScansNulls("nullsTarget", "target", "fetch")
  \/ FetchesSource \/ FetchesTarget \/ DrillFails

Spec == Init /\ [][Next]_vars

-----------------------------------------------------------------------------
(* Properties. *)

Over == run.pc = "end"
Still == touched = {}
Agree(s) == tbl["source"][s] = tbl["target"][s]
SameRows == Hash("source", Present("source")) = Hash("target", Present("target"))

\* A table that passed has no differing row among those nobody wrote meanwhile,
\* if its hashes show the key and no read was cut off: whatever NULLs, orders and
\* failures there were.  Windows that ended by their number say it of tables at rest.
PassCovers ==
  Over /\ rep.status = "PASS" /\ ~setup.hidden /\ ~run.cut
  /\ (rep.by = "windows" => run.short \/ Still) =>
    \A s \in Slots \ touched :
      (s = NullKey /\ rep.by = "windows" => Still) => Agree(s)

\* Without the keys: the tables hold the same rows, if they were compared as a whole.
PassIsSame ==
  Over /\ rep.status = "PASS" /\ Still /\ ~run.cut /\ rep.by # "windows" => SameRows

\* No false alarm on tables at rest, that both sides sort alike.
FailDiffers ==
  Over /\ rep.status = "FAIL" /\ Still /\ ~run.cut /\ ~run.error
  /\ setup.own = "none" /\ ~(rep.by = "error" /\ NoStatement)
  /\ (setup.hidden => rep.by # "windows") => ~SameRows

\* A drill that gives no reason for having broken off names each untouched row
\* that differs, once and for what it is, and no other.
Class(s) ==
  {c \in Classes : ~Agree(s) /\ (c = "source" <=> tbl["target"][s] = 0)
                             /\ (c = "target" <=> tbl["source"][s] = 0)}

Drilled ==
  /\ setup.key # "none" /\ rep.status = "FAIL"
  /\ rep.by = "count" \/ (rep.by = "windows" /\ run.bad)

DrillNames ==
  Over /\ Drilled /\ drill.note = "none" /\ ~drill.missed =>
    \A s \in Slots \ touched : {c \in Classes : s \in drill.found[c]} = Class(s)

CompareHonest == PassCovers /\ PassIsSame /\ FailDiffers /\ DrillNames

\* Not so (README): an empty table passes, however it is counted.
EmptyPasses ==
  Over /\ Still /\ ~run.error /\ Present("source") \cup Present("target") = {} =>
    rep.status = "PASS"

\* Not so: PassCovers for windows that ended by their number, and for NULLs.
PassCoversAll ==
  Over /\ rep.status = "PASS" /\ rep.by = "windows" /\ ~setup.hidden =>
    \A s \in Slots \ touched : Agree(s)

\* Not so: a key the user ignores is as good a key for the windows.
HiddenIsSame ==
  Over /\ rep.by = "windows" /\ setup.hidden /\ Still /\ ~run.error =>
    (rep.status = "PASS") = SameRows

\* Not so: a read of all rows that breaks off fails the table.
CutFails == Over /\ run.cut => rep.status = "FAIL"

\* Not so: the drill names NULLs or gives a reason, also if a probe for them failed.
NullsNamed ==
  Over /\ Drilled /\ drill.note = "none" => (NullKey \notin touched => Agree(NullKey))
=============================================================================
