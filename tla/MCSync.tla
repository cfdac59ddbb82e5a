------------------------------- MODULE MCSync -------------------------------
(***************************************************************************)
(* What keeps a target in step with its source and what says whether it    *)
(* is, in six parts that have nothing to do with each other: the rows of a *)
(* table over restarts (CdcConverge), statements beside rows (CdcDdl), the *)
(* MySQL stream (CdcBinlog), a full load with the process behind it        *)
(* (CdcChain), the watermark sync (Incremental), and the comparison        *)
(* (Checksum, on tables at rest and under change).  The instance is their  *)
(* sum: a behaviour is one of a part.  A variable that parts call by the   *)
(* same name is one here; what a part does not have is 0 in it.            *)
(***************************************************************************)
EXTENDS Naturals, Sequences, FiniteSets

\* Constants of the parts, under the names they have there but for a few.
CONSTANTS
  Keys, Strategies, MaxOps, MaxRewinds,
  Tables, MaxRestarts,
  Binlog, EventRows, Cap, MaxEnds,
  Loaded, LoadSlots, MaxWrites, MaxLoads, MaxStarts,
  JobRows, MaxWm, Setups, JobWrites, MaxRuns

\* Bounds: the table that is there where the process is restarted; the rows and
\* writes of the watermark sync where the batches are small, and where not.
CONSTANTS Sole, Few, FewWrites

VARIABLES
  part,
  setup, src, tgt, wal, saved, run,
  log, next, lost, rewinds,
  open, trigger, ddlLog, poller, lastID, batch, dml, missing, counted, marked, executed, late, restarts,
  made, stream, cur, sub, begun, known, pos, fatal, flight, since, sent, settled, skipped, clean, ends,
  match, slots, file, task, child, starts, excuse,
  st, top, ordered, over, raced, floor, writes, runs,
  tbl, touched, moves, drill, rep

convVars  == <<log, next, lost, rewinds>>
ddlVars   == <<open, trigger, ddlLog, poller, lastID, batch, dml, missing, counted, marked,
               executed, late, restarts>>
binVars   == <<made, stream, cur, sub, begun, known, pos, fatal, flight, since, sent, settled,
               skipped, clean, ends>>
chainVars == <<match, slots, file, task, child, starts, excuse>>
incVars   == <<st, top, ordered, over, raced, floor, writes, runs>>
sumVars   == <<tbl, touched, moves, drill, rep>>
vars == <<part, setup, src, tgt, wal, saved, run, convVars, ddlVars, binVars, chainVars,
          incVars, sumVars>>

Conv  == INSTANCE CdcConverge
Ddl   == INSTANCE CdcDdl
Bin   == INSTANCE CdcBinlog WITH Rows <- EventRows
Chain == INSTANCE CdcChain WITH Tables <- Loaded, Slots <- LoadSlots
Inc   == INSTANCE Incremental WITH Rows <- JobRows, MaxWrites <- JobWrites

ASSUME SyncAssumption ==
  /\ Conv!NoKey \notin Keys
  /\ Binlog \in Seq(STRING) /\ EventRows \in Nat \ {0} /\ MaxEnds \in Nat
  /\ MaxWrites \in Nat \ {0} /\ MaxLoads \in Nat /\ MaxStarts \in Nat
  /\ IsFiniteSet(JobRows) /\ JobRows # {} /\ {MaxWm, JobWrites, MaxRuns} \subseteq Nat
  /\ Setups \subseteq Inc!Setup

Compare(key, hidden, own, nullsLast, ranged) ==
  [key |-> key, hidden |-> hidden, own |-> own, nullsLast |-> nullsLast, ranged |-> ranged]

\* Tables compared under change, and at rest in the other configurations as well.
Moved == {Compare("pk", FALSE, "none", FALSE, TRUE), Compare("pk", FALSE, "target", FALSE, FALSE),
          Compare("unique", FALSE, "none", TRUE, FALSE)}
Compared == Moved \cup
  {Compare("pk", FALSE, "none", FALSE, FALSE), Compare("pk", FALSE, "source", FALSE, TRUE),
   Compare("unique", FALSE, "none", FALSE, FALSE), Compare("unique", FALSE, "target", TRUE, FALSE),
   Compare("unique", TRUE, "none", TRUE, FALSE), Compare("none", TRUE, "none", TRUE, FALSE)}

Rest == INSTANCE Checksum WITH MaxKey <- 3, MaxVal <- 2, ChunkSize <- 2, CountSize <- 2,
  DrillSize <- 1, Setups <- Compared, Contents <- {0, 1}, MaxMoves <- 0

Busy == INSTANCE Checksum WITH MaxKey <- 2, MaxVal <- 2, ChunkSize <- 1, CountSize <- 1,
  DrillSize <- 1, Setups <- Moved, Contents <- {0, 1}, MaxMoves <- 2

-----------------------------------------------------------------------------
(* What a part does not have. *)

NoConv == log = 0 /\ next = 0 /\ lost = 0 /\ rewinds = 0
NoDdl ==
  /\ open = 0 /\ trigger = 0 /\ ddlLog = 0 /\ poller = 0 /\ lastID = 0 /\ batch = 0
  /\ dml = 0 /\ missing = 0 /\ counted = 0 /\ marked = 0 /\ executed = 0
  /\ late = 0 /\ restarts = 0
NoBin ==
  /\ made = 0 /\ stream = 0 /\ cur = 0 /\ sub = 0 /\ begun = 0 /\ known = 0 /\ pos = 0 /\ fatal = 0
  /\ flight = 0 /\ since = 0 /\ sent = 0 /\ settled = 0 /\ skipped = 0
  /\ clean = 0 /\ ends = 0
NoChain ==
  /\ match = 0 /\ slots = 0 /\ file = 0 /\ task = 0 /\ child = 0 /\ starts = 0 /\ excuse = 0
NoInc ==
  /\ st = 0 /\ top = 0 /\ ordered = 0 /\ over = 0 /\ raced = 0 /\ floor = 0
  /\ writes = 0 /\ runs = 0
NoSum == tbl = 0 /\ touched = 0 /\ moves = 0 /\ drill = 0 /\ rep = 0

OffConv  == <<wal, saved, run, ddlVars, binVars, chainVars, incVars, sumVars>>
OffDdl   == <<setup, run, convVars, binVars, chainVars, incVars, sumVars>>
OffBin   == <<setup, src, tgt, wal, run, convVars, ddlVars, chainVars, incVars, sumVars>>
OffChain == <<src, saved, run, convVars, ddlVars, binVars, incVars, sumVars>>
OffInc   == <<wal, saved, convVars, ddlVars, binVars, chainVars, sumVars>>
OffSum   == <<src, tgt, wal, saved, convVars, ddlVars, binVars, chainVars, incVars>>

On(p) == part = p

\* Restarts are followed on one table, two tables without them; batches of a row
\* on few rows, larger ones on few writes.
Alone == \A t \in Tables \ Sole : ~src'[t].here
Slight == \A r \in JobRows \ Few : src'[r].wm = 0
Rare == setup'.size > 1 /\ writes' <= FewWrites

Init ==
  \/ /\ part = "rows" /\ Conv!Init
     /\ NoDdl /\ NoBin /\ NoChain /\ NoInc /\ NoSum /\ wal = 0 /\ saved = 0 /\ run = 0
  \/ /\ part \in {"table", "tables"} /\ Ddl!Init
     /\ On("table") => \A t \in Tables \ Sole : ~src[t].here
     /\ NoConv /\ NoBin /\ NoChain /\ NoInc /\ NoSum /\ setup = 0 /\ run = 0
  \/ /\ part = "binlog" /\ Bin!Init
     /\ NoConv /\ NoDdl /\ NoChain /\ NoInc /\ NoSum
     /\ setup = 0 /\ src = 0 /\ tgt = 0 /\ wal = 0 /\ run = 0
  \/ /\ part = "chain" /\ Chain!Init
     /\ NoConv /\ NoDdl /\ NoBin /\ NoInc /\ NoSum /\ src = 0 /\ saved = 0 /\ run = 0
  \/ /\ part \in {"few", "many"} /\ Inc!Init
     /\ On("few") => \A r \in JobRows \ Few : src[r].wm = 0
     /\ On("many") => setup.size > 1
     /\ NoConv /\ NoDdl /\ NoBin /\ NoChain /\ NoSum /\ wal = 0 /\ saved = 0
  \/ /\ \/ part = "rest" /\ Rest!Init
        \/ part = "busy" /\ Busy!Init
     /\ NoConv /\ NoDdl /\ NoBin /\ NoChain /\ NoInc
     /\ src = 0 /\ tgt = 0 /\ wal = 0 /\ saved = 0

Next ==
  \/ On("rows")   /\ Conv!Next  /\ UNCHANGED <<part, OffConv>>
  \/ On("table")  /\ Ddl!Next   /\ Alone /\ UNCHANGED <<part, OffDdl>>
  \/ On("tables") /\ Ddl!Next   /\ UNCHANGED <<part, OffDdl, restarts>>
  \/ On("binlog") /\ Bin!Next   /\ UNCHANGED <<part, OffBin>>
  \/ On("chain")  /\ Chain!Next /\ UNCHANGED <<part, OffChain>>
  \/ On("few") /\ Inc!Next   /\ Slight /\ UNCHANGED <<part, OffInc>>
  \/ On("many")  /\ Inc!Next   /\ Rare /\ UNCHANGED <<part, OffInc>>
  \/ On("rest")   /\ Rest!Next  /\ UNCHANGED <<part, OffSum>>
  \/ On("busy")   /\ Busy!Next  /\ UNCHANGED <<part, OffSum>>

Spec == Init /\ [][Next]_vars

-----------------------------------------------------------------------------
(* Values. *)

\* A rotation, two rows events under one table map, committed before the table is
\* dropped, and a row of the one created in its place.
Log == <<"rotate", "map", "rows", "rows", "xid", "other", "drop", "ddl", "map", "rows">>

\* The default mode and the strict mode, with watermarks of either kind, and plain
\* INSERTs from a given watermark.
Job(n, strict, unique, init, alike) ==
  [size |-> n, strict |-> strict, unique |-> unique, init |-> init, alike |-> alike]
Jobs == {Job(n, s, FALSE, 0, TRUE) : n \in 1..2, s \in BOOLEAN}
        \cup {Job(2, s, FALSE, 0, FALSE) : s \in BOOLEAN}
        \cup {Job(n, FALSE, TRUE, 2, TRUE) : n \in 1..2}

-----------------------------------------------------------------------------
\* Repeated row events leave the source's rows (CdcConverge).
RowsConverge == On("rows") => Conv!TypeOK /\ Conv!RowsConverge

\* The target follows the statements and loses no row uncounted (CdcDdl).
DdlFollows ==
  part \in {"table", "tables"} =>
    Ddl!TypeOK /\ Ddl!SchemaFollows /\ Ddl!RowsFollow
    /\ Ddl!NoneSteppedOver /\ Ddl!DuplicateIsReplay

\* The checkpoint of the MySQL stream steps over no DDL, and over no row but those
\* canal drops because their table is gone (CdcBinlog).
BinlogSound ==
  On("binlog") => Bin!TypeOK /\ Bin!SavedWasSent /\ Bin!DdlNeverPassed /\ Bin!CleanEndSettles

\* Nothing that was written between the reading of a table and the start of the
\* process is missing in the target (CdcChain).
ChainLossless == On("chain") => Chain!TypeOK /\ Chain!NothingBetween

\* A run of the watermark sync misses none of the rows it has to read, the saved
\* watermark has none behind it, and no scan repeats the one before but once, where
\* its cursor was spelt otherwise (Incremental).
IncrementalComplete ==
  part \in {"few", "many"} =>
    Inc!TypeOK /\ Inc!RunCopies /\ Inc!NoneBehind /\ Inc!AlwaysForward

\* A table that passes the comparison is the same where nobody wrote meanwhile, one
\* that fails is not, and a drill names the rows that differ (Checksum).
CompareHonest ==
  /\ On("rest") => Rest!TypeOK /\ Rest!CompareHonest
  /\ On("busy") => Busy!TypeOK /\ Busy!CompareHonest

=============================================================================
