------------------------------ MODULE CdcChain ------------------------------
(***************************************************************************)
(* A full load and the CDC process behind it (cdc_chain): the replication  *)
(* slot or binlog position recorded before the load (handleStartTask,      *)
(* prepareCDCChainFor), the checkpoint file seeded with it after the load  *)
(* (seedChainCheckpoint), the start of the process, and what operators do  *)
(* beside it.  A table is one row whose value is the write that made it;   *)
(* the position of a write is its place in the source's log.  What the     *)
(* process streams it applies in order (CdcRunner, CdcBinlog).             *)
(***************************************************************************)
EXTENDS Integers, Sequences, FiniteSetsExt

CONSTANTS
  Tables,     \* tables of the task
  Slots,      \* which slot config.yaml may name: "chain", the default, or "own"
  MaxWrites,  \* bound: writes of the source
  MaxLoads,   \* bound: starts and resumes of the task
  MaxStarts   \* bound: starts of the CDC process

None == -1
NoFile == [kind |-> "none", slot |-> "", at |-> 0]
Down == [up |-> FALSE, slot |-> "", at |-> 0]

VARIABLES
  setup,   \* the kind of the source and the slot config.yaml names
  match,   \* config.yaml has this task's source
  wal,     \* the source's log: the table each write went to
  tgt,     \* the write whose value each table of the target has; 0 is no row
  slots,   \* confirmed position of each replication slot
  file,    \* the checkpoint file
  task,    \* the task: state, ChainStartLSN in its run and in the store, snapshots, tables loaded
  child,   \* the CDC process: the slot name its checkpoint has, its position
  starts,  \* its starts so far
  excuse   \* history: what may have cost the window of this load

vars == <<setup, match, wal, tgt, slots, file, task, child, starts, excuse>>

Pos == 0..MaxWrites
Kinds == {"pg", "mysql"}
File == [kind : Kinds, slot : {"chain", "own", ""}, at : Pos] \cup {NoFile}

TypeOK ==
  /\ setup \in [kind : Kinds, slot : Slots]
  /\ match \in BOOLEAN
  /\ wal \in Seq(Tables) /\ Len(wal) \in Pos
  /\ tgt \in [Tables -> Pos]
  /\ slots \in [{"chain", "own"} -> Pos \cup {None}]
  /\ file \in File
  /\ task \in [st : {"idle", "loading", "loaded", "seeding", "seeded", "done", "failed", "paused"},
               chain : Pos \cup {None}, stored : Pos \cup {None},
               read : [Tables -> Pos], loads : 0..MaxLoads, wrote : SUBSET Tables]
  /\ child \in [up : BOOLEAN, slot : {"chain", "own", ""}, at : Pos]
  /\ starts \in 0..MaxStarts
  /\ excuse \subseteq {"late start", "beside", "not stored", "unseeded"}

End == Len(wal)
LastWrite(t, p) == Max({0} \cup {i \in 1..p : wal[i] = t})

\* Files an earlier chain may have left: of another slot, of the other kind of
\* source, or without a slot name, which the seed takes for MySQL's.
OldFiles(kind) ==
  {NoFile} \cup [kind : Kinds, slot : {"own"}, at : {1}]
           \cup IF kind = "pg" THEN {[kind |-> "mysql", slot |-> "", at |-> 1]} ELSE {}

Init ==
  /\ setup \in [kind : Kinds, slot : Slots]
  /\ match \in BOOLEAN
  /\ wal \in [1..1 -> Tables]
  /\ tgt = [t \in Tables |-> 0]
  /\ slots = [n \in {"chain", "own"} |-> None]
  /\ file \in OldFiles(setup.kind)
  /\ task = [st |-> "idle", chain |-> None, stored |-> None, read |-> [t \in Tables |-> 0],
             loads |-> 0, wrote |-> {}]
  /\ child = Down /\ starts = 0 /\ excuse = {}

-----------------------------------------------------------------------------
(* The source and the task. *)

SourceWrites ==
  /\ End < MaxWrites
  /\ \E t \in Tables : wal' = Append(wal, t)
  /\ UNCHANGED <<setup, match, tgt, slots, file, task, child, starts, excuse>>

\* The next run reads every table again.
Loading(chain, stored) ==
  task' = [st |-> "loading", chain |-> chain, stored |-> stored,
           read |-> [t \in Tables |-> 0], loads |-> task.loads + 1, wrote |-> {}]

\* A process that went wrong beside the last load may still be up.
Lasting == IF child.up THEN excuse \cap {"beside"} ELSE {}

\* EnsureSlot creates the slot at its consistent point or reports restart_lsn of
\* the one there is, at or behind what it has confirmed; for MySQL the master's
\* position is noted.  Storing it may fail: the run goes on with its copy.
StartsTask ==
  /\ task.st \in {"idle", "done", "failed", "paused"} /\ task.loads < MaxLoads
  /\ \E lsn \in IF setup.kind = "pg" /\ slots["chain"] # None THEN 1..slots["chain"] ELSE {End} :
       \E stored \in {lsn, task.stored} : Loading(lsn, stored)
  /\ slots' = IF setup.kind = "pg" /\ slots["chain"] = None
              THEN [slots EXCEPT !["chain"] = End] ELSE slots
  /\ excuse' = Lasting
  /\ UNCHANGED <<setup, match, wal, tgt, file, child, starts>>

\* handleResumeTask loads everything again, under the position that was stored.
ResumesTask ==
  /\ task.st = "paused" /\ task.loads < MaxLoads
  /\ Loading(task.stored, task.stored)
  /\ excuse' = Lasting \cup IF task.stored = None THEN {"not stored"} ELSE {}
  /\ UNCHANGED <<setup, match, wal, tgt, slots, file, child, starts>>

ReadsTable(t) ==
  /\ task.st = "loading" /\ task.read[t] = 0
  /\ task' = [task EXCEPT !.read[t] = End]
  /\ UNCHANGED <<setup, match, wal, tgt, slots, file, child, starts, excuse>>

\* What was read replaces what the table has.
LoadsTable(t) ==
  /\ task.st = "loading" /\ task.read[t] # 0 /\ t \notin task.wrote
  /\ tgt' = [tgt EXCEPT ![t] = LastWrite(t, task.read[t])]
  /\ LET wrote == task.wrote \cup {t}
     IN  task' = [task EXCEPT !.wrote = wrote, !.st = IF wrote = Tables THEN "loaded" ELSE @]
  /\ UNCHANGED <<setup, match, wal, slots, file, child, starts, excuse>>

\* The load fails, or the task is paused.
LoadEnds ==
  /\ task.st = "loading"
  /\ \E st \in {"failed", "paused"} : task' = [task EXCEPT !.st = st]
  /\ UNCHANGED <<setup, match, wal, tgt, slots, file, child, starts, excuse>>

-----------------------------------------------------------------------------
(* The CDC process and its start. *)

\* The process loads the file: of the other kind it is dropped (LoadForSource),
\* and without one it starts at the end of the log, which once tables were read
\* is too late for them.  Its own slot is created if there is none, and
\* PostgreSQL sends nothing from before what it confirmed.
Starts ==
  LET own  == file.kind = setup.kind
      kept == IF setup.kind = "pg" /\ slots[setup.slot] = None
              THEN [slots EXCEPT ![setup.slot] = End] ELSE slots
  IN  /\ match /\ ~child.up /\ starts < MaxStarts
      /\ slots' = kept
      /\ file' = IF own THEN file ELSE NoFile
      /\ child' = [up |-> TRUE,
                   slot |-> IF own THEN file.slot ELSE setup.slot,
                   at |-> IF own THEN Max({file.at, kept[setup.slot]}) ELSE End]
      /\ starts' = starts + 1
      /\ excuse' = IF ~own /\ \E t \in Tables : task.read[t] # 0
                   THEN excuse \cup {"late start"} ELSE excuse
      /\ UNCHANGED <<setup, match, wal, tgt>>

\* An operator, the watchdog or the supervisor starts it.
ChildStarts == Starts /\ UNCHANGED task

\* Mutant: the seed respects any file that exists, as its comment has it.
SeedUnlessThere(f) ==
  IF f # NoFile THEN f
  ELSE [kind |-> setup.kind, slot |-> "chain", at |-> task.chain]

\* seedChainCheckpoint and its MySQL counterpart: a position of this slot (this
\* kind) at or past the recorded one stays, a file without a slot name is left
\* alone, all others are written over.
Seeded(f) ==
  IF \/ task.chain = None
     \/ setup.kind = "pg" /\ f # NoFile /\ f.slot = ""
     \/ /\ f.kind = setup.kind /\ f.at >= task.chain
        /\ setup.kind = "pg" => f.slot = "chain"
  THEN f
  ELSE [kind |-> setup.kind, at |-> task.chain,
        slot |-> IF setup.kind = "mysql" /\ f # NoFile THEN f.slot ELSE "chain"]

\* startCDCChainAfterSuccess, in the steps others come between: no chain beside
\* another source's or a process that is up,
ChainPasses ==
  /\ task.st = "loaded" /\ match /\ ~child.up
  /\ task' = [task EXCEPT !.st = "seeding"]
  /\ UNCHANGED <<setup, match, wal, tgt, slots, file, child, starts, excuse>>

\* the seed, which a process that came up meanwhile does not see,
ChainSeeds ==
  /\ task.st = "seeding"
  /\ file' = Seeded(file)
  /\ task' = [task EXCEPT !.st = "seeded"]
  /\ excuse' = excuse \cup (IF child.up THEN {"beside"} ELSE {})
                       \cup (IF setup.kind = "pg" /\ file # NoFile /\ file.slot = ""
                             THEN {"unseeded"} ELSE {})
  /\ UNCHANGED <<setup, match, wal, tgt, slots, child, starts>>

\* or a file that cannot be read or written, and the task is completed,
ChainSeedFails ==
  /\ task.st = "seeding"
  /\ task' = [task EXCEPT !.st = "done"]
  /\ excuse' = excuse \cup {"unseeded"}
  /\ UNCHANGED <<setup, match, wal, tgt, slots, file, child, starts>>

\* and the start, of one that is not up.
ChainStarts ==
  /\ task.st = "seeded"
  /\ Starts
  /\ task' = [task EXCEPT !.st = "done"]

\* It is up, or its start fails: the seed stays for the operator.
ChainStartsNone ==
  /\ task.st = "seeded"
  /\ task' = [task EXCEPT !.st = "done"]
  /\ UNCHANGED <<setup, match, wal, tgt, slots, file, child, starts, excuse>>

ChainSkipped ==
  /\ task.st = "loaded" /\ (~match \/ child.up)
  /\ task' = [task EXCEPT !.st = "done"]
  /\ UNCHANGED <<setup, match, wal, tgt, slots, file, child, starts, excuse>>

\* Beside a load two orders are wrong: a row applied between the reading and the
\* loading of its table is overwritten by the older one, and a row applied behind
\* the loading puts back what the load had replaced.
Crosses(t, p) ==
  /\ task.st \in {"loading", "loaded", "seeding"} /\ task.read[t] # 0
  /\ IF t \in task.wrote THEN p <= task.read[t] ELSE p > task.read[t]

ChildApplies ==
  /\ child.up /\ child.at < End
  /\ LET p == child.at + 1
         t == wal[p]
     IN  /\ tgt' = [tgt EXCEPT ![t] = p]
         /\ child' = [child EXCEPT !.at = p]
         /\ excuse' = IF Crosses(t, p) THEN excuse \cup {"beside"} ELSE excuse
  /\ UNCHANGED <<setup, match, wal, slots, file, task, starts>>

ChildConfirms ==
  /\ child.up /\ setup.kind = "pg" /\ slots[setup.slot] < child.at
  /\ slots' = [slots EXCEPT ![setup.slot] = child.at]
  /\ UNCHANGED <<setup, match, wal, tgt, file, task, child, starts, excuse>>

ChildSaves ==
  /\ child.up
  /\ file' = [kind |-> setup.kind, slot |-> child.slot, at |-> child.at]
  /\ UNCHANGED <<setup, match, wal, tgt, slots, task, child, starts, excuse>>

\* It is stopped or dies.
ChildEnds ==
  /\ child.up
  /\ child' = Down
  /\ UNCHANGED <<setup, match, wal, tgt, slots, file, task, starts, excuse>>

\* handleCDCResetCheckpoint.
ResetsCheckpoint ==
  /\ ~child.up /\ file # NoFile
  /\ file' = NoFile
  /\ UNCHANGED <<setup, match, wal, tgt, slots, task, child, starts, excuse>>

\* handlePutCDCConfig: the file goes with the kind of the source only.
SwitchesSource ==
  /\ ~match
  /\ match' = TRUE
  /\ file' \in {file, NoFile}
  /\ UNCHANGED <<setup, wal, tgt, slots, task, child, starts, excuse>>

Next ==
  \/ SourceWrites \/ StartsTask \/ ResumesTask \/ LoadEnds
  \/ \E t \in Tables : ReadsTable(t) \/ LoadsTable(t)
  \/ ChildStarts \/ ChainPasses \/ ChainSkipped
  \/ ChainSeeds \/ ChainSeedFails \/ ChainStarts \/ ChainStartsNone
  \/ ChildApplies \/ ChildConfirms \/ ChildSaves \/ ChildEnds
  \/ ResetsCheckpoint \/ SwitchesSource

Spec == Init /\ [][Next]_vars

-----------------------------------------------------------------------------
(* Properties. *)

CaughtUp == task.st = "done" /\ child.up /\ child.at = End

\* A target that was loaded and has caught up equals the source, whoever
\* started, stopped and restarted the process before, beside and after the load
\* and whatever file it met, unless a row crossed the load, the process was
\* started without a position after tables were read, the recorded position was
\* not stored and the task resumed, or the file was not seeded: it had no slot
\* name, or could not be read or written.
NothingBetween ==
  CaughtUp /\ excuse = {} => \A t \in Tables : tgt[t] = LastWrite(t, End)

=============================================================================
