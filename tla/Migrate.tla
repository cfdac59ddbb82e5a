------------------------------ MODULE Migrate ------------------------------
(***************************************************************************)
(* A full migration from PostgreSQL: Orchestrator.Run runs the phases      *)
(* precheck, schema, data and validate; the data migrator exports tables   *)
(* to CSV and has TiDB Lightning import them, or streams INSERT batches;   *)
(* both keep their own in-memory copy of one checkpoint file and write it  *)
(* whole.  A run may fail or be killed anywhere and is then run again.     *)
(* A table has two batches of rows.  Row counters and the phase's display  *)
(* name are left out (nothing the program decides reads them), a write of  *)
(* the checkpoint file succeeds, and the directory of the CSV files is     *)
(* kept from run to run.                                                   *)
(***************************************************************************)
EXTENDS Naturals, Sequences, FiniteSets

CONSTANTS
  Tables,     \* the selected tables
  Fk,         \* pairs <<child, parent>>: the foreign keys
  Configs,    \* the configurations a migration may have, see Config
  Parallel,   \* Migration.Parallel
  MaxFaults   \* bound: failures of a database, a tool or the process

Rows   == 1..2
Phases == <<"precheck", "schema", "data", "validate">>
Phase  == {Phases[i] : i \in 1..4}
Config == [policy : {"none", "truncate", "drop"},  \* TargetPolicy
           lightning : BOOLEAN,                    \* UseLightning
           skip : BOOLEAN,                         \* OnError = "skip"
           cont : BOOLEAN]                         \* OnErrorContinue

ASSUME MigrateAssumption ==
  /\ IsFiniteSet(Tables) /\ Fk \subseteq Tables \X Tables
  /\ Configs \subseteq Config
  /\ Parallel \in Nat \ {0} /\ MaxFaults \in Nat

VARIABLES
  cfg,     \* the configuration, the same for every run
  file,    \* checkpoint.json: table states and phase states, or NoFile
  om,      \* the orchestrator's copy of it (Orchestrator.cpMgr)
  dm,      \* the data migrator's copy (Migrator.cpMgr)
  csv,     \* the CSV of each table in the temp dir: "none", "part", "full"
  target,  \* the batches of each table that are in TiDB
  pc,      \* where Run is
  work,    \* each table's goroutine in the export or streaming loop
  next,    \* the batches streamTable has dealt with, per table
  plain,   \* loadFKDependencies failed: one alphabetical level
  err,     \* the data migrator returned an error
  bad,     \* a phase of this run failed (OnErrorContinue goes on)
  result,  \* how the last run ended
  fresh,   \* history: tables whose CSV this run has written
  faults

ctl  == <<pc, err, bad, result>>
jobs == <<work, next, plain>>
vars == <<cfg, file, om, dm, csv, target, ctl, jobs, fresh, faults>>

TState == {"none", "pending", "running", "completed", "failed"}
Ckpt   == [tab : [Tables -> TState], ph : [Phase -> TState]]
NoFile == [absent |-> TRUE]
Blank  == [tab |-> [t \in Tables |-> "none"], ph |-> [p \in Phase |-> "none"]]

Full(t)   == target[t] = Rows
Forced    == cfg.policy \in {"truncate", "drop"}
AllWaits  == [t \in Tables |-> "wait"]

TypeOK ==
  /\ cfg \in Configs
  /\ file \in Ckpt \cup {NoFile} /\ om \in Ckpt /\ dm \in Ckpt
  /\ csv \in [Tables -> {"none", "part", "full"}]
  /\ target \in [Tables -> SUBSET Rows]
  /\ pc \in Phase \cup {"idle", "open", "export", "import", "sql", "stream", "dataEnd", "finish"}
  /\ work \in [Tables -> {"wait", "busy", "done", "failed"}]
  /\ next \in [Tables -> 0..Cardinality(Rows)]
  /\ plain \in BOOLEAN /\ err \in BOOLEAN /\ bad \in BOOLEAN
  /\ result \in {"none", "ok", "part", "err", "killed"}
  /\ fresh \subseteq Tables /\ faults \in 0..MaxFaults
  /\ Cardinality({t \in Tables : work[t] = "busy"}) <= Parallel
  /\ pc \in {"export", "import", "sql", "stream"} => file = dm

Init ==
  /\ cfg \in Configs
  /\ file = NoFile /\ om = Blank /\ dm = Blank
  /\ csv = [t \in Tables |-> "none"] /\ target = [t \in Tables |-> {}]
  /\ pc = "idle" /\ err = FALSE /\ bad = FALSE /\ result = "none"
  /\ work = AllWaits /\ next = [t \in Tables |-> 0] /\ plain = FALSE
  /\ fresh = {} /\ faults = 0

Fault == faults < MaxFaults /\ faults' = faults + 1

-----------------------------------------------------------------------------
(* checkpoint.Manager. *)

\* load: the file's entries replace those of the copy, key by key.
Load(m) ==
  IF file = NoFile THEN m
  ELSE [tab |-> [t \in Tables |-> IF file.tab[t] = "none" THEN m.tab[t] ELSE file.tab[t]],
        ph  |-> [p \in Phase |-> IF file.ph[p] = "none" THEN m.ph[p] ELSE file.ph[p]]]

Phased(m, p, st) == [m EXCEPT !.ph[p] = st]
Marked(m, t, st) == [m EXCEPT !.tab[t] = st]

\* GetOrCreateTable, RegisterSchemaTables: only a missing entry is created.
Registered(m) == [m EXCEPT !.tab =
  [t \in Tables |-> IF m.tab[t] = "none" THEN "pending" ELSE m.tab[t]]]

\* Every method that changes a copy writes it out whole (temporary file, rename).
OmSaves(m) == om' = m /\ file' = m
DmSaves(m) == dm' = m /\ file' = m

-----------------------------------------------------------------------------
(* Orchestrator.Run. *)

NextPc(p) == CASE p = "precheck" -> "schema" [] p = "schema" -> "data"
               [] p = "data" -> "validate"   [] p = "validate" -> "finish"

\* The process, or the call, is over: its copies and goroutines are gone.
Returns(how) ==
  /\ pc' = "idle" /\ result' = how /\ err' = FALSE /\ bad' = FALSE
  /\ work' = AllWaits /\ next' = [t \in Tables |-> 0] /\ plain' = FALSE
  /\ fresh' = {}

\* Run: NewManager, InitPhases.
RunStarts ==
  /\ pc = "idle" /\ result # "ok"
  /\ OmSaves([Load(Blank) EXCEPT !.ph = [p \in Phase |-> "pending"]])
  /\ pc' = "precheck" /\ result' = "none"
  /\ UNCHANGED <<cfg, dm, csv, target, err, bad, jobs, fresh, faults>>

\* runPrecheck and runSchema start: SetPhase, StartPhase.  schema.Run registers
\* the tables first.
PhaseBegins(p) ==
  /\ pc = p /\ om.ph[p] = "pending"
  /\ OmSaves(IF p = "schema" THEN Registered(Phased(om, p, "running"))
                             ELSE Phased(om, p, "running"))
  /\ UNCHANGED <<cfg, dm, csv, target, ctl, jobs, fresh, faults>>

\* Mutant: the error path returns without finishPhase.
PhaseEndsUnrecorded(p, ok) ==
  /\ OmSaves(IF ok THEN Phased(om, p, "completed") ELSE om)
  /\ IF ok \/ cfg.cont
     THEN /\ pc' = NextPc(p) /\ bad' = (bad \/ ~ok)
          /\ UNCHANGED <<result, err, jobs, fresh>>
     ELSE Returns("err")
  /\ UNCHANGED <<cfg, dm, csv, target>>

\* finishPhase, and whether Run goes on.
PhaseEnds(p, ok) ==
  /\ OmSaves(Phased(om, p, IF ok THEN "completed" ELSE "failed"))
  /\ IF ok \/ cfg.cont
     THEN /\ pc' = NextPc(p) /\ bad' = (bad \/ ~ok)
          /\ UNCHANGED <<result, err, jobs, fresh>>
     ELSE Returns("err")
  /\ UNCHANGED <<cfg, dm, csv, target>>

Prechecked ==
  /\ pc = "precheck" /\ om.ph["precheck"] = "running"
  /\ \/ PhaseEnds("precheck", TRUE) /\ UNCHANGED faults
     \/ PhaseEnds("precheck", FALSE) /\ Fault

\* schema.Run executes DROP TABLE and CREATE TABLE of one table (policy drop).
Recreates(t) ==
  /\ pc = "schema" /\ om.ph["schema"] = "running"
  /\ cfg.policy = "drop" /\ target[t] # {}
  /\ target' = [target EXCEPT ![t] = {}]
  /\ UNCHANGED <<cfg, file, om, dm, csv, ctl, jobs, fresh, faults>>

SchemaApplied ==
  /\ pc = "schema" /\ om.ph["schema"] = "running"
  /\ \/ /\ cfg.policy = "drop" => \A t \in Tables : target[t] = {}
        /\ PhaseEnds("schema", TRUE) /\ UNCHANGED faults
     \/ PhaseEnds("schema", FALSE) /\ Fault
     \/ cfg.skip /\ PhaseEnds("schema", TRUE) /\ Fault    \* a failed DDL is passed over

\* Run removes checkpoint.json for the policies drop and truncate.
ClearsCheckpoint ==
  /\ pc = "data" /\ Forced /\ file # NoFile
  /\ file' = NoFile
  /\ UNCHANGED <<cfg, om, dm, csv, target, ctl, jobs, fresh, faults>>

\* runData: SetPhase("data"), StartPhase("data").
DataBegins ==
  /\ pc = "data" /\ (Forced => file = NoFile)
  /\ OmSaves(Phased(om, "data", "running"))
  /\ pc' = "open"
  /\ UNCHANGED <<cfg, dm, csv, target, err, bad, result, jobs, fresh, faults>>

\* Mutant: the data phase is finished from the copy in memory.
DataEndsNoReload ==
  /\ pc = "dataEnd"
  /\ OmSaves(Phased(om, "data", IF err THEN "failed" ELSE "completed"))
  /\ IF ~err \/ cfg.cont
     THEN /\ pc' = "validate" /\ bad' = (bad \/ err) /\ err' = FALSE
          /\ UNCHANGED <<result, jobs, fresh>>
     ELSE Returns("err")
  /\ UNCHANGED <<cfg, dm, csv, target, faults>>

\* runData returns: finishPhaseWithReload.
DataEnds ==
  /\ pc = "dataEnd"
  /\ OmSaves(Phased(Load(om), "data", IF err THEN "failed" ELSE "completed"))
  /\ IF ~err \/ cfg.cont
     THEN /\ pc' = "validate" /\ bad' = (bad \/ err) /\ err' = FALSE
          /\ UNCHANGED <<result, jobs, fresh>>
     ELSE Returns("err")
  /\ UNCHANGED <<cfg, dm, csv, target, faults>>

\* runValidate starts: SetPhaseWithReload, StartPhase.
ValidateBegins ==
  /\ pc = "validate" /\ om.ph["validate"] = "pending"
  /\ OmSaves(Phased(Load(om), "validate", "running"))
  /\ UNCHANGED <<cfg, dm, csv, target, ctl, jobs, fresh, faults>>

\* The validator passes what is equal; it may miss a difference (sampling).
Validated ==
  /\ pc = "validate" /\ om.ph["validate"] = "running"
  /\ \/ PhaseEnds("validate", TRUE) /\ UNCHANGED faults
     \/ /\ \E t \in Tables : ~Full(t)
        /\ PhaseEnds("validate", FALSE) /\ UNCHANGED faults
     \/ PhaseEnds("validate", FALSE) /\ Fault

\* SetPhaseWithReload("completed"): Run returns without an error.
RunCompletes ==
  /\ pc = "finish"
  /\ OmSaves(Load(om))
  /\ Returns(IF bad THEN "part" ELSE "ok")
  /\ UNCHANGED <<cfg, dm, csv, target, faults>>

Killed ==
  /\ pc # "idle"
  /\ Returns("killed") /\ om' = Blank /\ dm' = Blank
  /\ Fault
  /\ UNCHANGED <<cfg, file, csv, target>>

-----------------------------------------------------------------------------
(* data.Migrator.Run: its own manager, export of each table, import. *)

MigratorStarts ==
  /\ pc = "open"
  /\ LET m == Registered(Load(Blank)) IN
       /\ DmSaves(m)
       /\ work' = [t \in Tables |-> IF cfg.lightning /\ m.tab[t] = "completed"
                                    THEN "done" ELSE "wait"]
  /\ pc' = IF cfg.lightning THEN "export" ELSE "sql"
  /\ UNCHANGED <<cfg, om, csv, target, err, bad, result, next, plain, fresh, faults>>

DataFailsWith == pc' = "dataEnd" /\ err' = TRUE /\ UNCHANGED <<bad, result>>

\* A connection, the temp dir or the table list fails before any table is touched.
MigratorFails ==
  /\ pc = "open"
  /\ DataFailsWith /\ Fault
  /\ UNCHANGED <<cfg, file, om, dm, csv, target, jobs, fresh>>

Slot == Cardinality({t \in Tables : work[t] = "busy"}) < Parallel

\* Mutant: the table is marked completed when its export starts.
ExportStartsMarked(t) ==
  /\ pc = "export" /\ work[t] = "wait" /\ Slot
  /\ DmSaves(Marked(dm, t, "completed"))
  /\ csv' = [csv EXCEPT ![t] = "part"]
  /\ work' = [work EXCEPT ![t] = "busy"]
  /\ UNCHANGED <<cfg, om, target, ctl, next, plain, fresh, faults>>

\* Mutant: the state is changed in memory and not written.
ExportStartsUnsaved(t) ==
  /\ pc = "export" /\ work[t] = "wait" /\ Slot
  /\ dm' = Marked(dm, t, "running")
  /\ csv' = [csv EXCEPT ![t] = "part"]
  /\ work' = [work EXCEPT ![t] = "busy"]
  /\ UNCHANGED <<cfg, file, om, target, ctl, next, plain, fresh, faults>>

\* The goroutine of a table: MarkTableRunning, os.Create (which truncates).
ExportStarts(t) ==
  /\ pc = "export" /\ work[t] = "wait" /\ Slot
  /\ DmSaves(Marked(dm, t, "running"))
  /\ csv' = [csv EXCEPT ![t] = "part"]
  /\ work' = [work EXCEPT ![t] = "busy"]
  /\ UNCHANGED <<cfg, om, target, ctl, next, plain, fresh, faults>>

ExportWrites(t) ==
  /\ pc = "export" /\ work[t] = "busy" /\ csv[t] = "part"
  /\ csv' = [csv EXCEPT ![t] = "full"]
  /\ fresh' = fresh \cup {t}
  /\ UNCHANGED <<cfg, file, om, dm, target, ctl, jobs, faults>>

ExportCompletes(t) ==
  /\ pc = "export" /\ work[t] = "busy" /\ csv[t] = "full"
  /\ DmSaves(Marked(dm, t, "completed"))
  /\ work' = [work EXCEPT ![t] = "done"]
  /\ UNCHANGED <<cfg, om, csv, target, ctl, next, plain, fresh, faults>>

\* The export fails with part of the file written, or os.Create itself fails.
ExportFails(t) ==
  /\ pc = "export"
  /\ \/ work[t] = "busy" /\ csv[t] = "part"
     \/ work[t] = "wait" /\ Slot
  /\ DmSaves(Marked(dm, t, "failed"))
  /\ work' = [work EXCEPT ![t] = "failed"]
  /\ Fault
  /\ UNCHANGED <<cfg, om, csv, target, ctl, next, plain, fresh>>

\* wg.Wait: the first error ends the data phase unless OnError is skip.
ExportEnds ==
  /\ pc = "export" /\ \A t \in Tables : work[t] \in {"done", "failed"}
  /\ IF ~cfg.skip /\ \E t \in Tables : work[t] = "failed"
     THEN DataFailsWith
     ELSE pc' = "import" /\ UNCHANGED <<err, bad, result>>
  /\ work' = AllWaits
  /\ UNCHANGED <<cfg, file, om, dm, csv, target, next, plain, fresh, faults>>

\* What Lightning finds in a table's CSV.
InCsv(t) == CASE csv[t] = "full" -> Rows [] csv[t] = "part" -> {1} [] OTHER -> {}
NoCsv    == \A t \in Tables : csv[t] = "none"
Base(t)  == IF cfg.policy = "truncate" THEN {} ELSE target[t]

\* importViaLightning: without a CSV it returns at once, and without an error;
\* the policy truncate empties the tables first.  Into tables that hold rows
\* (policy none) it may succeed, since its own checks are switched off, or be
\* refused, since the local backend wants empty tables (LightningFails).
LightningImports ==
  /\ pc = "import"
  /\ target' = IF NoCsv THEN target ELSE [t \in Tables |-> Base(t) \cup InCsv(t)]
  /\ pc' = "dataEnd"
  /\ UNCHANGED <<cfg, file, om, dm, csv, err, bad, result, jobs, fresh, faults>>

\* The import fails part-way, or is refused: Run falls back to streaming.
LightningFails ==
  /\ pc = "import"
  /\ \/ UNCHANGED target
     \/ \E S \in SUBSET Tables :
          target' = [t \in Tables |-> Base(t) \cup IF t \in S THEN InCsv(t) ELSE {}]
  /\ \/ Fault
     \/ ~NoCsv /\ (\E t \in Tables : Base(t) # {}) /\ UNCHANGED faults
  /\ pc' = "sql"
  /\ UNCHANGED <<cfg, file, om, dm, csv, err, bad, result, jobs, fresh>>

-----------------------------------------------------------------------------
(* importViaSQL and streamTable. *)

Parents(t) == {p \in Tables \ {t} : <<t, p>> \in Fk}

\* topoLevels: tables with no unplaced parent first, a cycle in one last level.
Topo[S \in SUBSET Tables] ==
  LET free == {t \in S : Parents(t) \cap S = {}} IN
  IF S = {} THEN <<>>
  ELSE IF free = {} THEN <<S>> ELSE <<free>> \o Topo[S \ free]

\* Mutant: the levels come out children first.
LevelsBackwards ==
  IF plain THEN <<Tables>>
  ELSE LET L == Topo[Tables] IN [i \in 1..Len(L) |-> L[Len(L) + 1 - i]]

Levels == IF plain THEN <<Tables>> ELSE Topo[Tables]

\* Mutant: the streaming path does not apply the policy (F-10).
StreamOpensUntruncated ==
  /\ pc = "sql"
  /\ pc' = "stream" /\ work' = AllWaits /\ next' = [t \in Tables |-> 0]
  /\ \/ plain' = FALSE /\ UNCHANGED faults
     \/ plain' = TRUE /\ Fault
  /\ UNCHANGED <<cfg, file, om, dm, csv, target, err, bad, result, fresh>>

\* The policy truncate empties the tables, the import order is planned.
StreamOpens ==
  /\ pc = "sql"
  /\ target' = [t \in Tables |-> Base(t)]
  /\ pc' = "stream" /\ work' = AllWaits /\ next' = [t \in Tables |-> 0]
  /\ \/ plain' = FALSE /\ UNCHANGED faults
     \/ plain' = TRUE /\ Fault
  /\ UNCHANGED <<cfg, file, om, dm, csv, err, bad, result, fresh>>

StreamOpenFails ==
  /\ pc = "sql"
  /\ \E S \in SUBSET Tables : target' = [t \in Tables |-> IF t \in S THEN Base(t) ELSE target[t]]
  /\ DataFailsWith /\ Fault
  /\ UNCHANGED <<cfg, file, om, dm, csv, jobs, fresh>>

Over(t) == work[t] \in {"done", "failed"}

\* The barrier: a level starts when the one before is over without an error.
InTurn(t) == \E i \in 1..Len(Levels) :
  /\ t \in Levels[i]
  /\ \A j \in 1..(i - 1) : \A u \in Levels[j] :
       Over(u) /\ (work[u] = "failed" => cfg.skip)

StreamStarts(t) ==
  /\ pc = "stream" /\ work[t] = "wait" /\ InTurn(t) /\ Slot
  /\ DmSaves(Marked(dm, t, "running"))
  /\ work' = [work EXCEPT ![t] = "busy"]
  /\ UNCHANGED <<cfg, om, csv, target, ctl, next, plain, fresh, faults>>

\* A batch is refused when a row is there already (1062) or lacks its parent (1452).
Refused(t) ==
  LET b == next[t] + 1 IN b \in target[t] \/ \E p \in Parents(t) : b \notin target[p]

More(t) == pc = "stream" /\ work[t] = "busy" /\ next[t] < Cardinality(Rows)

BatchInserted(t) ==
  /\ More(t) /\ ~Refused(t)
  /\ target' = [target EXCEPT ![t] = @ \cup {next[t] + 1}]
  /\ next' = [next EXCEPT ![t] = @ + 1]
  /\ UNCHANGED <<cfg, file, om, dm, csv, ctl, work, plain, fresh, faults>>

\* execBatch returns an error: OnError skip goes on with the next batch.
BatchError(t) ==
  IF cfg.skip
  THEN next' = [next EXCEPT ![t] = @ + 1] /\ UNCHANGED <<file, dm, work>>
  ELSE /\ DmSaves(Marked(dm, t, "failed"))
       /\ work' = [work EXCEPT ![t] = "failed"] /\ UNCHANGED next

\* The last disjunct: the answer of a commit is lost, the batch is sent again
\* and refused as a duplicate.
BatchFails(t) ==
  /\ More(t) /\ BatchError(t)
  /\ \/ Refused(t) /\ UNCHANGED <<target, faults>>
     \/ ~Refused(t) /\ Fault /\ UNCHANGED target
     \/ ~Refused(t) /\ Fault /\ target' = [target EXCEPT ![t] = @ \cup {next[t] + 1}]
  /\ UNCHANGED <<cfg, om, csv, ctl, plain, fresh>>

\* Reading the source fails: the table fails whatever OnError says.
ReadFails(t) ==
  /\ pc = "stream" /\ work[t] = "busy" /\ Fault
  /\ DmSaves(Marked(dm, t, "failed"))
  /\ work' = [work EXCEPT ![t] = "failed"]
  /\ UNCHANGED <<cfg, om, csv, target, ctl, next, plain, fresh>>

StreamCompletes(t) ==
  /\ pc = "stream" /\ work[t] = "busy" /\ next[t] = Cardinality(Rows)
  /\ DmSaves(Marked(dm, t, "completed"))
  /\ work' = [work EXCEPT ![t] = "done"]
  /\ UNCHANGED <<cfg, om, csv, target, ctl, next, plain, fresh, faults>>

\* All levels are over, or the barrier after a level finds an error.
LoopEnds ==
  /\ \A t \in Tables : work[t] # "busy"
  /\ \/ \A t \in Tables : Over(t)
     \/ /\ ~cfg.skip /\ \E t \in Tables : work[t] = "failed"
        /\ \A t \in Tables : work[t] = "wait" => ~InTurn(t)

\* Mutant: a failed table does not make importViaSQL return an error.
StreamEndsSilently ==
  /\ pc = "stream" /\ LoopEnds
  /\ pc' = "dataEnd" /\ UNCHANGED <<err, bad, result>>
  /\ work' = AllWaits /\ next' = [t \in Tables |-> 0]
  /\ UNCHANGED <<cfg, file, om, dm, csv, target, plain, fresh, faults>>

\* importViaSQL returns firstErr.
StreamEnds ==
  /\ pc = "stream" /\ LoopEnds
  /\ IF ~cfg.skip /\ \E t \in Tables : work[t] = "failed"
     THEN DataFailsWith
     ELSE pc' = "dataEnd" /\ UNCHANGED <<err, bad, result>>
  /\ work' = AllWaits /\ next' = [t \in Tables |-> 0]
  /\ UNCHANGED <<cfg, file, om, dm, csv, target, plain, fresh, faults>>

-----------------------------------------------------------------------------
Orchestrates ==
  \/ RunStarts \/ (\E p \in {"precheck", "schema"} : PhaseBegins(p)) \/ Prechecked
  \/ (\E t \in Tables : Recreates(t)) \/ SchemaApplied
  \/ ClearsCheckpoint \/ DataBegins \/ DataEnds
  \/ ValidateBegins \/ Validated \/ RunCompletes

Exports ==
  \/ MigratorStarts \/ MigratorFails \/ ExportEnds
  \/ LightningImports \/ LightningFails
  \/ \E t \in Tables :
       ExportStarts(t) \/ ExportWrites(t) \/ ExportCompletes(t) \/ ExportFails(t)

Streams ==
  \/ StreamOpens \/ StreamOpenFails \/ StreamEnds
  \/ \E t \in Tables : \/ StreamStarts(t) \/ BatchInserted(t) \/ BatchFails(t)
                       \/ ReadFails(t) \/ StreamCompletes(t)

Next == Orchestrates \/ Exports \/ Streams \/ Killed

\* The program goes on while it can, and the operator runs it again until it
\* succeeds; nobody is obliged to fail.
Spec == Init /\ [][Next]_vars /\ WF_vars(Next /\ faults' = faults)

-----------------------------------------------------------------------------
(* Properties. *)

\* A run that reports success has migrated every table: each batch of each
\* table is in TiDB, whatever failed or was killed in earlier runs and whichever
\* of export, Lightning, fallback and streaming brought it there (OnError abort).
DoneIsMigrated == result = "ok" /\ ~cfg.skip => \A t \in Tables : Full(t)

\* A table the checkpoint calls completed has its whole CSV on disk: the next
\* run skips its export and lets Lightning import that file (migrator.go:113).
\* Under OnError skip the fallback may have streamed a table whose export failed.
CompletedIsExported ==
  cfg.lightning /\ ~cfg.skip /\ file # NoFile =>
    \A t \in Tables : file.tab[t] = "completed" => csv[t] = "full"

\* The two copies of the checkpoint: outside the migrator's own loops no write
\* of the file takes back a completed table (finishPhaseWithReload's purpose).
NoProgressLost ==
  [][file # NoFile /\ file' # NoFile /\ pc \notin {"export", "stream"} =>
       \A t \in Tables : file.tab[t] = "completed" => file'.tab[t] = "completed"]_vars

\* When Run has returned, no phase is left running (finishPhase's comment).
NoPhaseLeftRunning ==
  pc = "idle" /\ result \in {"ok", "part", "err"} =>
    file # NoFile /\ \A p \in Phase : file.ph[p] # "running"

\* Streaming in foreign-key levels: while a child is streamed, its parents are
\* complete (OnError abort, no cycle, dependencies known).
ParentsFirst ==
  pc = "stream" /\ ~cfg.skip /\ ~plain =>
    \A t \in Tables : work[t] = "busy" => \A p \in Parents(t) : Full(p)

\* Policy none and OnError abort: an unsuccessful run has left rows in TiDB.
RowsInTheWay ==
  /\ cfg.policy = "none" /\ ~cfg.skip
  /\ result \in {"err", "killed", "part"} /\ \E t \in Tables : target[t] # {}

\* An operator who runs the same command again reaches success once failures
\* stop, unless a run without a policy has left rows behind: those rows make
\* streaming fail as duplicates at every rerun, and Lightning may refuse them.
EventuallyMigrated == <>(result = "ok" \/ RowsInTheWay)

\* What the log line of orchestrator.go:203 says: for drop and truncate, the
\* data migration is fresh: a run imports only what it exported itself.
ForcedFresh == pc = "import" /\ Forced /\ ~cfg.skip => fresh = Tables
=============================================================================
