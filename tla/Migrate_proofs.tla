--------------------------- MODULE Migrate_proofs ---------------------------
(***************************************************************************)
(* Proofs about Migrate, for any tables, foreign keys and configurations.  *)
(***************************************************************************)
EXTENDS Migrate, FiniteSetTheorems, WellFoundedInduction, TLAPS

-----------------------------------------------------------------------------
(* What the operators of the checkpoint return. *)

LEMMA NoFileIsNoCkpt == NoFile \notin Ckpt
<1>1. SUFFICES ASSUME NoFile \in Ckpt PROVE FALSE
  OBVIOUS
<1>2. DOMAIN NoFile = {"absent"}
  BY DEF NoFile
<1>3. DOMAIN NoFile = {"tab", "ph"}
  BY <1>1 DEF Ckpt
<1> QED
  BY <1>2, <1>3

LEMMA BlankType == Blank \in Ckpt
BY DEF Blank, Ckpt, TState

LEMMA PhasedType ==
  ASSUME NEW m \in Ckpt, NEW p \in Phase, NEW st \in TState
  PROVE  /\ Phased(m, p, st) \in Ckpt
         /\ Phased(m, p, st).tab = m.tab
         /\ \A q \in Phase : Phased(m, p, st).ph[q] = IF q = p THEN st ELSE m.ph[q]
BY DEF Phased, Ckpt

LEMMA MarkedType ==
  ASSUME NEW m \in Ckpt, NEW t \in Tables, NEW st \in TState
  PROVE  /\ Marked(m, t, st) \in Ckpt
         /\ Marked(m, t, st).ph = m.ph
         /\ \A u \in Tables : Marked(m, t, st).tab[u] = IF u = t THEN st ELSE m.tab[u]
BY DEF Marked, Ckpt

LEMMA RegisteredType ==
  ASSUME NEW m \in Ckpt
  PROVE  /\ Registered(m) \in Ckpt
         /\ Registered(m).ph = m.ph
         /\ \A t \in Tables :
              Registered(m).tab[t] = IF m.tab[t] = "none" THEN "pending" ELSE m.tab[t]
BY DEF Registered, Ckpt, TState

LEMMA LoadType ==
  ASSUME NEW m \in Ckpt, file \in Ckpt \cup {NoFile}
  PROVE  /\ Load(m) \in Ckpt
         /\ file = NoFile => Load(m) = m
         /\ file # NoFile =>
              /\ \A t \in Tables : Load(m).tab[t] =
                   IF file.tab[t] = "none" THEN m.tab[t] ELSE file.tab[t]
              /\ \A p \in Phase : Load(m).ph[p] =
                   IF file.ph[p] = "none" THEN m.ph[p] ELSE file.ph[p]
<1>1. CASE file = NoFile
  BY <1>1 DEF Load
<1>2. CASE file # NoFile
  <2>1. file \in Ckpt
    BY <1>2
  <2>2. Load(m) =
        [tab |-> [t \in Tables |-> IF file.tab[t] = "none" THEN m.tab[t] ELSE file.tab[t]],
         ph  |-> [p \in Phase |-> IF file.ph[p] = "none" THEN m.ph[p] ELSE file.ph[p]]]
    BY <1>2 DEF Load
  <2> QED
    BY <1>2, <2>1, <2>2 DEF Ckpt
<1> QED
  BY <1>1, <1>2

LEMMA PhaseNames == Phase = {"precheck", "schema", "data", "validate"}
BY DEF Phase, Phases

LEMMA RowsCount == Cardinality(Rows) = 2
<1>1. 1 \in Int /\ 2 \in Int
  OBVIOUS
<1>2. Cardinality(1..2) = IF 1 > 2 THEN 0 ELSE 2 - 1 + 1
  BY <1>1, FS_Interval, Zenon
<1> QED
  BY <1>2 DEF Rows

-----------------------------------------------------------------------------
(* Types. *)

\* The semaphore: goroutines that end, or none that starts.
LEMMA FewerBusy ==
  ASSUME Cardinality({t \in Tables : work[t] = "busy"}) <= Parallel,
         \A t \in Tables : work'[t] = "busy" => work[t] = "busy"
  PROVE  Cardinality({t \in Tables : work'[t] = "busy"}) <= Parallel
<1> DEFINE B == {t \in Tables : work[t] = "busy"}
           C == {t \in Tables : work'[t] = "busy"}
<1>1. IsFiniteSet(B) /\ C \subseteq B
  BY FS_Subset, MigrateAssumption
<1>2. Cardinality(C) <= Cardinality(B) /\ Cardinality(B) \in Nat /\ Cardinality(C) \in Nat
  BY <1>1, FS_Subset, FS_CardinalityType
<1> QED
  BY <1>2, MigrateAssumption

\* The semaphore: a goroutine that takes a slot.
LEMMA OneMoreBusy ==
  ASSUME NEW t \in Tables, Slot, work' = [work EXCEPT ![t] = "busy"],
         work \in [Tables -> {"wait", "busy", "done", "failed"}]
  PROVE  Cardinality({u \in Tables : work'[u] = "busy"}) <= Parallel
<1> DEFINE B == {u \in Tables : work[u] = "busy"}
           C == {u \in Tables : work'[u] = "busy"}
<1>1. IsFiniteSet(B)
  BY FS_Subset, MigrateAssumption
<1>2. C = B \cup {t}
  OBVIOUS
<1>3. /\ IsFiniteSet(B \cup {t})
      /\ Cardinality(B \cup {t}) = IF t \in B THEN Cardinality(B) ELSE Cardinality(B) + 1
  BY <1>1, FS_AddElement
<1>4. Cardinality(B) \in Nat
  BY <1>1, FS_CardinalityType
<1>5. Cardinality(B) < Parallel
  BY DEF Slot
<1>6. Cardinality(C) <= Parallel
  <2> HIDE DEF B, C
  <2> QED
    BY <1>2, <1>3, <1>4, <1>5, MigrateAssumption
<1> QED
  BY <1>6

LEMMA TypeInit == Init => TypeOK
<1> SUFFICES ASSUME Init PROVE TypeOK
  OBVIOUS
<1>1. {t \in Tables : work[t] = "busy"} = {}
  BY DEF Init, AllWaits
<1>2. Cardinality({t \in Tables : work[t] = "busy"}) <= Parallel
  BY <1>1, FS_EmptySet, MigrateAssumption
<1>3. /\ csv \in [Tables -> {"none", "part", "full"}] /\ target \in [Tables -> SUBSET Rows]
      /\ work \in [Tables -> {"wait", "busy", "done", "failed"}]
      /\ next \in [Tables -> 0..Cardinality(Rows)]
  BY RowsCount DEF Init, AllWaits
<1>4. faults \in 0..MaxFaults
  BY MigrateAssumption DEF Init
<1> QED
  BY <1>2, <1>3, <1>4, BlankType DEF Init, TypeOK


\* Return of Run: what its end leaves is of the right type.
LEMMA ReturnsType ==
  ASSUME NEW how \in {"ok", "part", "err", "killed"}, Returns(how)
  PROVE  /\ pc' = "idle" /\ result' = how /\ err' = FALSE /\ bad' = FALSE /\ plain' = FALSE
         /\ fresh' = {}
         /\ work' \in [Tables -> {"wait", "busy", "done", "failed"}]
         /\ next' \in [Tables -> 0..Cardinality(Rows)]
         /\ Cardinality({t \in Tables : work'[t] = "busy"}) <= Parallel
<1>1. {t \in Tables : work'[t] = "busy"} = {}
  BY DEF Returns, AllWaits
<1>2. Cardinality({t \in Tables : work'[t] = "busy"}) <= Parallel
  BY <1>1, FS_EmptySet, MigrateAssumption
<1> QED
  BY <1>2, RowsCount DEF Returns, AllWaits

\* finishPhase
LEMMA PhaseEndsType ==
  ASSUME TypeOK, NEW p \in {"precheck", "schema", "validate"}, NEW ok \in BOOLEAN,
         PhaseEnds(p, ok), faults' \in 0..MaxFaults
  PROVE  TypeOK'
<1> USE PhaseNames DEF TypeOK
<1>1. om' \in Ckpt /\ file' = om'
  BY PhasedType DEF PhaseEnds, OmSaves, TState
<1>2. CASE ok \/ cfg.cont
  <2>1. bad' \in BOOLEAN
    BY <1>2 DEF PhaseEnds
  <2>2. pc' \in {"schema", "data", "finish"} /\ UNCHANGED <<cfg, dm, csv, target, result, err, jobs, fresh>>
    BY <1>2 DEF PhaseEnds, NextPc
  <2> QED
    BY <1>1, <2>1, <2>2 DEF jobs
<1>3. CASE ~(ok \/ cfg.cont)
  <2>1. Returns("err") /\ UNCHANGED <<cfg, dm, csv, target>>
    BY <1>3 DEF PhaseEnds
  <2> QED
    BY <1>1, <2>1, ReturnsType
<1> QED
  BY <1>2, <1>3

LEMMA TypeStep == TypeOK /\ [Next]_vars => TypeOK'
<1> SUFFICES ASSUME TypeOK, [Next]_vars PROVE TypeOK'
  OBVIOUS
<1> USE PhaseNames, RowsCount, MigrateAssumption DEF TypeOK, ctl, jobs, Fault, OmSaves, DmSaves
<1>1. CASE Orchestrates
  <2>1. CASE RunStarts
    <3>1. om' \in Ckpt
      BY <2>1, BlankType, LoadType DEF RunStarts, Ckpt, TState
    <3> QED
      BY <2>1, <3>1 DEF RunStarts
  <2>2. ASSUME NEW p \in {"precheck", "schema"}, PhaseBegins(p) PROVE TypeOK'
    <3>1. om' \in Ckpt
      BY <2>2, PhasedType, RegisteredType DEF PhaseBegins, TState
    <3> QED
      BY <2>2, <3>1 DEF PhaseBegins
  <2>3. CASE Prechecked
    <3>1. faults' \in 0..MaxFaults
      <4> HIDE DEF TypeOK, Fault
      <4>1. UNCHANGED faults \/ Fault
        BY <2>3 DEF Prechecked
      <4> QED
        BY <4>1 DEF TypeOK, Fault
    <3>2. PICK ok \in BOOLEAN : PhaseEnds("precheck", ok)
      BY <2>3, Zenon DEF Prechecked
    <3> HIDE DEF TypeOK
    <3> QED
      BY <3>1, <3>2, PhaseEndsType
  <2>4. ASSUME NEW t \in Tables, Recreates(t) PROVE TypeOK'
    BY <2>4 DEF Recreates
  <2>5. CASE SchemaApplied
    <3>1. faults' \in 0..MaxFaults
      <4> HIDE DEF TypeOK, Fault
      <4>1. UNCHANGED faults \/ Fault
        BY <2>5 DEF SchemaApplied
      <4> QED
        BY <4>1 DEF TypeOK, Fault
    <3>2. PICK ok \in BOOLEAN : PhaseEnds("schema", ok)
      BY <2>5, Zenon DEF SchemaApplied
    <3> HIDE DEF TypeOK
    <3> QED
      BY <3>1, <3>2, PhaseEndsType
  <2>6. CASE ClearsCheckpoint
    BY <2>6 DEF ClearsCheckpoint
  <2>7. CASE DataBegins
    <3>1. om' \in Ckpt
      BY <2>7, PhasedType DEF DataBegins, TState
    <3> QED
      BY <2>7, <3>1 DEF DataBegins
  <2>8. CASE DataEnds
    <3>1. om' \in Ckpt /\ file' = om'
      BY <2>8, PhasedType, LoadType DEF DataEnds, TState
    <3>2. CASE ~err \/ cfg.cont
      <4>1. bad' \in BOOLEAN
        BY <2>8, <3>2 DEF DataEnds
      <4> QED
        BY <2>8, <3>1, <3>2, <4>1 DEF DataEnds
    <3>3. CASE ~(~err \/ cfg.cont)
      BY <2>8, <3>1, <3>3, ReturnsType DEF DataEnds
    <3> QED
      BY <3>2, <3>3
  <2>9. CASE ValidateBegins
    <3>1. om' \in Ckpt
      BY <2>9, PhasedType, LoadType DEF ValidateBegins, TState
    <3> QED
      BY <2>9, <3>1 DEF ValidateBegins
  <2>10. CASE Validated
    <3>1. faults' \in 0..MaxFaults
      <4> HIDE DEF TypeOK, Fault
      <4>1. UNCHANGED faults \/ Fault
        BY <2>10 DEF Validated
      <4> QED
        BY <4>1 DEF TypeOK, Fault
    <3>2. PICK ok \in BOOLEAN : PhaseEnds("validate", ok)
      BY <2>10, Zenon DEF Validated
    <3> HIDE DEF TypeOK
    <3> QED
      BY <3>1, <3>2, PhaseEndsType
  <2>11. CASE RunCompletes
    <3>1. om' \in Ckpt /\ file' = om'
      BY <2>11, LoadType DEF RunCompletes
    <3> QED
      BY <2>11, <3>1, ReturnsType DEF RunCompletes
  <2> QED
    BY <1>1, <2>1, <2>2, <2>3, <2>4, <2>5, <2>6, <2>7, <2>8, <2>9, <2>10, <2>11 DEF Orchestrates
<1>2. CASE Exports
  <2>1. CASE MigratorStarts
    <3>1. dm' \in Ckpt /\ file' = dm'
      BY <2>1, BlankType, LoadType, RegisteredType DEF MigratorStarts
    <3>2. work' \in [Tables -> {"wait", "busy", "done", "failed"}]
      BY <2>1 DEF MigratorStarts
    <3>3. \A t \in Tables : work'[t] # "busy"
      BY <2>1 DEF MigratorStarts
    <3>4. Cardinality({t \in Tables : work'[t] = "busy"}) <= Parallel
      BY <3>3, FewerBusy
    <3>5. pc' \in {"export", "sql"}
      BY <2>1 DEF MigratorStarts
    <3> QED
      BY <2>1, <3>1, <3>2, <3>4, <3>5 DEF MigratorStarts
  <2>2. CASE MigratorFails
    BY <2>2 DEF MigratorFails, DataFailsWith
  <2>3. CASE ExportEnds
    <3>1. work' \in [Tables -> {"wait", "busy", "done", "failed"}]
      BY <2>3 DEF ExportEnds, AllWaits
    <3>2. \A t \in Tables : work'[t] # "busy"
      BY <2>3 DEF ExportEnds, AllWaits
    <3>3. Cardinality({t \in Tables : work'[t] = "busy"}) <= Parallel
      BY <3>2, FewerBusy
    <3>4. pc' \in {"dataEnd", "import"} /\ err' \in BOOLEAN /\ UNCHANGED <<bad, result>>
      BY <2>3 DEF ExportEnds, DataFailsWith
    <3> QED
      BY <2>3, <3>1, <3>3, <3>4 DEF ExportEnds
  <2>4. CASE LightningImports
    <3>1. target' \in [Tables -> SUBSET Rows]
      BY <2>4 DEF LightningImports, Base, InCsv, Rows
    <3> QED
      BY <2>4, <3>1 DEF LightningImports
  <2>5. CASE LightningFails
    <3>1. target' \in [Tables -> SUBSET Rows]
      <4>1. CASE UNCHANGED target
        BY <4>1
      <4>2. CASE \E S \in SUBSET Tables :
              target' = [t \in Tables |-> Base(t) \cup IF t \in S THEN InCsv(t) ELSE {}]
        BY <4>2 DEF Base, InCsv, Rows
      <4> QED
        BY <2>5, <4>1, <4>2 DEF LightningFails
    <3> QED
      BY <2>5, <3>1 DEF LightningFails
  <2>6. ASSUME NEW t \in Tables, ExportStarts(t) PROVE TypeOK'
    <3>1. dm' \in Ckpt /\ file' = dm'
      BY <2>6, MarkedType DEF ExportStarts, TState
    <3>2. Cardinality({u \in Tables : work'[u] = "busy"}) <= Parallel
      BY <2>6, OneMoreBusy DEF ExportStarts
    <3> QED
      BY <2>6, <3>1, <3>2 DEF ExportStarts
  <2>7. ASSUME NEW t \in Tables, ExportWrites(t) PROVE TypeOK'
    BY <2>7 DEF ExportWrites
  <2>8. ASSUME NEW t \in Tables, ExportCompletes(t) PROVE TypeOK'
    <3>1. dm' \in Ckpt /\ file' = dm'
      BY <2>8, MarkedType DEF ExportCompletes, TState
    <3>2. Cardinality({u \in Tables : work'[u] = "busy"}) <= Parallel
      BY <2>8, FewerBusy DEF ExportCompletes
    <3> QED
      BY <2>8, <3>1, <3>2 DEF ExportCompletes
  <2>9. ASSUME NEW t \in Tables, ExportFails(t) PROVE TypeOK'
    <3>1. dm' \in Ckpt /\ file' = dm'
      BY <2>9, MarkedType DEF ExportFails, TState
    <3>2. Cardinality({u \in Tables : work'[u] = "busy"}) <= Parallel
      BY <2>9, FewerBusy DEF ExportFails
    <3> QED
      BY <2>9, <3>1, <3>2 DEF ExportFails
  <2> QED
    BY <1>2, <2>1, <2>2, <2>3, <2>4, <2>5, <2>6, <2>7, <2>8, <2>9 DEF Exports
<1>3. CASE Streams
  <2>1. CASE StreamOpens
    <3>1. target' \in [Tables -> SUBSET Rows]
      BY <2>1 DEF StreamOpens, Base
    <3>2. /\ work' \in [Tables -> {"wait", "busy", "done", "failed"}]
          /\ next' \in [Tables -> 0..Cardinality(Rows)]
          /\ \A t \in Tables : work'[t] # "busy"
      BY <2>1 DEF StreamOpens, AllWaits
    <3>3. Cardinality({t \in Tables : work'[t] = "busy"}) <= Parallel
      BY <3>2, FewerBusy
    <3>4. plain' \in BOOLEAN
      <4> HIDE DEF TypeOK
      <4> QED
        BY <2>1, Zenon DEF StreamOpens
    <3>6. faults' \in 0..MaxFaults
      <4> HIDE DEF TypeOK, Fault
      <4>1. UNCHANGED faults \/ Fault
        BY <2>1, Zenon DEF StreamOpens
      <4> QED
        BY <4>1 DEF TypeOK, Fault
    <3>5. pc = "sql" /\ pc' = "stream" /\ UNCHANGED <<cfg, file, om, dm, csv, err, bad, result, fresh>>
      BY <2>1 DEF StreamOpens
    <3> QED
      BY <3>1, <3>2, <3>3, <3>4, <3>5, <3>6
  <2>2. CASE StreamOpenFails
    <3>1. target' \in [Tables -> SUBSET Rows]
      BY <2>2 DEF StreamOpenFails, Base
    <3> QED
      BY <2>2, <3>1 DEF StreamOpenFails, DataFailsWith
  <2>3. CASE StreamEnds
    <3>1. /\ work' \in [Tables -> {"wait", "busy", "done", "failed"}]
          /\ next' \in [Tables -> 0..Cardinality(Rows)]
      BY <2>3 DEF StreamEnds, AllWaits
    <3>2. \A t \in Tables : work'[t] # "busy"
      BY <2>3 DEF StreamEnds, AllWaits
    <3>3. Cardinality({t \in Tables : work'[t] = "busy"}) <= Parallel
      BY <3>2, FewerBusy
    <3>4. pc' = "dataEnd" /\ err' \in BOOLEAN /\ UNCHANGED <<bad, result>>
      BY <2>3 DEF StreamEnds, DataFailsWith
    <3> QED
      BY <2>3, <3>1, <3>3, <3>4 DEF StreamEnds
  <2>4. ASSUME NEW t \in Tables, StreamStarts(t) PROVE TypeOK'
    <3>1. dm' \in Ckpt /\ file' = dm'
      BY <2>4, MarkedType DEF StreamStarts, TState
    <3>2. Cardinality({u \in Tables : work'[u] = "busy"}) <= Parallel
      BY <2>4, OneMoreBusy DEF StreamStarts
    <3> QED
      BY <2>4, <3>1, <3>2 DEF StreamStarts
  <2>5. ASSUME NEW t \in Tables, BatchInserted(t) PROVE TypeOK'
    <3>1. next[t] + 1 \in 1..2
      BY <2>5 DEF BatchInserted, More
    <3>2. target' \in [Tables -> SUBSET Rows] /\ next' \in [Tables -> 0..Cardinality(Rows)]
      BY <2>5, <3>1 DEF BatchInserted, Rows
    <3> QED
      BY <2>5, <3>2 DEF BatchInserted
  <2>6. ASSUME NEW t \in Tables, BatchFails(t) PROVE TypeOK'
    <3>1. next[t] + 1 \in 1..2
      BY <2>6 DEF BatchFails, More
    <3>2. target' \in [Tables -> SUBSET Rows] /\ faults' \in 0..MaxFaults
      BY <2>6, <3>1 DEF BatchFails, Rows
    <3>3. dm' \in Ckpt /\ file' = dm'
      <4>1. CASE cfg.skip
        BY <2>6, <4>1 DEF BatchFails, BatchError, More
      <4>2. CASE ~cfg.skip
        BY <2>6, <4>2, MarkedType DEF BatchFails, BatchError, TState
      <4> QED
        BY <4>1, <4>2
    <3>4. next' \in [Tables -> 0..Cardinality(Rows)]
      BY <2>6, <3>1 DEF BatchFails, BatchError
    <3>5. work' \in [Tables -> {"wait", "busy", "done", "failed"}]
      BY <2>6 DEF BatchFails, BatchError
    <3>6. \A u \in Tables : work'[u] = "busy" => work[u] = "busy"
      BY <2>6 DEF BatchFails, BatchError
    <3>7. Cardinality({u \in Tables : work'[u] = "busy"}) <= Parallel
      BY <3>6, FewerBusy
    <3> QED
      BY <2>6, <3>2, <3>3, <3>4, <3>5, <3>7 DEF BatchFails
  <2>7. ASSUME NEW t \in Tables, ReadFails(t) PROVE TypeOK'
    <3>1. dm' \in Ckpt /\ file' = dm'
      BY <2>7, MarkedType DEF ReadFails, TState
    <3>2. Cardinality({u \in Tables : work'[u] = "busy"}) <= Parallel
      BY <2>7, FewerBusy DEF ReadFails
    <3> QED
      BY <2>7, <3>1, <3>2 DEF ReadFails
  <2>8. ASSUME NEW t \in Tables, StreamCompletes(t) PROVE TypeOK'
    <3>1. dm' \in Ckpt /\ file' = dm'
      BY <2>8, MarkedType DEF StreamCompletes, TState
    <3>2. Cardinality({u \in Tables : work'[u] = "busy"}) <= Parallel
      BY <2>8, FewerBusy DEF StreamCompletes
    <3> QED
      BY <2>8, <3>1, <3>2 DEF StreamCompletes
  <2> QED
    BY <1>3, <2>1, <2>2, <2>3, <2>4, <2>5, <2>6, <2>7, <2>8 DEF Streams
<1>4. CASE Killed
  BY <1>4, ReturnsType, BlankType DEF Killed
<1>5. CASE UNCHANGED vars
  BY <1>5 DEF vars
<1> QED
  BY <1>1, <1>2, <1>3, <1>4, <1>5 DEF Next

\* Every state of a migration is well typed: in particular never more goroutines
\* than Migration.Parallel export or stream, and while they do, the file is the
\* migrator's own copy.
THEOREM TypeCorrect == Spec => []TypeOK
BY TypeInit, TypeStep, PTL DEF Spec

-----------------------------------------------------------------------------
(* What every step of the orchestrator, or of the data migrator, leaves alone. *)

\* The three ways finishPhase is reached.
LEMMA PhaseOver ==
  ASSUME Prechecked \/ SchemaApplied \/ Validated
  PROVE  \E p \in {"precheck", "schema", "validate"}, ok \in BOOLEAN : pc = p /\ PhaseEnds(p, ok)
BY Zenon DEF Prechecked, SchemaApplied, Validated

\* A step of Run: the CSVs are not its business, it writes its own copy or none,
\* and what is completed in that copy was so before, there or in the file.
LEMMA RunFrame ==
  ASSUME TypeOK, Orchestrates
  PROVE  /\ UNCHANGED <<cfg, dm, csv>>
         /\ pc' \in Phase \cup {"idle", "open", "finish"}
         /\ file' = om' \/ file' = NoFile \/ UNCHANGED <<om, file, pc>>
         /\ \A t \in Tables : om'.tab[t] = "completed" =>
              \/ om.tab[t] = "completed"
              \/ file # NoFile /\ file.tab[t] = "completed"
         /\ file # NoFile /\ (file = om \/ pc \in {"idle", "dataEnd"}) =>
              \A t \in Tables : file.tab[t] = "completed" => om'.tab[t] = "completed"
<1> USE PhaseNames DEF OmSaves, ctl
<1>1. CASE RunStarts
  <2>1. /\ UNCHANGED <<cfg, dm, csv>> /\ pc = "idle" /\ pc' = "precheck" /\ file' = om'
        /\ om'.tab = Load(Blank).tab
    BY <1>1, BlankType, LoadType DEF RunStarts, Ckpt, TypeOK
  <2>2. \A t \in Tables : Blank.tab[t] = "none"
    BY DEF Blank
  <2> QED
    BY <2>1, <2>2, BlankType, LoadType DEF TypeOK
<1>2. ASSUME NEW p \in {"precheck", "schema"}, PhaseBegins(p)
      PROVE  /\ UNCHANGED <<cfg, dm, csv, pc>> /\ pc = p /\ file' = om'
             /\ \A t \in Tables : om'.tab[t] = "completed" <=> om.tab[t] = "completed"
  BY <1>2, PhasedType, RegisteredType DEF PhaseBegins, TState, TypeOK
<1>3. CASE Prechecked \/ SchemaApplied \/ Validated
  <2>1. PICK p \in {"precheck", "schema", "validate"}, ok \in BOOLEAN : pc = p /\ PhaseEnds(p, ok)
    BY <1>3, PhaseOver
  <2>2. UNCHANGED <<cfg, dm, csv>> /\ file' = om' /\ om'.tab = om.tab
    BY <2>1, PhasedType DEF PhaseEnds, TState, TypeOK
  <2>3. pc' \in Phase \cup {"idle", "open", "finish"}
    BY <2>1 DEF PhaseEnds, Returns, NextPc
  <2> QED
    BY <2>1, <2>2, <2>3
<1>4. ASSUME NEW t \in Tables, Recreates(t) PROVE UNCHANGED <<cfg, dm, csv, om, file, pc>> /\ pc = "schema"
  BY <1>4 DEF Recreates
<1>5. CASE ClearsCheckpoint
  BY <1>5 DEF ClearsCheckpoint
<1>6. CASE DataBegins
  <2>1. file' = om' /\ om'.tab = om.tab
    BY <1>6, PhasedType DEF DataBegins, TState, TypeOK
  <2> QED
    BY <1>6, <2>1 DEF DataBegins
<1>7. CASE DataEnds
  <2>1. file' = om' /\ om'.tab = Load(om).tab
    BY <1>7, PhasedType, LoadType DEF DataEnds, TState, TypeOK
  <2>2. UNCHANGED <<cfg, dm, csv>> /\ pc = "dataEnd" /\ pc' \in {"validate", "idle"}
    BY <1>7 DEF DataEnds, Returns
  <2> QED
    BY <2>1, <2>2, LoadType DEF TypeOK
<1>8. CASE ValidateBegins
  <2>1. file' = om' /\ om'.tab = Load(om).tab
    BY <1>8, PhasedType, LoadType DEF ValidateBegins, TState, TypeOK
  <2> QED
    BY <1>8, <2>1, LoadType DEF TypeOK, ValidateBegins
<1>9. CASE RunCompletes
  <2>1. file' = om' /\ om' = Load(om) /\ UNCHANGED <<cfg, dm, csv>> /\ pc' = "idle"
    BY <1>9 DEF RunCompletes, Returns
  <2> QED
    BY <2>1, LoadType DEF TypeOK
<1> QED
  BY <1>1, <1>2, <1>3, <1>4, <1>5, <1>6, <1>7, <1>8, <1>9 DEF Orchestrates

\* The migrator is started with the orchestrator's copy in the file.
LEMMA OpensSaved ==
  ASSUME Orchestrates, pc' = "open"
  PROVE  file' = om'
<1>1. CASE DataBegins
  BY <1>1 DEF DataBegins, OmSaves
<1>2. CASE Prechecked \/ SchemaApplied \/ Validated
  <2>1. PICK p \in {"precheck", "schema", "validate"}, ok \in BOOLEAN : pc = p /\ PhaseEnds(p, ok)
    BY <1>2, PhaseOver
  <2> QED
    BY <2>1 DEF PhaseEnds, OmSaves
<1> QED
  BY <1>1, <1>2 DEF Orchestrates, RunStarts, PhaseBegins, Recreates, ClearsCheckpoint, DataEnds,
    ValidateBegins, RunCompletes, Returns, ctl

\* A step of data.Migrator: it leaves the orchestrator's copy alone, starts no
\* phase and, outside its loops, takes no completed table back.
LEMMA DataFrame ==
  ASSUME TypeOK, Exports \/ Streams
  PROVE  /\ UNCHANGED <<cfg, om, bad, result>>
         /\ pc \in {"open", "export", "import", "sql", "stream"}
         /\ pc' \in {"export", "import", "sql", "stream", "dataEnd"}
         /\ file' # NoFile =>
              \A p \in Phase : file'.ph[p] = "running" => file # NoFile /\ file.ph[p] = "running"
         /\ pc \notin {"export", "stream"} /\ file # NoFile =>
              \A t \in Tables : file.tab[t] = "completed" => file'.tab[t] = "completed"
<1> DEFINE Kept == \A p \in Phase : file'.ph[p] = "running" => file # NoFile /\ file.ph[p] = "running"
<1> USE DEF DmSaves, ctl
<1>1. CASE MigratorStarts
  <2>1. file' = Registered(Load(Blank)) /\ UNCHANGED <<cfg, om, bad, result>>
        /\ pc = "open" /\ pc' \in {"export", "sql"}
    BY <1>1 DEF MigratorStarts
  <2>2. \A p \in Phase : Blank.ph[p] = "none"
    BY DEF Blank
  <2>3. Kept
    BY <2>1, <2>2, BlankType, LoadType, RegisteredType DEF TypeOK
  <2>4. file # NoFile => \A t \in Tables : file.tab[t] = "completed" => file'.tab[t] = "completed"
    BY <2>1, BlankType, LoadType, RegisteredType DEF TypeOK
  <2> QED
    BY <2>1, <2>3, <2>4
<1>2. CASE MigratorFails
  BY <1>2 DEF MigratorFails, DataFailsWith
<1>3. CASE ExportEnds
  BY <1>3 DEF ExportEnds, DataFailsWith
<1>4. CASE LightningImports
  BY <1>4 DEF LightningImports
<1>5. CASE LightningFails
  BY <1>5 DEF LightningFails
<1>6. CASE StreamOpens
  BY <1>6 DEF StreamOpens
<1>7. CASE StreamOpenFails
  BY <1>7 DEF StreamOpenFails, DataFailsWith
<1>8. CASE StreamEnds
  BY <1>8 DEF StreamEnds, DataFailsWith
<1>9. ASSUME NEW t \in Tables,
             \/ ExportStarts(t) \/ ExportCompletes(t) \/ ExportFails(t)
             \/ StreamStarts(t) \/ ReadFails(t) \/ StreamCompletes(t)
      PROVE  UNCHANGED <<cfg, om, bad, result, pc>> /\ pc \in {"export", "stream"} /\ Kept
  <2>1. PICK st \in TState : file' = Marked(dm, t, st)
    BY <1>9 DEF ExportStarts, ExportCompletes, ExportFails, StreamStarts, ReadFails,
                StreamCompletes, TState
  <2>2. UNCHANGED <<cfg, om, bad, result, pc>> /\ pc \in {"export", "stream"}
    BY <1>9 DEF ExportStarts, ExportCompletes, ExportFails, StreamStarts, ReadFails, StreamCompletes
  <2>3. file = dm /\ dm \in Ckpt
    BY <2>2 DEF TypeOK
  <2>4. file'.ph = file.ph /\ file # NoFile
    BY <2>1, <2>3, MarkedType, NoFileIsNoCkpt
  <2> QED
    BY <2>2, <2>4
<1>10. ASSUME NEW t \in Tables, ExportWrites(t) \/ BatchInserted(t) \/ BatchFails(t)
       PROVE  UNCHANGED <<cfg, om, bad, result, pc>> /\ pc \in {"export", "stream"} /\ Kept
  <2>1. UNCHANGED <<cfg, om, bad, result, pc>> /\ pc \in {"export", "stream"}
    BY <1>10 DEF ExportWrites, BatchInserted, BatchFails, More
  <2>2. UNCHANGED file \/ file' = Marked(dm, t, "failed")
    BY <1>10 DEF ExportWrites, BatchInserted, BatchFails, BatchError
  <2>3. file = dm /\ dm \in Ckpt
    BY <2>1 DEF TypeOK
  <2>4. file # NoFile
    BY <2>3, NoFileIsNoCkpt
  <2>5. "failed" \in TState
    BY DEF TState
  <2>6. file'.ph = file.ph
    BY <2>2, <2>3, <2>5, MarkedType
  <2> QED
    BY <2>1, <2>4, <2>6
<1>11. CASE \E t \in Tables : \/ ExportStarts(t) \/ ExportCompletes(t) \/ ExportFails(t)
                              \/ StreamStarts(t) \/ ReadFails(t) \/ StreamCompletes(t)
  BY <1>9, <1>11
<1>12. CASE \E t \in Tables : ExportWrites(t) \/ BatchInserted(t) \/ BatchFails(t)
  BY <1>10, <1>12
<1> QED
  BY <1>1, <1>2, <1>3, <1>4, <1>5, <1>6, <1>7, <1>8, <1>11, <1>12 DEF Exports, Streams

-----------------------------------------------------------------------------
(* The two copies of the checkpoint. *)

\* Until the migrator writes, and again after its end, the file, if there is
\* one, is the orchestrator's copy; the migrator finds one.
ICopies ==
  /\ pc \in Phase \cup {"finish"} /\ file # NoFile => file = om
  /\ pc = "open" => file = om

LEMMA CopiesStep == TypeOK /\ ICopies /\ [Next]_vars => ICopies'
<1> SUFFICES ASSUME TypeOK, ICopies, [Next]_vars PROVE ICopies'
  OBVIOUS
<1> USE PhaseNames DEF ICopies
<1>1. CASE Orchestrates
  BY <1>1, RunFrame, OpensSaved
<1>2. CASE Exports \/ Streams
  BY <1>2, DataFrame
<1>3. CASE Killed
  BY <1>3 DEF Killed, Returns
<1>4. CASE UNCHANGED vars
  BY <1>4 DEF vars, ctl
<1> QED
  BY <1>1, <1>2, <1>3, <1>4 DEF Next

LEMMA ProgressKept ==
  TypeOK /\ ICopies /\ [Next]_vars =>
    [file # NoFile /\ file' # NoFile /\ pc \notin {"export", "stream"} =>
       \A t \in Tables : file.tab[t] = "completed" => file'.tab[t] = "completed"]_vars
<1> SUFFICES ASSUME TypeOK, ICopies, Next,
                    file # NoFile, file' # NoFile, pc \notin {"export", "stream"},
                    NEW t \in Tables, file.tab[t] = "completed"
             PROVE  file'.tab[t] = "completed"
  OBVIOUS
<1>1. CASE Orchestrates
  <2>1. file = om \/ pc \in {"idle", "dataEnd"}
    <3>1. pc \in Phase \cup {"idle", "open", "export", "import", "sql", "stream", "dataEnd", "finish"}
      BY DEF TypeOK
    <3>2. pc \notin {"import", "sql"}
      BY <1>1, PhaseNames DEF Orchestrates, RunStarts, PhaseBegins, Prechecked, Recreates,
        SchemaApplied, ClearsCheckpoint, DataBegins, DataEnds, ValidateBegins, Validated, RunCompletes
    <3> QED
      BY <3>1, <3>2 DEF ICopies
  <2> QED
    BY <1>1, <2>1, RunFrame
<1>2. CASE Exports \/ Streams
  BY <1>2, DataFrame
<1>3. CASE Killed
  BY <1>3 DEF Killed
<1> QED
  BY <1>1, <1>2, <1>3 DEF Next

\* Outside the migrator's loops no write of the checkpoint file, by either copy,
\* takes back a completed table.
THEOREM ProgressIsKept == Spec => NoProgressLost
<1>1. Init => ICopies
  BY DEF Init, ICopies
<1> QED
  BY <1>1, TypeInit, TypeStep, CopiesStep, ProgressKept, PTL DEF Spec, NoProgressLost

-----------------------------------------------------------------------------
(* Phases. *)

\* The phase a point of Run belongs to.
Current == IF pc \in Phase THEN {pc}
           ELSE IF pc \in {"idle", "finish"} THEN {} ELSE {"data"}

\* NoPhaseLeftRunning, and at every point of a run only its own phase runs, in
\* the file and in the orchestrator's copy.
IPhases ==
  /\ pc # "idle" =>
       /\ \A p \in Phase : om.ph[p] = "running" => p \in Current
       /\ file # NoFile => \A p \in Phase : file.ph[p] = "running" => p \in Current
  /\ NoPhaseLeftRunning

LEMMA PhasesStep == TypeOK /\ IPhases /\ [Next]_vars => IPhases'
<1> SUFFICES ASSUME TypeOK, IPhases, [Next]_vars PROVE IPhases'
  OBVIOUS
<1> USE PhaseNames, NoFileIsNoCkpt DEF IPhases, NoPhaseLeftRunning, Current, OmSaves, ctl
<1>t. om \in Ckpt /\ file \in Ckpt \cup {NoFile}
  BY DEF TypeOK
<1>1. CASE Orchestrates
  <2>1. CASE RunStarts
    <3>1. om' = [Load(Blank) EXCEPT !.ph = [p \in Phase |-> "pending"]] /\ pc' = "precheck"
          /\ file' = om'
      BY <2>1 DEF RunStarts
    <3>2. \A p \in Phase : om'.ph[p] = "pending"
      BY <1>t, <3>1, BlankType, LoadType DEF Ckpt
    <3> QED
      BY <3>1, <3>2
  <2>2. ASSUME NEW p \in {"precheck", "schema"}, PhaseBegins(p) PROVE IPhases'
    <3>1. \A q \in Phase : om'.ph[q] = IF q = p THEN "running" ELSE om.ph[q]
      BY <1>t, <2>2, PhasedType, RegisteredType DEF PhaseBegins, TState
    <3> QED
      BY <2>2, <3>1 DEF PhaseBegins
  <2>3. CASE Prechecked \/ SchemaApplied \/ Validated
    <3>1. PICK p \in {"precheck", "schema", "validate"}, ok \in BOOLEAN : pc = p /\ PhaseEnds(p, ok)
      BY <2>3, PhaseOver
    <3>2. PICK st \in {"completed", "failed"} : om' = Phased(om, p, st) /\ file' = om'
      BY <3>1 DEF PhaseEnds
    <3>3. om' \in Ckpt /\ \A q \in Phase : om'.ph[q] # "running"
      BY <1>t, <3>1, <3>2, PhasedType DEF TState
    <3> QED
      BY <3>2, <3>3
  <2>4. ASSUME NEW t \in Tables, Recreates(t) PROVE IPhases'
    BY <2>4 DEF Recreates
  <2>5. CASE ClearsCheckpoint
    BY <2>5 DEF ClearsCheckpoint
  <2>6. CASE DataBegins
    <3>1. \A q \in Phase : om'.ph[q] = IF q = "data" THEN "running" ELSE om.ph[q]
      BY <1>t, <2>6, PhasedType DEF DataBegins, TState
    <3> QED
      BY <2>6, <3>1 DEF DataBegins
  <2>7. CASE DataEnds
    <3>1. PICK st \in {"completed", "failed"} : om' = Phased(Load(om), "data", st) /\ file' = om'
      BY <2>7 DEF DataEnds
    <3>2. \A q \in Phase : Load(om).ph[q] = "running" => q = "data"
      BY <1>t, <2>7, LoadType DEF DataEnds
    <3>3. om' \in Ckpt /\ \A q \in Phase : om'.ph[q] # "running"
      BY <1>t, <3>1, <3>2, PhasedType, LoadType DEF TState
    <3> QED
      BY <3>1, <3>3
  <2>8. CASE ValidateBegins
    <3>1. \A q \in Phase : Load(om).ph[q] = "running" => q = "validate"
      BY <1>t, <2>8, LoadType DEF ValidateBegins
    <3>2. \A q \in Phase : om'.ph[q] = "running" => q = "validate"
      BY <1>t, <2>8, <3>1, PhasedType, LoadType DEF ValidateBegins, TState
    <3> QED
      BY <2>8, <3>2 DEF ValidateBegins
  <2>9. CASE RunCompletes
    <3>1. om' = Load(om) /\ file' = om'
      BY <2>9 DEF RunCompletes
    <3>2. om' \in Ckpt /\ \A q \in Phase : om'.ph[q] # "running"
      BY <1>t, <2>9, <3>1, LoadType DEF RunCompletes
    <3> QED
      BY <3>1, <3>2
  <2> QED
    BY <1>1, <2>1, <2>2, <2>3, <2>4, <2>5, <2>6, <2>7, <2>8, <2>9 DEF Orchestrates
<1>2. CASE Exports \/ Streams
  BY <1>2, DataFrame
<1>3. CASE Killed
  BY <1>3 DEF Killed, Returns
<1>4. CASE UNCHANGED vars
  BY <1>4 DEF vars
<1> QED
  BY <1>1, <1>2, <1>3, <1>4 DEF Next

\* When Run has returned, with or without an error, no phase of the checkpoint
\* file is left running.
THEOREM PhasesAreFinished == Spec => []NoPhaseLeftRunning
<1>1. Init => IPhases
  BY DEF Init, IPhases, NoPhaseLeftRunning
<1>2. IPhases => NoPhaseLeftRunning
  BY DEF IPhases
<1> QED
  BY <1>1, <1>2, TypeInit, TypeStep, PhasesStep, PTL DEF Spec

-----------------------------------------------------------------------------
(* What "completed" is worth (Lightning, OnError abort). *)

\* Every table this copy of the checkpoint calls completed has its whole CSV.
Sound(c) == \A t \in Tables : c.tab[t] = "completed" => csv[t] = "full"

\* CompletedIsExported, also for the orchestrator's copy; a table whose CSV is
\* being written is completed in neither copy; after the export every CSV is whole.
IExport ==
  cfg.lightning /\ ~cfg.skip =>
    /\ file # NoFile => Sound(file)
    /\ Sound(om)
    /\ pc = "export" => \A t \in Tables :
         IF work[t] = "done" THEN csv[t] = "full"
         ELSE om.tab[t] # "completed" /\ dm.tab[t] # "completed"
    /\ pc \in {"import", "sql", "stream"} => \A t \in Tables : csv[t] = "full"

LEMMA ExportStep == TypeOK /\ ICopies /\ IExport /\ [Next]_vars => IExport'
<1> SUFFICES ASSUME TypeOK, ICopies, IExport, [Next]_vars,
                    cfg'.lightning, ~cfg'.skip
             PROVE  IExport'
  BY DEF IExport
<1> USE NoFileIsNoCkpt DEF DmSaves, ctl, jobs
<1>c. cfg' = cfg
  BY RunFrame, DataFrame DEF Next, Killed, vars
<1>i. /\ file # NoFile => Sound(file)
      /\ Sound(om)
      /\ pc = "export" => \A t \in Tables :
           IF work[t] = "done" THEN csv[t] = "full"
           ELSE om.tab[t] # "completed" /\ dm.tab[t] # "completed"
      /\ pc \in {"import", "sql", "stream"} => \A t \in Tables : csv[t] = "full"
  BY <1>c DEF IExport
<1>t. /\ dm \in Ckpt /\ om \in Ckpt /\ file \in Ckpt \cup {NoFile}
      /\ csv \in [Tables -> {"none", "part", "full"}]
      /\ work \in [Tables -> {"wait", "busy", "done", "failed"}]
      /\ pc \in {"export", "import", "sql", "stream"} => file = dm
  BY DEF TypeOK
<1>1. CASE Orchestrates
  BY <1>1, <1>i, RunFrame, PhaseNames DEF IExport, Sound
<1>2. CASE Exports
  <2>o. UNCHANGED om
    BY <1>2, DataFrame
  <2>1. CASE MigratorStarts
    <3>1. file = om /\ file # NoFile
      BY <1>t, <2>1 DEF MigratorStarts, ICopies
    <3>2. dm' = Registered(Load(Blank)) /\ file' = dm' /\ csv' = csv /\ pc' = "export"
          /\ work' = [t \in Tables |-> IF dm'.tab[t] = "completed" THEN "done" ELSE "wait"]
      BY <1>c, <2>1 DEF MigratorStarts
    <3>3. \A t \in Tables : Blank.tab[t] = "none"
      BY DEF Blank
    <3>4. \A t \in Tables : dm'.tab[t] = "completed" <=> file.tab[t] = "completed"
      BY <1>t, <3>1, <3>2, <3>3, BlankType, LoadType, RegisteredType
    <3> QED
      BY <1>i, <2>o, <3>1, <3>2, <3>4 DEF IExport, Sound
  <2>2. CASE MigratorFails
    BY <1>i, <2>2 DEF MigratorFails, DataFailsWith, IExport, Sound
  <2>3. CASE ExportEnds
    BY <1>c, <1>i, <1>t, <2>3 DEF ExportEnds, DataFailsWith, IExport, Sound
  <2>4. CASE LightningImports
    BY <1>i, <2>4 DEF LightningImports, IExport, Sound
  <2>5. CASE LightningFails
    BY <1>i, <2>5 DEF LightningFails, IExport, Sound
  <2>6. ASSUME NEW t \in Tables, ExportStarts(t) PROVE IExport'
    <3>1. /\ pc = "export" /\ pc' = "export" /\ work[t] = "wait"
          /\ dm' = Marked(dm, t, "running") /\ file' = dm'
          /\ csv' = [csv EXCEPT ![t] = "part"] /\ work' = [work EXCEPT ![t] = "busy"]
      BY <2>6 DEF ExportStarts
    <3>2. \A u \in Tables : dm'.tab[u] = IF u = t THEN "running" ELSE dm.tab[u]
      <4>1. "running" \in TState /\ dm \in Ckpt /\ dm' = Marked(dm, t, "running")
        BY <1>t, <3>1 DEF TState
      <4> QED
        BY <4>1, MarkedType
    <3>3. \A u \in Tables : IF work'[u] = "done" THEN csv'[u] = "full"
                           ELSE om'.tab[u] # "completed" /\ dm'.tab[u] # "completed"
      BY <1>i, <1>t, <2>o, <3>1, <3>2
    <3> QED
      BY <3>1, <3>3 DEF IExport, Sound
  <2>7. ASSUME NEW t \in Tables, ExportWrites(t) PROVE IExport'
    BY <1>i, <1>t, <2>7 DEF ExportWrites, IExport, Sound
  <2>8. ASSUME NEW t \in Tables, ExportCompletes(t) PROVE IExport'
    <3>1. /\ pc = "export" /\ pc' = "export" /\ csv[t] = "full" /\ csv' = csv
          /\ dm' = Marked(dm, t, "completed") /\ file' = dm'
          /\ work' = [work EXCEPT ![t] = "done"]
      BY <2>8 DEF ExportCompletes
    <3>2. \A u \in Tables : dm'.tab[u] = IF u = t THEN "completed" ELSE dm.tab[u]
      <4>1. "completed" \in TState /\ dm \in Ckpt /\ dm' = Marked(dm, t, "completed")
        BY <1>t, <3>1 DEF TState
      <4> QED
        BY <4>1, MarkedType
    <3>3. \A u \in Tables : IF work'[u] = "done" THEN csv'[u] = "full"
                           ELSE om'.tab[u] # "completed" /\ dm'.tab[u] # "completed"
      BY <1>i, <1>t, <2>o, <3>1, <3>2
    <3> QED
      BY <3>1, <3>3 DEF IExport, Sound
  <2>9. ASSUME NEW t \in Tables, ExportFails(t) PROVE IExport'
    <3>1. /\ pc = "export" /\ pc' = "export" /\ work[t] \in {"wait", "busy"} /\ csv' = csv
          /\ dm' = Marked(dm, t, "failed") /\ file' = dm'
          /\ work' = [work EXCEPT ![t] = "failed"]
      BY <2>9 DEF ExportFails
    <3>2. \A u \in Tables : dm'.tab[u] = IF u = t THEN "failed" ELSE dm.tab[u]
      <4>1. "failed" \in TState /\ dm \in Ckpt /\ dm' = Marked(dm, t, "failed")
        BY <1>t, <3>1 DEF TState
      <4> QED
        BY <4>1, MarkedType
    <3>3. \A u \in Tables : IF work'[u] = "done" THEN csv'[u] = "full"
                           ELSE om'.tab[u] # "completed" /\ dm'.tab[u] # "completed"
      BY <1>i, <1>t, <2>o, <3>1, <3>2
    <3> QED
      BY <3>1, <3>3 DEF IExport, Sound
  <2> QED
    BY <1>2, <2>1, <2>2, <2>3, <2>4, <2>5, <2>6, <2>7, <2>8, <2>9 DEF Exports
<1>3. CASE Streams
  \* The CSVs are left alone, and all of them are whole.
  <2>1. pc \in {"sql", "stream"} /\ pc' \in {"stream", "dataEnd"} /\ UNCHANGED <<csv, om>>
    BY <1>3 DEF Streams, StreamOpens, StreamOpenFails, StreamEnds, StreamStarts, BatchInserted,
      BatchFails, ReadFails, StreamCompletes, More, DataFailsWith
  <2> QED
    BY <1>i, <2>1 DEF IExport, Sound
<1>4. CASE Killed
  <2>1. \A t \in Tables : om'.tab[t] = "none"
    BY <1>4 DEF Killed, Blank
  <2> QED
    BY <1>4, <1>i, <2>1 DEF Killed, Returns, IExport, Sound
<1>5. CASE UNCHANGED vars
  BY <1>5 DEF vars, IExport, Sound
<1> QED
  BY <1>1, <1>2, <1>3, <1>4, <1>5 DEF Next

\* A table the checkpoint calls completed has its whole CSV on disk.
THEOREM CompletedHasCsv == Spec => []CompletedIsExported
<1>1. Init => ICopies /\ IExport
  BY DEF Init, ICopies, IExport, Sound, Blank
<1>2. IExport => CompletedIsExported
  BY DEF IExport, Sound, CompletedIsExported
<1> QED
  BY <1>1, <1>2, TypeInit, TypeStep, CopiesStep, ExportStep, PTL DEF Spec

-----------------------------------------------------------------------------
(* What success is worth (OnError abort). *)

\* DoneIsMigrated, with what is already in TiDB at each point of a run.
IDone ==
  ~cfg.skip =>
    /\ pc # "idle" => result = "none"
    /\ pc \in {"export", "import"} => cfg.lightning
    /\ pc = "stream" => \A t \in Tables :
         /\ \A b \in Rows : b <= next[t] => b \in target[t]
         /\ work[t] = "done" => next[t] = 2
    /\ \/ result = "ok"
       \/ pc = "dataEnd" /\ ~err
       \/ pc \in {"validate", "finish"} /\ ~bad
       => \A t \in Tables : Full(t)

LEMMA DoneStep == TypeOK /\ IExport /\ IDone /\ [Next]_vars => IDone'
<1> SUFFICES ASSUME TypeOK, IExport, IDone, [Next]_vars, ~cfg'.skip
             PROVE  IDone'
  BY DEF IDone
<1> USE RowsCount DEF ctl, jobs, Full, Rows
<1>c. cfg' = cfg
  BY RunFrame, DataFrame DEF Next, Killed, vars
<1>i. /\ pc # "idle" => result = "none"
      /\ pc \in {"export", "import"} => cfg.lightning
      /\ pc = "stream" => \A t \in Tables :
           /\ \A b \in Rows : b <= next[t] => b \in target[t]
           /\ work[t] = "done" => next[t] = 2
      /\ \/ result = "ok"
         \/ pc = "dataEnd" /\ ~err
         \/ pc \in {"validate", "finish"} /\ ~bad
         => \A t \in Tables : Full(t)
  BY <1>c DEF IDone
<1>t. /\ target \in [Tables -> SUBSET Rows]
      /\ work \in [Tables -> {"wait", "busy", "done", "failed"}]
      /\ next \in [Tables -> 0..2]
  BY DEF TypeOK
<1>1. CASE Orchestrates
  <2>1. CASE RunStarts
    BY <1>i, <2>1 DEF RunStarts, IDone
  <2>2. ASSUME NEW p \in {"precheck", "schema"}, PhaseBegins(p) PROVE IDone'
    BY <1>i, <2>2 DEF PhaseBegins, IDone
  <2>3. CASE Prechecked \/ SchemaApplied \/ Validated
    <3>1. PICK p \in {"precheck", "schema", "validate"}, ok \in BOOLEAN : pc = p /\ PhaseEnds(p, ok)
      BY <2>3, PhaseOver
    <3>2. CASE ok \/ cfg.cont
      <4>1. /\ pc' \in {"schema", "data", "finish"}
            /\ pc' = "finish" => pc = "validate"
            /\ ~bad' => ~bad
            /\ UNCHANGED <<result, target>>
        BY <3>1, <3>2 DEF PhaseEnds, NextPc
      <4> QED
        BY <1>i, <3>1, <4>1 DEF IDone
    <3>3. CASE ~(ok \/ cfg.cont)
      BY <3>1, <3>3 DEF PhaseEnds, Returns, IDone
    <3> QED
      BY <3>2, <3>3
  <2>4. ASSUME NEW t \in Tables, Recreates(t) PROVE IDone'
    BY <1>i, <2>4 DEF Recreates, IDone
  <2>5. CASE ClearsCheckpoint
    BY <1>i, <2>5 DEF ClearsCheckpoint, IDone
  <2>6. CASE DataBegins
    BY <1>i, <2>6 DEF DataBegins, IDone
  <2>7. CASE DataEnds
    <3>1. CASE ~err \/ cfg.cont
      BY <1>i, <2>7, <3>1 DEF DataEnds, IDone
    <3>2. CASE ~(~err \/ cfg.cont)
      BY <2>7, <3>2 DEF DataEnds, Returns, IDone
    <3> QED
      BY <3>1, <3>2
  <2>8. CASE ValidateBegins
    BY <1>i, <2>8 DEF ValidateBegins, IDone
  <2>9. CASE RunCompletes
    BY <1>i, <2>9 DEF RunCompletes, Returns, IDone
  <2> QED
    BY <1>1, <2>1, <2>2, <2>3, <2>4, <2>5, <2>6, <2>7, <2>8, <2>9 DEF Orchestrates
<1>2. CASE Exports
  <2>1. CASE MigratorStarts
    BY <1>c, <1>i, <2>1 DEF MigratorStarts, IDone
  <2>2. CASE MigratorFails
    BY <1>i, <2>2 DEF MigratorFails, DataFailsWith, IDone
  <2>3. CASE ExportEnds
    BY <1>c, <1>i, <2>3 DEF ExportEnds, DataFailsWith, IDone
  <2>4. CASE LightningImports
    <3>1. \A t \in Tables : csv[t] = "full"
      BY <1>c, <1>i, <2>4 DEF LightningImports, IExport
    <3>2. \A t \in Tables : target'[t] = Rows
      BY <1>t, <2>4, <3>1 DEF LightningImports, NoCsv, InCsv, Base
    <3> QED
      BY <1>i, <2>4, <3>2 DEF LightningImports, IDone
  <2>5. CASE LightningFails
    BY <1>i, <2>5 DEF LightningFails, IDone
  <2>6. ASSUME NEW t \in Tables, ExportStarts(t) PROVE IDone'
    BY <1>c, <1>i, <2>6 DEF ExportStarts, IDone
  <2>7. ASSUME NEW t \in Tables, ExportWrites(t) PROVE IDone'
    BY <1>c, <1>i, <2>7 DEF ExportWrites, IDone
  <2>8. ASSUME NEW t \in Tables, ExportCompletes(t) PROVE IDone'
    BY <1>c, <1>i, <2>8 DEF ExportCompletes, IDone
  <2>9. ASSUME NEW t \in Tables, ExportFails(t) PROVE IDone'
    BY <1>c, <1>i, <2>9 DEF ExportFails, IDone
  <2> QED
    BY <1>2, <2>1, <2>2, <2>3, <2>4, <2>5, <2>6, <2>7, <2>8, <2>9 DEF Exports
<1>3. CASE Streams
  <2>1. CASE StreamOpens
    BY <1>i, <2>1 DEF StreamOpens, AllWaits, IDone
  <2>2. CASE StreamOpenFails
    BY <1>i, <2>2 DEF StreamOpenFails, DataFailsWith, IDone
  <2>3. CASE StreamEnds
    <3>1. CASE \E t \in Tables : work[t] = "failed"
      BY <1>c, <1>i, <2>3, <3>1 DEF StreamEnds, DataFailsWith, IDone
    <3>2. CASE \A t \in Tables : work[t] # "failed"
      <4>1. \A t \in Tables : work[t] = "done"
        BY <2>3, <3>2 DEF StreamEnds, LoopEnds, Over
      <4>2. ASSUME NEW t \in Tables PROVE target[t] = Rows
        <5>1. next[t] = 2 /\ \A b \in Rows : b <= next[t] => b \in target[t]
          BY <1>i, <2>3, <4>1 DEF StreamEnds
        <5>2. 1 \in target[t] /\ 2 \in target[t]
          BY <5>1
        <5> QED
          BY <1>t, <5>2
      <4> QED
        BY <1>i, <2>3, <3>2, <4>2 DEF StreamEnds, IDone
    <3> QED
      BY <3>1, <3>2
  <2>4. ASSUME NEW t \in Tables, StreamStarts(t) PROVE IDone'
    BY <1>i, <1>t, <2>4 DEF StreamStarts, IDone
  <2>5. ASSUME NEW t \in Tables, BatchInserted(t) PROVE IDone'
    BY <1>i, <1>t, <2>5 DEF BatchInserted, More, IDone
  <2>6. ASSUME NEW t \in Tables, BatchFails(t) PROVE IDone'
    BY <1>c, <1>i, <1>t, <2>6 DEF BatchFails, BatchError, More, IDone
  <2>7. ASSUME NEW t \in Tables, ReadFails(t) PROVE IDone'
    BY <1>i, <1>t, <2>7 DEF ReadFails, IDone
  <2>8. ASSUME NEW t \in Tables, StreamCompletes(t) PROVE IDone'
    BY <1>i, <1>t, <2>8 DEF StreamCompletes, IDone
  <2> QED
    BY <1>3, <2>1, <2>2, <2>3, <2>4, <2>5, <2>6, <2>7, <2>8 DEF Streams
<1>4. CASE Killed
  BY <1>4 DEF Killed, Returns, IDone
<1>5. CASE UNCHANGED vars
  BY <1>5, <1>i DEF vars, IDone
<1> QED
  BY <1>1, <1>2, <1>3, <1>4, <1>5 DEF Next

\* A run that reports success has brought every batch of every table to TiDB.
THEOREM SuccessIsComplete == Spec => []DoneIsMigrated
<1>1. Init => ICopies /\ IExport /\ IDone
  BY DEF Init, ICopies, IExport, IDone, Sound, Blank
<1>2. IDone => DoneIsMigrated
  BY DEF IDone, DoneIsMigrated
<1> QED
  BY <1>1, <1>2, TypeInit, TypeStep, CopiesStep, ExportStep, DoneStep, PTL DEF Spec

-----------------------------------------------------------------------------
(* The foreign-key levels.  The prover has no induction here; a set of     *)
(* subsets of a finite set has a smallest member, which serves instead.    *)

LEMMA SmallestMember ==
  ASSUME NEW D, IsFiniteSet(D), NEW T, T \subseteq SUBSET D, T # {}
  PROVE  \E x \in T : \A y \in T : y \subseteq x => y = x
<1> DEFINE R == StrictSubsetOrdering(D)
<1>1. FiniteSubsetsOf(D) = SUBSET D
  BY FS_FiniteSubsetsOfFinite
<1>2. IsWellFoundedOn(R, SUBSET D)
  BY <1>1, FS_StrictSubsetOrderingWellFounded
<1>3. PICK x \in T : \A y \in T : ~ (<<y, x>> \in R)
  <2> HIDE DEF R
  <2> QED
    BY <1>2, WFMin
<1>4. ASSUME NEW y \in T, y \subseteq x, y # x PROVE FALSE
  <2>1. y \in SUBSET D /\ x \in SUBSET D
    OBVIOUS
  <2>2. <<y, x>> \in (SUBSET D) \X (SUBSET D)
    BY <2>1
  <2>3. <<y, x>> \in R
    BY <1>4, <2>2 DEF StrictSubsetOrdering
  <2> QED
    BY <1>3, <2>3
<1> QED
  BY <1>4

\* The tables of S that no other table of S must precede, and the others.
Free(S) == {t \in S : Parents(t) \cap S = {}}
Rest(S) == S \ Free(S)

\* One step of topoLevels, with f for the recursive call.
TopoStep(f, S) ==
  IF S = {} THEN <<>>
  ELSE IF Free(S) = {} THEN <<S>> ELSE <<Free(S)>> \o f[Rest(S)]

\* f does what topoLevels does for the sets of F.
Solves(f, F) ==
  /\ F \in SUBSET SUBSET Tables
  /\ \A S \in F : Rest(S) \in F
  /\ f = [S \in F |-> TopoStep(f, S)]

\* The equation of Topo has a solution: one for the largest family that has one.
LEMMA TopoExists == \E f : Solves(f, SUBSET Tables)
<1> DEFINE All == SUBSET Tables
           T   == {G \in SUBSET All : \E f : Solves(f, All \ G)}
<1>0. IsFiniteSet(Tables) /\ IsFiniteSet(All)
  BY MigrateAssumption, FS_SUBSET
<1>1. T # {}
  <2>1. Solves([S \in {} |-> <<>>], {})
    BY DEF Solves
  <2>2. All \ All = {}
    OBVIOUS
  <2>3. All \in T
    <3> HIDE DEF All
    <3> QED
      BY <2>1, <2>2
  <2> QED
    BY <2>3
<1>2. PICK G \in T : \A H \in T : H \subseteq G => H = G
  <2>1. T \subseteq SUBSET All
    OBVIOUS
  <2> HIDE DEF All, T
  <2> QED
    BY <1>0, <1>1, <2>1, SmallestMember
<1>3. PICK g : Solves(g, All \ G)
  OBVIOUS
<1>4. SUFFICES ASSUME G # {} PROVE FALSE
  <2>1. All \ {} = All
    OBVIOUS
  <2> QED
    BY <1>3, <2>1
<1>5. PICK S \in G : \A U \in G : U \subseteq S => U = S
  <2>1. G \subseteq SUBSET Tables
    OBVIOUS
  <2> HIDE DEF T
  <2> QED
    BY <1>0, <1>4, <2>1, SmallestMember
<1> DEFINE F == (All \ G) \cup {S}
           f == [U \in F |-> TopoStep(g, U)]
<1>6. S \in SUBSET Tables /\ G \subseteq All
  OBVIOUS
<1>7. \A U \in All \ G : f[U] = g[U] /\ Rest(U) \in All \ G
  BY <1>3 DEF Solves
<1>8. Rest(S) \in F
  BY <1>5, <1>6 DEF Rest
<1>9. Free(S) # {} => Rest(S) \in All \ G
  <2>1. Free(S) # {} => Rest(S) # S
    BY DEF Rest, Free
  <2>2. Rest(S) \subseteq S
    BY DEF Rest
  <2> QED
    BY <1>5, <1>6, <2>1, <2>2
<1>10. \A U \in F : TopoStep(f, U) = TopoStep(g, U)
  <2>1. ASSUME NEW U \in All \ G PROVE TopoStep(f, U) = TopoStep(g, U)
    <3>1. f[Rest(U)] = g[Rest(U)]
      BY <1>7
    <3> HIDE DEF f
    <3> QED
      BY <3>1 DEF TopoStep
  <2>2. TopoStep(f, S) = TopoStep(g, S)
    <3>1. Free(S) # {} => f[Rest(S)] = g[Rest(S)]
      BY <1>7, <1>9
    <3> HIDE DEF f
    <3> QED
      BY <3>1 DEF TopoStep
  <2> HIDE DEF f
  <2> QED
    BY <2>1, <2>2
<1>11. f = [U \in F |-> TopoStep(f, U)]
  <2>1. [U \in F |-> TopoStep(f, U)] = [U \in F |-> TopoStep(g, U)]
    <3> HIDE DEF f, F
    <3> QED
      BY <1>10
  <2> QED
    BY <2>1
<1>12. Solves(f, F)
  <2>1. F \in SUBSET SUBSET Tables
    BY <1>6
  <2>2. \A U \in F : Rest(U) \in F
    BY <1>7, <1>8
  <2> HIDE DEF f, F
  <2> QED
    BY <1>11, <2>1, <2>2 DEF Solves
<1>13. F = All \ (G \ {S})
  BY <1>6
<1>14. G \ {S} \in T
  <2>1. G \ {S} \in SUBSET All
    BY <1>6
  <2> HIDE DEF f, F, All
  <2> QED
    BY <1>12, <1>13, <2>1
<1>15. G \ {S} = G
  <2> HIDE DEF T
  <2> QED
    BY <1>2, <1>14
<1> QED
  BY <1>15

LEMMA TopoEquation ==
  ASSUME NEW S \in SUBSET Tables
  PROVE  Topo[S] = TopoStep(Topo, S)
<1>1. PICK f : Solves(f, SUBSET Tables)
  BY TopoExists
<1>2. f = [U \in SUBSET Tables |->
             LET free == {t \in U : Parents(t) \cap U = {}} IN
             IF U = {} THEN <<>>
             ELSE IF free = {} THEN <<U>> ELSE <<free>> \o f[U \ free]]
  BY ZenonT(60), <1>1 DEF Solves, TopoStep, Free, Rest
<1>3. Topo = [U \in SUBSET Tables |->
             LET free == {t \in U : Parents(t) \cap U = {}} IN
             IF U = {} THEN <<>>
             ELSE IF free = {} THEN <<U>> ELSE <<free>> \o Topo[U \ free]]
  BY ZenonT(60), <1>2 DEF Topo
<1>4. Topo[S] = LET free == {t \in S : Parents(t) \cap S = {}} IN
             IF S = {} THEN <<>>
             ELSE IF free = {} THEN <<S>> ELSE <<free>> \o Topo[S \ free]
  BY <1>3
<1> QED
  BY <1>4 DEF TopoStep, Free, Rest

\* No cycle of foreign keys: any tables have one that needs none of the others.
Acyclic == \A S \in SUBSET Tables : S # {} => Free(S) # {}

\* A table's parents are in levels before its own.
Layered(S) ==
  /\ Topo[S] \in Seq(SUBSET Tables)
  /\ \A i \in 1..Len(Topo[S]) : \A t \in Topo[S][i] : \A p \in Parents(t) \cap S :
       \E j \in 1..(i - 1) : p \in Topo[S][j]

LEMMA TopoLayered ==
  ASSUME Acyclic, NEW S \in SUBSET Tables
  PROVE  Layered(S)
<1> DEFINE T == {U \in SUBSET Tables : ~Layered(U)}
<1>1. SUFFICES T = {}
  OBVIOUS
<1>2. SUFFICES ASSUME T # {} PROVE FALSE
  OBVIOUS
<1>3. PICK U \in T : \A V \in T : V \subseteq U => V = U
  <2>1. IsFiniteSet(Tables) /\ T \subseteq SUBSET Tables
    BY MigrateAssumption
  <2> HIDE DEF T
  <2> QED
    BY <1>2, <2>1, SmallestMember
<1>4. U \in SUBSET Tables /\ ~Layered(U)
  OBVIOUS
<1>5. Topo[U] = TopoStep(Topo, U)
  BY <1>4, TopoEquation
<1>6. U # {}
  <2>1. SUFFICES ASSUME U = {} PROVE FALSE
    OBVIOUS
  <2>2. Topo[U] = <<>>
    BY <1>5, <2>1 DEF TopoStep
  <2> QED
    BY <1>4, <2>2 DEF Layered
<1>7. Free(U) # {} /\ Free(U) \in SUBSET Tables
  BY <1>4, <1>6 DEF Acyclic, Free
<1>8. Rest(U) \in SUBSET Tables /\ Layered(Rest(U))
  <2>1. Rest(U) \subseteq U /\ Rest(U) # U
    BY <1>7 DEF Rest, Free
  <2> QED
    BY <1>3, <1>4, <2>1
<1> DEFINE r == Topo[Rest(U)]
<1>9. r \in Seq(SUBSET Tables) /\ Topo[U] = <<Free(U)>> \o r
  BY <1>5, <1>6, <1>7, <1>8 DEF TopoStep, Layered
<1>10. \A i \in 1..Len(r) : \A t \in r[i] : \A p \in Parents(t) \cap Rest(U) :
         \E j \in 1..(i - 1) : p \in r[j]
  BY <1>8 DEF Layered
<1> DEFINE s == Topo[U]
<1>11. /\ s \in Seq(SUBSET Tables) /\ Len(s) = Len(r) + 1 /\ Len(r) \in Nat
       /\ s[1] = Free(U)
       /\ \A i \in 2..Len(s) : s[i] = r[i - 1]
  <2> HIDE DEF r
  <2> QED
    BY <1>7, <1>9
<1>12. ASSUME NEW i \in 1..Len(s), NEW t \in s[i], NEW p \in Parents(t) \cap U
       PROVE  \E j \in 1..(i - 1) : p \in s[j]
  <2> HIDE DEF r, s
  <2>1. i # 1
    BY <1>11, <1>12 DEF Free
  <2>2. i - 1 \in 1..Len(r) /\ t \in r[i - 1] /\ i \in 2..Len(s)
    BY <1>11, <2>1
  <2>3. CASE p \in Free(U)
    BY <1>11, <2>2, <2>3
  <2>4. CASE p \in Rest(U)
    <3>1. PICK j \in 1..((i - 1) - 1) : p \in r[j]
      BY <1>10, <2>2, <2>4
    <3>2. j + 1 \in 2..Len(s) /\ j + 1 \in 1..(i - 1) /\ (j + 1) - 1 = j
      BY <1>11, <2>2, <3>1
    <3> QED
      BY <1>11, <3>1, <3>2
  <2> QED
    BY <2>3, <2>4 DEF Rest
<1> QED
  BY <1>4, <1>11, <1>12 DEF Layered

-----------------------------------------------------------------------------
(* The order of streaming (OnError abort). *)

\* The barrier: whoever is being streamed has parents that are done.
IParents ==
  pc = "stream" /\ ~cfg.skip /\ ~plain =>
    \A t \in Tables : work[t] = "busy" => \A p \in Parents(t) : work[p] = "done"

\* What the barrier lets through.
LEMMA ParentsDone ==
  ASSUME TypeOK, Acyclic, NEW t \in Tables, InTurn(t), ~cfg.skip, ~plain,
         NEW p \in Parents(t)
  PROVE  work[p] = "done"
<1>1. Levels = Topo[Tables]
  BY DEF Levels
<1>2. Layered(Tables)
  BY TopoLayered
<1>3. PICK i \in 1..Len(Levels) :
        /\ t \in Levels[i]
        /\ \A j \in 1..(i - 1) : \A u \in Levels[j] :
             Over(u) /\ (work[u] = "failed" => cfg.skip)
  BY Zenon DEF InTurn
<1>4. p \in Parents(t) \cap Tables
  BY DEF Parents
<1>5. PICK j \in 1..(i - 1) : p \in Levels[j]
  BY <1>1, <1>2, <1>3, <1>4 DEF Layered
<1> QED
  BY <1>3, <1>5 DEF Over

LEMMA ParentsStep == Acyclic /\ TypeOK /\ IParents /\ [Next]_vars => IParents'
<1> SUFFICES ASSUME Acyclic, TypeOK, IParents, [Next]_vars,
                    pc' = "stream", ~cfg'.skip, ~plain'
             PROVE  \A t \in Tables : work'[t] = "busy" =>
                      \A p \in Parents(t) : work'[p] = "done"
  BY DEF IParents
<1> USE DEF ctl, jobs
<1>c. cfg' = cfg
  BY RunFrame, DataFrame DEF Next, Killed, vars
<1>t. work \in [Tables -> {"wait", "busy", "done", "failed"}]
  BY DEF TypeOK
<1>p. \A t \in Tables : Parents(t) \subseteq Tables
  BY DEF Parents
<1>k. ASSUME pc = "stream", plain' = plain
      PROVE  \A t \in Tables : work[t] = "busy" => \A p \in Parents(t) : work[p] = "done"
  BY <1>c, <1>k DEF IParents
<1>1. CASE Orchestrates
  <2>1. CASE Prechecked \/ SchemaApplied \/ Validated
    <3>1. PICK p \in {"precheck", "schema", "validate"}, ok \in BOOLEAN : pc = p /\ PhaseEnds(p, ok)
      BY <2>1, PhaseOver
    <3>2. pc' # "stream"
      BY <3>1 DEF PhaseEnds, NextPc, Returns
    <3> QED
      BY <3>2
  <2>2. CASE ~(Prechecked \/ SchemaApplied \/ Validated)
    <3>1. pc' # "stream"
      BY <1>1, <2>2 DEF Orchestrates, RunStarts, PhaseBegins, Recreates, ClearsCheckpoint,
        DataBegins, DataEnds, ValidateBegins, RunCompletes, Returns
    <3> QED
      BY <3>1
  <2> QED
    BY <2>1, <2>2
<1>2. CASE Exports
  <2>1. pc' # "stream"
    BY <1>2 DEF Exports, MigratorStarts, MigratorFails, ExportEnds, LightningImports,
      LightningFails, DataFailsWith, ExportStarts, ExportWrites, ExportCompletes, ExportFails
  <2> QED
    BY <2>1
<1>3. CASE Streams
  <2>1. CASE StreamOpens
    <3>1. \A t \in Tables : work'[t] = "wait"
      BY <2>1 DEF StreamOpens, AllWaits
    <3> QED
      BY <3>1
  <2>2. CASE StreamOpenFails \/ StreamEnds
    <3>1. pc' # "stream"
      BY <2>2 DEF StreamOpenFails, StreamEnds, DataFailsWith
    <3> QED
      BY <3>1
  <2>3. ASSUME NEW t \in Tables, StreamStarts(t)
        PROVE  \A u \in Tables : work'[u] = "busy" => \A p \in Parents(u) : work'[p] = "done"
    <3>1. pc = "stream" /\ plain' = plain /\ work[t] = "wait" /\ InTurn(t)
          /\ work' = [work EXCEPT ![t] = "busy"]
      BY <2>3 DEF StreamStarts
    <3>2. \A p \in Parents(t) : work[p] = "done"
      BY <1>c, <3>1, ParentsDone
    <3> QED
      BY <1>t, <1>p, <1>k, <3>1, <3>2
  <2>4. ASSUME NEW t \in Tables,
               BatchInserted(t) \/ BatchFails(t) \/ ReadFails(t) \/ StreamCompletes(t)
        PROVE  \A u \in Tables : work'[u] = "busy" => \A p \in Parents(u) : work'[p] = "done"
    <3>1. pc = "stream" /\ plain' = plain /\ work[t] = "busy"
      BY <2>4 DEF BatchInserted, BatchFails, ReadFails, StreamCompletes, More
    <3>2. work' = work \/ \E st \in {"done", "failed"} : work' = [work EXCEPT ![t] = st]
      BY <2>4 DEF BatchInserted, BatchFails, BatchError, ReadFails, StreamCompletes
    <3> QED
      BY <1>t, <1>p, <1>k, <3>1, <3>2
  <2> QED
    BY <1>3, <2>1, <2>2, <2>3, <2>4 DEF Streams
<1>4. CASE Killed
  BY <1>4 DEF Killed, Returns
<1>5. CASE UNCHANGED vars
  <2>1. pc = "stream" /\ plain' = plain /\ work' = work
    BY <1>5 DEF vars
  <2> QED
    BY <1>k, <2>1
<1> QED
  BY <1>1, <1>2, <1>3, <1>4, <1>5 DEF Next

\* A done table has all its batches, so a streamed child's parents are complete.
LEMMA DoneParents == TypeOK /\ IDone /\ IParents => ParentsFirst
<1> SUFFICES ASSUME TypeOK, IDone, IParents, pc = "stream", ~cfg.skip, ~plain,
                    NEW t \in Tables, work[t] = "busy", NEW p \in Parents(t)
             PROVE  Full(p)
  BY DEF ParentsFirst
<1>1. p \in Tables
  BY DEF Parents
<1>2. work[p] = "done"
  BY DEF IParents
<1>3. next[p] = 2 /\ \A b \in Rows : b <= next[p] => b \in target[p]
  BY <1>1, <1>2 DEF IDone
<1>4. 1 \in target[p] /\ 2 \in target[p] /\ target[p] \in SUBSET (1..2)
  BY <1>1, <1>3 DEF TypeOK, Rows
<1> QED
  BY <1>4 DEF Full, Rows

\* Without a cycle of foreign keys and with OnError abort, no table is streamed
\* before each of its parents is complete.
THEOREM ParentsComeFirst == ASSUME Acyclic PROVE Spec => []ParentsFirst
<1>1. Init => ICopies /\ IExport /\ IDone /\ IParents
  BY DEF Init, ICopies, IExport, IDone, IParents, Sound, Blank
<1>2. TypeOK /\ IParents /\ [Next]_vars => IParents'
  BY ParentsStep
<1> QED
  BY <1>1, <1>2, TypeInit, TypeStep, CopiesStep, ExportStep, DoneStep, DoneParents, PTL DEF Spec
=============================================================================
