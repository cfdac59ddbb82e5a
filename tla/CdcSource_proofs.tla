-------------------------- MODULE CdcSource_proofs --------------------------
(***************************************************************************)
(* Theorems about CdcSource, for every stream that satisfies               *)
(* WalAssumption and any number of restarts.                               *)
(***************************************************************************)
EXTENDS CdcSource, TLAPS

\* Which end of the stream a WAL position lies at.
LEMMA XLogPosType == TypeOK => XLogPos \in Nat
  BY WalAssumption DEF TypeOK, XLogPos, Msgs, BaseLsn

\* CREATE_REPLICATION_SLOT keeps the slot and the history in range.
LEMMA CreateSlotType ==
  ASSUME TypeOK, CreateSlot
  PROVE  slot' \in Nat /\ got' \in 0..N /\ slot' >= slot
  BY XLogPosType DEF TypeOK, CreateSlot, Max

\* The ranges and the phase facts of TypeOK survive every step of the source.
LEMMA TypeInvariance == TypeOK /\ [Next]_srcVars => TypeOK'
<1> SUFFICES ASSUME TypeOK, [Next]_srcVars PROVE TypeOK'
  OBVIOUS
<1> USE SeedAssumption, WalAssumption DEF TypeOK
<1>1. CASE SourceCommit
  BY <1>1 DEF SourceCommit, Msgs
<1>2. CASE Start
  <2>1. slot' \in Nat /\ got' \in 0..N
    BY <1>2, CreateSlotType DEF Start
  <2>2. lsn' \in Nat
    BY <1>2, XLogPosType DEF Start, NoFile, Torn
  <2>3. pos' \in 1..(N + 1)
    BY <1>2 DEF Start, ResumesAt
  <2>4. /\ starts' \in 0..MaxRestarts /\ up' = TRUE /\ stream' = "read"
        /\ srcFatal' = FALSE /\ stop' = FALSE /\ ctx' = FALSE
        /\ avail' = avail /\ file' = file
    BY <1>2 DEF Start
  <2> QED
    BY <2>1, <2>2, <2>3, <2>4 DEF Torn
<1>3. CASE StartFails
  BY <1>3, CreateSlotType DEF StartFails, Torn
<1>4. CASE ParseFailure
  BY <1>4 DEF ParseFailure
<1>5. CASE Receive
  BY <1>5 DEF Receive, Max, Msgs
<1>6. CASE Send
  BY <1>6 DEF Send, Max
<1>7. CASE Ack
  BY <1>7 DEF Ack, Max
<1>8. CASE StreamEnds
  BY <1>8 DEF StreamEnds
<1>9. CASE Checkpoint
  BY <1>9 DEF Checkpoint, SaveWrite, SaveTruncate
<1>11. CASE WindDown
  BY <1>11 DEF WindDown, StopSource, CancelCtx
<1>12. CASE End
  BY <1>12 DEF End, Exit, SaveWrite, SaveTruncate
<1>13. CASE UNCHANGED srcVars
  BY <1>13 DEF srcVars
<1> QED
  BY <1>1, <1>2, <1>3, <1>4, <1>5, <1>6, <1>7, <1>8, <1>9, <1>11, <1>12, <1>13
  DEF Next

\* The initial states are well typed.
LEMMA TypeInit == Init => TypeOK
<1> SUFFICES ASSUME Init PROVE TypeOK
  OBVIOUS
<1>1. got \in 0..N
  BY DEF Init
<1>2. /\ avail = 0 /\ slot = Seed /\ file = Seed /\ starts = 0 /\ up = FALSE
      /\ stream = "off" /\ pos = 1 /\ lsn = 0
      /\ srcFatal = FALSE /\ stop = FALSE /\ ctx = FALSE
  BY DEF Init
<1>3. N \in Nat /\ Seed \in Nat /\ MaxRestarts \in Nat
  BY SeedAssumption, WalAssumption
<1>4. 0 \in 0..N /\ 1 \in 1..(N + 1) /\ 0 \in 0..MaxRestarts
  BY <1>3
<1> QED
  BY <1>1, <1>2, <1>3, <1>4 DEF TypeOK

\* Type correctness of the source: phases, positions and the checkpoint file
\* stay in range, the channel is open exactly while the process runs, and a
\* parse failure never leaves the stream reading.
THEOREM TypeCorrect == Spec => []TypeOK
  BY TypeInit, TypeInvariance, PTL DEF Spec

-----------------------------------------------------------------------------
(* No gap.  Assumes the chain seeded the checkpoint: without a seed the      *)
(* property is false (see the README).                                       *)

\* The inductive strengthening: what a running process would save or confirm
\* next is covered too, the stream stands at most one past what was handed
\* over, and no refused record counts as handed over.
Retained ==
  /\ slot >= Seed
  /\ file # NoFile
  /\ srcFatal => pos <= N /\ Kind[pos] = "bad"
  /\ up \/ srcFatal => \A m \in Msgs : Commit[m] <= Seed => m < pos
  /\ \A m \in Msgs : m <= got /\ Kind[m] = "bad" => Commit[m] <= Seed

IInv ==
  /\ TypeOK
  /\ NoGap
  /\ up => Covered(lsn) /\ lsn # 0
  /\ ResumesWithinGot
  /\ Retained

\* Advancing past a parsed record covers nothing new but the record itself.
LEMMA ReceiveCovers ==
  ASSUME TypeOK, pos <= N, Covered(lsn), pos <= got + 1,
         NEW l, l = Max(lsn, Lsn[pos]), NEW g \in 0..N, g >= got,
         IsEvent(pos) \/ g >= pos
  PROVE  \A m \in Msgs : Commit[m] <= l => m <= g
<1> SUFFICES ASSUME NEW m \in Msgs, Commit[m] <= l PROVE m <= g
  OBVIOUS
<1>1. /\ pos \in Msgs /\ got \in 0..N /\ lsn \in Nat /\ N \in Nat
      /\ Lsn[pos] \in Nat /\ Commit[m] \in Nat
  BY WalAssumption DEF TypeOK, Msgs
<1>2. CASE Commit[m] <= lsn
  BY <1>1, <1>2 DEF Covered, Msgs
<1>3. CASE Commit[m] <= Lsn[pos]
  <2>1. ~(pos < m)
    BY <1>1, <1>3, WalAssumption
  <2>2. IsEvent(pos) => pos # m
    BY <1>1, <1>3, WalAssumption
  <2> QED
    BY <1>1, <2>1, <2>2 DEF Msgs
<1> QED
  BY <1>1, <1>2, <1>3 DEF Max

\* The strengthening holds initially: the seed covers what the full migration
\* copied and nothing else.
LEMMA InvInit == Seed # 0 /\ Init => IInv
<1> SUFFICES ASSUME Seed # 0, Init PROVE IInv
  OBVIOUS
<1>1. TypeOK
  BY TypeInit
<1>2. NoGap
  BY DEF Init, NoGap, Covered
<1>3. Retained
  BY SeedAssumption DEF Init, Retained, NoFile
<1> QED
  BY <1>1, <1>2, <1>3 DEF IInv, Init, ResumesWithinGot

\* Every step keeps it.
LEMMA InvStep == Seed # 0 /\ IInv /\ [Next]_srcVars => IInv'
<1> SUFFICES ASSUME Seed # 0, IInv, [Next]_srcVars PROVE IInv'
  OBVIOUS
<1>0. TypeOK'
  BY TypeInvariance DEF IInv
<1>t. /\ TypeOK /\ N \in Nat /\ slot \in Nat /\ lsn \in Nat /\ Seed \in Nat
      /\ got \in 0..N /\ pos \in 1..(N + 1) /\ file \in Int
      /\ \A m \in Msgs : m \in 1..N /\ Commit[m] \in Nat
  BY WalAssumption, SeedAssumption DEF IInv, TypeOK, Torn, Msgs
<1>s. ASSUME up, SaveWrite \/ SaveTruncate, UNCHANGED got
      PROVE  file' # NoFile /\ Covered(file)'
  <2>1. CASE SaveWrite
    BY <1>s, <2>1 DEF SaveWrite, IInv, Covered, NoFile
  <2>2. CASE SaveTruncate
    <3>1. \A m \in Msgs : ~(Commit[m] <= Torn)
      BY <1>t DEF Torn
    <3> QED
      BY <2>2, <3>1 DEF SaveTruncate, Covered, NoFile, Torn
  <2> QED
    BY <1>s, <2>1, <2>2
<1>1. CASE SourceCommit
  BY <1>0, <1>1 DEF SourceCommit, IInv, NoGap, Covered, ResumesWithinGot, Retained
<1>2. CASE Start
  <2>1. slot # 0
    BY <1>t DEF IInv, Retained
  <2>2. /\ UNCHANGED <<slot, got, file>> /\ lsn' = file /\ up' = TRUE /\ srcFatal' = FALSE
        /\ file # Torn
        /\ ResumesAt(Max(file, slot), pos')
    BY <1>2, <2>1 DEF Start, CreateSlot, IInv, Retained
  <2>3. pos' <= got + 1
    <3>1. pos' \in 1..(N + 1)
      BY <2>2 DEF ResumesAt
    <3>2. \A m \in Msgs : m < pos' => Commit[m] <= Max(file, slot)
      BY <2>2 DEF ResumesAt
    <3>3. \A m \in Msgs : m < pos' => m <= got
      BY <1>t, <3>2 DEF IInv, NoGap, Covered, Max
    <3>4. ASSUME pos' > got + 1 PROVE FALSE
      <4>1. got + 1 \in Msgs /\ got + 1 < pos'
        BY <1>t, <3>1, <3>4 DEF Msgs
      <4> QED
        BY <1>t, <3>3, <4>1
    <3> QED
      BY <1>t, <3>1, <3>4
  <2>4. \A m \in Msgs : Commit[m] <= Seed => m < pos'
    <3>1. Max(file, slot) \in Int /\ Max(file, slot) >= Seed
      BY <1>t DEF Max, IInv, Retained
    <3> QED
      BY <1>t, <2>2, <3>1 DEF ResumesAt
  <2> QED
    BY <1>0, <2>2, <2>3, <2>4
    DEF IInv, NoGap, Covered, ResumesWithinGot, Retained, NoFile
<1>3. CASE StartFails
  <2>1. UNCHANGED <<slot, got, file, up, pos, lsn, srcFatal>>
    BY <1>t, <1>3 DEF StartFails, CreateSlot, IInv, Retained
  <2> QED
    BY <1>0, <2>1 DEF IInv, NoGap, Covered, ResumesWithinGot, Retained
<1>4. CASE ParseFailure
  <2>1. up /\ pos <= N
    BY <1>t, <1>4 DEF ParseFailure, TypeOK
  <2> QED
    BY <1>0, <1>4, <2>1 DEF ParseFailure, IInv, NoGap, Covered, ResumesWithinGot, Retained
<1>5. CASE Receive
  <2>1. /\ up /\ pos <= N /\ ~srcFatal /\ Kind[pos] # "bad" /\ lsn' = Max(lsn, Lsn[pos])
        /\ UNCHANGED <<slot, file, up, srcFatal>>
    BY <1>t, <1>5 DEF Receive, TypeOK
  <2>2. CASE IsEvent(pos)
    <3>1. UNCHANGED <<pos, got>>
      BY <1>5, <2>2 DEF Receive
    <3>2. Covered(lsn)'
      BY <1>t, <2>1, <2>2, <3>1, ReceiveCovers DEF IInv, Covered, ResumesWithinGot
    <3>3. lsn' # 0
      BY <1>t, <2>1, WalAssumption DEF IInv, Max, Msgs
    <3> QED
      BY <1>0, <2>1, <3>1, <3>2, <3>3
      DEF IInv, NoGap, Covered, ResumesWithinGot, Retained
  <2>3. CASE ~IsEvent(pos)
    <3>1. pos' = pos + 1 /\ got' = Max(got, pos)
      BY <1>5, <2>3 DEF Receive
    <3>2. got' \in 0..N /\ got' >= got /\ got' >= pos
      BY <1>0, <1>t, <3>1 DEF TypeOK, Max
    <3>3. Covered(lsn)'
      BY <1>t, <2>1, <3>2, ReceiveCovers DEF IInv, Covered, ResumesWithinGot
    <3>4. lsn' # 0
      BY <1>t, <2>1, WalAssumption DEF IInv, Max, Msgs
    <3>5. NoGap' /\ ResumesWithinGot'
      BY <1>t, <2>1, <3>1, <3>2 DEF IInv, NoGap, Covered, ResumesWithinGot
    <3>6. Retained'
      BY <1>t, <2>1, <3>1, <3>2 DEF IInv, Retained, ResumesWithinGot, Max
    <3> QED
      BY <1>0, <3>3, <3>4, <3>5, <3>6 DEF IInv
  <2> QED
    BY <2>2, <2>3
<1>6. CASE Send
  <2>1. /\ up /\ pos <= N /\ ~srcFatal /\ Kind[pos] # "bad"
        /\ pos' = pos + 1 /\ got' = Max(got, pos)
        /\ UNCHANGED <<slot, file, up, lsn, srcFatal>>
    BY <1>t, <1>6 DEF Send, TypeOK, IsEvent
  <2>2. got' \in 0..N /\ got' >= got /\ got' >= pos
    BY <1>0, <1>t, <2>1 DEF TypeOK, Max
  <2>3. Covered(lsn)' /\ NoGap' /\ ResumesWithinGot'
    BY <1>t, <2>1, <2>2 DEF IInv, NoGap, Covered, ResumesWithinGot
  <2>4. Retained'
    BY <1>t, <2>1, <2>2 DEF IInv, Retained, ResumesWithinGot, Max
  <2> QED
    BY <1>0, <2>1, <2>3, <2>4 DEF IInv
<1>7. CASE Ack
  <2>1. /\ up /\ slot' = Max(slot, lsn)
        /\ UNCHANGED <<file, up, pos, lsn, srcFatal, got>>
    BY <1>t, <1>7 DEF Ack, TypeOK
  <2>2. Covered(slot)' /\ slot' >= Seed
    BY <1>t, <2>1 DEF IInv, NoGap, Covered, Retained, Max
  <2> QED
    BY <1>0, <2>1, <2>2 DEF IInv, NoGap, Covered, ResumesWithinGot, Retained
<1>8. CASE StreamEnds
  BY <1>0, <1>8 DEF StreamEnds, IInv, NoGap, Covered, ResumesWithinGot, Retained
<1>9. CASE Checkpoint
  <2>1. UNCHANGED <<slot, up, pos, lsn, srcFatal, got>>
    BY <1>9 DEF Checkpoint
  <2>2. file' # NoFile /\ Covered(file)'
    BY <1>9, <1>s, <2>1 DEF Checkpoint
  <2> QED
    BY <1>0, <2>1, <2>2 DEF IInv, NoGap, Covered, ResumesWithinGot, Retained
<1>11. CASE WindDown
  BY <1>0, <1>11
  DEF WindDown, StopSource, CancelCtx, IInv, NoGap, Covered, ResumesWithinGot, Retained
<1>12. CASE End
  <2>1. UNCHANGED <<slot, pos, lsn, srcFatal, got>> /\ ~up'
    BY <1>12 DEF End, Exit
  <2>2. file' # NoFile /\ Covered(file)'
    BY <1>12, <1>s, <2>1 DEF End, IInv, NoGap, Covered, Retained
  <2> QED
    BY <1>0, <2>1, <2>2 DEF IInv, NoGap, Covered, ResumesWithinGot, Retained
<1>13. CASE UNCHANGED srcVars
  BY <1>0, <1>13 DEF srcVars, IInv, NoGap, Covered, ResumesWithinGot, Retained
<1> QED
  BY <1>1, <1>2, <1>3, <1>4, <1>5, <1>6, <1>7, <1>8, <1>9, <1>11, <1>12, <1>13
  DEF Next

\* The strengthening is an invariant of every seeded chain.
LEMMA Inductive == ASSUME Seed # 0 PROVE Spec => []IInv
  BY InvInit, InvStep, PTL DEF Spec

\* On a seeded chain neither the slot nor the checkpoint file ever passes a
\* message that was not handed to the applier, over any number of crashes,
\* failed starts, torn saves and parse failures.
THEOREM SourceNoGap == ASSUME Seed # 0 PROVE Spec => []NoGap
<1>1. IInv => NoGap
  BY DEF IInv
<1> QED
  BY <1>1, Inductive, PTL

\* On a seeded chain a record the parser refused stays above both the slot and
\* the checkpoint file: the next process meets it again.
THEOREM SourceRetainsRefused == ASSUME Seed # 0 PROVE Spec => []RefusedIsRetained
<1>1. IInv => RefusedIsRetained
  <2> SUFFICES ASSUME IInv, srcFatal PROVE slot < Commit[pos] /\ file < Commit[pos]
    BY DEF RefusedIsRetained
  <2>1. /\ pos \in Msgs /\ Commit[pos] \in Nat /\ Seed \in Nat /\ slot \in Nat /\ file \in Int
        /\ got \in 0..N /\ N \in Nat
    BY WalAssumption, SeedAssumption DEF IInv, Retained, TypeOK, Msgs, Torn
  <2>2. ~(pos <= got)
    <3>1. /\ Kind[pos] = "bad"
          /\ Commit[pos] <= Seed => pos < pos
          /\ pos <= got /\ Kind[pos] = "bad" => Commit[pos] <= Seed
      BY <2>1 DEF IInv, Retained
    <3> QED
      BY <2>1, <3>1 DEF Msgs
  <2> QED
    BY <2>1, <2>2 DEF IInv, NoGap, Covered
<1> QED
  BY <1>1, Inductive, PTL

\* On a seeded chain the source implements CdcReplay: delivery in order, an
\* interruption going back but never past an undelivered message.
THEOREM SourceImplementsReplay == ASSUME Seed # 0 PROVE Spec => ImplementsReplay
<1> DEFINE nx == IF up THEN pos ELSE got + 1
<1>1. Init => Replay!Init
  BY DEF Init, Replay!Init
<1>2. IInv /\ IInv' /\ [Next]_srcVars => [Replay!Next]_<<nx, got>>
  <2> SUFFICES ASSUME IInv, IInv', [Next]_srcVars PROVE [Replay!Next]_<<nx, got>>
    OBVIOUS
  <2>t. /\ TypeOK /\ N \in Nat /\ got \in 0..N /\ pos \in 1..(N + 1) /\ pos' \in 1..(N + 1)
        /\ got' \in 0..N
    BY WalAssumption DEF IInv, TypeOK
  <2>1. CASE Start \/ StartFails
    <3>1. got' = got /\ ~up
      <4>1. slot # 0
        BY SeedAssumption DEF IInv, Retained, TypeOK
      <4> QED
        BY <2>1, <4>1 DEF Start, StartFails, CreateSlot
    <3>2. nx' \in 1..(got + 1)
      BY <2>t, <3>1 DEF IInv, ResumesWithinGot
    <3> QED
      BY <3>1, <3>2 DEF Replay!Next, Replay!Interrupt
  <2>2. CASE Receive \/ Send
    <3>1. up /\ up' /\ pos <= N
      BY <2>2, <2>t DEF Receive, Send, TypeOK
    <3>2. \/ UNCHANGED <<pos, got>>
          \/ pos' = pos + 1 /\ got' = Max(got, pos)
      BY <2>2 DEF Receive, Send
    <3> QED
      BY <2>t, <3>1, <3>2 DEF Replay!Next, Replay!HandOver, Max
  <2>3. CASE End
    <3>1. got' = got /\ ~up'
      BY <2>3 DEF End, Exit
    <3>2. nx' \in 1..(got + 1)
      BY <2>t, <3>1
    <3> QED
      BY <3>1, <3>2 DEF Replay!Next, Replay!Interrupt
  <2>4. CASE SourceCommit \/ ParseFailure \/ Ack \/ StreamEnds \/ Checkpoint
               \/ WindDown \/ UNCHANGED srcVars
    BY <2>4 DEF SourceCommit, ParseFailure, Ack, StreamEnds, Checkpoint,
                WindDown, srcVars
  <2> QED
    BY <2>1, <2>2, <2>3, <2>4 DEF Next
<1> QED
  BY <1>1, <1>2, Inductive, PTL DEF Spec, ImplementsReplay, Replay!Spec

=============================================================================
