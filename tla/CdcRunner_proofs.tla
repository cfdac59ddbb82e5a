-------------------------- MODULE CdcRunner_proofs --------------------------
(***************************************************************************)
(* The CDC process refines its source: what is proved of CdcSource holds   *)
(* of the process, whatever the applier, signals, halts and kills do.      *)
(***************************************************************************)
EXTENDS CdcRunner, TLAPS

\* The theorems of the parts, for the variables of the process.
SrcP == INSTANCE CdcSource_proofs
AppP == INSTANCE CdcApplier_proofs

\* The process is up exactly while Run is in its select loop or waits for the
\* applier after a signal.
RpcUp == up <=> rpc # "down"

\* Whatever phase Run is in, the process is up exactly when Run runs.
LEMMA RpcInvariant == Spec => []RpcUp
<1>1. Init => RpcUp
  BY DEF Init, Src!Init, RpcUp
<1>2. RpcUp /\ [Next]_vars => RpcUp'
  <2> SUFFICES ASSUME RpcUp, [Next]_vars PROVE RpcUp'
    OBVIOUS
  <2> USE DEF RpcUp
  <2>1. CASE Commits \/ RunFailsToStart \/ Reads \/ HandsOver \/ StreamCloses \/ Applies
    BY <2>1 DEF Commits, RunFailsToStart, Reads, HandsOver, StreamCloses, Applies, runVars,
      srcOwn, Src!SourceCommit, Src!StartFails, Src!Receive, Src!Ack, Src!Send,
      Src!StreamEnds, Src!ParseFailure
  <2>2. CASE RunStarts
    BY <2>2 DEF RunStarts, Src!Start
  <2>3. CASE Tick \/ SignalSeen \/ Signal \/ CmdCancels
    BY <2>3 DEF Tick, SignalSeen, Signal, CmdCancels, runVars, srcOwn, Src!Checkpoint
  <2>4. CASE ApplierEnds \/ SignalEnds \/ ContextEnds \/ DdlHalts \/ Killed
    BY <2>4 DEF ApplierEnds, SignalEnds, ContextEnds, DdlHalts, Killed, Ends, Src!Exit
  <2>5. CASE UNCHANGED vars
    BY <2>5 DEF vars, srcOwn, runVars
  <2> QED
    BY <2>1, <2>2, <2>3, <2>4, <2>5 DEF Next, RunLoop
<1> QED
  BY <1>1, <1>2, PTL DEF Spec

\* A step of the process is a step of the source or leaves it alone.
LEMMA StepRefines == RpcUp /\ [Next]_vars => [Src!Next]_Src!srcVars
<1> SUFFICES ASSUME RpcUp, [Next]_vars PROVE [Src!Next]_Src!srcVars
  OBVIOUS
<1>1. CASE Commits
  BY <1>1 DEF Commits, Src!Next
<1>2. CASE RunStarts
  BY <1>2 DEF RunStarts, Src!Next
<1>3. CASE RunFailsToStart
  BY <1>3 DEF RunFailsToStart, Src!Next
<1>4. CASE Reads
  BY <1>4 DEF Reads, Src!Next
<1>5. CASE HandsOver
  BY <1>5 DEF HandsOver, Src!Next
<1>6. CASE StreamCloses
  BY <1>6 DEF StreamCloses, Src!Next
<1>7. CASE Applies \/ Signal \/ UNCHANGED vars
  BY <1>7 DEF Applies, Signal, vars, srcOwn, Src!srcVars
<1>8. CASE Tick
  BY <1>8 DEF Tick, Src!Next
<1>9. CASE SignalSeen
  <2>1. Src!WindDown
    BY <1>9 DEF SignalSeen, RpcUp, Src!WindDown, Src!StopSource
  <2> QED
    BY <2>1 DEF Src!Next
<1>10. CASE CmdCancels
  <2>1. Src!WindDown
    BY <1>10 DEF CmdCancels, srcOwn, Src!WindDown, Src!CancelCtx
  <2> QED
    BY <2>1 DEF Src!Next
<1>11. CASE ApplierEnds \/ SignalEnds \/ ContextEnds \/ DdlHalts \/ Killed
  <2>1. up /\ Src!Exit /\ (UNCHANGED file \/ Src!SaveWrite \/ Src!SaveTruncate)
    BY <1>11 DEF ApplierEnds, SignalEnds, ContextEnds, DdlHalts, Killed, Ends, LastSave, RpcUp
  <2>2. UNCHANGED <<avail, slot, starts, pos, lsn, srcFatal, stop, got, ctx>>
    BY <1>11 DEF ApplierEnds, SignalEnds, ContextEnds, DdlHalts, Killed
  <2>3. Src!End
    BY <2>1, <2>2 DEF Src!End
  <2> QED
    BY <2>3 DEF Src!Next
<1> QED
  BY <1>1, <1>2, <1>3, <1>4, <1>5, <1>6, <1>7, <1>8, <1>9, <1>10, <1>11 DEF Next, RunLoop

\* The CDC process implements CdcSource: Run's loop, the applier, signals, DDL
\* halts and kills only ever use the source the way CdcSource allows.
THEOREM RunnerImplementsSource == Spec => ImplementsSource
<1>1. Init => Src!Init
  BY DEF Init
<1> QED
  BY <1>1, StepRefines, RpcInvariant, PTL DEF Spec, ImplementsSource, Src!Spec

-----------------------------------------------------------------------------
(* What CdcSource_proofs and CdcApplier_proofs say of the parts.             *)

LEMMA PartsAssumed ==
  /\ SrcP!WalAssumption /\ SrcP!SeedAssumption
  /\ AppP!WalAssumption /\ AppP!ApplierAssumption
<1>1. SrcP!WalAssumption /\ AppP!WalAssumption
  BY WalAssumption DEF SrcP!WalAssumption, AppP!WalAssumption, SrcP!Msgs, AppP!Msgs, Msgs,
    SrcP!Kinds, AppP!Kinds, Kinds, SrcP!IsEvent, AppP!IsEvent, IsEvent, SrcP!BaseLsn,
    AppP!BaseLsn, BaseLsn
<1>2. SrcP!SeedAssumption /\ AppP!ApplierAssumption
  BY RunnerAssumption DEF Src!SeedAssumption, SrcP!SeedAssumption, App!ApplierAssumption,
    AppP!ApplierAssumption, App!Workers, AppP!Workers
<1> QED
  BY <1>1, <1>2

LEMMA SameEvents ==
  /\ Events = AppP!Events /\ Events = App!Events /\ App!Workers = AppP!Workers
  /\ App!NoEvent = AppP!NoEvent
  BY DEF Events, AppP!Events, App!Events, Msgs, AppP!Msgs, App!Msgs, IsEvent, AppP!IsEvent,
    App!IsEvent, App!Workers, AppP!Workers, App!NoEvent, AppP!NoEvent

LEMMA SameSource ==
  /\ Src!Init <=> SrcP!Init
  /\ Src!Next <=> SrcP!Next
  /\ Src!srcVars = SrcP!srcVars
  /\ Src!TypeOK <=> SrcP!TypeOK
  BY DEF Src!Init, SrcP!Init, Src!Next, SrcP!Next, Src!srcVars, SrcP!srcVars,
    Src!TypeOK, SrcP!TypeOK,
    Src!SourceCommit, SrcP!SourceCommit, Src!Start, SrcP!Start, Src!StartFails, SrcP!StartFails,
    Src!ParseFailure, SrcP!ParseFailure, Src!Receive, SrcP!Receive, Src!Send, SrcP!Send,
    Src!Ack, SrcP!Ack, Src!StreamEnds, SrcP!StreamEnds, Src!Checkpoint, SrcP!Checkpoint,
    Src!WindDown, SrcP!WindDown, Src!End, SrcP!End, Src!Exit, SrcP!Exit,
    Src!SaveWrite, SrcP!SaveWrite, Src!SaveTruncate, SrcP!SaveTruncate,
    Src!StopSource, SrcP!StopSource, Src!CancelCtx, SrcP!CancelCtx,
    Src!CreateSlot, SrcP!CreateSlot, Src!XLogPos, SrcP!XLogPos, Src!NoFile, SrcP!NoFile,
    Src!Torn, SrcP!Torn, Src!Max, SrcP!Max, Src!Msgs, SrcP!Msgs, Src!IsEvent, SrcP!IsEvent,
    Src!EndsTxn, SrcP!EndsTxn, Src!ResumesAt, SrcP!ResumesAt, Src!BaseLsn, SrcP!BaseLsn

LEMMA SameTypes == App!TypeOK <=> AppP!TypeOK
  BY SameEvents DEF App!TypeOK, AppP!TypeOK

LEMMA SameAppInit ==
  (App!Init <=> AppP!Init) /\ (App!Boot <=> AppP!Boot)
  BY SameEvents DEF App!Init, AppP!Init, App!Boot, AppP!Boot

LEMMA SameAppStep == App!AppStep <=> AppP!AppStep
<1> USE DEF App!Cancelled, AppP!Cancelled, App!inVars, AppP!inVars, App!dispVars, AppP!dispVars,
      App!workVars, AppP!workVars, App!ddlVars, AppP!ddlVars, App!Count, AppP!Count
<1>1. App!Dispatcher <=> AppP!Dispatcher
  BY SameEvents DEF App!Dispatcher, AppP!Dispatcher, App!Dispatch, AppP!Dispatch,
    App!FlushOf, AppP!FlushOf, App!FlushTick, AppP!FlushTick, App!Drain, AppP!Drain,
    App!FlushTake, AppP!FlushTake, App!FlushSend, AppP!FlushSend, App!FlushDrop, AppP!FlushDrop,
    App!FlushEnd, AppP!FlushEnd, App!Return, AppP!Return
<1>2. \A w \in AppP!Workers : App!Worker(w) <=> AppP!Worker(w)
  BY SameEvents DEF App!Worker, AppP!Worker, App!Take, AppP!Take, App!ExitWorker, AppP!ExitWorker,
    App!Skip, AppP!Skip, App!Structural, AppP!Structural, App!Exec, AppP!Exec,
    App!Applied, AppP!Applied, App!Failed, AppP!Failed, App!TableAbsent, AppP!TableAbsent,
    App!MarkMissing, AppP!MarkMissing, App!Table, AppP!Table, App!Settle, AppP!Settle,
    App!Step, AppP!Step, App!Transforms, AppP!Transforms
<1>3. (App!Poller <=> AppP!Poller) /\ (App!ExpireMissing <=> AppP!ExpireMissing)
  BY DEF App!Poller, AppP!Poller, App!CreateTable, AppP!CreateTable,
    App!ResetMissingTables, AppP!ResetMissingTables, App!ExpireMissing, AppP!ExpireMissing
<1> QED
  BY <1>1, <1>2, <1>3, SameEvents DEF App!AppStep, AppP!AppStep

-----------------------------------------------------------------------------
(* Type correctness. *)

LEMMA RunsTheSource == Spec => SrcP!Spec
<1>1. Init => SrcP!Init
  BY SameSource DEF Init
<1>2. RpcUp /\ [Next]_vars => [SrcP!Next]_SrcP!srcVars
  BY StepRefines, SameSource DEF Src!srcVars, SrcP!srcVars
<1> QED
  BY <1>1, <1>2, RpcInvariant, PTL DEF Spec, SrcP!Spec

LEMMA SourceTypes == Spec => []SrcP!TypeOK
<1>1. SrcP!Spec => []SrcP!TypeOK
  BY PartsAssumed, SrcP!TypeCorrect
<1> QED
  BY <1>1, RunsTheSource, PTL

\* The channel is closed exactly when streamLoop has returned.
ClosedAtEnd == up => (closed <=> stream = "end")

\* The applier's part of the invariant: its ranges, its buffers, its drain.
AppInv == AppP!TypeOK /\ AppP!Bounds /\ AppP!Draining

\* The steps of the process that leave the applier alone.
LEMMA AloneKeepsApp ==
  ASSUME AppInv, UNCHANGED <<ctx, appOwn>>
  PROVE  AppInv'
  BY DEF AppInv, appOwn, AppP!TypeOK, AppP!Bounds, AppP!Draining, AppP!Live, AppP!Cancelled

LEMMA BootKeepsApp ==
  ASSUME AppInv, AppP!Boot, ctx' = FALSE
  PROVE  AppInv'
  BY PartsAssumed, AppP!BootTypes DEF AppInv

LEMMA SendIsOfAnEvent ==
  ASSUME SrcP!TypeOK, stream = "send"
  PROVE  pos \in AppP!Events
<1>1. pos \in 1..(N + 1) /\ pos <= N /\ N \in Nat /\ SrcP!IsEvent(pos)
  BY PartsAssumed DEF SrcP!TypeOK, SrcP!WalAssumption
<1> QED
  BY <1>1 DEF AppP!Events, AppP!Msgs, AppP!IsEvent, SrcP!IsEvent

\* An event goes through the channel: nothing of the applier but the channel
\* changes.
LEMMA HandOver ==
  ASSUME SrcP!TypeOK, HandsOver
  PROVE  /\ stream = "send" /\ pos \in AppP!Events /\ AppP!Feed(pos)
         /\ UNCHANGED <<ctx, AppP!dispVars, AppP!workVars, AppP!ddlVars, wch, cnt>>
  BY SendIsOfAnEvent DEF HandsOver, Src!Send, App!Feed, AppP!Feed, AppP!dispVars, AppP!workVars,
    AppP!ddlVars

LEMMA AppInvStep ==
  ASSUME RpcUp, SrcP!TypeOK, ClosedAtEnd, AppInv, [Next]_vars
  PROVE  AppInv' /\ ClosedAtEnd'
<1>1. CASE Commits \/ RunFailsToStart \/ Reads
  <2>1. UNCHANGED <<ctx, appOwn, up>> /\ (up => (stream' = "end" <=> stream = "end"))
    BY <1>1 DEF Commits, RunFailsToStart, Reads, Src!SourceCommit, Src!StartFails, Src!Receive,
      Src!Ack
  <2> QED
    BY <2>1, AloneKeepsApp DEF ClosedAtEnd, appOwn
<1>2. CASE RunStarts
  <2>1. AppP!Boot /\ ctx' = FALSE /\ stream' = "read" /\ closed' = FALSE
    BY <1>2, SameAppInit DEF RunStarts, Src!Start, AppP!Boot
  <2> QED
    BY <2>1, BootKeepsApp DEF ClosedAtEnd
<1>3. CASE HandsOver
  <2>1. /\ stream = "send" /\ pos \in AppP!Events /\ AppP!Feed(pos)
        /\ UNCHANGED <<ctx, AppP!dispVars, AppP!workVars, AppP!ddlVars, wch, cnt>>
    BY <1>3, HandOver
  <2>2. AppP!TypeOK' /\ AppP!Bounds'
    BY <2>1, PartsAssumed, AppP!FeedTypes DEF AppInv
  <2>3. AppP!Draining'
    BY <2>1 DEF AppInv, AppP!Draining, AppP!Feed, AppP!Live, AppP!Cancelled, AppP!dispVars,
      AppP!workVars
  <2>4. ClosedAtEnd'
    BY <1>3, <2>1 DEF ClosedAtEnd, HandsOver, Src!Send, AppP!Feed
  <2> QED
    BY <2>2, <2>3, <2>4 DEF AppInv
<1>4. CASE StreamCloses
  <2>1. /\ closed' = TRUE /\ stream' = "end"
        /\ UNCHANGED <<ctx, chan, halt, fatal, mode, ret, buf, todo, out, wch, wclosed, hand,
                       phase, target, missing, reset, cnt, fate>>
    BY <1>4 DEF StreamCloses, Src!StreamEnds, Src!ParseFailure, App!CloseInput
  <2> QED
    BY <2>1 DEF ClosedAtEnd, AppInv, AppP!TypeOK, AppP!Bounds, AppP!Draining, AppP!Live,
      AppP!Cancelled
<1>5. CASE Applies
  <2>1. AppP!AppStep /\ UNCHANGED <<up, stream>>
    BY <1>5, SameAppStep DEF Applies, srcOwn
  <2>2. AppInv'
    BY SMTT(30), <2>1, PartsAssumed, AppP!StepTypes, AppP!StepDrains DEF AppInv
  <2>3. closed' = closed
    BY <2>1 DEF AppP!AppStep, AppP!Dispatcher, AppP!Worker, AppP!Poller, AppP!Dispatch,
      AppP!FlushTick, AppP!Drain, AppP!FlushTake, AppP!FlushSend, AppP!FlushDrop, AppP!FlushEnd,
      AppP!Return, AppP!Take, AppP!ExitWorker, AppP!Skip, AppP!Structural, AppP!Exec,
      AppP!Applied, AppP!Failed, AppP!TableAbsent, AppP!MarkMissing, AppP!CreateTable,
      AppP!ResetMissingTables, AppP!ExpireMissing, AppP!inVars
  <2> QED
    BY <2>1, <2>2, <2>3 DEF ClosedAtEnd
<1>6. CASE Tick \/ SignalSeen \/ Signal \/ UNCHANGED vars
  <2>1. UNCHANGED <<ctx, appOwn, up, stream>>
    BY <1>6 DEF Tick, SignalSeen, Signal, Src!Checkpoint, vars, srcOwn
  <2> QED
    BY <2>1, AloneKeepsApp DEF ClosedAtEnd, appOwn
<1>7. CASE CmdCancels
  <2>1. ctx' = TRUE /\ UNCHANGED <<appOwn, up, stream>>
    BY <1>7 DEF CmdCancels, Src!CancelCtx, srcOwn
  <2> QED
    BY <2>1 DEF ClosedAtEnd, appOwn, AppInv, AppP!TypeOK, AppP!Bounds, AppP!Draining,
      AppP!Live, AppP!Cancelled
<1>8. CASE ApplierEnds \/ SignalEnds \/ ContextEnds \/ DdlHalts \/ Killed
  <2>1. UNCHANGED <<ctx, appOwn>> /\ up' = FALSE
    BY <1>8 DEF ApplierEnds, SignalEnds, ContextEnds, DdlHalts, Killed, Ends, Src!Exit
  <2> QED
    BY <2>1, AloneKeepsApp DEF ClosedAtEnd
<1> QED
  BY <1>1, <1>2, <1>3, <1>4, <1>5, <1>6, <1>7, <1>8 DEF Next, RunLoop

LEMMA AppInvInit == Init => AppInv /\ ClosedAtEnd
<1> SUFFICES ASSUME Init PROVE AppInv /\ ClosedAtEnd
  OBVIOUS
<1>1. AppP!IInv
  BY PartsAssumed, SameAppInit, AppP!InitIInv DEF Init
<1> QED
  BY <1>1 DEF AppP!IInv, AppInv, ClosedAtEnd, Init, Src!Init

LEMMA AppInvariance == Spec => [](AppInv /\ ClosedAtEnd)
<1>1. RpcUp /\ SrcP!TypeOK /\ AppInv /\ ClosedAtEnd /\ [Next]_vars => (AppInv /\ ClosedAtEnd)'
  BY AppInvStep
<1> QED
  BY <1>1, AppInvInit, RpcInvariant, SourceTypes, PTL DEF Spec

LEMMA HistoryTypes ==
  Spec => [](/\ rpc \in {"down", "loop", "sigWait"} /\ sig \in BOOLEAN /\ rough \in BOOLEAN
             /\ settled \subseteq Events /\ refused \subseteq Events)
<1> DEFINE T == /\ rpc \in {"down", "loop", "sigWait"} /\ sig \in BOOLEAN /\ rough \in BOOLEAN
                /\ settled \subseteq Events /\ refused \subseteq Events
<1>1. Init => T
  BY DEF Init
<1>2. AppInv /\ AppInv' /\ T /\ [Next]_vars => T'
  <2> SUFFICES ASSUME AppInv, AppInv', T, [Next]_vars PROVE T'
    OBVIOUS
  <2>1. CASE Commits \/ RunFailsToStart \/ Reads \/ HandsOver \/ StreamCloses \/ CmdCancels
    BY <2>1 DEF Commits, RunFailsToStart, Reads, HandsOver, StreamCloses, CmdCancels, runVars,
      history
  <2>2. CASE RunStarts \/ Tick \/ SignalSeen \/ Signal
    BY <2>2 DEF RunStarts, Tick, SignalSeen, Signal, runVars, history
  <2>3. CASE Applies
    <3>1. fatal' \in BOOLEAN
      BY DEF AppInv, AppP!TypeOK
    <3> QED
      BY <2>3, <3>1 DEF Applies
  <2>4. CASE ApplierEnds \/ SignalEnds \/ ContextEnds \/ DdlHalts \/ Killed
    BY <2>4 DEF ApplierEnds, SignalEnds, ContextEnds, DdlHalts, Killed, Ends, history
  <2>5. CASE UNCHANGED vars
    BY <2>5 DEF vars, runVars, history
  <2> QED
    BY <2>1, <2>2, <2>3, <2>4, <2>5 DEF Next, RunLoop
<1> QED
  BY <1>1, <1>2, AppInvariance, PTL DEF Spec

\* Type correctness of the process: its source and its applier keep their
\* ranges, Run is in a phase exactly while the process is up, and the channel
\* between them is closed exactly when the stream is over.
THEOREM TypeCorrect == Spec => []TypeOK
<1> DEFINE T == /\ rpc \in {"down", "loop", "sigWait"} /\ sig \in BOOLEAN /\ rough \in BOOLEAN
                /\ settled \subseteq Events /\ refused \subseteq Events
<1>1. SrcP!TypeOK /\ AppInv /\ ClosedAtEnd /\ RpcUp /\ T => TypeOK
  BY SameSource, SameTypes DEF TypeOK, AppInv, ClosedAtEnd, RpcUp
<1> QED
  BY <1>1, SourceTypes, AppInvariance, RpcInvariant, HistoryTypes, PTL

-----------------------------------------------------------------------------
(* A chain that ended cleanly lost nothing.  Assumes the seed, as            *)
(* CdcSource_proofs does.                                                    *)

\* A halt, a signal and a cancelled context are remembered.
Remembered ==
  /\ halt \/ sig => rough
  /\ ctx \/ rpc = "sigWait" => sig

\* What this process has settled is in the history.
FatesCount ==
  \A m \in Events : fate[m] \in {"applied", "skipped", "failed"} => m \in settled

\* What a position covers, the stream has passed.
Passed == up => \A m \in Msgs : Commit[m] <= lsn \/ Commit[m] <= slot => m < pos

\* Every event since the seed that the stream has passed is with the applier
\* or settled, and, between two processes, what the slot or the file covers is
\* settled: this is what the next process resumes from.
Delivered ==
  ~rough =>
    /\ up => \A m \in Events : Seed < Commit[m] /\ m < pos => m \in settled \cup AppP!FedEvents
    /\ ~up => \A m \in Events :
                Seed < Commit[m] /\ (Commit[m] <= file \/ Commit[m] <= slot) => m \in settled

Chain == Remembered /\ FatesCount /\ Passed /\ Delivered

LEMMA EventsAreMessages ==
  /\ N \in Nat
  /\ \A m \in Msgs : m \in 1..N /\ Commit[m] \in Nat /\ Lsn[m] \in Nat
  /\ \A m \in Events : m \in Msgs
  BY WalAssumption DEF Msgs, Events

LEMMA ChainInit == Init => Chain
<1> SUFFICES ASSUME Init PROVE Chain
  OBVIOUS
<1>1. up = FALSE /\ slot = Seed /\ file = Seed /\ halt = FALSE /\ ctx = FALSE /\ sig = FALSE
      /\ rpc = "down" /\ rough = FALSE /\ fate = [m \in Events |-> "none"]
  BY SameEvents DEF Init, Src!Init, App!Init
<1>2. \A m \in Events : ~(Seed < Commit[m] /\ Commit[m] <= Seed)
  BY EventsAreMessages, RunnerAssumption DEF Src!SeedAssumption
<1> QED
  BY <1>1, <1>2 DEF Chain, Remembered, FatesCount, Passed, Delivered

\* A step that changes nothing of what Chain speaks of.
LEMMA AloneKeepsChain ==
  ASSUME Chain, UNCHANGED <<appOwn, ctx, sig, up, rpc, rough, settled, slot, pos, lsn>>,
         up \/ UNCHANGED file
  PROVE  Chain'
<1>1. AppP!FedEvents' = AppP!FedEvents
  BY DEF appOwn, AppP!FedEvents, AppP!Received, AppP!Sent, AppP!Buffered, AppP!AtWorkers,
    AppP!Settled, AppP!Held, AppP!Queued
<1> QED
  BY <1>1 DEF appOwn, Chain, Remembered, FatesCount, Passed, Delivered

\* A new process stands right behind what its slot and its file cover.
LEMMA ChainStart ==
  ASSUME Seed # 0, SrcP!IInv, Chain, RunStarts
  PROVE  Chain'
<1>1. /\ slot \in Nat /\ file \in Nat /\ slot # 0 /\ file # 0
  BY RunnerAssumption
  DEF SrcP!IInv, SrcP!TypeOK, SrcP!Retained, SrcP!NoFile, SrcP!Torn, RunStarts, Src!Start,
    Src!Torn, Src!SeedAssumption
<1>2. /\ ~up /\ up' = TRUE /\ lsn' = file /\ slot' = slot /\ ctx' = FALSE
      /\ \A m \in Msgs : Commit[m] <= Max(file, slot) <=> m < pos'
  BY <1>1 DEF RunStarts, Src!Start, Src!CreateSlot, Src!ResumesAt, Src!NoFile, Src!Max, Max,
    Src!Msgs, Msgs
<1>3. \A m \in Msgs : Commit[m] <= file \/ Commit[m] <= slot <=> m < pos'
  BY <1>1, <1>2, EventsAreMessages DEF Max
<1>4. Passed'
  BY <1>2, <1>3 DEF Passed
<1>5. Delivered'
  BY <1>2, <1>3, EventsAreMessages DEF Chain, Delivered, RunStarts, history
<1>6. Remembered' /\ FatesCount'
  BY <1>2, SameEvents DEF RunStarts, App!Boot, Remembered, FatesCount
<1> QED
  BY <1>4, <1>5, <1>6 DEF Chain

\* Reading on: the position stays behind every message the stream has not
\* passed, and only control messages are passed without the applier.
LEMMA ChainReads ==
  ASSUME SrcP!IInv, Chain, Reads
  PROVE  Chain'
<1>1. /\ UNCHANGED <<appOwn, ctx, sig, up, rpc, rough, settled, file>>
      /\ up /\ pos \in 1..(N + 1) /\ lsn \in Nat /\ slot \in Nat
  BY DEF Reads, Src!Receive, Src!Ack, runVars, history, SrcP!IInv, SrcP!TypeOK
<1>2. AppP!FedEvents' = AppP!FedEvents
  BY <1>1 DEF appOwn, AppP!FedEvents, AppP!Received, AppP!Sent, AppP!Buffered, AppP!AtWorkers,
    AppP!Settled, AppP!Held, AppP!Queued
<1>3. Remembered' /\ FatesCount'
  BY <1>1 DEF appOwn, Chain, Remembered, FatesCount
<1>4. CASE Src!Ack
  <2>1. slot' = Max(slot, lsn) /\ UNCHANGED <<pos, lsn>>
    BY <1>4 DEF Src!Ack, Src!Max, Max
  <2>2. Passed'
    BY <1>1, <2>1, EventsAreMessages DEF Chain, Passed, Max
  <2>3. Delivered'
    BY <1>1, <1>2, <2>1 DEF Chain, Delivered
  <2> QED
    BY <1>3, <2>2, <2>3 DEF Chain
<1>5. CASE Src!Receive
  <2>1. /\ pos \in Msgs /\ lsn' = Max(lsn, Lsn[pos]) /\ UNCHANGED slot
        /\ IF IsEvent(pos) THEN pos' = pos ELSE pos' = pos + 1
    <3>1. avail \in 0..N
      BY DEF SrcP!IInv, SrcP!TypeOK
    <3> QED
      BY <1>1, <1>5, <3>1, EventsAreMessages DEF Src!Receive, Src!Max, Max, Msgs, Src!IsEvent,
        IsEvent
  <2>2. Passed'
    <3> SUFFICES ASSUME NEW m \in Msgs, Commit[m] <= lsn' \/ Commit[m] <= slot'
                 PROVE  m < pos'
      BY DEF Passed
    <3>1. CASE Commit[m] <= lsn \/ Commit[m] <= slot
      <4>1. m < pos
        BY <1>1, <3>1 DEF Chain, Passed
      <4> QED
        BY <1>1, <2>1, <4>1, EventsAreMessages
    <3>2. CASE Commit[m] <= Lsn[pos]
      <4>1. ~(pos < m)
        BY <2>1, <3>2, EventsAreMessages, WalAssumption
      <4>2. IsEvent(pos) => pos # m
        BY <2>1, <3>2, EventsAreMessages, WalAssumption
      <4> QED
        BY <1>1, <2>1, <4>1, <4>2, EventsAreMessages
    <3> QED
      BY <1>1, <2>1, <3>1, <3>2 DEF Max
  <2>3. \A m \in Events : m < pos' => m < pos
    BY <1>1, <2>1, EventsAreMessages DEF Events
  <2>4. Delivered'
    BY <1>1, <1>2, <2>3 DEF Chain, Delivered
  <2> QED
    BY <1>3, <2>2, <2>4 DEF Chain
<1> QED
  BY <1>4, <1>5 DEF Reads

\* The event the stream passes is on the channel.
LEMMA ChainHandOver ==
  ASSUME SrcP!TypeOK, AppInv, Chain, HandsOver
  PROVE  Chain'
<1>1. /\ up /\ up' = up /\ pos' = pos + 1 /\ pos \in Events /\ pos \in Nat
      /\ UNCHANGED <<lsn, slot, file, ctx, sig, rpc, rough, settled, halt, fate>>
      /\ AppP!Feed(pos)
      /\ UNCHANGED <<buf, out, wch, hand, fate>>
  BY HandOver, SameEvents, EventsAreMessages
  DEF HandsOver, Src!Send, runVars, history, SrcP!TypeOK, Msgs
<1>2. AppP!FedEvents' = AppP!FedEvents \cup {pos}
  <2>1. AppP!Range(chan') = AppP!Range(chan) \cup {pos}
    <3>1. chan \in Seq(AppP!Events) /\ pos \in AppP!Events
      BY <1>1, SameEvents DEF AppInv, AppP!TypeOK
    <3> QED
      BY <1>1, <3>1, PartsAssumed, AppP!RangeOfAppend DEF AppP!Feed
  <2>2. AppP!Received' = AppP!Received
    BY <1>1 DEF AppP!Received, AppP!Sent, AppP!Buffered, AppP!AtWorkers, AppP!Settled,
      AppP!Held, AppP!Queued
  <2> QED
    BY <2>1, <2>2 DEF AppP!FedEvents
<1>3. Remembered' /\ FatesCount'
  BY <1>1 DEF Chain, Remembered, FatesCount
<1>4. Passed'
  BY <1>1, EventsAreMessages DEF Chain, Passed
<1>5. Delivered'
  <2>1. \A m \in Events : m < pos' => m < pos \/ m = pos
    BY <1>1, EventsAreMessages
  <2> QED
    BY <1>1, <1>2, <2>1 DEF Chain, Delivered
<1> QED
  BY <1>3, <1>4, <1>5 DEF Chain

\* The applier loses nothing unless it halts, which is remembered.
LEMMA ChainApplies ==
  ASSUME AppInv, AppInv', Chain, Applies
  PROVE  Chain'
<1>1. /\ AppP!AppStep /\ UNCHANGED <<ctx, sig, rpc, up, pos, lsn, slot, file>>
      /\ settled' = settled \cup {m \in Events : fate'[m] \in {"applied", "skipped", "failed"}}
      /\ rough' = (rough \/ fatal')
  BY SameAppStep DEF Applies, srcOwn
<1>2. /\ halt' <=> fatal'
      /\ ~ctx /\ ~halt' => AppP!FedEvents' = AppP!FedEvents
      /\ halt => halt'
  <2>1. halt' <=> fatal'
    BY DEF AppInv, AppP!TypeOK
  <2>2. ctx \in BOOLEAN /\ halt \in BOOLEAN /\ halt' \in BOOLEAN
    BY SMTT(30) DEF AppInv, AppP!TypeOK
  <2>3. halt => halt'
    BY <1>1, <2>2 DEF AppP!AppStep, AppP!Dispatcher, AppP!Worker, AppP!Poller, AppP!Dispatch,
      AppP!FlushTick, AppP!Drain, AppP!FlushTake, AppP!FlushSend, AppP!FlushDrop, AppP!FlushEnd,
      AppP!Return, AppP!Take, AppP!ExitWorker, AppP!Skip, AppP!Structural, AppP!Exec,
      AppP!Applied, AppP!Failed, AppP!TableAbsent, AppP!MarkMissing, AppP!CreateTable,
      AppP!ResetMissingTables, AppP!ExpireMissing, AppP!workVars
  <2>4. ~ctx /\ ~halt' => AppP!FedEvents' = AppP!FedEvents
    BY <1>1, PartsAssumed, AppP!StepLosesNothing DEF AppInv, AppP!Live, AppP!Cancelled
  <2> QED
    BY <2>1, <2>3, <2>4
<1>3. Remembered' /\ FatesCount' /\ Passed'
  BY <1>1, <1>2 DEF Chain, Remembered, FatesCount, Passed
<1>4. Delivered'
  <2> SUFFICES ASSUME ~rough' PROVE Delivered'
    BY DEF Delivered
  <2>1. ~rough /\ AppP!FedEvents' = AppP!FedEvents
    BY <1>1, <1>2 DEF Chain, Remembered
  <2>2. settled \subseteq settled'
    BY <1>1
  <2> QED
    BY <1>1, <2>1, <2>2 DEF Chain, Delivered
<1> QED
  BY <1>3, <1>4 DEF Chain

\* The process ends.  Unless it was signalled, halted or killed it ends with
\* the applier, which has drained: whatever the file covers is settled.
LEMMA ChainEnd ==
  ASSUME RpcUp, SrcP!IInv, AppInv, Chain,
         ApplierEnds \/ SignalEnds \/ ContextEnds \/ DdlHalts \/ Killed
  PROVE  Chain'
<1>1. /\ up' = FALSE /\ rpc' = "down"
      /\ UNCHANGED <<appOwn, ctx, sig, settled, slot, pos, lsn>>
      /\ rough => rough'
  BY DEF ApplierEnds, SignalEnds, ContextEnds, DdlHalts, Killed, Ends, Src!Exit, history
<1>2. Remembered' /\ FatesCount' /\ Passed'
  BY <1>1 DEF appOwn, Chain, Remembered, FatesCount, Passed
<1>3. Delivered'
  <2> SUFFICES ASSUME ~rough', NEW m \in Events, Seed < Commit[m],
                      Commit[m] <= file' \/ Commit[m] <= slot
               PROVE  m \in settled
    BY <1>1 DEF Delivered
  <2>1. ~rough /\ ~halt /\ ~sig /\ ~ctx /\ rpc # "sigWait"
    BY <1>1 DEF Chain, Remembered
  <2>2. ApplierEnds
    BY <2>1 DEF SignalEnds, ContextEnds, DdlHalts, Killed
  <2>3. up /\ mode = "done" /\ (file' = lsn \/ file' = -1)
    BY <2>2 DEF ApplierEnds, LastSave, Src!SaveWrite, Src!SaveTruncate, Src!Torn, RpcUp
  <2>4. Commit[m] <= lsn \/ Commit[m] <= slot
    BY <2>3, EventsAreMessages
  <2>5. m \in settled \cup AppP!FedEvents
    BY <2>1, <2>3, <2>4, EventsAreMessages DEF Chain, Passed, Delivered
  <2>6. chan = <<>> /\ AppP!Received = AppP!Settled
    BY <2>1, <2>3, PartsAssumed, AppP!DoneIsSettled DEF AppInv, AppP!Live, AppP!Cancelled
  <2>7. AppP!Range(chan) = {}
    BY <2>6 DEF AppP!Range
  <2>8. CASE m \in AppP!Settled
    <3>1. fate[m] \in {"applied", "failed", "skipped", "fatal"} /\ fate[m] # "fatal"
      BY <2>1, <2>8, SameEvents DEF AppInv, AppP!TypeOK, AppP!Draining, AppP!Settled
    <3> QED
      BY <3>1 DEF Chain, FatesCount
  <2> QED
    BY <2>5, <2>6, <2>7, <2>8 DEF AppP!FedEvents
<1> QED
  BY <1>2, <1>3 DEF Chain


LEMMA ChainStep ==
  ASSUME Seed # 0, RpcUp, SrcP!IInv, AppInv, AppInv', Chain, [Next]_vars
  PROVE  Chain'
<1>1. CASE Commits \/ RunFailsToStart
  <2>1. slot # 0
    BY RunnerAssumption DEF SrcP!IInv, SrcP!Retained, SrcP!TypeOK, Src!SeedAssumption
  <2>2. UNCHANGED <<appOwn, ctx, sig, up, rpc, rough, settled, slot, pos, lsn, file>>
    BY <1>1, <2>1 DEF Commits, RunFailsToStart, Src!SourceCommit, Src!StartFails,
      Src!CreateSlot, runVars, history
  <2> QED
    BY <2>2, AloneKeepsChain
<1>2. CASE StreamCloses
  <2>1. /\ UNCHANGED <<chan, halt, fate, buf, out, wch, hand>>
        /\ UNCHANGED <<ctx, sig, up, rpc, rough, settled, slot, pos, lsn, file>>
    BY <1>2 DEF StreamCloses, Src!StreamEnds, Src!ParseFailure, App!CloseInput, runVars, history
  <2>2. AppP!FedEvents' = AppP!FedEvents
    BY <2>1 DEF AppP!FedEvents, AppP!Received, AppP!Sent, AppP!Buffered, AppP!AtWorkers,
      AppP!Settled, AppP!Held, AppP!Queued
  <2> QED
    BY <2>1, <2>2 DEF Chain, Remembered, FatesCount, Passed, Delivered
<1>3. CASE Tick \/ UNCHANGED vars
  <2>1. /\ UNCHANGED <<appOwn, ctx, sig, up, rpc, rough, settled, slot, pos, lsn>>
        /\ up \/ UNCHANGED file
    BY <1>3 DEF Tick, Src!Checkpoint, vars, srcOwn, runVars, history
  <2> QED
    BY <2>1, AloneKeepsChain
<1>4. CASE Signal \/ SignalSeen \/ CmdCancels
  <2>1. /\ UNCHANGED <<appOwn, up, settled, slot, pos, lsn, file>>
        /\ rough => rough'
        /\ Remembered'
    BY <1>4 DEF Signal, SignalSeen, CmdCancels, Src!StopSource, Src!CancelCtx, runVars, history,
      srcOwn, appOwn, Chain, Remembered
  <2>2. AppP!FedEvents' = AppP!FedEvents
    BY <2>1 DEF appOwn, AppP!FedEvents, AppP!Received, AppP!Sent, AppP!Buffered, AppP!AtWorkers,
      AppP!Settled, AppP!Held, AppP!Queued
  <2> QED
    BY <2>1, <2>2 DEF appOwn, Chain, FatesCount, Passed, Delivered
<1>5. SrcP!TypeOK
  BY DEF SrcP!IInv
<1> QED
  BY <1>1, <1>2, <1>3, <1>4, <1>5, ChainStart, ChainReads, ChainHandOver, ChainApplies, ChainEnd
  DEF Next, RunLoop

LEMMA ChainInvariance == ASSUME Seed # 0 PROVE Spec => []Chain
<1>1. SrcP!Spec => []SrcP!IInv
  BY PartsAssumed, SrcP!Inductive
<1>2. RpcUp /\ SrcP!IInv /\ AppInv /\ AppInv' /\ Chain /\ [Next]_vars => Chain'
  BY ChainStep
<1> QED
  BY <1>1, <1>2, ChainInit, RunsTheSource, RpcInvariant, AppInvariance, PTL DEF Spec

\* On a seeded chain whose processes all ended by a closed stream, every event
\* the checkpoint covers was applied, skipped or counted as failed by some
\* process, whatever was re-read after how many restarts.
THEOREM CleanEnds == ASSUME Seed # 0 PROVE Spec => []CleanEndsLoseNothing
<1>1. Chain => CleanEndsLoseNothing
  BY DEF Chain, Delivered, CleanEndsLoseNothing, Saved
<1> QED
  BY <1>1, ChainInvariance, PTL

=============================================================================
