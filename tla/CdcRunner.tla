----------------------------- MODULE CdcRunner -----------------------------
(***************************************************************************)
(* The CDC process for a PostgreSQL source: Runner.Run of                  *)
(* internal/cdc/runner.go joins the source (CdcSource) and the applier     *)
(* (CdcApplier) through the event channel, saves the checkpoint on a       *)
(* ticker, and ends on the applier's return, a signal, a DDL halt or a     *)
(* cancelled context.  cmd/cdc.go cancels that context on the same signal. *)
(***************************************************************************)
EXTENDS CdcWal, Sequences, FiniteSets

CONSTANTS
  Seed, MaxRestarts,                                       \* see CdcSource
  BatchSize, Parallel, ChanCap, Route, SkipTables, Absent  \* see CdcApplier

VARIABLES
  avail, slot, file, starts, up, stream, pos, lsn, srcFatal, stop, got,
  ctx,      \* the context of Run, shared by the source and the applier
  chan, closed, halt, fatal, mode, ret, buf, todo, out, wch, wclosed,
  hand, phase, target, missing, reset, cnt, fate,
  rpc,      \* Run: "down", "loop" (the select) or "sigWait"
  sig,      \* SIGINT or SIGTERM was delivered to the process
  settled,  \* history: events some process applied, skipped or gave up on
  refused,  \* history: events a process halted on (structural failure)
  rough     \* history: a process was killed, signalled or halted

srcOwn  == <<avail, slot, file, starts, up, stream, pos, lsn, srcFatal, stop, got>>
appOwn  == <<chan, closed, halt, fatal, mode, ret, buf, todo, out, wch, wclosed,
             hand, phase, target, missing, reset, cnt, fate>>
runVars == <<rpc, sig, rough>>
history == <<settled, refused>>
vars    == <<srcOwn, ctx, appOwn, runVars, history>>

Src == INSTANCE CdcSource
App == INSTANCE CdcApplier

ASSUME RunnerAssumption == Src!SeedAssumption /\ App!ApplierAssumption

TypeOK ==
  /\ Src!TypeOK
  /\ App!TypeOK
  /\ rpc \in {"down", "loop", "sigWait"}
  /\ sig \in BOOLEAN /\ rough \in BOOLEAN
  /\ settled \subseteq Events /\ refused \subseteq Events
  /\ up <=> rpc # "down"
  /\ up => (closed <=> stream = "end")

Init ==
  /\ Src!Init
  /\ App!Init
  /\ rpc = "down" /\ sig = FALSE /\ rough = FALSE
  /\ settled = {} /\ refused = {}

-----------------------------------------------------------------------------
(* The source database and the stream goroutine. *)

Commits ==
  /\ Src!SourceCommit
  /\ UNCHANGED <<appOwn, runVars, history>>

\* Run: a new process with a new source and a new applier.
RunStarts ==
  /\ Src!Start
  /\ App!Boot
  /\ rpc' = "loop" /\ sig' = FALSE
  /\ UNCHANGED <<rough, history>>

RunFailsToStart ==
  /\ Src!StartFails
  /\ UNCHANGED <<appOwn, runVars, history>>

Reads ==
  /\ Src!Receive \/ Src!Ack
  /\ UNCHANGED <<appOwn, runVars, history>>

\* Mutant: a full channel drops the event (select with a default case).
HandsOverOrDrops ==
  /\ IF Len(chan) < ChanCap
     THEN Src!Send /\ App!Feed(pos)
     ELSE /\ stream = "send" /\ stream' = "read" /\ pos' = pos + 1
          /\ UNCHANGED <<avail, slot, file, starts, up, lsn, srcFatal, stop, ctx, got>>
          /\ UNCHANGED <<chan, closed>>
  /\ UNCHANGED <<halt, fatal, mode, ret, buf, todo, out, wch, wclosed, hand, phase,
                 target, missing, reset, cnt, fate, runVars, history>>

HandsOver ==
  /\ Src!Send
  /\ App!Feed(pos)
  /\ UNCHANGED <<halt, fatal, mode, ret, buf, todo, out, wch, wclosed, hand, phase,
                 target, missing, reset, cnt, fate, runVars, history>>

\* Mutant: streamLoop returns without closing the channel.
StreamForgetsClose ==
  /\ Src!StreamEnds \/ Src!ParseFailure
  /\ UNCHANGED <<appOwn, runVars, history>>

\* streamLoop returns: the deferred close(events).
StreamCloses ==
  /\ Src!StreamEnds \/ Src!ParseFailure
  /\ App!CloseInput
  /\ UNCHANGED <<halt, fatal, mode, ret, buf, todo, out, wch, wclosed, hand, phase,
                 target, missing, reset, cnt, fate, runVars, history>>

-----------------------------------------------------------------------------
(* The applier's goroutines. *)

Applies ==
  /\ up
  /\ App!AppStep
  /\ settled' = settled \cup {m \in Events : fate'[m] \in {"applied", "skipped", "failed"}}
  /\ refused' = refused \cup {m \in Events : fate'[m] = "fatal"}
  /\ rough' = (rough \/ fatal')
  /\ UNCHANGED <<srcOwn, ctx, rpc, sig>>

-----------------------------------------------------------------------------
(* Run's select loop. *)

Ends == Src!Exit /\ rpc' = "down"

\* The last Update and Save of a path that has one; a failed write is logged.
LastSave == Src!SaveWrite \/ Src!SaveTruncate

\* The checkpoint ticker: Update(CurrentLSN), Save.
Tick ==
  /\ rpc = "loop"
  /\ Src!Checkpoint
  /\ UNCHANGED <<appOwn, runVars, history>>

\* Mutant: Run ends with the stream and does not wait for the applier.
EndsWithStream ==
  /\ rpc = "loop" /\ stream = "end"
  /\ LastSave
  /\ Ends
  /\ UNCHANGED <<avail, slot, starts, pos, lsn, srcFatal, stop, got, ctx, appOwn, sig,
                 rough, history>>

\* Mutant: the applier's return is not watched.
IgnoresApplier == FALSE /\ UNCHANGED vars

\* <-errCh: the applier returned.  Last save, stop the source, return.
ApplierEnds ==
  /\ rpc = "loop" /\ mode = "done"
  /\ LastSave
  /\ Ends
  /\ UNCHANGED <<avail, slot, starts, pos, lsn, srcFatal, stop, got, ctx, appOwn, sig,
                 rough, history>>

\* The signal reaches both handlers: cmd/cdc.go cancels the context, ...
Signal ==
  /\ up /\ ~sig
  /\ sig' = TRUE /\ rough' = TRUE
  /\ UNCHANGED <<srcOwn, ctx, appOwn, rpc, history>>

CmdCancels ==
  /\ up /\ sig /\ ~ctx
  /\ Src!CancelCtx
  /\ UNCHANGED <<srcOwn, appOwn, runVars, history>>

\* ... Run stops the source and waits for the applier, for 30 seconds at most,
SignalSeen ==
  /\ rpc = "loop" /\ sig
  /\ rpc' = "sigWait"
  /\ Src!StopSource
  /\ UNCHANGED <<avail, slot, file, starts, up, stream, pos, lsn, srcFatal, got, ctx,
                 appOwn, sig, rough, history>>

\* saves and returns.
SignalEnds ==
  /\ rpc = "sigWait"      \* the applier returned, or the time is up
  /\ LastSave
  /\ Ends
  /\ UNCHANGED <<avail, slot, starts, pos, lsn, srcFatal, stop, got, ctx, appOwn, sig,
                 rough, history>>

\* <-ctx.Done: stop and return, nothing is saved.
ContextEnds ==
  /\ rpc = "loop" /\ ctx
  /\ Ends
  /\ UNCHANGED <<avail, slot, file, starts, pos, lsn, srcFatal, stop, got, ctx, appOwn,
                 sig, rough, history>>

\* <-ddlErrCh: the DDL poller met an error it may not skip.
DdlHalts ==
  /\ rpc = "loop"
  /\ LastSave
  /\ Ends
  /\ rough' = TRUE
  /\ UNCHANGED <<avail, slot, starts, pos, lsn, srcFatal, stop, got, ctx, appOwn, sig,
                 history>>

\* The process is killed, perhaps inside Save.
Killed ==
  /\ up
  /\ Ends
  /\ UNCHANGED file \/ Src!SaveTruncate
  /\ rough' = TRUE
  /\ UNCHANGED <<avail, slot, starts, pos, lsn, srcFatal, stop, got, ctx, appOwn, sig,
                 history>>

RunLoop == Tick \/ ApplierEnds \/ SignalSeen \/ SignalEnds \/ ContextEnds \/ DdlHalts

Next ==
  \/ Commits \/ RunStarts \/ RunFailsToStart \/ Reads \/ HandsOver \/ StreamCloses
  \/ Applies
  \/ RunLoop \/ Signal \/ CmdCancels \/ Killed

Spec == Init /\ [][Next]_vars

\* The goroutines of the process run; the runner takes a ready case of its
\* select.  Nothing is assumed of the database, of kills and of restarts.
FairSpec ==
  /\ Spec
  /\ WF_vars(Reads /\ Src!Receive) /\ WF_vars(HandsOver)
  /\ WF_vars(StreamCloses /\ (stop \/ ctx \/ srcFatal'))
  /\ WF_vars(up /\ App!Dispatcher /\ Applies)
  /\ \A w \in App!Workers : WF_vars(up /\ App!Worker(w) /\ Applies)
  /\ WF_vars(ApplierEnds) /\ WF_vars(SignalSeen) /\ WF_vars(SignalEnds)
  /\ WF_vars(ContextEnds) /\ WF_vars(CmdCancels)

-----------------------------------------------------------------------------
(* Properties. *)

\* The whole process implements the source on its own: every guarantee of
\* CdcSource (NoGap, RefusedIsRetained) is one of the process.
ImplementsSource == Src!Spec

\* An event that counts as done for the source and for the next process.
Saved(m) == Seed < Commit[m] /\ Commit[m] <= file

\* A chain whose processes all ended by a closed stream (connection loss,
\* parse failure) has settled every event its checkpoint covers: Run saves
\* after the applier has drained.
CleanEndsLoseNothing ==
  ~up /\ ~rough => \A m \in Events : Saved(m) => m \in settled

\* A process whose stream is over, that was told to stop or that halted does
\* not linger: it ends and can be restarted.
ComesDown == up /\ (stream = "end" \/ sig \/ halt) ~> ~up

\* An event of the stream is settled, unless the stream or the process ends
\* first.
EventuallySettled ==
  \A m \in Events :
    (up /\ pos <= m /\ m <= avail)
      ~> fate[m] \notin {"none", "fatal"} \/ ~up \/ stream = "end" \/ sig \/ halt

\* What the code says of itself and does not do (see the README):
\* the checkpoint moves after the events were applied;
AppliedBeforeSaved == \A m \in Events : Saved(m) => m \in settled

\* the final save is never past the event the applier halted on;
FinalSaveBelowHalt == [][ApplierEnds => \A m \in refused : file' < Commit[m]]_vars

\* the checkpoint file lets an interrupted chain resume.
Resumable == ~up => file # Src!Torn

=============================================================================
