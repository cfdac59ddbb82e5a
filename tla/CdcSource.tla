------------------------------ MODULE CdcSource ------------------------------
(***************************************************************************)
(* How far the CDC process tells PostgreSQL, and its own checkpoint file,  *)
(* that it has read: internal/cdc/source.go (Source.Start, streamLoop,     *)
(* Stop), the checkpoint writes of runner.go (Run) and checkpoint.go       *)
(* (Load, Save, Update).  The applier behind the event channel is left to  *)
(* CdcApplier and joined in CdcRunner; here an event on the channel is     *)
(* delivered and a process may end at any point its select loop allows.    *)
(***************************************************************************)
EXTENDS CdcWal

CONSTANTS
  Seed,        \* LSN seeded into the checkpoint file by the chain; 0 = no file
  MaxRestarts  \* bound: how many times the process is started

ASSUME SeedAssumption == Seed \in Nat /\ MaxRestarts \in Nat

NoFile == 0    \* no checkpoint file on disk
Torn   == -1   \* the file os.WriteFile had truncated when the process died

VARIABLES
  avail,    \* messages 1..avail are committed on the source
  slot,     \* confirmed_flush_lsn of the replication slot; 0 = no slot
  file,     \* LSN in the checkpoint file, NoFile or Torn
  starts,   \* how often the process was started
  up,       \* the CDC process is running
  stream,   \* streamLoop: "off", "read", "send", "end" (channel closed)
  pos,      \* the message the stream hands over next
  lsn,      \* Source.lsnCurrent
  srcFatal, \* Source.fatalErr is set
  stop,     \* Source.stopCh is closed
  ctx,      \* the context of Run is cancelled
  got       \* history: messages 1..got were handed to some process

srcVars == <<avail, slot, file, starts, up, stream, pos, lsn, srcFatal, stop, ctx, got>>

\* The ranges, and what the phase of the stream goes with.
TypeOK ==
  /\ avail \in 0..N
  /\ slot \in Nat
  /\ file \in Nat \cup {Torn}
  /\ starts \in 0..MaxRestarts
  /\ up \in BOOLEAN
  /\ stream \in {"off", "read", "send", "end"}
  /\ pos \in 1..(N + 1)
  /\ lsn \in Nat
  /\ srcFatal \in BOOLEAN
  /\ stop \in BOOLEAN
  /\ ctx \in BOOLEAN
  /\ got \in 0..N
  /\ up <=> stream # "off"
  /\ stream \in {"read", "send"} => ~srcFatal
  /\ stream = "send" => pos <= N /\ IsEvent(pos)

\* IDENTIFY_SYSTEM: the end of the source's WAL.
XLogPos == IF avail = 0 THEN BaseLsn ELSE Commit[avail]

\* The chain prepared the slot and wrote its LSN into the file (or there is
\* neither); what was committed before is the full migration's to copy.
Init ==
  /\ avail = 0
  /\ slot = Seed
  /\ file = Seed
  /\ starts = 0
  /\ up = FALSE
  /\ stream = "off"
  /\ pos = 1
  /\ lsn = 0
  /\ srcFatal = FALSE
  /\ stop = FALSE
  /\ ctx = FALSE
  /\ got \in 0..N /\ \A m \in Msgs : Commit[m] <= Seed <=> m <= got

-----------------------------------------------------------------------------
(* The source database. *)

\* A transaction commits: its messages become readable.
SourceCommit ==
  /\ \E m \in Msgs : m > avail /\ EndsTxn(m) /\ avail' = m
  /\ UNCHANGED <<slot, file, starts, up, stream, pos, lsn, srcFatal, stop, ctx, got>>

-----------------------------------------------------------------------------
(* The stream. *)

\* CREATE_REPLICATION_SLOT, which fails harmlessly when the slot exists.
\* What was committed before the first slot is not this chain's to deliver.
CreateSlot ==
  IF slot = 0 THEN slot' = XLogPos /\ got' = Max(got, avail)
              ELSE UNCHANGED <<slot, got>>

\* Run up to Source.Start: load the checkpoint (an unreadable file ends Run
\* with an error), resume from its LSN or from the current WAL end, create
\* the slot if there is none.  PostgreSQL never resumes before the slot.
Start ==
  /\ ~up /\ starts < MaxRestarts
  /\ file # Torn
  /\ starts' = starts + 1
  /\ up' = TRUE
  /\ stream' = "read"
  /\ CreateSlot
  /\ lsn' = IF file = NoFile THEN XLogPos ELSE file
  /\ ResumesAt(Max(lsn', slot'), pos')
  /\ srcFatal' = FALSE /\ stop' = FALSE /\ ctx' = FALSE
  /\ UNCHANGED <<avail, file>>

\* Source.Start creates the slot and then fails (StartReplication, or the
\* connection): Run returns the error and nothing was streamed.
StartFails ==
  /\ ~up /\ starts < MaxRestarts
  /\ file # Torn
  /\ starts' = starts + 1
  /\ CreateSlot
  /\ UNCHANGED <<avail, file, up, stream, pos, lsn, srcFatal, stop, ctx>>

\* Mutant: note the parse failure and read on.
ParseFailureReadsOn ==
  /\ stream = "read" /\ pos <= avail /\ Kind[pos] = "bad"
  /\ srcFatal' = TRUE
  /\ UNCHANGED <<avail, slot, file, starts, up, stream, pos, lsn, stop, ctx, got>>

\* Mutant: advance lsnCurrent before parsing.
ParseFailureAdvances ==
  /\ stream = "read" /\ pos <= avail /\ Kind[pos] = "bad"
  /\ srcFatal' = TRUE
  /\ lsn' = Max(lsn, Lsn[pos])
  /\ stream' = "end"
  /\ UNCHANGED <<avail, slot, file, starts, up, pos, stop, ctx, got>>

\* parseLogicalMsg fails: hold lsnCurrent, record the fatal, close the
\* channel.
ParseFailure ==
  /\ stream = "read" /\ pos <= avail /\ Kind[pos] = "bad"
  /\ srcFatal' = TRUE
  /\ stream' = "end"
  /\ UNCHANGED <<avail, slot, file, starts, up, pos, lsn, stop, ctx, got>>

\* A parsed record: lsnCurrent moves to its WALStart (never back); an event
\* still has to go through the channel.
Receive ==
  /\ stream = "read" /\ pos <= avail /\ Kind[pos] # "bad"
  /\ lsn' = Max(lsn, Lsn[pos])
  /\ IF IsEvent(pos)
     THEN stream' = "send" /\ UNCHANGED <<pos, got>>
     ELSE stream' = "read" /\ pos' = pos + 1 /\ got' = Max(got, pos)
  /\ UNCHANGED <<avail, slot, file, starts, up, srcFatal, stop, ctx>>

\* events <- event
Send ==
  /\ stream = "send"
  /\ stream' = "read"
  /\ pos' = pos + 1
  /\ got' = Max(got, pos)
  /\ UNCHANGED <<avail, slot, file, starts, up, lsn, srcFatal, stop, ctx>>

\* Mutant: a keepalive's ServerWALEnd is confirmed.
AckServerWALEnd ==
  /\ stream = "read"
  /\ slot' = Max(slot, XLogPos)
  /\ UNCHANGED <<avail, file, starts, up, stream, pos, lsn, srcFatal, stop, ctx, got>>

\* SendStandbyStatusUpdate: the slot may drop everything up to lsnCurrent.
Ack ==
  /\ stream = "read"
  /\ slot' = Max(slot, lsn)
  /\ UNCHANGED <<avail, file, starts, up, stream, pos, lsn, srcFatal, stop, ctx, got>>

\* ReceiveMessage fails, or the loop sees ctx.Done or stopCh: the goroutine
\* returns and closes the channel; an event not yet sent is dropped.
StreamEnds ==
  /\ stream = "read" \/ (stream = "send" /\ (stop \/ ctx))
  /\ stream' = "end"
  /\ UNCHANGED <<avail, slot, file, starts, up, pos, lsn, srcFatal, stop, ctx, got>>

\* Source.Stop (called by Run when it winds down) and the cancellation of
\* Run's context.
StopSource == stop' = TRUE
CancelCtx  == ctx' = TRUE

-----------------------------------------------------------------------------
(* The checkpoint and the end of the process. *)

\* Mutant: save the server's position instead of the stream's.
SaveXLogPos == file' = XLogPos

\* checkpoint.Update(source.CurrentLSN()) then Save.
SaveWrite == file' = lsn

\* os.WriteFile truncates the file before it writes it: a full disk or a kill
\* in between leaves it torn.
SaveTruncate == file' = Torn

Exit ==
  /\ up' = FALSE
  /\ stream' = "off"

-----------------------------------------------------------------------------
(* The source on its own: any caller that stops, saves and ends at will. *)

Checkpoint ==
  /\ up
  /\ SaveWrite \/ SaveTruncate
  /\ UNCHANGED <<avail, slot, starts, up, stream, pos, lsn, srcFatal, stop, ctx, got>>

WindDown ==
  /\ up
  /\ \/ StopSource /\ UNCHANGED ctx
     \/ CancelCtx /\ UNCHANGED stop
     \/ StopSource /\ CancelCtx
  /\ UNCHANGED <<avail, slot, file, starts, up, stream, pos, lsn, srcFatal, got>>

\* The process ends, with or without a last Update and Save, or is killed.
End ==
  /\ up
  /\ Exit
  /\ UNCHANGED file \/ SaveWrite \/ SaveTruncate
  /\ UNCHANGED <<avail, slot, starts, pos, lsn, srcFatal, stop, ctx, got>>

Next ==
  \/ SourceCommit
  \/ Start
  \/ StartFails
  \/ ParseFailure
  \/ Receive
  \/ Send
  \/ Ack
  \/ StreamEnds
  \/ Checkpoint
  \/ WindDown
  \/ End

Spec == Init /\ [][Next]_srcVars

-----------------------------------------------------------------------------
(* Properties. *)

\* No transaction at or below LSN l holds a message that was never handed to
\* an applier.
Covered(l) == \A m \in Msgs : Commit[m] <= l => m <= got

\* No gap: neither the slot nor the checkpoint file ever passes a message the
\* stream has not handed over, so whatever the next process resumes from, it
\* re-reads everything undelivered.  This is what holding lsnCurrent on a parse
\* failure and ignoring ServerWALEnd are for (source.go, streamLoop).
NoGap == Covered(slot) /\ Covered(file)

\* A record the parser refused is retained: the slot and the file stay below
\* the commit of its transaction, so a restart meets it again.
RefusedIsRetained ==
  srcFatal => /\ slot < Commit[pos]
              /\ file < Commit[pos]

\* Within one process the stream skips nothing, and a restart resumes at or
\* before the first message that was never handed over.
ResumesWithinGot == up => pos <= got + 1

\* The source implements CdcReplay: in-order delivery that an interruption
\* takes back but never past an undelivered message.  A process that is down
\* stands at the first undelivered one.
Replay == INSTANCE CdcReplay WITH next <- IF up THEN pos ELSE got + 1
ImplementsReplay == Replay!Spec

=============================================================================
