---------------------------- MODULE Tasks_proofs ----------------------------
(***************************************************************************)
(* For any number of requests beside each other and any number of runs: a  *)
(* run that lost its task is cancelled or about to be.  With one start or  *)
(* resume at a time: a running row has a live run, and a row shows nothing *)
(* of older runs.                                                          *)
(***************************************************************************)
EXTENDS Tasks, TLAPS

-----------------------------------------------------------------------------
(* What the requests hold. *)

\* Only starts and resumes have steps of their own, and one that launches
\* holds a generation that was given out.
Requested ==
  \A r \in Requests :
    /\ r \notin Starting => req[r].step \in {"idle", "act"}
    /\ req[r].step \in Launch => req[r].gen \in 1..seq

\* No two hold the same.
Distinct ==
  \A r, s \in Requests :
    req[r].step \in Launch /\ req[s].step \in Launch /\ req[r].gen = req[s].gen => r = s

\* A generation not given out yet has no trace.
Fresh == \A g \in Gens : g > seq => pc[g] = "none" /\ g \notin clean

\* A run that may still write to the target: its pipeline runs or is about to
\* be launched.
Pending(g) == pc[g] = "pipe" \/ \E r \in Requests : req[r].step \in Launch /\ req[r].gen = g

\* OneWanted, of the runs about to be launched too.
Wanted ==
  \A g \in Gens : Pending(g) /\ g \notin ctx /\ g # owner =>
    \E r \in Requests : req[r].step = "cancel" /\ req[r].old = g

IInv == TypeOK /\ Requested /\ Distinct /\ Fresh /\ Wanted


Requesting == [kind : {"none", "pause", "cancel", "delete"} \cup Starters,
               step : {"idle", "swap", "act"} \cup Launch,
               gen : 0..MaxRuns, old : 0..MaxRuns]

Rows == [exists : BOOLEAN, status : Status, runId : 0..MaxRuns,
         result : 0..MaxRuns, progress : 0..MaxRuns]

\* TypeOK, with its records under names.
Ranges ==
  /\ row \in Rows
  /\ owner \in {0, seq} /\ seq \in 0..MaxRuns
  /\ pc \in [Gens -> RunPcs] /\ out \in [Gens -> {"none", "ok", "err", "bad"}]
  /\ ctx \subseteq Gens /\ clean \subseteq Gens
  /\ req \in [Requests -> Requesting]
  /\ \A r \in Requests : req[r].step \in Launch => pc[req[r].gen] = "none"
  /\ lost \in BOOLEAN

LEMMA TypesAreRanges == (TypeOK <=> Ranges) /\ (TypeOK' <=> Ranges')
  BY DEF TypeOK, Ranges, Rows, Requesting

LEMMA RequestFields ==
  ASSUME TypeOK, NEW r \in Requests
  PROVE  /\ req[r].gen \in 0..MaxRuns /\ req[r].old \in 0..MaxRuns
         /\ \A step \in {"idle", "swap", "act"} \cup Launch : \A g, o \in 0..MaxRuns :
              [kind |-> req[r].kind, step |-> step, gen |-> g, old |-> o] \in Requesting
<1>1. req[r] \in Requesting
  BY TypesAreRanges DEF Ranges
<1>2. /\ req[r].gen \in 0..MaxRuns /\ req[r].old \in 0..MaxRuns
      /\ req[r].kind \in {"none", "pause", "cancel", "delete"} \cup Starters
  BY <1>1 DEF Requesting
<1> QED
  BY <1>2 DEF Requesting

\* The record of one request changes.
LEMMA ReqStep ==
  ASSUME TypeOK, NEW r \in Requests, NEW q \in Requesting, req' = [req EXCEPT ![r] = q]
  PROVE  /\ req' \in [Requests -> Requesting] /\ req'[r] = q
         /\ \A s \in Requests : s # r => req'[s] = req[s]
  BY DEF TypeOK, Requesting

LEMMA GoesTo ==
  ASSUME TypeOK, NEW r \in Requests, NEW step \in {"reset", "launch"}, Goes(r, step)
  PROVE  /\ req' \in [Requests -> Requesting]
         /\ req'[r] = [kind |-> req[r].kind, step |-> step, gen |-> req[r].gen, old |-> req[r].old]
         /\ \A s \in Requests : s # r => req'[s] = req[s]
  BY DEF TypeOK, Goes, Requesting, Launch

LEMMA AnswersTo ==
  ASSUME TypeOK, NEW r \in Requests, Answers(r)
  PROVE  /\ req' \in [Requests -> Requesting] /\ req'[r] = Idle
         /\ \A s \in Requests : s # r => req'[s] = req[s]
  BY TasksAssumption DEF TypeOK, Answers, Requesting, Idle, Launch, Starters

LEMMA SwapTo ==
  ASSUME TypeOK, NEW r \in Requests, Swap(r)
  PROVE  /\ req' \in [Requests -> Requesting]
         /\ req'[r] = [kind |-> req[r].kind, step |-> "cancel", gen |-> seq + 1, old |-> owner]
         /\ \A s \in Requests : s # r => req'[s] = req[s]
<1>1. /\ seq + 1 \in 0..MaxRuns /\ owner \in 0..MaxRuns
      /\ req \in [Requests -> Requesting]
  BY TasksAssumption DEF Swap, TypeOK, Requesting
<1>2. req'[r] = [kind |-> req[r].kind, step |-> "cancel", gen |-> seq + 1, old |-> owner]
  BY ZenonT(60), <1>1 DEF Swap, Requesting, Launch
<1>3. req' = [req EXCEPT ![r] = req'[r]]
  BY <1>1 DEF Swap
<1>4. [kind |-> req[r].kind, step |-> "cancel", gen |-> seq + 1, old |-> owner] \in Requesting
  BY <1>1, RequestFields DEF Launch
<1> QED
  BY <1>2, <1>3, <1>4, ReqStep

LEMMA CancelsTo ==
  ASSUME TypeOK, NEW r \in Requests, CancelsOld(r)
  PROVE  /\ req' \in [Requests -> Requesting]
         /\ req'[r] = [kind |-> req[r].kind, step |-> "stamp", gen |-> req[r].gen, old |-> 0]
         /\ \A s \in Requests : s # r => req'[s] = req[s]
<1>1. 0 \in 0..MaxRuns /\ req \in [Requests -> Requesting]
  BY TasksAssumption DEF TypeOK, Requesting
<1>2. req'[r] = [kind |-> req[r].kind, step |-> "stamp", gen |-> req[r].gen, old |-> 0]
  BY <1>1 DEF CancelsOld, Requesting, Launch
<1>3. req' = [req EXCEPT ![r] = req'[r]]
  BY <1>1 DEF CancelsOld
<1>4. [kind |-> req[r].kind, step |-> "stamp", gen |-> req[r].gen, old |-> 0] \in Requesting
  BY <1>1, RequestFields DEF Launch
<1> QED
  BY <1>2, <1>3, <1>4, ReqStep

LEMMA InitIInv == Init => IInv
<1> SUFFICES ASSUME Init PROVE IInv
  OBVIOUS
<1>1. 0 \in 0..MaxRuns
  BY TasksAssumption
<1>2. row \in [exists : BOOLEAN, status : Status, runId : 0..MaxRuns,
               result : 0..MaxRuns, progress : 0..MaxRuns]
  BY <1>1 DEF Init, Created, Status
<1>3. /\ req \in [Requests -> Requesting] /\ \A r \in Requests : req[r].step = "idle"
  BY <1>1 DEF Init, Requesting, Idle
<1>4. pc \in [Gens -> RunPcs] /\ out \in [Gens -> {"none", "ok", "err", "bad"}]
  BY DEF Init, RunPcs
<1>5. TypeOK
  BY <1>1, <1>2, <1>3, <1>4 DEF Init, TypeOK, Requesting, Launch
<1>6. Requested /\ Distinct /\ Fresh /\ Wanted
  BY <1>3 DEF Init, Requested, Distinct, Fresh, Wanted, Pending, Launch
<1> QED
  BY <1>5, <1>6 DEF IInv

LEMMA RowTypes ==
  ASSUME row \in Rows
  PROVE  /\ \A st \in Status : [row EXCEPT !.status = st] \in Rows
         /\ \A g \in 0..MaxRuns :
              /\ [row EXCEPT !.status = "running", !.runId = g] \in Rows
              /\ [row EXCEPT !.result = g] \in Rows
              /\ [row EXCEPT !.progress = g] \in Rows
         /\ [row EXCEPT !.result = 0, !.progress = 0] \in Rows
         /\ [Created EXCEPT !.exists = FALSE] \in Rows
<1>1. 0 \in 0..MaxRuns /\ "running" \in Status /\ "created" \in Status
  BY TasksAssumption DEF Status
<1> HIDE DEF Status
<1>2. \A st \in Status : [row EXCEPT !.status = st] \in Rows
  BY DEF Rows
<1>3. \A g \in 0..MaxRuns :
              /\ [row EXCEPT !.status = "running", !.runId = g] \in Rows
              /\ [row EXCEPT !.result = g] \in Rows
              /\ [row EXCEPT !.progress = g] \in Rows
  BY <1>1 DEF Rows
<1>4. [row EXCEPT !.result = 0, !.progress = 0] \in Rows
  BY <1>1 DEF Rows
<1>5. [Created EXCEPT !.exists = FALSE] \in Rows
  BY <1>1 DEF Rows, Created
<1> QED
  BY <1>2, <1>3, <1>4, <1>5

\* A request arrives: only its own record changes.
LEMMA ArrivesStep == IInv /\ Arrives => IInv'
<1> SUFFICES ASSUME IInv, Arrives PROVE IInv'
  OBVIOUS
<1>1. PICK r \in Requests, q \in Requesting :
        /\ req[r] = Idle /\ req' = [req EXCEPT ![r] = q]
        /\ q.step \in {"swap", "act"} /\ (r \notin Starting => q.step = "act")
  <2>1. \A o \in {0, owner} : \A step \in {"swap", "act"} :
          \A kind \in {"start", "resume", "pause", "delete", "cancel"} :
             [kind |-> kind, step |-> step, gen |-> 0, old |-> o] \in Requesting
    BY TasksAssumption DEF IInv, TypeOK, Requesting, Starters
  <2>2. ASSUME NEW r \in Starting, NEW kind \in {"start", "resume"}, Begins(r, kind, "swap")
        PROVE  \E q \in Requesting : req[r] = Idle /\ req' = [req EXCEPT ![r] = q] /\ q.step = "swap"
    <3>1. [kind |-> kind, step |-> "swap", gen |-> 0, old |-> 0] \in Requesting
      BY <2>1
    <3> QED
      BY <2>2, <3>1 DEF Begins
  <2>3. ASSUME NEW r \in Others, NEW kind \in {"pause", "delete"}, Begins(r, kind, "act")
        PROVE  \E q \in Requesting : req[r] = Idle /\ req' = [req EXCEPT ![r] = q] /\ q.step = "act"
    <3>1. [kind |-> kind, step |-> "act", gen |-> 0, old |-> 0] \in Requesting
      BY <2>1
    <3> QED
      BY <2>3, <3>1 DEF Begins
  <2>4. ASSUME NEW r \in Others, CancelReads(r)
        PROVE  \E q \in Requesting : req[r] = Idle /\ req' = [req EXCEPT ![r] = q] /\ q.step = "act"
    <3>1. [kind |-> "cancel", step |-> "act", gen |-> 0, old |-> owner] \in Requesting
      BY <2>1
    <3> QED
      BY <2>4, <3>1 DEF CancelReads
  <2>5. CASE \E r \in Starting : StartChecks(r) \/ ResumeChecks(r)
    BY <2>2, <2>5 DEF StartChecks, ResumeChecks, Requests
  <2>6. CASE \E r \in Others : PauseChecks(r) \/ DeleteChecks(r) \/ CancelReads(r)
    BY <2>3, <2>4, <2>6 DEF PauseChecks, DeleteChecks, Requests
  <2> QED
    BY <2>5, <2>6 DEF Arrives
<1>2. UNCHANGED <<row, mem, runs, lost>>
  BY DEF Arrives, StartChecks, ResumeChecks, PauseChecks, DeleteChecks, CancelReads, Begins
<1>3. /\ req' \in [Requests -> Requesting] /\ req'[r] = q
      /\ \A s \in Requests : s # r => req'[s] = req[s]
  BY <1>1, ReqStep DEF IInv
<1>4. req'[r].step \notin Launch /\ req[r].step = "idle"
  BY <1>1, <1>3 DEF Launch, Idle
<1>5. TypeOK'
  BY <1>2, <1>3, <1>4 DEF IInv, TypeOK, Requesting, mem, runs
<1>6. Requested' /\ Distinct' /\ Fresh' 
  BY <1>1, <1>2, <1>3, <1>4 DEF IInv, Requested, Distinct, Fresh, mem, runs
<1>7. Wanted'
  BY <1>2, <1>3, <1>4 DEF IInv, Wanted, Pending, mem, runs
<1> QED
  BY <1>5, <1>6, <1>7 DEF IInv

\* A handler that answers and at most cancels: its request held no generation,
\* or lets go of it once its run is in the pipeline.
LEMMA AnswerStep ==
  ASSUME IInv, NEW r \in Requests, req[r].step \notin Launch, Answers(r),
         row' \in Rows, ctx \subseteq ctx', ctx' \subseteq Gens,
         UNCHANGED <<mem, pc, out, clean, lost>>
  PROVE  IInv'
<1>1. /\ req' \in [Requests -> Requesting] /\ req'[r] = Idle
      /\ \A s \in Requests : s # r => req'[s] = req[s]
  BY AnswersTo DEF IInv
<1>2. req'[r].step = "idle" /\ "cancel" \in Launch /\ "idle" \notin Launch
  BY <1>1 DEF Idle, Launch
<1>3. TypeOK'
  BY <1>1, <1>2 DEF IInv, TypeOK, Requesting, Rows, mem
<1>4. Requested' /\ Distinct' /\ Fresh'
  BY <1>1, <1>2 DEF IInv, Requested, Distinct, Fresh, mem
<1>5. Wanted'
  BY <1>1, <1>2 DEF IInv, Wanted, Pending, mem
<1> QED
  BY <1>3, <1>4, <1>5 DEF IInv

LEMMA HandlesStep ==
  ASSUME IInv, NEW r \in Requests, Handles(r)
  PROVE  IInv'
<1>0. /\ row \in Rows /\ ctx \subseteq Gens /\ req \in [Requests -> Requesting]
      /\ 0 \in 0..MaxRuns /\ seq \in 0..MaxRuns /\ MaxRuns \in Nat /\ owner \in {0, seq}
      /\ req[r] \in Requesting
  BY TasksAssumption DEF IInv, TypeOK, Rows, Requesting
<1>h. req[r].step \in Launch => req[r].gen \in 1..seq /\ req[r].gen \in Gens /\ pc[req[r].gen] = "none"
  BY <1>0 DEF IInv, TypeOK, Requested, Gens
<1>1. CASE ChainNotPrepared(r) \/ PauseWrites(r) \/ Deletes(r)
  <2>1. row' \in Rows
    BY <1>0, <1>1, RowTypes DEF ChainNotPrepared, PauseWrites, Deletes, TriesToSet, Sets, Status
  <2>2. req[r].step \notin Launch /\ Answers(r) /\ UNCHANGED <<mem, runs, lost>>
    BY <1>1 DEF ChainNotPrepared, PauseWrites, Deletes, At, Launch
  <2> QED
    BY <1>0, <2>1, <2>2, AnswerStep DEF runs
<1>2. CASE CancelActs(r)
  <2>1. row' \in Rows
    BY <1>0, <1>2, RowTypes DEF CancelActs, TriesToSet, Sets, Status
  <2>2. /\ req[r].step \notin Launch /\ Answers(r) /\ UNCHANGED <<mem, pc, out, clean, lost>>
        /\ ctx \subseteq ctx' /\ ctx' \subseteq Gens
    BY <1>0, <1>2 DEF CancelActs, At, Launch, Cancels
  <2> QED
    BY <2>1, <2>2, AnswerStep
<1>3. CASE Swap(r)
  <2> DEFINE q == [kind |-> req[r].kind, step |-> "cancel", gen |-> seq + 1, old |-> owner]
  <2>1. seq + 1 \in Gens /\ seq + 1 \in 0..MaxRuns /\ owner \in 0..MaxRuns
    BY <1>0, <1>3 DEF Swap, Gens
  <2>3. /\ req' \in [Requests -> Requesting] /\ req'[r] = q
        /\ \A s \in Requests : s # r => req'[s] = req[s]
    BY <1>3, SwapTo DEF IInv
  <2>4. /\ r \in Starting /\ req[r].step = "swap" /\ pc[seq + 1] = "none"
        /\ UNCHANGED <<row, pc, ctx, out, lost>> /\ seq' = seq + 1 /\ owner' = seq + 1
        /\ clean' \in {clean, clean \cup {seq + 1}}
    BY <1>0, <1>3, <2>1 DEF Swap, At, IInv, Requested, Fresh
  <2>5. TypeOK'
    <3>1. \A s \in Requests : req'[s].step \in Launch => pc'[req'[s].gen] = "none"
      BY <2>3, <2>4, TypesAreRanges DEF IInv, Ranges
    <3> QED
      BY <1>0, <2>1, <2>3, <2>4, <3>1, TypesAreRanges DEF IInv, Ranges
  <2>6. Requested' /\ Fresh'
    BY <1>0, <2>1, <2>3, <2>4 DEF IInv, Requested, Fresh, Gens
  <2>7. Distinct'
    BY <1>0, <2>3, <2>4 DEF IInv, Requested, Distinct
  <2>8. Wanted'
    <3> SUFFICES ASSUME NEW g \in Gens, Pending(g)', g \notin ctx', g # owner'
                 PROVE  \E s \in Requests : req'[s].step = "cancel" /\ req'[s].old = g
      BY DEF Wanted
    <3>1. Pending(g)
      BY <2>3, <2>4 DEF Pending
    <3>2. CASE g = owner
      BY <2>3, <3>2
    <3>3. CASE g # owner
      <4>1. PICK s \in Requests : req[s].step = "cancel" /\ req[s].old = g
        BY <2>4, <3>1, <3>3 DEF IInv, Wanted
      <4> QED
        BY <2>3, <2>4, <4>1
    <3> QED
      BY <3>2, <3>3
  <2> QED
    BY <2>5, <2>6, <2>7, <2>8 DEF IInv
<1>4. CASE CancelsOld(r)
  <2> DEFINE q == [kind |-> req[r].kind, step |-> "stamp", gen |-> req[r].gen, old |-> 0]
  <2>2. /\ req' \in [Requests -> Requesting] /\ req'[r] = q
        /\ \A s \in Requests : s # r => req'[s] = req[s]
    BY <1>4, CancelsTo DEF IInv
  <2>3. /\ req[r].step = "cancel" /\ UNCHANGED <<row, mem, pc, out, clean, lost>>
        /\ ctx' = ctx \cup {h \in Gens : h = req[r].old /\ pc[h] \in {"none", "pipe"}}
    BY <1>4 DEF CancelsOld, At, Cancels
  <2>h. req[r].step \in Launch /\ req'[r].step \in Launch /\ req'[r].gen = req[r].gen
    BY <2>2, <2>3 DEF Launch
  <2>4. TypeOK' /\ Requested' /\ Fresh' /\ Distinct'
    <3>1. TypeOK'
      BY <1>0, <1>h, <2>h, <2>2, <2>3, TypesAreRanges DEF IInv, Ranges, mem
    <3>2. Requested' /\ Fresh' /\ Distinct'
      BY <1>h, <2>h, <2>2, <2>3 DEF IInv, Requested, Fresh, Distinct, mem
    <3> QED
      BY <3>1, <3>2
  <2>5. Wanted'
    <3> SUFFICES ASSUME NEW g \in Gens, Pending(g)', g \notin ctx', g # owner'
                 PROVE  \E s \in Requests : req'[s].step = "cancel" /\ req'[s].old = g
      BY DEF Wanted
    <3>1. Pending(g)
      BY <2>2, <2>3 DEF Pending, Launch
    <3>2. pc[g] \in {"none", "pipe"}
      BY <3>1 DEF IInv, TypeOK, Pending
    <3>3. PICK s \in Requests : req[s].step = "cancel" /\ req[s].old = g
      BY <2>3, <3>1 DEF IInv, Wanted, mem
    <3>4. s # r
      BY <2>3, <3>2, <3>3
    <3> QED
      BY <2>2, <3>3, <3>4
  <2> QED
    BY <2>4, <2>5 DEF IInv
<1>5. CASE Stamps(r) \/ Resets(r) \/ ResetFails(r)
  <2>1. PICK step \in {"reset", "launch"} : Goes(r, step)
    BY <1>5 DEF Stamps, Resets, ResetFails
  <2>2. /\ req' \in [Requests -> Requesting]
        /\ req'[r] = [kind |-> req[r].kind, step |-> step, gen |-> req[r].gen, old |-> req[r].old]
        /\ \A s \in Requests : s # r => req'[s] = req[s]
    BY <2>1, GoesTo DEF IInv
  <2>3. req[r].step \in {"stamp", "reset"} /\ UNCHANGED <<mem, runs>>
    BY <1>5 DEF Stamps, Resets, ResetFails, At
  <2>4. row' \in Rows /\ lost' \in BOOLEAN
    BY ZenonT(60), <1>0, <1>5, RowTypes DEF Stamps, Resets, ResetFails, Sets, IInv, TypeOK, Requesting
  <2>h. req[r].step \in Launch /\ req'[r].step \in Launch /\ req'[r].gen = req[r].gen
    BY <2>2, <2>3 DEF Launch
  <2>5. TypeOK' /\ Requested' /\ Fresh' /\ Distinct'
    <3>1. TypeOK'
      BY <1>0, <1>h, <2>h, <2>2, <2>3, <2>4, TypesAreRanges DEF IInv, Ranges, mem, runs
    <3>2. Requested' /\ Fresh' /\ Distinct'
      BY <1>h, <2>h, <2>2, <2>3 DEF IInv, Requested, Fresh, Distinct, mem, runs
    <3> QED
      BY <3>1, <3>2
  <2>6. Wanted'
    <3> SUFFICES ASSUME NEW g \in Gens, Pending(g)', g \notin ctx', g # owner'
                 PROVE  \E s \in Requests : req'[s].step = "cancel" /\ req'[s].old = g
      BY DEF Wanted
    <3>1. pc' = pc /\ ctx' = ctx /\ owner' = owner
      BY <2>3 DEF mem, runs
    <3>2. Pending(g)
      <4>1. CASE pc[g] = "pipe"
        BY <4>1 DEF Pending
      <4>2. CASE pc[g] # "pipe"
        <5>1. PICK s \in Requests : req'[s].step \in Launch /\ req'[s].gen = g
          BY <3>1, <4>2 DEF Pending
        <5>2. req[s].step \in Launch /\ req[s].gen = g
          BY <2>2, <2>h, <5>1
        <5> QED
          BY <5>2 DEF Pending
      <4> QED
        BY <4>1, <4>2
    <3>3. PICK s \in Requests : req[s].step = "cancel" /\ req[s].old = g
      BY <3>1, <3>2 DEF IInv, Wanted
    <3>4. s # r
      BY <2>3, <3>3
    <3> QED
      BY <2>2, <3>3, <3>4
  <2> QED
    BY <2>5, <2>6 DEF IInv
<1>6. CASE StampFails(r)
  <2>1. /\ req' \in [Requests -> Requesting] /\ req'[r] = Idle
        /\ \A s \in Requests : s # r => req'[s] = req[s]
    BY <1>6, AnswersTo DEF IInv, StampFails
  <2>2. /\ req[r].step = "stamp" /\ UNCHANGED <<row, seq, out, clean, lost>>
        /\ pc' = [pc EXCEPT ![req[r].gen] = "gone"] /\ ctx' = ctx \ {req[r].gen}
        /\ owner' = IF owner = req[r].gen THEN 0 ELSE owner
    BY <1>6 DEF StampFails, At, EndRun
  <2>3. req[r].step \in Launch /\ req'[r].step = "idle" /\ req'[r].step \notin Launch
    BY <2>1, <2>2 DEF Launch, Idle
  <2>4. \A s \in Requests : s # r /\ req[s].step \in Launch => req[s].gen # req[r].gen
    BY <2>3 DEF IInv, Distinct
  <2>5. TypeOK' /\ Requested' /\ Fresh' /\ Distinct'
    <3>1. TypeOK'
      BY <1>0, <1>h, <2>1, <2>2, <2>3, <2>4, TypesAreRanges DEF IInv, Ranges, RunPcs
    <3> QED
      BY <1>0, <1>h, <2>1, <2>2, <2>3, <3>1, TypesAreRanges
      DEF IInv, Ranges, Requested, Fresh, Distinct, Gens
  <2>6. Wanted'
    <3> SUFFICES ASSUME NEW g \in Gens, Pending(g)', g \notin ctx', g # owner'
                 PROVE  \E s \in Requests : req'[s].step = "cancel" /\ req'[s].old = g
      BY DEF Wanted
    <3>1. g # req[r].gen /\ Pending(g)
      BY <1>h, <2>1, <2>2, <2>3, <2>4 DEF Pending, IInv, TypeOK
    <3>2. PICK s \in Requests : req[s].step = "cancel" /\ req[s].old = g
      BY <2>2, <3>1 DEF IInv, Wanted
    <3> QED
      BY <2>1, <2>2, <3>2
  <2> QED
    BY <2>5, <2>6 DEF IInv
<1>7. CASE Launches(r)
  <2>1. /\ req' \in [Requests -> Requesting] /\ req'[r] = Idle
        /\ \A s \in Requests : s # r => req'[s] = req[s]
    BY <1>7, AnswersTo DEF IInv, Launches
  <2>2. /\ req[r].step = "launch" /\ UNCHANGED <<row, mem, ctx, out, clean, lost>>
        /\ pc' = [pc EXCEPT ![req[r].gen] = "pipe"]
    BY <1>7 DEF Launches, At
  <2>3. req[r].step \in Launch /\ req'[r].step = "idle" /\ req'[r].step \notin Launch
    BY <2>1, <2>2 DEF Launch, Idle
  <2>4. \A s \in Requests : s # r /\ req[s].step \in Launch => req[s].gen # req[r].gen
    BY <2>3 DEF IInv, Distinct
  <2>5. TypeOK' /\ Requested' /\ Fresh' /\ Distinct'
    <3>1. TypeOK'
      BY <1>0, <1>h, <2>1, <2>2, <2>3, <2>4, TypesAreRanges DEF IInv, Ranges, RunPcs, mem
    <3> QED
      BY <1>0, <1>h, <2>1, <2>2, <2>3, <3>1, TypesAreRanges
      DEF IInv, Ranges, Requested, Fresh, Distinct, Gens, mem
  <2>6. Wanted'
    <3> SUFFICES ASSUME NEW g \in Gens, Pending(g)', g \notin ctx', g # owner'
                 PROVE  \E s \in Requests : req'[s].step = "cancel" /\ req'[s].old = g
      BY DEF Wanted
    <3>1. Pending(g)
      BY <1>h, <2>1, <2>2, <2>3 DEF Pending, IInv, TypeOK
    <3>2. PICK s \in Requests : req[s].step = "cancel" /\ req[s].old = g
      BY <2>2, <3>1 DEF IInv, Wanted, mem
    <3> QED
      BY <2>1, <2>2, <3>2
  <2> QED
    BY <2>5, <2>6 DEF IInv
<1> QED
  BY <1>1, <1>2, <1>3, <1>4, <1>5, <1>6, <1>7 DEF Handles

\* A run that has left the pipeline, or has nothing to do with the task any
\* more, is not pending.
LEMMA RunsStep ==
  ASSUME IInv, NEW g \in Gens, RunStep(g) \/ Polls(g)
  PROVE  IInv'
<1>0. /\ row \in Rows /\ ctx \subseteq Gens /\ g \in 0..MaxRuns
      /\ 0 \in 0..MaxRuns /\ pc \in [Gens -> RunPcs] /\ MaxRuns \in Nat /\ lost \in BOOLEAN
  BY TasksAssumption DEF IInv, TypeOK, Rows, Gens
<1>1. row' \in Rows /\ lost' \in BOOLEAN
  <2>1. pc[g] \in {"cancelWrite", "errWrite", "final"} => Terminal(g) \in Status
    BY DEF Terminal, Status
  <2> QED
    BY <1>0, <2>1, RowTypes DEF RunStep, Polls, PipelineReturns, Gate, WritesTerminal,
      TerminalFails, ShowsProgress, Syncs, WritesResult, ResultFails, ChainStarts, RunEnds, Owned
<1>2. /\ UNCHANGED <<seq, req>>
      /\ owner' = owner \/ (owner' = 0 /\ owner = g)
      /\ \A h \in Gens : h # g => (h \in ctx' <=> h \in ctx)
      /\ ctx' \subseteq ctx /\ clean' \subseteq clean
      /\ out' \in [Gens -> {"none", "ok", "err", "bad"}]
  BY DEF RunStep, Polls, PipelineReturns, Gate, WritesTerminal, TerminalFails, Syncs,
    WritesResult, ResultFails, ChainStarts, RunEnds, EndRun, RunGoes, mem, runs, IInv, TypeOK
<1>3. \/ UNCHANGED <<pc, owner, ctx>>
      \/ /\ pc[g] # "none"
         /\ \E to \in RunPcs \ {"none", "pipe"} : pc' = [pc EXCEPT ![g] = to]
  BY DEF RunStep, Polls, PipelineReturns, Gate, WritesTerminal, TerminalFails, Syncs,
    WritesResult, ResultFails, ChainStarts, RunEnds, RunGoes, RunPcs, mem, runs, Terminal
<1>4. TypeOK'
  <2>1. pc' \in [Gens -> RunPcs]
    BY <1>0, <1>3
  <2>2. \A r \in Requests : req'[r].step \in Launch => pc'[req'[r].gen] = "none"
    <3> SUFFICES ASSUME NEW r \in Requests, req[r].step \in Launch
                 PROVE  pc'[req[r].gen] = "none"
      BY <1>2
    <3>1. pc[req[r].gen] = "none" /\ req[r].gen \in Gens
      BY TasksAssumption DEF IInv, TypeOK, Requested, Gens
    <3> QED
      BY <1>0, <1>3, <3>1
  <2> QED
    BY <1>0, <1>1, <1>2, <2>1, <2>2, TypesAreRanges DEF IInv, Ranges
<1>5. Requested' /\ Distinct' /\ Fresh'
  BY <1>0, <1>2, <1>3 DEF IInv, Requested, Distinct, Fresh
<1>6. Wanted'
  <2> SUFFICES ASSUME NEW h \in Gens, Pending(h)', h \notin ctx', h # owner'
               PROVE  \E s \in Requests : req'[s].step = "cancel" /\ req'[s].old = h
    BY DEF Wanted
  <2>1. Pending(h) /\ h \notin ctx /\ h # owner
    <3>1. CASE UNCHANGED <<pc, owner, ctx>>
      BY <1>2, <3>1 DEF Pending
    <3>2. CASE h = g /\ pc[g] # "none" /\ pc'[g] \notin {"none", "pipe"}
      <4>1. PICK r \in Requests : req[r].step \in Launch /\ req[r].gen = h
        BY <1>2, <3>2 DEF Pending
      <4>2. pc[req[r].gen] = "none"
        BY <4>1 DEF IInv, TypeOK
      <4> QED
        BY <3>2, <4>1, <4>2
    <3>3. CASE h # g /\ pc'[h] = pc[h]
      BY <1>2, <3>3 DEF Pending
    <3> QED
      BY <1>0, <1>3, <3>1, <3>2, <3>3
  <2> QED
    BY <1>2, <2>1 DEF IInv, Wanted
<1> QED
  BY <1>4, <1>5, <1>6 DEF IInv

LEMMA RestartStep == IInv /\ ServerRestarts => IInv'
<1> SUFFICES ASSUME IInv, ServerRestarts PROVE IInv'
  OBVIOUS
<1>1. row \in Rows /\ 0 \in 0..MaxRuns /\ "failed" \in Status
  BY TasksAssumption DEF IInv, TypeOK, Rows, Status
<1>2. row' \in Rows /\ lost' \in BOOLEAN
  BY ZenonT(60), <1>1, RowTypes DEF ServerRestarts, IInv, TypeOK
<1>3. /\ req' \in [Requests -> Requesting] /\ \A r \in Requests : req'[r].step = "idle"
  BY <1>1 DEF ServerRestarts, Requesting, Idle
<1>4. TypeOK'
  <2>1. /\ seq' = 0 /\ 0 \in 0..MaxRuns /\ owner' = 0 /\ ctx' \subseteq Gens /\ clean' \subseteq Gens
        /\ pc' \in [Gens -> RunPcs] /\ out' \in [Gens -> {"none", "ok", "err", "bad"}]
    BY <1>1 DEF ServerRestarts, IInv, TypeOK, RunPcs
  <2>2. \A r \in Requests : req'[r].step \notin Launch
    BY <1>3 DEF Launch
  <2> QED
    BY <1>2, <1>3, <2>1, <2>2, TypesAreRanges DEF IInv, Ranges
<1>5. Requested' /\ Distinct' /\ Fresh' /\ Wanted'
  BY <1>3 DEF ServerRestarts, Requested, Distinct, Fresh, Wanted, Pending, Launch
<1> QED
  BY <1>4, <1>5 DEF IInv

LEMMA Inductive == IInv /\ [Next]_vars => IInv'
<1>1. IInv /\ UNCHANGED vars => IInv'
  BY DEF vars, mem, runs, IInv, TypeOK, Requested, Distinct, Fresh, Wanted, Pending
<1> QED
  BY <1>1, ArrivesStep, HandlesStep, RunsStep, RestartStep DEF Next

LEMMA Invariance == Spec => []IInv
  BY InitIInv, Inductive, PTL DEF Spec

\* Type correctness: the running entry is the newest generation's or nobody's,
\* and a generation a handler still holds has not begun.
THEOREM TypeCorrect == Spec => []TypeOK
<1>1. IInv => TypeOK
  BY DEF IInv
<1> QED
  BY <1>1, Invariance, PTL

\* Whatever starts, resumes, cancels, restarts and refused writes come
\* together, a pipeline that lost the task is cancelled or about to be: two
\* runs never both mean to go on writing to the target.
THEOREM OneIsWanted == Spec => []OneWanted
<1>1. IInv => OneWanted
  BY DEF IInv, Wanted, Pending, OneWanted
<1> QED
  BY <1>1, Invariance, PTL

-----------------------------------------------------------------------------
(* One start or resume at a time.  Of two beside each other the older        *)
(* generation may stamp last (departure 13 of the README), and then the row  *)
(* names a run that is not the task's.                                       *)

OneStarter == \A r, s \in Starting : r = s

\* The generation being launched is the task's current one, and the row of a
\* task about to be stamped does not say running.
Latest == \A r \in Requests : req[r].step \in Launch => req[r].gen = owner

NotYet == \A r \in Starting : req[r].step \in {"swap", "cancel", "stamp"} => row.status # "running"

\* Between its stamp and its launch a generation owns the row.
Stamped ==
  \A r \in Requests : req[r].step \in {"reset", "launch"} /\ row.exists =>
    row.runId = req[r].gen /\ row.status # "completed"

\* What start launches finds a cleared row.
Cleared ==
  \A r \in Requests : req[r].step \in Launch =>
    /\ req[r].gen \in clean => req[r].kind = "start"
    /\ req[r].step = "launch" /\ req[r].kind = "start" /\ row.exists /\ ~lost =>
         row.progress \in {0, req[r].gen} /\ row.result \in {0, req[r].gen}

\* A run about to write its end has its result in the row.
Concluded == \A g \in Gens : pc[g] = "final" /\ Owned(g) /\ ~lost => row.result = g

Single == Latest /\ NotYet /\ Stamped /\ Cleared /\ Concluded /\ RunningIsLive /\ NothingStale

\* The other requests beside a starter at work hold nothing.
LEMMA Alone ==
  ASSUME IInv, OneStarter, NEW r \in Requests, req[r].step \in Launch \cup {"swap"}
  PROVE  /\ r \in Starting
         /\ \A s \in Requests : s # r => req[s].step \in {"idle", "act"}
         /\ \A s \in Requests : s # r => req[s].step \notin Launch /\ s \notin Starting
<1>1. r \in Starting
  BY DEF IInv, Requested, Launch
<1>2. \A s \in Requests : s # r => s \notin Starting
  BY <1>1 DEF OneStarter
<1> QED
  BY <1>1, <1>2 DEF IInv, Requested, Launch

LEMMA SingleInit == Init => Single
  BY DEF Init, Single, Latest, NotYet, Stamped, Cleared, Concluded, RunningIsLive, NothingStale,
    Idle, Created, Launch, Owned

\* A request that holds no generation leaves the row alone, ends it or says
\* something else than running.
LEMMA QuietStep ==
  ASSUME IInv, Single, NEW r \in Requests,
         req[r].step \notin Launch, req'[r].step \notin Launch,
         \A s \in Requests : s # r => req'[s] = req[s],
         r \in Starting /\ req'[r].step = "swap" => row'.status # "running",
         row' \in Rows, UNCHANGED <<mem, pc, out, clean, lost>>,
         \/ row' = row
         \/ /\ row'.status \notin {"running", "completed"}
            /\ row'.exists => /\ row.exists /\ row'.runId = row.runId
                              /\ row'.result = row.result /\ row'.progress = row.progress
  PROVE  Single'
<1>1. /\ "cancel" \in Launch /\ "stamp" \in Launch /\ "reset" \in Launch /\ "launch" \in Launch
  BY DEF Launch
<1>2. Latest' /\ NotYet'
  BY <1>1 DEF Single, Latest, NotYet, mem, Requests
<1>3. Stamped' /\ Cleared'
  BY <1>1 DEF Single, Stamped, Cleared
<1>4. Concluded'
  BY DEF Single, Concluded, Owned
<1>5. RunningIsLive'
  <2> SUFFICES ASSUME row'.exists, row'.status = "running", ~lost'
               PROVE  \/ row'.runId = owner' /\ owner' # 0 /\ pc'[owner'] \in Writing
                      \/ \E s \in Requests : req'[s].step \in Launch
    BY DEF RunningIsLive
  <2>1. row' = row
    OBVIOUS
  <2>2. CASE \E s \in Requests : req[s].step \in Launch
    BY <2>2
  <2>3. CASE row.runId = owner /\ owner # 0 /\ pc[owner] \in Writing
    BY <2>1, <2>3 DEF mem
  <2> QED
    BY <2>1, <2>2, <2>3 DEF Single, RunningIsLive
<1>6. NothingStale'
  BY DEF Single, NothingStale, Owned
<1> QED
  BY <1>2, <1>3, <1>4, <1>5, <1>6 DEF Single

LEMMA SingleArrives ==
  ASSUME IInv, Single, Arrives
  PROVE  Single'
<1>1. PICK r \in Requests :
        /\ req[r] = Idle /\ req' = [req EXCEPT ![r] = req'[r]]
        /\ req'[r].step \in {"swap", "act"}
        /\ req'[r].step = "swap" => row.status # "running"
  <2>1. req \in [Requests -> Requesting]
    BY TypesAreRanges DEF IInv, Ranges
  <2>2. ASSUME NEW r \in Starting, StartChecks(r) \/ ResumeChecks(r)
        PROVE  /\ req[r] = Idle /\ req' = [req EXCEPT ![r] = req'[r]]
               /\ req'[r].step \in {"swap", "act"}
               /\ req'[r].step = "swap" => row.status # "running"
    BY <2>1, <2>2 DEF StartChecks, ResumeChecks, Begins, Requests
  <2>3. ASSUME NEW r \in Others, PauseChecks(r) \/ DeleteChecks(r) \/ CancelReads(r)
        PROVE  /\ req[r] = Idle /\ req' = [req EXCEPT ![r] = req'[r]]
               /\ req'[r].step \in {"swap", "act"}
               /\ req'[r].step = "swap" => row.status # "running"
    BY <2>1, <2>3 DEF PauseChecks, DeleteChecks, CancelReads, Begins, Requests
  <2> QED
    BY <2>2, <2>3 DEF Arrives, Requests
<1>2. UNCHANGED <<row, mem, runs, lost>>
  BY DEF Arrives, StartChecks, ResumeChecks, PauseChecks, DeleteChecks, CancelReads, Begins
<1>3. req[r].step \notin Launch /\ req'[r].step \notin Launch
  BY <1>1 DEF Idle, Launch
<1>4. row' \in Rows /\ \A s \in Requests : s # r => req'[s] = req[s]
  BY <1>1, <1>2, TypesAreRanges DEF IInv, Ranges
<1> QED
  BY <1>1, <1>2, <1>3, <1>4, QuietStep DEF runs

LEMMA SingleHandles ==
  ASSUME OneStarter, IInv, IInv', Single, NEW r \in Requests, Handles(r)
  PROVE  Single'
<1>0. /\ row \in Rows /\ row' \in Rows /\ seq \in 0..MaxRuns /\ MaxRuns \in Nat
      /\ pc \in [Gens -> RunPcs] /\ "cancel" \in Launch /\ "stamp" \in Launch
      /\ "reset" \in Launch /\ "launch" \in Launch /\ "idle" \notin Launch
  BY TasksAssumption, TypesAreRanges DEF IInv, Ranges, Launch
<1>h. req[r].step \in Launch => req[r].gen \in 1..seq /\ req[r].gen \in Gens /\ pc[req[r].gen] = "none"
  BY <1>0 DEF IInv, TypeOK, Requested, Gens
<1>1. CASE ChainNotPrepared(r) \/ PauseWrites(r) \/ Deletes(r) \/ CancelActs(r)
  <2>1. req'[r] = Idle /\ \A s \in Requests : s # r => req'[s] = req[s]
    BY <1>1, AnswersTo DEF IInv, ChainNotPrepared, PauseWrites, Deletes, CancelActs
  <2>2. /\ req[r].step \notin Launch /\ req'[r].step \notin Launch /\ req'[r].step # "swap"
        /\ UNCHANGED <<mem, pc, out, clean, lost>>
    BY <1>1, <2>1 DEF ChainNotPrepared, PauseWrites, Deletes, CancelActs, At, Launch, Idle, runs
  <2>3. \/ row' = row
        \/ \E st \in {"failed", "paused", "cancelled"} : row' = [row EXCEPT !.status = st]
        \/ row' = [Created EXCEPT !.exists = FALSE]
    BY <1>1 DEF ChainNotPrepared, PauseWrites, Deletes, CancelActs, TriesToSet, Sets
  <2>4. \/ row' = row
        \/ /\ row'.status \notin {"running", "completed"}
           /\ row'.exists => /\ row.exists /\ row'.runId = row.runId
                             /\ row'.result = row.result /\ row'.progress = row.progress
    BY <1>0, <2>3 DEF Rows, Created
  <2> QED
    BY <1>0, <2>1, <2>2, <2>4, QuietStep
<1>2. CASE Swap(r)
  <2>1. /\ req'[r].step = "cancel" /\ req'[r].gen = seq + 1 /\ req'[r].kind = req[r].kind
        /\ \A s \in Requests : s # r => req'[s] = req[s]
    <3>1. /\ req'[r] = [kind |-> req[r].kind, step |-> "cancel", gen |-> seq + 1, old |-> owner]
          /\ \A s \in Requests : s # r => req'[s] = req[s]
      BY <1>2, SwapTo DEF IInv
    <3> QED
      BY <3>1
  <2>2. /\ req[r].step = "swap" /\ UNCHANGED <<row, pc, ctx, out, lost>> /\ owner' = seq + 1
        /\ IF req[r].kind = "start" THEN clean' = clean \cup {seq + 1} ELSE clean' = clean
        /\ seq + 1 \in Gens
    BY <1>0, <1>2 DEF Swap, At, Gens
  <2>3. pc[seq + 1] = "none" /\ seq + 1 \notin clean
    BY <1>0, <2>2 DEF IInv, Fresh
  <2>4. r \in Starting /\ \A s \in Requests : s # r => req[s].step \notin Launch /\ s \notin Starting
    BY <2>2, Alone
  <2>5. Latest' /\ NotYet' /\ Stamped' /\ Cleared' /\ Concluded' /\ RunningIsLive'
    BY <1>0, <2>1, <2>2, <2>3, <2>4 DEF Single, Latest, NotYet, Stamped, Cleared, Concluded,
      RunningIsLive, Owned, Requests
  <2>6. NothingStale'
    BY <2>2, <2>3 DEF Single, NothingStale, Owned
  <2> QED
    BY <2>5, <2>6 DEF Single
<1>3. CASE CancelsOld(r)
  <2>1. /\ req'[r].step = "stamp" /\ req'[r].gen = req[r].gen /\ req'[r].kind = req[r].kind
        /\ \A s \in Requests : s # r => req'[s] = req[s]
    <3>1. /\ req'[r] = [kind |-> req[r].kind, step |-> "stamp", gen |-> req[r].gen, old |-> 0]
          /\ \A s \in Requests : s # r => req'[s] = req[s]
      BY <1>3, CancelsTo DEF IInv
    <3> QED
      BY <3>1
  <2>2. req[r].step = "cancel" /\ UNCHANGED <<row, mem, pc, out, clean, lost>>
    BY <1>3 DEF CancelsOld, At
  <2>3. Latest' /\ NotYet' /\ Stamped' /\ Cleared'
    BY <1>0, <2>1, <2>2 DEF Single, Latest, NotYet, Stamped, Cleared, mem, Requests
  <2>4. Concluded' /\ RunningIsLive' /\ NothingStale'
    BY <1>0, <2>1, <2>2 DEF Single, Concluded, RunningIsLive, NothingStale, Owned, mem
  <2> QED
    BY <2>3, <2>4 DEF Single
<1>4. CASE Stamps(r)
  <2>1. /\ req'[r].gen = req[r].gen /\ req'[r].kind = req[r].kind
        /\ req'[r].step = IF req[r].kind = "start" THEN "reset" ELSE "launch"
        /\ \A s \in Requests : s # r => req'[s] = req[s]
    <3> DEFINE step == IF req[r].kind = "start" THEN "reset" ELSE "launch"
    <3>1. step \in {"reset", "launch"} /\ Goes(r, step)
      BY <1>4 DEF Stamps
    <3>2. /\ req'[r] = [kind |-> req[r].kind, step |-> step, gen |-> req[r].gen, old |-> req[r].old]
          /\ \A s \in Requests : s # r => req'[s] = req[s]
      BY <3>1, GoesTo DEF IInv
    <3> QED
      BY <3>2
  <2>2. req[r].step = "stamp" /\ UNCHANGED <<mem, runs>> /\ lost' = FALSE
    BY <1>4 DEF Stamps, At
  <2>3. row'.exists => row'.runId = req[r].gen /\ row'.status = "running"
    BY <1>0, <1>4 DEF Stamps, Sets, Rows
  <2>4. r \in Starting /\ \A s \in Requests : s # r => req[s].step \notin Launch /\ s \notin Starting
    BY <1>0, <2>2, Alone
  <2>5. Latest' /\ NotYet' /\ Stamped' /\ Cleared' /\ RunningIsLive'
    BY <1>0, <2>1, <2>2, <2>3, <2>4 DEF Single, Latest, NotYet, Stamped, Cleared, RunningIsLive,
      mem, runs, Requests
  <2>6. Concluded' /\ NothingStale'
    BY <1>0, <1>h, <2>2, <2>3 DEF Concluded, NothingStale, Owned, runs
  <2> QED
    BY <2>5, <2>6 DEF Single
<1>5. CASE StampFails(r)
  <2>1. req'[r].step = "idle" /\ \A s \in Requests : s # r => req'[s] = req[s]
    BY <1>5, AnswersTo DEF IInv, StampFails, Idle
  <2>2. /\ req[r].step = "stamp" /\ UNCHANGED <<row, out, clean, lost>>
        /\ pc' = [pc EXCEPT ![req[r].gen] = "gone"]
    BY <1>5 DEF StampFails, At
  <2>3. r \in Starting /\ \A s \in Requests : s # r => req[s].step \notin Launch /\ s \notin Starting
    BY <1>0, <2>2, Alone
  <2>4. row.status # "running"
    BY <2>2, <2>3 DEF Single, NotYet
  <2>5. Latest' /\ NotYet' /\ Stamped' /\ Cleared' /\ RunningIsLive'
    BY <1>0, <2>1, <2>2, <2>3, <2>4 DEF Latest, NotYet, Stamped, Cleared, RunningIsLive, Requests
  <2>6. Concluded' /\ NothingStale'
    BY <1>0, <1>h, <2>2 DEF Single, Concluded, NothingStale, Owned
  <2> QED
    BY <2>5, <2>6 DEF Single
<1>6. CASE Resets(r) \/ ResetFails(r)
  <2>1. /\ req'[r].step = "launch" /\ req'[r].gen = req[r].gen /\ req'[r].kind = req[r].kind
        /\ \A s \in Requests : s # r => req'[s] = req[s]
    <3>1. /\ req'[r] = [kind |-> req[r].kind, step |-> "launch", gen |-> req[r].gen, old |-> req[r].old]
          /\ \A s \in Requests : s # r => req'[s] = req[s]
      BY <1>6, GoesTo DEF IInv, Resets, ResetFails
    <3> QED
      BY <3>1
  <2>2. req[r].step = "reset" /\ UNCHANGED <<mem, runs>>
    BY <1>6 DEF Resets, ResetFails, At
  <2>3. /\ row'.exists = row.exists /\ row'.runId = row.runId /\ row'.status = row.status
        /\ ~lost' => ~lost
        /\ ~lost' /\ row.exists => row'.result = 0 /\ row'.progress = 0
    <3>1. CASE Resets(r) /\ row.exists
      <4>1. row' = [row EXCEPT !.result = 0, !.progress = 0] /\ lost' = lost
        BY <3>1 DEF Resets, Sets
      <4> QED
        BY <1>0, <3>1, <4>1 DEF Rows
    <3>2. CASE Resets(r) /\ ~row.exists
      BY <3>2 DEF Resets, Sets
    <3>3. CASE ResetFails(r)
      BY <3>3 DEF ResetFails
    <3> QED
      BY <1>6, <3>1, <3>2, <3>3
  <2>4. r \in Starting /\ \A s \in Requests : s # r => req[s].step \notin Launch /\ s \notin Starting
    BY <1>0, <2>2, Alone
  <2>5. row.exists => row.runId = req[r].gen /\ row.status # "completed"
    BY <2>2 DEF Single, Stamped
  <2>6. Latest' /\ NotYet' /\ Stamped' /\ Cleared' /\ RunningIsLive'
    BY <1>0, <2>1, <2>2, <2>3, <2>4, <2>5 DEF Single, Latest, NotYet, Stamped, Cleared,
      RunningIsLive, mem, runs, Requests
  <2>7. Concluded' /\ NothingStale'
    BY <1>0, <1>h, <2>2, <2>3, <2>5 DEF Concluded, NothingStale, Owned, runs
  <2> QED
    BY <2>6, <2>7 DEF Single
<1>7. CASE Launches(r)
  <2>1. req'[r].step = "idle" /\ \A s \in Requests : s # r => req'[s] = req[s]
    BY <1>7, AnswersTo DEF IInv, Launches, Idle
  <2>2. /\ req[r].step = "launch" /\ UNCHANGED <<row, mem, ctx, out, clean, lost>>
        /\ pc' = [pc EXCEPT ![req[r].gen] = "pipe"]
    BY <1>7 DEF Launches, At
  <2>3. r \in Starting /\ \A s \in Requests : s # r => req[s].step \notin Launch /\ s \notin Starting
    BY <1>0, <2>2, Alone
  <2>4. /\ req[r].gen = owner /\ owner # 0 /\ owner \in Gens
        /\ row.exists => row.runId = owner /\ row.status # "completed"
    BY <1>0, <1>h, <2>2 DEF Single, Latest, Stamped, Gens
  <2>5. Latest' /\ NotYet' /\ Stamped' /\ Cleared'
    BY <1>0, <2>1, <2>2, <2>3 DEF Latest, NotYet, Stamped, Cleared, Requests
  <2>6. RunningIsLive' /\ Concluded'
    BY <1>0, <2>2, <2>4 DEF Single, RunningIsLive, Concluded, Owned, mem, Writing, RunPcs
  <2>7. NothingStale'
    BY <1>0, <1>h, <2>2, <2>4 DEF Single, NothingStale, Cleared, Owned
  <2> QED
    BY <2>5, <2>6, <2>7 DEF Single
<1> QED
  BY <1>1, <1>2, <1>3, <1>4, <1>5, <1>6, <1>7 DEF Handles

\* A step of a run that leaves the row and the entry alone.
LEMMA SilentRun ==
  ASSUME IInv, Single, NEW g \in Gens, NEW to \in RunPcs,
         pc[g] # "none", pc' = [pc EXCEPT ![g] = to], to \notin {"none", "final"},
         owner = g => to \in Writing \/ pc[g] \notin Writing \/ lost' \/ ~Owned(g),
         lost => lost', clean' \subseteq clean, pc[g] = "gone" => to = "gone",
         lost \in BOOLEAN, lost' \in BOOLEAN,
         UNCHANGED <<row, owner, req>>
  PROVE  Single'
<1>0. pc \in [Gens -> RunPcs]
  BY DEF IInv, TypeOK
<1>1. Latest' /\ NotYet' /\ Stamped' /\ Cleared'
  BY DEF Single, Latest, NotYet, Stamped, Cleared
<1>2. Concluded' /\ NothingStale'
  BY <1>0 DEF Single, Concluded, NothingStale, Owned
<1>3. RunningIsLive'
  BY <1>0 DEF Single, RunningIsLive, Owned
<1> QED
  BY <1>1, <1>2, <1>3 DEF Single

LEMMA SingleRuns ==
  ASSUME IInv, Single, NEW g \in Gens, RunStep(g) \/ Polls(g)
  PROVE  Single'
<1>0. /\ row \in Rows /\ pc \in [Gens -> RunPcs] /\ lost \in BOOLEAN /\ MaxRuns \in Nat
      /\ \A r \in Requests : req[r].step \in Launch => pc[req[r].gen] = "none"
      /\ "reset" \in Launch /\ "launch" \in Launch
      /\ "none" \notin Writing /\ owner \in {0} \cup Gens
  BY TasksAssumption, TypesAreRanges DEF IInv, Ranges, Launch, Writing, Gens
<1>1. CASE PipelineReturns(g) \/ Gate(g) \/ ChainStarts(g)
  <2>1. \E to \in RunPcs :
          /\ pc' = [pc EXCEPT ![g] = to] /\ to \notin {"none", "final"}
          /\ owner = g => to \in Writing \/ pc[g] \notin Writing
    BY <1>1 DEF PipelineReturns, Gate, ChainStarts, RunGoes, RunPcs, Writing
  <2>2. pc[g] \notin {"none", "gone"} /\ UNCHANGED <<row, mem, clean, req, lost>>
    BY <1>1 DEF PipelineReturns, Gate, ChainStarts
  <2> QED
    BY <1>0, <2>1, <2>2, SilentRun DEF mem
<1>2. CASE TerminalFails(g)
  <2>1. /\ pc' = [pc EXCEPT ![g] = "end"] /\ lost' = (lost \/ Owned(g))
        /\ pc[g] \notin {"none", "gone"} /\ UNCHANGED <<row, mem, clean, req>>
        /\ "end" \in RunPcs /\ Owned(g) \in BOOLEAN
    BY <1>2 DEF TerminalFails, RunGoes, RunPcs, Owned
  <2> QED
    BY <1>0, <2>1, SilentRun DEF mem
<1>3. CASE ResultFails(g)
  <2>1. /\ pc' = [pc EXCEPT ![g] = "final"] /\ lost' = (lost \/ Owned(g))
        /\ pc[g] = "result" /\ UNCHANGED <<row, mem, clean, req>>
        /\ "final" \in Writing
    BY <1>3 DEF ResultFails, RunGoes, RunPcs, Writing
  <2>2. Latest' /\ NotYet' /\ Stamped' /\ Cleared'
    BY <2>1 DEF Single, Latest, NotYet, Stamped, Cleared, mem
  <2>3. Concluded' /\ NothingStale'
    BY <1>0, <2>1 DEF Single, Concluded, NothingStale, Owned
  <2>4. RunningIsLive'
    BY <1>0, <2>1 DEF Single, RunningIsLive, mem
  <2> QED
    BY <2>2, <2>3, <2>4 DEF Single
<1>4. CASE RunEnds(g)
  <2>1. /\ pc' = [pc EXCEPT ![g] = "gone"] /\ pc[g] = "end" /\ clean' = clean \ {g}
        /\ owner' = IF owner = g THEN 0 ELSE owner
        /\ UNCHANGED <<row, req, lost>>
    BY <1>4 DEF RunEnds, RunGoes, EndRun
  <2>2. pc[g] \notin Writing
    BY <2>1 DEF Writing
  <2>3. Latest'
    BY <1>0, <2>1 DEF Single, Latest
  <2>4. NotYet' /\ Stamped' /\ Cleared'
    BY <2>1 DEF Single, NotYet, Stamped, Cleared
  <2>5. Concluded' /\ NothingStale'
    BY <1>0, <2>1 DEF Single, Concluded, NothingStale, Owned
  <2>6. RunningIsLive'
    BY <1>0, <2>1, <2>2 DEF Single, RunningIsLive
  <2> QED
    BY <2>3, <2>4, <2>5, <2>6 DEF Single
<1>5. \A r \in Requests : req[r].step \in {"reset", "launch"} /\ pc[g] # "none" => ~Owned(g)
  BY <1>0 DEF Single, Stamped, Owned
<1>6. CASE WritesTerminal(g)
  <2> DEFINE to == IF Terminal(g) = "completed" /\ Owned(g) THEN "chain" ELSE "end"
  <2>1. /\ pc[g] \in {"cancelWrite", "errWrite", "final"} /\ pc' = [pc EXCEPT ![g] = to]
        /\ UNCHANGED <<mem, clean, req, lost>>
        /\ to \in {"chain", "end"} /\ to \in RunPcs
    BY <1>6 DEF WritesTerminal, RunGoes, RunPcs
  <2>2. CASE ~Owned(g)
    <3>1. row' = row
      BY <1>6, <2>2 DEF WritesTerminal
    <3> QED
      BY <1>0, <2>1, <2>2, <3>1, SilentRun DEF mem
  <2>3. CASE Owned(g)
    <3> HIDE DEF to
    <3>1. /\ row' = [row EXCEPT !.status = Terminal(g)] /\ Terminal(g) # "running"
          /\ Terminal(g) = "completed" => pc[g] = "final"
      BY <1>6, <2>1, <2>3 DEF WritesTerminal, Terminal
    <3>2. /\ row'.exists = row.exists /\ row'.runId = row.runId /\ row'.result = row.result
          /\ row'.progress = row.progress /\ row'.status = Terminal(g)
      BY <1>0, <3>1 DEF Rows
    <3>3. Latest' /\ NotYet' /\ Stamped' /\ Cleared' /\ RunningIsLive'
      BY <1>5, <2>1, <2>3, <3>1, <3>2
      DEF Single, Latest, NotYet, Stamped, Cleared, RunningIsLive, mem
    <3>4. Concluded' /\ NothingStale'
      BY <1>0, <2>1, <2>3, <3>1, <3>2 DEF Single, Concluded, NothingStale, Owned
    <3> QED
      BY <3>3, <3>4 DEF Single
  <2> QED
    BY <2>2, <2>3
<1>7. CASE Syncs(g) \/ Polls(g)
  <2>1. /\ pc[g] # "none" /\ UNCHANGED <<mem, clean, req, lost>>
        /\ row' = row \/ (Owned(g) /\ row' = [row EXCEPT !.progress = g])
        /\ pc' = pc \/ (pc[g] = "sync" /\ pc' = [pc EXCEPT ![g] = "gate2"])
    BY <1>7 DEF Syncs, Polls, ShowsProgress, RunGoes, runs
  <2>2. /\ row'.exists = row.exists /\ row'.runId = row.runId /\ row'.result = row.result
        /\ row'.status = row.status
        /\ row'.progress = row.progress \/ (Owned(g) /\ row'.progress = g)
    BY <1>0, <2>1 DEF Rows
  <2>3. Latest' /\ NotYet' /\ Stamped' /\ Cleared'
    BY <1>5, <2>1, <2>2 DEF Single, Latest, NotYet, Stamped, Cleared, mem, Launch
  <2>4. Concluded' /\ NothingStale'
    BY <1>0, <2>1, <2>2 DEF Single, Concluded, NothingStale, Owned
  <2>5. RunningIsLive'
    <3>1. "gate2" \in Writing
      BY DEF Writing, RunPcs
    <3> QED
      BY <1>0, <2>1, <2>2, <3>1 DEF Single, RunningIsLive, mem
  <2> QED
    BY <2>3, <2>4, <2>5 DEF Single
<1>8. CASE WritesResult(g)
  <2>1. /\ pc[g] = "result" /\ UNCHANGED <<mem, clean, req, lost>>
        /\ row' = IF Owned(g) THEN [row EXCEPT !.result = g] ELSE row
        /\ pc' = [pc EXCEPT ![g] = "final"]
    BY <1>8 DEF WritesResult, RunGoes
  <2>2. /\ row'.exists = row.exists /\ row'.runId = row.runId /\ row'.progress = row.progress
        /\ row'.status = row.status
        /\ row'.result = IF Owned(g) THEN g ELSE row.result
    BY <1>0, <2>1 DEF Rows
  <2>3. Latest' /\ NotYet' /\ Stamped' /\ Cleared'
    BY <1>5, <2>1, <2>2 DEF Single, Latest, NotYet, Stamped, Cleared, mem, Launch
  <2>4. Concluded' /\ NothingStale'
    BY <1>0, <2>1, <2>2 DEF Single, Concluded, NothingStale, Owned
  <2>5. RunningIsLive'
    <3>1. "final" \in Writing
      BY DEF Writing, RunPcs
    <3> QED
      BY <1>0, <2>1, <2>2, <3>1 DEF Single, RunningIsLive, mem
  <2> QED
    BY <2>3, <2>4, <2>5 DEF Single
<1> QED
  BY <1>1, <1>2, <1>3, <1>4, <1>6, <1>7, <1>8 DEF RunStep

LEMMA SingleRestarts ==
  ASSUME IInv, Single, ServerRestarts
  PROVE  Single'
<1>0. row \in Rows /\ lost \in BOOLEAN
  BY TypesAreRanges DEF IInv, Ranges
<1>1. /\ \A r \in Requests : req'[r].step = "idle"
      /\ \A g \in Gens : pc'[g] = "none"
  BY DEF ServerRestarts, Idle
<1>2. lost' \/ (lost' = lost /\ row' = IF row.status = "running"
                                       THEN [row EXCEPT !.status = "failed"] ELSE row)
  BY DEF ServerRestarts
<1>3. Latest' /\ NotYet' /\ Stamped' /\ Cleared' /\ Concluded'
  BY <1>1 DEF Latest, NotYet, Stamped, Cleared, Concluded, Launch, Requests
<1>4. RunningIsLive' /\ NothingStale'
  BY <1>0, <1>1, <1>2 DEF Single, RunningIsLive, NothingStale, Owned, Rows
<1> QED
  BY <1>3, <1>4 DEF Single

LEMMA SingleInvariance == ASSUME OneStarter PROVE Spec => []Single
<1>1. Single /\ UNCHANGED vars => Single'
  BY DEF vars, mem, runs, Single, Latest, NotYet, Stamped, Cleared, Concluded, RunningIsLive,
    NothingStale, Owned
<1>2. IInv /\ IInv' /\ Single /\ [Next]_vars => Single'
  BY <1>1, SingleArrives, SingleHandles, SingleRuns, SingleRestarts DEF Next
<1> QED
  BY <1>2, SingleInit, Invariance, PTL DEF Spec

\* With one start or resume at a time no task says running with nothing left
\* to end it, whatever pauses, cancels, deletes, superseded runs and server
\* restarts come between.
THEOREM RunningHasARun == ASSUME OneStarter PROVE Spec => []RunningIsLive
<1>1. Single => RunningIsLive
  BY DEF Single
<1> QED
  BY <1>1, SingleInvariance, PTL

\* With one start or resume at a time a row never shows the progress or the
\* result of an older run beside the current one's, and a completed task shows
\* the result of the run that completed it.
THEOREM NothingIsStale == ASSUME OneStarter PROVE Spec => []NothingStale
<1>1. Single => NothingStale
  BY DEF Single
<1> QED
  BY <1>1, SingleInvariance, PTL

=============================================================================
