------------------------------- MODULE Tasks -------------------------------
(***************************************************************************)
(* One migration task of the web server: the start, resume, pause, cancel  *)
(* and delete handlers of internal/webapi/server.go, the goroutines of its *)
(* runs, and the task's row in the store (internal/store/store.go).  Every *)
(* run has a generation; the map taskRuns names the current one, the row's *)
(* run_id the one whose conditioned writes still land.                     *)
(* The requests, the runs and their progress pollers interleave at every   *)
(* lock and at every write.  What the pipeline does is module Migrate.     *)
(***************************************************************************)
EXTENDS Naturals, FiniteSets

CONSTANTS
  Starting,   \* start and resume requests that may be in progress together
  Others,     \* pause, cancel and delete requests that may
  MaxRuns     \* bound: generations given out by one server process

ASSUME TasksAssumption == MaxRuns \in Nat \ {0} /\ Starting \cap Others = {}

Requests == Starting \cup Others

Gens == 1..MaxRuns

VARIABLES
  row,      \* the task's row: exists, status, run_id, whose result and progress
  owner,    \* taskRuns[taskID] and runningTasks[taskID]; 0 when absent
  seq,      \* runSeq
  pc,       \* each generation's goroutine runMigration
  ctx,      \* the generations whose context is cancelled
  out,      \* what the pipeline of a generation returned, while it is looked at
  clean,    \* the generations begun by start (resume clears no field)
  req,      \* the requests in progress: kind, step, generation, generation found
  lost      \* history: the database refused a write that only its log records

mem  == <<owner, seq>>
runs == <<pc, ctx, out, clean>>
vars == <<row, mem, runs, req, lost>>

Status   == {"created", "running", "paused", "completed", "failed", "cancelled"}
RunPcs   == {"none", "pipe", "cancelGate", "cancelWrite", "gate1", "errWrite",
             "sync", "gate2", "result", "final", "chain", "end", "gone"}
Writing  == RunPcs \ {"none", "chain", "end", "gone"}   \* still to write a terminal state
Idle     == [kind |-> "none", step |-> "idle", gen |-> 0, old |-> 0]
Launch   == {"cancel", "stamp", "reset", "launch"}      \* a starter that holds a generation
Starters == {"start", "resume"}

\* The row as CreateTask inserts it.
Created == [exists |-> TRUE, status |-> "created", runId |-> 0, result |-> 0, progress |-> 0]

TypeOK ==
  /\ row \in [exists : BOOLEAN, status : Status, runId : 0..MaxRuns,
              result : 0..MaxRuns, progress : 0..MaxRuns]
  /\ owner \in {0, seq} /\ seq \in 0..MaxRuns
  /\ pc \in [Gens -> RunPcs] /\ out \in [Gens -> {"none", "ok", "err", "bad"}]
  /\ ctx \subseteq Gens /\ clean \subseteq Gens
  /\ req \in [Requests -> [kind : {"none", "pause", "cancel", "delete"} \cup Starters,
                           step : {"idle", "swap", "act"} \cup Launch,
                           gen : 0..MaxRuns, old : 0..MaxRuns]]
  /\ \A r \in Requests : req[r].step \in Launch => pc[req[r].gen] = "none"
  /\ lost \in BOOLEAN

Init ==
  /\ row = Created
  /\ owner = 0 /\ seq = 0
  /\ pc = [g \in Gens |-> "none"] /\ out = [g \in Gens |-> "none"]
  /\ ctx = {} /\ clean = {}
  /\ req = [r \in Requests |-> Idle]
  /\ lost = FALSE

-----------------------------------------------------------------------------
(* The store.  A row that is gone is updated by nothing. *)

Sets(r) == row' = IF row.exists THEN r ELSE row

\* The handlers that do not look at the store's answer: the write may have failed.
TriesToSet(r) == UNCHANGED row \/ Sets(r)

\* UpdateTaskStatusIfRun and its kin: only while run_id is still the writer's.
Owned(g) == row.exists /\ row.runId = g

-----------------------------------------------------------------------------
(* The handlers.  A refused request changes nothing and is left out. *)

Goes(r, step) == req' = [req EXCEPT ![r].step = step]
Answers(r)    == req' = [req EXCEPT ![r] = Idle]
At(r, kinds, step) == req[r].kind \in kinds /\ req[r].step = step

Begins(r, kind, step) ==
  /\ req[r] = Idle /\ row.exists
  /\ req' = [req EXCEPT ![r] = [kind |-> kind, step |-> step, gen |-> 0, old |-> 0]]
  /\ UNCHANGED <<row, mem, runs, lost>>

StartChecks(r)  == row.status # "running" /\ Begins(r, "start", "swap")
ResumeChecks(r) == row.status = "paused"  /\ Begins(r, "resume", "swap")
PauseChecks(r)  == row.status = "running" /\ Begins(r, "pause", "act")
DeleteChecks(r) == row.status # "running" /\ Begins(r, "delete", "act")

\* prepareCDCChainFor fails: SetTaskError, and the start is refused.
ChainNotPrepared(r) ==
  /\ At(r, {"start"}, "swap")
  /\ TriesToSet([row EXCEPT !.status = "failed"])
  /\ Answers(r)
  /\ UNCHANGED <<mem, runs, lost>>

\* A context is looked at when the pipeline returns, and recorded until then.
Cancels(g) == ctx' = ctx \cup {h \in Gens : h = g /\ pc[h] \in {"none", "pipe"}}

\* swapRunning: a fresh generation takes the task; the old cancel is returned.
Swap(r) ==
  /\ At(r, Starters, "swap") /\ seq < MaxRuns
  /\ seq' = seq + 1 /\ owner' = seq + 1
  /\ req' = [req EXCEPT ![r].step = "cancel", ![r].gen = seq + 1, ![r].old = owner]
  /\ clean' = IF req[r].kind = "start" THEN clean \cup {seq + 1} ELSE clean
  /\ UNCHANGED <<row, pc, ctx, out, lost>>

\* oldCancel()
CancelsOld(r) ==
  /\ At(r, Starters, "cancel")
  /\ Cancels(req[r].old)
  /\ req' = [req EXCEPT ![r].step = "stamp", ![r].old = 0]
  /\ UNCHANGED <<row, mem, pc, out, clean, lost>>

\* SetTaskRun: status running and run_id in one statement.
Stamps(r) ==
  /\ At(r, Starters, "stamp")
  /\ Sets([row EXCEPT !.status = "running", !.runId = req[r].gen])
  /\ Goes(r, IF req[r].kind = "start" THEN "reset" ELSE "launch")
  /\ lost' = FALSE
  /\ UNCHANGED <<mem, runs>>

EndRun(g) == owner' = IF owner = g THEN 0 ELSE owner

\* The stamp fails: cancel() and endRun of the run that never started.
StampFails(r) ==
  /\ At(r, Starters, "stamp")
  /\ EndRun(req[r].gen)
  /\ pc' = [pc EXCEPT ![req[r].gen] = "gone"] /\ ctx' = ctx \ {req[r].gen}
  /\ Answers(r)
  /\ UNCHANGED <<row, seq, out, clean, lost>>

\* ResetTaskForRerun
Resets(r) ==
  /\ At(r, {"start"}, "reset")
  /\ Sets([row EXCEPT !.result = 0, !.progress = 0])
  /\ Goes(r, "launch")
  /\ UNCHANGED <<mem, runs, lost>>

\* Its error is dropped.
ResetFails(r) ==
  /\ At(r, {"start"}, "reset")
  /\ Goes(r, "launch")
  /\ lost' = TRUE
  /\ UNCHANGED <<row, mem, runs>>

\* go runMigration
Launches(r) ==
  /\ At(r, Starters, "launch")
  /\ pc' = [pc EXCEPT ![req[r].gen] = "pipe"]
  /\ Answers(r)
  /\ UNCHANGED <<row, mem, ctx, out, clean, lost>>

\* handlePauseTask: the row only; the run goes on.
PauseWrites(r) ==
  /\ At(r, {"pause"}, "act")
  /\ TriesToSet([row EXCEPT !.status = "paused"])
  /\ Answers(r)
  /\ UNCHANGED <<mem, runs, lost>>

\* handleCancelTask: runningCancel, then cancel() or the terminal status.
CancelReads(r) ==
  /\ req[r] = Idle
  /\ req' = [req EXCEPT ![r] = [kind |-> "cancel", step |-> "act", gen |-> 0, old |-> owner]]
  /\ UNCHANGED <<row, mem, runs, lost>>

CancelActs(r) ==
  /\ At(r, {"cancel"}, "act")
  /\ IF req[r].old # 0
     THEN Cancels(req[r].old) /\ UNCHANGED row
     ELSE TriesToSet([row EXCEPT !.status = "cancelled"]) /\ UNCHANGED ctx
  /\ Answers(r)
  /\ UNCHANGED <<mem, pc, out, clean, lost>>

Deletes(r) ==
  /\ At(r, {"delete"}, "act")
  /\ row' \in {row, [Created EXCEPT !.exists = FALSE]}
  /\ Answers(r)
  /\ UNCHANGED <<mem, runs, lost>>

-----------------------------------------------------------------------------
(* runMigration of generation g. *)

RunGoes(g, to) == pc' = [pc EXCEPT ![g] = to]

\* runPipeline returns and ctx.Err() is looked at.
PipelineReturns(g) ==
  /\ pc[g] = "pipe"
  /\ \/ g \in ctx /\ RunGoes(g, "cancelGate") /\ UNCHANGED out
     \/ /\ g \notin ctx /\ RunGoes(g, "gate1")
        /\ \E o \in {"ok", "err", "bad"} : out' = [out EXCEPT ![g] = o]
  /\ ctx' = ctx \ {g}
  /\ UNCHANGED <<row, mem, clean, req, lost>>

\* Mutant: a run that finds itself cancelled leaves without its terminal write.
GateSilent(g) ==
  /\ pc[g] \in {"cancelGate", "gate1", "gate2"}
  /\ RunGoes(g, CASE pc[g] = "cancelGate" \/ owner # g -> "end"
                  [] owner = g /\ pc[g] = "gate1" -> IF out[g] = "err" THEN "errWrite" ELSE "sync"
                  [] owner = g /\ pc[g] = "gate2" -> "result")
  /\ out' = IF pc'[g] = "end" THEN [out EXCEPT ![g] = "none"] ELSE out
  /\ UNCHANGED <<row, mem, ctx, clean, req, lost>>

\* The three ownership gates, owns().
Gate(g) ==
  /\ pc[g] \in {"cancelGate", "gate1", "gate2"}
  /\ RunGoes(g, CASE owner # g -> "end"
                  [] owner = g /\ pc[g] = "cancelGate" -> "cancelWrite"
                  [] owner = g /\ pc[g] = "gate1" -> IF out[g] = "err" THEN "errWrite" ELSE "sync"
                  [] owner = g /\ pc[g] = "gate2" -> "result")
  /\ out' = IF pc'[g] = "end" THEN [out EXCEPT ![g] = "none"] ELSE out
  /\ UNCHANGED <<row, mem, ctx, clean, req, lost>>

Terminal(g) == CASE pc[g] = "cancelWrite" -> "cancelled" [] pc[g] = "errWrite" -> "failed"
                 [] pc[g] = "final" -> IF out[g] = "ok" THEN "completed" ELSE "failed"

\* UpdateTaskStatusIfRun, SetTaskErrorIfRun; only a Completed that landed chains.
WritesTerminal(g) ==
  /\ pc[g] \in {"cancelWrite", "errWrite", "final"}
  /\ row' = IF Owned(g) THEN [row EXCEPT !.status = Terminal(g)] ELSE row
  /\ RunGoes(g, IF Terminal(g) = "completed" /\ Owned(g) THEN "chain" ELSE "end")
  /\ out' = [out EXCEPT ![g] = "none"]
  /\ UNCHANGED <<mem, ctx, clean, req, lost>>

\* The database refuses the write: it is logged, nothing else.
TerminalFails(g) ==
  /\ pc[g] \in {"cancelWrite", "errWrite", "final"}
  /\ RunGoes(g, "end") /\ lost' = (lost \/ Owned(g))
  /\ out' = [out EXCEPT ![g] = "none"]
  /\ UNCHANGED <<row, mem, ctx, clean, req>>

\* UpdateTaskProgressIfRun; a checkpoint that cannot be read and a write that
\* fails are passed over.
ShowsProgress(g) ==
  UNCHANGED row \/ (Owned(g) /\ row' = [row EXCEPT !.progress = g])

\* The final progress sync.
Syncs(g) ==
  /\ pc[g] = "sync"
  /\ ShowsProgress(g)
  /\ RunGoes(g, "gate2")
  /\ UNCHANGED <<mem, ctx, out, clean, req, lost>>

\* SetTaskResultIfRun; its verdict is logged and not acted upon.
WritesResult(g) ==
  /\ pc[g] = "result"
  /\ row' = IF Owned(g) THEN [row EXCEPT !.result = g] ELSE row
  /\ RunGoes(g, "final")
  /\ UNCHANGED <<mem, ctx, out, clean, req, lost>>

ResultFails(g) ==
  /\ pc[g] = "result"
  /\ RunGoes(g, "final") /\ lost' = (lost \/ Owned(g))
  /\ UNCHANGED <<row, mem, ctx, out, clean, req>>

\* startCDCChainAfterSuccess
ChainStarts(g) ==
  /\ pc[g] = "chain"
  /\ RunGoes(g, "end")
  /\ UNCHANGED <<row, mem, ctx, out, clean, req, lost>>

\* Mutant: endRun removes whatever entry the task has.
RunEndsAnyEntry(g) ==
  /\ pc[g] = "end"
  /\ owner' = 0 /\ RunGoes(g, "gone")
  /\ UNCHANGED <<row, seq, ctx, out, clean, req, lost>>

\* The deferred endRun: it removes the entry only if it is still this run's.
\* (What is known of a run that is gone is forgotten.)
RunEnds(g) ==
  /\ pc[g] = "end"
  /\ EndRun(g) /\ RunGoes(g, "gone")
  /\ ctx' = ctx \ {g} /\ out' = [out EXCEPT ![g] = "none"] /\ clean' = clean \ {g}
  /\ UNCHANGED <<row, seq, req, lost>>

\* Mutant: the poller's write is not conditioned on run_id.
PollsAnyway(g) ==
  /\ pc[g] # "none"
  /\ Sets([row EXCEPT !.progress = g])
  /\ UNCHANGED <<mem, runs, req, lost>>

\* pollProgress: the write of a tick.  The poller stops with the pipeline, but may
\* then be between its read and its write for any time.
Polls(g) ==
  /\ pc[g] # "none"
  /\ ShowsProgress(g)
  /\ UNCHANGED <<mem, runs, req, lost>>

-----------------------------------------------------------------------------
\* Mutant: the rows of the runs that died with the server keep their status.
RestartsForgets ==
  /\ owner' = 0 /\ seq' = 0
  /\ pc' = [g \in Gens |-> "none"] /\ out' = [g \in Gens |-> "none"]
  /\ ctx' = {} /\ clean' = {}
  /\ req' = [r \in Requests |-> Idle]
  /\ UNCHANGED <<row, lost>>

\* The server dies and comes back: FailAllRunning; runSeq begins at 0 again.
ServerRestarts ==
  /\ \/ /\ row' = IF row.status = "running" THEN [row EXCEPT !.status = "failed"] ELSE row
        /\ UNCHANGED lost
     \/ UNCHANGED row /\ lost' = TRUE     \* its error is logged
  /\ owner' = 0 /\ seq' = 0
  /\ pc' = [g \in Gens |-> "none"] /\ out' = [g \in Gens |-> "none"]
  /\ ctx' = {} /\ clean' = {}
  /\ req' = [r \in Requests |-> Idle]

Arrives ==
  \/ \E r \in Starting : StartChecks(r) \/ ResumeChecks(r)
  \/ \E r \in Others : PauseChecks(r) \/ DeleteChecks(r) \/ CancelReads(r)

Handles(r) ==
  \/ ChainNotPrepared(r) \/ Swap(r) \/ CancelsOld(r) \/ Stamps(r) \/ StampFails(r)
  \/ Resets(r) \/ ResetFails(r) \/ Launches(r) \/ PauseWrites(r) \/ CancelActs(r) \/ Deletes(r)

RunStep(g) ==
  \/ PipelineReturns(g) \/ Gate(g) \/ WritesTerminal(g) \/ TerminalFails(g) \/ Syncs(g)
  \/ WritesResult(g) \/ ResultFails(g) \/ ChainStarts(g) \/ RunEnds(g)

Next ==
  \/ Arrives
  \/ \E r \in Requests : Handles(r)
  \/ \E g \in Gens : RunStep(g) \/ Polls(g)
  \/ ServerRestarts

\* Handlers and goroutines are scheduled, and a pipeline comes to an end.
Spec ==
  /\ Init /\ [][Next]_vars
  /\ \A r \in Requests : WF_vars(Handles(r))
  /\ \A g \in Gens : WF_vars(RunStep(g))

-----------------------------------------------------------------------------
(* Properties. *)

\* A pipeline that is no longer the task's current run is cancelled, or the
\* handler that replaced it is just about to cancel it: two runs never both mean
\* to go on writing to the target (swapRunning and endRun).
OneWanted ==
  \A g \in Gens : pc[g] = "pipe" /\ g \notin ctx /\ g # owner =>
    \E r \in Requests : req[r].step = "cancel" /\ req[r].old = g

\* A row that says running belongs to the current run, which is still to write
\* its end, or a handler is just launching it; so no stale run's write, no pause
\* and no cancel leaves a zombie behind (F-08), database errors aside.
RunningIsLive ==
  row.exists /\ row.status = "running" /\ ~lost =>
    \/ row.runId = owner /\ owner # 0 /\ pc[owner] \in Writing
    \/ \E r \in Requests : req[r].step \in Launch

\* Once a run begun by start is under way, the row shows nothing of older runs: the
\* generation is stamped before the fields are cleared (F-09 item 5).  A completed
\* row carries the result of the run that completed it.
NothingStale ==
  /\ \A g \in Gens : Owned(g) /\ pc[g] \notin {"none", "gone"} /\ g \in clean /\ ~lost =>
       row.progress \in {0, g} /\ row.result \in {0, g}
  /\ row.exists /\ row.status = "completed" /\ ~lost => row.result = row.runId

\* No task is running for ever.
NeverStuck ==
  row.status = "running" ~> row.status # "running" \/ ~row.exists \/ lost

\* What server.go:1653-1656 asks of a superseded run: it starts no CDC chain.
ChainOfOwner == [][\A g \in Gens : pc[g] = "chain" /\ pc'[g] = "end" => owner = g]_vars

\* Pausing does not take back a completed task.
CompletedStays ==
  [][row.status = "completed" /\ row'.status # "completed" =>
       row'.status = "running" \/ ~row'.exists]_vars
=============================================================================
