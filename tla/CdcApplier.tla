----------------------------- MODULE CdcApplier -----------------------------
(***************************************************************************)
(* The batch applier of internal/cdc/applier.go: the dispatcher of         *)
(* Applier.Start, its per-table buffers, the per-worker channels and the   *)
(* worker goroutines.  The event channel is fed and closed by the source,  *)
(* the outer context is cancelled by the runner, and the target's tables   *)
(* are created by the DDL poller; standing alone, all three may happen at  *)
(* any time.  SQL outcomes are nondeterministic.                           *)
(***************************************************************************)
EXTENDS CdcWal, Sequences, FiniteSets, Functions

CONSTANTS
  BatchSize,   \* BatchConfig.BatchSize
  Parallel,    \* BatchConfig.Parallel
  ChanCap,     \* capacity of the event channel (4096 in source.go)
  Route,       \* workerFor: table -> worker (FNV-1a of the key modulo Parallel)
  SkipTables,  \* CDC's internal tables and BatchConfig.SkipTables
  Absent       \* tables the target does not have yet

Workers == 1..Parallel

ASSUME ApplierAssumption ==
  /\ BatchSize \in Nat \ {0}
  /\ Parallel \in Nat \ {0}
  /\ ChanCap \in Nat \ {0}
  /\ Route \in [Tables -> Workers]
  /\ SkipTables \subseteq Tables
  /\ Absent \subseteq Tables

NoEvent == 0

VARIABLES
  chan,     \* the event channel
  closed,   \* it is closed
  ctx,      \* the outer context is cancelled
  halt,     \* a worker cancelled Applier.ctx
  fatal,    \* Applier.fatalErr is set
  mode,     \* dispatcher: "select", "flush", "drain", "wait" or "done"
  ret,      \* what Start returns: "none" yet, "closed" (nil), "fatal", "ctx"
  buf,      \* table -> buffered events
  todo,     \* tables whose buffer the current flush has yet to take
  out,      \* events the current flush took and has yet to send
  wch,      \* worker -> its channel
  wclosed,  \* closeWorkers was called
  hand,     \* worker -> the event it applies
  phase,    \* worker: "idle", "got", "sql", "absent" or "exited"
  target,   \* tables that exist on the target
  missing,  \* Applier.missingTables
  reset,    \* the DDL poller created a table, ResetMissingTables is due
  cnt,      \* ApplierStats
  fate      \* history: event -> "none", "applied", "failed", "skipped", "fatal"

inVars   == <<chan, closed, ctx>>
dispVars == <<mode, ret, buf, todo, out, wclosed>>
workVars == <<hand, phase, halt, fatal, fate>>
ddlVars  == <<target, missing, reset>>
appVars  == <<inVars, dispVars, workVars, ddlVars, wch, cnt>>

Cancelled == ctx \/ halt

TypeOK ==
  /\ chan \in Seq(Events) /\ Len(chan) <= ChanCap
  /\ closed \in BOOLEAN /\ ctx \in BOOLEAN /\ halt \in BOOLEAN /\ fatal \in BOOLEAN
  /\ mode \in {"select", "flush", "drain", "wait", "done"}
  /\ ret \in {"none", "closed", "fatal", "ctx"}
  /\ buf \in [Tables -> Seq(Events)]
  /\ \A t \in Tables : Len(buf[t]) <= BatchSize
  /\ todo \subseteq Tables
  /\ out \in Seq(Events) /\ Len(out) <= BatchSize
  /\ wch \in [Workers -> Seq(Events)]
  /\ \A w \in Workers : Len(wch[w]) <= BatchSize
  /\ wclosed \in BOOLEAN
  /\ hand \in [Workers -> Events \cup {NoEvent}]
  /\ phase \in [Workers -> {"idle", "got", "sql", "absent", "exited"}]
  /\ \A w \in Workers : hand[w] # NoEvent <=> phase[w] \in {"got", "sql", "absent"}
  /\ target \subseteq Tables /\ missing \subseteq Tables /\ reset \in BOOLEAN
  /\ cnt \in [{"received", "applied", "failed", "skipped"} -> Nat]
  /\ fate \in [Events -> {"none", "applied", "failed", "skipped", "fatal"}]
  /\ halt <=> fatal
  /\ mode \in {"wait", "done"} <=> wclosed

\* NewApplier and Start: empty buffers, idle workers.
Init ==
  /\ chan = <<>> /\ closed = FALSE
  /\ halt = FALSE /\ fatal = FALSE
  /\ mode = "select" /\ ret = "none"
  /\ buf = [t \in Tables |-> <<>>] /\ todo = {} /\ out = <<>>
  /\ wch = [w \in Workers |-> <<>>] /\ wclosed = FALSE
  /\ hand = [w \in Workers |-> NoEvent] /\ phase = [w \in Workers |-> "idle"]
  /\ missing = {} /\ reset = FALSE
  /\ cnt = [c \in {"received", "applied", "failed", "skipped"} |-> 0]
  /\ ctx = FALSE
  /\ target = Tables \ Absent
  /\ fate = [m \in Events |-> "none"]

Count(c) == cnt' = [cnt EXCEPT ![c] = @ + 1]

\* A new process: NewApplier and Start again.
Boot ==
  /\ chan' = <<>> /\ closed' = FALSE
  /\ halt' = FALSE /\ fatal' = FALSE
  /\ mode' = "select" /\ ret' = "none"
  /\ buf' = [t \in Tables |-> <<>>] /\ todo' = {} /\ out' = <<>>
  /\ wch' = [w \in Workers |-> <<>>] /\ wclosed' = FALSE
  /\ hand' = [w \in Workers |-> NoEvent] /\ phase' = [w \in Workers |-> "idle"]
  /\ missing' = {} /\ reset' = FALSE
  /\ cnt' = [c \in {"received", "applied", "failed", "skipped"} |-> 0]
  /\ fate' = [m \in Events |-> "none"]
  /\ UNCHANGED target

-----------------------------------------------------------------------------
(* The dispatcher: one select loop. *)

\* What the current flush has yet to do after it was given the tables ts.
FlushOf(ts) ==
  /\ todo' = ts
  /\ mode' = IF ts = {} THEN "select" ELSE "flush"

\* event := <-events: count it, buffer it, start flushing full buffers.
Dispatch ==
  /\ mode = "select" /\ chan # <<>>
  /\ chan' = Tail(chan)
  /\ Count("received")
  /\ LET t == TableOf[Head(chan)]
     IN  /\ buf' = [buf EXCEPT ![t] = Append(@, Head(chan))]
         /\ FlushOf({u \in Tables : Len(buf'[u]) >= BatchSize})
  /\ UNCHANGED <<closed, ctx, ret, out, wch, wclosed, workVars, ddlVars>>

\* Mutant: no flush ticker.
NoFlushTick == FALSE /\ UNCHANGED appVars

\* The flush ticker fires.
FlushTick ==
  /\ mode = "select"
  /\ \E t \in Tables : buf[t] # <<>>
  /\ FlushOf({t \in Tables : buf[t] # <<>>})
  /\ UNCHANGED <<inVars, ret, buf, out, wch, wclosed, workVars, ddlVars, cnt>>

\* The select sees the closed channel or a cancelled context: flush all
\* buffers, then close the workers' channels and wait for them.
Drain ==
  /\ mode = "select"
  /\ \/ closed /\ chan = <<>> /\ ret' = "closed"
     \/ Cancelled /\ ret' = "ctx"
  /\ mode' = "drain"
  /\ todo' = {t \in Tables : buf[t] # <<>>}
  /\ UNCHANGED <<inVars, buf, out, wch, wclosed, workVars, ddlVars, cnt>>

\* tableBuffer.flush of one buffer (map order is random).
FlushTake ==
  /\ mode \in {"flush", "drain"} /\ out = <<>>
  /\ \E t \in todo :
       /\ out' = buf[t]
       /\ buf' = [buf EXCEPT ![t] = <<>>]
       /\ todo' = todo \ {t}
  /\ UNCHANGED <<inVars, mode, ret, wch, wclosed, workVars, ddlVars, cnt>>

\* Mutant: one channel, any worker takes it (#t48 Bug#8).
FlushSendAnyWorker ==
  /\ out # <<>>
  /\ \E w \in Workers :
         /\ Len(wch[w]) < BatchSize
         /\ wch' = [wch EXCEPT ![w] = Append(@, Head(out))]
  /\ out' = Tail(out)
  /\ UNCHANGED <<inVars, mode, ret, buf, todo, wclosed, workVars, ddlVars, cnt>>

\* ch <- evt, to the table's worker.
FlushSend ==
  /\ out # <<>>
  /\ LET w == Route[TableOf[Head(out)]]
     IN  /\ Len(wch[w]) < BatchSize
         /\ wch' = [wch EXCEPT ![w] = Append(@, Head(out))]
  /\ out' = Tail(out)
  /\ UNCHANGED <<inVars, mode, ret, buf, todo, wclosed, workVars, ddlVars, cnt>>

\* Mutant: the send does not watch a.ctx.
FlushNeverDrops == FALSE /\ UNCHANGED appVars

\* <-a.ctx.Done while sending: the flush returns and what it had taken out of
\* the buffer is gone.
FlushDrop ==
  /\ out # <<>> /\ Cancelled
  /\ out' = <<>> /\ todo' = {}
  /\ UNCHANGED <<inVars, mode, ret, buf, wch, wclosed, workVars, ddlVars, cnt>>

FlushEnd ==
  /\ mode \in {"flush", "drain"} /\ todo = {} /\ out = <<>>
  /\ IF mode = "flush" THEN mode' = "select" /\ UNCHANGED wclosed
                       ELSE mode' = "wait" /\ wclosed' = TRUE
  /\ UNCHANGED <<inVars, ret, buf, todo, out, wch, workVars, ddlVars, cnt>>

\* Mutant: no wg.Wait.
ReturnAtOnce ==
  /\ mode = "wait"
  /\ mode' = "done"
  /\ ret' = IF ret = "ctx" /\ fatal THEN "fatal" ELSE ret
  /\ UNCHANGED <<inVars, buf, todo, out, wch, wclosed, workVars, ddlVars, cnt>>

\* wg.Wait returns: on the cancelled path Start returns Fatal() if it is set,
\* on the closed path it returns nil.
Return ==
  /\ mode = "wait" /\ \A w \in Workers : phase[w] = "exited"
  /\ mode' = "done"
  /\ ret' = IF ret = "ctx" /\ fatal THEN "fatal" ELSE ret
  /\ UNCHANGED <<inVars, buf, todo, out, wch, wclosed, workVars, ddlVars, cnt>>

-----------------------------------------------------------------------------
(* A worker. *)

Table(w) == TableOf[hand[w]]

\* The event in hand is settled with the given fate.
Settle(w, f) ==
  /\ fate' = [fate EXCEPT ![hand[w]] = f]
  /\ hand' = [hand EXCEPT ![w] = NoEvent]
  /\ phase' = [phase EXCEPT ![w] = "idle"]

Step(w, p) ==
  /\ phase' = [phase EXCEPT ![w] = p]
  /\ UNCHANGED <<hand, fate>>

\* range workCh.
Take(w) ==
  /\ phase[w] = "idle" /\ wch[w] # <<>>
  /\ hand' = [hand EXCEPT ![w] = Head(wch[w])]
  /\ wch' = [wch EXCEPT ![w] = Tail(@)]
  /\ phase' = [phase EXCEPT ![w] = "got"]
  /\ UNCHANGED <<inVars, dispVars, halt, fatal, fate, ddlVars, cnt>>

ExitWorker(w) ==
  /\ phase[w] = "idle" /\ wch[w] = <<>> /\ wclosed
  /\ Step(w, "exited")
  /\ UNCHANGED <<inVars, dispVars, wch, halt, fatal, ddlVars, cnt>>

\* Mutant: no `continue` after a skippedError, the event counts as failed too.
SkipCountsTwice(w) ==
  /\ phase[w] = "got" /\ Table(w) \in SkipTables \cup missing
  /\ Settle(w, "skipped")
  /\ cnt' = [cnt EXCEPT !["skipped"] = @ + 1, !["failed"] = @ + 1]
  /\ UNCHANGED <<inVars, dispVars, wch, halt, fatal, ddlVars>>

\* applyEvent returns a skippedError before it reaches the transformer:
\* internal or skip-listed table, or a table known to be missing.
Skip(w) ==
  /\ phase[w] = "got" /\ Table(w) \in SkipTables \cup missing
  /\ Settle(w, "skipped")
  /\ Count("skipped")
  /\ UNCHANGED <<inVars, dispVars, wch, halt, fatal, ddlVars>>

Transforms(w) == phase[w] = "got" /\ Table(w) \notin SkipTables \cup missing

\* Mutant: a structural failure is one more failed event.
StructuralGoesOn(w) ==
  /\ Transforms(w) /\ Kind[hand[w]] = "nokey"
  /\ Settle(w, "fatal")
  /\ Count("failed")
  /\ UNCHANGED <<inVars, dispVars, wch, halt, fatal, ddlVars>>

\* The transformer finds no usable key: setFatal, cancel, the worker returns.
Structural(w) ==
  /\ Transforms(w) /\ Kind[hand[w]] = "nokey"
  /\ fatal' = TRUE /\ halt' = TRUE
  /\ fate' = [fate EXCEPT ![hand[w]] = "fatal"]
  /\ hand' = [hand EXCEPT ![w] = NoEvent]
  /\ phase' = [phase EXCEPT ![w] = "exited"]
  /\ UNCHANGED <<inVars, dispVars, wch, ddlVars, cnt>>

\* ExecContext on a live context reaches the target ...
Exec(w) ==
  /\ Transforms(w) /\ Kind[hand[w]] = "row" /\ ~Cancelled
  /\ Step(w, "sql")
  /\ UNCHANGED <<inVars, dispVars, wch, halt, fatal, ddlVars, cnt>>

\* ... and succeeds,
Applied(w) ==
  /\ phase[w] = "sql" /\ Table(w) \in target
  /\ Settle(w, "applied")
  /\ Count("applied")
  /\ UNCHANGED <<inVars, dispVars, wch, halt, fatal, ddlVars>>

\* fails for good (fatal error, transient retries used up, context cancelled;
\* on a cancelled context it does not start),
Failed(w) ==
  /\ \/ phase[w] = "sql"
     \/ Transforms(w) /\ Kind[hand[w]] = "row" /\ Cancelled
  /\ Settle(w, "failed")
  /\ Count("failed")
  /\ UNCHANGED <<inVars, dispVars, wch, halt, fatal, ddlVars>>

\* or finds the table missing on its last attempt,
TableAbsent(w) ==
  /\ phase[w] = "sql" /\ Table(w) \notin target
  /\ Step(w, "absent")
  /\ UNCHANGED <<inVars, dispVars, wch, halt, fatal, ddlVars, cnt>>

\* after which the event is skipped and the table is short-circuited.
MarkMissing(w) ==
  /\ phase[w] = "absent"
  /\ missing' = missing \cup {Table(w)}
  /\ Settle(w, "skipped")
  /\ Count("skipped")
  /\ UNCHANGED <<inVars, dispVars, wch, halt, fatal, target, reset>>

-----------------------------------------------------------------------------
(* The surroundings. *)

Feed(m) ==
  /\ ~closed /\ Len(chan) < ChanCap
  /\ chan' = Append(chan, m)
  /\ UNCHANGED closed

CloseInput ==
  /\ closed' = TRUE
  /\ UNCHANGED chan

\* The DDL poller creates a missing table, then calls ResetMissingTables.
CreateTable ==
  /\ ~reset /\ target # Tables
  /\ \E t \in Tables \ target : target' = target \cup {t}
  /\ reset' = TRUE
  /\ UNCHANGED <<inVars, dispVars, wch, workVars, missing, cnt>>

ResetMissingTables ==
  /\ reset
  /\ missing' = {} /\ reset' = FALSE
  /\ UNCHANGED <<inVars, dispVars, wch, workVars, target, cnt>>

\* isMissing drops an entry older than missingTTL.
ExpireMissing ==
  /\ \E t \in missing : missing' = missing \ {t}
  /\ UNCHANGED <<inVars, dispVars, wch, workVars, target, reset, cnt>>

Dispatcher ==
  Dispatch \/ FlushTick \/ Drain \/ FlushTake \/ FlushSend \/ FlushDrop \/ FlushEnd \/ Return
Worker(w) ==
  \/ Take(w) \/ ExitWorker(w) \/ Skip(w) \/ Structural(w) \/ Exec(w)
  \/ Applied(w) \/ Failed(w) \/ TableAbsent(w) \/ MarkMissing(w)
Poller == CreateTable \/ ResetMissingTables

AppStep == Dispatcher \/ (\E w \in Workers : Worker(w)) \/ Poller \/ ExpireMissing

-----------------------------------------------------------------------------
(* The applier on its own: fed the events in stream order. *)

\* Everything the dispatcher was handed or will find on the channel.
Fed == cnt["received"] + Len(chan)

NextEvent == CHOOSE m \in Events : Cardinality({k \in Events : k <= m}) = Fed + 1

FeedNext ==
  /\ Fed < Cardinality(Events)
  /\ Feed(NextEvent)
  /\ UNCHANGED <<ctx, dispVars, workVars, ddlVars, wch, cnt>>

Close ==
  /\ ~closed
  /\ CloseInput
  /\ UNCHANGED <<ctx, dispVars, workVars, ddlVars, wch, cnt>>

Cancel ==
  /\ ~ctx
  /\ ctx' = TRUE
  /\ UNCHANGED <<chan, closed, dispVars, workVars, ddlVars, wch, cnt>>

\* Start has returned and its goroutines are gone.
Returned == mode = "done" /\ UNCHANGED appVars

Next == AppStep \/ FeedNext \/ Close \/ Cancel \/ Returned

Spec == Init /\ [][Next]_appVars

\* The dispatcher and the workers are goroutines that run whenever they can,
\* the ticker fires, the target answers every statement and the poller gets
\* to ResetMissingTables.
FairSpec ==
  /\ Spec
  /\ WF_appVars(Dispatcher)
  /\ \A w \in Workers : WF_appVars(Worker(w))
  /\ WF_appVars(ResetMissingTables)

-----------------------------------------------------------------------------
(* Properties. *)

SameTable(m, n) == m < n /\ TableOf[m] = TableOf[n]
Executing(m) == \E w \in Workers : hand[w] = m /\ phase[w] = "sql"

\* Within a table the WAL order is kept: a statement is sent to the target
\* only when every earlier event of its table is settled (the fixed routing of
\* workerFor, #t48 Bug#8).
TableOrder ==
  \A m, n \in Events :
    SameTable(m, n) /\ (fate[n] = "applied" \/ Executing(n)) => fate[m] # "none"

\* Behind a structural failure nothing of that table reaches the target any
\* more (worker: setFatal, cancel, return).
HaltStopsTable ==
  \A m, n \in Events :
    SameTable(m, n) /\ fate[m] = "fatal" => ~Executing(n) /\ fate[n] # "applied"

\* Events received and not settled yet.
InFlight ==
  (UNION {Range(buf[t]) : t \in Tables}) \cup Range(out)
    \cup (UNION {Range(wch[w]) : w \in Workers}) \cup ({hand[w] : w \in Workers} \ {NoEvent})

\* Until it is stopped the applier accounts for every event exactly once:
\* received = applied + skipped + failed + in flight (the invariant the
\* comment of skippedError asks for).
CountersAddUp ==
  ~Cancelled =>
    cnt["received"] =
      cnt["applied"] + cnt["skipped"] + cnt["failed"] + Cardinality(InFlight)

\* Start returns on a closed channel only after every event it was fed is
\* settled, unless it was stopped.
CleanReturnSettlesAll ==
  mode = "done" /\ ~Cancelled =>
    /\ chan = <<>>
    /\ cnt["received"] = Cardinality({m \in Events : fate[m] # "none"})

\* Closed or cancelled, the applier comes to its end: no dispatcher blocked on
\* the channel of a worker that is gone, no worker waiting for a close.
ShutsDown == closed \/ Cancelled ~> mode = "done"

\* What the code says of itself and does not do (see the README):
\* a structural failure is what Start returns;
FatalIsReturned == mode = "done" /\ fatal => ret = "fatal"

\* the counters add up whenever Start has returned;
CountersAddUpAtEnd ==
  mode = "done" => cnt["received"] = cnt["applied"] + cnt["skipped"] + cnt["failed"]

\* once ResetMissingTables ran, no table of the target is short-circuited.
MissingIsAbsent == ~reset => missing \cap target = {}

=============================================================================
