----------------------------- MODULE CdcControl -----------------------------
(***************************************************************************)
(* The control channel of the web server: CDCSupervisor (spawn, restart    *)
(* with back-off, stop, adopt), cdcWatchdog (revive) and the two HTTP      *)
(* handlers that drive them, in internal/webapi.  Each step is one         *)
(* critical section of the supervisor's mutex or one blocking operation.   *)
(* The CDC children and their status file are the environment.             *)
(***************************************************************************)
EXTENDS Integers, FiniteSets

CONSTANTS
  Clients,       \* HTTP requests in progress at the same time
  MaxRestarts,   \* maxRestarts of the restart policy
  MaxProcs,      \* bound: children ever spawned
  MaxRequests,   \* bound: start and stop requests ever made
  MaxFails,      \* bound: spawns that fail
  WebRestarts,   \* bound: times the web server is restarted
  Watchdog,      \* the watchdog is wired
  \* Moments the runs may leave out:
  QuietLoops,    \* nothing is asked while a supervise loop is about to finish()
  QuietWatchdog, \* nothing is asked in the middle of a tick
  QuietWeb       \* the server restarts when the live child has written its status,
                 \* and not after an operator stop

ASSUME ControlAssumption ==
  /\ MaxRestarts \in Nat /\ MaxProcs \in Nat /\ MaxRequests \in Nat
  /\ MaxFails \in Nat /\ WebRestarts \in Nat
  /\ {Watchdog, QuietLoops, QuietWatchdog, QuietWeb} \subseteq BOOLEAN

Procs == 1..MaxProcs   \* a child is named by its spawn number
Gens  == 0..MaxProcs   \* a Start, its supervise loop and its two channels
Nil   == 0

VARIABLES
  spawned,   \* number of children spawned so far
  fails,     \* number of spawns that failed so far
  alive,     \* children running
  termed,    \* children that got SIGTERM
  halted,    \* children whose last status says halted
  statusPid, \* PID in the status file
  \* CDCSupervisor
  state, proc, pid, restarts, stopRequested, adopted,
  done,      \* the generation whose done channel the field holds, or Nil
  gen,       \* the generation of the latest Start (of the field stopCh)
  doneClosed, stopClosed,  \* generations whose channel is closed
  \* supervise loops, by generation
  loop, waits,
  \* cdcWatchdog
  desired, wpc,
  \* handlers
  req,       \* client -> what its handler is about to do
  cap,       \* client -> what Stop captured: [proc, pid, done]
  requests,  \* requests made
  webs,      \* web restarts
  \* history
  stopped    \* an operator stop is the latest request, and it has returned

procVars == <<spawned, fails, alive, termed, halted, statusPid>>
supVars  == <<state, proc, pid, restarts, stopRequested, adopted, done, gen,
              doneClosed, stopClosed>>
loopVars == <<loop, waits>>
wdVars   == <<desired, wpc>>
reqVars  == <<req, cap, requests, stopped>>
vars     == <<procVars, supVars, loopVars, wdVars, reqVars, webs>>

States == {"stopped", "starting", "running", "stopping", "failed", "adopted"}

TypeOK ==
  /\ spawned \in 0..MaxProcs /\ fails \in 0..MaxFails /\ alive \subseteq 1..spawned /\ termed \subseteq Procs
  /\ halted \subseteq Procs
  /\ statusPid \in Gens
  /\ state \in States /\ proc \in Gens /\ pid \in Gens
  /\ restarts \in 0..MaxRestarts
  /\ stopRequested \in BOOLEAN /\ adopted \in BOOLEAN
  /\ done \in Gens /\ gen \in Gens /\ doneClosed \subseteq Gens /\ stopClosed \subseteq Gens
  /\ loop \in [Procs -> {"none", "top", "wait", "backoff", "respawn", "fail", "finish"}]
  /\ waits \in [Procs -> Gens]
  /\ desired \in BOOLEAN
  /\ wpc \in {"idle", "status", "abandon", "check", "start", "mark"}
  /\ req \in [Clients -> {"idle", "notifyStarted", "stop", "await", "kill"}]
  /\ cap \in [Clients -> [proc : Gens, pid : Gens, done : Gens]]
  /\ requests \in 0..MaxRequests /\ webs \in 0..WebRestarts /\ stopped \in BOOLEAN
  /\ state = "running" => pid # Nil
  /\ state = "adopted" => adopted

NoCapture == [proc |-> Nil, pid |-> Nil, done |-> Nil]

Init ==
  /\ spawned = 0 /\ fails = 0 /\ alive = {} /\ termed = {} /\ halted = {} /\ statusPid = Nil
  /\ state = "stopped" /\ proc = Nil /\ pid = Nil /\ restarts = 0
  /\ stopRequested = FALSE /\ adopted = FALSE /\ done = Nil /\ gen = Nil
  /\ doneClosed = {} /\ stopClosed = {}
  /\ loop = [g \in Procs |-> "none"] /\ waits = [g \in Procs |-> Nil]
  /\ desired = FALSE /\ wpc = "idle"
  /\ req = [c \in Clients |-> "idle"] /\ cap = [c \in Clients |-> NoCapture]
  /\ requests = 0 /\ webs = 0 /\ stopped = FALSE

-----------------------------------------------------------------------------
(* The CDC children. *)

\* A child ends: by itself (a crash, or a halt it has written to the status
\* file), or because it was told to.
Exits(p) ==
  /\ p \in alive
  /\ alive' = alive \ {p}
  /\ \/ UNCHANGED <<halted, statusPid>>
     \/ p \notin termed /\ halted' = halted \cup {p} /\ statusPid' = p
  /\ UNCHANGED <<spawned, fails, termed, supVars, loopVars, wdVars, reqVars, webs>>

\* A live child writes its status file.
WritesStatus(p) ==
  /\ p \in alive /\ statusPid # p
  /\ statusPid' = p
  /\ UNCHANGED <<spawned, fails, alive, termed, halted, supVars, loopVars, wdVars, reqVars, webs>>

\* factory() and proc.Start().
Spawn ==
  /\ spawned < MaxProcs
  /\ spawned' = spawned + 1
  /\ alive' = alive \cup {spawned + 1}
  /\ UNCHANGED <<fails, termed, halted, statusPid>>

SpawnFails ==
  /\ fails < MaxFails
  /\ fails' = fails + 1
  /\ UNCHANGED <<spawned, alive, termed, halted, statusPid>>

-----------------------------------------------------------------------------
(* CDCSupervisor. *)

\* Mutant of Busy: a child in back-off does not count.
BusyForgetsStarting == state \in {"running", "adopted"}

Busy == state \in {"running", "starting", "adopted"}

\* Start: a no-op while running, starting or adopted; else spawn a child and
\* a supervise loop with fresh channels.
Start ==
  IF Busy
  THEN UNCHANGED <<procVars, supVars, loopVars>>
  ELSE \/ /\ Spawn
          /\ proc' = spawned' /\ pid' = spawned'
          /\ state' = "running"
          /\ restarts' = 0 /\ stopRequested' = FALSE /\ adopted' = FALSE
          /\ gen' = spawned' /\ done' = spawned'
          /\ loop' = [loop EXCEPT ![spawned'] = "top"]
          /\ UNCHANGED <<doneClosed, stopClosed, waits>>
       \/ /\ SpawnFails
          /\ state' = "failed"
          /\ UNCHANGED <<proc, pid, restarts, stopRequested, adopted, done, gen,
                         doneClosed, stopClosed, loopVars>>

ToStopped ==
  /\ state' = "stopped" /\ proc' = Nil /\ pid' = Nil /\ stopRequested' = FALSE

To(g, pc) == loop' = [loop EXCEPT ![g] = pc]

\* The loop takes the current child; with none it just returns.
LoopTop(g) ==
  /\ loop[g] = "top"
  /\ IF proc = Nil THEN To(g, "none") /\ UNCHANGED waits
                   ELSE To(g, "wait") /\ waits' = [waits EXCEPT ![g] = proc]
  /\ UNCHANGED <<procVars, supVars, wdVars, reqVars, webs>>

PastCap == restarts >= MaxRestarts

\* proc.Wait returned: stopped on request, or crashed, past the cap or not.
ChildExited(g) ==
  /\ loop[g] = "wait" /\ waits[g] \notin alive
  /\ \/ /\ stopRequested
        /\ ToStopped /\ To(g, "finish")
        /\ UNCHANGED restarts
     \/ /\ ~stopRequested /\ PastCap
        /\ state' = "failed" /\ proc' = Nil /\ pid' = Nil
        /\ To(g, "finish")
        /\ UNCHANGED <<restarts, stopRequested>>
     \/ /\ ~stopRequested /\ ~PastCap
        /\ restarts' = restarts + 1
        /\ state' = "starting" /\ proc' = Nil
        /\ To(g, "backoff")
        /\ UNCHANGED <<pid, stopRequested>>
  /\ UNCHANGED <<procVars, adopted, done, gen, doneClosed, stopClosed, waits, wdVars,
                 reqVars, webs>>

\* The back-off ends, or Stop interrupts it.
BackoffOver(g) ==
  /\ loop[g] = "backoff"
  /\ \/ To(g, "respawn") /\ UNCHANGED supVars
     \/ /\ g \in stopClosed
        /\ ToStopped /\ To(g, "finish")
        /\ UNCHANGED <<restarts, adopted, done, gen, doneClosed, stopClosed>>
  /\ UNCHANGED <<procVars, waits, wdVars, reqVars, webs>>

Respawn(g) ==
  /\ loop[g] = "respawn"
  /\ \/ /\ stopRequested
        /\ ToStopped /\ To(g, "finish")
        /\ UNCHANGED procVars
     \/ /\ ~stopRequested
        /\ Spawn
        /\ proc' = spawned' /\ pid' = spawned' /\ state' = "running"
        /\ To(g, "top")
        /\ UNCHANGED stopRequested
     \/ /\ ~stopRequested
        /\ SpawnFails
        /\ To(g, "fail")
        /\ UNCHANGED <<proc, pid, state, stopRequested>>
  /\ UNCHANGED <<restarts, adopted, done, gen, doneClosed, stopClosed, waits, wdVars,
                 reqVars, webs>>

\* Mutant of FailRespawn: the loop returns without closing done.
FailRespawnReturns(g) ==
  /\ loop[g] = "fail"
  /\ state' = "failed" /\ pid' = Nil
  /\ To(g, "none")
  /\ UNCHANGED <<procVars, proc, restarts, stopRequested, adopted, done, gen, doneClosed,
                 stopClosed, waits, wdVars, reqVars, webs>>

\* failRespawn, up to its unlock.
FailRespawn(g) ==
  /\ loop[g] = "fail"
  /\ state' = "failed" /\ pid' = Nil
  /\ To(g, "finish")
  /\ UNCHANGED <<procVars, proc, restarts, stopRequested, adopted, done, gen, doneClosed,
                 stopClosed, waits, wdVars, reqVars, webs>>

\* finish: close whatever done channel the field holds by now.
Finish(g) ==
  /\ loop[g] = "finish"
  /\ done' = Nil
  /\ doneClosed' = doneClosed \cup ({done} \ {Nil})
  /\ To(g, "none")
  /\ UNCHANGED <<procVars, state, proc, pid, restarts, stopRequested, adopted, gen,
                 stopClosed, waits, wdVars, reqVars, webs>>

Loop(g) ==
  \/ LoopTop(g) \/ ChildExited(g) \/ BackoffOver(g) \/ Respawn(g) \/ FailRespawn(g)
  \/ Finish(g)

-----------------------------------------------------------------------------
(* handleCDCStart and handleCDCStop. *)

LoopsAreQuiet == QuietLoops => \A g \in Procs : loop[g] \notin {"fail", "finish"}

MayRequest ==
  /\ requests < MaxRequests
  /\ LoopsAreQuiet
  /\ QuietWatchdog => wpc = "idle"

At(c, pc) == req' = [req EXCEPT ![c] = pc]

StartRequest(c) ==
  /\ req[c] = "idle" /\ MayRequest
  /\ requests' = requests + 1
  /\ Start
  /\ At(c, IF Watchdog /\ state' # "failed" THEN "notifyStarted" ELSE "idle")
  /\ stopped' = FALSE
  /\ UNCHANGED <<cap, wdVars, webs>>

NotifyStarted(c) ==
  /\ req[c] = "notifyStarted"
  /\ desired' = TRUE
  /\ At(c, "idle")
  /\ UNCHANGED <<procVars, supVars, loopVars, wpc, cap, requests, stopped, webs>>

\* NotifyStopped comes before Stop.
StopRequest(c) ==
  /\ req[c] = "idle" /\ MayRequest
  /\ requests' = requests + 1
  /\ desired' = FALSE
  /\ At(c, "stop")
  /\ UNCHANGED <<procVars, supVars, loopVars, wpc, cap, stopped, webs>>

\* Mutant of NothingToStop: a child in back-off is as good as stopped.
NothingToStopInBackoff == state \in {"stopped", "failed", "starting"}

NothingToStop == state \in {"stopped", "failed"}

\* Stop up to its unlock, and at once the signals it then sends to what it
\* captured: abort the back-off, SIGTERM.
Stop(c) ==
  /\ req[c] = "stop"
  /\ IF NothingToStop
     THEN /\ At(c, "idle") /\ stopped' = TRUE
          /\ UNCHANGED <<state, stopRequested, stopClosed, cap, termed>>
     ELSE /\ stopRequested' = TRUE /\ state' = "stopping"
          /\ cap' = [cap EXCEPT ![c] = [proc |-> proc, pid |-> pid, done |-> done]]
          /\ At(c, "await")
          /\ stopClosed' = IF done # Nil THEN stopClosed \cup {gen} ELSE stopClosed
          /\ termed' = IF done # Nil THEN termed \cup ({proc} \ {Nil}) ELSE termed
          /\ UNCHANGED stopped
  /\ UNCHANGED <<spawned, fails, alive, halted, statusPid, proc, pid, restarts, adopted, done, gen,
                 doneClosed, loopVars, wdVars, requests, webs>>

Returns(c) == At(c, "idle") /\ stopped' = TRUE /\ UNCHANGED <<cap, requests>>

\* The supervise loop closed done.
StopDone(c) ==
  /\ req[c] \in {"await", "kill"} /\ cap[c].done \in doneClosed
  /\ Returns(c)
  /\ UNCHANGED <<procVars, supVars, loopVars, wdVars, webs>>

\* The grace period is over: SIGKILL, and wait on.
StopKills(c) ==
  /\ req[c] = "await" /\ cap[c].done # Nil
  /\ alive' = alive \ {cap[c].proc}
  /\ At(c, "kill")
  /\ UNCHANGED <<spawned, fails, termed, halted, statusPid, supVars, loopVars, wdVars, cap,
                 requests, stopped, webs>>

\* No loop to wait for: terminate an adopted child by PID, or do nothing.
StopUnowned(c) ==
  /\ req[c] = "await" /\ cap[c].done = Nil
  /\ IF adopted /\ cap[c].pid # Nil
     THEN ToStopped /\ termed' = termed \cup {cap[c].pid}
     ELSE UNCHANGED <<state, proc, pid, stopRequested, termed>>
  /\ Returns(c)
  /\ UNCHANGED <<spawned, fails, alive, halted, statusPid, restarts, adopted, done, gen,
                 doneClosed, stopClosed, loopVars, wdVars, webs>>

Handler(c) ==
  \/ StartRequest(c) \/ NotifyStarted(c) \/ StopRequest(c) \/ Stop(c)
  \/ StopDone(c) \/ StopKills(c) \/ StopUnowned(c)

-----------------------------------------------------------------------------
(* cdcWatchdog: tick and revive. *)

WatchdogIs(pc) == wpc' = pc /\ UNCHANGED desired

\* The tick finds CDC desired.
Tick ==
  /\ Watchdog /\ wpc = "idle" /\ desired
  /\ WatchdogIs("status")
  /\ UNCHANGED <<procVars, supVars, loopVars, reqVars, webs>>

\* It reads the supervisor's status, and the PID of an adopted child.
ReadsStatus ==
  /\ wpc = "status" /\ LoopsAreQuiet
  /\ WatchdogIs(CASE state \in {"stopped", "failed"} -> "check"
                  [] state = "adopted" /\ pid \notin alive -> "abandon"
                  [] OTHER -> "idle")
  /\ UNCHANGED <<procVars, supVars, loopVars, reqVars, webs>>

\* Mutant of AbandonAdopted: the dead child stays adopted.
KeepsAdopted ==
  /\ wpc = "abandon"
  /\ WatchdogIs("check")
  /\ UNCHANGED <<procVars, supVars, loopVars, reqVars, webs>>

AbandonAdopted ==
  /\ wpc = "abandon"
  /\ IF state = "adopted" /\ pid \notin alive
     THEN adopted' = FALSE /\ pid' = Nil /\ state' = "stopped"
     ELSE UNCHANGED <<adopted, pid, state>>
  /\ WatchdogIs("check")
  /\ UNCHANGED <<procVars, proc, restarts, stopRequested, done, gen, doneClosed, stopClosed,
                 loopVars, reqVars, webs>>

\* revive: too soon after the last one, stopped meanwhile, or go.
ReviveCheck ==
  /\ wpc = "check"
  /\ \/ WatchdogIs("idle")
     \/ desired /\ WatchdogIs("start")
  /\ UNCHANGED <<procVars, supVars, loopVars, reqVars, webs>>

ReviveStart ==
  /\ wpc = "start"
  /\ Start
  /\ WatchdogIs(IF state' = "failed" THEN "idle" ELSE "mark")
  /\ UNCHANGED <<reqVars, webs>>

ReviveMark ==
  /\ wpc = "mark"
  /\ wpc' = "idle" /\ desired' = TRUE
  /\ UNCHANGED <<procVars, supVars, loopVars, reqVars, webs>>

WatchdogStep ==
  Tick \/ ReadsStatus \/ AbandonAdopted \/ ReviveCheck \/ ReviveStart \/ ReviveMark

-----------------------------------------------------------------------------
(* The web server restarts: its goroutines are gone, the children live on.  *)
(* A child whose PID the status file has is adopted if it is alive; if it is *)
(* dead, did not halt and its record is fresh, the watchdog desires CDC.     *)

WebRestart ==
  /\ webs < WebRestarts
  /\ QuietWeb => alive \subseteq {statusPid} /\ ~stopped
  /\ webs' = webs + 1
  /\ proc' = Nil /\ restarts' = 0 /\ stopRequested' = FALSE
  /\ done' = Nil /\ gen' = Nil /\ doneClosed' = {} /\ stopClosed' = {}
  /\ loop' = [g \in Procs |-> "none"] /\ waits' = [g \in Procs |-> Nil]
  /\ req' = [c \in Clients |-> "idle"] /\ cap' = [c \in Clients |-> NoCapture]
  /\ wpc' = "idle"
  /\ IF statusPid \in alive
     THEN /\ adopted' = TRUE /\ pid' = statusPid /\ state' = "adopted"
          /\ desired' = Watchdog
     ELSE /\ adopted' = FALSE /\ pid' = Nil /\ state' = "stopped"
          /\ \E fresh \in BOOLEAN :
               desired' = (Watchdog /\ fresh /\ statusPid \notin halted \cup {Nil})
  /\ UNCHANGED <<procVars, requests, stopped>>

-----------------------------------------------------------------------------
Child(p) == Exits(p) \/ WritesStatus(p)

Next ==
  \/ \E p \in Procs : Child(p) \/ Loop(p)
  \/ \E c \in Clients : Handler(c)
  \/ WatchdogStep
  \/ WebRestart

Spec == Init /\ [][Next]_vars

\* Every goroutine that can run does, a child that was told to ends, and a
\* revive is not always too soon.  Nobody has to make a request, crash or
\* restart the server.
FairSpec ==
  /\ Spec
  /\ \A p \in Procs : WF_vars(Loop(p)) /\ WF_vars(p \in termed /\ Exits(p))
  /\ \A c \in Clients :
       WF_vars(NotifyStarted(c) \/ Stop(c) \/ StopDone(c) \/ StopKills(c) \/ StopUnowned(c))
  /\ WF_vars(WatchdogStep) /\ SF_vars(ReviveCheck /\ wpc' = "start")

-----------------------------------------------------------------------------
(* Properties. *)

\* Two CDC children never run at the same time: they would consume one
\* replication slot and write one checkpoint file.
SingleChild == Cardinality(alive) <= 1

\* At most one child is wanted at any time: of two that run, one has been told
\* to end.  A child in back-off, starting or adopted counts as the one.
OneWanted == Cardinality(alive \ termed) <= 1

\* Once the operator's stop has returned, and until the next start request,
\* every child still running has been told to end.
StopWins == stopped => alive \subseteq termed

\* The watchdog never brings a CDC back whose last word was that it halted.
HaltedStaysDown ==
  [][wpc = "start" /\ wpc' # "start" /\ spawned' > spawned => statusPid \notin halted]_vars

\* Every request is answered: Stop does not wait for a channel nobody closes.
RequestsEnd == \A c \in Clients : (req[c] # "idle") ~> (req[c] = "idle")

\* While CDC is desired it is brought back after a crash past the cap, a
\* failed spawn, or the death of an adopted child.
Revived ==
  (desired /\ alive = {}) ~> (alive # {} \/ ~desired \/ spawned = MaxProcs)

=============================================================================
