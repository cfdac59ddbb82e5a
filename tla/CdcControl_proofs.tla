-------------------------- MODULE CdcControl_proofs --------------------------
(***************************************************************************)
(* One CDC child at a time, and a stop that is final: proofs about         *)
(* CdcControl for any number of requests, children, failed spawns,         *)
(* restarts and web restarts.                                              *)
(*                                                                         *)
(* The promises hold of one operator at quiet moments (departures 2, 3, 10 *)
(* and 11 of the README say what happens otherwise).  Everything hangs on  *)
(* the supervisor's field pid: no child but that one runs without having   *)
(* been told to end (OnePid), and the field is empty exactly when the      *)
(* state says that nothing is wanted.                                      *)
(***************************************************************************)
EXTENDS CdcControl, FiniteSetTheorems, TLAPS

\* One operator, and the moments the runs leave out.
OneClient == \A c, d \in Clients : c = d
Quiet == OneClient /\ QuietLoops /\ QuietWatchdog /\ QuietWeb

Down    == state \in {"stopped", "failed"}
Awaited == \E c \in Clients : req[c] \in {"await", "kill"}

\* No child runs unwanted but the one whose PID the supervisor holds.
OnePid == alive \ termed \subseteq {pid}

\* The field pid, and the names given out so far.
Pids ==
  /\ pid = Nil <=> Down
  /\ pid \in 0..spawned /\ done \in 0..spawned
  /\ doneClosed \subseteq 1..spawned /\ done \notin doneClosed

\* At most one supervise loop, that of the done channel in the field; what it
\* is about to do agrees with the state.
Loops ==
  /\ \A g \in Procs : loop[g] # "none" => g = done
  /\ done # Nil => loop[done] # "none"
  /\ \A g \in Procs :
       /\ loop[g] \in {"top", "wait"} => state \in {"running", "stopping"} /\ proc = pid
       /\ loop[g] = "wait" => waits[g] = pid
       /\ loop[g] \in {"backoff", "respawn", "fail"} =>
            state \in {"starting", "stopping"} /\ pid \notin alive
       /\ loop[g] = "finish" => Down
  /\ done = Nil => Down \/ (state \in {"adopted", "stopping"} /\ adopted)

\* While a stop is on its way nothing is desired and no tick is under way; it
\* waits for the loop there is, or has a child nobody supervises before it.
Stops ==
  /\ state = "stopping" => Awaited
  /\ \A c \in Clients :
       /\ req[c] \in {"stop", "await", "kill"} => ~desired /\ wpc = "idle"
       /\ req[c] \in {"await", "kill"} =>
            IF cap[c].done = Nil
            THEN done = Nil /\ adopted /\ pid # Nil /\ cap[c].pid = pid /\ req[c] = "await"
            ELSE cap[c].done = done \/ Down

\* What a tick has read still holds when it acts on it.
Ticks ==
  /\ wpc = "abandon" => state = "adopted" /\ pid \notin alive /\ done = Nil
  /\ wpc \in {"check", "start"} => Down /\ done = Nil

\* After a stop nothing brings a child up.
Final ==
  stopped => /\ Down /\ ~desired /\ wpc = "idle"
             /\ \A c \in Clients : req[c] # "notifyStarted"

Rest == OnePid /\ Pids /\ Loops /\ Stops /\ Ticks /\ Final
IInv == TypeOK /\ Rest

-----------------------------------------------------------------------------
(* Type correctness, without any of the hypotheses above. *)

Bounded ==
  /\ MaxRestarts \in Nat /\ MaxProcs \in Nat /\ MaxRequests \in Nat
  /\ MaxFails \in Nat /\ WebRestarts \in Nat

LEMMA BoundsHold == Bounded
BY ControlAssumption, Zenon DEF ControlAssumption, Bounded

LEMMA WatchdogIsFlag == Watchdog \in BOOLEAN
BY ControlAssumption, Zenon DEF ControlAssumption

LEMMA Names ==
  ASSUME Bounded
  PROVE  Nil \in Gens /\ (\A p \in Gens \ {Nil} : p \in Procs) /\ Procs \subseteq Gens
BY DEF Bounded, Gens, Procs, Nil

\* A Start keeps the types: the child it spawns is the next number.
LEMMA StartTypes ==
  ASSUME Bounded, TypeOK, Start
  PROVE  /\ spawned' \in 0..MaxProcs /\ fails' \in 0..MaxFails
         /\ alive' \subseteq 1..spawned' /\ termed' \subseteq Procs /\ halted' \subseteq Procs
         /\ statusPid' \in Gens /\ state' \in States /\ proc' \in Gens /\ pid' \in Gens
         /\ restarts' \in 0..MaxRestarts
         /\ stopRequested' \in BOOLEAN /\ adopted' \in BOOLEAN
         /\ done' \in Gens /\ gen' \in Gens
         /\ doneClosed' \subseteq Gens /\ stopClosed' \subseteq Gens
         /\ loop' \in [Procs -> {"none", "top", "wait", "backoff", "respawn", "fail", "finish"}]
         /\ waits' \in [Procs -> Gens]
         /\ state' = "running" => pid' # Nil
         /\ state' = "adopted" => adopted'
<1>1. CASE Busy
  BY <1>1 DEF Start, TypeOK, procVars, supVars, loopVars, States, Bounded
<1>2. CASE ~Busy /\ Spawn /\ pid' = spawned' /\ state' = "running"
  <2>1. spawned' \in 0..MaxProcs /\ alive' \subseteq 1..spawned' /\ spawned' \in Procs
    BY <1>2 DEF Spawn, TypeOK, Bounded, Procs
  <2>2. spawned' \in Gens /\ spawned' # Nil
    BY <2>1 DEF Procs, Gens, Nil, Bounded
  <2>3. /\ proc' = spawned' /\ restarts' = 0 /\ stopRequested' = FALSE /\ adopted' = FALSE
        /\ gen' = spawned' /\ done' = spawned'
        /\ loop' = [loop EXCEPT ![spawned'] = "top"]
        /\ UNCHANGED <<doneClosed, stopClosed, waits>>
    BY <1>2 DEF Start
  <2>4. 0 \in 0..MaxRestarts
    BY DEF Bounded
  <2>. QED
    BY <1>2, <2>1, <2>2, <2>3, <2>4 DEF Spawn, TypeOK, States
<1>3. CASE ~Busy /\ SpawnFails /\ state' = "failed"
  BY <1>3 DEF Start, Spawn, SpawnFails, TypeOK, States, loopVars, Bounded
<1>. QED
  BY <1>1, <1>2, <1>3 DEF Start

LEMMA ChildTypes ==
  ASSUME Bounded, TypeOK, NEW p \in Procs, Child(p)
  PROVE  TypeOK'
<1>1. CASE Exits(p)
  BY ZenonT(60), <1>1, Names DEF Exits, TypeOK, supVars, loopVars, wdVars, reqVars, Bounded
<1>2. CASE WritesStatus(p)
  BY <1>2, Names DEF WritesStatus, TypeOK, supVars, loopVars, wdVars, reqVars, Bounded
<1>. QED
  BY <1>1, <1>2 DEF Child

LEMMA LoopTypes ==
  ASSUME Bounded, TypeOK, NEW g \in Procs, Loop(g)
  PROVE  TypeOK'
<1>1. CASE LoopTop(g)
  BY <1>1 DEF LoopTop, To, TypeOK, procVars, supVars, wdVars, reqVars, Bounded
<1>2. CASE ChildExited(g)
  <2>1. restarts' \in 0..MaxRestarts
    BY <1>2 DEF ChildExited, PastCap, TypeOK, Bounded
  <2>2. loop' \in [Procs -> {"none", "top", "wait", "backoff", "respawn", "fail", "finish"}]
    BY <1>2 DEF ChildExited, To, TypeOK
  <2>3. state' \in {"stopped", "failed", "starting"} /\ proc' = Nil /\ pid' \in Gens
        /\ stopRequested' \in BOOLEAN
    BY <1>2, Names DEF ChildExited, ToStopped, TypeOK
  <2>. QED
    BY <1>2, <2>1, <2>2, <2>3, Names DEF ChildExited, TypeOK, procVars, wdVars, reqVars, States
<1>3. CASE BackoffOver(g)
  BY ZenonT(60), <1>3, Names DEF BackoffOver, ToStopped, To, TypeOK, procVars, supVars, wdVars, reqVars, States, Bounded
<1>4. CASE Respawn(g)
  <2>1. CASE stopRequested
    BY <1>4, <2>1, Names DEF Respawn, ToStopped, To, TypeOK, procVars, wdVars, reqVars, States, Bounded
  <2>2. CASE ~stopRequested /\ Spawn /\ pid' = spawned'
    <3>1. spawned' \in 0..MaxProcs /\ alive' \subseteq 1..spawned' /\ spawned' \in Procs
      BY <2>2 DEF Spawn, TypeOK, Bounded, Procs
    <3>2. spawned' \in Gens /\ spawned' # Nil
      BY <3>1 DEF Procs, Gens, Nil, Bounded
    <3>. QED
      BY <1>4, <2>2, <3>1, <3>2 DEF Respawn, Spawn, SpawnFails, To, TypeOK, wdVars, reqVars, States, Bounded
  <2>3. CASE ~stopRequested /\ SpawnFails /\ UNCHANGED <<proc, pid, state, stopRequested>>
    BY <1>4, <2>3 DEF Respawn, SpawnFails, Spawn, To, TypeOK, wdVars, reqVars, Bounded
  <2>. QED
    BY <1>4, <2>1, <2>2, <2>3 DEF Respawn
<1>5. CASE FailRespawn(g)
  BY <1>5, Names DEF FailRespawn, To, TypeOK, procVars, wdVars, reqVars, States, Bounded
<1>6. CASE Finish(g)
  BY <1>6, Names DEF Finish, To, TypeOK, procVars, wdVars, reqVars, Bounded
<1>. QED
  BY <1>1, <1>2, <1>3, <1>4, <1>5, <1>6 DEF Loop

LEMMA HandlerTypes ==
  ASSUME Bounded, TypeOK, NEW c \in Clients, Handler(c)
  PROVE  TypeOK'
<1>1. CASE StartRequest(c)
  <2>1. /\ req' \in [Clients -> {"idle", "notifyStarted", "stop", "await", "kill"}]
        /\ stopped' \in BOOLEAN
    BY <1>1 DEF StartRequest, At, TypeOK
  <2>2. requests' \in 0..MaxRequests
    BY <1>1 DEF StartRequest, MayRequest, TypeOK, Bounded
  <2>. QED
    BY <1>1, <2>1, <2>2, StartTypes DEF StartRequest, TypeOK, wdVars, Bounded
<1>2. CASE NotifyStarted(c)
  BY <1>2 DEF NotifyStarted, At, TypeOK, procVars, supVars, loopVars, Bounded
<1>3. CASE StopRequest(c)
  <2>1. requests' \in 0..MaxRequests
    BY <1>3 DEF StopRequest, MayRequest, TypeOK, Bounded
  <2>2. /\ req' \in [Clients -> {"idle", "notifyStarted", "stop", "await", "kill"}]
        /\ desired' \in BOOLEAN
    BY <1>3 DEF StopRequest, At, TypeOK
  <2>. QED
    BY <1>3, <2>1, <2>2 DEF StopRequest, TypeOK, procVars, supVars, loopVars
<1>4. CASE Stop(c)
  <2>1. [proc |-> proc, pid |-> pid, done |-> done] \in [proc : Gens, pid : Gens, done : Gens]
    BY DEF TypeOK, Bounded
  <2>2. cap' \in [Clients -> [proc : Gens, pid : Gens, done : Gens]]
    BY <1>4, <2>1 DEF Stop, TypeOK, Bounded
  <2>3. termed' \subseteq Procs /\ stopClosed' \subseteq Gens
    BY <1>4, Names DEF Stop, TypeOK, Bounded
  <2>. QED
    BY ZenonT(60), <1>4, <2>2, <2>3 DEF Stop, NothingToStop, At, TypeOK, loopVars, wdVars, States, Bounded
<1>5. CASE StopDone(c)
  BY <1>5 DEF StopDone, Returns, At, TypeOK, procVars, supVars, loopVars, wdVars, Bounded
<1>6. CASE StopKills(c)
  BY <1>6 DEF StopKills, At, TypeOK, supVars, loopVars, wdVars, Bounded
<1>7. CASE StopUnowned(c)
  <2>1. cap[c].pid \in Gens
    BY DEF TypeOK, Bounded
  <2>2. termed' \subseteq Procs
    BY <1>7, <2>1, Names DEF StopUnowned, TypeOK, Bounded
  <2>. QED
    BY ZenonT(60), <1>7, <2>2, Names DEF StopUnowned, ToStopped, Returns, At, TypeOK, loopVars, wdVars, States, Bounded
<1>. QED
  BY <1>1, <1>2, <1>3, <1>4, <1>5, <1>6, <1>7 DEF Handler

LEMMA WatchdogTypes ==
  ASSUME Bounded, TypeOK, WatchdogStep
  PROVE  TypeOK'
<1>1. CASE Tick
  BY <1>1 DEF Tick, WatchdogIs, TypeOK, procVars, supVars, loopVars, reqVars, Bounded
<1>2. CASE ReadsStatus
  BY <1>2 DEF ReadsStatus, WatchdogIs, TypeOK, procVars, supVars, loopVars, reqVars, Bounded
<1>3. CASE AbandonAdopted
  BY <1>3, Names DEF AbandonAdopted, WatchdogIs, TypeOK, procVars, loopVars, reqVars, States, Bounded
<1>4. CASE ReviveCheck
  BY <1>4 DEF ReviveCheck, WatchdogIs, TypeOK, procVars, supVars, loopVars, reqVars, Bounded
<1>5. CASE ReviveStart
  <2>1. desired' \in BOOLEAN /\ wpc' \in {"idle", "mark"}
    BY <1>5 DEF ReviveStart, WatchdogIs, TypeOK, Bounded
  <2>. QED
    BY <1>5, <2>1, StartTypes DEF ReviveStart, TypeOK, reqVars, Bounded
<1>6. CASE ReviveMark
  BY <1>6 DEF ReviveMark, TypeOK, procVars, supVars, loopVars, reqVars, Bounded
<1>. QED
  BY <1>1, <1>2, <1>3, <1>4, <1>5, <1>6 DEF WatchdogStep

LEMMA WebTypes ==
  ASSUME Bounded, TypeOK, WebRestart
  PROVE  TypeOK'
<1>1. NoCapture \in [proc : Gens, pid : Gens, done : Gens]
  BY Names DEF NoCapture
<1>2. /\ cap' \in [Clients -> [proc : Gens, pid : Gens, done : Gens]]
      /\ req' \in [Clients -> {"idle", "notifyStarted", "stop", "await", "kill"}]
  BY <1>1 DEF WebRestart
<1>3. /\ waits' \in [Procs -> Gens]
      /\ loop' \in [Procs -> {"none", "top", "wait", "backoff", "respawn", "fail", "finish"}]
  BY Names DEF WebRestart
<1>4. /\ adopted' \in BOOLEAN /\ state' \in {"adopted", "stopped"}
      /\ pid' \in Gens
      /\ state' = "adopted" => adopted'
  BY Names DEF WebRestart, TypeOK
<1>5. desired' \in BOOLEAN
  <2>1. CASE statusPid \in alive
    BY <2>1, WatchdogIsFlag, Zenon DEF WebRestart
  <2>2. CASE statusPid \notin alive
    <3>1. PICK fresh \in BOOLEAN :
            desired' = (Watchdog /\ fresh /\ statusPid \notin halted \cup {Nil})
      BY <2>2 DEF WebRestart
    <3>. QED
      BY <3>1, Zenon
  <2>. QED
    BY <2>1, <2>2
<1>6. webs' \in 0..WebRestarts
  BY DEF WebRestart, TypeOK, Bounded
<1>7. /\ proc' = Nil /\ restarts' = 0 /\ stopRequested' = FALSE /\ done' = Nil /\ gen' = Nil
      /\ doneClosed' = {} /\ stopClosed' = {} /\ wpc' = "idle"
      /\ UNCHANGED <<spawned, fails, alive, termed, halted, statusPid, requests, stopped>>
  BY DEF WebRestart, procVars
<1>8. 0 \in 0..MaxRestarts
  BY DEF Bounded
<1>. QED
  BY <1>2, <1>3, <1>4, <1>5, <1>6, <1>7, <1>8, Names DEF TypeOK, States

LEMMA TypeStep ==
  ASSUME Bounded, TypeOK, [Next]_vars
  PROVE  TypeOK'
<1>1. CASE UNCHANGED vars
  BY <1>1 DEF vars, procVars, supVars, loopVars, wdVars, reqVars, TypeOK, Bounded
<1>. QED
  BY <1>1, ChildTypes, LoopTypes, HandlerTypes, WatchdogTypes, WebTypes DEF Next

LEMMA InitTypes ==
  ASSUME Bounded, Init
  PROVE  TypeOK
<1>1. NoCapture \in [proc : Gens, pid : Gens, done : Gens]
  BY Names DEF NoCapture
<1>2. /\ cap \in [Clients -> [proc : Gens, pid : Gens, done : Gens]]
      /\ req \in [Clients -> {"idle", "notifyStarted", "stop", "await", "kill"}]
      /\ waits \in [Procs -> Gens]
      /\ loop \in [Procs -> {"none", "top", "wait", "backoff", "respawn", "fail", "finish"}]
  BY <1>1, Names DEF Init
<1>3. /\ 0 \in 0..MaxProcs /\ 0 \in 0..MaxFails /\ 0 \in 0..MaxRestarts
      /\ 0 \in 0..MaxRequests /\ 0 \in 0..WebRestarts
  BY DEF Bounded
<1>. QED
  BY <1>2, <1>3, Names DEF Init, TypeOK, States

\* Type correctness of the control channel, with a PID in every running state
\* and the flag of an adopted child, for any number of operators and any timing.
THEOREM TypeCorrect == Spec => []TypeOK
<1>1. Init => TypeOK
  BY BoundsHold, InitTypes
<1>2. TypeOK /\ [Next]_vars => TypeOK'
  BY BoundsHold, TypeStep
<1>. QED
  BY <1>1, <1>2, PTL DEF Spec

-----------------------------------------------------------------------------
(* The children and the supervise loop. *)

\* A child that ends or writes its status takes nothing from the invariant.
LEMMA ChildStep ==
  ASSUME IInv, NEW p \in Procs, Child(p)
  PROVE  Rest'
<1>1. /\ alive' \subseteq alive
      /\ UNCHANGED <<spawned, fails, termed, supVars, loopVars, wdVars, reqVars, webs>>
  BY DEF Child, Exits, WritesStatus
<1>2. OnePid' /\ Pids'
  BY <1>1 DEF IInv, Rest, OnePid, Pids, Down, supVars
<1>3. Loops'
  BY <1>1 DEF IInv, Rest, Loops, Down, supVars, loopVars
<1>4. Stops'
  BY <1>1 DEF IInv, Rest, Stops, Awaited, Down, supVars, wdVars, reqVars
<1>5. Ticks' /\ Final'
  BY <1>1 DEF IInv, Rest, Ticks, Final, Down, supVars, wdVars, reqVars
<1>. QED
  BY <1>2, <1>3, <1>4, <1>5 DEF Rest

\* The loop that takes a step is the only one, and no tick acts meanwhile.
LEMMA Alone ==
  ASSUME Bounded, IInv, NEW g \in Procs, loop[g] # "none"
  PROVE  /\ g = done /\ done # Nil
         /\ \A h \in Procs : h # g => loop[h] = "none"
         /\ wpc \notin {"abandon", "check", "start"}
         /\ \A c \in Clients : req[c] \in {"await", "kill"} => cap[c].done # Nil
<1>1. g = done /\ \A h \in Procs : h # g => loop[h] = "none"
  BY DEF IInv, Rest, Loops
<1>2. done # Nil
  BY <1>1 DEF Procs, Nil, Bounded
<1>. QED
  BY <1>1, <1>2 DEF IInv, Rest, Ticks, Stops

\* What a step of the loop has to keep for stops, ticks and the last stop: the
\* handlers and the watchdog stand still, and nothing that is down comes up.
LEMMA LoopFrame ==
  ASSUME Bounded, IInv, NEW g \in Procs, loop[g] # "none",
         UNCHANGED <<wdVars, reqVars>>,
         Down => Down',
         done' = done \/ Down',
         state' = "stopping" => state = "stopping"
  PROVE  Stops' /\ Ticks' /\ Final'
<1>1. Stops'
  <2>1. Awaited' <=> Awaited
    BY DEF Awaited, reqVars
  <2>2. state' = "stopping" => Awaited'
    BY <2>1 DEF IInv, Rest, Stops
  <2>3. ASSUME NEW c \in Clients, req'[c] \in {"await", "kill"}
        PROVE  cap'[c].done # Nil /\ (cap'[c].done = done' \/ Down')
    BY <2>3, Alone DEF IInv, Rest, Stops, reqVars
  <2>4. ASSUME NEW c \in Clients, req'[c] \in {"stop", "await", "kill"}
        PROVE  ~desired' /\ wpc' = "idle"
    BY <2>4 DEF IInv, Rest, Stops, reqVars, wdVars
  <2>. QED
    BY <2>2, <2>3, <2>4 DEF Stops
<1>2. Ticks'
  BY Alone DEF Ticks, wdVars
<1>3. Final'
  BY DEF IInv, Rest, Final, wdVars, reqVars
<1>. QED
  BY <1>1, <1>2, <1>3

LEMMA LoopTopStep ==
  ASSUME Bounded, IInv, NEW g \in Procs, LoopTop(g)
  PROVE  Rest'
<1>1. /\ loop[g] = "top" /\ proc = pid /\ pid # Nil
      /\ state \in {"running", "stopping"}
  BY DEF LoopTop, IInv, Rest, Loops, Pids, Down
<1>2. /\ loop' = [loop EXCEPT ![g] = "wait"] /\ waits' = [waits EXCEPT ![g] = pid]
      /\ UNCHANGED <<procVars, supVars, wdVars, reqVars, webs>>
  BY <1>1 DEF LoopTop, To
<1>3. OnePid' /\ Pids'
  BY <1>2 DEF IInv, Rest, OnePid, Pids, Down, procVars, supVars
<1>4. Loops'
  <2>1. /\ loop'[g] = "wait" /\ waits'[g] = pid
        /\ \A h \in Procs : h # g => loop'[h] = "none"
    BY <1>1, <1>2, Alone DEF IInv, TypeOK
  <2>. QED
    BY <1>1, <1>2, <2>1, Alone DEF Loops, supVars, procVars
<1>. QED
  BY <1>1, <1>2, <1>3, <1>4, LoopFrame DEF Rest, Down, supVars

LEMMA ChildExitedStep ==
  ASSUME Bounded, IInv, NEW g \in Procs, ChildExited(g)
  PROVE  Rest'
<1>1. /\ loop[g] = "wait" /\ pid # Nil /\ pid \notin alive
      /\ state \in {"running", "stopping"}
  BY DEF ChildExited, IInv, Rest, Loops, Pids, Down
<1>2. /\ UNCHANGED <<procVars, adopted, done, gen, doneClosed, stopClosed, waits, wdVars, reqVars,
                     webs>>
      /\ \/ Down' /\ pid' = Nil /\ To(g, "finish")
         \/ state' = "starting" /\ pid' = pid /\ To(g, "backoff")
  BY DEF ChildExited, ToStopped, Down
<1>3. OnePid'
  BY <1>1, <1>2 DEF IInv, Rest, OnePid, procVars
<1>4. Pids'
  BY <1>1, <1>2 DEF IInv, Rest, TypeOK, Pids, Down, procVars, Nil
<1>5. Loops'
  <2>1. /\ \/ loop'[g] = "finish" /\ Down'
           \/ loop'[g] = "backoff" /\ state' = "starting" /\ pid' = pid
        /\ \A h \in Procs : h # g => loop'[h] = "none"
    BY <1>1, <1>2, Alone DEF IInv, TypeOK, To
  <2>. QED
    BY <1>1, <1>2, <2>1, Alone DEF Loops, procVars
<1>. QED
  BY <1>1, <1>2, <1>3, <1>4, <1>5, LoopFrame DEF Rest, Down

LEMMA BackoffOverStep ==
  ASSUME Bounded, IInv, NEW g \in Procs, BackoffOver(g)
  PROVE  Rest'
<1>1. /\ loop[g] = "backoff" /\ pid # Nil /\ pid \notin alive
      /\ state \in {"starting", "stopping"}
  BY DEF BackoffOver, IInv, Rest, Loops, Pids, Down
<1>2. /\ UNCHANGED <<procVars, adopted, done, gen, doneClosed, stopClosed, waits, wdVars, reqVars,
                     webs>>
      /\ \/ Down' /\ pid' = Nil /\ To(g, "finish")
         \/ state' = state /\ pid' = pid /\ To(g, "respawn")
  BY DEF BackoffOver, ToStopped, Down, supVars
<1>3. OnePid'
  BY <1>1, <1>2 DEF IInv, Rest, OnePid, procVars
<1>4. Pids'
  BY <1>1, <1>2 DEF IInv, Rest, TypeOK, Pids, Down, procVars, Nil
<1>5. Loops'
  <2>1. /\ \/ loop'[g] = "finish" /\ Down'
           \/ loop'[g] = "respawn" /\ state' = state /\ pid' = pid
        /\ \A h \in Procs : h # g => loop'[h] = "none"
    BY <1>1, <1>2, Alone DEF IInv, TypeOK, To
  <2>. QED
    BY <1>1, <1>2, <2>1, Alone DEF Loops, procVars
<1>. QED
  BY <1>1, <1>2, <1>3, <1>4, <1>5, LoopFrame DEF Rest, Down

LEMMA RespawnStep ==
  ASSUME Bounded, IInv, NEW g \in Procs, Respawn(g)
  PROVE  Rest'
<1>1. /\ loop[g] = "respawn" /\ pid # Nil /\ pid \notin alive
      /\ state \in {"starting", "stopping"}
  BY DEF Respawn, IInv, Rest, Loops, Pids, Down
<1>2. /\ UNCHANGED <<restarts, adopted, done, gen, doneClosed, stopClosed, waits, wdVars, reqVars,
                     webs>>
      /\ \/ Down' /\ pid' = Nil /\ To(g, "finish") /\ UNCHANGED procVars
         \/ Spawn /\ state' = "running" /\ proc' = spawned' /\ pid' = spawned' /\ To(g, "top")
         \/ SpawnFails /\ state' = state /\ pid' = pid /\ To(g, "fail")
  BY DEF Respawn, ToStopped, Down
<1>3. OnePid'
  BY <1>1, <1>2 DEF IInv, Rest, OnePid, procVars, Spawn, SpawnFails
<1>4. Pids'
  BY <1>1, <1>2 DEF IInv, Rest, TypeOK, Pids, Down, procVars, Nil, Spawn, SpawnFails, Bounded
<1>5. Loops'
  <2>1. /\ \/ loop'[g] = "finish" /\ Down'
           \/ loop'[g] = "top" /\ state' = "running" /\ proc' = pid'
           \/ loop'[g] = "fail" /\ state' = state /\ pid' = pid /\ alive' = alive
        /\ \A h \in Procs : h # g => loop'[h] = "none"
    BY <1>1, <1>2, Alone DEF IInv, TypeOK, To, SpawnFails
  <2>. QED
    BY <1>1, <1>2, <2>1, Alone DEF Loops
<1>. QED
  BY <1>1, <1>2, <1>3, <1>4, <1>5, LoopFrame DEF Rest, Down

LEMMA FailRespawnStep ==
  ASSUME Bounded, IInv, NEW g \in Procs, FailRespawn(g)
  PROVE  Rest'
<1>1. /\ loop[g] = "fail" /\ pid # Nil /\ pid \notin alive
      /\ state \in {"starting", "stopping"}
  BY DEF FailRespawn, IInv, Rest, Loops, Pids, Down
<1>2. /\ UNCHANGED <<procVars, adopted, done, gen, doneClosed, stopClosed, waits, wdVars, reqVars,
                     webs>>
      /\ Down' /\ pid' = Nil /\ To(g, "finish")
  BY DEF FailRespawn, Down
<1>3. OnePid'
  BY <1>1, <1>2 DEF IInv, Rest, OnePid, procVars
<1>4. Pids'
  BY <1>1, <1>2 DEF IInv, Rest, TypeOK, Pids, Down, procVars, Nil
<1>5. Loops'
  <2>1. loop'[g] = "finish" /\ \A h \in Procs : h # g => loop'[h] = "none"
    BY <1>1, <1>2, Alone DEF IInv, TypeOK, To
  <2>. QED
    BY <1>1, <1>2, <2>1, Alone DEF Loops
<1>. QED
  BY <1>1, <1>2, <1>3, <1>4, <1>5, LoopFrame DEF Rest, Down

\* The loop closes the one channel there is and is gone.
LEMMA FinishStep ==
  ASSUME Bounded, IInv, NEW g \in Procs, Finish(g)
  PROVE  Rest'
<1>1. loop[g] = "finish" /\ Down /\ pid = Nil
  BY DEF Finish, IInv, Rest, Loops, Pids
<1>2. /\ UNCHANGED <<procVars, state, proc, pid, restarts, stopRequested, adopted, gen,
                     stopClosed, waits, wdVars, reqVars, webs>>
      /\ done' = Nil /\ doneClosed' = doneClosed \cup ({done} \ {Nil}) /\ To(g, "none")
  BY DEF Finish
<1>3. OnePid'
  BY <1>1, <1>2 DEF IInv, Rest, OnePid, procVars
<1>4. Pids'
  BY <1>1, <1>2 DEF IInv, Rest, TypeOK, Pids, Down, procVars, Nil, Bounded
<1>5. Loops'
  <2>1. \A h \in Procs : loop'[h] = "none"
    BY <1>1, <1>2, Alone DEF IInv, TypeOK, To
  <2>. QED
    BY <1>1, <1>2, <2>1 DEF Loops, Down
<1>. QED
  BY <1>1, <1>2, <1>3, <1>4, <1>5, LoopFrame DEF Rest, Down

LEMMA LoopStep ==
  ASSUME Bounded, IInv, NEW g \in Procs, Loop(g)
  PROVE  Rest'
BY LoopTopStep, ChildExitedStep, BackoffOverStep, RespawnStep, FailRespawnStep, FinishStep DEF Loop

-----------------------------------------------------------------------------
(* Starts: only where nothing runs. *)

\* A start that is not a no-op finds no loop and no child that is wanted, and
\* leaves one of each, or none.
LEMMA StartKeeps ==
  ASSUME Bounded, IInv, Start, Busy \/ (Down /\ done = Nil),
         UNCHANGED webs
  PROVE  /\ OnePid' /\ Pids' /\ Loops'
         /\ state' = "stopping" => state = "stopping"
         /\ \/ UNCHANGED <<procVars, supVars, loopVars>>
            \/ /\ Down /\ done = Nil
               /\ (Down' /\ done' = Nil) \/ state' = "running"
<1>1. CASE Busy
  <2>1. UNCHANGED <<procVars, supVars, loopVars>>
    BY <1>1 DEF Start
  <2>. QED
    BY <2>1 DEF IInv, Rest, OnePid, Pids, Loops, Down, procVars, supVars, loopVars
<1>2. CASE ~Busy /\ Spawn /\ state' = "running"
  <2>1. /\ proc' = spawned' /\ pid' = spawned' /\ done' = spawned' /\ doneClosed' = doneClosed
        /\ loop' = [loop EXCEPT ![spawned'] = "top"]
        /\ spawned' = spawned + 1 /\ alive' = alive \cup {spawned'} /\ termed' = termed
    BY <1>2 DEF Start, Spawn
  <2>2. Down /\ done = Nil /\ pid = Nil /\ spawned' \in Procs /\ spawned' # Nil
    BY <1>2, <2>1 DEF Busy, Down, IInv, Rest, TypeOK, Pids, Spawn, Procs, Nil, Bounded
  <2>3. OnePid'
    BY <2>1, <2>2 DEF IInv, Rest, TypeOK, OnePid, Nil
  <2>4. Pids'
    BY <1>2, <2>1, <2>2 DEF IInv, Rest, TypeOK, Pids, Down, Nil, Bounded
  <2>5. Loops'
    <3>1. \A h \in Procs : loop[h] = "none"
      BY <2>2 DEF IInv, Rest, Loops, Procs, Nil, Bounded
    <3>2. /\ loop'[spawned'] = "top"
          /\ \A h \in Procs : h # spawned' => loop'[h] = "none"
      BY <3>1, <2>1, <2>2 DEF IInv, TypeOK
    <3>. QED
      BY <3>2, <1>2, <2>1, <2>2 DEF Loops
  <2>. QED
    BY <1>2, <2>2, <2>3, <2>4, <2>5
<1>3. CASE ~Busy /\ SpawnFails /\ state' = "failed"
  <2>1. /\ UNCHANGED <<proc, pid, adopted, done, doneClosed, loopVars, spawned, alive, termed>>
    BY <1>3 DEF Start, Spawn, SpawnFails
  <2>2. Down /\ done = Nil /\ Down'
    BY <1>3 DEF Busy, Down
  <2>3. OnePid' /\ Pids'
    BY <2>1, <2>2 DEF IInv, Rest, OnePid, Pids
  <2>4. Loops'
    BY <1>3, <2>1, <2>2 DEF IInv, Rest, Loops, loopVars, Procs, Nil, Bounded
  <2>. QED
    BY <1>3, <2>1, <2>2, <2>3, <2>4
<1>. QED
  BY <1>1, <1>2, <1>3 DEF Start

\* A start request, at a quiet moment, finds no stop under way.
LEMMA StartRequestStep ==
  ASSUME Bounded, Quiet, IInv, NEW c \in Clients, StartRequest(c)
  PROVE  Rest'
<1>1. \A d \in Clients : d = c
  BY DEF Quiet, OneClient
<1>2. /\ req[c] = "idle" /\ wpc = "idle" /\ stopped' = FALSE /\ Start
      /\ \A g \in Procs : loop[g] \notin {"fail", "finish"}
      /\ UNCHANGED <<cap, wdVars, webs>>
      /\ req' = [req EXCEPT ![c] = IF Watchdog /\ state' # "failed" THEN "notifyStarted" ELSE "idle"]
  BY DEF StartRequest, MayRequest, LoopsAreQuiet, Quiet, At
<1>3. state # "stopping"
  BY <1>1, <1>2 DEF IInv, Rest, Stops, Awaited
<1>4. Busy \/ (Down /\ done = Nil)
  <2>1. CASE Busy
    BY <2>1
  <2>2. CASE ~Busy
    <3>1. Down
      BY <2>2, <1>3 DEF Busy, Down, IInv, TypeOK, States
    <3>2. ASSUME done # Nil PROVE FALSE
      <4>1. done \in Procs
        BY <3>2 DEF IInv, TypeOK, Gens, Procs, Nil, Bounded
      <4>2. loop[done] \in {"top", "wait", "backoff", "respawn"}
        BY <3>2, <4>1, <1>2 DEF IInv, Rest, Loops, TypeOK
      <4>. QED
        BY <3>1, <4>1, <4>2 DEF IInv, Rest, Loops, Down
    <3>. QED
      BY <3>1, <3>2
  <2>. QED
    BY <2>1, <2>2
<1>5. OnePid' /\ Pids' /\ Loops' /\ state' # "stopping"
  BY <1>2, <1>3, <1>4, StartKeeps
<1>6. req'[c] \in {"notifyStarted", "idle"}
  BY <1>2 DEF IInv, TypeOK
<1>7. Stops'
  BY <1>1, <1>5, <1>6 DEF Stops
<1>8. Ticks' /\ Final'
  BY <1>2 DEF Ticks, Final, wdVars
<1>. QED
  BY <1>5, <1>7, <1>8 DEF Rest

LEMMA ReviveStartStep ==
  ASSUME Bounded, IInv, ReviveStart
  PROVE  Rest'
<1>1. /\ wpc = "start" /\ Start /\ UNCHANGED <<desired, reqVars, webs>>
      /\ wpc' \in {"idle", "mark"}
  BY DEF ReviveStart, WatchdogIs
<1>2. Down /\ done = Nil
  BY <1>1 DEF IInv, Rest, Ticks
<1>3. OnePid' /\ Pids' /\ Loops' /\ state' # "stopping"
  BY <1>1, <1>2, StartKeeps DEF Down
<1>4. /\ \A c \in Clients : req'[c] \notin {"stop", "await", "kill"}
      /\ ~stopped'
  BY <1>1 DEF IInv, Rest, Stops, Final, reqVars
<1>5. Stops' /\ Ticks' /\ Final'
  BY <1>1, <1>3, <1>4 DEF Stops, Ticks, Final
<1>. QED
  BY <1>3, <1>5 DEF Rest

-----------------------------------------------------------------------------
(* Stops. *)

LEMMA NotifyStartedStep ==
  ASSUME Bounded, Quiet, IInv, NEW c \in Clients, NotifyStarted(c)
  PROVE  Rest'
<1>1. /\ req[c] = "notifyStarted" /\ req' = [req EXCEPT ![c] = "idle"] /\ desired' = TRUE
      /\ UNCHANGED <<procVars, supVars, loopVars, wpc, cap, requests, stopped, webs>>
  BY DEF NotifyStarted, At
<1>2. \A d \in Clients : req[d] = "notifyStarted" /\ req'[d] = "idle"
  BY <1>1 DEF Quiet, OneClient, IInv, TypeOK
<1>3. ~stopped /\ state # "stopping"
  BY <1>1, <1>2 DEF IInv, Rest, Stops, Awaited, Final
<1>4. OnePid' /\ Pids' /\ Loops'
  BY <1>1 DEF IInv, Rest, OnePid, Pids, Loops, Down, procVars, supVars, loopVars
<1>5. Stops'
  BY <1>1, <1>2, <1>3 DEF Stops, supVars
<1>6. Ticks' /\ Final'
  BY <1>1, <1>3 DEF IInv, Rest, Ticks, Final, Down, procVars, supVars
<1>. QED
  BY <1>4, <1>5, <1>6 DEF Rest

LEMMA StopRequestStep ==
  ASSUME Bounded, Quiet, IInv, NEW c \in Clients, StopRequest(c)
  PROVE  Rest'
<1>1. /\ req[c] = "idle" /\ wpc = "idle" /\ wpc' = "idle" /\ ~desired'
      /\ req' = [req EXCEPT ![c] = "stop"]
      /\ UNCHANGED <<procVars, supVars, loopVars, cap, stopped, webs>>
  BY DEF StopRequest, MayRequest, Quiet, At
<1>2. \A d \in Clients : req[d] = "idle" /\ req'[d] = "stop"
  BY <1>1 DEF Quiet, OneClient, IInv, TypeOK
<1>3. state # "stopping"
  BY <1>2 DEF IInv, Rest, Stops, Awaited
<1>4. OnePid' /\ Pids' /\ Loops'
  BY <1>1 DEF IInv, Rest, OnePid, Pids, Loops, Down, procVars, supVars, loopVars
<1>5. Stops'
  BY <1>1, <1>2, <1>3 DEF Stops, supVars
<1>6. Ticks' /\ Final'
  BY <1>1, <1>2 DEF IInv, Rest, Ticks, Final, Down, supVars
<1>. QED
  BY <1>4, <1>5, <1>6 DEF Rest

\* Stop finds a loop to wait for, or an adopted child, or nothing to stop.
LEMMA StopStep ==
  ASSUME Bounded, Quiet, IInv, NEW c \in Clients, Stop(c)
  PROVE  Rest'
<1>1. /\ req[c] = "stop"
      /\ UNCHANGED <<spawned, alive, proc, pid, adopted, done, doneClosed, loopVars, wdVars>>
  BY DEF Stop
<1>2. wpc = "idle" /\ ~desired /\ \A d \in Clients : d = c
  BY <1>1 DEF IInv, Rest, Stops, Quiet, OneClient
<1>3. state # "stopping"
  BY <1>1, <1>2 DEF IInv, Rest, Stops, Awaited
<1>4. CASE NothingToStop
  <2>1. Down /\ stopped' = TRUE /\ UNCHANGED <<state, termed, cap>> /\ req' = [req EXCEPT ![c] = "idle"]
    BY <1>4 DEF Stop, NothingToStop, Down, At
  <2>2. OnePid' /\ Pids' /\ Loops'
    BY <1>1, <2>1 DEF IInv, Rest, OnePid, Pids, Loops, Down, loopVars
  <2>3. \A d \in Clients : req'[d] = "idle"
    BY <1>2, <2>1 DEF IInv, TypeOK
  <2>4. Stops' /\ Ticks' /\ Final'
    BY <1>1, <1>2, <1>3, <2>1, <2>3 DEF Stops, Ticks, Final, Down, wdVars
  <2>. QED
    BY <2>2, <2>4 DEF Rest
<1>5. CASE ~NothingToStop
  <2>1. /\ state' = "stopping" /\ stopped' = stopped /\ termed \subseteq termed'
        /\ cap' = [cap EXCEPT ![c] = [proc |-> proc, pid |-> pid, done |-> done]]
        /\ req' = [req EXCEPT ![c] = "await"]
    BY <1>5 DEF Stop, At
  <2>2. ~Down /\ ~Down' /\ ~stopped
    BY <1>5, <2>1 DEF NothingToStop, Down, IInv, Rest, Final
  <2>3. OnePid' /\ Pids'
    BY <1>1, <2>1, <2>2 DEF IInv, Rest, OnePid, Pids
  <2>4. done = Nil => adopted
    BY <2>2 DEF IInv, Rest, Loops
  <2>5. Loops'
    <3>1. \A g \in Procs :
            /\ loop[g] \in {"top", "wait"} => proc = pid
            /\ loop[g] = "wait" => waits[g] = pid
            /\ loop[g] \in {"backoff", "respawn", "fail"} => pid \notin alive
            /\ loop[g] # "finish"
            /\ loop[g] # "none" => g = done
      BY <2>2 DEF IInv, Rest, Loops
    <3>2. done # Nil => loop[done] # "none"
      BY DEF IInv, Rest, Loops
    <3>. QED
      BY <1>1, <2>1, <2>4, <3>1, <3>2 DEF Loops, loopVars
  <2>6. pid # Nil
    BY <2>2 DEF IInv, Rest, Pids
  <2>7. req'[c] = "await" /\ cap'[c].done = done /\ cap'[c].pid = pid
    BY <2>1 DEF IInv, TypeOK
  <2>8. Stops'
    BY <1>1, <1>2, <2>4, <2>6, <2>7 DEF Stops, Awaited, wdVars
  <2>9. Ticks' /\ Final'
    BY <1>1, <1>2, <2>1, <2>2 DEF Ticks, Final, wdVars
  <2>. QED
    BY <2>3, <2>5, <2>8, <2>9 DEF Rest
<1>. QED
  BY <1>4, <1>5

\* A closed channel was closed by a loop that has put everything down.
LEMMA StopDoneStep ==
  ASSUME Bounded, Quiet, IInv, NEW c \in Clients, StopDone(c)
  PROVE  Rest'
<1>1. /\ req[c] \in {"await", "kill"} /\ cap[c].done \in doneClosed /\ stopped' = TRUE
      /\ req' = [req EXCEPT ![c] = "idle"]
      /\ UNCHANGED <<procVars, supVars, loopVars, wdVars, cap, webs>>
  BY DEF StopDone, Returns, At
<1>2. cap[c].done # Nil /\ cap[c].done # done
  BY <1>1 DEF IInv, Rest, Pids, Nil
<1>3. Down
  BY <1>1, <1>2 DEF IInv, Rest, Stops
<1>4. wpc = "idle" /\ ~desired /\ \A d \in Clients : d = c
  BY <1>1 DEF IInv, Rest, Stops, Quiet, OneClient
<1>5. OnePid' /\ Pids' /\ Loops'
  BY <1>1 DEF IInv, Rest, OnePid, Pids, Loops, Down, procVars, supVars, loopVars
<1>6. \A d \in Clients : req'[d] = "idle"
  BY <1>1, <1>4 DEF IInv, TypeOK
<1>7. Stops' /\ Ticks' /\ Final'
  BY <1>1, <1>3, <1>4, <1>6 DEF Stops, Ticks, Final, Down, supVars, wdVars
<1>. QED
  BY <1>5, <1>7 DEF Rest

LEMMA StopKillsStep ==
  ASSUME Bounded, Quiet, IInv, NEW c \in Clients, StopKills(c)
  PROVE  Rest'
<1>1. /\ req[c] = "await" /\ cap[c].done # Nil /\ alive' \subseteq alive
      /\ req' = [req EXCEPT ![c] = "kill"]
      /\ UNCHANGED <<spawned, termed, supVars, loopVars, wdVars, cap, stopped, webs>>
  BY DEF StopKills, At
<1>2. \A d \in Clients : d = c
  BY DEF Quiet, OneClient
<1>3. req'[c] = "kill"
  BY <1>1 DEF IInv, TypeOK
<1>4. OnePid' /\ Pids' /\ Loops'
  BY <1>1 DEF IInv, Rest, OnePid, Pids, Loops, Down, supVars, loopVars
<1>5. Stops'
  BY <1>1, <1>2, <1>3 DEF IInv, Rest, Stops, Awaited, Down, supVars, wdVars
<1>6. Ticks' /\ Final'
  BY <1>1, <1>2, <1>3 DEF IInv, Rest, Ticks, Final, Down, supVars, wdVars
<1>. QED
  BY <1>4, <1>5, <1>6 DEF Rest

\* Without a loop to wait for there is an adopted child, and it is told to end.
LEMMA StopUnownedStep ==
  ASSUME Bounded, Quiet, IInv, NEW c \in Clients, StopUnowned(c)
  PROVE  Rest'
<1>1. req[c] = "await" /\ cap[c].done = Nil
  BY DEF StopUnowned
<1>2. done = Nil /\ adopted /\ pid # Nil /\ cap[c].pid = pid
  BY <1>1 DEF IInv, Rest, Stops
<1>3. wpc = "idle" /\ ~desired /\ \A d \in Clients : d = c
  BY <1>1 DEF IInv, Rest, Stops, Quiet, OneClient
<1>4. /\ state' = "stopped" /\ pid' = Nil /\ termed' = termed \cup {pid} /\ stopped' = TRUE
      /\ req' = [req EXCEPT ![c] = "idle"]
      /\ UNCHANGED <<spawned, alive, adopted, done, doneClosed, loopVars, wdVars, cap>>
  BY <1>2 DEF StopUnowned, ToStopped, Returns, At
<1>5. OnePid'
  BY <1>4 DEF IInv, Rest, OnePid
<1>6. Pids'
  BY <1>4 DEF IInv, Rest, TypeOK, Pids, Down, Nil, Bounded
<1>7. Loops'
  <2>1. \A g \in Procs : loop[g] = "none"
    BY <1>2 DEF IInv, Rest, Loops, Procs, Nil, Bounded
  <2>. QED
    BY <1>2, <1>4, <2>1 DEF Loops, Down, loopVars
<1>8. \A d \in Clients : req'[d] = "idle"
  BY <1>3, <1>4 DEF IInv, TypeOK
<1>9. Stops' /\ Ticks' /\ Final'
  BY <1>3, <1>4, <1>8 DEF Stops, Ticks, Final, Down, wdVars
<1>. QED
  BY <1>5, <1>6, <1>7, <1>9 DEF Rest

LEMMA HandlerStep ==
  ASSUME Bounded, Quiet, IInv, NEW c \in Clients, Handler(c)
  PROVE  Rest'
BY StartRequestStep, NotifyStartedStep, StopRequestStep, StopStep, StopDoneStep, StopKillsStep,
   StopUnownedStep DEF Handler

-----------------------------------------------------------------------------
(* The watchdog, and a restart of the web server. *)

\* A tick that only reads: what it concludes is so.
LEMMA TickReads ==
  ASSUME Bounded, IInv, UNCHANGED <<procVars, supVars, loopVars, reqVars, webs>>,
         desired' = desired,
         wpc # "idle" \/ desired,
         wpc' = "abandon" => state = "adopted" /\ pid \notin alive /\ done = Nil,
         wpc' \in {"check", "start"} => Down /\ done = Nil
  PROVE  Rest'
<1>1. OnePid' /\ Pids' /\ Loops'
  BY DEF IInv, Rest, OnePid, Pids, Loops, Down, procVars, supVars, loopVars
<1>2. /\ \A c \in Clients : req[c] \notin {"stop", "await", "kill"}
      /\ ~stopped
  BY DEF IInv, Rest, Stops, Final
<1>3. state # "stopping"
  BY <1>2 DEF IInv, Rest, Stops, Awaited
<1>4. Stops'
  BY <1>2, <1>3 DEF Stops, supVars, reqVars
<1>5. Ticks' /\ Final'
  BY <1>2 DEF Ticks, Final, Down, procVars, supVars, reqVars
<1>. QED
  BY <1>1, <1>4, <1>5 DEF Rest

\* Where the loops are quiet, nothing is down with a loop left.
LEMMA QuietDown ==
  ASSUME Bounded, IInv, \A g \in Procs : loop[g] \notin {"fail", "finish"},
         Down \/ state = "adopted"
  PROVE  done = Nil
<1>1. SUFFICES ASSUME done # Nil PROVE FALSE
  OBVIOUS
<1>2. done \in Procs
  BY <1>1 DEF IInv, TypeOK, Gens, Procs, Nil, Bounded
<1>3. loop[done] \in {"top", "wait", "backoff", "respawn"}
  BY <1>1, <1>2 DEF IInv, Rest, Loops, TypeOK
<1>. QED
  BY <1>2, <1>3 DEF IInv, Rest, Loops, Down

LEMMA AbandonStep ==
  ASSUME Bounded, IInv, AbandonAdopted
  PROVE  Rest'
<1>1. state = "adopted" /\ pid \notin alive /\ done = Nil /\ wpc = "abandon"
  BY DEF AbandonAdopted, IInv, Rest, Ticks
<1>2. /\ adopted' = FALSE /\ pid' = Nil /\ state' = "stopped" /\ wpc' = "check"
      /\ UNCHANGED <<desired, procVars, done, doneClosed, loopVars, reqVars, webs>>
  BY <1>1 DEF AbandonAdopted, WatchdogIs
<1>3. /\ \A c \in Clients : req[c] \notin {"stop", "await", "kill"}
      /\ ~stopped
  BY <1>1 DEF IInv, Rest, Stops, Final
<1>4. OnePid' /\ Pids'
  BY <1>1, <1>2 DEF IInv, Rest, TypeOK, OnePid, Pids, Down, procVars, Nil, Bounded
<1>5. Loops'
  <2>1. \A g \in Procs : loop[g] = "none"
    BY <1>1 DEF IInv, Rest, Loops, Procs, Nil, Bounded
  <2>. QED
    BY <1>1, <1>2, <2>1 DEF Loops, Down, loopVars
<1>6. Stops' /\ Ticks' /\ Final'
  BY <1>1, <1>2, <1>3 DEF Stops, Ticks, Final, Down, reqVars
<1>. QED
  BY <1>4, <1>5, <1>6 DEF Rest

LEMMA WatchdogIStep ==
  ASSUME Bounded, Quiet, IInv, WatchdogStep
  PROVE  Rest'
<1>1. CASE Tick
  BY <1>1, TickReads DEF Tick, WatchdogIs
<1>2. CASE ReadsStatus
  <2>1. /\ wpc = "status" /\ \A g \in Procs : loop[g] \notin {"fail", "finish"}
        /\ UNCHANGED <<desired, procVars, supVars, loopVars, reqVars, webs>>
        /\ wpc' = "abandon" => state = "adopted" /\ pid \notin alive
        /\ wpc' \in {"check", "start"} => Down
    BY <1>2 DEF ReadsStatus, LoopsAreQuiet, Quiet, WatchdogIs, Down
  <2>2. wpc' \in {"abandon", "check", "start"} => done = Nil
    BY <2>1, QuietDown
  <2>. QED
    BY <2>1, <2>2, TickReads
<1>3. CASE AbandonAdopted
  BY <1>3, AbandonStep
<1>4. CASE ReviveCheck
  <2>1. /\ wpc = "check" /\ wpc' \in {"idle", "start"}
        /\ UNCHANGED <<desired, procVars, supVars, loopVars, reqVars, webs>>
    BY <1>4 DEF ReviveCheck, WatchdogIs
  <2>2. Down /\ done = Nil
    BY <2>1 DEF IInv, Rest, Ticks
  <2>. QED
    BY <2>1, <2>2, TickReads
<1>5. CASE ReviveStart
  BY <1>5, ReviveStartStep
<1>6. CASE ReviveMark
  <2>1. /\ wpc = "mark" /\ wpc' = "idle"
        /\ UNCHANGED <<procVars, supVars, loopVars, reqVars, webs>>
    BY <1>6 DEF ReviveMark
  <2>2. OnePid' /\ Pids' /\ Loops'
    BY <2>1 DEF IInv, Rest, OnePid, Pids, Loops, Down, procVars, supVars, loopVars
  <2>3. /\ \A c \in Clients : req[c] \notin {"stop", "await", "kill"}
        /\ ~stopped /\ state # "stopping"
    BY <2>1 DEF IInv, Rest, Stops, Awaited, Final
  <2>4. Stops' /\ Ticks' /\ Final'
    BY <2>1, <2>3 DEF Stops, Ticks, Final, supVars, reqVars
  <2>. QED
    BY <2>2, <2>4 DEF Rest
<1>. QED
  BY <1>1, <1>2, <1>3, <1>4, <1>5, <1>6 DEF WatchdogStep

\* The restarted server adopts the one child there is, or finds none.
LEMMA WebStep ==
  ASSUME Bounded, Quiet, IInv, WebRestart
  PROVE  Rest'
<1>1. /\ alive \subseteq {statusPid} /\ ~stopped
      /\ UNCHANGED <<spawned, alive, termed, stopped>>
      /\ done' = Nil /\ doneClosed' = {} /\ wpc' = "idle"
      /\ loop' = [g \in Procs |-> "none"] /\ req' = [c \in Clients |-> "idle"]
  BY DEF WebRestart, Quiet, procVars
<1>2. \/ statusPid \in alive /\ adopted' /\ pid' = statusPid /\ state' = "adopted"
      \/ statusPid \notin alive /\ pid' = Nil /\ state' = "stopped"
  BY DEF WebRestart
<1>3. OnePid'
  BY <1>1, <1>2 DEF OnePid
<1>4. Pids'
  BY <1>1, <1>2 DEF IInv, TypeOK, Pids, Down, Nil, Bounded
<1>5. Loops'
  BY <1>1, <1>2 DEF Loops, Down
<1>6. Stops' /\ Ticks' /\ Final'
  BY <1>1, <1>2 DEF Stops, Ticks, Final
<1>. QED
  BY <1>3, <1>4, <1>5, <1>6 DEF Rest

-----------------------------------------------------------------------------
(* The promises. *)

LEMMA Invariant ==
  ASSUME Quiet
  PROVE  Spec => []IInv
<1>1. Init => IInv
  <2>1. SUFFICES ASSUME Init PROVE IInv
    OBVIOUS
  <2>2. TypeOK
    BY <2>1, BoundsHold, InitTypes
  <2>3. OnePid /\ Pids /\ Ticks /\ Final
    BY <2>1, BoundsHold DEF Init, OnePid, Pids, Ticks, Final, Down, Nil, Bounded
  <2>4. Loops /\ Stops
    BY <2>1 DEF Init, Loops, Stops, Down
  <2>. QED
    BY <2>2, <2>3, <2>4 DEF IInv, Rest
<1>2. IInv /\ [Next]_vars => IInv'
  <2>1. SUFFICES ASSUME IInv, [Next]_vars PROVE IInv'
    OBVIOUS
  <2>2. TypeOK'
    BY <2>1, BoundsHold, TypeStep DEF IInv
  <2>3. Rest'
    <3>1. CASE UNCHANGED vars
      <4>1. UNCHANGED <<procVars, supVars, loopVars, wdVars, reqVars>>
        BY <3>1 DEF vars
      <4>2. OnePid' /\ Pids' /\ Loops'
        BY <2>1, <4>1 DEF IInv, Rest, OnePid, Pids, Loops, Down, procVars, supVars, loopVars
      <4>3. Stops'
        BY <2>1, <4>1 DEF IInv, Rest, Stops, Awaited, Down, supVars, wdVars, reqVars
      <4>4. Ticks' /\ Final'
        BY <2>1, <4>1 DEF IInv, Rest, Ticks, Final, Down, procVars, supVars, wdVars, reqVars
      <4>. QED
        BY <4>2, <4>3, <4>4 DEF Rest
    <3>. QED
      BY <2>1, <3>1, BoundsHold, ChildStep, LoopStep, HandlerStep, WatchdogIStep, WebStep DEF Next
  <2>. QED
    BY <2>2, <2>3 DEF IInv
<1>. QED
  BY <1>1, <1>2, PTL DEF Spec

\* With one operator and no request, tick or web restart inside the moments the
\* Quiet constants name, two children are never wanted at once, whatever
\* crashes, back-offs, failed spawns, revivals and adoptions come between.
THEOREM OneChildWanted ==
  ASSUME Quiet
  PROVE  Spec => []OneWanted
<1>1. IInv => OneWanted
  <2>1. SUFFICES ASSUME IInv PROVE OneWanted
    OBVIOUS
  <2>2. alive \ termed \subseteq {pid}
    BY <2>1 DEF IInv, Rest, OnePid
  <2>3. IsFiniteSet({pid}) /\ Cardinality({pid}) = 1
    BY FS_Singleton
  <2>4. Cardinality(alive \ termed) <= 1
    BY <2>2, <2>3, FS_Subset
  <2>. QED
    BY <2>4 DEF OneWanted
<1>. QED
  BY <1>1, Invariant, PTL

\* Under the same conditions a stop that has returned is final: until the next
\* start request no child runs that was not told to end.
THEOREM StopIsFinal ==
  ASSUME Quiet
  PROVE  Spec => []StopWins
<1>1. IInv => StopWins
  <2>1. SUFFICES ASSUME IInv, stopped PROVE alive \subseteq termed
    BY DEF StopWins
  <2>2. pid = Nil /\ alive \ termed \subseteq {pid} /\ alive \subseteq 1..spawned
    BY <2>1 DEF IInv, Rest, OnePid, Pids, Final, TypeOK
  <2>3. Nil \notin 1..spawned
    BY DEF Nil
  <2>. QED
    BY <2>2, <2>3
<1>. QED
  BY <1>1, Invariant, PTL
=============================================================================
