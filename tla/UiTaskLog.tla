------------------------------ MODULE UiTaskLog ------------------------------
(***************************************************************************)
(* The log drawer of the task page (views/TaskDetailView.vue): loadLogs    *)
(* takes a snapshot of the task's log buffer over HTTP and then opens a    *)
(* websocket, which the server (handleLogStream, module internal/webapi)   *)
(* feeds with the whole buffer again and with what is appended after.      *)
(* Left out: the list as a sequence (an entry that comes twice is shown    *)
(* twice), the 1000 entries a buffer keeps, and the entry the server drops *)
(* when a stream is so slow that its channel is full.                      *)
(***************************************************************************)
EXTENDS Naturals

CONSTANTS
  MaxBufs,   \* bound: log buffers of the task, one for each start
  MaxLogs,   \* bound: entries of one buffer
  MaxOpens   \* bound: times the user opens the drawer on an empty list

VARIABLES
  cur,       \* the buffer GetBuffer answers with now
  buf,       \* the entries appended to each buffer
  logs,      \* logs.value, as the set of entries shown
  loads,     \* the snapshots of getTaskLogs in flight: buffer and length
  sock,      \* logWs: its state, the buffer it subscribed to, the entries received
  mounted,   \* FALSE after onUnmounted
  opens      \* openLogs calls so far that loaded again

vars == <<cur, buf, logs, loads, sock, mounted, opens>>

Bufs  == 1..MaxBufs
Entries(b, n) == {<<b, i>> : i \in 1..n}
Socket(state, b) == [state |-> state, buf |-> b, at |-> 0]
Failed == [buf |-> 1, n |-> MaxLogs + 1]     \* the request failed
Now    == [buf |-> cur, n |-> buf[cur]]

TypeOK ==
  /\ cur \in Bufs /\ buf \in [Bufs -> 0..MaxLogs]
  /\ logs \subseteq Bufs \X (1..MaxLogs)
  /\ loads \subseteq [buf : Bufs, n : 0..MaxLogs + 1]
  /\ sock \in [state : {"closed", "connecting", "open"}, buf : Bufs, at : 0..MaxLogs]
  /\ mounted \in BOOLEAN /\ opens \in 0..MaxOpens

\* onMounted calls loadLogs.
Init ==
  /\ cur = 1 /\ buf \in [Bufs -> 0..MaxLogs] /\ \A b \in Bufs : b > 1 => buf[b] = 0
  /\ logs = {} /\ loads \in {{Now}, {Failed}}
  /\ sock = Socket("closed", 1)
  /\ mounted = TRUE /\ opens = 0

-----------------------------------------------------------------------------
(* The server. *)

Logged ==
  /\ buf[cur] < MaxLogs /\ buf' = [buf EXCEPT ![cur] = @ + 1]
  /\ UNCHANGED <<cur, logs, loads, sock, mounted, opens>>

\* A start removes the buffer; the next entry is appended to a new one, and the
\* streams there are stay subscribed to the old.
Restarted ==
  /\ cur < MaxBufs /\ cur' = cur + 1
  /\ UNCHANGED <<buf, logs, loads, sock, mounted, opens>>

\* handleLogStream subscribes to the buffer of the moment and replays it.
StreamOpens ==
  /\ sock.state = "connecting"
  /\ sock' = Socket("open", cur)
  /\ UNCHANGED <<cur, buf, logs, loads, mounted, opens>>

-----------------------------------------------------------------------------
(* The page. *)

\* openLogs loads again as long as the list is empty, whatever is in flight.
OpenLogs ==
  /\ mounted /\ logs = {} /\ opens < MaxOpens /\ opens' = opens + 1
  /\ \E l \in {Now, Failed} : loads' = loads \cup {l}
  /\ UNCHANGED <<cur, buf, logs, sock, mounted>>

Replaced(l) == IF l = Failed THEN logs ELSE Entries(l.buf, l.n)

\* Mutant: a stream that is already open is kept.
GotLogsKeepsStream(l) ==
  /\ l \in loads /\ loads' = loads \ {l}
  /\ logs' = Replaced(l)
  /\ sock' = IF sock.state = "open" THEN sock ELSE Socket("connecting", 1)
  /\ UNCHANGED <<cur, buf, mounted, opens>>

\* The continuation of loadLogs: the snapshot replaces the list, and
\* connectLogWS closes the stream and opens another, mounted or not.
GotLogs(l) ==
  /\ l \in loads /\ loads' = loads \ {l}
  /\ logs' = Replaced(l)
  /\ sock' = Socket("connecting", 1)
  /\ UNCHANGED <<cur, buf, mounted, opens>>

\* logWs.onmessage appends the entry.
Delivered ==
  /\ sock.state = "open" /\ sock.at < buf[sock.buf]
  /\ sock' = [sock EXCEPT !.at = @ + 1]
  /\ logs' = logs \cup {<<sock.buf, sock.at + 1>>}
  /\ UNCHANGED <<cur, buf, loads, mounted, opens>>

\* onUnmounted closes the socket there is.
Unmount ==
  /\ mounted /\ mounted' = FALSE
  /\ sock' = Socket("closed", 1)
  /\ UNCHANGED <<cur, buf, logs, loads, opens>>

Next ==
  \/ Logged \/ Restarted
  \/ StreamOpens \/ Delivered
  \/ OpenLogs
  \/ \E l \in loads : GotLogs(l)
  \/ Unmount

\* Requests are answered and the socket delivers.
FairLoads == \E l \in loads : GotLogs(l)

Fairness == WF_vars(FairLoads) /\ WF_vars(StreamOpens) /\ WF_vars(Delivered)

Spec == Init /\ [][Next]_vars /\ Fairness

-----------------------------------------------------------------------------

\* What the stream has delivered is on screen, whatever snapshot has replaced
\* the list since: no entry is lost between getTaskLogs and the log socket.
LogsComplete == sock.state = "open" => Entries(sock.buf, sock.at) \subseteq logs

\* As long as the task is not started again, an open page shows every entry in
\* the end, also those logged while its requests were on their way.
InStep == mounted /\ cur = 1 => Entries(1, buf[1]) \subseteq logs
LogsArrive == <>[]InStep

-----------------------------------------------------------------------------
(* Not kept: TLC has a counterexample to this (README.md). *)

\* The live log stream of README.md: an open page shows the entries of the run
\* that is on, also after the task was started again.
LogsLive == []mounted => <>[](Entries(cur, buf[cur]) \subseteq logs)
=============================================================================
