------------------------- MODULE CdcApplier_proofs -------------------------
(***************************************************************************)
(* For every stream, every routing, any number of workers and any sizes of *)
(* batches and channels: a statement waits for the earlier ones of its     *)
(* table, a structural failure stops its table, the counters add up and a  *)
(* clean return leaves nothing unsettled.                                  *)
(***************************************************************************)
EXTENDS CdcApplier, FiniteSetTheorems, FunctionTheorems, SequenceTheorems, TLAPS

-----------------------------------------------------------------------------
(* Queues of events in the order of their tables. *)

\* What stands before the i-th event of s.
Upto(s, i) == {s[j] : j \in 1..i - 1}

\* Of the table of n, B holds nothing but what comes before n, and, as long as
\* the applier lives, all of it.
Follows(n, B, live) ==
  \A m \in Events :
    TableOf[m] = TableOf[n] => /\ m \in B => m < n
                               /\ live /\ m < n => m \in B

\* The events of s follow those of B in the order of the stream.
Ordered(s, B, live) == \A i \in 1..Len(s) : Follows(s[i], B \cup Upto(s, i), live)

LEMMA EventsAreNumbers ==
  /\ \A m \in Events : m \in Nat /\ m # NoEvent /\ TableOf[m] \in Tables
  /\ IsFiniteSet(Events)
<1>1. Events \in SUBSET (1..N) /\ N \in Nat
  BY WalAssumption DEF Events, Msgs
<1>2. IsFiniteSet(1..N)
  BY <1>1, FS_Interval
<1>3. \A m \in Events : TableOf[m] \in Tables
  BY <1>1, WalAssumption DEF Msgs
<1>4. IsFiniteSet(Events)
  BY <1>1, <1>2, FS_Subset
<1> QED
  BY <1>1, <1>3, <1>4 DEF NoEvent

LEMMA RangeOfAppend ==
  ASSUME NEW s \in Seq(Events), NEW e \in Events
  PROVE  Append(s, e) \in Seq(Events) /\ Range(Append(s, e)) = Range(s) \cup {e}
<1>1. /\ Append(s, e) \in Seq(Events) /\ Len(Append(s, e)) = Len(s) + 1
      /\ \A i \in 1..Len(s) : Append(s, e)[i] = s[i]
      /\ Append(s, e)[Len(s) + 1] = e
  BY AppendProperties
<1>2. DOMAIN s = 1..Len(s) /\ DOMAIN Append(s, e) = 1..Len(s) + 1 /\ Len(s) \in Nat
  BY <1>1, LenProperties
<1> QED
  BY <1>1, <1>2 DEF Range

LEMMA RangeOfTail ==
  ASSUME NEW s \in Seq(Events), s # <<>>
  PROVE  /\ Head(s) \in Events /\ Tail(s) \in Seq(Events) /\ Head(s) = s[1]
         /\ Range(s) = {Head(s)} \cup Range(Tail(s))
         /\ Len(s) \in Nat \ {0} /\ Len(Tail(s)) = Len(s) - 1
         /\ \A i \in 1..Len(Tail(s)) : Tail(s)[i] = s[i + 1]
<1>1. /\ Head(s) \in Events /\ Tail(s) \in Seq(Events) /\ Head(s) = s[1]
      /\ Len(s) \in Nat \ {0} /\ Len(Tail(s)) = Len(s) - 1
      /\ \A i \in 1..Len(Tail(s)) : Tail(s)[i] = s[i + 1]
  BY HeadTailProperties, EmptySeq
<1>2. DOMAIN s = 1..Len(s) /\ DOMAIN Tail(s) = 1..Len(s) - 1
  BY <1>1, LenProperties
<1>3. ASSUME NEW m \in Range(s)
      PROVE  m \in {Head(s)} \cup Range(Tail(s))
  <2>1. PICK i \in 1..Len(s) : s[i] = m
    BY <1>2 DEF Range
  <2>2. CASE i > 1
    <3>1. i - 1 \in 1..Len(s) - 1 /\ Tail(s)[i - 1] = m
      BY <1>1, <2>1, <2>2
    <3> QED
      BY <1>2, <3>1 DEF Range
  <2> QED
    BY <1>1, <2>1, <2>2
<1>4. Range(Tail(s)) \subseteq Range(s)
  BY <1>1, <1>2 DEF Range
<1>5. Head(s) \in Range(s)
  BY <1>1, <1>2 DEF Range
<1> QED
  BY <1>1, <1>3, <1>4, <1>5

LEMMA RangeOfNothing == Range(<<>>) = {} /\ <<>> \in Seq(Events) /\ Len(<<>>) = 0
  BY DEF Range

LEMMA RangeOfEvents ==
  ASSUME NEW s \in Seq(Events)
  PROVE  /\ Range(s) \subseteq Events /\ Len(s) \in Nat
         /\ \A i \in 1..Len(s) : s[i] \in Range(s) /\ s[i] \in Events
<1>1. DOMAIN s = 1..Len(s) /\ \A i \in 1..Len(s) : s[i] \in Events
  BY LenProperties, ElementOfSeq
<1> QED
  BY <1>1, LenProperties DEF Range

\* The first event of a queue follows what is before the queue, the others
\* follow that and the first.
LEMMA FirstFollows ==
  ASSUME NEW s \in Seq(Events), s # <<>>, NEW B, NEW live, Ordered(s, B, live)
  PROVE  /\ Follows(Head(s), B, live)
         /\ Ordered(Tail(s), B \cup {Head(s)}, live)
<1>1. Upto(s, 1) = {}
  BY DEF Upto
<1>2. Follows(s[1], B \cup {}, live)
  <2>1. 1 \in 1..Len(s)
    BY RangeOfTail
  <2> QED
    BY <1>1, <2>1 DEF Ordered
<1>3. Follows(Head(s), B, live)
  BY <1>2, RangeOfTail DEF Follows
<1>4. ASSUME NEW i \in 1..Len(Tail(s))
      PROVE  Follows(Tail(s)[i], (B \cup {Head(s)}) \cup Upto(Tail(s), i), live)
  <2>1. i + 1 \in 1..Len(s) /\ Tail(s)[i] = s[i + 1] /\ i \in Nat
    BY RangeOfTail
  <2>2. Follows(s[i + 1], B \cup Upto(s, i + 1), live)
    BY <2>1 DEF Ordered
  <2>3. \A j \in 1..i - 1 : Tail(s)[j] = s[j + 1]
    BY <2>1, RangeOfTail
  <2>4. ASSUME NEW j \in 1..i
        PROVE  s[j] \in {Head(s)} \cup Upto(Tail(s), i)
    <3>1. CASE j > 1
      <4>1. j - 1 \in 1..i - 1 /\ Tail(s)[j - 1] = s[j]
        BY <2>3, <3>1
      <4> QED
        BY <4>1 DEF Upto
    <3> QED
      BY <3>1, RangeOfTail
  <2>5. Upto(Tail(s), i) \subseteq Upto(s, i + 1)
    BY <2>1, <2>3 DEF Upto
  <2>6. Head(s) \in Upto(s, i + 1)
    BY <2>1, RangeOfTail DEF Upto
  <2>7. Upto(s, i + 1) \subseteq {Head(s)} \cup Upto(Tail(s), i)
    BY <2>1, <2>4 DEF Upto
  <2>8. B \cup Upto(s, i + 1) = (B \cup {Head(s)}) \cup Upto(Tail(s), i)
    BY <2>5, <2>6, <2>7
  <2> QED
    BY <2>1, <2>2, <2>8
<1> QED
  BY <1>3, <1>4 DEF Ordered

\* An event that follows a queue may join it.
LEMMA LastFollows ==
  ASSUME NEW s \in Seq(Events), NEW e \in Events, NEW B, NEW live,
         Ordered(s, B, live), Follows(e, B \cup Range(s), live)
  PROVE  Ordered(Append(s, e), B, live)
<1>1. /\ Len(Append(s, e)) = Len(s) + 1 /\ Append(s, e)[Len(s) + 1] = e
      /\ \A i \in 1..Len(s) : Append(s, e)[i] = s[i]
      /\ Len(s) \in Nat /\ DOMAIN s = 1..Len(s)
  BY AppendProperties, LenProperties
<1> SUFFICES ASSUME NEW i \in 1..Len(s) + 1
             PROVE  Follows(Append(s, e)[i], B \cup Upto(Append(s, e), i), live)
  BY <1>1 DEF Ordered
<1>2. Upto(Append(s, e), i) = Upto(s, i)
  BY <1>1 DEF Upto
<1>3. CASE i <= Len(s)
  BY <1>1, <1>2, <1>3 DEF Ordered
<1>4. CASE i = Len(s) + 1
  <2>1. Upto(s, i) = Range(s)
    BY <1>1, <1>4 DEF Upto, Range
  <2> QED
    BY <1>1, <1>2, <1>4, <2>1
<1> QED
  BY <1>1, <1>3, <1>4

\* Order is a matter of each table alone.
LEMMA SameFollows ==
  ASSUME NEW n, NEW B, NEW C, NEW live, NEW after, Follows(n, B, live),
         \A m \in Events : TableOf[m] = TableOf[n] =>
           (m \in C => m \in B) /\ (after => live) /\ (after /\ m \in B => m \in C)
  PROVE  Follows(n, C, after)
  BY DEF Follows

LEMMA SameOrdered ==
  ASSUME NEW s \in Seq(Events), NEW B, NEW C, NEW live, NEW after, Ordered(s, B, live),
         \A n \in Range(s) : \A m \in Events : TableOf[m] = TableOf[n] =>
           (m \in C => m \in B) /\ (after => live) /\ (after /\ m \in B => m \in C)
  PROVE  Ordered(s, C, after)
<1> SUFFICES ASSUME NEW i \in 1..Len(s)
             PROVE  Follows(s[i], C \cup Upto(s, i), after)
  BY DEF Ordered
<1>1. Follows(s[i], B \cup Upto(s, i), live) /\ s[i] \in Range(s)
  BY RangeOfEvents DEF Ordered
<1> QED
  BY <1>1 DEF Follows

\* Nothing that follows B is in it.
LEMMA FollowsIsNew ==
  ASSUME NEW n \in Events, NEW B, NEW live, Follows(n, B, live)
  PROVE  n \notin B
  BY EventsAreNumbers DEF Follows

LEMMA OrderedIsNew ==
  ASSUME NEW s \in Seq(Events), NEW B, NEW live, Ordered(s, B, live)
  PROVE  Range(s) \cap B = {}
<1> SUFFICES ASSUME NEW n \in Range(s) PROVE n \notin B
  OBVIOUS
<1>1. PICK i \in 1..Len(s) : s[i] = n
  BY LenProperties DEF Range
<1>2. n \in Events /\ Follows(n, B \cup Upto(s, i), live)
  BY <1>1, RangeOfEvents DEF Ordered
<1> QED
  BY <1>2, FollowsIsNew

-----------------------------------------------------------------------------
(* Ranges, and how full a buffer may get. *)

\* Only a flush has events of a buffer in its hands.  Between two flushes no
\* buffer is full; in one, a full buffer is the one it was started for.
Bounds ==
  /\ out # <<>> => mode \in {"flush", "drain"}
  /\ mode \in {"select", "flush"} =>
       \A t \in Tables :
         Len(buf[t]) < BatchSize \/ (mode = "flush" /\ out = <<>> /\ todo = {t})

LEMMA DispatchTypes == TypeOK /\ Bounds /\ Dispatch => TypeOK' /\ Bounds'
<1> SUFFICES ASSUME TypeOK, Bounds, Dispatch PROVE TypeOK' /\ Bounds'
  OBVIOUS
<1> DEFINE t == TableOf[Head(chan)]
<1>1. /\ Head(chan) \in Events /\ Tail(chan) \in Seq(Events) /\ t \in Tables
      /\ Len(Tail(chan)) <= ChanCap /\ out = <<>>
  BY SMTT(30), RangeOfTail, EventsAreNumbers, ApplierAssumption DEF TypeOK, Dispatch, Bounds
<1>2. /\ Append(buf[t], Head(chan)) \in Seq(Events)
      /\ Len(Append(buf[t], Head(chan))) = Len(buf[t]) + 1
  BY <1>1, AppendProperties DEF TypeOK
<1>3. \A u \in Tables : Len(buf[u]) < BatchSize /\ Len(buf[u]) \in Nat
  BY RangeOfEvents DEF TypeOK, Bounds, Dispatch
<1>4. buf' = [buf EXCEPT ![t] = Append(@, Head(chan))] /\ buf \in [Tables -> Seq(Events)]
  BY DEF Dispatch, TypeOK
<1>5. /\ buf' \in [Tables -> Seq(Events)]
      /\ \A u \in Tables : u # t => buf'[u] = buf[u]
      /\ buf'[t] = Append(buf[t], Head(chan))
  BY <1>1, <1>2, <1>4
<1>6. \A u \in Tables : Len(buf'[u]) <= BatchSize /\ (Len(buf'[u]) >= BatchSize => u = t)
  BY <1>1, <1>2, <1>3, <1>5, ApplierAssumption
<1>7. FlushOf({u \in Tables : Len(buf'[u]) >= BatchSize})
  BY DEF Dispatch
<1>8. /\ todo' \subseteq {t} /\ todo' \subseteq Tables
      /\ mode' \in {"select", "flush"} /\ (mode' = "select" => todo' = {})
      /\ \A u \in Tables : Len(buf'[u]) >= BatchSize <=> u \in todo'
      /\ mode' = "flush" => todo' # {}
  BY <1>6, <1>7 DEF FlushOf
<1>9. cnt' \in [{"received", "applied", "failed", "skipped"} -> Nat]
  BY DEF Dispatch, Count, TypeOK
<1>10. Bounds'
  <2>1. \A u \in Tables : Len(buf'[u]) < BatchSize \/ todo' = {u}
    BY <1>5, <1>6, <1>8, RangeOfEvents, ApplierAssumption
  <2>2. out' = <<>>
    BY SMTT(30), <1>1 DEF Dispatch
  <2> QED
    BY <1>8, <2>1, <2>2 DEF Bounds
<1>11. TypeOK'
  BY <1>1, <1>5, <1>6, <1>8, <1>9 DEF TypeOK, Dispatch, workVars, ddlVars
<1> QED
  BY <1>10, <1>11

LEMMA FlushTypes ==
  TypeOK /\ Bounds /\ (FlushTake \/ FlushSend \/ FlushDrop) => TypeOK' /\ Bounds'
<1> SUFFICES ASSUME TypeOK, Bounds, FlushTake \/ FlushSend \/ FlushDrop
             PROVE  TypeOK' /\ Bounds'
  OBVIOUS
<1>1. CASE FlushTake
  <2>1. PICK t \in todo : /\ out' = buf[t] /\ buf' = [buf EXCEPT ![t] = <<>>]
                          /\ todo' = todo \ {t}
    BY <1>1 DEF FlushTake
  <2>2. /\ t \in Tables /\ buf' \in [Tables -> Seq(Events)] /\ buf'[t] = <<>>
        /\ \A u \in Tables : u # t => buf'[u] = buf[u]
    BY <2>1, RangeOfNothing DEF TypeOK
  <2>3. out' \in Seq(Events) /\ Len(out') <= BatchSize /\ todo' \subseteq Tables
    BY <2>1, <2>2 DEF TypeOK
  <2>4. \A u \in Tables : Len(buf'[u]) <= BatchSize
    <3>1. Len(buf'[t]) <= BatchSize
      BY <2>2, RangeOfNothing, ApplierAssumption
    <3> QED
      BY <2>2, <3>1 DEF TypeOK
  <2>5. TypeOK'
    BY <1>1, <2>2, <2>3, <2>4 DEF TypeOK, FlushTake, inVars, workVars, ddlVars
  <2>6. mode' = "flush" => \A u \in Tables : Len(buf'[u]) < BatchSize
    <3> SUFFICES ASSUME mode' = "flush", NEW u \in Tables PROVE Len(buf'[u]) < BatchSize
      OBVIOUS
    <3>1. CASE u = t
      BY <2>2, <3>1, RangeOfNothing, ApplierAssumption
    <3>2. CASE u # t
      BY <1>1, <2>1, <2>2, <3>2 DEF Bounds, FlushTake
    <3> QED
      BY <3>1, <3>2
  <2> QED
    BY <1>1, <2>5, <2>6 DEF Bounds, FlushTake
<1>2. CASE FlushSend
  <2> DEFINE w == Route[TableOf[Head(out)]]
  <2>1. /\ Head(out) \in Events /\ Tail(out) \in Seq(Events) /\ w \in Workers
        /\ Len(Tail(out)) <= BatchSize /\ out # <<>>
    BY SMTT(30), <1>2, RangeOfTail, EventsAreNumbers, ApplierAssumption DEF TypeOK, FlushSend
  <2>2. /\ wch' = [wch EXCEPT ![w] = Append(@, Head(out))] /\ Len(wch[w]) < BatchSize
        /\ wch \in [Workers -> Seq(Events)]
    BY <1>2 DEF FlushSend, TypeOK
  <2>3. /\ Append(wch[w], Head(out)) \in Seq(Events)
        /\ Len(Append(wch[w], Head(out))) = Len(wch[w]) + 1
        /\ Len(wch[w]) \in Nat
    BY <2>1, <2>2, AppendProperties, RangeOfEvents
  <2>4. /\ wch' \in [Workers -> Seq(Events)]
        /\ \A v \in Workers : v # w => wch'[v] = wch[v]
        /\ wch'[w] = Append(wch[w], Head(out))
    BY SMTT(30), <2>1, <2>2, <2>3
  <2>5. \A v \in Workers : Len(wch'[v]) <= BatchSize
    BY SMTT(30), <2>2, <2>3, <2>4, ApplierAssumption DEF TypeOK
  <2>6. TypeOK'
    BY SMTT(30), <1>2, <2>1, <2>4, <2>5 DEF TypeOK, FlushSend, inVars, workVars, ddlVars
  <2> QED
    BY <1>2, <2>1, <2>6 DEF Bounds, FlushSend
<1>3. CASE FlushDrop
  <2>1. out' \in Seq(Events) /\ Len(out') <= BatchSize /\ todo' \subseteq Tables
    BY <1>3, RangeOfNothing, ApplierAssumption DEF FlushDrop
  <2>2. TypeOK'
    BY <1>3, <2>1 DEF TypeOK, FlushDrop, inVars, workVars, ddlVars
  <2> QED
    BY <1>3, <2>1, <2>2 DEF Bounds, FlushDrop
<1> QED
  BY <1>1, <1>2, <1>3

LEMMA WorkerTypes ==
  ASSUME TypeOK, Bounds, NEW w \in Workers, Worker(w)
  PROVE  TypeOK' /\ Bounds'
<1>0. /\ hand \in [Workers -> Events \cup {NoEvent}]
      /\ phase \in [Workers -> {"idle", "got", "sql", "absent", "exited"}]
      /\ \A v \in Workers : hand[v] # NoEvent <=> phase[v] \in {"got", "sql", "absent"}
      /\ cnt \in [{"received", "applied", "failed", "skipped"} -> Nat]
      /\ fate \in [Events -> {"none", "applied", "failed", "skipped", "fatal"}]
      /\ NoEvent \notin Events
  BY EventsAreNumbers DEF TypeOK
<1>1. Bounds'
  BY DEF Bounds, Worker, Take, ExitWorker, Skip, Structural, Exec, Applied, Failed,
    TableAbsent, MarkMissing, dispVars
<1>2. CASE Take(w)
  <2>1. /\ Head(wch[w]) \in Events /\ Tail(wch[w]) \in Seq(Events)
        /\ Len(Tail(wch[w])) <= BatchSize
    BY <1>2, RangeOfTail, ApplierAssumption DEF TypeOK, Take
  <2>2. /\ wch' \in [Workers -> Seq(Events)]
        /\ \A v \in Workers : Len(wch'[v]) <= BatchSize
    BY <1>2, <2>1 DEF TypeOK, Take
  <2>3. /\ hand' \in [Workers -> Events \cup {NoEvent}]
        /\ phase' \in [Workers -> {"idle", "got", "sql", "absent", "exited"}]
        /\ \A v \in Workers : hand'[v] # NoEvent <=> phase'[v] \in {"got", "sql", "absent"}
    BY <1>0, <1>2, <2>1 DEF Take
  <2> QED
    BY <1>1, <1>2, <2>2, <2>3 DEF TypeOK, Take, inVars, dispVars, ddlVars
<1>3. CASE \E p \in {"sql", "absent", "exited"} :
             /\ Step(w, p) /\ (p = "exited" <=> phase[w] = "idle") /\ phase[w] # "exited"
             /\ UNCHANGED <<inVars, dispVars, wch, halt, fatal, ddlVars, cnt>>
  <2>1. PICK p \in {"sql", "absent", "exited"} :
          Step(w, p) /\ (p = "exited" <=> phase[w] = "idle") /\ phase[w] # "exited"
    BY <1>3
  <2>2. /\ phase' = [phase EXCEPT ![w] = p] /\ hand' = hand /\ fate' = fate
        /\ p = "exited" <=> phase[w] = "idle"
    BY <2>1 DEF Step
  <2>3. /\ phase' \in [Workers -> {"idle", "got", "sql", "absent", "exited"}]
        /\ \A v \in Workers : hand'[v] # NoEvent <=> phase'[v] \in {"got", "sql", "absent"}
    BY <1>0, <2>1, <2>2
  <2> QED
    BY <1>1, <1>3, <2>2, <2>3 DEF TypeOK, inVars, dispVars, ddlVars
<1>4. CASE \E f \in {"applied", "failed", "skipped"} :
             /\ Settle(w, f) /\ Count(f) /\ hand[w] # NoEvent
             /\ UNCHANGED <<inVars, dispVars, wch, halt, fatal, target, reset>>
             /\ missing' \in {missing, missing \cup {Table(w)}}
  <2>1. PICK f \in {"applied", "failed", "skipped"} :
          Settle(w, f) /\ Count(f) /\ hand[w] # NoEvent
    BY <1>4
  <2>2. hand[w] \in Events /\ Table(w) \in Tables
    BY <1>0, <2>1, EventsAreNumbers DEF Table
  <2>3. /\ hand' \in [Workers -> Events \cup {NoEvent}]
        /\ phase' \in [Workers -> {"idle", "got", "sql", "absent", "exited"}]
        /\ \A v \in Workers : hand'[v] # NoEvent <=> phase'[v] \in {"got", "sql", "absent"}
    BY <1>0, <2>1 DEF Settle
  <2>4. fate' \in [Events -> {"none", "applied", "failed", "skipped", "fatal"}]
    BY <1>0, <2>1, <2>2 DEF Settle
  <2>5. cnt' \in [{"received", "applied", "failed", "skipped"} -> Nat]
    BY <1>0, <2>1 DEF Count
  <2>6. missing' \subseteq Tables
    BY <1>4, <2>2 DEF TypeOK
  <2> QED
    BY <1>1, <1>4, <2>3, <2>4, <2>5, <2>6 DEF TypeOK, inVars, dispVars
<1>5. CASE Structural(w)
  <2>1. hand[w] \in Events
    BY <1>0, <1>5 DEF Structural, Transforms
  <2>2. /\ hand' \in [Workers -> Events \cup {NoEvent}]
        /\ phase' \in [Workers -> {"idle", "got", "sql", "absent", "exited"}]
        /\ \A v \in Workers : hand'[v] # NoEvent <=> phase'[v] \in {"got", "sql", "absent"}
        /\ fate' \in [Events -> {"none", "applied", "failed", "skipped", "fatal"}]
    BY <1>0, <1>5, <2>1 DEF Structural
  <2> QED
    BY <1>1, <1>5, <2>2 DEF TypeOK, Structural, inVars, dispVars, ddlVars
<1>6. CASE ExitWorker(w) \/ Exec(w) \/ TableAbsent(w)
  BY <1>3, <1>6 DEF ExitWorker, Exec, TableAbsent, Transforms
<1>7. CASE Skip(w) \/ Applied(w) \/ Failed(w) \/ MarkMissing(w)
  <2>1. hand[w] # NoEvent
    BY <1>0, <1>7 DEF Skip, Applied, Failed, MarkMissing, Transforms
  <2> QED
    BY <1>4, <1>7, <2>1 DEF Skip, Applied, Failed, MarkMissing, ddlVars
<1> QED
  BY <1>2, <1>5, <1>6, <1>7 DEF Worker

\* The applier's own steps keep the ranges and the bounds of the buffers.
LEMMA StepTypes == TypeOK /\ Bounds /\ AppStep => TypeOK' /\ Bounds'
<1> SUFFICES ASSUME TypeOK, Bounds, AppStep PROVE TypeOK' /\ Bounds'
  OBVIOUS
<1>1. CASE Drain
  <2>1. todo' \subseteq Tables /\ mode' = "drain" /\ ret' \in {"closed", "ctx"}
    BY <1>1 DEF Drain
  <2> QED
    BY <1>1, <2>1 DEF Drain, TypeOK, Bounds, inVars, workVars, ddlVars
<1>2. CASE FlushTick
  <2>1. /\ todo' \subseteq Tables /\ mode' \in {"select", "flush"}
        /\ \A t \in Tables : Len(buf[t]) < BatchSize
    BY <1>2 DEF FlushTick, FlushOf, Bounds
  <2> QED
    BY <1>2, <2>1 DEF FlushTick, TypeOK, Bounds, inVars, workVars, ddlVars
<1>3. CASE FlushEnd
  <2>1. mode = "flush" => \A t \in Tables : Len(buf[t]) < BatchSize
    BY <1>3 DEF FlushEnd, Bounds
  <2> QED
    BY <1>3, <2>1 DEF FlushEnd, TypeOK, Bounds, inVars, workVars, ddlVars
<1>4. CASE Return
  BY <1>4 DEF Return, TypeOK, Bounds, inVars, workVars, ddlVars
<1>5. CASE Poller \/ ExpireMissing
  <2>1. target' \subseteq Tables /\ missing' \subseteq Tables /\ reset' \in BOOLEAN
    BY <1>5 DEF Poller, CreateTable, ResetMissingTables, ExpireMissing, TypeOK
  <2>2. UNCHANGED <<inVars, dispVars, wch, workVars, cnt>>
    BY <1>5 DEF Poller, CreateTable, ResetMissingTables, ExpireMissing
  <2> QED
    BY <2>1, <2>2 DEF TypeOK, Bounds, inVars, dispVars, workVars
<1> QED
  BY <1>1, <1>2, <1>3, <1>4, <1>5, DispatchTypes, FlushTypes, WorkerTypes
  DEF AppStep, Dispatcher

LEMMA FeedTypes ==
  ASSUME TypeOK, Bounds, NEW m \in Events, Feed(m),
         UNCHANGED <<ctx, dispVars, workVars, ddlVars, wch, cnt>>
  PROVE  TypeOK' /\ Bounds'
<1>1. chan' \in Seq(Events) /\ Len(chan') = Len(chan) + 1 /\ Len(chan) \in Nat
  BY AppendProperties, RangeOfEvents DEF Feed, TypeOK
<1>2. Len(chan') <= ChanCap
  BY <1>1, ApplierAssumption DEF Feed
<1> QED
  BY <1>1, <1>2 DEF Feed, TypeOK, Bounds, dispVars, workVars, ddlVars

-----------------------------------------------------------------------------
(* Where the events are, from the target back to the channel. *)

Live == ~Cancelled

Settled  == {m \in Events : fate[m] # "none"}
Held     == {hand[w] : w \in Workers} \ {NoEvent}
Queued   == UNION {Range(wch[w]) : w \in Workers}
Buffered == UNION {Range(buf[t]) : t \in Tables}

AtWorkers == Settled \cup Held \cup Queued
Sent      == AtWorkers \cup Range(out)
Received  == Sent \cup Buffered
FedEvents == Received \cup Range(chan)

\* Buffers, channels and hands hold the events of their own tables.
Routed ==
  /\ \A t \in Tables : \A m \in Range(buf[t]) : TableOf[m] = t
  /\ \A w \in Workers : \A m \in Range(wch[w]) : Route[TableOf[m]] = w
  /\ \A w \in Workers : hand[w] # NoEvent => Route[TableOf[hand[w]]] = w

\* Each of them follows, table by table, what is ahead of it.
InOrder ==
  /\ Ordered(chan, Received, Live)
  /\ \A t \in Tables : Ordered(buf[t], Sent, Live)
  /\ Ordered(out, AtWorkers, Live)
  /\ \A w \in Workers : Ordered(wch[w], Settled \cup Held, Live)
  /\ \A w \in Workers : hand[w] # NoEvent => Follows(hand[w], Settled, Live)

LEMMA PlacesAreEvents ==
  ASSUME TypeOK
  PROVE  /\ Settled \subseteq Events /\ Held \subseteq Events /\ Queued \subseteq Events
         /\ Buffered \subseteq Events /\ Range(out) \subseteq Events
         /\ Range(chan) \subseteq Events /\ Received \subseteq Events
         /\ FedEvents \subseteq Events
<1>1. Settled \subseteq Events /\ Held \subseteq Events
  BY DEF Settled, Held, TypeOK
<1>2. \A w \in Workers : Range(wch[w]) \subseteq Events
  BY RangeOfEvents DEF TypeOK
<1>3. \A t \in Tables : Range(buf[t]) \subseteq Events
  BY RangeOfEvents DEF TypeOK
<1>4. Range(out) \subseteq Events /\ Range(chan) \subseteq Events
  BY RangeOfEvents DEF TypeOK
<1>5. Queued \subseteq Events /\ Buffered \subseteq Events
  BY <1>2, <1>3 DEF Queued, Buffered
<1> QED
  BY <1>1, <1>4, <1>5 DEF Received, Sent, AtWorkers, FedEvents

(* What each step moves. *)

LEMMA DispatchMoves ==
  ASSUME TypeOK, Bounds, Dispatch
  PROVE  /\ chan # <<>> /\ Head(chan) \in Events
         /\ chan' = Tail(chan) /\ Range(chan) = {Head(chan)} \cup Range(chan')
         /\ UNCHANGED <<out, wch, hand, fate, Settled, Held, Queued, AtWorkers, Sent, Live>>
         /\ out = <<>> /\ TableOf[Head(chan)] \in Tables
         /\ buf' = [buf EXCEPT ![TableOf[Head(chan)]] = Append(@, Head(chan))]
         /\ Buffered' = Buffered \cup {Head(chan)}
         /\ Received' = Received \cup {Head(chan)}
         /\ FedEvents' = FedEvents
<1> DEFINE h == Head(chan)
           t == TableOf[h]
<1>1. /\ chan # <<>> /\ h \in Events /\ chan' = Tail(chan) /\ out = <<>> /\ t \in Tables
      /\ Range(chan) = {h} \cup Range(chan')
  BY RangeOfTail, EventsAreNumbers DEF TypeOK, Bounds, Dispatch
<1>2. /\ UNCHANGED <<out, wch, hand, fate, closed, ctx, halt>>
      /\ buf' = [buf EXCEPT ![t] = Append(@, h)]
  BY DEF Dispatch, workVars
<1>3. UNCHANGED <<Settled, Held, Queued, AtWorkers, Sent, Live>>
  BY <1>2 DEF Settled, Held, Queued, AtWorkers, Sent, Live, Cancelled
<1>4. /\ \A u \in Tables : u # t => Range(buf'[u]) = Range(buf[u])
      /\ Range(buf'[t]) = Range(buf[t]) \cup {h}
  BY <1>1, <1>2, RangeOfAppend DEF TypeOK
<1>5. Buffered' = Buffered \cup {h}
  BY <1>1, <1>4 DEF Buffered
<1>6. Received' = Received \cup {h} /\ FedEvents' = FedEvents
  BY <1>1, <1>3, <1>5 DEF Received, FedEvents
<1> QED
  BY <1>1, <1>2, <1>3, <1>5, <1>6

LEMMA FlushTakeMoves ==
  ASSUME TypeOK, NEW t \in todo, out = <<>>, FlushTake,
         out' = buf[t], buf' = [buf EXCEPT ![t] = <<>>]
  PROVE  /\ t \in Tables
         /\ UNCHANGED <<chan, wch, hand, fate, cnt, Settled, Held, Queued, AtWorkers, Live>>
         /\ Sent = AtWorkers /\ Sent' = Sent \cup Range(buf[t])
         /\ Received' = Received /\ FedEvents' = FedEvents
<1>1. t \in Tables /\ Range(out) = {}
  BY RangeOfNothing DEF TypeOK
<1>2. UNCHANGED <<chan, wch, hand, fate, closed, ctx, halt, cnt>>
  BY DEF FlushTake, workVars, inVars
<1>3. UNCHANGED <<Settled, Held, Queued, AtWorkers, Live>>
  BY <1>2 DEF Settled, Held, Queued, AtWorkers, Live, Cancelled
<1>4. Sent = AtWorkers /\ Sent' = Sent \cup Range(buf[t])
  BY <1>1, <1>3 DEF Sent
<1>5. \A u \in Tables : Range(buf'[u]) = IF u = t THEN {} ELSE Range(buf[u])
  BY <1>1, RangeOfNothing DEF TypeOK
<1>6. Buffered = Buffered' \cup Range(buf[t])
  BY <1>1, <1>5 DEF Buffered
<1> QED
  BY <1>1, <1>2, <1>3, <1>4, <1>6 DEF Received, FedEvents

LEMMA FlushSendMoves ==
  ASSUME TypeOK, FlushSend
  PROVE  /\ out # <<>> /\ Head(out) \in Events /\ Route[TableOf[Head(out)]] \in Workers
         /\ out' = Tail(out)
         /\ wch' = [wch EXCEPT ![Route[TableOf[Head(out)]]] = Append(@, Head(out))]
         /\ UNCHANGED <<chan, buf, hand, fate, cnt, Settled, Held, Buffered, Live>>
         /\ AtWorkers' = AtWorkers \cup {Head(out)}
         /\ Sent' = Sent /\ Received' = Received /\ FedEvents' = FedEvents
<1> DEFINE h == Head(out)
           w == Route[TableOf[h]]
<1>1. /\ out # <<>> /\ h \in Events /\ w \in Workers /\ out' = Tail(out)
      /\ Range(out) = {h} \cup Range(out')
  BY RangeOfTail, EventsAreNumbers, ApplierAssumption DEF TypeOK, FlushSend
<1>2. /\ UNCHANGED <<chan, buf, hand, fate, closed, ctx, halt, cnt>>
      /\ wch' = [wch EXCEPT ![w] = Append(@, h)]
  BY DEF FlushSend, workVars, inVars
<1>3. UNCHANGED <<Settled, Held, Buffered, Live>>
  BY <1>2 DEF Settled, Held, Buffered, Live, Cancelled
<1>4. /\ \A v \in Workers : v # w => Range(wch'[v]) = Range(wch[v])
      /\ Range(wch'[w]) = Range(wch[w]) \cup {h}
  BY <1>1, <1>2, RangeOfAppend DEF TypeOK
<1>5. Queued' = Queued \cup {h}
  BY <1>1, <1>4 DEF Queued
<1>6. AtWorkers' = AtWorkers \cup {h} /\ Sent' = Sent
  BY <1>1, <1>3, <1>5 DEF AtWorkers, Sent
<1> QED
  BY <1>1, <1>2, <1>3, <1>6 DEF Received, FedEvents

LEMMA FlushDropMoves ==
  ASSUME TypeOK, FlushDrop
  PROVE  /\ UNCHANGED <<chan, buf, wch, hand, fate, cnt, Settled, Held, AtWorkers>>
         /\ ~Live /\ ~Live' /\ out' = <<>>
         /\ Sent' \subseteq Sent /\ Received' \subseteq Received /\ FedEvents' \subseteq FedEvents
<1>1. UNCHANGED <<chan, buf, wch, hand, fate, cnt>> /\ out' = <<>> /\ ~Live /\ ~Live'
  BY DEF FlushDrop, workVars, inVars, Live, Cancelled
<1>2. UNCHANGED <<Settled, Held, Queued, Buffered, AtWorkers>> /\ Range(out') = {}
  BY <1>1, RangeOfNothing DEF Settled, Held, Queued, Buffered, AtWorkers
<1> QED
  BY <1>1, <1>2 DEF Sent, Received, FedEvents

LEMMA TakeMoves ==
  ASSUME TypeOK, NEW w \in Workers, Take(w)
  PROVE  /\ wch[w] # <<>> /\ Head(wch[w]) \in Events /\ hand[w] = NoEvent
         /\ wch' = [wch EXCEPT ![w] = Tail(@)]
         /\ hand' = [hand EXCEPT ![w] = Head(wch[w])]
         /\ UNCHANGED <<chan, buf, out, fate, cnt, Settled, AtWorkers, Sent, Received, FedEvents, Live>>
         /\ Held' = Held \cup {Head(wch[w])}
<1> DEFINE h == Head(wch[w])
<1>1. /\ wch[w] # <<>> /\ h \in Events /\ hand[w] = NoEvent /\ h # NoEvent
      /\ Range(wch[w]) = {h} \cup Range(Tail(wch[w]))
  BY RangeOfTail, EventsAreNumbers DEF TypeOK, Take
<1>2. /\ UNCHANGED <<chan, buf, out, fate, closed, ctx, halt, cnt>>
      /\ wch' = [wch EXCEPT ![w] = Tail(@)] /\ hand' = [hand EXCEPT ![w] = h]
  BY DEF Take, inVars, dispVars
<1>3. UNCHANGED <<Settled, Buffered, Live>>
  BY <1>2 DEF Settled, Buffered, Live, Cancelled
<1>4. /\ \A v \in Workers : Range(wch'[v]) = IF v = w THEN Range(Tail(wch[w])) ELSE Range(wch[v])
      /\ \A v \in Workers : hand'[v] = IF v = w THEN h ELSE hand[v]
  BY <1>1, <1>2 DEF TypeOK
<1>5. Queued = Queued' \cup {h}
  BY <1>1, <1>4 DEF Queued
<1>6. Held' = Held \cup {h}
  BY <1>1, <1>4 DEF Held
<1>7. AtWorkers' = AtWorkers
  BY <1>3, <1>5, <1>6 DEF AtWorkers
<1> QED
  BY <1>1, <1>2, <1>3, <1>6, <1>7 DEF Sent, Received, FedEvents

\* A worker is through with the event in its hand.
Settles(w) ==
  /\ hand[w] # NoEvent
  /\ hand' = [hand EXCEPT ![w] = NoEvent]
  /\ \E f \in {"applied", "failed", "skipped", "fatal"} :
       /\ fate' = [fate EXCEPT ![hand[w]] = f]
       /\ f = "applied" => phase[w] = "sql"
       /\ f # "fatal" => Count(f)
       /\ f = "fatal" => halt' /\ UNCHANGED cnt
  /\ \E p \in {"idle", "exited"} :
       /\ phase' = [phase EXCEPT ![w] = p]
       /\ p = "exited" => halt'
  /\ UNCHANGED <<inVars, dispVars, wch>>
  /\ halt => halt'

LEMMA SettleMoves ==
  ASSUME TypeOK, NEW w \in Workers, Settles(w)
  PROVE  /\ hand[w] \in Events
         /\ UNCHANGED <<chan, buf, out, wch, AtWorkers, Sent, Received, FedEvents>>
         /\ Settled' = Settled \cup {hand[w]}
         /\ Held = Held' \cup {hand[w]}
         /\ Live' => Live
<1> DEFINE h == hand[w]
<1>1. /\ h \in Events /\ h # NoEvent /\ UNCHANGED <<chan, buf, out, wch>>
      /\ Live' => Live
      /\ hand \in [Workers -> Events \cup {NoEvent}] /\ hand' = [hand EXCEPT ![w] = NoEvent]
  BY DEF TypeOK, Settles, Live, Cancelled, inVars, dispVars
<1>2. PICK f \in {"applied", "failed", "skipped", "fatal"} : fate' = [fate EXCEPT ![h] = f]
  BY DEF Settles
<1>3. Settled' = Settled \cup {h}
  BY <1>1, <1>2 DEF Settled, TypeOK
<1>4. UNCHANGED <<Queued, Buffered>>
  BY <1>1 DEF Queued, Buffered
<1>5. \A v \in Workers : hand'[v] = IF v = w THEN NoEvent ELSE hand[v]
  BY <1>1
<1>6. Held = Held' \cup {h}
  BY <1>1, <1>5 DEF Held
<1>7. AtWorkers' = AtWorkers
  BY <1>3, <1>4, <1>6 DEF AtWorkers
<1> QED
  BY <1>1, <1>3, <1>4, <1>6, <1>7 DEF Sent, Received, FedEvents

(* The order is kept by each of them. *)

LEMMA EmptyIsOrdered ==
  ASSUME NEW B, NEW live
  PROVE  Ordered(<<>>, B, live)
  BY RangeOfNothing DEF Ordered

LEMMA DispatchOrder ==
  ASSUME TypeOK, Bounds, InOrder, Routed, Dispatch
  PROVE  InOrder' /\ Routed'
<1> DEFINE h == Head(chan)
           t == TableOf[h]
<1>0. chan \in Seq(Events) /\ out \in Seq(Events) /\ buf \in [Tables -> Seq(Events)]
  BY DEF TypeOK
<1>1. /\ chan # <<>> /\ h \in Events /\ chan' = Tail(chan) /\ t \in Tables
      /\ UNCHANGED <<out, wch, hand, Settled, Held, AtWorkers, Sent, Live>>
      /\ buf' = [buf EXCEPT ![t] = Append(@, h)]
      /\ Received' = Received \cup {h}
  BY DispatchMoves
<1>2. Follows(h, Received, Live) /\ Ordered(chan', Received', Live')
  BY <1>0, <1>1, FirstFollows DEF InOrder
<1>3. /\ \A u \in Tables : u # t => buf'[u] = buf[u]
      /\ buf'[t] = Append(buf[t], h) /\ buf[t] \in Seq(Events)
  BY <1>0, <1>1
<1>4. Follows(h, Sent \cup Range(buf[t]), Live)
  <2>1. Sent \cup Range(buf[t]) \subseteq Received
    BY <1>1 DEF Received, Buffered
  <2>2. \A m \in Received : TableOf[m] = t => m \in Sent \cup Range(buf[t])
    BY DEF Received, Buffered, Routed
  <2> QED
    BY <1>2, <2>1, <2>2, SameFollows
<1>5. \A u \in Tables : Ordered(buf'[u], Sent', Live')
  <2>1. Ordered(buf'[t], Sent, Live)
    BY <1>1, <1>3, <1>4, LastFollows DEF InOrder
  <2> QED
    BY <1>1, <1>3, <2>1 DEF InOrder
<1>6. \A u \in Tables : \A m \in Range(buf'[u]) : TableOf[m] = u
  BY <1>1, <1>3, RangeOfAppend DEF Routed
<1> QED
  BY <1>1, <1>2, <1>5, <1>6 DEF InOrder, Routed

LEMMA FlushTakeOrder ==
  ASSUME TypeOK, InOrder, Routed, FlushTake
  PROVE  InOrder' /\ Routed'
<1>1. PICK t \in todo : out' = buf[t] /\ buf' = [buf EXCEPT ![t] = <<>>]
  BY DEF FlushTake
<1>2. /\ t \in Tables
      /\ UNCHANGED <<chan, wch, hand, Settled, Held, AtWorkers, Live>>
      /\ Sent = AtWorkers /\ Sent' = Sent \cup Range(buf[t]) /\ Received' = Received
  BY <1>1, FlushTakeMoves DEF FlushTake
<1>3. /\ \A u \in Tables : u # t => buf'[u] = buf[u]
      /\ buf'[t] = <<>> /\ \A u \in Tables : buf[u] \in Seq(Events)
  BY <1>1, <1>2 DEF TypeOK
<1>4. ASSUME NEW u \in Tables
      PROVE  Ordered(buf'[u], Sent', Live')
  <2>1. CASE u = t
    BY <1>3, <2>1, EmptyIsOrdered
  <2>2. CASE u # t
    <3>1. \A n \in Range(buf[u]) : \A m \in Range(buf[t]) : TableOf[m] # TableOf[n]
      BY <1>2, <2>2 DEF Routed
    <3>2. Ordered(buf[u], Sent', Live')
      BY <1>2, <1>3, <3>1, SameOrdered DEF InOrder
    <3> QED
      BY <1>3, <2>2, <3>2
  <2> QED
    BY <2>1, <2>2
<1>5. \A u \in Tables : \A m \in Range(buf'[u]) : TableOf[m] = u
  BY <1>3, RangeOfNothing DEF Routed
<1>6. Ordered(out', AtWorkers', Live')
  BY <1>1, <1>2 DEF InOrder
<1> QED
  BY <1>2, <1>4, <1>5, <1>6 DEF InOrder, Routed

LEMMA FlushSendOrder ==
  ASSUME TypeOK, InOrder, Routed, FlushSend
  PROVE  InOrder' /\ Routed'
<1> DEFINE h == Head(out)
           w == Route[TableOf[h]]
<1>0. out \in Seq(Events) /\ wch \in [Workers -> Seq(Events)]
  BY DEF TypeOK
<1>1. /\ out # <<>> /\ h \in Events /\ w \in Workers /\ out' = Tail(out)
      /\ wch' = [wch EXCEPT ![w] = Append(@, h)]
      /\ UNCHANGED <<chan, buf, hand, Settled, Held, Live>>
      /\ AtWorkers' = AtWorkers \cup {h} /\ Sent' = Sent /\ Received' = Received
  BY FlushSendMoves
<1>2. Follows(h, AtWorkers, Live) /\ Ordered(out', AtWorkers', Live')
  BY <1>0, <1>1, FirstFollows DEF InOrder
<1>3. /\ \A v \in Workers : v # w => wch'[v] = wch[v]
      /\ wch'[w] = Append(wch[w], h) /\ wch[w] \in Seq(Events)
  BY <1>0, <1>1
<1>4. Follows(h, (Settled \cup Held) \cup Range(wch[w]), Live)
  <2>1. (Settled \cup Held) \cup Range(wch[w]) \subseteq AtWorkers
    BY <1>1 DEF AtWorkers, Queued
  <2>2. \A m \in AtWorkers : TableOf[m] = TableOf[h] => m \in (Settled \cup Held) \cup Range(wch[w])
    BY SMTT(30) DEF AtWorkers, Queued, Routed
  <2> QED
    BY <1>2, <2>1, <2>2, SameFollows
<1>5. \A v \in Workers : Ordered(wch'[v], (Settled \cup Held)', Live')
  <2>1. Ordered(wch'[w], Settled \cup Held, Live)
    BY <1>1, <1>3, <1>4, LastFollows DEF InOrder
  <2> QED
    BY <1>1, <1>3, <2>1 DEF InOrder
<1>6. \A v \in Workers : \A m \in Range(wch'[v]) : Route[TableOf[m]] = v
  BY <1>1, <1>3, RangeOfAppend DEF Routed
<1> QED
  BY <1>1, <1>2, <1>5, <1>6 DEF InOrder, Routed

LEMMA FlushDropOrder ==
  ASSUME TypeOK, InOrder, Routed, FlushDrop
  PROVE  InOrder' /\ Routed'
<1>1. /\ UNCHANGED <<chan, buf, wch, hand, Settled, Held, AtWorkers>>
      /\ ~Live /\ ~Live' /\ out' = <<>>
      /\ Sent' \subseteq Sent /\ Received' \subseteq Received
  BY FlushDropMoves
<1>2. chan \in Seq(Events) /\ \A t \in Tables : buf[t] \in Seq(Events)
  BY DEF TypeOK
<1>3. Ordered(chan, Received', Live')
  BY <1>1, <1>2, SameOrdered DEF InOrder
<1>4. \A t \in Tables : Ordered(buf[t], Sent', Live')
  BY <1>1, <1>2, SameOrdered DEF InOrder
<1>5. Ordered(out', AtWorkers', Live')
  BY <1>1, EmptyIsOrdered
<1>6. Live' = Live
  BY <1>1 DEF Live
<1> QED
  BY <1>1, <1>3, <1>4, <1>5, <1>6 DEF InOrder, Routed

LEMMA TakeOrder ==
  ASSUME TypeOK, InOrder, Routed, NEW w \in Workers, Take(w)
  PROVE  InOrder' /\ Routed'
<1> DEFINE h == Head(wch[w])
<1>0. /\ wch \in [Workers -> Seq(Events)] /\ hand \in [Workers -> Events \cup {NoEvent}]
      /\ NoEvent \notin Events
  BY EventsAreNumbers DEF TypeOK
<1>1. /\ wch[w] # <<>> /\ h \in Events /\ hand[w] = NoEvent
      /\ wch' = [wch EXCEPT ![w] = Tail(@)] /\ hand' = [hand EXCEPT ![w] = h]
      /\ UNCHANGED <<chan, buf, out, Settled, AtWorkers, Sent, Received, Live>>
      /\ Held' = Held \cup {h}
  BY TakeMoves
<1>2. /\ Follows(h, Settled \cup Held, Live)
      /\ Ordered(Tail(wch[w]), (Settled \cup Held) \cup {h}, Live)
  BY <1>0, <1>1, FirstFollows DEF InOrder
<1>3. /\ \A v \in Workers : v # w => wch'[v] = wch[v] /\ hand'[v] = hand[v]
      /\ wch'[w] = Tail(wch[w]) /\ hand'[w] = h
      /\ \A v \in Workers : wch[v] \in Seq(Events)
  BY <1>0, <1>1
<1>4. Range(wch[w]) = {h} \cup Range(Tail(wch[w])) /\ Route[TableOf[h]] = w
  BY ZenonT(60), <1>0, <1>1, RangeOfTail DEF Routed
<1>5. ASSUME NEW v \in Workers
      PROVE  Ordered(wch'[v], (Settled \cup Held)', Live')
  <2>1. CASE v = w
    <3>1. (Settled \cup Held) \cup {h} = (Settled \cup Held)'
      BY <1>1
    <3> QED
      BY <1>1, <1>2, <1>3, <2>1, <3>1
  <2>2. CASE v # w
    <3>1. \A n \in Range(wch[v]) : TableOf[h] # TableOf[n]
      BY <1>4, <2>2 DEF Routed
    <3>2. Ordered(wch[v], (Settled \cup Held)', Live')
      BY <1>1, <1>3, <3>1, SameOrdered DEF InOrder
    <3> QED
      BY <1>3, <2>2, <3>2
  <2> QED
    BY <2>1, <2>2
<1>6. Follows(h, Settled, Live)
  <2>1. \A m \in Held : TableOf[m] # TableOf[h]
    BY <1>1, <1>4 DEF Held, Routed
  <2> QED
    BY <1>2, <2>1, SameFollows
<1>7. \A v \in Workers : hand'[v] # NoEvent => Follows(hand'[v], Settled', Live')
  BY <1>1, <1>3, <1>6 DEF InOrder
<1>8. \A v \in Workers : \A m \in Range(wch'[v]) : Route[TableOf[m]] = v
  BY <1>3, <1>4 DEF Routed
<1>9. \A v \in Workers : hand'[v] # NoEvent => Route[TableOf[hand'[v]]] = v
  BY <1>3, <1>4 DEF Routed
<1> QED
  BY <1>1, <1>5, <1>7, <1>8, <1>9 DEF InOrder, Routed

LEMMA OneHandEach ==
  ASSUME Routed, NEW w \in Workers, hand[w] # NoEvent, NEW v \in Workers, hand[v] = hand[w]
  PROVE  v = w
  BY DEF Routed

LEMMA SettleOrder ==
  ASSUME TypeOK, InOrder, Routed, NEW w \in Workers, Settles(w)
  PROVE  InOrder' /\ Routed'
<1> DEFINE h == hand[w]
<1>1. hand[w] # NoEvent /\ \A v \in Workers : hand[v] = hand[w] => v = w
  BY OneHandEach DEF Settles
<1>2. /\ h \in Events
      /\ UNCHANGED <<chan, buf, out, wch, AtWorkers, Sent, Received>>
      /\ Settled' = Settled \cup {h} /\ Held = Held' \cup {h}
      /\ Live' => Live
  BY SettleMoves
<1>3. /\ chan \in Seq(Events) /\ out \in Seq(Events)
      /\ \A t \in Tables : buf[t] \in Seq(Events)
      /\ \A v \in Workers : wch[v] \in Seq(Events)
      /\ hand' = [hand EXCEPT ![w] = NoEvent] /\ hand \in [Workers -> Events \cup {NoEvent}]
  BY DEF TypeOK, Settles
<1>4. Ordered(chan, Received, Live')
  BY <1>2, <1>3, SameOrdered DEF InOrder
<1>5. \A t \in Tables : Ordered(buf[t], Sent, Live')
  BY <1>2, <1>3, SameOrdered DEF InOrder
<1>6. Ordered(out, AtWorkers, Live')
  BY <1>2, <1>3, SameOrdered DEF InOrder
<1>7. (Settled \cup Held)' = Settled \cup Held
  BY <1>2
<1>8. \A v \in Workers : Ordered(wch[v], Settled \cup Held, Live')
  BY <1>2, <1>3, SameOrdered DEF InOrder
<1>9. ASSUME NEW v \in Workers, hand'[v] # NoEvent
      PROVE  Follows(hand'[v], Settled', Live')
  <2>1. v # w /\ hand'[v] = hand[v] /\ hand[v] # NoEvent
    BY <1>3, <1>9
  <2>2. TableOf[h] # TableOf[hand[v]]
    BY <1>1, <2>1 DEF Routed
  <2>3. Follows(hand[v], Settled, Live)
    BY <2>1 DEF InOrder
  <2> QED
    BY <1>2, <2>1, <2>2, <2>3, SameFollows
<1>10. \A v \in Workers : hand'[v] # NoEvent => Route[TableOf[hand'[v]]] = v
  BY <1>3 DEF Routed
<1> QED
  BY <1>2, <1>4, <1>5, <1>6, <1>7, <1>8, <1>9, <1>10 DEF InOrder, Routed

\* Steps that move no event: the flush ticker, the ends of a flush, the
\* phases of a worker, the poller, a close or a cancellation.
Still ==
  /\ UNCHANGED <<buf, out, wch, hand, cnt, fate>>
  /\ Cancelled => Cancelled'

LEMMA StillMoves ==
  ASSUME Still
  PROVE  /\ UNCHANGED <<Settled, Held, Queued, Buffered, AtWorkers, Sent, Received>>
         /\ Live' => Live
  BY DEF Still, Settled, Held, Queued, Buffered, AtWorkers, Sent, Received, Live

LEMMA StillOrder ==
  ASSUME TypeOK, InOrder, Routed, Still, UNCHANGED chan
  PROVE  InOrder' /\ Routed'
<1>1. UNCHANGED <<Settled, Held, AtWorkers, Sent, Received>> /\ (Live' => Live)
  BY StillMoves
<1>2. UNCHANGED <<chan, buf, out, wch, hand>>
  BY DEF Still
<1>3. /\ chan \in Seq(Events) /\ out \in Seq(Events)
      /\ \A t \in Tables : buf[t] \in Seq(Events)
      /\ \A v \in Workers : wch[v] \in Seq(Events)
  BY DEF TypeOK
<1>4. Ordered(chan, Received, Live')
  BY <1>1, <1>3, SameOrdered DEF InOrder
<1>5. \A t \in Tables : Ordered(buf[t], Sent, Live')
  BY <1>1, <1>3, SameOrdered DEF InOrder
<1>6. Ordered(out, AtWorkers, Live')
  BY <1>1, <1>3, SameOrdered DEF InOrder
<1>7. \A v \in Workers : Ordered(wch[v], Settled \cup Held, Live')
  BY <1>1, <1>3, SameOrdered DEF InOrder
<1>8. \A v \in Workers : hand[v] # NoEvent => Follows(hand[v], Settled, Live')
  BY <1>1, SameFollows DEF InOrder
<1> QED
  BY <1>1, <1>2, <1>4, <1>5, <1>6, <1>7, <1>8 DEF InOrder, Routed

LEMMA FeedOrder ==
  ASSUME TypeOK, InOrder, Routed, NEW m \in Events, Feed(m), Still, UNCHANGED Live,
         Follows(m, FedEvents, Live)
  PROVE  InOrder' /\ Routed'
<1>1. UNCHANGED <<Settled, Held, AtWorkers, Sent, Received>>
  BY StillMoves
<1>2. UNCHANGED <<buf, out, wch, hand>> /\ chan' = Append(chan, m) /\ chan \in Seq(Events)
  BY DEF Still, Feed, TypeOK
<1>3. Ordered(chan', Received, Live)
  BY <1>2, LastFollows DEF InOrder, FedEvents
<1> QED
  BY <1>1, <1>2, <1>3 DEF InOrder, Routed

-----------------------------------------------------------------------------
(* Which event is fed next. *)

\* The place of an event in the stream.
Rank(m) == Cardinality({k \in Events : k <= m})

\* What was fed is a first part of the stream, and all of it is still here.
FedInOrder ==
  \A m \in Events : /\ m \in FedEvents => Rank(m) <= Fed
                    /\ Live /\ Rank(m) <= Fed => m \in FedEvents

LEMMA RankOrder ==
  /\ Cardinality(Events) \in Nat
  /\ \A m \in Events : Rank(m) \in 1..Cardinality(Events)
  /\ \A m, n \in Events : m < n => Rank(m) < Rank(n)
<1>0. IsFiniteSet(Events) /\ Cardinality(Events) \in Nat /\ \A m \in Events : m \in Nat
  BY EventsAreNumbers, FS_CardinalityType
<1> DEFINE Until(m) == {k \in Events : k <= m}
<1>1. ASSUME NEW m \in Events
      PROVE  /\ IsFiniteSet(Until(m)) /\ Rank(m) = Cardinality(Until(m))
             /\ Rank(m) \in Nat /\ Rank(m) <= Cardinality(Events) /\ Rank(m) # 0
  <2>1. Until(m) \in SUBSET Events /\ m \in Until(m)
    BY <1>0
  <2>2. IsFiniteSet(Until(m)) /\ Cardinality(Until(m)) <= Cardinality(Events)
    BY <1>0, <2>1, FS_Subset
  <2>3. Cardinality(Until(m)) \in Nat /\ Cardinality(Until(m)) # 0
    BY <2>1, <2>2, FS_CardinalityType, FS_EmptySet
  <2> QED
    BY <2>2, <2>3 DEF Rank
<1>2. ASSUME NEW m \in Events, NEW n \in Events, m < n
      PROVE  Rank(m) < Rank(n)
  <2>1. Until(m) \in SUBSET Until(n) /\ n \in Until(n) /\ n \notin Until(m)
    BY <1>0, <1>2
  <2>2. Cardinality(Until(m)) <= Cardinality(Until(n))
    BY <1>1, <2>1, FS_Subset
  <2>3. Cardinality(Until(m)) # Cardinality(Until(n))
    BY <1>1, <2>1, FS_Subset
  <2>4. Rank(m) <= Rank(n) /\ Rank(m) # Rank(n)
    BY <1>1, <2>2, <2>3
  <2>5. Rank(m) \in Nat /\ Rank(n) \in Nat
    BY <1>1
  <2> QED
    BY <2>4, <2>5
<1>3. \A m \in Events : Rank(m) \in Nat /\ Rank(m) <= Cardinality(Events) /\ Rank(m) # 0
  BY <1>1
<1>4. \A m \in Events : Rank(m) \in 1..Cardinality(Events)
  BY <1>0, <1>3
<1> QED
  BY <1>0, <1>2, <1>4

\* Every place is taken.
LEMMA EveryRank ==
  ASSUME NEW i \in 1..Cardinality(Events)
  PROVE  \E m \in Events : Rank(m) = i
<1> DEFINE n == Cardinality(Events)
           f == [m \in Events |-> Rank(m)]
<1>1. n \in Nat /\ f \in [Events -> 1..n]
  BY RankOrder
<1>2. \A m, k \in Events : f[m] = f[k] => m = k
  <2> SUFFICES ASSUME NEW m \in Events, NEW k \in Events, m # k PROVE f[m] # f[k]
    OBVIOUS
  <2>1. m < k \/ k < m
    BY EventsAreNumbers
  <2>2. Rank(m) # Rank(k)
    BY <2>1, RankOrder
  <2> QED
    BY <2>2
<1>3. f \in Injection(Events, 1..n)
  BY <1>1, <1>2, Fun_IsInj
<1>4. IsFiniteSet(1..n) /\ Cardinality(1..n) = n
  BY <1>1, FS_Interval
<1>5. f \in Surjection(Events, 1..n)
  BY <1>3, <1>4, FS_Injection
<1>6. \A j \in 1..n : \E m \in Events : f[m] = j
  <2> HIDE DEF f, n
  <2> QED
    BY <1>5, Fun_SurjectionProperties
<1> QED
  BY <1>6

LEMMA NextIsNext ==
  ASSUME TypeOK, Fed < Cardinality(Events)
  PROVE  Fed \in Nat /\ NextEvent \in Events /\ Rank(NextEvent) = Fed + 1
<1>1. Fed \in Nat
  BY RangeOfEvents DEF Fed, TypeOK
<1>2. \E m \in Events : Rank(m) = Fed + 1
  BY <1>1, RankOrder, EveryRank
<1> QED
  BY <1>1, <1>2 DEF NextEvent, Rank

LEMMA NextFollows ==
  ASSUME TypeOK, FedInOrder, Fed < Cardinality(Events)
  PROVE  Follows(NextEvent, FedEvents, Live)
<1> SUFFICES ASSUME NEW m \in Events
             PROVE  /\ m \in FedEvents => m < NextEvent
                    /\ Live /\ m < NextEvent => m \in FedEvents
  BY DEF Follows
<1>1. /\ Fed \in Nat /\ NextEvent \in Events /\ Rank(NextEvent) = Fed + 1
      /\ m \in Nat /\ NextEvent \in Nat /\ Rank(m) \in Nat
  BY NextIsNext, RankOrder, EventsAreNumbers
<1>2. ASSUME m \in FedEvents PROVE m < NextEvent
  <2>1. Rank(m) < Rank(NextEvent)
    BY <1>1, <1>2 DEF FedInOrder
  <2>2. ~(NextEvent < m) /\ m # NextEvent
    BY <1>1, <2>1, RankOrder
  <2> QED
    BY <1>1, <2>2
<1>3. ASSUME Live, m < NextEvent PROVE m \in FedEvents
  <2>1. Rank(m) < Rank(NextEvent)
    BY <1>1, <1>3, RankOrder
  <2> QED
    BY <1>1, <1>3, <2>1 DEF FedInOrder
<1> QED
  BY <1>2, <1>3

\* FeedNext feeds the next one; every other step feeds nothing.
LEMMA FedInOrderKept ==
  ASSUME FedInOrder, FedEvents' \subseteq FedEvents, Live' => Live /\ FedEvents' = FedEvents,
         Fed' = Fed
  PROVE  FedInOrder'
  BY DEF FedInOrder

LEMMA FeedIsNext ==
  ASSUME TypeOK, FedInOrder, FeedNext
  PROVE  FedInOrder'
<1> DEFINE e == NextEvent
<1>1. Fed \in Nat /\ e \in Events /\ Rank(e) = Fed + 1
  BY NextIsNext DEF FeedNext
<1>2. /\ chan' = Append(chan, e) /\ chan \in Seq(Events) /\ Still /\ Live' = Live
      /\ UNCHANGED cnt
  BY DEF FeedNext, Feed, TypeOK, Still, Live, Cancelled, dispVars, workVars
<1>3. Range(chan') = Range(chan) \cup {e} /\ Received' = Received
  BY <1>1, <1>2, RangeOfAppend, StillMoves
<1>4. FedEvents' = FedEvents \cup {e}
  BY <1>3 DEF FedEvents
<1>5. Fed' = Fed + 1
  <2>1. Len(chan') = Len(chan) + 1 /\ Len(chan) \in Nat /\ cnt["received"] \in Nat
    BY <1>1, <1>2, AppendProperties, RangeOfEvents DEF TypeOK
  <2> QED
    BY SMTT(30), <1>2, <2>1 DEF Fed
<1> SUFFICES ASSUME NEW m \in Events
             PROVE  /\ m \in FedEvents' => Rank(m) <= Fed'
                    /\ Live' /\ Rank(m) <= Fed' => m \in FedEvents'
  BY DEF FedInOrder
<1>6. Rank(m) \in Nat
  BY RankOrder
<1>7. CASE m = e
  BY <1>1, <1>4, <1>5, <1>7
<1>8. CASE m # e
  <2>1. m < e \/ e < m
    BY <1>1, <1>8, EventsAreNumbers
  <2>2. Rank(m) # Rank(e)
    BY <1>1, <1>6, <2>1, RankOrder
  <2> QED
    BY <1>1, <1>2, <1>4, <1>5, <1>6, <1>8, <2>2 DEF FedInOrder
<1> QED
  BY <1>7, <1>8

-----------------------------------------------------------------------------
(* The counters and the drain. *)

LEMMA WorkerSettles ==
  ASSUME TypeOK, NEW w \in Workers,
         Skip(w) \/ Structural(w) \/ Applied(w) \/ Failed(w) \/ MarkMissing(w)
  PROVE  Settles(w)
<1>1. hand[w] # NoEvent
  BY DEF Skip, Structural, Applied, Failed, MarkMissing, Transforms, TypeOK
<1>2. CASE Structural(w)
  BY <1>1, <1>2 DEF Structural, Settles
<1>3. CASE Skip(w) \/ Applied(w) \/ Failed(w) \/ MarkMissing(w)
  <2>1. PICK f \in {"applied", "failed", "skipped"} :
          /\ Settle(w, f) /\ Count(f)
          /\ f = "applied" => phase[w] = "sql"
          /\ UNCHANGED <<inVars, dispVars, wch, halt>>
    BY <1>3 DEF Skip, Applied, Failed, MarkMissing
  <2> QED
    BY <1>1, <2>1 DEF Settle, Settles
<1> QED
  BY <1>2, <1>3

LEMMA StepKinds ==
  ASSUME TypeOK, AppStep
  PROVE  \/ Dispatch \/ FlushTake \/ FlushSend \/ FlushDrop
         \/ \E w \in Workers : Take(w) \/ Settles(w)
         \/ Still /\ UNCHANGED <<chan, ctx, halt>>
<1>1. CASE FlushTick \/ Drain \/ FlushEnd \/ Return
  BY <1>1 DEF FlushTick, Drain, FlushEnd, Return, Still, Cancelled, inVars, workVars
<1>2. CASE Poller \/ ExpireMissing
  BY <1>2 DEF Poller, CreateTable, ResetMissingTables, ExpireMissing, Still, Cancelled,
    inVars, dispVars, workVars
<1>3. ASSUME NEW w \in Workers, ExitWorker(w) \/ Exec(w) \/ TableAbsent(w)
      PROVE  Still /\ UNCHANGED <<chan, ctx, halt>>
  BY <1>3 DEF ExitWorker, Exec, TableAbsent, Step, Still, Cancelled, inVars, dispVars
<1> QED
  BY <1>1, <1>2, <1>3, WorkerSettles DEF AppStep, Dispatcher, Worker

\* While the applier lives it has counted what it received and what it settled.
Account ==
  Live => /\ cnt["received"] = Cardinality(Received)
          /\ cnt["applied"] + cnt["skipped"] + cnt["failed"] = Cardinality(Settled)

LEMMA PlacesAreFinite ==
  ASSUME TypeOK
  PROVE  /\ IsFiniteSet(Received) /\ Cardinality(Received) \in Nat
         /\ IsFiniteSet(Settled) /\ Cardinality(Settled) \in Nat
<1>1. Received \in SUBSET Events /\ Settled \in SUBSET Events
  BY PlacesAreEvents
<1>2. IsFiniteSet(Received) /\ IsFiniteSet(Settled)
  BY <1>1, EventsAreNumbers, FS_Subset
<1> QED
  BY <1>2, FS_CardinalityType

LEMMA AccountStep ==
  ASSUME TypeOK, Bounds, InOrder, Account, AppStep
  PROVE  Account'
<1> SUFFICES ASSUME Live'
             PROVE  /\ cnt'["received"] = Cardinality(Received')
                    /\ cnt'["applied"] + cnt'["skipped"] + cnt'["failed"] = Cardinality(Settled')
  BY DEF Account
<1> DEFINE done == cnt["applied"] + cnt["skipped"] + cnt["failed"]
<1>0. cnt \in [{"received", "applied", "failed", "skipped"} -> Nat]
  BY DEF TypeOK
<1>1. CASE UNCHANGED <<cnt, Received, Settled>> /\ Live
  BY <1>1 DEF Account
<1>2. CASE Dispatch
  <2> DEFINE h == Head(chan)
  <2>1. h \in Events /\ chan # <<>> /\ Live /\ Settled' = Settled /\ Received' = Received \cup {h}
    BY <1>2, DispatchMoves
  <2>2. h \notin Received
    BY <2>1, FirstFollows, FollowsIsNew DEF InOrder, TypeOK
  <2>3. Cardinality(Received') = Cardinality(Received) + 1
    BY <2>1, <2>2, PlacesAreFinite, FS_AddElement
  <2>4. cnt' = [cnt EXCEPT !["received"] = @ + 1]
    BY <1>2 DEF Dispatch, Count
  <2> QED
    BY <1>0, <2>1, <2>3, <2>4 DEF Account
<1>3. CASE FlushTake
  BY <1>1, <1>3, FlushTakeMoves DEF FlushTake
<1>4. CASE FlushSend
  BY <1>1, <1>4, FlushSendMoves
<1>5. CASE FlushDrop
  BY <1>5, FlushDropMoves
<1>6. ASSUME NEW w \in Workers, Take(w)
      PROVE  UNCHANGED <<cnt, Received, Settled>> /\ Live
  BY <1>6, TakeMoves
<1>7. ASSUME NEW w \in Workers, Settles(w)
      PROVE  /\ cnt'["received"] = Cardinality(Received')
             /\ cnt'["applied"] + cnt'["skipped"] + cnt'["failed"] = Cardinality(Settled')
  <2> DEFINE h == hand[w]
  <2>1. /\ h \in Events /\ h # NoEvent /\ Received' = Received /\ Live
        /\ Settled' = Settled \cup {h}
    BY <1>7, SettleMoves DEF Settles
  <2>2. h \notin Settled
    BY <2>1, FollowsIsNew DEF InOrder
  <2>3. Cardinality(Settled') = Cardinality(Settled) + 1
    BY <2>1, <2>2, PlacesAreFinite, FS_AddElement
  <2>4. ~halt'
    BY DEF Live, Cancelled
  <2>5. PICK f \in {"applied", "failed", "skipped"} : cnt' = [cnt EXCEPT ![f] = @ + 1]
    BY <1>7, <2>4 DEF Settles, Count
  <2>6. cnt'["received"] = cnt["received"]
        /\ cnt'["applied"] + cnt'["skipped"] + cnt'["failed"] = done + 1
    BY <1>0, <2>5
  <2> QED
    BY <2>1, <2>3, <2>6 DEF Account
<1>8. CASE Still /\ UNCHANGED <<chan, ctx, halt>>
  <2>1. UNCHANGED <<cnt, Received, Settled>> /\ Live
    BY <1>8, StillMoves DEF Still
  <2> QED
    BY <1>1, <2>1
<1> QED
  BY <1>1, <1>2, <1>3, <1>4, <1>5, <1>6, <1>7, <1>8, StepKinds

\* What a drain has emptied stays empty: from the closed channel to the worker
\* that is gone.  Only the halt itself gives a fatal fate.
Draining ==
  /\ Live =>
       /\ mode = "drain" => \A t \in Tables : buf[t] # <<>> => t \in todo
       /\ mode \in {"drain", "wait", "done"} => closed /\ chan = <<>>
       /\ mode \in {"wait", "done"} => \A t \in Tables : buf[t] = <<>>
       /\ \A w \in Workers : phase[w] = "exited" => wclosed /\ wch[w] = <<>>
  /\ mode = "done" => \A w \in Workers : phase[w] = "exited"
  /\ \A m \in Events : fate[m] = "fatal" => halt

LEMMA DispatcherDrains ==
  ASSUME TypeOK, Bounds, Draining, Dispatcher
  PROVE  Draining'
<1>0. /\ buf \in [Tables -> Seq(Events)] /\ wch \in [Workers -> Seq(Events)]
      /\ mode \in {"select", "flush", "drain", "wait", "done"}
      /\ mode \in {"wait", "done"} <=> wclosed
  BY SMTT(30) DEF TypeOK
<1>1. UNCHANGED <<ctx, halt, fate, phase, closed>> /\ (Live' <=> Live)
  BY DEF Dispatcher, Dispatch, FlushTick, Drain, FlushTake, FlushSend, FlushDrop, FlushEnd,
    Return, inVars, workVars, Live, Cancelled
<1>2. \A m \in Events : fate'[m] = "fatal" => halt'
  BY <1>1 DEF Draining
<1>3. CASE Dispatch \/ FlushTick
  <2>1. mode = "select" /\ mode' \in {"select", "flush"} /\ UNCHANGED <<wclosed, wch>>
    BY <1>3 DEF Dispatch, FlushTick, FlushOf
  <2> QED
    BY <1>1, <1>2, <2>1 DEF Draining
<1>4. CASE Drain
  BY <1>1, <1>2, <1>4 DEF Draining, Drain, Live, inVars
<1>5. CASE FlushTake
  <2>1. PICK t \in todo : buf' = [buf EXCEPT ![t] = <<>>] /\ todo' = todo \ {t}
    BY <1>5 DEF FlushTake
  <2>2. mode \in {"flush", "drain"} /\ UNCHANGED <<mode, wclosed, wch, chan>>
    BY <1>5 DEF FlushTake, inVars
  <2>3. mode = "drain" /\ Live => \A u \in Tables : buf'[u] # <<>> => u \in todo'
    BY <1>0, <2>1 DEF Draining
  <2> QED
    BY <1>1, <1>2, <2>2, <2>3 DEF Draining
<1>6. CASE FlushSend
  <2>1. mode \in {"flush", "drain"} /\ UNCHANGED <<mode, wclosed, buf, todo, chan>> /\ ~wclosed
    BY <1>0, <1>6 DEF FlushSend, Bounds, inVars
  <2> QED
    BY <1>1, <1>2, <2>1 DEF Draining
<1>7. CASE FlushDrop
  <2>1. ~Live /\ mode \in {"flush", "drain"} /\ UNCHANGED mode
    BY <1>7 DEF FlushDrop, Bounds, Live
  <2> QED
    BY <1>1, <1>2, <2>1 DEF Draining
<1>8. CASE FlushEnd
  BY <1>0, <1>1, <1>2, <1>8 DEF Draining, FlushEnd, inVars
<1>9. CASE Return
  BY <1>0, <1>1, <1>2, <1>9 DEF Draining, Return, inVars
<1> QED
  BY <1>3, <1>4, <1>5, <1>6, <1>7, <1>8, <1>9 DEF Dispatcher

LEMMA WorkerDrains ==
  ASSUME TypeOK, Bounds, Draining, NEW w \in Workers, Worker(w)
  PROVE  Draining'
<1>0. /\ phase \in [Workers -> {"idle", "got", "sql", "absent", "exited"}]
      /\ wch \in [Workers -> Seq(Events)]
      /\ fate \in [Events -> {"none", "applied", "failed", "skipped", "fatal"}]
  BY DEF TypeOK
<1>1. UNCHANGED <<ctx, chan, closed, dispVars>> /\ (halt => halt') /\ (Live' => Live)
  BY DEF Worker, Take, ExitWorker, Skip, Structural, Exec, Applied, Failed, TableAbsent,
    MarkMissing, inVars, Live, Cancelled
<1>2. UNCHANGED <<mode, buf, todo, wclosed>>
  BY <1>1 DEF dispVars
<1>3. \A m \in Events : fate'[m] = "fatal" => halt'
  BY <1>0, <1>1 DEF Draining, Worker, Take, ExitWorker, Skip, Structural, Exec, Applied, Failed,
    TableAbsent, MarkMissing, Settle, Step
<1>4. mode = "done" => phase[w] = "exited"
  BY DEF Draining
<1>5. phase[w] # "exited"
  BY DEF Worker, Take, ExitWorker, Skip, Structural, Exec, Applied, Failed, TableAbsent,
    MarkMissing, Transforms
<1>6. \A v \in Workers : v # w => phase'[v] = phase[v]
  BY <1>0 DEF Worker, Take, ExitWorker, Skip, Structural, Exec, Applied, Failed,
    TableAbsent, MarkMissing, Settle, Step
<1>7. \A v \in Workers : v # w => wch'[v] = wch[v]
  BY <1>0 DEF Worker, Take, ExitWorker, Skip, Structural, Exec, Applied, Failed,
    TableAbsent, MarkMissing
<1>8. Live' /\ phase'[w] = "exited" => wclosed /\ wch'[w] = <<>>
  BY <1>0 DEF Worker, Take, ExitWorker, Skip, Structural, Exec, Applied, Failed,
    TableAbsent, MarkMissing, Settle, Step, Live, Cancelled
<1>9. Live' => \A v \in Workers : phase'[v] = "exited" => wclosed' /\ wch'[v] = <<>>
  BY <1>1, <1>2, <1>6, <1>7, <1>8 DEF Draining
<1> QED
  BY <1>1, <1>2, <1>3, <1>4, <1>5, <1>9 DEF Draining

LEMMA StepDrains ==
  ASSUME TypeOK, Bounds, Draining, AppStep
  PROVE  Draining'
<1>1. CASE Poller \/ ExpireMissing
  BY <1>1 DEF Poller, CreateTable, ResetMissingTables, ExpireMissing, inVars, dispVars, workVars,
    Draining, Live, Cancelled
<1> QED
  BY <1>1, DispatcherDrains, WorkerDrains DEF AppStep

\* When Start has returned and nothing stopped it, every event it received is
\* settled and there is nothing on the channel.
LEMMA DoneIsSettled ==
  ASSUME TypeOK, Bounds, Draining, mode = "done", Live
  PROVE  chan = <<>> /\ closed /\ Received = Settled
<1>1. /\ chan = <<>> /\ closed
      /\ \A t \in Tables : buf[t] = <<>>
      /\ \A w \in Workers : phase[w] = "exited" /\ wch[w] = <<>>
  BY DEF Draining
<1>2. out = <<>> /\ \A w \in Workers : hand[w] = NoEvent
  BY <1>1 DEF Bounds, TypeOK
<1>3. Held = {} /\ Queued = {} /\ Buffered = {} /\ Range(out) = {}
  BY <1>1, <1>2, RangeOfNothing DEF Held, Queued, Buffered
<1> QED
  BY <1>1, <1>3 DEF Received, Sent, AtWorkers

-----------------------------------------------------------------------------
(* What reaches the target. *)

LEMMA OneExecuting ==
  ASSUME Routed, NEW m \in Events, NEW n \in Events, TableOf[m] = TableOf[n],
         NEW v \in Workers, hand[v] = n, NEW w \in Workers, hand[w] = m
  PROVE  v = w
  BY EventsAreNumbers DEF Routed

\* A step gives a statement to the target only in its turn, and settles what
\* the target was given before.
LEMMA FateSteps ==
  ASSUME TypeOK, InOrder, Routed, AppStep, NEW n \in Events
  PROVE  /\ fate[n] # "none" => fate'[n] = fate[n]
         /\ fate'[n] = "applied" => fate[n] = "applied" \/ Executing(n)
         /\ Executing(n)' => \/ Executing(n)
                             \/ /\ Live /\ fate' = fate
                                /\ \A m \in Events : SameTable(m, n) => fate[m] # "none"
<1>0. /\ phase \in [Workers -> {"idle", "got", "sql", "absent", "exited"}]
      /\ hand \in [Workers -> Events \cup {NoEvent}]
      /\ fate \in [Events -> {"none", "applied", "failed", "skipped", "fatal"}]
      /\ n # NoEvent
  BY SMTT(30), EventsAreNumbers DEF TypeOK
<1>1. CASE UNCHANGED <<fate, hand, phase>>
  BY <1>1 DEF Executing
<1>2. CASE Dispatcher \/ Poller \/ ExpireMissing
  BY <1>1, <1>2 DEF Dispatcher, Dispatch, FlushTick, Drain, FlushTake, FlushSend, FlushDrop,
    FlushEnd, Return, Poller, CreateTable, ResetMissingTables, ExpireMissing, workVars
<1>3. ASSUME NEW w \in Workers, Take(w) \/ ExitWorker(w) \/ TableAbsent(w)
      PROVE  fate' = fate /\ (Executing(n)' => Executing(n))
  BY <1>0, <1>3 DEF Take, ExitWorker, TableAbsent, Step, Executing
<1>4. ASSUME NEW w \in Workers, Exec(w)
      PROVE  /\ fate' = fate /\ Live
             /\ Executing(n)' => \/ Executing(n)
                                 \/ \A m \in Events : SameTable(m, n) => fate[m] # "none"
  <2>1. /\ fate' = fate /\ hand' = hand /\ Live /\ hand[w] # NoEvent
        /\ \A v \in Workers : v # w => phase'[v] = phase[v]
    BY <1>0, <1>4 DEF Exec, Transforms, Step, Live, TypeOK
  <2>2. CASE hand[w] = n
    BY <2>1, <2>2 DEF InOrder, Follows, Settled, SameTable
  <2>3. CASE hand[w] # n
    BY <2>1, <2>3 DEF Executing
  <2> QED
    BY <2>1, <2>2, <2>3
<1>5. ASSUME NEW w \in Workers, Settles(w)
      PROVE  /\ fate[n] # "none" => fate'[n] = fate[n]
             /\ fate'[n] = "applied" => fate[n] = "applied" \/ Executing(n)
             /\ Executing(n)' => Executing(n)
  <2>1. hand[w] \in Events /\ Follows(hand[w], Settled, Live)
    BY <1>0, <1>5 DEF Settles, InOrder
  <2>2. fate[hand[w]] = "none"
    BY <2>1, FollowsIsNew DEF Settled
  <2>3. PICK f \in {"applied", "failed", "skipped", "fatal"} :
          /\ fate' = [fate EXCEPT ![hand[w]] = f]
          /\ f = "applied" => phase[w] = "sql"
    BY <1>5 DEF Settles
  <2>4. Executing(n)' => Executing(n)
    BY <1>0, <1>5 DEF Settles, Executing
  <2> QED
    BY <1>0, <2>1, <2>2, <2>3, <2>4 DEF Executing
<1>6. ASSUME NEW w \in Workers, Skip(w) \/ Structural(w) \/ Applied(w) \/ Failed(w) \/ MarkMissing(w)
      PROVE  Settles(w)
  BY <1>6, WorkerSettles
<1> QED
  BY <1>2, <1>3, <1>4, <1>5, <1>6 DEF AppStep, Worker

LEMMA TableOrderStep ==
  ASSUME TypeOK, InOrder, Routed, TableOrder, AppStep
  PROVE  TableOrder'
<1> SUFFICES ASSUME NEW m \in Events, NEW n \in Events, SameTable(m, n),
                    fate'[n] = "applied" \/ Executing(n)'
             PROVE  fate'[m] # "none"
  BY DEF TableOrder, SameTable
<1>1. fate[m] # "none"
  BY FateSteps DEF TableOrder
<1> QED
  BY <1>1, FateSteps

LEMMA HaltStopsTableStep ==
  ASSUME TypeOK, InOrder, Routed, TableOrder, HaltStopsTable, Draining, AppStep
  PROVE  HaltStopsTable'
<1> SUFFICES ASSUME NEW m \in Events, NEW n \in Events, SameTable(m, n), fate'[m] = "fatal"
             PROVE  ~Executing(n)' /\ fate'[n] # "applied"
  BY DEF HaltStopsTable, SameTable
<1>1. CASE fate[m] = "fatal"
  <2>1. ~Executing(n) /\ fate[n] # "applied" /\ ~Live
    BY <1>1 DEF HaltStopsTable, Draining, Live, Cancelled
  <2> QED
    BY <2>1, FateSteps
<1>2. CASE fate[m] # "fatal"
  <2>1. fate[m] = "none"
    BY <1>2, FateSteps
  <2>2. ~Executing(n) /\ fate[n] # "applied"
    BY <2>1 DEF TableOrder
  <2>3. fate' # fate
    BY <1>2
  <2> QED
    BY <2>2, <2>3, FateSteps
<1> QED
  BY <1>1, <1>2

-----------------------------------------------------------------------------
(* The theorems. *)

IInv ==
  /\ TypeOK
  /\ Bounds
  /\ Routed
  /\ InOrder
  /\ FedInOrder
  /\ Account
  /\ Draining
  /\ TableOrder
  /\ HaltStopsTable

\* The applier's steps feed nothing and, while it lives, lose nothing.
LEMMA StepLosesNothing ==
  ASSUME TypeOK, Bounds, AppStep
  PROVE  /\ FedEvents' \subseteq FedEvents
         /\ Live' => Live /\ FedEvents' = FedEvents
         /\ Fed' = Fed
<1>0. /\ cnt \in [{"received", "applied", "failed", "skipped"} -> Nat]
      /\ chan \in Seq(Events) /\ Len(chan) \in Nat
  BY RangeOfEvents DEF TypeOK
<1>1. CASE Dispatch
  <2>1. /\ FedEvents' = FedEvents /\ Live' = Live
        /\ chan # <<>> /\ chan' = Tail(chan)
    BY <1>1, DispatchMoves
  <2>2. cnt' = [cnt EXCEPT !["received"] = @ + 1]
    BY <1>1 DEF Dispatch, Count
  <2>3. Len(chan') = Len(chan) - 1 /\ cnt'["received"] = cnt["received"] + 1
    BY <1>0, <2>1, <2>2, RangeOfTail
  <2>4. Fed' = Fed
    BY <1>0, <2>3 DEF Fed
  <2> QED
    BY <2>1, <2>4
<1>2. CASE FlushTake
  BY <1>2, FlushTakeMoves DEF FlushTake, Fed
<1>3. CASE FlushSend
  BY <1>3, FlushSendMoves DEF Fed
<1>4. CASE FlushDrop
  BY <1>4, FlushDropMoves DEF Fed
<1>5. ASSUME NEW w \in Workers, Take(w)
      PROVE  FedEvents' = FedEvents /\ Live' = Live /\ Fed' = Fed
  BY <1>5, TakeMoves DEF Fed
<1>6. ASSUME NEW w \in Workers, Settles(w)
      PROVE  FedEvents' = FedEvents /\ (Live' => Live) /\ Fed' = Fed
  <2>1. cnt'["received"] = cnt["received"]
    BY <1>0, <1>6 DEF Settles, Count
  <2> QED
    BY <1>6, <2>1, SettleMoves DEF Fed
<1>7. CASE Still /\ UNCHANGED <<chan, ctx, halt>>
  <2>1. Received' = Received /\ Live' = Live /\ cnt' = cnt
    BY <1>7, StillMoves DEF Still, Live, Cancelled
  <2> QED
    BY <1>7, <2>1 DEF FedEvents, Fed
<1> QED
  BY <1>1, <1>2, <1>3, <1>4, <1>5, <1>6, <1>7, StepKinds

\* A new process begins with nothing in it.
LEMMA BootTypes ==
  ASSUME TypeOK, Boot, ctx' \in BOOLEAN
  PROVE  TypeOK' /\ Bounds' /\ Draining'
<1> USE DEF Boot
<1>1. 0 <= ChanCap /\ 0 < BatchSize /\ 0 <= BatchSize
  BY ApplierAssumption
<1>2. cnt' \in [{"received", "applied", "failed", "skipped"} -> Nat]
  OBVIOUS
<1>3. /\ hand' \in [Workers -> Events \cup {NoEvent}]
      /\ phase' \in [Workers -> {"idle", "got", "sql", "absent", "exited"}]
      /\ \A w \in Workers : hand'[w] = NoEvent /\ phase'[w] = "idle"
  OBVIOUS
<1>4. /\ fate' \in [Events -> {"none", "applied", "failed", "skipped", "fatal"}]
      /\ \A m \in Events : fate'[m] = "none"
  OBVIOUS
<1>5. /\ buf' \in [Tables -> Seq(Events)] /\ wch' \in [Workers -> Seq(Events)]
      /\ \A t \in Tables : buf'[t] = <<>> /\ Len(buf'[t]) = 0
      /\ \A w \in Workers : Len(wch'[w]) = 0
  BY RangeOfNothing
<1>6. TypeOK'
  BY <1>1, <1>2, <1>3, <1>4, <1>5, RangeOfNothing DEF TypeOK
<1>7. Bounds'
  BY <1>1, <1>5 DEF Bounds
<1>8. Draining'
  BY <1>3, <1>4 DEF Draining
<1> QED
  BY <1>6, <1>7, <1>8

LEMMA InitIInv == Init => IInv
<1> SUFFICES ASSUME Init PROVE IInv
  OBVIOUS
<1>1. TypeOK
  <2>1. 0 <= ChanCap /\ 0 <= BatchSize /\ Absent \subseteq Tables
    BY ApplierAssumption
  <2>2. cnt \in [{"received", "applied", "failed", "skipped"} -> Nat]
    BY DEF Init
  <2>3. /\ hand \in [Workers -> Events \cup {NoEvent}]
        /\ phase \in [Workers -> {"idle", "got", "sql", "absent", "exited"}]
        /\ \A w \in Workers : hand[w] = NoEvent /\ phase[w] = "idle"
    BY DEF Init
  <2>4. fate \in [Events -> {"none", "applied", "failed", "skipped", "fatal"}]
    BY DEF Init
  <2>5. /\ buf \in [Tables -> Seq(Events)] /\ wch \in [Workers -> Seq(Events)]
        /\ \A t \in Tables : Len(buf[t]) <= BatchSize
        /\ \A w \in Workers : Len(wch[w]) <= BatchSize
    BY <2>1, RangeOfNothing DEF Init
  <2> QED
    BY <2>1, <2>2, <2>3, <2>4, <2>5, RangeOfNothing DEF Init, TypeOK
<1>2. /\ Settled = {} /\ Held = {} /\ Queued = {} /\ Buffered = {}
      /\ Range(out) = {} /\ Range(chan) = {}
  BY RangeOfNothing DEF Init, Settled, Held, Queued, Buffered
<1>3. Received = {} /\ FedEvents = {}
  BY <1>2 DEF Received, Sent, AtWorkers, FedEvents
<1>4. Bounds
  BY RangeOfNothing, ApplierAssumption DEF Init, Bounds
<1>5. Routed /\ InOrder
  BY RangeOfNothing, EmptyIsOrdered DEF Init, Routed, InOrder
<1>6. FedInOrder
  <2>1. Fed = 0
    BY RangeOfNothing DEF Init, Fed
  <2> QED
    BY <1>3, <2>1, RankOrder DEF FedInOrder
<1>7. Account
  BY <1>2, <1>3, FS_EmptySet DEF Init, Account
<1>8. Draining /\ TableOrder /\ HaltStopsTable
  BY <1>1 DEF Init, Draining, TableOrder, HaltStopsTable, Executing
<1> QED
  BY <1>1, <1>4, <1>5, <1>6, <1>7, <1>8 DEF IInv

\* A step that leaves all but the input and its context alone.
LEMMA InputStep ==
  ASSUME IInv, UNCHANGED <<chan, dispVars, workVars, ddlVars, wch, cnt>>,
         closed' \in BOOLEAN, ctx' \in BOOLEAN, closed => closed', ctx => ctx'
  PROVE  IInv'
<1>1. TypeOK' /\ Bounds'
  BY DEF IInv, TypeOK, Bounds, dispVars, workVars, ddlVars
<1>2. Still /\ UNCHANGED chan /\ (Live' => Live)
  BY DEF Still, Live, Cancelled, dispVars, workVars
<1>3. UNCHANGED <<Settled, Received>>
  BY <1>2, StillMoves
<1>4. FedEvents' = FedEvents /\ Fed' = Fed
  BY <1>2, <1>3 DEF FedEvents, Fed
<1>5. Routed' /\ InOrder'
  BY <1>2, StillOrder DEF IInv
<1>6. FedInOrder' /\ Account'
  BY <1>2, <1>3, <1>4, FedInOrderKept DEF IInv, Account
<1>7. Draining' /\ TableOrder' /\ HaltStopsTable'
  BY <1>2 DEF IInv, Draining, TableOrder, HaltStopsTable, Executing, dispVars, workVars
<1> QED
  BY <1>1, <1>5, <1>6, <1>7 DEF IInv

LEMMA StepIInv ==
  ASSUME IInv, AppStep
  PROVE  IInv'
<1> USE DEF IInv
<1>1. TypeOK' /\ Bounds'
  BY StepTypes
<1>2. Routed' /\ InOrder'
  <2>1. ASSUME NEW w \in Workers, Take(w) \/ Settles(w)
        PROVE  Routed' /\ InOrder'
    BY <2>1, TakeOrder, SettleOrder
  <2> QED
    BY <2>1, StepKinds, DispatchOrder, FlushTakeOrder, FlushSendOrder, FlushDropOrder, StillOrder
<1>3. FedInOrder'
  BY StepLosesNothing, FedInOrderKept
<1>4. Account' /\ Draining'
  BY AccountStep, StepDrains
<1>5. TableOrder' /\ HaltStopsTable'
  BY TableOrderStep, HaltStopsTableStep
<1> QED
  BY <1>1, <1>2, <1>3, <1>4, <1>5

LEMMA FeedIInv ==
  ASSUME IInv, FeedNext
  PROVE  IInv'
<1> USE DEF IInv
<1>1. /\ NextEvent \in Events /\ Feed(NextEvent)
      /\ UNCHANGED <<ctx, dispVars, workVars, ddlVars, wch, cnt>>
  BY NextIsNext DEF FeedNext
<1>2. Still /\ UNCHANGED Live
  BY <1>1 DEF Still, Live, Cancelled, dispVars, workVars
<1>3. TypeOK' /\ Bounds'
  BY <1>1, FeedTypes
<1>4. Routed' /\ InOrder'
  BY <1>1, <1>2, NextFollows, FeedOrder DEF FeedNext
<1>5. FedInOrder'
  BY FeedIsNext
<1>6. Account'
  BY <1>2, StillMoves DEF Account, Still
<1>7. Draining' /\ TableOrder' /\ HaltStopsTable'
  BY <1>1, <1>2 DEF Draining, Feed, TableOrder, HaltStopsTable, Executing, dispVars, workVars
<1> QED
  BY <1>3, <1>4, <1>5, <1>6, <1>7

LEMMA Inductive == IInv /\ [Next]_appVars => IInv'
<1> SUFFICES ASSUME IInv, [Next]_appVars PROVE IInv'
  OBVIOUS
<1>1. CASE Close \/ Cancel \/ Returned \/ UNCHANGED appVars
  <2>1. /\ UNCHANGED <<chan, dispVars, workVars, ddlVars, wch, cnt>>
        /\ closed' \in BOOLEAN /\ ctx' \in BOOLEAN
        /\ closed => closed'
        /\ ctx => ctx'
    BY <1>1 DEF Close, CloseInput, Cancel, Returned, appVars, inVars, IInv, TypeOK
  <2> QED
    BY <2>1, InputStep
<1> QED
  BY <1>1, StepIInv, FeedIInv DEF Next

LEMMA Invariance == Spec => []IInv
  BY InitIInv, Inductive, PTL DEF Spec

\* Type correctness: no buffer, batch or worker channel outgrows BatchSize, the
\* event channel keeps its capacity, the workers' channels are closed exactly
\* when the dispatcher has drained, and a halt always has its fatal error.
THEOREM TypeCorrect == Spec => []TypeOK
<1>1. IInv => TypeOK
  BY DEF IInv
<1> QED
  BY <1>1, Invariance, PTL

\* Whatever the routing and the number of workers, the statements of a table
\* reach the target in WAL order, each when all before it are settled.
THEOREM KeepsTableOrder == Spec => []TableOrder
<1>1. IInv => TableOrder
  BY DEF IInv
<1> QED
  BY <1>1, Invariance, PTL

\* Behind a structural failure nothing of its table is executed any more.
THEOREM HaltHolds == Spec => []HaltStopsTable
<1>1. IInv => HaltStopsTable
  BY DEF IInv
<1> QED
  BY <1>1, Invariance, PTL

\* received = applied + skipped + failed + in flight, until the applier is
\* stopped.
THEOREM CountersHold == Spec => []CountersAddUp
<1>1. ASSUME IInv PROVE CountersAddUp
  <2> SUFFICES ASSUME Live
               PROVE  cnt["received"] = cnt["applied"] + cnt["skipped"] + cnt["failed"]
                                          + Cardinality(InFlight)
    BY DEF CountersAddUp, Live
  <2>1. InFlight = Buffered \cup Range(out) \cup Queued \cup Held
    BY DEF InFlight, Buffered, Queued, Held
  <2>2. Received = Settled \cup InFlight
    BY <2>1 DEF Received, Sent, AtWorkers
  <2>3. Settled \cap InFlight = {}
    <3>0. /\ out \in Seq(Events) /\ \A t \in Tables : buf[t] \in Seq(Events)
          /\ \A w \in Workers : wch[w] \in Seq(Events) /\ hand[w] \in Events \cup {NoEvent}
      BY <1>1 DEF IInv, TypeOK
    <3>1. Range(out) \cap AtWorkers = {} /\ \A t \in Tables : Range(buf[t]) \cap Sent = {}
      BY <1>1, <3>0, OrderedIsNew DEF IInv, InOrder
    <3>2. \A w \in Workers : Range(wch[w]) \cap (Settled \cup Held) = {}
      BY <1>1, <3>0, OrderedIsNew DEF IInv, InOrder
    <3>3. \A w \in Workers : hand[w] # NoEvent => hand[w] \notin Settled
      BY <1>1, <3>0, FollowsIsNew DEF IInv, InOrder
    <3>4. Held \cap Settled = {} /\ Settled \subseteq AtWorkers /\ Settled \subseteq Sent
      BY <3>3 DEF Held, AtWorkers, Sent
    <3> QED
      BY <2>1, <3>1, <3>2, <3>4 DEF Buffered, Queued
  <2>4. IsFiniteSet(InFlight) /\ IsFiniteSet(Settled)
    BY <1>1, <2>2, PlacesAreFinite, FS_Subset DEF IInv
  <2>5. Cardinality(Received) = Cardinality(Settled) + Cardinality(InFlight) - Cardinality({})
    BY <2>2, <2>3, <2>4, FS_Union
  <2>6. Cardinality({}) = 0 /\ Cardinality(Settled) \in Nat /\ Cardinality(InFlight) \in Nat
    BY <2>4, FS_EmptySet, FS_CardinalityType
  <2> QED
    BY <1>1, <2>5, <2>6 DEF IInv, Account
<1> QED
  BY <1>1, Invariance, PTL

\* A return on a closed channel leaves nothing on the channel and nothing
\* unsettled.
THEOREM CleanReturn == Spec => []CleanReturnSettlesAll
<1>1. ASSUME IInv PROVE CleanReturnSettlesAll
  BY <1>1, DoneIsSettled DEF IInv, CleanReturnSettlesAll, Account, Live, Settled
<1> QED
  BY <1>1, Invariance, PTL

=============================================================================
