---------------------------- MODULE MCSync_proofs ----------------------------
(***************************************************************************)
(* The invariants of the sum, for every value of its constants.  Each part *)
(* has an inductive invariant of its own, under the prefix its instance    *)
(* has in MCSync: Conv (the rows of a table), Ddl (statements beside       *)
(* rows), Chain (a load and the process behind it), Bin (the MySQL         *)
(* stream).  The watermark sync and the comparison have their proofs in    *)
(* Tables_proofs.                                                          *)
(***************************************************************************)
EXTENDS MCSync, Integers, FiniteSetTheorems, WellFoundedInduction, SequenceTheorems, TLAPS

-----------------------------------------------------------------------------
(* Conv: a target that is written to from a log that may be read again.    *)
(* What is true of a row of the target while old events are repeated is    *)
(* said of the tables the source has had: the row, or in the default       *)
(* identity each of its columns, is the one of some moment not before the  *)
(* worker's.  At the end of the log there is one such moment.              *)

\* The value that stands for no key is none.
ConvKeyed == Conv!NoKey \notin Keys

ConvTableType == [Keys -> Conv!Row \cup {Conv!NoRow}]
ConvEventType == [kind : {"insert", "update", "delete", "truncate"},
              key : Keys \cup {Conv!NoKey}, old : Keys \cup {Conv!NoKey},
              before : Conv!Row \cup {Conv!NoRow},
              cols : [v : Nat, t : Nat \cup {Conv!Unchanged}] \cup {Conv!NoRow}]

ConvTypes ==
  /\ setup \in [strategy : Strategies, identity : {"default", "full"}]
  /\ src \in ConvTableType /\ tgt \in ConvTableType
  /\ log \in Seq(ConvEventType)
  /\ next \in 1..Len(log) + 1
  /\ lost \subseteq Keys /\ rewinds \in Nat

ConvFull == setup.identity = "full"
ConvMoves(e) == e.kind = "update" /\ e.old \notin {Conv!NoKey, e.key}
ConvImage(row) == IF ConvFull THEN row ELSE Conv!NoRow

\* Event i says how table a became b; of an update that moves a row, only which keys
\* it left alone.
ConvMade(e, i, a, b) ==
  \/ /\ e.kind = "insert" /\ e.key \in Keys /\ a[e.key] = Conv!NoRow /\ e.cols = [v |-> i, t |-> i]
     /\ b = [a EXCEPT ![e.key] = e.cols]
  \/ /\ e.kind = "update" /\ e.key \in Keys /\ e.old \in {Conv!NoKey, e.key}
     /\ a[e.key] # Conv!NoRow /\ e.before = ConvImage(a[e.key])
     /\ e.cols \in [v : {i}, t : {i, Conv!Unchanged}]
     /\ b = [a EXCEPT ![e.key] =
               [v |-> i, t |-> IF e.cols.t = Conv!Unchanged THEN a[e.key].t ELSE e.cols.t]]
  \/ /\ ConvMoves(e) /\ e.key \in Keys /\ e.cols \in [v : {i}, t : {i, Conv!Unchanged}]
     /\ \A k \in Keys \ {e.old, e.key} : b[k] = a[k]
  \/ /\ e.kind = "delete" /\ e.key \in Keys /\ e.old = e.key
     /\ a[e.key] # Conv!NoRow /\ e.before = ConvImage(a[e.key])
     /\ b = [a EXCEPT ![e.key] = Conv!NoRow]
  \/ /\ e.kind = "truncate"
     /\ b = [k \in Keys |-> Conv!NoRow]

\* S are the tables the source has had: after event m it had S[m].
ConvHistory(S) ==
  /\ S \in [0..Len(log) -> ConvTableType]
  /\ S[Len(log)] = src
  /\ \A i \in 1..Len(log) : ConvMade(log[i], i, S[i - 1], S[i])

\* The row at k is of a moment not before n.  Without a before image an update may
\* bring the columns of two moments together.
ConvFollows(S, k, row, n) ==
  \/ ConvFull /\ \E m \in n..Len(log) : row = S[m][k]
  \/ ~ConvFull /\ row = Conv!NoRow /\ \E m \in n..Len(log) : S[m][k] = Conv!NoRow
  \/ /\ ~ConvFull /\ row # Conv!NoRow
     /\ \E m \in n..Len(log) : S[m][k] # Conv!NoRow /\ row.v = S[m][k].v
     /\ \E m \in n..Len(log) : S[m][k] # Conv!NoRow /\ row.t = S[m][k].t

ConvInv ==
  /\ Conv!TypeOK
  /\ \E S : /\ ConvHistory(S)
            /\ \A k \in Keys \ (Conv!Moved \cup lost) : ConvFollows(S, k, tgt[k], next - 1)

-----------------------------------------------------------------------------
LEMMA ConvTypesHold == (Conv!TypeOK <=> ConvTypes) /\ (Conv!TypeOK' <=> ConvTypes')
BY DEF Conv!TypeOK, ConvTypes, ConvTableType, ConvEventType

\* The row of moment n is of a moment not before n,
LEMMA ConvExactly ==
  ASSUME NEW S, NEW k, NEW n \in 0..Len(log), Len(log) \in Nat, NEW row, row = S[n][k]
  PROVE  ConvFollows(S, k, row, n)
<1>1. n \in n..Len(log)
  OBVIOUS
<1> QED
  BY <1>1 DEF ConvFollows

\* a moment in which nothing became of k is not missed,
LEMMA ConvLater ==
  ASSUME NEW S, NEW k, NEW n \in 1..Len(log), Len(log) \in Nat, NEW row,
         ConvFollows(S, k, row, n - 1), S[n][k] = S[n - 1][k]
  PROVE  ConvFollows(S, k, row, n)
<1>1. n \in n..Len(log) /\ \A m \in (n - 1)..Len(log) : m = n - 1 \/ m \in n..Len(log)
  OBVIOUS
<1> QED
  BY <1>1 DEF ConvFollows

\* going back weakens the claim,
LEMMA ConvEarlier ==
  ASSUME NEW S, NEW k, NEW n \in 0..Len(log), NEW p \in 0..n, Len(log) \in Nat, NEW row,
         ConvFollows(S, k, row, n)
  PROVE  ConvFollows(S, k, row, p)
<1>1. n..Len(log) \subseteq p..Len(log)
  OBVIOUS
<1> QED
  BY <1>1 DEF ConvFollows

\* and a row that is not the one of n - 1 is of a later moment.
LEMMA ConvDiffers ==
  ASSUME NEW S, NEW k, NEW n \in 1..Len(log), Len(log) \in Nat, NEW row,
         ConvFollows(S, k, row, n - 1),
         \/ row = Conv!NoRow /\ S[n - 1][k] # Conv!NoRow
         \/ row # Conv!NoRow /\ S[n - 1][k] = Conv!NoRow
         \/ ConvFull /\ row # S[n - 1][k]
  PROVE  ConvFollows(S, k, row, n)
<1>1. \A m \in (n - 1)..Len(log) : m = n - 1 \/ m \in n..Len(log)
  OBVIOUS
<1> QED
  BY <1>1 DEF ConvFollows

-----------------------------------------------------------------------------
(* The source. *)

\* A step of the source makes the history longer by a table.
LEMMA ConvSourceStep ==
  ASSUME ConvKeyed, ConvInv, NEW e \in ConvEventType, NEW rows \in ConvTableType,
         Conv!Writes(e, rows), ConvMade(e, Conv!Op, src, rows)
  PROVE  ConvInv'
<1>0. ConvTypes
  BY ConvTypesHold DEF ConvInv
<1>1. /\ log' = Append(log, e) /\ src' = rows
      /\ UNCHANGED <<setup, next, tgt, lost, rewinds>>
  BY DEF Conv!Writes
<1>2. PICK S : ConvHistory(S) /\ \A k \in Keys \ (Conv!Moved \cup lost) :
           ConvFollows(S, k, tgt[k], next - 1)
  BY DEF ConvInv
<1>n. PICK n \in Nat : n = Len(log)
  BY <1>0 DEF ConvTypes
<1> DEFINE T == [j \in 0..n + 1 |-> IF j = n + 1 THEN rows ELSE S[j]]
<1>3. /\ n \in Nat /\ log' \in Seq(ConvEventType) /\ Len(log') = n + 1 /\ log'[n + 1] = e
      /\ \A i \in 1..n : log'[i] = log[i]
  BY <1>0, <1>1, <1>n DEF ConvTypes
<1>4. Conv!TypeOK'
  <2>1. next \in 1..Len(log') + 1
    BY <1>0, <1>3, <1>n DEF ConvTypes
  <2>2. ConvTypes'
    BY <1>0, <1>1, <1>3, <2>1 DEF ConvTypes, ConvTableType, ConvEventType
  <2> QED
    BY <2>2, ConvTypesHold
<1>5. T[n + 1] = rows /\ \A j \in 0..n : T[j] = S[j]
  BY <1>3
<1>6. T \in [0..n + 1 -> ConvTableType]
  BY <1>2, <1>3, <1>n DEF ConvHistory
<1> HIDE DEF T
<1>7. ConvHistory(T)'
  <2>1. \A i \in 1..n : ConvMade(log[i], i, S[i - 1], S[i])
    BY <1>2, <1>n DEF ConvHistory
  <2>2. ASSUME NEW i \in 1..n + 1 PROVE ConvMade(log'[i], i, T[i - 1], T[i])
    <3>1. CASE i = n + 1
      <4>1. T[i - 1] = src
        BY <1>2, <1>3, <1>5, <1>n, <3>1 DEF ConvHistory
      <4> QED
        BY <1>3, <1>5, <1>n, <3>1, <4>1 DEF Conv!Op
    <3>2. CASE i # n + 1
      <4>1. i \in 1..n /\ T[i - 1] = S[i - 1] /\ T[i] = S[i]
        BY <1>3, <1>5, <3>2
      <4> QED
        BY <1>3, <2>1, <4>1
    <3> QED
      BY <3>1, <3>2
  <2>4. \A i \in 1..n + 1 : ConvMade(log[i], i, T[i - 1], T[i])'
    <3> TAKE i \in 1..n + 1
    <3>1. ConvMade(log[i], i, T[i - 1], T[i])' <=> ConvMade(log'[i], i, T[i - 1], T[i])
      BY <1>1 DEF ConvMade, ConvImage, ConvFull, ConvMoves
    <3> QED
      BY <2>2, <3>1
  <2>5. ConvTableType' = ConvTableType
    BY DEF ConvTableType
  <2> QED
    BY <1>1, <1>3, <1>5, <1>6, <2>4, <2>5 DEF ConvHistory
<1>8. Conv!Moved \subseteq Conv!Moved'
  BY <1>3, <1>n DEF Conv!Moved
<1>9. ASSUME NEW k \in Keys \ (Conv!Moved' \cup lost') PROVE ConvFollows(T, k, tgt[k], next - 1)'
  <2>1. ConvFollows(S, k, tgt[k], next - 1)
    BY <1>1, <1>2, <1>8, <1>9
  <2>2. \A m \in (next - 1)..n : m \in (next - 1)..n + 1 /\ T[m] = S[m]
    BY <1>0, <1>3, <1>5, <1>n DEF ConvTypes
  <2> QED
    BY <1>1, <1>3, <1>n, <2>1, <2>2 DEF ConvFollows, ConvFull
<1> QED
  BY <1>4, <1>7, <1>9 DEF ConvInv

LEMMA ConvImages == ASSUME ConvTypes, NEW k \in Keys PROVE Conv!Before(k) = ConvImage(src[k])
BY DEF Conv!Before, ConvImage, ConvFull

LEMMA ConvInsertsStep == ASSUME ConvKeyed, ConvInv, Conv!SourceInserts PROVE ConvInv'
<1>0. ConvTypes /\ Conv!Op \in Nat
  BY ConvTypesHold DEF ConvInv, ConvTypes, Conv!Op
<1>1. PICK k \in Keys \ Conv!Rows(src) :
        Conv!Writes([kind |-> "insert", key |-> k, old |-> Conv!NoKey, before |-> Conv!NoRow,
                cols |-> [v |-> Conv!Op, t |-> Conv!Op]],
                [src EXCEPT ![k] = [v |-> Conv!Op, t |-> Conv!Op]])
  BY DEF Conv!SourceInserts
<1> DEFINE e == [kind |-> "insert", key |-> k, old |-> Conv!NoKey, before |-> Conv!NoRow,
                 cols |-> [v |-> Conv!Op, t |-> Conv!Op]]
           rows == [src EXCEPT ![k] = [v |-> Conv!Op, t |-> Conv!Op]]
<1>2. e \in ConvEventType
  BY <1>0 DEF ConvEventType
<1>3. rows \in ConvTableType
  BY <1>0 DEF ConvTypes, ConvTableType, Conv!Row
<1>4. ConvMade(e, Conv!Op, src, rows)
  BY DEF ConvMade, Conv!Rows
<1> QED
  BY <1>1, <1>2, <1>3, <1>4, ConvSourceStep

LEMMA ConvUpdatesStep == ASSUME ConvKeyed, ConvInv, Conv!SourceUpdates PROVE ConvInv'
<1>0. ConvTypes /\ Conv!Op \in Nat
  BY ConvTypesHold DEF ConvInv, ConvTypes, Conv!Op
<1>a. PICK k \in Conv!Rows(src) : \E new \in {k} \cup (Keys \ Conv!Rows(src)) :
           \E t \in {Conv!Op, Conv!Unchanged} :
        Conv!Writes([kind |-> "update", key |-> new, old |-> Conv!OldKey(k, new),
                     before |-> Conv!Before(k),
                cols |-> [v |-> Conv!Op, t |-> t]],
               [src EXCEPT ![k] = Conv!NoRow,
                           ![new] = [v |-> Conv!Op, t |-> IF t = Conv!Unchanged THEN src[k].t
                                     ELSE t]])
  BY DEF Conv!SourceUpdates
<1>b. PICK new \in {k} \cup (Keys \ Conv!Rows(src)) : \E t \in {Conv!Op, Conv!Unchanged} :
        Conv!Writes([kind |-> "update", key |-> new, old |-> Conv!OldKey(k, new),
                     before |-> Conv!Before(k),
                cols |-> [v |-> Conv!Op, t |-> t]],
               [src EXCEPT ![k] = Conv!NoRow,
                           ![new] = [v |-> Conv!Op, t |-> IF t = Conv!Unchanged THEN src[k].t
                                     ELSE t]])
  BY <1>a
<1>1. PICK t \in {Conv!Op, Conv!Unchanged} :
        Conv!Writes([kind |-> "update", key |-> new, old |-> Conv!OldKey(k, new),
                     before |-> Conv!Before(k),
                cols |-> [v |-> Conv!Op, t |-> t]],
               [src EXCEPT ![k] = Conv!NoRow,
                           ![new] = [v |-> Conv!Op, t |-> IF t = Conv!Unchanged THEN src[k].t
                                     ELSE t]])
  BY <1>b
<1> DEFINE e == [kind |-> "update", key |-> new, old |-> Conv!OldKey(k, new),
                 before |-> Conv!Before(k),
                 cols |-> [v |-> Conv!Op, t |-> t]]
           row == [v |-> Conv!Op, t |-> IF t = Conv!Unchanged THEN src[k].t ELSE t]
           rows == [src EXCEPT ![k] = Conv!NoRow, ![new] = row]
<1>2. k \in Keys /\ new \in Keys /\ src[k] # Conv!NoRow /\ src[k] \in Conv!Row
  BY <1>0 DEF Conv!Rows, ConvTypes, ConvTableType
<1>3. row \in Conv!Row
  BY <1>0, <1>2 DEF Conv!Row
<1>4. Conv!Before(k) \in Conv!Row \cup {Conv!NoRow}
      /\ Conv!OldKey(k, new) \in Keys \cup {Conv!NoKey}
  BY <1>2 DEF Conv!Before, Conv!OldKey
<1>5. e \in ConvEventType
  BY <1>0, <1>2, <1>4 DEF ConvEventType
<1>6. rows \in ConvTableType
  BY <1>0, <1>2, <1>3 DEF ConvTypes, ConvTableType
<1>7. ConvMade(e, Conv!Op, src, rows)
  <2>1. CASE new = k
    <3>1. e.old \in {Conv!NoKey, e.key} /\ e.before = ConvImage(src[e.key])
          /\ src[e.key] # Conv!NoRow
      BY <1>0, <1>2, <2>1, ConvImages DEF Conv!OldKey
    <3>2. e.cols \in [v : {Conv!Op}, t : {Conv!Op, Conv!Unchanged}] /\ e.cols.t = t
          /\ e.kind = "update"
          /\ e.key = k
      BY <2>1
    <3>3. rows = [src EXCEPT ![k] = row]
      BY <1>0, <1>2, <2>1 DEF ConvTypes, ConvTableType
    <3> QED
      BY <1>2, <2>1, <3>1, <3>2, <3>3 DEF ConvMade
  <2>2. CASE new # k
    <3>1. e.old = k
      BY <2>2 DEF Conv!OldKey
    <3>2. ConvMoves(e)
      BY <1>2, <2>2, <3>1 DEF ConvMoves, ConvKeyed
    <3>3. \A x \in Keys \ {e.old, e.key} : rows[x] = src[x]
      BY <1>0, <3>1 DEF ConvTypes, ConvTableType
    <3>4. e.cols \in [v : {Conv!Op}, t : {Conv!Op, Conv!Unchanged}] /\ e.key = new
      OBVIOUS
    <3> QED
      BY <1>2, <3>2, <3>3, <3>4 DEF ConvMade
  <2> QED
    BY <2>1, <2>2
<1> QED
  BY <1>1, <1>5, <1>6, <1>7, ConvSourceStep

LEMMA ConvDeletesStep == ASSUME ConvKeyed, ConvInv, Conv!SourceDeletes PROVE ConvInv'
<1>0. ConvTypes
  BY ConvTypesHold DEF ConvInv
<1>1. PICK k \in Conv!Rows(src) :
        Conv!Writes([kind |-> "delete", key |-> k, old |-> k, before |-> Conv!Before(k),
                     cols |-> Conv!NoRow],
               [src EXCEPT ![k] = Conv!NoRow])
  BY DEF Conv!SourceDeletes
<1> DEFINE e == [kind |-> "delete", key |-> k, old |-> k, before |-> Conv!Before(k),
                 cols |-> Conv!NoRow]
           rows == [src EXCEPT ![k] = Conv!NoRow]
<1>2. k \in Keys /\ src[k] # Conv!NoRow /\ src[k] \in Conv!Row
  BY <1>0 DEF Conv!Rows, ConvTypes, ConvTableType
<1>3. Conv!Before(k) \in Conv!Row \cup {Conv!NoRow} /\ Conv!Before(k) = ConvImage(src[k])
  BY <1>0, <1>2, ConvImages DEF Conv!Before
<1>4. e \in ConvEventType
  BY <1>2, <1>3 DEF ConvEventType
<1>5. rows \in ConvTableType
  BY <1>0, <1>2 DEF ConvTypes, ConvTableType
<1>6. ConvMade(e, Conv!Op, src, rows)
  BY <1>2, <1>3 DEF ConvMade
<1> QED
  BY <1>1, <1>4, <1>5, <1>6, ConvSourceStep

LEMMA ConvTruncatesStep == ASSUME ConvKeyed, ConvInv, Conv!SourceTruncates PROVE ConvInv'
<1> DEFINE e == [kind |-> "truncate", key |-> Conv!NoKey, old |-> Conv!NoKey, before |-> Conv!NoRow,
                 cols |-> Conv!NoRow]
           rows == [k \in Keys |-> Conv!NoRow]
<1>1. e \in ConvEventType
  BY DEF ConvEventType
<1>2. rows \in ConvTableType
  BY DEF ConvTableType
<1>3. ConvMade(e, Conv!Op, src, rows)
  BY DEF ConvMade
<1>4. Conv!Writes(e, rows)
  BY DEF Conv!SourceTruncates
<1> QED
  BY <1>1, <1>2, <1>3, <1>4, ConvSourceStep

-----------------------------------------------------------------------------
(* The target. *)

\* What Inv gives of the event the worker is at.
ConvAt(S, n) ==
  /\ ConvTypes /\ ConvHistory(S) /\ n \in 1..Len(log) /\ Len(log) \in Nat /\ next = n
  /\ log[n] \in ConvEventType /\ S[n - 1] \in ConvTableType /\ S[n] \in ConvTableType
  /\ ConvMade(log[n], n, S[n - 1], S[n])

\* Before the end of the log, the worker is at an event.
LEMMA ConvHere ==
  ASSUME ConvTypes, next <= Len(log), NEW S, ConvHistory(S)
  PROVE  \E n \in 1..Len(log) : ConvAt(S, n)
<1>1. next \in 1..Len(log) /\ Len(log) \in Nat /\ log[next] \in ConvEventType
  BY DEF ConvTypes
<1>2. S[next - 1] \in ConvTableType /\ S[next] \in ConvTableType
  BY <1>1 DEF ConvHistory
<1>3. PICK n \in 1..Len(log) : n = next
  BY <1>1
<1>4. ConvMade(log[n], n, S[n - 1], S[n])
  BY DEF ConvHistory
<1> QED
  BY <1>1, <1>2, <1>3, <1>4 DEF ConvAt

\* A key the event is not about.
LEMMA ConvElsewhere ==
  ASSUME NEW S, NEW n, ConvAt(S, n), NEW k \in Keys, k # log[n].key, log[n].kind # "truncate",
         ConvMoves(log[n]) => k # log[n].old
  PROVE  S[n][k] = S[n - 1][k]
BY DEF ConvAt, ConvMade, ConvTableType, ConvMoves

\* An event that moves no row is about the row of its key, if the target has it.
LEMMA ConvWhereIsKey ==
  ASSUME NEW S, NEW n, ConvAt(S, n), ~ConvMoves(log[n]), log[n].kind \in {"update", "delete"}
  PROVE  \A k : k \in Conv!Where(log[n]) <=>
           /\ k = log[n].key /\ k \in Keys /\ tgt[k] # Conv!NoRow
           /\ log[n].before = Conv!NoRow \/ tgt[k] = log[n].before
<1>1. log[n].old \in {Conv!NoKey, log[n].key}
  BY DEF ConvMoves, ConvAt, ConvMade
<1> QED
  BY <1>1 DEF Conv!Where, Conv!Rows

LEMMA ConvRowFields ==
  /\ \A r \in Conv!Row : r # Conv!NoRow /\ r.v \in Nat /\ r.t \in Nat
  /\ \A r, q \in Conv!Row : r.v = q.v /\ r.t = q.t => r = q
  /\ Conv!NoRow \notin [v : Nat, t : Nat \cup {Conv!Unchanged}]
<1>1. Conv!NoRow.v = -3
  BY DEF Conv!NoRow
<1> QED
  BY <1>1 DEF Conv!Row, Conv!NoRow

\* What an update makes of the target.
LEMMA ConvUpdatedTable ==
  ASSUME NEW S, NEW n, ConvAt(S, n), log[n].kind = "update"
  PROVE  /\ Conv!Result(log[n]) = Conv!Updated(log[n])
         /\ Conv!Updated(log[n]) \in ConvTableType
         /\ ConvMoves(log[n]) => \A x \in Keys \ {log[n].old, log[n].key} :
            Conv!Updated(log[n])[x] = tgt[x]
         /\ ~ConvMoves(log[n]) => Conv!Updated(log[n]) =
              IF log[n].key \in Conv!Where(log[n])
              THEN [tgt EXCEPT ![log[n].key] = Conv!Set(log[n], tgt[log[n].key])] ELSE tgt
<1> DEFINE e == log[n]
<1>1. e.kind = "update" /\ e.key \in Keys /\ e.cols \in [v : {n}, t : {n, Conv!Unchanged}]
      /\ n \in Nat
      /\ tgt \in ConvTableType
  BY DEF ConvAt, ConvMade, ConvMoves, ConvTypes
<1>2. Conv!Result(e) = Conv!Updated(e)
  BY <1>1 DEF Conv!Result
<1> HIDE DEF e
<1>3. CASE Conv!Where(e) = {}
  BY <1>1, <1>2, <1>3 DEF Conv!Updated, e
<1>4. CASE Conv!Where(e) # {}
  <2> DEFINE w == CHOOSE k \in Conv!Where(e) : TRUE
  <2>1. w \in Conv!Where(e)
    BY <1>4
  <2>2. w \in Keys /\ tgt[w] \in Conv!Row /\ w = IF e.old = Conv!NoKey THEN e.key ELSE e.old
    BY <1>1, <2>1 DEF Conv!Where, Conv!Rows, ConvTableType
  <2>3. Conv!Updated(e) = [tgt EXCEPT ![w] = Conv!NoRow, ![e.key] = Conv!Set(e, tgt[w])]
    BY <1>4 DEF Conv!Updated
  <2> HIDE DEF w
  <2>4. Conv!Set(e, tgt[w]) \in Conv!Row
    <3>1. n \in Nat /\ tgt[w].t \in Nat /\ Conv!Unchanged # n
      BY <1>1, <2>2, ConvRowFields DEF Conv!Unchanged
    <3>2. e.cols.v = n /\ (e.cols.t = Conv!Unchanged \/ e.cols.t = n)
      BY <1>1
    <3> QED
      BY <3>1, <3>2 DEF Conv!Set, Conv!Row
  <2>5. Conv!Updated(e) \in ConvTableType
    BY <1>1, <2>2, <2>3, <2>4 DEF ConvTableType
  <2>6. ConvMoves(e) => \A x \in Keys \ {e.old, e.key} : Conv!Updated(e)[x] = tgt[x]
    BY <1>1, <2>2, <2>3 DEF ConvTableType, ConvMoves
  <2>7. ASSUME ~ConvMoves(e) PROVE Conv!Updated(e) = [tgt EXCEPT ![e.key] = Conv!Set(e, tgt[e.key])]
               /\ e.key \in Conv!Where(e)
    <3>1. w = e.key
      BY <1>1, <2>1, <2>7, ConvWhereIsKey DEF e
    <3> QED
      BY <1>1, <2>1, <2>3, <3>1 DEF ConvTableType
  <2> QED
    BY <1>2, <2>5, <2>6, <2>7 DEF e
<1> QED
  BY <1>3, <1>4

LEMMA ConvResultTable ==
  ASSUME NEW S, NEW n, ConvAt(S, n)
  PROVE  Conv!Result(log[n]) \in ConvTableType
<1> DEFINE e == log[n]
<1>1. tgt \in ConvTableType /\ e.kind \in {"insert", "update", "delete", "truncate"} /\ n \in Nat
  BY DEF ConvAt, ConvTypes, ConvEventType
<1>2. CASE e.kind = "insert"
  <2>1. e.key \in Keys /\ e.cols = [v |-> n, t |-> n]
    BY <1>2 DEF ConvAt, ConvMade, ConvMoves
  <2>2. Conv!Result(e) = Conv!Inserted(e)
    BY <1>2 DEF Conv!Result
  <2> QED
    BY <1>1, <2>1, <2>2 DEF Conv!Inserted, ConvTableType, Conv!Row
<1>3. CASE e.kind = "update"
  BY <1>3, ConvUpdatedTable
<1>4. CASE e.kind = "delete"
  BY <1>1, <1>4 DEF Conv!Result, ConvTableType
<1>5. CASE e.kind = "truncate"
  BY <1>1, <1>5 DEF Conv!Result, ConvTableType
<1> QED
  BY <1>1, <1>2, <1>3, <1>4, <1>5

\* Whatever moment the row at k was of, after event n it is of one not before n.
LEMMA ConvResultFollows ==
  ASSUME NEW S, NEW n, ConvAt(S, n), NEW k \in Keys,
         ConvMoves(log[n]) => k \notin {log[n].old, log[n].key},
         ConvFollows(S, k, tgt[k], n - 1)
  PROVE  ConvFollows(S, k, Conv!Result(log[n])[k], n)
<1> DEFINE e == log[n]
           a == S[n - 1][k]
           b == S[n][k]
<1>1. /\ tgt \in ConvTableType /\ e.kind \in {"insert", "update", "delete", "truncate"}
      /\ n \in 1..Len(log) /\ n \in 0..Len(log) /\ Len(log) \in Nat
      /\ S[n] \in ConvTableType /\ S[n - 1] \in ConvTableType
      /\ ConvMade(e, n, S[n - 1], S[n])
  BY DEF ConvAt, ConvTypes, ConvEventType
<1>2. a \in Conv!Row \cup {Conv!NoRow} /\ b \in Conv!Row \cup {Conv!NoRow}
      /\ tgt[k] \in Conv!Row \cup {Conv!NoRow}
  BY <1>1 DEF ConvTableType
<1>3. CASE k # e.key /\ e.kind # "truncate"
  <2>1. b = a
    BY <1>1, <1>3, ConvElsewhere
  <2>2. Conv!Result(e)[k] = tgt[k]
    <3>1. CASE e.kind = "insert"
      BY <1>1, <1>3, <3>1 DEF Conv!Result, Conv!Inserted, ConvTableType
    <3>2. CASE e.kind = "update"
      <4>1. CASE ConvMoves(e)
        BY <1>3, <3>2, <4>1, ConvUpdatedTable
      <4>2. CASE ~ConvMoves(e)
        BY <1>1, <1>3, <3>2, <4>2, ConvUpdatedTable DEF ConvTableType
      <4> QED
        BY <4>1, <4>2
    <3>3. CASE e.kind = "delete"
      <4>1. k \notin Conv!Where(e)
        BY <1>3, <3>3, ConvWhereIsKey DEF ConvMoves
      <4> QED
        BY <3>3, <4>1 DEF Conv!Result
    <3> QED
      BY <1>1, <1>3, <3>1, <3>2, <3>3
  <2> QED
    BY <1>1, <2>1, <2>2, ConvLater
<1>4. CASE e.kind = "truncate"
  <2>1. b = Conv!NoRow
    BY <1>1, <1>4 DEF ConvMade, ConvMoves
  <2>2. Conv!Result(e)[k] = Conv!NoRow
    BY <1>4 DEF Conv!Result
  <2> QED
    BY <1>1, <2>1, <2>2, ConvExactly
<1>5. CASE k = e.key /\ e.kind = "insert"
  <2>1. a = Conv!NoRow /\ e.cols = [v |-> n, t |-> n] /\ b = e.cols
    BY <1>1, <1>5 DEF ConvMade, ConvMoves, ConvTableType
  <2>2. CASE Conv!Ignores /\ tgt[k] # Conv!NoRow
    <3>1. Conv!Result(e)[k] = tgt[k]
      BY <1>5, <2>2 DEF Conv!Result, Conv!Inserted
    <3> QED
      BY <1>1, <2>1, <2>2, <3>1, ConvDiffers
  <2>3. CASE ~(Conv!Ignores /\ tgt[k] # Conv!NoRow)
    <3>1. Conv!Result(e)[k] = b
      BY <1>1, <1>5, <2>1, <2>3 DEF Conv!Result, Conv!Inserted, ConvTableType
    <3> QED
      BY <1>1, <3>1, ConvExactly
  <2> QED
    BY <2>2, <2>3
<1>6. CASE k = e.key /\ e.kind = "update"
  <2>1. /\ ~ConvMoves(e) /\ a # Conv!NoRow /\ e.before = ConvImage(a)
        /\ e.cols \in [v : {n}, t : {n, Conv!Unchanged}]
        /\ b = [v |-> n, t |-> IF e.cols.t = Conv!Unchanged THEN a.t ELSE e.cols.t]
    BY <1>1, <1>6 DEF ConvMade, ConvMoves, ConvTableType
  <2>2. a \in Conv!Row /\ n \in Nat /\ e.cols.v = n /\ e.cols.t \in {n, Conv!Unchanged}
    BY <1>1, <1>2, <2>1
  <2>3. k \in Conv!Where(e) <=> tgt[k] # Conv!NoRow /\ (e.before = Conv!NoRow \/ tgt[k] = e.before)
    BY <1>6, <2>1, ConvWhereIsKey
  <2>4. Conv!Result(e)[k] = IF k \in Conv!Where(e) THEN Conv!Set(e, tgt[k]) ELSE tgt[k]
    <3>1. Conv!Result(e) = Conv!Updated(e)
          /\ Conv!Updated(e) = IF e.key \in Conv!Where(e)
             THEN [tgt EXCEPT ![e.key] = Conv!Set(e, tgt[e.key])] ELSE tgt
      BY <1>6, <2>1, ConvUpdatedTable
    <3> HIDE DEF e
    <3>2. DOMAIN tgt = Keys
      BY <1>1 DEF ConvTableType
    <3> QED
      BY <1>6, <3>1, <3>2
  <2>5. CASE k \notin Conv!Where(e)
    <3>1. tgt[k] = Conv!NoRow \/ (ConvFull /\ tgt[k] # a)
      BY <2>1, <2>3, <2>5 DEF ConvImage
    <3> QED
      BY <1>1, <2>1, <2>4, <2>5, <3>1, ConvDiffers
  <2>6. CASE k \in Conv!Where(e) /\ ConvFull
    <3>1. tgt[k] = a
      BY <2>1, <2>3, <2>6 DEF ConvImage
    <3>2. Conv!Result(e)[k] = b
      BY <2>1, <2>2, <2>4, <2>6, <3>1 DEF Conv!Set
    <3> QED
      BY <1>1, <3>2, ConvExactly
  <2>7. CASE k \in Conv!Where(e) /\ ~ConvFull
    <3> DEFINE r == Conv!Result(e)[k]
    <3>1. r = [v |-> n, t |-> IF e.cols.t = Conv!Unchanged THEN tgt[k].t ELSE e.cols.t]
      BY <2>2, <2>4, <2>7 DEF Conv!Set
    <3>2. tgt[k] \in Conv!Row /\ b \in Conv!Row
      BY <1>2, <2>1, <2>2, <2>3, <2>7, ConvRowFields DEF Conv!Row, Conv!NoRow
    <3>3. r \in Conv!Row /\ r # Conv!NoRow /\ b # Conv!NoRow /\ r.v = b.v
      <4>1. r.v = n /\ r.t \in Nat /\ b.v = n
        BY <2>1, <2>2, <3>1, <3>2, ConvRowFields
      <4>2. r \in Conv!Row
        BY <2>2, <3>1, <4>1 DEF Conv!Row
      <4> QED
        BY <3>2, <4>1, <4>2, ConvRowFields
    <3>4. \E m \in n..Len(log) : S[m][k] # Conv!NoRow /\ r.v = S[m][k].v
      BY <1>1, <3>3
    <3>5. \E m \in n..Len(log) : S[m][k] # Conv!NoRow /\ r.t = S[m][k].t
      <4>1. CASE e.cols.t # Conv!Unchanged
        <5>1. r.t = b.t
          BY <2>1, <3>1, <4>1
        <5> QED
          BY <1>1, <3>3, <5>1
      <4>2. CASE e.cols.t = Conv!Unchanged
        <5>1. r.t = tgt[k].t /\ b.t = a.t
          BY <2>1, <3>1, <4>2
        <5>2. PICK m \in (n - 1)..Len(log) : S[m][k] # Conv!NoRow /\ tgt[k].t = S[m][k].t
          BY <2>3, <2>7 DEF ConvFollows
        <5>3. CASE m = n - 1
          <6>1. r.t = b.t
            BY <5>1, <5>2, <5>3
          <6> QED
            BY <1>1, <3>3, <6>1
        <5>4. CASE m # n - 1
          <6>1. m \in n..Len(log)
            BY <1>1, <5>4
          <6> QED
            BY <5>1, <5>2, <6>1
        <5> QED
          BY <5>3, <5>4
      <4> QED
        BY <4>1, <4>2
    <3> HIDE DEF r
    <3>6. ConvFollows(S, k, r, n)
      BY <2>7, <3>3, <3>4, <3>5 DEF ConvFollows
    <3> QED
      BY <3>6 DEF r
  <2> QED
    BY <2>5, <2>6, <2>7
<1>7. CASE k = e.key /\ e.kind = "delete"
  <2>1. ~ConvMoves(e) /\ a # Conv!NoRow /\ e.before = ConvImage(a) /\ b = Conv!NoRow
    BY <1>1, <1>7 DEF ConvMade, ConvMoves, ConvTableType
  <2>2. k \in Conv!Where(e) <=> tgt[k] # Conv!NoRow /\ (e.before = Conv!NoRow \/ tgt[k] = e.before)
    BY <1>7, <2>1, ConvWhereIsKey
  <2>3. Conv!Result(e)[k] = IF k \in Conv!Where(e) THEN Conv!NoRow ELSE tgt[k]
    BY <1>7 DEF Conv!Result
  <2>4. CASE k \in Conv!Where(e)
    BY <1>1, <2>1, <2>3, <2>4, ConvExactly
  <2>5. CASE k \notin Conv!Where(e)
    <3>1. tgt[k] = Conv!NoRow \/ (ConvFull /\ tgt[k] # a)
      BY <2>1, <2>2, <2>5 DEF ConvImage
    <3> QED
      BY <1>1, <2>1, <2>3, <2>5, <3>1, ConvDiffers
  <2> QED
    BY <2>4, <2>5
<1> QED
  BY <1>1, <1>3, <1>4, <1>5, <1>6, <1>7

\* Keys an update has moved rows between.
LEMMA ConvMovedKeys ==
  ASSUME NEW n \in 1..Len(log), NEW k, k \notin Conv!Moved, ConvMoves(log[n])
  PROVE  k \notin {log[n].old, log[n].key}
BY DEF Conv!Moved, ConvMoves

-----------------------------------------------------------------------------
\* A step of the worker: the log stays.
LEMMA ConvWorkerStep ==
  ASSUME ConvInv, Conv!TypeOK', UNCHANGED <<setup, src, log>>, NEW S, ConvHistory(S),
         \A k \in Keys \ (Conv!Moved \cup lost') : ConvFollows(S, k, tgt'[k], next' - 1)
  PROVE  ConvInv'
<1>1. ConvHistory(S)'
  <2>1. \A i \in 1..Len(log) : ConvMade(log[i], i, S[i - 1], S[i])
          => ConvMade(log[i], i, S[i - 1], S[i])'
    BY DEF ConvMade, ConvImage, ConvFull, ConvMoves
  <2>2. ConvTableType' = ConvTableType
    BY DEF ConvTableType
  <2> QED
    BY <2>1, <2>2 DEF ConvHistory
<1>2. Conv!Moved' = Conv!Moved
  BY DEF Conv!Moved
<1>3. \A k : ConvFollows(S, k, tgt[k], next - 1)' <=> ConvFollows(S, k, tgt'[k], next' - 1)
  BY DEF ConvFollows, ConvFull
<1> QED
  BY <1>1, <1>2, <1>3 DEF ConvInv

LEMMA ConvAppliesStep == ASSUME ConvKeyed, ConvInv, Conv!Applies PROVE ConvInv'
<1>0. ConvTypes
  BY ConvTypesHold DEF ConvInv
<1>1. PICK S : ConvHistory(S) /\ \A k \in Keys \ (Conv!Moved \cup lost) :
           ConvFollows(S, k, tgt[k], next - 1)
  BY DEF ConvInv
<1>2. PICK n \in 1..Len(log) : ConvAt(S, n)
  BY <1>0, <1>1, ConvHere DEF Conv!Applies
<1>3. /\ next = n /\ tgt' = Conv!Result(log[n]) /\ next' = n + 1
      /\ UNCHANGED <<setup, src, log, lost, rewinds>>
  BY <1>2 DEF Conv!Applies, ConvAt
<1>4. Conv!TypeOK'
  <2>1. tgt' \in ConvTableType /\ next' \in 1..Len(log) + 1
    BY <1>2, <1>3, ConvResultTable DEF ConvAt
  <2>2. ConvTypes'
    BY <1>0, <1>3, <2>1 DEF ConvTypes, ConvTableType, ConvEventType
  <2> QED
    BY <2>2, ConvTypesHold
<1>5. \A k \in Keys \ (Conv!Moved \cup lost') : ConvFollows(S, k, tgt'[k], next' - 1)
  <2> TAKE k \in Keys \ (Conv!Moved \cup lost')
  <2>1. ConvFollows(S, k, tgt[k], n - 1)
    BY <1>1, <1>3
  <2>2. ConvMoves(log[n]) => k \notin {log[n].old, log[n].key}
    BY <1>2, ConvMovedKeys
  <2>3. ConvFollows(S, k, Conv!Result(log[n])[k], n)
    BY <1>2, <2>1, <2>2, ConvResultFollows
  <2>4. next' - 1 = n
    BY <1>3
  <2> QED
    BY <1>3, <2>3, <2>4
<1> QED
  BY <1>1, <1>3, <1>4, <1>5, ConvWorkerStep

\* An event that is left behind.
LEMMA ConvDropsStep == ASSUME ConvKeyed, ConvInv, Conv!DropsDuplicate \/ Conv!DropsTransient
  PROVE ConvInv'
<1>0. ConvTypes
  BY ConvTypesHold DEF ConvInv
<1>1. PICK S : ConvHistory(S) /\ \A k \in Keys \ (Conv!Moved \cup lost) :
           ConvFollows(S, k, tgt[k], next - 1)
  BY DEF ConvInv
<1>2. PICK n \in 1..Len(log) : ConvAt(S, n)
  BY <1>0, <1>1, ConvHere DEF Conv!DropsDuplicate, Conv!DropsTransient
<1>3. next = n /\ next' = n + 1 /\ UNCHANGED <<setup, src, log, tgt, rewinds>>
  BY <1>2 DEF Conv!DropsDuplicate, Conv!DropsTransient, ConvAt
<1>4. \/ ConvMoves(log[n]) /\ lost' = lost
      \/ lost = {} /\ lost' = IF log[n].kind = "truncate" THEN Keys ELSE {log[n].key}
  <2>1. CASE Conv!DropsDuplicate
    <3>1. Conv!Duplicate(log[n]) /\ lost' = lost
      BY <1>3, <2>1 DEF Conv!DropsDuplicate
    <3>2. ConvMoves(log[n])
      BY <1>2, <3>1, ConvWhereIsKey DEF Conv!Duplicate
    <3> QED
      BY <3>1, <3>2
  <2>2. CASE Conv!DropsTransient
    BY <1>3, <2>2 DEF Conv!DropsTransient
  <2> QED
    BY <2>1, <2>2
<1>5. lost' \subseteq Keys /\ lost \subseteq lost'
  <2>1. log[n].kind = "truncate" \/ log[n].key \in Keys
    BY <1>2 DEF ConvAt, ConvMade
  <2> QED
    BY <1>0, <1>4, <2>1 DEF ConvTypes
<1>6. Conv!TypeOK'
  <2>1. next' \in 1..Len(log) + 1
    BY <1>2, <1>3 DEF ConvAt
  <2>2. ConvTypes'
    BY <1>0, <1>3, <1>5, <2>1 DEF ConvTypes, ConvTableType, ConvEventType
  <2> QED
    BY <2>2, ConvTypesHold
<1>7. \A k \in Keys \ (Conv!Moved \cup lost') : ConvFollows(S, k, tgt'[k], next' - 1)
  <2> TAKE k \in Keys \ (Conv!Moved \cup lost')
  <2>1. ConvFollows(S, k, tgt[k], n - 1)
    BY <1>1, <1>3, <1>5
  <2>2. ConvMoves(log[n]) => k \notin {log[n].old, log[n].key}
    BY <1>2, ConvMovedKeys
  <2>3. k # log[n].key /\ log[n].kind # "truncate"
    BY <1>4, <2>2 DEF ConvMoves
  <2>4. S[n][k] = S[n - 1][k]
    BY <1>2, <2>2, <2>3, ConvElsewhere
  <2>5. next' - 1 = n /\ Len(log) \in Nat
    BY <1>2, <1>3 DEF ConvAt
  <2> QED
    BY <1>3, <2>1, <2>4, <2>5, ConvLater
<1> QED
  BY <1>1, <1>3, <1>6, <1>7, ConvWorkerStep

\* The worker goes back: every claim is weaker.
LEMMA ConvRestartsStep == ASSUME ConvKeyed, ConvInv, Conv!Restarts PROVE ConvInv'
<1>0. ConvTypes
  BY ConvTypesHold DEF ConvInv
<1>1. PICK S : ConvHistory(S) /\ \A k \in Keys \ (Conv!Moved \cup lost) :
           ConvFollows(S, k, tgt[k], next - 1)
  BY DEF ConvInv
<1>2. next' \in 1..next /\ rewinds' = rewinds + 1 /\ UNCHANGED <<setup, src, log, tgt, lost>>
  BY DEF Conv!Restarts
<1>3. next \in 1..Len(log) + 1 /\ Len(log) \in Nat
  BY <1>0 DEF ConvTypes
<1>4. Conv!TypeOK'
  <2>1. next' \in 1..Len(log) + 1
    BY <1>2, <1>3
  <2>2. ConvTypes'
    BY <1>0, <1>2, <2>1 DEF ConvTypes, ConvTableType, ConvEventType
  <2> QED
    BY <2>2, ConvTypesHold
<1>5. \A k \in Keys \ (Conv!Moved \cup lost') : ConvFollows(S, k, tgt'[k], next' - 1)
  <2>1. next - 1 \in 0..Len(log)
    BY <1>3
  <2>2. next' \in 1..next /\ next \in Nat
    BY <1>2, <1>3
  <2>3. next' - 1 \in 0..(next - 1)
    <3>1. PICK m \in 1..next : next' = m
      BY <2>2
    <3>2. m - 1 \in 0..(next - 1)
      BY <2>2
    <3> QED
      BY <3>1, <3>2
  <2> QED
    BY <1>1, <1>2, <1>3, <2>1, <2>3, ConvEarlier
<1> QED
  BY <1>1, <1>2, <1>4, <1>5, ConvWorkerStep

\* The whole.
LEMMA ConvInitInv == ASSUME Conv!Init PROVE ConvInv
<1>1. PICK some \in SUBSET Keys :
        src = [k \in Keys |-> IF k \in some THEN [v |-> 0, t |-> 0] ELSE Conv!NoRow]
  BY DEF Conv!Init
<1>2. /\ setup \in [strategy : Strategies, identity : {"default", "full"}]
      /\ tgt = src /\ log = <<>> /\ next = 1 /\ lost = {} /\ rewinds = 0
  BY DEF Conv!Init
<1>3. src \in ConvTableType
  BY <1>1 DEF ConvTableType, Conv!Row
<1>4. log \in Seq(ConvEventType) /\ Len(log) = 0
  BY <1>2
<1>5. Conv!TypeOK
  <2>1. ConvTypes
    BY <1>2, <1>3, <1>4 DEF ConvTypes
  <2> QED
    BY <2>1, ConvTypesHold
<1>6. PICK s \in ConvTableType : s = src
  BY <1>3
<1> DEFINE S == [i \in 0..0 |-> s]
<1>7. ConvHistory(S)
  BY <1>4, <1>6 DEF ConvHistory
<1>8. \A k \in Keys : ConvFollows(S, k, tgt[k], next - 1)
  <2>1. 0 \in 0..Len(log) /\ next - 1 = 0 /\ S[0] = tgt /\ Len(log) \in Nat
    BY <1>2, <1>4, <1>6
  <2> HIDE DEF S
  <2> QED
    BY <2>1, ConvExactly
<1> QED
  BY <1>5, <1>7, <1>8 DEF ConvInv

LEMMA ConvStutterStep == ASSUME ConvInv, UNCHANGED Conv!vars PROVE ConvInv'
<1>0. ConvTypes
  BY ConvTypesHold DEF ConvInv
<1>1. PICK S : ConvHistory(S) /\ \A k \in Keys \ (Conv!Moved \cup lost) :
           ConvFollows(S, k, tgt[k], next - 1)
  BY DEF ConvInv
<1>2. UNCHANGED <<setup, src, log, next, tgt, lost, rewinds>>
  BY DEF Conv!vars
<1>3. ConvTypes'
  BY <1>0, <1>2 DEF ConvTypes, ConvTableType, ConvEventType
<1> QED
  BY <1>1, <1>2, <1>3, ConvTypesHold, ConvWorkerStep

LEMMA ConvNextStep == ASSUME ConvKeyed, ConvInv, Conv!Next PROVE ConvInv'
<1>1. CASE Conv!SourceInserts \/ Conv!SourceUpdates \/ Conv!SourceDeletes \/ Conv!SourceTruncates
  BY <1>1, ConvInsertsStep, ConvUpdatesStep, ConvDeletesStep, ConvTruncatesStep
<1>2. CASE Conv!Applies \/ Conv!DropsDuplicate \/ Conv!DropsTransient \/ Conv!Restarts
  BY <1>2, ConvAppliesStep, ConvDropsStep, ConvRestartsStep
<1> QED
  BY <1>1, <1>2 DEF Conv!Next

\* At the end of the log the only moment left is the last.
LEMMA ConvConverged == ASSUME ConvInv PROVE Conv!RowsConverge
<1> SUFFICES ASSUME next > Len(log), NEW k \in Keys \ (Conv!Moved \cup lost) PROVE tgt[k] = src[k]
  BY DEF Conv!RowsConverge
<1>1. PICK S : ConvHistory(S) /\ ConvFollows(S, k, tgt[k], next - 1)
  BY DEF ConvInv
<1>2. ConvTypes
  BY ConvTypesHold DEF ConvInv
<1>3. Len(log) \in Nat /\ next - 1 = Len(log) /\ tgt[k] \in Conv!Row \cup {Conv!NoRow}
      /\ src[k] \in Conv!Row \cup {Conv!NoRow} /\ S[Len(log)] = src
  BY <1>1, <1>2 DEF ConvTypes, ConvTableType, ConvHistory
<1>4. \A m \in (next - 1)..Len(log) : S[m] = src
  BY <1>3
<1> QED
  BY <1>1, <1>3, <1>4, ConvRowFields DEF ConvFollows

-----------------------------------------------------------------------------
(* Ddl: statements and rows on two channels.  The tables of the source are  *)
(* a function of its log; of each cursor of the poller, in memory and in    *)
(* the file, it is claimed that the target has what the log says up to it.  *)

DdlL == Len(wal)
DdlEntryType == [kind : Ddl!Kinds, table : Tables, cols : SUBSET Nat]
DdlRelType == [here : BOOLEAN, cols : SUBSET Nat, rows : SUBSET Nat]
DdlWithin(r) == r.cols \subseteq Ddl!Ops /\ r.rows \subseteq Ddl!Ops

DdlTypes ==
  /\ wal \in Seq(DdlEntryType) /\ \A i \in Ddl!Ops : wal[i].cols \subseteq Ddl!Ops
  /\ src \in [Tables -> DdlRelType] /\ tgt \in [Tables -> DdlRelType]
  /\ \A t \in Tables : DdlWithin(src[t]) /\ DdlWithin(tgt[t])
  /\ open \subseteq Ddl!Ops /\ ddlLog \subseteq Ddl!Ops /\ trigger \in BOOLEAN
  /\ \A i \in ddlLog : wal[i].kind # "row"
  /\ poller \in {"down", "off", "on", "halted"}
  /\ lastID \in 0..DdlL /\ dml \in 1..DdlL + 1
  /\ saved \in [lsn : 1..DdlL + 1, ddl : 0..DdlL]
  /\ missing \subseteq Tables /\ counted \subseteq Ddl!Ops
  /\ batch \subseteq ddlLog \ open /\ marked \subseteq ddlLog \ open
     /\ executed \subseteq ddlLog \ open

DdlCursors ==
  /\ saved.ddl <= lastID /\ saved.lsn <= dml
  /\ \A i \in batch : i > lastID
  /\ batch # {} => \A i \in executed \cup marked : i > lastID => i \in batch

\* Between i and n the table is dropped, or created.
DdlDropped(t, i, n) == \E d \in Ddl!Of(t) : i < d /\ d <= n /\ wal[d].kind = "drop"
DdlCreated(t, i, n) == \E c \in Ddl!Of(t) : i < c /\ c <= n /\ wal[c].kind = "create"

\* The columns the source had after operation n; whether it had the table: H are
\* the tables of the beginning.
DdlCols(t, n) == {i \in Ddl!Of(t) : i <= n /\ wal[i].kind \in {"add", "odd"}
                  /\ ~DdlDropped(t, i, n)}
DdlHere(H, t, n) ==
  \/ t \in H /\ ~DdlDropped(t, 0, n)
  \/ \E c \in Ddl!Of(t) : c <= n /\ wal[c].kind = "create" /\ ~DdlDropped(t, c, n)
DdlRowsOf(t) == {i \in Ddl!Of(t) : wal[i].kind = "row"}

\* The source is what its log says.
DdlWorld(H, t) ==
  /\ src[t].cols = DdlCols(t, DdlL) /\ (src[t].here <=> DdlHere(H, t, DdlL))
  /\ \A i \in Ddl!Of(t) : wal[i].kind \in {"add", "odd"} => DdlHere(H, t, i)

\* What a table of the target has came from the log.
DdlSane(t) ==
  /\ ~src[t].here => src[t] = Ddl!NoTable
  /\ ~tgt[t].here => tgt[t] = Ddl!NoTable
  /\ tgt[t].cols \subseteq executed /\ tgt[t].rows \subseteq DdlRowsOf(t)
  /\ ~DdlDropped(t, 0, DdlL) =>
       /\ src[t].rows = DdlRowsOf(t)
       /\ \A i \in DdlRowsOf(t) : i < dml => i \in counted \cup tgt[t].rows
  /\ DdlDropped(t, 0, DdlL) /\ ~Ddl!Recreated(t) => ~src[t].here

\* The two ways a statement goes unseen: it is not logged, or not understood; the
\* cursor passed it.
DdlLacks(t) == \E i \in Ddl!Statements(t) : i \notin ddlLog \/ wal[i].kind = "odd"
DdlPassed(t, n) ==
  \E i \in Ddl!Statements(t) : i <= n /\ wal[i].kind # "rider" /\ i \notin executed \cup marked

\* The target has what the source had after n; what it has beyond that is of later
\* statements, executed before a restart.
DdlAgrees(H, t, n) ==
  /\ tgt[t].cols \subseteq src[t].cols
  /\ DdlCols(t, n) \subseteq tgt[t].cols
  /\ DdlHere(H, t, n) => tgt[t].here
  /\ tgt[t].here => DdlHere(H, t, n) \/ DdlCreated(t, n, DdlL)

\* What holds of a cursor at n: of the one in memory and of the saved one.
DdlClaim(H, t, n) == DdlLacks(t) \/ DdlPassed(t, n) \/ DdlDropped(t, n, DdlL) \/ DdlAgrees(H, t, n)

DdlInv ==
  /\ DdlTypes /\ DdlCursors /\ \A t \in Tables : DdlSane(t)
  /\ \E H : \A t \in Tables : DdlWorld(H, t) /\ DdlClaim(H, t, lastID) /\ DdlClaim(H, t, saved.ddl)

\* What the poller will not come to again is dealt with, but for what was or still is
\* uncommitted.
DdlOutOfReach(i) ==
  i <= saved.ddl \/ (poller # "down" /\ i <= lastID) \/ \E j \in batch : i < j
DdlStepped ==
  /\ late \subseteq ddlLog /\ (poller = "down" => batch = {})
  /\ \A i \in ddlLog \ batch :
       DdlOutOfReach(i) /\ wal[i].kind # "rider" => i \in executed \cup marked \cup late \cup open

-----------------------------------------------------------------------------
LEMMA DdlTypesImply == ASSUME DdlTypes, DdlStepped PROVE Ddl!TypeOK
<1>1. \A i \in Ddl!Ops : wal[i] \in DdlEntryType
  BY DEF DdlTypes, Ddl!Ops
<1>2. \A t \in Tables : src[t] \in DdlRelType /\ tgt[t] \in DdlRelType
  BY DEF DdlTypes
<1>3. \A t \in Tables : Ddl!IsTable(src[t]) /\ Ddl!IsTable(tgt[t])
  BY <1>2 DEF DdlTypes, DdlWithin, Ddl!IsTable, DdlRelType
<1>4. \A i \in Ddl!Ops : wal[i].kind \in Ddl!Kinds /\ wal[i].table \in Tables
        /\ wal[i].cols \subseteq Ddl!Ops
  BY <1>1 DEF DdlTypes, DdlEntryType
<1>5. saved.ddl \in 0..DdlL /\ saved.lsn \in 1..DdlL + 1
  BY DEF DdlTypes
<1> QED
  BY <1>3, <1>4, <1>5 DEF DdlTypes, DdlStepped, Ddl!TypeOK, DdlL

\* Where the cursors may be.
LEMMA DdlPlaces ==
  ASSUME DdlTypes
  PROVE  /\ DdlL \in Nat /\ Ddl!Ops = 1..DdlL /\ lastID \in Nat /\ saved.ddl \in Nat
            /\ lastID <= DdlL
         /\ \A t : Ddl!Of(t) \subseteq 1..DdlL
         /\ \A i \in 1..DdlL : wal[i].kind \in Ddl!Kinds /\ wal[i].table \in Tables
         /\ dml \in Nat /\ saved.lsn \in Nat /\ saved.ddl <= DdlL
<1>1. DdlL \in Nat /\ Ddl!Ops = 1..DdlL
  BY DEF DdlTypes, DdlL, Ddl!Ops
<1>2. \A i \in 1..DdlL : wal[i] \in DdlEntryType
  BY DEF DdlTypes, DdlL
<1>3. lastID \in 0..DdlL /\ dml \in 1..DdlL + 1 /\ saved.ddl \in 0..DdlL
      /\ saved.lsn \in 1..DdlL + 1
  BY DEF DdlTypes
<1> QED
  BY <1>1, <1>2, <1>3 DEF Ddl!Of, DdlEntryType

\* The log is longer by one operation.
LEMMA DdlAppended ==
  ASSUME DdlTypes, NEW e \in DdlEntryType, wal' = Append(wal, e)
  PROVE  /\ DdlL' = DdlL + 1 /\ wal' \in Seq(DdlEntryType) /\ Ddl!Ops' = Ddl!Ops \cup {DdlL + 1}
            /\ DdlL + 1 \notin Ddl!Ops
         /\ wal'[DdlL + 1] = e /\ \A i \in 1..DdlL : wal'[i] = wal[i]
         /\ \A t : Ddl!Of(t)' = IF e.table = t THEN Ddl!Of(t) \cup {DdlL + 1} ELSE Ddl!Of(t)
<1>1. DdlL' = DdlL + 1 /\ wal' \in Seq(DdlEntryType) /\ wal'[DdlL + 1] = e /\ \A i \in 1..DdlL :
      wal'[i] = wal[i]
  BY DEF DdlTypes, DdlL
<1>2. Ddl!Ops' = Ddl!Ops \cup {DdlL + 1} /\ DdlL + 1 \notin Ddl!Ops
  <2>1. Ddl!Ops = 1..DdlL /\ Ddl!Ops' = 1..DdlL' /\ DdlL \in Nat
    BY DdlPlaces DEF Ddl!Ops, DdlL
  <2> QED
    BY <1>1, <2>1
<1>3. \A t : Ddl!Of(t)' = IF e.table = t THEN Ddl!Of(t) \cup {DdlL + 1} ELSE Ddl!Of(t)
  BY <1>1, <1>2, DdlPlaces DEF Ddl!Of
<1> QED
  BY <1>1, <1>2, <1>3

\* What an older place of the log says does not change,
LEMMA DdlOldHistory ==
  ASSUME DdlTypes, NEW e \in DdlEntryType, wal' = Append(wal, e), NEW t, NEW n \in 0..DdlL
  PROVE  /\ \A i : DdlDropped(t, i, n)' <=> DdlDropped(t, i, n)
         /\ DdlCols(t, n)' = DdlCols(t, n)
         /\ \A H : DdlHere(H, t, n)' <=> DdlHere(H, t, n)
<1>1. /\ DdlL \in Nat /\ Ddl!Of(t) \subseteq 1..DdlL /\ \A i \in 1..DdlL : wal'[i] = wal[i]
      /\ Ddl!Of(t)' = IF e.table = t THEN Ddl!Of(t) \cup {DdlL + 1} ELSE Ddl!Of(t)
  BY DdlPlaces, DdlAppended
<1>2. \A i : i \in Ddl!Of(t)' /\ i <= n <=> i \in Ddl!Of(t) /\ i <= n
  BY <1>1
<1>3. \A i \in Ddl!Of(t) : wal'[i] = wal[i]
  BY <1>1
<1>4. \A i : DdlDropped(t, i, n)' <=> DdlDropped(t, i, n)
  BY <1>2, <1>3 DEF DdlDropped
<1>5. DdlCols(t, n)' = DdlCols(t, n)
  BY <1>2, <1>3, <1>4 DEF DdlCols
<1>6. \A H : DdlHere(H, t, n)' <=> DdlHere(H, t, n)
  BY <1>2, <1>3, <1>4 DEF DdlHere
<1> QED
  BY <1>4, <1>5, <1>6

\* and what the operation adds to it.
LEMMA DdlNewHistory ==
  ASSUME DdlTypes, NEW e \in DdlEntryType, wal' = Append(wal, e), NEW t
  PROVE  /\ \A i \in 0..DdlL : DdlDropped(t, i, DdlL)'
              <=> DdlDropped(t, i, DdlL) \/ (e.table = t /\ e.kind = "drop")
         /\ DdlCols(t, DdlL)' = IF e.table = t /\ e.kind = "drop" THEN {}
                          ELSE DdlCols(t, DdlL) \cup IF e.table = t /\ e.kind \in {"add", "odd"}
                                               THEN {DdlL + 1} ELSE {}
         /\ \A H : DdlHere(H, t, DdlL)' <=>
              IF e.table = t /\ e.kind = "drop" THEN FALSE
              ELSE DdlHere(H, t, DdlL) \/ (e.table = t /\ e.kind = "create")
<1> DEFINE mine == e.table = t
           drop == mine /\ e.kind = "drop"
<1>1. PICK n \in Nat : n = DdlL
  BY DdlPlaces
<1>2. /\ Ddl!Of(t) \subseteq 1..n /\ DdlL' = n + 1 /\ wal'[n + 1] = e
      /\ \A i \in 1..n : wal'[i] = wal[i]
      /\ Ddl!Of(t)' = IF mine THEN Ddl!Of(t) \cup {n + 1} ELSE Ddl!Of(t)
  BY <1>1, DdlPlaces, DdlAppended
<1>3. /\ \A i \in Ddl!Of(t) : i \in Int /\ i <= n /\ i <= n + 1 /\ i \in 0..n /\ i < n + 1
           /\ wal'[i] = wal[i]
      /\ n + 1 <= n + 1 /\ n + 1 \in Int /\ ~(n + 1 < n + 1)
      /\ \A i \in 0..n : i < n + 1 /\ i \in Int
  <2>1. Ddl!Of(t) \subseteq 1..n
    BY <1>2
  <2>2. \A i \in 1..n : i \in Int /\ i <= n /\ i <= n + 1 /\ i \in 0..n /\ i < n + 1
    OBVIOUS
  <2>3. \A i \in 1..n : wal'[i] = wal[i]
    BY <1>2
  <2>4. \A i \in Ddl!Of(t) : i \in 1..n
    BY <2>1
  <2>5. \A i \in Ddl!Of(t) : i \in Int /\ i <= n /\ i <= n + 1 /\ i \in 0..n /\ i < n + 1
          /\ wal'[i] = wal[i]
    BY <2>2, <2>3, <2>4
  <2>6. /\ n + 1 <= n + 1 /\ n + 1 \in Int /\ ~(n + 1 < n + 1)
        /\ \A i \in 0..n : i < n + 1 /\ i \in Int
    OBVIOUS
  <2> QED
    BY <2>5, <2>6
<1>4. \A i : DdlDropped(t, i, DdlL)' <=> \E d \in Ddl!Of(t)' :
        i < d /\ d <= n + 1 /\ wal'[d].kind = "drop"
  BY <1>2 DEF DdlDropped
<1>5. \A i : DdlDropped(t, i, DdlL) <=> \E d \in Ddl!Of(t) : i < d /\ wal[d].kind = "drop"
  BY <1>1, <1>3 DEF DdlDropped
<1>6. \A i : \/ mine /\ (DdlDropped(t, i, DdlL)'
                         <=> DdlDropped(t, i, DdlL) \/ (i < n + 1 /\ e.kind = "drop"))
             \/ ~mine /\ (DdlDropped(t, i, DdlL)' <=> DdlDropped(t, i, DdlL))
  <2>1. CASE ~mine
    <3>1. Ddl!Of(t)' = Ddl!Of(t)
      BY <1>2, <2>1
    <3> QED
      BY <1>3, <1>4, <1>5, <2>1, <3>1
  <2>2. CASE mine
    <3>1. \A i : i \in Ddl!Of(t)' <=> i \in Ddl!Of(t) \/ i = n + 1
      BY <1>2, <2>2
    <3>2. wal'[n + 1].kind = "drop" <=> e.kind = "drop"
      BY <1>2
    <3> HIDE DEF mine, drop
    <3> QED
      BY <1>3, <1>4, <1>5, <2>2, <3>1, <3>2
  <2> QED
    BY <2>1, <2>2
<1>7. \A i \in 0..n : DdlDropped(t, i, DdlL)' <=> DdlDropped(t, i, DdlL) \/ drop
  BY <1>3, <1>6
<1>8. mine => ~DdlDropped(t, n + 1, DdlL)'
  BY <1>2, <1>3, <1>4
<1>9. \A i \in Ddl!Of(t) : DdlDropped(t, i, DdlL)' <=> DdlDropped(t, i, DdlL) \/ drop
  BY <1>3, <1>7
<1> HIDE DEF drop, mine
<1>10. DdlCols(t, DdlL)' = {i \in Ddl!Of(t)' :
                            i <= n + 1 /\ wal'[i].kind \in {"add", "odd"}
                            /\ ~DdlDropped(t, i, DdlL)'}
  BY <1>2 DEF DdlCols
<1>11. DdlCols(t, DdlL) = {i \in Ddl!Of(t) : wal[i].kind \in {"add", "odd"}
                           /\ ~DdlDropped(t, i, DdlL)}
  BY <1>1, <1>3 DEF DdlCols
<1>12. \A H : DdlHere(H, t, DdlL)' <=>
        \/ t \in H /\ ~DdlDropped(t, 0, DdlL)'
        \/ \E c \in Ddl!Of(t)' : c <= n + 1 /\ wal'[c].kind = "create" /\ ~DdlDropped(t, c, DdlL)'
  BY <1>2 DEF DdlHere
<1>13. \A H : DdlHere(H, t, DdlL) <=>
         \/ t \in H /\ ~DdlDropped(t, 0, DdlL)
         \/ \E c \in Ddl!Of(t) : wal[c].kind = "create" /\ ~DdlDropped(t, c, DdlL)
  BY <1>1, <1>3 DEF DdlHere
<1>14. DdlDropped(t, 0, DdlL)' <=> DdlDropped(t, 0, DdlL) \/ drop
  BY <1>7
<1>15. DdlCols(t, DdlL)' = IF drop THEN {} ELSE DdlCols(t, DdlL) \cup IF mine
       /\ e.kind \in {"add", "odd"}
                                                          THEN {n + 1} ELSE {}
  <2> DEFINE new == IF mine /\ e.kind \in {"add", "odd"} THEN {n + 1} ELSE {}
  <2>1. \A i : i \in DdlCols(t, DdlL)' <=> /\ i \in Ddl!Of(t)' /\ i <= n + 1
                                           /\ wal'[i].kind \in {"add", "odd"}
                                              /\ ~DdlDropped(t, i, DdlL)'
    BY <1>10
  <2>2. \A i : i \in DdlCols(t, DdlL) <=> /\ i \in Ddl!Of(t) /\ wal[i].kind \in {"add", "odd"}
                                          /\ ~DdlDropped(t, i, DdlL)
    BY <1>11
  <2>3. \A i \in Ddl!Of(t) : i \in DdlCols(t, DdlL)' <=> i \in DdlCols(t, DdlL) /\ ~drop
    BY <1>2, <1>3, <1>9, <2>1, <2>2 DEF mine
  <2>4. \A i : i \in Ddl!Of(t)' <=> i \in Ddl!Of(t) \/ (mine /\ i = n + 1)
    BY <1>2 DEF mine
  <2>5. mine => (n + 1 \in DdlCols(t, DdlL)' <=> e.kind \in {"add", "odd"})
    BY <1>2, <1>3, <1>8, <2>1, <2>4
  <2>6. e.kind \in {"add", "odd"} => ~drop
    BY DEF drop
  <2>7. \A i : i \in DdlCols(t, DdlL)' <=> (i \in DdlCols(t, DdlL) /\ ~drop) \/ i \in new
    BY <2>1, <2>2, <2>3, <2>4, <2>5, <1>3
  <2>8. new # {} => ~drop
    BY <2>6
  <2> QED
    BY <2>7, <2>8
<1>16. \A H : DdlHere(H, t, DdlL)' <=> IF drop THEN FALSE
         ELSE DdlHere(H, t, DdlL) \/ (mine /\ e.kind = "create")
  <2> TAKE H
  <2>1. \A i : i \in Ddl!Of(t)' <=> i \in Ddl!Of(t) \/ (mine /\ i = n + 1)
    BY <1>2 DEF mine
  <2>2. CASE drop
    <3>1. e.kind = "drop"
      BY <2>2 DEF drop
    <3> QED
      BY <1>2, <1>3, <1>9, <1>12, <1>14, <2>1, <2>2, <3>1
  <2>3. CASE ~drop
    BY <1>2, <1>3, <1>8, <1>9, <1>12, <1>13, <1>14, <2>1, <2>3
  <2> QED
    BY <2>2, <2>3
<1> QED
  BY <1>1, <1>7, <1>15, <1>16 DEF drop, mine

-----------------------------------------------------------------------------
(* The source. *)

\* What an operation makes of its table.
DdlBecomes(kind, t, table) ==
  \/ kind = "create" /\ ~src[t].here /\ table = Ddl!NewTable
  \/ kind = "drop" /\ src[t].here /\ table = Ddl!NoTable
  \/ kind \in {"add", "odd"} /\ src[t].here /\ table = [src[t] EXCEPT !.cols = @ \cup {Ddl!Op}]
  \/ kind = "rider" /\ table = src[t]
  \/ kind = "row" /\ src[t].here /\ table = [src[t] EXCEPT !.rows = @ \cup {Ddl!Op}]

LEMMA DdlBecomesTable ==
  ASSUME DdlTypes, NEW t \in Tables, NEW kind, NEW table, DdlBecomes(kind, t, table)
  PROVE  /\ table \in DdlRelType /\ table.cols \subseteq Ddl!Ops \cup {DdlL + 1}
         /\ table.rows \subseteq Ddl!Ops \cup {DdlL + 1}
         /\ kind = "create" => table = Ddl!NewTable /\ table.here /\ table.cols = {}
            /\ table.rows = {}
         /\ kind = "drop" => table = Ddl!NoTable /\ ~table.here /\ table.cols = {}
            /\ table.rows = {}
         /\ kind \notin {"create", "drop"} =>
              /\ table.here = src[t].here
              /\ table.cols = src[t].cols \cup IF kind \in {"add", "odd"} THEN {DdlL + 1} ELSE {}
              /\ table.rows = src[t].rows \cup IF kind = "row" THEN {DdlL + 1} ELSE {}
<1>1. src[t] \in DdlRelType /\ DdlWithin(src[t]) /\ DdlL \in Nat /\ Ddl!Op = DdlL + 1
  BY DdlPlaces DEF DdlTypes, Ddl!Op, DdlL
<1>2. CASE kind = "create"
  <2>1. table = Ddl!NewTable
    BY <1>2 DEF DdlBecomes
  <2> QED
    BY <1>2, <2>1 DEF Ddl!NewTable, DdlRelType
<1>3. CASE kind = "drop"
  <2>1. table = Ddl!NoTable
    BY <1>3 DEF DdlBecomes
  <2> QED
    BY <1>3, <2>1 DEF Ddl!NoTable, DdlRelType
<1>4. CASE kind \in {"add", "odd"}
  <2>1. table = [src[t] EXCEPT !.cols = @ \cup {DdlL + 1}]
    BY <1>1, <1>4 DEF DdlBecomes
  <2> QED
    BY <1>1, <1>4, <2>1 DEF DdlRelType, DdlWithin
<1>5. CASE kind = "rider"
  BY <1>1, <1>5 DEF DdlBecomes, DdlRelType, DdlWithin
<1>6. CASE kind = "row"
  <2>1. table = [src[t] EXCEPT !.rows = @ \cup {DdlL + 1}]
    BY <1>1, <1>6 DEF DdlBecomes
  <2> QED
    BY <1>1, <1>6, <2>1 DEF DdlRelType, DdlWithin
<1> QED
  BY <1>2, <1>3, <1>4, <1>5, <1>6 DEF DdlBecomes

\* A step of the source: the claims are about places behind it.
LEMMA DdlDoesStep ==
  ASSUME DdlInv, NEW t \in Tables, NEW kind \in Ddl!Kinds, NEW table,
         DdlBecomes(kind, t, table), Ddl!Does(kind, t, table)
  PROVE  DdlInv'
<1>0. DdlTypes /\ DdlCursors /\ \A u \in Tables : DdlSane(u)
  BY DEF DdlInv
<1>1. PICK n \in Nat : n = DdlL
  BY <1>0, DdlPlaces
<1>2. PICK e : e = [kind |-> kind, table |-> t, cols |-> IF kind = "row" THEN src[t].cols ELSE {}]
  OBVIOUS
<1>3. /\ wal' = Append(wal, e) /\ src' = [src EXCEPT ![t] = table]
      /\ ddlLog' = IF trigger /\ kind # "row" THEN ddlLog \cup {n + 1} ELSE ddlLog
      /\ open' \in {open, open \cup {n + 1}}
      /\ UNCHANGED <<trigger, Ddl!pollVars, Ddl!rowVars, saved, tgt, marked, executed, restarts>>
  BY <1>1, <1>2 DEF Ddl!Does, Ddl!Op, DdlL
<1>4. e \in DdlEntryType /\ e.table = t /\ e.kind = kind /\ e.cols \subseteq Ddl!Ops
  <2>1. src[t].cols \subseteq Ddl!Ops /\ src[t] \in DdlRelType
    BY <1>0 DEF DdlTypes, DdlWithin
  <2> QED
    BY <1>2, <2>1 DEF DdlEntryType, DdlRelType
<1>5. /\ DdlL' = n + 1 /\ wal' \in Seq(DdlEntryType) /\ Ddl!Ops' = Ddl!Ops \cup {n + 1}
         /\ n + 1 \notin Ddl!Ops
      /\ wal'[n + 1] = e /\ \A i \in 1..n : wal'[i] = wal[i]
      /\ \A u : Ddl!Of(u)' = IF t = u THEN Ddl!Of(u) \cup {n + 1} ELSE Ddl!Of(u)
  BY <1>0, <1>1, <1>3, <1>4, DdlAppended
<1>6. /\ Ddl!Ops = 1..n /\ \A u : Ddl!Of(u) \subseteq 1..n
      /\ lastID \in 0..n /\ saved.ddl \in 0..n /\ dml \in 1..n + 1 /\ saved.lsn \in 1..n + 1
  BY <1>0, <1>1, DdlPlaces DEF DdlTypes
<1>7. /\ table \in DdlRelType /\ table.cols \subseteq Ddl!Ops' /\ table.rows \subseteq Ddl!Ops'
      /\ kind = "create" => table = Ddl!NewTable /\ table.here /\ table.cols = {} /\ table.rows = {}
      /\ kind = "drop" => table = Ddl!NoTable /\ ~table.here /\ table.cols = {} /\ table.rows = {}
      /\ kind \notin {"create", "drop"} =>
           /\ table.here = src[t].here
           /\ table.cols = src[t].cols \cup IF kind \in {"add", "odd"} THEN {n + 1} ELSE {}
           /\ table.rows = src[t].rows \cup IF kind = "row" THEN {n + 1} ELSE {}
  BY <1>0, <1>1, <1>5, DdlBecomesTable
<1>8. /\ src' \in [Tables -> DdlRelType] /\ src'[t] = table
      /\ \A u \in Tables : u # t => src'[u] = src[u]
  BY <1>0, <1>3, <1>7 DEF DdlTypes
<1>9. /\ UNCHANGED <<trigger, poller, lastID, batch, dml, missing, counted, saved, tgt, marked,
                     executed>>
      /\ ddlLog \subseteq ddlLog' /\ ddlLog' \subseteq ddlLog \cup {n + 1}
      /\ open' \subseteq open \cup {n + 1}
  BY <1>3 DEF Ddl!pollVars, Ddl!rowVars
<1>10. n + 1 \notin ddlLog /\ n + 1 \notin open
  BY <1>0, <1>5 DEF DdlTypes
<1>11. DdlTypes'
  <2>1. \A i \in Ddl!Ops' : wal'[i].cols \subseteq Ddl!Ops'
    <3>1. \A i \in Ddl!Ops : wal[i].cols \subseteq Ddl!Ops
      BY <1>0 DEF DdlTypes
    <3> QED
      BY <1>4, <1>5, <1>6, <3>1
  <2>2. \A u \in Tables : DdlWithin(src[u])' /\ DdlWithin(tgt[u])'
    <3>1. \A u \in Tables : DdlWithin(src[u]) /\ DdlWithin(tgt[u])
      BY <1>0 DEF DdlTypes
    <3> QED
      BY <1>5, <1>7, <1>8, <1>9, <3>1 DEF DdlWithin
  <2>3. open' \subseteq Ddl!Ops' /\ ddlLog' \subseteq Ddl!Ops' /\ counted' \subseteq Ddl!Ops'
    BY <1>0, <1>5, <1>9 DEF DdlTypes
  <2>4. lastID' \in 0..DdlL' /\ dml' \in 1..DdlL' + 1
    BY <1>5, <1>6, <1>9
  <2>5. saved' \in [lsn : 1..DdlL' + 1, ddl : 0..DdlL']
    <3>1. saved \in [lsn : 1..n + 1, ddl : 0..n]
      BY <1>0, <1>1 DEF DdlTypes
    <3>2. 1..n + 1 \subseteq 1..(n + 1) + 1 /\ 0..n \subseteq 0..n + 1
      OBVIOUS
    <3> QED
      BY <1>5, <1>9, <3>1, <3>2
  <2>6. batch' \subseteq ddlLog' \ open' /\ marked' \subseteq ddlLog' \ open'
        /\ executed' \subseteq ddlLog' \ open'
    BY <1>0, <1>9, <1>10 DEF DdlTypes
  <2>7. \A i \in ddlLog' : wal'[i].kind # "row"
    <3>1. \A i \in ddlLog : wal[i].kind # "row" /\ i \in 1..n
      BY <1>0, <1>6 DEF DdlTypes
    <3> QED
      BY <1>3, <1>4, <1>5, <3>1
  <2> QED
    BY <1>0, <1>5, <1>8, <1>9, <2>1, <2>2, <2>3, <2>4, <2>5, <2>6, <2>7 DEF DdlTypes,
      DdlRelType, DdlEntryType
<1>12. DdlCursors'
  BY <1>0, <1>9 DEF DdlCursors
<1>13. /\ \A u, i : DdlDropped(u, i, DdlL) /\ i \in Int => DdlDropped(u, i, DdlL)'
       /\ \A u : \A i \in 0..n : DdlDropped(u, i, DdlL)'
            <=> DdlDropped(u, i, DdlL) \/ (t = u /\ kind = "drop")
  <2>1. \A u : \A i \in 0..n : DdlDropped(u, i, DdlL)'
          <=> DdlDropped(u, i, DdlL) \/ (t = u /\ kind = "drop")
    BY <1>0, <1>1, <1>3, <1>4, DdlNewHistory
  <2>2. ASSUME NEW u, NEW i, DdlDropped(u, i, DdlL), i \in Int PROVE DdlDropped(u, i, DdlL)'
    <3>1. PICK d \in Ddl!Of(u) : i < d /\ d <= n /\ wal[d].kind = "drop"
      BY <1>1, <2>2 DEF DdlDropped
    <3>2. d \in Ddl!Of(u)' /\ d <= n + 1 /\ wal'[d].kind = "drop"
      BY <1>5, <1>6, <3>1
    <3> QED
      BY <1>5, <3>1, <3>2 DEF DdlDropped
  <2> QED
    BY <2>1, <2>2
<1>14. \A u \in Tables : DdlRowsOf(u)' = DdlRowsOf(u) \cup IF u = t /\ kind = "row" THEN {n + 1}
         ELSE {}
  <2> TAKE u \in Tables
  <2>1. \A i \in Ddl!Of(u) : wal'[i] = wal[i] /\ i # n + 1
    BY <1>5, <1>6
  <2> QED
    BY <1>4, <1>5, <2>1 DEF DdlRowsOf
<1>15. ASSUME NEW u \in Tables PROVE DdlSane(u)'
  <2>1. DdlSane(u)
    BY <1>0
  <2>2. /\ ~src'[u].here => src'[u] = Ddl!NoTable
        /\ ~tgt'[u].here => tgt'[u] = Ddl!NoTable
        /\ tgt'[u].cols \subseteq executed' /\ tgt'[u].rows \subseteq DdlRowsOf(u)'
    <3>1. ~src'[u].here => src'[u] = Ddl!NoTable
      <4>1. CASE u = t /\ kind \in {"create", "drop"}
        BY <1>7, <1>8, <4>1
      <4>2. CASE u = t /\ kind = "rider"
        BY <1>8, <2>1, <4>2 DEF DdlSane, DdlBecomes
      <4>3. CASE u = t /\ kind \in {"add", "odd", "row"}
        BY <1>7, <1>8, <4>3 DEF DdlBecomes
      <4>4. CASE u # t
        BY <1>8, <2>1, <4>4 DEF DdlSane
      <4> QED
        BY <4>1, <4>2, <4>3, <4>4 DEF Ddl!Kinds
    <3> QED
      BY <1>9, <1>14, <2>1, <3>1 DEF DdlSane
  <2>3. ASSUME ~DdlDropped(u, 0, DdlL)'
        PROVE  /\ src'[u].rows = DdlRowsOf(u)'
               /\ \A i \in DdlRowsOf(u)' : i < dml' => i \in counted' \cup tgt'[u].rows
    <3>1. ~DdlDropped(u, 0, DdlL) /\ ~(u = t /\ kind = "drop")
      BY <1>13, <2>3
    <3>2. /\ src[u].rows = DdlRowsOf(u)
          /\ \A i \in DdlRowsOf(u) : i < dml => i \in counted \cup tgt[u].rows
      BY <2>1, <3>1 DEF DdlSane
    <3>3. src'[u].rows = DdlRowsOf(u)'
      <4>1. CASE u # t
        BY <1>8, <1>14, <3>2, <4>1
      <4>2. CASE u = t /\ kind = "create"
        <5>1. src[t] = Ddl!NoTable
          BY <2>1, <4>2 DEF DdlSane, DdlBecomes
        <5> QED
          BY <1>7, <1>8, <1>14, <3>2, <4>2, <5>1 DEF Ddl!NoTable
      <4>3. CASE u = t /\ kind # "create"
        BY <1>7, <1>8, <1>14, <3>1, <3>2, <4>3
      <4> QED
        BY <4>1, <4>2, <4>3
    <3>4. ~(n + 1 < dml)
      BY <1>6
    <3> QED
      BY <1>9, <1>14, <3>2, <3>3, <3>4
  <2>4. DdlDropped(u, 0, DdlL)' /\ ~Ddl!Recreated(u)' => ~src'[u].here
    <3> SUFFICES ASSUME DdlDropped(u, 0, DdlL)', ~Ddl!Recreated(u)', src'[u].here PROVE FALSE
      OBVIOUS
    <3>1. ~(u = t /\ kind = "drop")
      BY <1>7, <1>8
    <3>2. DdlDropped(u, 0, DdlL)
      BY <1>13, <3>1
    <3>3. ~Ddl!Recreated(u)
      <4>1. Ddl!Recreated(u) => Ddl!Recreated(u)'
        BY <1>5, <1>6 DEF Ddl!Recreated
      <4> QED
        BY <4>1
    <3>4. ~src[u].here
      BY <2>1, <3>2, <3>3 DEF DdlSane
    <3>5. u = t /\ kind = "create"
      BY <1>7, <1>8, <3>1, <3>4
    <3>6. PICK d \in Ddl!Of(u) : d <= n /\ wal[d].kind = "drop"
      BY <1>1, <3>2 DEF DdlDropped
    <3>7. d \in Ddl!Of(u)' /\ n + 1 \in Ddl!Of(u)' /\ d < n + 1 /\ wal'[d].kind = "drop"
          /\ wal'[n + 1].kind = "create"
      BY <1>4, <1>5, <1>6, <3>5, <3>6
    <3> QED
      BY <3>7 DEF Ddl!Recreated
  <2> QED
    BY <2>2, <2>3, <2>4 DEF DdlSane
<1>16. PICK H : \A u \in Tables : DdlWorld(H, u) /\ DdlClaim(H, u, lastID)
            /\ DdlClaim(H, u, saved.ddl)
  BY DEF DdlInv
<1>17. ASSUME NEW u \in Tables PROVE DdlWorld(H, u)'
  <2>1. DdlWorld(H, u)
    BY <1>16
  <2>2. DdlCols(u, DdlL)' = IF u = t /\ kind = "drop" THEN {}
                      ELSE DdlCols(u, DdlL) \cup IF u = t /\ kind \in {"add", "odd"} THEN {n + 1}
                      ELSE {}
    BY <1>0, <1>1, <1>3, <1>4, DdlNewHistory
  <2>3. DdlHere(H, u, DdlL)' <=> IF u = t /\ kind = "drop" THEN FALSE
                           ELSE DdlHere(H, u, DdlL) \/ (u = t /\ kind = "create")
    BY <1>0, <1>3, <1>4, DdlNewHistory
  <2>4. src'[u].cols = DdlCols(u, DdlL)'
    <3>1. CASE u # t
      BY <1>8, <2>1, <2>2, <3>1 DEF DdlWorld
    <3>2. CASE u = t /\ kind = "create"
      <4>1. src[t] = Ddl!NoTable
        BY <1>0, <3>2 DEF DdlSane, DdlBecomes
      <4> QED
        BY <1>7, <1>8, <2>1, <2>2, <3>2, <4>1 DEF DdlWorld, Ddl!NoTable
    <3>3. CASE u = t /\ kind # "create"
      BY <1>7, <1>8, <2>1, <2>2, <3>3 DEF DdlWorld
    <3> QED
      BY <3>1, <3>2, <3>3
  <2>5. src'[u].here <=> DdlHere(H, u, DdlL)'
    BY <1>7, <1>8, <2>1, <2>3 DEF DdlWorld
  <2>6. ASSUME NEW i \in Ddl!Of(u)', wal'[i].kind \in {"add", "odd"} PROVE DdlHere(H, u, i)'
    <3>1. CASE i \in Ddl!Of(u)
      <4>1. i \in 0..DdlL /\ wal'[i] = wal[i]
        BY <1>1, <1>5, <1>6, <3>1
      <4>2. DdlHere(H, u, i)
        BY <2>1, <2>6, <3>1, <4>1 DEF DdlWorld
      <4> QED
        BY <1>0, <1>3, <1>4, <4>1, <4>2, DdlOldHistory
    <3>2. CASE i \notin Ddl!Of(u)
      <4>1. u = t /\ i = n + 1 /\ kind \in {"add", "odd"}
        BY <1>4, <1>5, <2>6, <3>2
      <4>2. src[t].here
        BY <4>1 DEF DdlBecomes
      <4>3. DdlHere(H, u, DdlL)'
        BY <2>1, <2>3, <4>1, <4>2 DEF DdlWorld
      <4>4. i = DdlL'
        BY <1>5, <4>1
      <4>5. DdlHere(H, u, i)' <=> DdlHere(H, u, DdlL)'
        BY <4>4 DEF DdlHere, DdlDropped
      <4> QED
        BY <4>3, <4>5
    <3> QED
      BY <3>1, <3>2
  <2> QED
    BY <2>4, <2>5, <2>6 DEF DdlWorld
<1>18. ASSUME NEW u \in Tables, NEW m \in 0..n, DdlClaim(H, u, m) PROVE DdlClaim(H, u, m)'
  <2> SUFFICES ASSUME ~DdlLacks(u)', ~DdlPassed(u, m)', ~DdlDropped(u, m, DdlL)'
               PROVE DdlAgrees(H, u, m)'
    BY DEF DdlClaim
  <2>1. \A i \in Ddl!Of(u) : i \in Ddl!Of(u)' /\ wal'[i] = wal[i] /\ i # n + 1
    BY <1>5, <1>6
  <2>2. ~DdlLacks(u)
    BY <1>9, <2>1 DEF DdlLacks, Ddl!Statements
  <2>3. ~DdlPassed(u, m)
    BY <1>9, <2>1 DEF DdlPassed, Ddl!Statements
  <2>4. ~DdlDropped(u, m, DdlL) /\ ~(u = t /\ kind = "drop")
    BY <1>13
  <2>5. DdlAgrees(H, u, m)
    BY <1>18, <2>2, <2>3, <2>4 DEF DdlClaim
  <2>6. DdlCols(u, m)' = DdlCols(u, m) /\ (DdlHere(H, u, m)' <=> DdlHere(H, u, m))
    BY <1>0, <1>1, <1>3, <1>4, DdlOldHistory
  <2>7. DdlCreated(u, m, DdlL) => DdlCreated(u, m, DdlL)'
    <3>1. \A i \in Ddl!Of(u) : i <= DdlL' /\ i \in Ddl!Of(u)' /\ wal'[i] = wal[i]
      BY <1>5, <1>6
    <3> QED
      BY <3>1 DEF DdlCreated
  <2>8. tgt'[u].cols \subseteq src'[u].cols
    <3>1. CASE u # t
      BY <1>8, <1>9, <2>5, <3>1 DEF DdlAgrees
    <3>2. CASE u = t /\ kind = "create"
      <4>1. src[t] = Ddl!NoTable
        BY <1>0, <3>2 DEF DdlSane, DdlBecomes
      <4> QED
        BY <1>9, <2>5, <3>2, <4>1 DEF DdlAgrees, Ddl!NoTable
    <3>3. CASE u = t /\ kind # "create"
      BY <1>7, <1>8, <1>9, <2>4, <2>5, <3>3 DEF DdlAgrees
    <3> QED
      BY <3>1, <3>2, <3>3
  <2> QED
    BY <1>9, <2>5, <2>6, <2>7, <2>8 DEF DdlAgrees
<1>19. \A u \in Tables : DdlWorld(H, u)' /\ DdlClaim(H, u, lastID)' /\ DdlClaim(H, u, saved.ddl)'
  <2>1. \A u \in Tables : \A m \in 0..n : DdlClaim(H, u, m) => DdlClaim(H, u, m)'
    BY <1>18
  <2>2. PICK a \in 0..n, b \in 0..n : a = lastID /\ b = saved.ddl
    BY <1>6
  <2>3. lastID' = a /\ saved'.ddl = b
    BY <1>9, <2>2
  <2>4. \A u \in Tables : DdlClaim(H, u, a)' /\ DdlClaim(H, u, b)'
    BY <1>16, <2>1, <2>2
  <2>5. \A u \in Tables : (DdlClaim(H, u, lastID)' <=> DdlClaim(H, u, a)')
          /\ (DdlClaim(H, u, saved.ddl)' <=> DdlClaim(H, u, b)')
    BY <2>3 DEF DdlClaim, DdlPassed, DdlDropped, DdlAgrees, DdlCols, DdlHere, DdlCreated
  <2> QED
    BY <1>17, <2>4, <2>5
<1> QED
  BY <1>11, <1>12, <1>15, <1>19 DEF DdlInv

-----------------------------------------------------------------------------
(* Steps that leave the log of the source alone. *)

\* While the log stays, so does what it says,
LEMMA DdlSameLog ==
  ASSUME wal' = wal
  PROVE  /\ DdlL' = DdlL /\ Ddl!Ops' = Ddl!Ops /\ \A t :
            Ddl!Of(t)' = Ddl!Of(t) /\ DdlRowsOf(t)' = DdlRowsOf(t)
         /\ \A t : Ddl!Statements(t)' = Ddl!Statements(t)
              /\ (Ddl!Recreated(t)' <=> Ddl!Recreated(t))
         /\ \A t, i, n : (DdlDropped(t, i, n)' <=> DdlDropped(t, i, n))
              /\ (DdlCreated(t, i, n)' <=> DdlCreated(t, i, n))
         /\ \A t, n : DdlCols(t, n)' = DdlCols(t, n) /\ \A H : DdlHere(H, t, n)'
              <=> DdlHere(H, t, n)
<1>1. DdlL' = DdlL /\ Ddl!Ops' = Ddl!Ops
  BY DEF DdlL, Ddl!Ops
<1>2. \A t : Ddl!Of(t)' = Ddl!Of(t) /\ DdlRowsOf(t)' = DdlRowsOf(t)
        /\ Ddl!Statements(t)' = Ddl!Statements(t)
  BY <1>1 DEF Ddl!Of, DdlRowsOf, Ddl!Statements
<1>3. \A t : Ddl!Recreated(t)' <=> Ddl!Recreated(t)
  BY <1>2 DEF Ddl!Recreated
<1>4. \A t, i, n : (DdlDropped(t, i, n)' <=> DdlDropped(t, i, n))
        /\ (DdlCreated(t, i, n)' <=> DdlCreated(t, i, n))
  BY <1>2 DEF DdlDropped, DdlCreated
<1>5. \A t, n : DdlCols(t, n)' = DdlCols(t, n) /\ \A H : DdlHere(H, t, n)' <=> DdlHere(H, t, n)
  BY <1>2, <1>4 DEF DdlCols, DdlHere
<1> QED
  BY <1>1, <1>2, <1>3, <1>4, <1>5

\* and the claims of a table that stays,
LEMMA DdlSameClaim ==
  ASSUME UNCHANGED <<wal, src, ddlLog, executed, marked>>, NEW H, NEW u, NEW n,
         tgt'[u].cols = tgt[u].cols, tgt'[u].here <=> tgt[u].here
  PROVE  DdlClaim(H, u, n)' <=> DdlClaim(H, u, n)
<1>1. DdlLacks(u)' <=> DdlLacks(u)
  BY DdlSameLog DEF DdlLacks
<1>2. DdlPassed(u, n)' <=> DdlPassed(u, n)
  BY DdlSameLog DEF DdlPassed
<1>3. (DdlDropped(u, n, DdlL)' <=> DdlDropped(u, n, DdlL))
      /\ (DdlCreated(u, n, DdlL)' <=> DdlCreated(u, n, DdlL))
  BY DdlSameLog DEF DdlDropped, DdlCreated
<1>4. DdlAgrees(H, u, n)' <=> DdlAgrees(H, u, n)
  BY <1>3, DdlSameLog DEF DdlAgrees
<1> QED
  BY <1>1, <1>2, <1>3, <1>4 DEF DdlClaim

\* and the source,
LEMMA DdlSameWorld ==
  ASSUME UNCHANGED <<wal, src>>, NEW H, NEW u
  PROVE  DdlWorld(H, u)' <=> DdlWorld(H, u)
<1>1. \A i : DdlDropped(u, i, DdlL)' <=> DdlDropped(u, i, DdlL)
  BY DdlSameLog DEF DdlDropped
<1>2. DdlCols(u, DdlL)' = DdlCols(u, DdlL)
  BY <1>1, DdlSameLog DEF DdlCols
<1>3. DdlHere(H, u, DdlL)' <=> DdlHere(H, u, DdlL)
  BY <1>1, DdlSameLog DEF DdlHere
<1> QED
  BY <1>2, <1>3, DdlSameLog DEF DdlWorld

\* A step that changes no schema: the claims hold for the cursors it moves.
LEMMA DdlClaimsKept ==
  ASSUME DdlInv, UNCHANGED <<wal, src, ddlLog, executed, marked>>,
         \A u \in Tables : tgt'[u].cols = tgt[u].cols /\ (tgt'[u].here <=> tgt[u].here),
         lastID' \in {lastID, saved.ddl}, saved'.ddl \in {lastID, saved.ddl}
  PROVE  \E H : \A t \in Tables : DdlWorld(H, t)' /\ DdlClaim(H, t, lastID)'
           /\ DdlClaim(H, t, saved.ddl)'
<1>1. PICK H : \A t \in Tables : DdlWorld(H, t) /\ DdlClaim(H, t, lastID)
           /\ DdlClaim(H, t, saved.ddl)
  BY DEF DdlInv
<1>2. PICK a : a = lastID'
  OBVIOUS
<1>3. PICK b : b = saved'.ddl
  OBVIOUS
<1>4. \A t \in Tables : DdlClaim(H, t, a) /\ DdlClaim(H, t, b)
  BY <1>1, <1>2, <1>3
<1>5. \A t \in Tables : DdlClaim(H, t, a)' /\ DdlClaim(H, t, b)'
  BY <1>4, DdlSameClaim
<1>6. \A t \in Tables : (DdlClaim(H, t, lastID)' <=> DdlClaim(H, t, a)')
        /\ (DdlClaim(H, t, saved.ddl)' <=> DdlClaim(H, t, b)')
  BY <1>2, <1>3 DEF DdlClaim, DdlPassed, DdlDropped, DdlAgrees, DdlCols, DdlHere, DdlCreated
<1>7. \A t \in Tables : DdlWorld(H, t)'
  BY <1>1, DdlSameWorld
<1> QED
  BY <1>5, <1>6, <1>7

\* and a table the row stream leaves alone.
LEMMA DdlSaneKept ==
  ASSUME DdlInv, UNCHANGED <<wal, src, tgt, executed, counted>>,
         dml' \in {dml, saved.lsn}, NEW u \in Tables
  PROVE  DdlSane(u)'
<1>1. DdlSane(u) /\ DdlTypes /\ DdlCursors
  BY DEF DdlInv
<1>2. (DdlDropped(u, 0, DdlL)' <=> DdlDropped(u, 0, DdlL)) /\ DdlRowsOf(u)' = DdlRowsOf(u)
      /\ (Ddl!Recreated(u)' <=> Ddl!Recreated(u))
  BY DdlSameLog DEF DdlDropped
<1>3. \A i \in DdlRowsOf(u) : i < dml' => i < dml
  <2>1. \A i \in DdlRowsOf(u) : i \in Nat
    BY <1>1, DdlPlaces DEF DdlRowsOf
  <2>2. dml \in Nat /\ saved.lsn \in Nat /\ saved.lsn <= dml
    BY <1>1, DdlPlaces DEF DdlCursors
  <2> QED
    BY <2>1, <2>2
<1> QED
  BY <1>1, <1>2, <1>3 DEF DdlSane

LEMMA DdlSavedType ==
  ASSUME DdlTypes PROVE [lsn |-> dml, ddl |-> lastID] \in [lsn : 1..DdlL + 1, ddl : 0..DdlL]
BY DEF DdlTypes

LEMMA DdlCommitsStep == ASSUME DdlInv, Ddl!Commits PROVE DdlInv'
<1>1. DdlTypes /\ DdlCursors
  BY DEF DdlInv
<1>2. /\ open' = {}
      /\ UNCHANGED <<wal, src, trigger, ddlLog, poller, lastID, batch, dml, missing, counted,
                     saved, tgt, marked, executed>>
  BY DEF Ddl!Commits, Ddl!pollVars, Ddl!rowVars
<1>3. DdlL' = DdlL /\ Ddl!Ops' = Ddl!Ops
  BY <1>2, DdlSameLog
<1>4. DdlTypes'
  BY <1>1, <1>2, <1>3 DEF DdlTypes, DdlWithin
<1>5. DdlCursors'
  BY <1>1, <1>2 DEF DdlCursors
<1>6. \A u \in Tables : DdlSane(u)'
  BY <1>2, DdlSaneKept
<1>7. \E H : \A t \in Tables : DdlWorld(H, t)' /\ DdlClaim(H, t, lastID)'
        /\ DdlClaim(H, t, saved.ddl)'
  BY <1>2, DdlClaimsKept
<1> QED
  BY <1>4, <1>5, <1>6, <1>7 DEF DdlInv

LEMMA DdlStartsStep == ASSUME DdlInv, Ddl!Starts PROVE DdlInv'
<1>1. DdlTypes /\ DdlCursors
  BY DEF DdlInv
<1>2. /\ poller' \in {"on", "off"} /\ trigger' \in {TRUE, trigger}
      /\ lastID' = saved.ddl /\ batch' = {} /\ dml' = saved.lsn /\ missing' = {}
      /\ UNCHANGED <<wal, src, open, ddlLog, counted, saved, tgt, marked, executed>>
  BY DEF Ddl!Starts, Ddl!srcVars
<1>3. DdlL' = DdlL /\ Ddl!Ops' = Ddl!Ops
  BY <1>2, DdlSameLog
<1>4. saved.ddl \in 0..DdlL /\ saved.lsn \in 1..DdlL + 1
  BY <1>1 DEF DdlTypes
<1>5. DdlTypes'
  BY <1>1, <1>2, <1>3, <1>4 DEF DdlTypes, DdlWithin
<1>6. DdlCursors'
  <2>1. saved.ddl <= saved.ddl /\ saved.lsn <= saved.lsn
    BY <1>4
  <2> QED
    BY <1>2, <2>1 DEF DdlCursors
<1>7. \A u \in Tables : DdlSane(u)'
  BY <1>2, DdlSaneKept
<1>8. \E H : \A t \in Tables : DdlWorld(H, t)' /\ DdlClaim(H, t, lastID)'
        /\ DdlClaim(H, t, saved.ddl)'
  BY <1>2, DdlClaimsKept
<1> QED
  BY <1>5, <1>6, <1>7, <1>8 DEF DdlInv

LEMMA DdlTicksStep == ASSUME DdlInv, Ddl!Ticks PROVE DdlInv'
<1>1. DdlTypes /\ DdlCursors
  BY DEF DdlInv
<1>2. /\ saved' = [lsn |-> dml, ddl |-> lastID]
      /\ UNCHANGED <<wal, src, open, trigger, ddlLog, poller, lastID, batch, dml, missing, counted,
                     tgt, marked, executed>>
  BY DEF Ddl!Ticks, Ddl!Save, Ddl!logVars, Ddl!srcVars, Ddl!pollVars, Ddl!rowVars
<1>3. DdlL' = DdlL /\ Ddl!Ops' = Ddl!Ops
  BY <1>2, DdlSameLog
<1>4. saved' \in [lsn : 1..DdlL + 1, ddl : 0..DdlL]
  BY <1>1, <1>2, DdlSavedType
<1>5. DdlTypes'
  BY <1>1, <1>2, <1>3, <1>4 DEF DdlTypes, DdlWithin
<1>6. saved'.lsn = dml /\ saved'.ddl = lastID
  BY <1>2
<1>7. DdlCursors'
  <2>1. lastID <= lastID /\ dml <= dml
    BY <1>1, DdlPlaces
  <2> QED
    BY <1>1, <1>2, <1>6, <2>1 DEF DdlCursors
<1>8. \A u \in Tables : DdlSane(u)'
  BY <1>2, DdlSaneKept
<1>9. \E H : \A t \in Tables : DdlWorld(H, t)' /\ DdlClaim(H, t, lastID)'
        /\ DdlClaim(H, t, saved.ddl)'
  BY <1>2, <1>6, DdlClaimsKept
<1> QED
  BY <1>5, <1>7, <1>8, <1>9 DEF DdlInv

LEMMA DdlEndsStep == ASSUME DdlInv, Ddl!Ends PROVE DdlInv'
<1>1. DdlTypes /\ DdlCursors
  BY DEF DdlInv
<1>2. /\ saved' \in {saved, [lsn |-> dml, ddl |-> lastID]} /\ poller' = "down" /\ batch' = {}
      /\ trigger' \in {trigger, FALSE}
      /\ UNCHANGED <<wal, src, open, ddlLog, lastID, dml, missing, counted, tgt, marked, executed>>
  BY DEF Ddl!Ends, Ddl!Save, Ddl!srcVars, Ddl!rowVars
<1>3. DdlL' = DdlL /\ Ddl!Ops' = Ddl!Ops
  BY <1>2, DdlSameLog
<1>4. saved' \in [lsn : 1..DdlL + 1, ddl : 0..DdlL]
  BY <1>1, <1>2, DdlSavedType DEF DdlTypes
<1>5. DdlTypes'
  BY <1>1, <1>2, <1>3, <1>4 DEF DdlTypes, DdlWithin
<1>6. saved'.ddl \in {lastID, saved.ddl} /\ saved'.lsn \in {dml, saved.lsn}
  BY <1>2
<1>7. DdlCursors'
  <2>1. lastID <= lastID /\ dml <= dml
    BY <1>1, DdlPlaces
  <2> QED
    BY <1>1, <1>2, <1>6, <2>1 DEF DdlCursors
<1>8. \A u \in Tables : DdlSane(u)'
  BY <1>2, DdlSaneKept
<1>9. \E H : \A t \in Tables : DdlWorld(H, t)' /\ DdlClaim(H, t, lastID)'
        /\ DdlClaim(H, t, saved.ddl)'
  BY <1>2, <1>6, DdlClaimsKept
<1> QED
  BY <1>5, <1>7, <1>8, <1>9 DEF DdlInv

LEMMA DdlFetchesStep == ASSUME DdlInv, Ddl!Fetches PROVE DdlInv'
<1>1. DdlTypes /\ DdlCursors
  BY DEF DdlInv
<1>2. /\ poller = "on" /\ batch' = {i \in ddlLog \ open : i > lastID}
      /\ UNCHANGED <<wal, src, open, trigger, ddlLog, poller, lastID, dml, missing, counted,
                     saved, tgt, marked, executed>>
  BY DEF Ddl!Fetches, Ddl!Visible, Ddl!logVars, Ddl!srcVars, Ddl!rowVars
<1>3. DdlL' = DdlL /\ Ddl!Ops' = Ddl!Ops
  BY <1>2, DdlSameLog
<1>4. DdlTypes'
  BY <1>1, <1>2, <1>3 DEF DdlTypes, DdlWithin
<1>5. DdlCursors'
  <2>1. executed \cup marked \subseteq ddlLog \ open
    BY <1>1 DEF DdlTypes
  <2> QED
    BY <1>1, <1>2, <2>1 DEF DdlCursors
<1>6. \A u \in Tables : DdlSane(u)'
  BY <1>2, DdlSaneKept
<1>7. \E H : \A t \in Tables : DdlWorld(H, t)' /\ DdlClaim(H, t, lastID)'
        /\ DdlClaim(H, t, saved.ddl)'
  BY <1>2, DdlClaimsKept
<1> QED
  BY <1>4, <1>5, <1>6, <1>7 DEF DdlInv

-----------------------------------------------------------------------------
(* The row stream. *)

LEMMA DdlStreamsStep == ASSUME DdlInv, Ddl!Streams PROVE DdlInv'
<1>1. DdlTypes /\ DdlCursors
  BY DEF DdlInv
<1>2. /\ dml <= DdlL /\ wal[dml].kind # "row" /\ dml' = dml + 1
      /\ UNCHANGED <<wal, src, open, trigger, ddlLog, poller, lastID, batch, missing, counted,
                     saved, tgt, marked, executed>>
  BY DEF Ddl!Streams, Ddl!AtRow, Ddl!Row, DdlL, Ddl!logVars, Ddl!srcVars, Ddl!pollVars
<1>3. DdlL' = DdlL /\ Ddl!Ops' = Ddl!Ops /\ DdlL \in Nat /\ dml \in Nat
  BY <1>1, <1>2, DdlSameLog, DdlPlaces
<1>4. dml' \in 1..DdlL + 1
  BY <1>1, <1>2, <1>3 DEF DdlTypes
<1>5. DdlTypes'
  BY <1>1, <1>2, <1>3, <1>4 DEF DdlTypes, DdlWithin
<1>6. DdlCursors'
  <2>1. saved.lsn <= dml + 1
    BY <1>1, <1>3, DdlPlaces DEF DdlCursors
  <2> QED
    BY <1>1, <1>2, <2>1 DEF DdlCursors
<1>7. ASSUME NEW u \in Tables PROVE DdlSane(u)'
  <2>1. DdlSane(u)
    BY DEF DdlInv
  <2>2. (DdlDropped(u, 0, DdlL)' <=> DdlDropped(u, 0, DdlL)) /\ DdlRowsOf(u)' = DdlRowsOf(u)
        /\ (Ddl!Recreated(u)' <=> Ddl!Recreated(u))
    BY <1>2, DdlSameLog DEF DdlDropped
  <2>3. \A i \in DdlRowsOf(u) : i < dml' => i < dml
    <3>1. \A i \in DdlRowsOf(u) : i \in Nat /\ i # dml
      BY <1>1, <1>2, DdlPlaces DEF DdlRowsOf
    <3> QED
      BY <1>2, <1>3, <3>1
  <2> QED
    BY <1>2, <2>1, <2>2, <2>3 DEF DdlSane
<1>8. \E H : \A t \in Tables : DdlWorld(H, t)' /\ DdlClaim(H, t, lastID)'
        /\ DdlClaim(H, t, saved.ddl)'
  BY <1>2, DdlClaimsKept
<1> QED
  BY <1>5, <1>6, <1>7, <1>8 DEF DdlInv

LEMMA DdlAppliesRowStep == ASSUME DdlInv, Ddl!AppliesRow PROVE DdlInv'
<1>1. DdlTypes /\ DdlCursors
  BY DEF DdlInv
<1>2. /\ dml <= DdlL /\ wal[dml].kind = "row" /\ dml' = dml + 1
      /\ tgt' = [tgt EXCEPT ![wal[dml].table].rows = @ \cup {dml}]
      /\ UNCHANGED <<wal, src, open, trigger, ddlLog, poller, lastID, batch, missing, counted,
                     saved, marked, executed>>
      /\ tgt[wal[dml].table].here
  BY DEF Ddl!AppliesRow, Ddl!AtRow, Ddl!Row, DdlL, Ddl!logVars, Ddl!srcVars, Ddl!pollVars
<1>3. DdlL' = DdlL /\ Ddl!Ops' = Ddl!Ops /\ DdlL \in Nat /\ dml \in Nat /\ dml \in 1..DdlL
      /\ dml \in Ddl!Ops
  <2>1. dml \in 1..DdlL + 1 /\ Ddl!Ops = 1..DdlL
    BY <1>1, DdlPlaces DEF DdlTypes
  <2> QED
    BY <1>1, <1>2, <2>1, DdlSameLog, DdlPlaces
<1>4. PICK t \in Tables : t = wal[dml].table
  BY <1>1, <1>3, DdlPlaces
<1>5. tgt[t] \in DdlRelType /\ DdlWithin(tgt[t])
  BY <1>1 DEF DdlTypes
<1>6. PICK r : r = [tgt[t] EXCEPT !.rows = @ \cup {dml}]
  OBVIOUS
<1>7. /\ r \in DdlRelType /\ DdlWithin(r)
      /\ r.cols = tgt[t].cols /\ r.here = tgt[t].here /\ r.rows = tgt[t].rows \cup {dml}
  BY <1>3, <1>5, <1>6 DEF DdlRelType, DdlWithin
<1>8. /\ tgt' \in [Tables -> DdlRelType] /\ tgt'[t] = r
      /\ \A u \in Tables : u # t => tgt'[u] = tgt[u]
  BY <1>1, <1>2, <1>4, <1>6, <1>7 DEF DdlTypes
<1>9. dml' \in 1..DdlL + 1
  BY <1>2, <1>3
<1>10. DdlTypes'
  <2>1. \A u \in Tables : DdlWithin(src[u])' /\ DdlWithin(tgt[u])'
    <3>1. \A u \in Tables : DdlWithin(src[u]) /\ DdlWithin(tgt[u])
      BY <1>1 DEF DdlTypes
    <3> QED
      BY <1>2, <1>3, <1>7, <1>8, <3>1 DEF DdlWithin
  <2> QED
    BY <1>1, <1>2, <1>3, <1>8, <1>9, <2>1 DEF DdlTypes
<1>11. DdlCursors'
  <2>1. saved.lsn <= dml + 1
    BY <1>1, <1>3, DdlPlaces DEF DdlCursors
  <2> QED
    BY <1>1, <1>2, <2>1 DEF DdlCursors
<1>12. ASSUME NEW u \in Tables PROVE DdlSane(u)'
  <2>1. DdlSane(u)
    BY DEF DdlInv
  <2>2. (DdlDropped(u, 0, DdlL)' <=> DdlDropped(u, 0, DdlL)) /\ DdlRowsOf(u)' = DdlRowsOf(u)
        /\ (Ddl!Recreated(u)' <=> Ddl!Recreated(u))
    BY <1>2, DdlSameLog DEF DdlDropped
  <2>3. /\ tgt[u].rows \subseteq tgt'[u].rows /\ (u = t => dml \in tgt'[u].rows)
        /\ tgt'[u].cols = tgt[u].cols /\ (~tgt'[u].here => tgt'[u] = tgt[u] /\ ~tgt[u].here)
    BY <1>2, <1>4, <1>7, <1>8
  <2>4. tgt'[u].rows \subseteq DdlRowsOf(u)
    <3>1. dml \in DdlRowsOf(t)
      BY <1>2, <1>3, <1>4 DEF DdlRowsOf, Ddl!Of
    <3> QED
      BY <1>7, <1>8, <2>1, <3>1 DEF DdlSane
  <2>5. \A i \in DdlRowsOf(u) : i < dml' => i < dml \/ (i = dml /\ u = t)
    <3>1. \A i \in DdlRowsOf(u) : i \in Nat /\ wal[i].table = u
      BY <1>1, DdlPlaces DEF DdlRowsOf, Ddl!Of
    <3> QED
      BY <1>2, <1>3, <1>4, <3>1
  <2> QED
    BY <1>2, <2>1, <2>2, <2>3, <2>4, <2>5 DEF DdlSane
<1>13. \E H : \A v \in Tables : DdlWorld(H, v)' /\ DdlClaim(H, v, lastID)'
         /\ DdlClaim(H, v, saved.ddl)'
  <2>1. \A u \in Tables : tgt'[u].cols = tgt[u].cols /\ (tgt'[u].here <=> tgt[u].here)
    BY <1>7, <1>8
  <2> QED
    BY <1>2, <2>1, DdlClaimsKept
<1> QED
  BY <1>10, <1>11, <1>12, <1>13 DEF DdlInv

LEMMA DdlCountsRowStep == ASSUME DdlInv, Ddl!CountsRow PROVE DdlInv'
<1>1. DdlTypes /\ DdlCursors
  BY DEF DdlInv
<1>2. /\ dml <= DdlL /\ wal[dml].kind = "row" /\ dml' = dml + 1
      /\ counted' = counted \cup {dml} /\ missing' \in {missing, missing \cup {wal[dml].table}}
      /\ UNCHANGED <<wal, src, open, trigger, ddlLog, poller, lastID, batch, saved, tgt, marked,
                     executed>>
  BY DEF Ddl!CountsRow, Ddl!AtRow, Ddl!Row, DdlL, Ddl!logVars, Ddl!srcVars, Ddl!pollVars
<1>3. DdlL' = DdlL /\ Ddl!Ops' = Ddl!Ops /\ DdlL \in Nat /\ dml \in Nat /\ dml \in 1..DdlL
      /\ dml \in Ddl!Ops
  <2>1. dml \in 1..DdlL + 1 /\ Ddl!Ops = 1..DdlL
    BY <1>1, DdlPlaces DEF DdlTypes
  <2> QED
    BY <1>1, <1>2, <2>1, DdlSameLog, DdlPlaces
<1>4. wal[dml].table \in Tables
  BY <1>1, <1>3, DdlPlaces
<1>5. dml' \in 1..DdlL + 1
  BY <1>2, <1>3
<1>6. DdlTypes'
  BY <1>1, <1>2, <1>3, <1>4, <1>5 DEF DdlTypes, DdlWithin
<1>7. DdlCursors'
  <2>1. saved.lsn <= dml + 1
    BY <1>1, <1>3, DdlPlaces DEF DdlCursors
  <2> QED
    BY <1>1, <1>2, <2>1 DEF DdlCursors
<1>8. ASSUME NEW u \in Tables PROVE DdlSane(u)'
  <2>1. DdlSane(u)
    BY DEF DdlInv
  <2>2. (DdlDropped(u, 0, DdlL)' <=> DdlDropped(u, 0, DdlL)) /\ DdlRowsOf(u)' = DdlRowsOf(u)
        /\ (Ddl!Recreated(u)' <=> Ddl!Recreated(u))
    BY <1>2, DdlSameLog DEF DdlDropped
  <2>3. \A i \in DdlRowsOf(u) : i < dml' => i < dml \/ i \in counted'
    <3>1. \A i \in DdlRowsOf(u) : i \in Nat
      BY <1>1, DdlPlaces DEF DdlRowsOf
    <3> QED
      BY <1>2, <1>3, <3>1
  <2> QED
    BY <1>2, <2>1, <2>2, <2>3 DEF DdlSane
<1>9. \E H : \A t \in Tables : DdlWorld(H, t)' /\ DdlClaim(H, t, lastID)'
        /\ DdlClaim(H, t, saved.ddl)'
  BY <1>2, DdlClaimsKept
<1> QED
  BY <1>6, <1>7, <1>8, <1>9 DEF DdlInv

-----------------------------------------------------------------------------
(* The poller. *)

\* Of sets within a finite one, some is minimal.
LEMMA MinimalSet ==
  ASSUME NEW D, IsFiniteSet(D), NEW T, T \subseteq SUBSET D, T # {}
  PROVE  \E X \in T : \A Y \in T : Y \subseteq X => Y = X
<1>2. IsWellFoundedOn(StrictSubsetOrdering(D), FiniteSubsetsOf(D))
  BY FS_StrictSubsetOrderingWellFounded
<1>3. FiniteSubsetsOf(D) = SUBSET D
  BY FS_Subset DEF FiniteSubsetsOf
<1>4. PICK X \in T : \A Y \in T : ~(<<Y, X>> \in StrictSubsetOrdering(D))
  BY <1>2, <1>3, WFMin
<1> QED
  BY <1>4 DEF StrictSubsetOrdering

\* The poller takes the entries in order: a finite batch has a least one.
LEMMA DdlEntryIsLeast ==
  ASSUME DdlTypes, batch # {}
  PROVE  Ddl!Entry \in batch /\ (\A i \in batch : Ddl!Entry <= i) /\ Ddl!Entry \in 1..DdlL
<1>1. PICK n \in Nat : n = DdlL
  BY DdlPlaces
<1>2. batch \subseteq 1..n
  BY <1>1, DdlPlaces DEF DdlTypes
<1> DEFINE D == 1..n
           T == {1..x : x \in batch}
<1>3. IsFiniteSet(D)
  BY FS_Interval
<1>4. T \subseteq SUBSET D /\ T # {}
  <2>1. \A x \in batch : 1..x \in SUBSET D
    BY <1>2
  <2> QED
    BY <2>1
<1>5. PICK X \in T : \A Y \in T : Y \subseteq X => Y = X
  <2> HIDE DEF T, D
  <2> QED
    BY <1>3, <1>4, MinimalSet
<1>6. PICK x \in batch : X = 1..x
  OBVIOUS
<1>7. ASSUME NEW y \in batch, ~(x <= y) PROVE FALSE
  <2>1. 1..y \in T
    OBVIOUS
  <2>2. x \in 1..n /\ y \in 1..n
    BY <1>2
  <2>3. 1..y \subseteq X /\ x \in X /\ x \notin 1..y
    BY <1>6, <1>7, <2>2
  <2> QED
    BY <1>5, <2>1, <2>3
<1>8. \E z \in batch : \A y \in batch : z <= y
  BY <1>7
<1>9. Ddl!Entry \in batch /\ \A y \in batch : Ddl!Entry <= y
  BY <1>8 DEF Ddl!Entry
<1> QED
  BY <1>1, <1>2, <1>9

\* Nothing but rows and riders of u between two places of the log.
DdlQuiet(u, n, m) == \A i \in Ddl!Of(u) : n < i /\ i <= m => wal[i].kind \in {"row", "rider"}

\* Over rows and riders a claim goes from one place to the other.
LEMMA DdlQuietSpan ==
  ASSUME DdlTypes, NEW u, NEW n \in 0..DdlL, NEW m \in 0..DdlL, n <= m, DdlQuiet(u, n, m)
  PROVE  /\ DdlCols(u, m) = DdlCols(u, n) /\ \A H : DdlHere(H, u, m) <=> DdlHere(H, u, n)
         /\ DdlDropped(u, n, DdlL) <=> DdlDropped(u, m, DdlL)
         /\ DdlCreated(u, n, DdlL) <=> DdlCreated(u, m, DdlL)
         /\ \A H : DdlAgrees(H, u, n) <=> DdlAgrees(H, u, m)
<1>1. DdlL \in Nat /\ Ddl!Of(u) \subseteq 1..DdlL /\ n \in Nat /\ m \in Nat
  BY DdlPlaces
<1>2. \A i \in Ddl!Of(u) : /\ i \in Nat /\ (i <= n => i <= m) /\ (m < i => n < i)
                              /\ (n < i <=> ~(i <= n))
                           /\ (m < i <=> ~(i <= m))
  BY <1>1
<1>3. \A i \in Ddl!Of(u) : wal[i].kind \in {"create", "drop", "add", "odd"}
        => (i <= n <=> i <= m) /\ (n < i <=> m < i)
  BY <1>2 DEF DdlQuiet
<1>4. \A i : DdlDropped(u, i, m) <=> DdlDropped(u, i, n)
  BY <1>3 DEF DdlDropped
<1>5. DdlCols(u, m) = DdlCols(u, n)
  BY <1>3, <1>4 DEF DdlCols
<1>6. \A H : DdlHere(H, u, m) <=> DdlHere(H, u, n)
  BY <1>3, <1>4 DEF DdlHere
<1>7. (DdlDropped(u, n, DdlL) <=> DdlDropped(u, m, DdlL))
      /\ (DdlCreated(u, n, DdlL) <=> DdlCreated(u, m, DdlL))
  BY <1>3 DEF DdlDropped, DdlCreated
<1> QED
  BY <1>5, <1>6, <1>7 DEF DdlAgrees

\* What the cursor comes to is next in the log: nothing in between went unseen.
LEMMA DdlReached ==
  ASSUME DdlInv, batch # {}, NEW u \in Tables, ~DdlLacks(u),
         \A i \in Ddl!Statements(u) : i <= Ddl!Entry /\ wal[i].kind # "rider"
                                    => i \in executed \cup marked \cup {Ddl!Entry}
  PROVE  DdlQuiet(u, lastID, Ddl!Entry - 1)
<1>1. DdlTypes /\ DdlCursors
  BY DEF DdlInv
<1>2. Ddl!Entry \in 1..DdlL /\ \A i \in batch : Ddl!Entry <= i
  BY <1>1, DdlEntryIsLeast
<1>3. SUFFICES ASSUME NEW i \in Ddl!Of(u), lastID < i, i <= Ddl!Entry - 1,
                      wal[i].kind \notin {"row", "rider"}
               PROVE FALSE
  BY DEF DdlQuiet
<1>4. DdlL \in Nat /\ i \in 1..DdlL /\ lastID \in Nat
  BY <1>1, DdlPlaces
<1>5. i <= Ddl!Entry /\ i # Ddl!Entry /\ ~(Ddl!Entry <= i) /\ i > lastID
  BY <1>2, <1>3, <1>4
<1>6. i \in executed \cup marked
  BY <1>3, <1>5 DEF Ddl!Statements
<1>7. i \in batch
  BY <1>1, <1>5, <1>6 DEF DdlCursors
<1> QED
  BY <1>2, <1>5, <1>7

\* The claim for a table the entry is not about.
LEMMA DdlPassedBy ==
  ASSUME DdlInv, batch # {}, NEW H, NEW u \in Tables, DdlClaim(H, u, lastID),
         ~DdlLacks(u), ~DdlDropped(u, Ddl!Entry, DdlL),
         \A i \in Ddl!Statements(u) : i <= Ddl!Entry /\ wal[i].kind # "rider"
                                    => i \in executed \cup marked \cup {Ddl!Entry},
         wal[Ddl!Entry].table # u \/ wal[Ddl!Entry].kind # "drop"
  PROVE  /\ DdlQuiet(u, lastID, Ddl!Entry - 1) /\ Ddl!Entry - 1 \in 0..DdlL
            /\ lastID <= Ddl!Entry - 1
         /\ DdlAgrees(H, u, lastID)
         /\ wal[Ddl!Entry].table # u \/ wal[Ddl!Entry].kind = "rider" => DdlAgrees(H, u, Ddl!Entry)
<1>1. DdlTypes /\ DdlCursors
  BY DEF DdlInv
<1>2. PICK e \in 1..DdlL : e = Ddl!Entry
  BY <1>1, DdlEntryIsLeast
<1>3. DdlQuiet(u, lastID, e - 1)
  BY <1>2, DdlReached
<1>4. DdlL \in Nat /\ lastID \in 0..DdlL /\ lastID < e
  BY <1>1, <1>2, DdlEntryIsLeast, DdlPlaces DEF DdlCursors, DdlTypes
<1>5. e - 1 \in 0..DdlL /\ lastID <= e - 1 /\ lastID <= e /\ e \in 0..DdlL /\ lastID \in Nat
  BY <1>4
<1>6. ~DdlPassed(u, lastID)
  <2>1. \A i \in Ddl!Statements(u) : i <= lastID => i <= e /\ i # e
    BY <1>1, <1>4, <1>5, DdlPlaces DEF Ddl!Statements
  <2> QED
    BY <1>2, <2>1 DEF DdlPassed
<1>7. \A i \in Ddl!Of(u) : i \in Nat /\ (lastID < i /\ i <= e => (i <= e - 1 \/ i = e))
  <2>1. \A i \in Ddl!Of(u) : i \in Nat
    BY <1>1, DdlPlaces
  <2> QED
    BY <1>5, <2>1
<1>8. ~DdlDropped(u, lastID, DdlL)
  <2> SUFFICES ASSUME DdlDropped(u, lastID, DdlL) PROVE FALSE
    OBVIOUS
  <2>1. PICK d \in Ddl!Of(u) : lastID < d /\ d <= DdlL /\ wal[d].kind = "drop"
    BY DEF DdlDropped
  <2>2. ~(e < d)
    BY <1>2, <2>1 DEF DdlDropped
  <2>3. d <= e - 1 \/ d = e
    BY <1>5, <1>7, <2>1, <2>2
  <2>4. d # e
    BY <1>2, <2>1 DEF Ddl!Of
  <2> QED
    BY <1>3, <2>1, <2>3, <2>4 DEF DdlQuiet
<1>9. DdlAgrees(H, u, lastID)
  BY <1>6, <1>8 DEF DdlClaim
<1>10. ASSUME wal[e].table # u \/ wal[e].kind = "rider" PROVE DdlAgrees(H, u, e)
  <2>1. DdlQuiet(u, lastID, e)
    BY <1>3, <1>7, <1>10 DEF DdlQuiet, Ddl!Of
  <2> QED
    BY <1>1, <1>4, <1>5, <1>9, <2>1, DdlQuietSpan
<1> QED
  BY <1>2, <1>3, <1>5, <1>9, <1>10

\* The cursors where the poller is through with an entry.
LEMMA DdlPassCursors ==
  ASSUME DdlInv, batch # {}, lastID' = Ddl!Entry, batch' = batch \ {Ddl!Entry}, saved' = saved,
         dml' = dml,
         executed' \cup marked' \subseteq executed \cup marked \cup {Ddl!Entry}
  PROVE  DdlCursors' /\ lastID' \in 0..DdlL /\ saved.ddl < Ddl!Entry
<1>1. DdlTypes /\ DdlCursors
  BY DEF DdlInv
<1>2. PICK e \in 1..DdlL : e = Ddl!Entry
  BY <1>1, DdlEntryIsLeast
<1>3. e \in batch /\ \A i \in batch : e <= i
  BY <1>1, <1>2, DdlEntryIsLeast
<1>4. DdlL \in Nat /\ lastID \in Nat /\ saved.ddl \in Nat /\ lastID < e /\ saved.ddl <= lastID
  BY <1>1, <1>2, <1>3, DdlPlaces DEF DdlCursors
<1>5. e \in 0..DdlL /\ saved.ddl <= e /\ saved.ddl < e
  BY <1>4
<1>6. \A i \in batch : i \in Nat
  BY <1>1, DdlPlaces DEF DdlTypes
<1>7. \A i \in batch \ {e} : i > e
  BY <1>3, <1>6
<1>8. \A i \in executed \cup marked : i \in Nat
  BY <1>1, DdlPlaces DEF DdlTypes
<1>9. \A i \in executed' \cup marked' : i > e => i \in batch \ {e}
  <2>1. \A i \in executed \cup marked : i > e => i > lastID /\ i # e
    BY <1>4, <1>8
  <2>2. ~(e > e)
    OBVIOUS
  <2> QED
    BY <1>1, <1>2, <1>3, <2>1, <2>2 DEF DdlCursors
<1> QED
  BY <1>1, <1>2, <1>5, <1>7, <1>9 DEF DdlCursors

\* The claim for the saved cursor outlives what changes no schema; it is there
\* for the steps that execute or skip.
LEMMA DdlUnseenKept ==
  ASSUME UNCHANGED <<wal, ddlLog>>, NEW u
  PROVE  /\ DdlLacks(u)' <=> DdlLacks(u)
         /\ \A n : (DdlDropped(u, n, DdlL)' <=> DdlDropped(u, n, DdlL))
              /\ (DdlCreated(u, n, DdlL)' <=> DdlCreated(u, n, DdlL))
<1>1. DdlLacks(u)' <=> DdlLacks(u)
  BY DdlSameLog DEF DdlLacks
<1> QED
  BY <1>1, DdlSameLog DEF DdlDropped, DdlCreated

LEMMA DdlClaimRigid ==
  ASSUME NEW H, NEW u, NEW a, NEW b, lastID' = a, saved'.ddl = b
  PROVE  (DdlClaim(H, u, lastID)' <=> DdlClaim(H, u, a)')
         /\ (DdlClaim(H, u, saved.ddl)' <=> DdlClaim(H, u, b)')
BY DEF DdlClaim, DdlPassed, DdlDropped, DdlAgrees, DdlCols, DdlHere, DdlCreated

LEMMA DdlPassesRiderStep == ASSUME DdlInv, Ddl!PassesRider PROVE DdlInv'
<1>1. DdlTypes /\ DdlCursors
  BY DEF DdlInv
<1>2. /\ batch # {} /\ wal[Ddl!Entry].kind = "rider" /\ poller = "on"
      /\ lastID' = Ddl!Entry /\ batch' = batch \ {Ddl!Entry}
      /\ UNCHANGED <<wal, src, open, trigger, ddlLog, poller, dml, missing, counted,
                     saved, tgt, marked, executed>>
  BY DEF Ddl!PassesRider, Ddl!ShouldApply, Ddl!Passes, Ddl!logVars, Ddl!srcVars, Ddl!rowVars
<1>3. DdlCursors' /\ lastID' \in 0..DdlL /\ saved.ddl < Ddl!Entry
  BY <1>2, DdlPassCursors
<1>4. DdlL' = DdlL /\ Ddl!Ops' = Ddl!Ops
  BY <1>2, DdlSameLog
<1>5. DdlTypes'
  BY <1>1, <1>2, <1>3, <1>4 DEF DdlTypes, DdlWithin
<1>7. \A u \in Tables : DdlSane(u)'
  BY <1>2, DdlSaneKept
<1>8. PICK H : \A u \in Tables : DdlWorld(H, u) /\ DdlClaim(H, u, lastID)
           /\ DdlClaim(H, u, saved.ddl)
  BY DEF DdlInv
<1>9. PICK e : e = Ddl!Entry
  OBVIOUS
<1>10. PICK s : s = saved.ddl
  OBVIOUS
<1>11. ASSUME NEW u \in Tables PROVE DdlClaim(H, u, e)
  <2> SUFFICES ASSUME ~DdlLacks(u), ~DdlPassed(u, e), ~DdlDropped(u, e, DdlL)
               PROVE DdlAgrees(H, u, e)
    BY DEF DdlClaim
  <2>1. \A i \in Ddl!Statements(u) : i <= Ddl!Entry /\ wal[i].kind # "rider"
                                    => i \in executed \cup marked \cup {Ddl!Entry}
    BY <1>9 DEF DdlPassed
  <2> QED
    BY <1>2, <1>8, <1>9, <2>1, DdlPassedBy
<1>12. \A u \in Tables : DdlClaim(H, u, e)' /\ DdlClaim(H, u, s)'
  BY <1>2, <1>8, <1>10, <1>11, DdlSameClaim
<1>13. \A u \in Tables : DdlWorld(H, u)' /\ DdlClaim(H, u, lastID)' /\ DdlClaim(H, u, saved.ddl)'
  BY <1>2, <1>8, <1>9, <1>10, <1>12, DdlSameWorld, DdlClaimRigid
<1> QED
  BY <1>3, <1>5, <1>7, <1>13 DEF DdlInv

\* What the target answers, by the kind of the statement.
LEMMA DdlTextOf ==
  ASSUME DdlInv, batch # {}, Ddl!ShouldApply(Ddl!Entry)
  PROVE  /\ Ddl!Text(Ddl!Entry) = Ddl!Entry
         /\ Ddl!Answer(Ddl!Entry) = "skip" => \/ wal[Ddl!Entry].kind = "odd"
                                              \/ wal[Ddl!Entry].kind = "add"
                                                 /\ ~tgt[wal[Ddl!Entry].table].here
         /\ Ddl!Answer(Ddl!Entry) = "halt" => wal[Ddl!Entry].kind = "add"
            /\ Ddl!Entry \in tgt[wal[Ddl!Entry].table].cols
         /\ Ddl!Answer(Ddl!Entry) = "done" => \/ wal[Ddl!Entry].kind \in {"create", "drop"}
                                              \/ wal[Ddl!Entry].kind = "add"
                                                 /\ tgt[wal[Ddl!Entry].table].here
<1>1. wal[Ddl!Entry].kind # "rider" /\ Ddl!Text(Ddl!Entry) = Ddl!Entry
  BY DEF Ddl!ShouldApply, Ddl!Text
<1>2. wal[Ddl!Entry].kind \in {"create", "add", "odd", "drop"}
  <2>1. DdlTypes
    BY DEF DdlInv
  <2>2. Ddl!Entry \in 1..DdlL /\ Ddl!Entry \in ddlLog
    BY <2>1, DdlEntryIsLeast DEF DdlTypes
  <2>3. wal[Ddl!Entry].kind \in Ddl!Kinds /\ wal[Ddl!Entry].kind # "row"
    BY <2>1, <2>2, DdlPlaces DEF DdlTypes
  <2> QED
    BY <1>1, <2>3 DEF Ddl!Kinds
<1> QED
  BY <1>1, <1>2 DEF Ddl!Answer

LEMMA DdlSkipsStep == ASSUME DdlInv, Ddl!Skips PROVE DdlInv'
<1>1. DdlTypes /\ DdlCursors
  BY DEF DdlInv
<1>2. /\ batch # {} /\ poller = "on" /\ Ddl!ShouldApply(Ddl!Entry) /\ Ddl!Answer(Ddl!Entry) = "skip"
      /\ lastID' = Ddl!Entry /\ batch' = batch \ {Ddl!Entry} /\ marked' = marked \cup {Ddl!Entry}
      /\ UNCHANGED <<wal, src, open, trigger, ddlLog, poller, dml, missing, counted,
                     saved, tgt, executed>>
  BY DEF Ddl!Skips, Ddl!Passes, Ddl!logVars, Ddl!srcVars, Ddl!rowVars
<1>3. DdlCursors' /\ lastID' \in 0..DdlL /\ saved.ddl < Ddl!Entry
  BY <1>2, DdlPassCursors
<1>4. DdlL' = DdlL /\ Ddl!Ops' = Ddl!Ops
  BY <1>2, DdlSameLog
<1>5. DdlTypes'
  <2>1. Ddl!Entry \in ddlLog \ open
    BY <1>1, <1>2, DdlEntryIsLeast DEF DdlTypes
  <2> QED
    BY <1>1, <1>2, <1>3, <1>4, <2>1 DEF DdlTypes, DdlWithin
<1>7. \A u \in Tables : DdlSane(u)'
  BY <1>2, DdlSaneKept
<1>8. PICK H : \A u \in Tables : DdlWorld(H, u) /\ DdlClaim(H, u, lastID)
           /\ DdlClaim(H, u, saved.ddl)
  BY DEF DdlInv
<1>9. PICK e \in 1..DdlL : e = Ddl!Entry
  BY <1>1, <1>2, DdlEntryIsLeast
<1>10. PICK s : s = saved.ddl
  OBVIOUS
<1>11. ASSUME NEW u \in Tables PROVE DdlClaim(H, u, e)'
  <2> SUFFICES ASSUME ~DdlLacks(u), ~DdlPassed(u, e)', ~DdlDropped(u, e, DdlL)
               PROVE DdlAgrees(H, u, e)'
    BY <1>2, DdlUnseenKept DEF DdlClaim
  <2>1. \A i \in Ddl!Statements(u) : i <= Ddl!Entry /\ wal[i].kind # "rider"
                                    => i \in executed \cup marked \cup {Ddl!Entry}
    BY <1>2, <1>9, DdlSameLog DEF DdlPassed
  <2>2. wal[e].kind = "odd" \/ (wal[e].kind = "add" /\ ~tgt[wal[e].table].here)
    BY <1>2, <1>9, DdlTextOf
  <2>3. /\ DdlQuiet(u, lastID, e - 1) /\ e - 1 \in 0..DdlL /\ lastID <= e - 1
        /\ DdlAgrees(H, u, lastID)
        /\ wal[e].table # u \/ wal[e].kind = "rider" => DdlAgrees(H, u, e)
    BY <1>2, <1>8, <1>9, <2>1, <2>2, DdlPassedBy
  <2>4. ASSUME wal[e].table = u PROVE FALSE
    <3>1. e \in Ddl!Statements(u)
      BY <1>1, <1>9, <2>2, <2>4, DdlPlaces DEF Ddl!Statements, Ddl!Of
    <3>2. wal[e].kind # "odd"
      BY <3>1 DEF DdlLacks
    <3>3. wal[e].kind = "add" /\ ~tgt[u].here
      BY <2>2, <2>4, <3>2
    <3>4. DdlHere(H, u, e)
      BY <1>8, <3>1, <3>3 DEF DdlWorld, Ddl!Statements
    <3>5. DdlHere(H, u, lastID)
      <4>1. DdlQuiet(u, lastID, e - 1) /\ lastID \in 0..DdlL
        BY <1>1, <2>3 DEF DdlTypes
      <4>2. DdlHere(H, u, e - 1) <=> DdlHere(H, u, lastID)
        BY <1>1, <2>3, <4>1, DdlQuietSpan
      <4>3. \A i \in Ddl!Of(u) : i \in Nat /\ (i <= e - 1 => i <= e)
              /\ (i <= e /\ i # e => i <= e - 1)
        <5>1. \A i \in Ddl!Of(u) : i \in Nat
          BY <1>1, DdlPlaces
        <5> QED
          BY <5>1
      <4>4. DdlHere(H, u, e - 1)
        BY <3>3, <3>4, <4>3 DEF DdlHere, DdlDropped
      <4> QED
        BY <4>2, <4>4
    <3> QED
      BY <2>3, <3>3, <3>5 DEF DdlAgrees
  <2>5. DdlAgrees(H, u, e)
    BY <2>3, <2>4
  <2> QED
    BY <1>2, <2>5, DdlSameLog, DdlUnseenKept DEF DdlAgrees
<1>12. ASSUME NEW u \in Tables PROVE DdlClaim(H, u, s)'
  <2> SUFFICES ASSUME ~DdlLacks(u), ~DdlPassed(u, s)', ~DdlDropped(u, s, DdlL)
               PROVE DdlAgrees(H, u, s)'
    BY <1>2, DdlUnseenKept DEF DdlClaim
  <2>1. ~DdlPassed(u, s)
    <3>1. \A i \in Ddl!Statements(u) : i <= s => i # e
      <4>1. s \in Nat /\ s < e
        BY <1>1, <1>3, <1>9, <1>10, DdlPlaces
      <4>2. ~(e <= s)
        BY <4>1
      <4> QED
        BY <4>2
    <3> QED
      BY <1>2, <1>9, <3>1, DdlSameLog DEF DdlPassed
  <2>2. DdlAgrees(H, u, s)
    BY <1>8, <1>10, <2>1 DEF DdlClaim
  <2> QED
    BY <1>2, <2>2, DdlSameLog, DdlUnseenKept DEF DdlAgrees
<1>13. \A u \in Tables : DdlWorld(H, u)' /\ DdlClaim(H, u, lastID)' /\ DdlClaim(H, u, saved.ddl)'
  BY <1>2, <1>8, <1>9, <1>10, <1>11, <1>12, DdlSameWorld, DdlClaimRigid
<1> QED
  BY <1>3, <1>5, <1>7, <1>13 DEF DdlInv

\* The target executes the entry; whether the cursor moves is left open.
DdlRuns ==
  /\ batch # {} /\ Ddl!ShouldApply(Ddl!Entry) /\ Ddl!Answer(Ddl!Entry) = "done"
  /\ tgt' = [tgt EXCEPT ![wal[Ddl!Entry].table] = Ddl!Made(Ddl!Entry)]
  /\ executed' = executed \cup {Ddl!Entry}
  /\ UNCHANGED <<wal, src, open, trigger, ddlLog, dml, counted, saved, marked>>

\* What a statement that is executed makes of its table.
LEMMA DdlExecutesTable ==
  ASSUME DdlInv, DdlRuns, NEW t, t = wal[Ddl!Entry].table
  PROVE  /\ t \in Tables /\ Ddl!Entry \in Ddl!Of(t) /\ Ddl!Made(Ddl!Entry) \in DdlRelType
            /\ DdlWithin(Ddl!Made(Ddl!Entry))
         /\ tgt' \in [Tables -> DdlRelType] /\ tgt'[t] = Ddl!Made(Ddl!Entry)
         /\ \A u \in Tables : u # t => tgt'[u] = tgt[u]
         /\ \/ wal[Ddl!Entry].kind = "create" /\ Ddl!Made(Ddl!Entry).here
               /\ Ddl!Made(Ddl!Entry).cols = tgt[t].cols /\ Ddl!Made(Ddl!Entry).rows = tgt[t].rows
            \/ wal[Ddl!Entry].kind = "drop" /\ Ddl!Made(Ddl!Entry) = Ddl!NoTable
            \/ wal[Ddl!Entry].kind = "add" /\ Ddl!Made(Ddl!Entry).here /\ tgt[t].here
               /\ Ddl!Made(Ddl!Entry).cols = tgt[t].cols \cup {Ddl!Entry}
                  /\ Ddl!Made(Ddl!Entry).rows = tgt[t].rows
<1>1. DdlTypes
  BY DEF DdlInv
<1>2. batch # {} /\ Ddl!ShouldApply(Ddl!Entry) /\ Ddl!Answer(Ddl!Entry) = "done"
      /\ tgt' = [tgt EXCEPT ![t] = Ddl!Made(Ddl!Entry)]
  BY DEF DdlRuns
<1>3. Ddl!Entry \in 1..DdlL
  BY <1>1, <1>2, DdlEntryIsLeast
<1>4. t \in Tables /\ Ddl!Entry \in Ddl!Of(t) /\ Ddl!Entry \in Ddl!Ops
  BY <1>1, <1>3, DdlPlaces DEF Ddl!Of
<1>5. /\ tgt[t] \in DdlRelType /\ DdlWithin(tgt[t]) /\ (~tgt[t].here => tgt[t] = Ddl!NoTable)
      /\ Ddl!Entry \in Nat
  <2>1. tgt[t] \in DdlRelType /\ DdlWithin(tgt[t]) /\ Ddl!Entry \in Nat
    BY <1>1, <1>3, <1>4, DdlPlaces DEF DdlTypes
  <2>2. DdlSane(t)
    BY <1>4 DEF DdlInv
  <2> QED
    BY <2>1, <2>2 DEF DdlSane
<1>6. /\ Ddl!Made(Ddl!Entry) \in DdlRelType /\ DdlWithin(Ddl!Made(Ddl!Entry))
      /\ \/ wal[Ddl!Entry].kind = "create" /\ Ddl!Made(Ddl!Entry).here
            /\ Ddl!Made(Ddl!Entry).cols = tgt[t].cols /\ Ddl!Made(Ddl!Entry).rows = tgt[t].rows
         \/ wal[Ddl!Entry].kind = "drop" /\ Ddl!Made(Ddl!Entry) = Ddl!NoTable
         \/ wal[Ddl!Entry].kind = "add" /\ Ddl!Made(Ddl!Entry).here /\ tgt[t].here
            /\ Ddl!Made(Ddl!Entry).cols = tgt[t].cols \cup {Ddl!Entry}
               /\ Ddl!Made(Ddl!Entry).rows = tgt[t].rows
  <2>0. Ddl!Text(Ddl!Entry) = Ddl!Entry
    BY <1>2, DdlTextOf
  <2>1. CASE wal[Ddl!Entry].kind = "create"
    <3>1. Ddl!Made(Ddl!Entry) = IF tgt[t].here THEN tgt[t] ELSE Ddl!NewTable
      BY <2>0, <2>1 DEF Ddl!Made
    <3> QED
      BY <1>5, <2>1, <3>1 DEF Ddl!NewTable, Ddl!NoTable, DdlRelType, DdlWithin
  <2>2. CASE wal[Ddl!Entry].kind = "drop"
    <3>1. Ddl!Made(Ddl!Entry) = Ddl!NoTable
      BY <2>0, <2>2 DEF Ddl!Made
    <3> QED
      BY <2>2, <3>1 DEF Ddl!NoTable, DdlRelType, DdlWithin
  <2>3. CASE wal[Ddl!Entry].kind = "add" /\ tgt[t].here
    <3>1. Ddl!Made(Ddl!Entry) = [tgt[t] EXCEPT !.cols = @ \cup {Ddl!Entry}]
      BY <2>0, <2>3 DEF Ddl!Made
    <3> QED
      BY <1>4, <1>5, <2>3, <3>1 DEF DdlRelType, DdlWithin
  <2> QED
    BY <1>2, <2>1, <2>2, <2>3, DdlTextOf
<1>7. /\ tgt' \in [Tables -> DdlRelType] /\ tgt'[t] = Ddl!Made(Ddl!Entry)
      /\ \A u \in Tables : u # t => tgt'[u] = tgt[u]
  BY <1>1, <1>2, <1>4, <1>6 DEF DdlTypes
<1> QED
  BY <1>4, <1>6, <1>7

\* A statement that is executed: for its table the cursor in memory gains it, and
\* the saved one still claims only what is before it.
LEMMA DdlRunsStep ==
  ASSUME DdlInv, DdlRuns, poller' \in {"on", "halted"}, missing' \subseteq Tables,
         \/ lastID' = Ddl!Entry /\ batch' = batch \ {Ddl!Entry}
         \/ lastID' = lastID /\ batch' = batch
  PROVE  DdlInv'
<1>1. DdlTypes /\ DdlCursors
  BY DEF DdlInv
<1>2. /\ batch # {} /\ Ddl!ShouldApply(Ddl!Entry) /\ Ddl!Answer(Ddl!Entry) = "done"
      /\ executed' = executed \cup {Ddl!Entry}
      /\ UNCHANGED <<wal, src, open, trigger, ddlLog, dml, counted, saved, marked>>
  BY DEF DdlRuns
<1>3. DdlCursors' /\ lastID' \in 0..DdlL /\ saved.ddl < Ddl!Entry /\ lastID < Ddl!Entry
  <2>1. Ddl!Entry \in batch /\ Ddl!Entry > lastID /\ lastID \in 0..DdlL
    BY <1>1, <1>2, DdlEntryIsLeast DEF DdlCursors, DdlTypes
  <2>2. Ddl!Entry \in Nat /\ lastID \in Nat /\ saved.ddl \in Nat /\ saved.ddl <= lastID
    BY <1>1, <1>2, DdlEntryIsLeast, DdlPlaces DEF DdlCursors
  <2>3. lastID < Ddl!Entry /\ saved.ddl < Ddl!Entry
    BY <2>1, <2>2
  <2>4. CASE lastID' = Ddl!Entry /\ batch' = batch \ {Ddl!Entry}
    BY <1>2, <2>3, <2>4, DdlPassCursors
  <2>5. CASE lastID' = lastID /\ batch' = batch
    BY <1>1, <1>2, <2>1, <2>3, <2>5 DEF DdlCursors
  <2> QED
    BY <2>4, <2>5
<1>4. DdlL' = DdlL /\ Ddl!Ops' = Ddl!Ops
  BY <1>2, DdlSameLog
<1>5. PICK e \in 1..DdlL : e = Ddl!Entry
  BY <1>1, <1>2, DdlEntryIsLeast
<1>6. PICK t : t = wal[e].table
  OBVIOUS
<1>7. PICK r : r = Ddl!Made(e)
  OBVIOUS
<1>8. /\ t \in Tables /\ e \in Ddl!Of(t) /\ r \in DdlRelType /\ DdlWithin(r)
      /\ tgt' \in [Tables -> DdlRelType] /\ tgt'[t] = r
      /\ \A u \in Tables : u # t => tgt'[u] = tgt[u]
      /\ \/ wal[e].kind = "create" /\ r.here /\ r.cols = tgt[t].cols /\ r.rows = tgt[t].rows
         \/ wal[e].kind = "drop" /\ r = Ddl!NoTable
         \/ wal[e].kind = "add" /\ r.here /\ tgt[t].here
            /\ r.cols = tgt[t].cols \cup {e} /\ r.rows = tgt[t].rows
  BY <1>5, <1>6, <1>7, DdlExecutesTable
<1>9. DdlL \in Nat /\ 0 < e /\ e <= DdlL /\ e \in Nat /\ e \in 0..DdlL
  BY <1>1, <1>5, DdlPlaces
<1>10. DdlTypes'
  <2>1. e \in ddlLog \ open
    BY <1>1, <1>2, <1>5, DdlEntryIsLeast DEF DdlTypes
  <2>2. \A u \in Tables : DdlWithin(src[u])' /\ DdlWithin(tgt[u])'
    <3>1. \A u \in Tables : DdlWithin(src[u]) /\ DdlWithin(tgt[u])
      BY <1>1 DEF DdlTypes
    <3> QED
      BY <1>2, <1>4, <1>8, <3>1 DEF DdlWithin
  <2> QED
    BY <1>1, <1>2, <1>3, <1>4, <1>5, <1>8, <2>1, <2>2 DEF DdlTypes
<1>12. ASSUME NEW u \in Tables PROVE DdlSane(u)'
  <2>1. DdlSane(u)
    BY DEF DdlInv
  <2>2. (DdlDropped(u, 0, DdlL)' <=> DdlDropped(u, 0, DdlL)) /\ DdlRowsOf(u)' = DdlRowsOf(u)
        /\ (Ddl!Recreated(u)' <=> Ddl!Recreated(u))
    BY <1>2, DdlSameLog DEF DdlDropped
  <2>3. CASE u # t
    BY <1>2, <1>8, <2>1, <2>2, <2>3 DEF DdlSane
  <2>4. CASE u = t /\ wal[e].kind = "drop"
    <3>1. DdlDropped(u, 0, DdlL)
      BY <1>8, <1>9, <2>4 DEF DdlDropped
    <3>2. tgt'[u].cols = {} /\ tgt'[u].rows = {} /\ tgt'[u] = Ddl!NoTable
      BY <1>8, <2>4 DEF Ddl!NoTable
    <3> QED
      BY <1>2, <2>1, <2>2, <3>1, <3>2 DEF DdlSane
  <2>5. CASE u = t /\ wal[e].kind # "drop"
    <3>1. /\ tgt'[u].here /\ tgt'[u].rows = tgt[u].rows
          /\ tgt'[u].cols \subseteq tgt[u].cols \cup {e}
      BY <1>8, <2>5
    <3> QED
      BY <1>2, <1>5, <2>1, <2>2, <3>1 DEF DdlSane
  <2> QED
    BY <2>3, <2>4, <2>5
<1>13. PICK H : \A u \in Tables : DdlWorld(H, u) /\ DdlClaim(H, u, lastID)
            /\ DdlClaim(H, u, saved.ddl)
  BY DEF DdlInv
<1>16. \A i \in Ddl!Of(t) : /\ i \in Nat /\ (i <= e - 1 => i <= e)
                               /\ (i <= e /\ i # e => i <= e - 1 /\ i < e)
                            /\ i # e => (i <= e <=> i <= e - 1)
  <2>1. \A i \in Ddl!Of(t) : i \in Nat
    BY <1>1, DdlPlaces
  <2> QED
    BY <1>9, <2>1
<1>17. ASSUME wal[e].kind = "add", ~DdlDropped(t, e, DdlL) PROVE e \in src[t].cols
  BY <1>8, <1>9, <1>13, <1>17 DEF DdlWorld, DdlCols
<1>18. ASSUME NEW u \in Tables PROVE DdlClaim(H, u, e)'
  <2> SUFFICES ASSUME ~DdlLacks(u), ~DdlPassed(u, e)', ~DdlDropped(u, e, DdlL)
               PROVE DdlAgrees(H, u, e)'
    BY <1>2, DdlUnseenKept DEF DdlClaim
  <2>1. \A i \in Ddl!Statements(u) : i <= Ddl!Entry /\ wal[i].kind # "rider"
                                    => i \in executed \cup marked \cup {Ddl!Entry}
    BY <1>2, <1>5, DdlSameLog DEF DdlPassed
  <2>2. CASE u # t
    <3>1. DdlAgrees(H, u, e)
      BY <1>2, <1>5, <1>6, <1>13, <2>1, <2>2, DdlPassedBy
    <3> QED
      BY <1>2, <1>8, <2>2, <3>1, DdlSameLog, DdlUnseenKept DEF DdlAgrees
  <2>3. CASE u = t /\ wal[e].kind = "drop"
    <3>1. tgt'[u].cols = {} /\ ~tgt'[u].here
      BY <1>8, <2>3 DEF Ddl!NoTable
    <3>2. \A i : i < e => DdlDropped(u, i, e)
      BY <1>8, <1>9, <2>3 DEF DdlDropped
    <3>3. DdlCols(u, e) = {}
      BY <1>8, <1>16, <2>3, <3>2 DEF DdlCols
    <3>4. ~DdlHere(H, u, e)
      BY <1>8, <1>9, <1>16, <2>3, <3>2 DEF DdlHere
    <3> QED
      BY <1>2, <3>1, <3>3, <3>4, DdlSameLog DEF DdlAgrees
  <2>4. CASE u = t /\ wal[e].kind # "drop"
    <3>1. /\ DdlQuiet(u, lastID, e - 1) /\ e - 1 \in 0..DdlL /\ lastID <= e - 1
          /\ DdlAgrees(H, u, lastID)
      BY <1>2, <1>5, <1>13, <2>1, <2>4, DdlPassedBy
    <3>2. lastID \in 0..DdlL
      BY <1>1 DEF DdlTypes
    <3>3. DdlAgrees(H, u, e - 1)
      BY <1>1, <3>1, <3>2, DdlQuietSpan
    <3>4. \A i : DdlDropped(u, i, e) <=> DdlDropped(u, i, e - 1)
      BY <1>16, <2>4 DEF DdlDropped
    <3>5. ~DdlDropped(u, e, e)
      BY <1>16, <2>4 DEF DdlDropped
    <3>6. CASE wal[e].kind = "create"
      <4>1. DdlCols(u, e) = DdlCols(u, e - 1)
        BY <1>16, <2>4, <3>4, <3>6 DEF DdlCols
      <4>2. DdlHere(H, u, e)
        BY <1>8, <1>9, <2>4, <3>5, <3>6 DEF DdlHere
      <4>3. tgt'[u].here /\ tgt'[u].cols = tgt[u].cols
        BY <1>8, <2>4, <3>6
      <4> QED
        BY <1>2, <3>3, <4>1, <4>2, <4>3, DdlSameLog DEF DdlAgrees
    <3>7. CASE wal[e].kind = "add"
      <4>1. DdlCols(u, e) \subseteq DdlCols(u, e - 1) \cup {e}
        BY <1>16, <2>4, <3>4 DEF DdlCols
      <4>2. DdlHere(H, u, e)
        BY <1>8, <1>13, <2>4, <3>7 DEF DdlWorld
      <4>3. tgt'[u].here /\ tgt'[u].cols = tgt[u].cols \cup {e}
        BY <1>8, <2>4, <3>7
      <4>4. e \in src[u].cols
        BY <1>17, <2>4, <3>7
      <4> QED
        BY <1>2, <3>3, <4>1, <4>2, <4>3, <4>4, DdlSameLog DEF DdlAgrees
    <3> QED
      BY <1>8, <2>4, <3>6, <3>7
  <2> QED
    BY <2>2, <2>3, <2>4
<1>19. ASSUME NEW u \in Tables, NEW s \in {lastID, saved.ddl} PROVE DdlClaim(H, u, s)'
  <2>0. s \in Nat /\ s < e /\ ~(e <= s)
    <3>1. s \in Nat /\ s < e
      BY <1>1, <1>3, <1>5, DdlPlaces
    <3> QED
      BY <3>1, <1>9
  <2> SUFFICES ASSUME ~DdlLacks(u), ~DdlPassed(u, s)', ~DdlDropped(u, s, DdlL)
               PROVE DdlAgrees(H, u, s)'
    BY <1>2, DdlUnseenKept DEF DdlClaim
  <2>1. ~DdlPassed(u, s)
    <3>1. \A i \in Ddl!Statements(u) : i <= s => i # e
      BY <2>0
    <3> QED
      BY <1>2, <1>5, <3>1, DdlSameLog DEF DdlPassed
  <2>2. DdlAgrees(H, u, s)
    BY <1>13, <2>1 DEF DdlClaim
  <2>3. CASE u # t
    BY <1>2, <1>8, <2>2, <2>3, DdlSameLog, DdlUnseenKept DEF DdlAgrees
  <2>4. CASE u = t
    <3>1. wal[e].kind # "drop"
      BY <1>8, <1>9, <2>0, <2>4 DEF DdlDropped
    <3>2. \A i \in Ddl!Of(t) : e < i => s < i
      BY <1>9, <2>0, <1>16
    <3>3. ~DdlDropped(u, e, DdlL)
      BY <2>4, <3>2 DEF DdlDropped
    <3>4. CASE wal[e].kind = "create"
      <4>1. DdlCreated(u, s, DdlL)
        BY <1>8, <1>9, <2>0, <2>4, <3>4 DEF DdlCreated
      <4>2. tgt'[u].here /\ tgt'[u].cols = tgt[u].cols
        BY <1>8, <2>4, <3>4
      <4> QED
        BY <1>2, <2>2, <4>1, <4>2, DdlSameLog, DdlUnseenKept DEF DdlAgrees
    <3>5. CASE wal[e].kind = "add"
      <4>1. tgt[u].here /\ tgt'[u].here /\ tgt'[u].cols = tgt[u].cols \cup {e} /\ e \in src[u].cols
        BY <1>8, <1>17, <2>4, <3>3, <3>5
      <4> QED
        BY <1>2, <2>2, <4>1, DdlSameLog, DdlUnseenKept DEF DdlAgrees
    <3> QED
      BY <1>8, <3>1, <3>4, <3>5
  <2> QED
    BY <2>3, <2>4
<1>20. \A u \in Tables : DdlWorld(H, u)' /\ DdlClaim(H, u, lastID)' /\ DdlClaim(H, u, saved.ddl)'
  <2>1. PICK a : a = lastID'
    OBVIOUS
  <2>2. PICK s : s = saved.ddl
    OBVIOUS
  <2>3. \A u \in Tables : DdlClaim(H, u, a)' /\ DdlClaim(H, u, s)'
    BY <1>5, <1>18, <1>19, <2>1, <2>2
  <2>4. \A u \in Tables : DdlWorld(H, u)'
    BY <1>2, <1>13, DdlSameWorld
  <2> QED
    BY <1>2, <2>1, <2>2, <2>3, <2>4, DdlClaimRigid
<1> QED
  BY <1>3, <1>10, <1>12, <1>20 DEF DdlInv

LEMMA DdlExecutesStep == ASSUME DdlInv, Ddl!Executes PROVE DdlInv'
<1>1. DdlRuns /\ poller' = "on" /\ missing' = {} /\ lastID' = Ddl!Entry
      /\ batch' = batch \ {Ddl!Entry}
  BY DEF Ddl!Executes, DdlRuns, Ddl!Passes, Ddl!logVars, Ddl!srcVars
<1> QED
  BY <1>1, DdlRunsStep

LEMMA DdlHaltsStep == ASSUME DdlInv, Ddl!Halts PROVE DdlInv'
<1>1. /\ poller' = "halted" /\ batch # {} /\ Ddl!ShouldApply(Ddl!Entry)
      /\ UNCHANGED <<wal, src, open, trigger, ddlLog, lastID, batch, dml, missing, counted,
                     saved, marked>>
  BY DEF Ddl!Halts, Ddl!logVars, Ddl!srcVars, Ddl!rowVars
<1>2. DdlTypes /\ DdlCursors
  BY DEF DdlInv
<1>3. CASE UNCHANGED <<tgt, executed>>
  <2>1. DdlL' = DdlL /\ Ddl!Ops' = Ddl!Ops
    BY <1>1, DdlSameLog
  <2>2. DdlTypes' /\ DdlCursors'
    BY <1>1, <1>2, <1>3, <2>1 DEF DdlTypes, DdlWithin, DdlCursors
  <2>3. \A u \in Tables : DdlSane(u)'
    BY <1>1, <1>3, DdlSaneKept
  <2>4. \E H : \A t \in Tables : DdlWorld(H, t)' /\ DdlClaim(H, t, lastID)'
          /\ DdlClaim(H, t, saved.ddl)'
    BY <1>1, <1>3, DdlClaimsKept
  <2> QED
    BY <2>2, <2>3, <2>4 DEF DdlInv
<1>4. CASE ~UNCHANGED <<tgt, executed>>
  <2>1. DdlRuns
    BY <1>1, <1>4 DEF Ddl!Halts, DdlRuns
  <2>2. missing' \subseteq Tables
    BY <1>1, <1>2 DEF DdlTypes
  <2> QED
    BY <1>1, <2>1, <2>2, DdlRunsStep
<1> QED
  BY <1>3, <1>4

-----------------------------------------------------------------------------
(* The whole. *)

LEMMA DdlInitInv == ASSUME Ddl!Init PROVE DdlInv
<1>1. PICK some \in SUBSET Tables :
           src = [t \in Tables |-> IF t \in some THEN Ddl!NewTable ELSE Ddl!NoTable]
  BY DEF Ddl!Init
<1>2. /\ wal = <<>> /\ open = {} /\ trigger = FALSE /\ ddlLog = {} /\ tgt = src
      /\ poller = "down" /\ lastID = 0 /\ batch = {} /\ dml = 1
      /\ saved = [lsn |-> 1, ddl |-> 0]
      /\ missing = {} /\ counted = {} /\ marked = {} /\ executed = {}
  BY DEF Ddl!Init
<1>3. DdlL = 0 /\ Ddl!Ops = {} /\ wal \in Seq(DdlEntryType)
  BY <1>2 DEF DdlL, Ddl!Ops
<1>4. Ddl!NewTable \in DdlRelType /\ Ddl!NoTable \in DdlRelType /\ DdlWithin(Ddl!NewTable)
      /\ DdlWithin(Ddl!NoTable)
  BY DEF Ddl!NewTable, Ddl!NoTable, DdlRelType, DdlWithin
<1>5. src \in [Tables -> DdlRelType] /\ \A t \in Tables : DdlWithin(src[t])
  BY <1>1, <1>4
<1>6. saved \in [lsn : 1..DdlL + 1, ddl : 0..DdlL] /\ saved.lsn = 1 /\ saved.ddl = 0
  BY <1>2, <1>3
<1>7. DdlTypes
  BY <1>2, <1>3, <1>5, <1>6 DEF DdlTypes
<1>8. DdlCursors
  BY <1>2, <1>6 DEF DdlCursors
<1>9. \A t : Ddl!Of(t) = {} /\ Ddl!Statements(t) = {} /\ DdlRowsOf(t) = {}
  BY <1>3 DEF Ddl!Of, Ddl!Statements, DdlRowsOf
<1>10. \A t, i, n : ~DdlDropped(t, i, n) /\ DdlCols(t, n) = {} /\ \A H : DdlHere(H, t, n)
         <=> t \in H
  BY <1>9 DEF DdlDropped, DdlCols, DdlHere
<1>11. \A t \in Tables : /\ src[t].cols = {} /\ src[t].rows = {} /\ (src[t].here <=> t \in some)
                         /\ ~src[t].here => src[t] = Ddl!NoTable
  BY <1>1 DEF Ddl!NewTable, Ddl!NoTable
<1>12. \A t \in Tables : DdlSane(t)
  BY <1>2, <1>9, <1>10, <1>11 DEF DdlSane
<1>13. \A t \in Tables : DdlWorld(some, t) /\ DdlClaim(some, t, lastID)
         /\ DdlClaim(some, t, saved.ddl)
  <2>1. \A t \in Tables : DdlWorld(some, t)
    BY <1>9, <1>10, <1>11 DEF DdlWorld
  <2>2. \A t \in Tables : DdlAgrees(some, t, 0)
    BY <1>2, <1>10, <1>11 DEF DdlAgrees
  <2> QED
    BY <1>2, <1>6, <2>1, <2>2 DEF DdlClaim
<1> QED
  BY <1>7, <1>8, <1>12, <1>13 DEF DdlInv

LEMMA DdlDoesKinds ==
  ASSUME DdlInv, NEW t \in Tables, Ddl!Creates(t) \/ Ddl!Drops(t) \/ Ddl!Adds(t) \/ Ddl!AddsOddly(t)
         \/ Ddl!Rides(t) \/ Ddl!InsertsRow(t)
  PROVE  DdlInv'
<1>1. CASE Ddl!Creates(t)
  <2>1. DdlBecomes("create", t, Ddl!NewTable) /\ Ddl!Does("create", t, Ddl!NewTable)
    BY <1>1 DEF Ddl!Creates, DdlBecomes
  <2> QED
    BY <2>1, DdlDoesStep DEF Ddl!Kinds
<1>2. CASE Ddl!Drops(t)
  <2>1. DdlBecomes("drop", t, Ddl!NoTable) /\ Ddl!Does("drop", t, Ddl!NoTable)
    BY <1>2 DEF Ddl!Drops, DdlBecomes
  <2> QED
    BY <2>1, DdlDoesStep DEF Ddl!Kinds
<1>3. CASE Ddl!Adds(t)
  <2> DEFINE r == [src[t] EXCEPT !.cols = @ \cup {Ddl!Op}]
  <2>1. DdlBecomes("add", t, r) /\ Ddl!Does("add", t, r)
    BY <1>3 DEF Ddl!Adds, DdlBecomes
  <2> HIDE DEF r
  <2> QED
    BY <2>1, DdlDoesStep DEF Ddl!Kinds
<1>4. CASE Ddl!AddsOddly(t)
  <2> DEFINE r == [src[t] EXCEPT !.cols = @ \cup {Ddl!Op}]
  <2>1. DdlBecomes("odd", t, r) /\ Ddl!Does("odd", t, r)
    BY <1>4 DEF Ddl!AddsOddly, DdlBecomes
  <2> HIDE DEF r
  <2> QED
    BY <2>1, DdlDoesStep DEF Ddl!Kinds
<1>5. CASE Ddl!Rides(t)
  <2> DEFINE r == src[t]
  <2>1. DdlBecomes("rider", t, r) /\ Ddl!Does("rider", t, r)
    BY <1>5 DEF Ddl!Rides, DdlBecomes
  <2> HIDE DEF r
  <2> QED
    BY <2>1, DdlDoesStep DEF Ddl!Kinds
<1>6. CASE Ddl!InsertsRow(t)
  <2> DEFINE r == [src[t] EXCEPT !.rows = @ \cup {Ddl!Op}]
  <2>1. DdlBecomes("row", t, r) /\ Ddl!Does("row", t, r)
    BY <1>6 DEF Ddl!InsertsRow, DdlBecomes
  <2> HIDE DEF r
  <2> QED
    BY <2>1, DdlDoesStep DEF Ddl!Kinds
<1> QED
  BY <1>1, <1>2, <1>3, <1>4, <1>5, <1>6

LEMMA DdlNextStep == ASSUME DdlInv, Ddl!Next PROVE DdlInv'
<1>1. CASE \E t \in Tables : Ddl!Creates(t) \/ Ddl!Drops(t) \/ Ddl!Adds(t) \/ Ddl!AddsOddly(t)
             \/ Ddl!Rides(t) \/ Ddl!InsertsRow(t)
  BY <1>1, DdlDoesKinds
<1> QED
  BY <1>1, DdlCommitsStep, DdlStartsStep, DdlTicksStep, DdlEndsStep, DdlFetchesStep,
    DdlPassesRiderStep, DdlExecutesStep, DdlSkipsStep, DdlHaltsStep, DdlStreamsStep,
    DdlAppliesRowStep, DdlCountsRowStep DEF Ddl!Next

LEMMA DdlStutterStep == ASSUME DdlInv, UNCHANGED Ddl!vars PROVE DdlInv'
<1>1. DdlTypes /\ DdlCursors
  BY DEF DdlInv
<1>2. UNCHANGED <<wal, src, open, trigger, ddlLog, poller, lastID, batch, dml, missing, counted,
                  saved, tgt, marked, executed>>
  BY DEF Ddl!vars, Ddl!logVars, Ddl!srcVars, Ddl!pollVars, Ddl!rowVars
<1>3. DdlL' = DdlL /\ Ddl!Ops' = Ddl!Ops
  BY <1>2, DdlSameLog
<1>4. DdlTypes'
  BY <1>1, <1>2, <1>3 DEF DdlTypes, DdlWithin
<1>5. DdlCursors'
  BY <1>1, <1>2 DEF DdlCursors
<1>6. \A u \in Tables : DdlSane(u)'
  BY <1>2, DdlSaneKept
<1>7. \E H : \A t \in Tables : DdlWorld(H, t)' /\ DdlClaim(H, t, lastID)'
        /\ DdlClaim(H, t, saved.ddl)'
  BY <1>2, DdlClaimsKept
<1> QED
  BY <1>4, <1>5, <1>6, <1>7 DEF DdlInv

\* What is out of reach stays dealt with: the entries between the cursor and a batch
\* were uncommitted when it was fetched.
LEMMA DdlSteppedStep ==
  ASSUME DdlInv, DdlStepped, Ddl!Next \/ UNCHANGED Ddl!vars
  PROVE  DdlStepped'
<1>1. DdlTypes /\ DdlCursors
  BY DEF DdlInv
<1>2. /\ DdlL \in Nat /\ ddlLog \subseteq 1..DdlL /\ batch \subseteq 1..DdlL
      /\ lastID \in 0..DdlL /\ saved.ddl \in 0..DdlL /\ saved.ddl <= lastID
      /\ \A i \in batch : i > lastID
  BY <1>1, DdlPlaces DEF DdlTypes, DdlCursors
<1>3. \A i \in batch : i \in ddlLog \ open
  BY <1>1 DEF DdlTypes
<1>4. CASE \E t \in Tables : Ddl!Creates(t) \/ Ddl!Drops(t) \/ Ddl!Adds(t) \/ Ddl!AddsOddly(t)
             \/ Ddl!Rides(t) \/ Ddl!InsertsRow(t)
  <2>1. PICK t, kind, table : Ddl!Does(kind, t, table)
    BY <1>4 DEF Ddl!Creates, Ddl!Drops, Ddl!Adds, Ddl!AddsOddly, Ddl!Rides, Ddl!InsertsRow
  <2>2. /\ ddlLog \subseteq ddlLog' /\ ddlLog' \subseteq ddlLog \cup {DdlL + 1}
        /\ open \subseteq open'
        /\ UNCHANGED <<poller, lastID, batch, saved, marked, executed, late>>
    BY <2>1 DEF Ddl!Does, Ddl!Op, Ddl!pollVars, DdlL
  <2>3. \A i \in 1..DdlL : wal'[i] = wal[i]
    <3>1. PICK e : wal' = Append(wal, e)
      BY <2>1 DEF Ddl!Does
    <3> QED
      BY <1>1, <3>1 DEF DdlTypes, DdlL
  <2>4. \A i : DdlOutOfReach(i)' <=> DdlOutOfReach(i)
    BY <2>2 DEF DdlOutOfReach
  <2>5. ~DdlOutOfReach(DdlL + 1)
    BY <1>2 DEF DdlOutOfReach
  <2>6. \A i \in ddlLog' : DdlOutOfReach(i)' => i \in ddlLog /\ wal'[i].kind = wal[i].kind
    BY <1>2, <2>2, <2>3, <2>4, <2>5
  <2> QED
    BY <2>2, <2>4, <2>6 DEF DdlStepped
<1>5. CASE Ddl!Commits
  <2>1. /\ open' = {} /\ late' = late \cup {i \in open \cap ddlLog : Ddl!Reached(i)}
        /\ UNCHANGED <<wal, ddlLog, poller, lastID, batch, saved, marked, executed>>
    BY <1>5 DEF Ddl!Commits, Ddl!pollVars
  <2>2. \A i \in 1..DdlL : DdlOutOfReach(i)' => DdlOutOfReach(i) /\ Ddl!Reached(i)
    BY <1>2, <2>1 DEF DdlOutOfReach, Ddl!Reached, Ddl!Up
  <2> QED
    BY <1>2, <2>1, <2>2 DEF DdlStepped
<1>6. CASE Ddl!Starts
  <2>1. /\ poller' \in {"on", "off"} /\ lastID' = saved.ddl /\ batch' = {}
        /\ UNCHANGED <<wal, open, ddlLog, saved, marked, executed, late>>
    BY <1>6 DEF Ddl!Starts, Ddl!srcVars
  <2>2. poller = "down" /\ batch = {}
    BY <1>6 DEF Ddl!Starts, DdlStepped
  <2>3. \A i : DdlOutOfReach(i)' => DdlOutOfReach(i)
    BY <2>1 DEF DdlOutOfReach
  <2> QED
    BY <2>1, <2>2, <2>3 DEF DdlStepped
<1>7. CASE Ddl!Ticks \/ Ddl!Ends
  <2>1. saved' \in {saved, [lsn |-> dml, ddl |-> lastID]} /\ poller # "down"
        /\ UNCHANGED <<wal, open, ddlLog, lastID, marked, executed, late>>
    <3>1. CASE Ddl!Ticks
      BY <3>1 DEF Ddl!Ticks, Ddl!Save, Ddl!Up, Ddl!logVars, Ddl!srcVars, Ddl!pollVars
    <3>2. CASE Ddl!Ends
      BY <3>2 DEF Ddl!Ends, Ddl!Save, Ddl!Up, Ddl!srcVars
    <3> QED
      BY <1>7, <3>1, <3>2
  <2>2. (poller' = poller /\ batch' = batch) \/ (poller' = "down" /\ batch' = {})
    BY <1>7 DEF Ddl!Ticks, Ddl!Ends, Ddl!pollVars
  <2>3. saved'.ddl \in {saved.ddl, lastID}
    BY <2>1
  <2>4. ASSUME NEW i \in ddlLog \ batch', DdlOutOfReach(i)'
        PROVE  DdlOutOfReach(i) /\ i \notin batch
    <3>1. i <= saved'.ddl \/ (poller' # "down" /\ i <= lastID) \/ \E j \in batch' : i < j
      BY <2>1, <2>4 DEF DdlOutOfReach
    <3>2. i \in Nat /\ lastID \in Nat /\ saved.ddl \in Nat
      BY <1>2, <2>1, <2>4
    <3>3. CASE i <= lastID
      BY <1>2, <2>1, <3>2, <3>3 DEF DdlOutOfReach
    <3>4. CASE ~(i <= lastID)
      <4>1. batch' # {}
        BY <1>2, <2>3, <3>1, <3>2, <3>4
      <4>2. batch' = batch
        BY <2>2, <4>1
      <4> QED
        BY <1>2, <2>3, <3>1, <3>2, <3>4, <4>2, <2>4 DEF DdlOutOfReach
    <3> QED
      BY <3>3, <3>4
  <2> QED
    BY <2>1, <2>2, <2>4 DEF DdlStepped
<1>8. CASE Ddl!Fetches
  <2>1. /\ poller = "on" /\ batch = {} /\ batch' = {i \in ddlLog \ open : i > lastID}
        /\ UNCHANGED <<wal, open, ddlLog, poller, lastID, saved, marked, executed, late>>
    BY <1>8 DEF Ddl!Fetches, Ddl!Visible, Ddl!logVars, Ddl!srcVars
  <2>2. \A i \in ddlLog \ batch' : i \in open \/ (i <= lastID /\ DdlOutOfReach(i))
    BY <1>2, <2>1 DEF DdlOutOfReach
  <2> QED
    BY <2>1, <2>2 DEF DdlStepped
<1>9. CASE Ddl!PassesRider \/ Ddl!Executes \/ Ddl!Skips
  <2>1. /\ batch # {} /\ poller = "on" /\ lastID' = Ddl!Entry /\ batch' = batch \ {Ddl!Entry}
        /\ executed \subseteq executed' /\ marked \subseteq marked'
        /\ wal[Ddl!Entry].kind = "rider" \/ Ddl!Entry \in executed' \cup marked'
        /\ UNCHANGED <<wal, open, ddlLog, poller, saved, late>>
    BY <1>9 DEF Ddl!PassesRider, Ddl!Executes, Ddl!Skips, Ddl!Passes, Ddl!ShouldApply,
      Ddl!logVars, Ddl!srcVars
  <2>2. Ddl!Entry \in batch /\ (\A i \in batch : Ddl!Entry <= i) /\ Ddl!Entry \in 1..DdlL
    BY <1>1, <2>1, DdlEntryIsLeast
  <2>3. \A i \in ddlLog : DdlOutOfReach(i)' => i = Ddl!Entry \/ DdlOutOfReach(i)
    BY <1>2, <2>1, <2>2 DEF DdlOutOfReach
  <2> QED
    BY <2>1, <2>3 DEF DdlStepped
<1>10. CASE Ddl!Halts
  <2>1. /\ poller = "on" /\ poller' = "halted" /\ executed \subseteq executed'
        /\ UNCHANGED <<wal, open, ddlLog, lastID, batch, saved, marked, late>>
    BY <1>10 DEF Ddl!Halts, Ddl!logVars, Ddl!srcVars
  <2>2. \A i : DdlOutOfReach(i)' <=> DdlOutOfReach(i)
    BY <2>1 DEF DdlOutOfReach
  <2> QED
    BY <2>1, <2>2 DEF DdlStepped
<1>11. CASE Ddl!Streams \/ Ddl!AppliesRow \/ Ddl!CountsRow \/ UNCHANGED Ddl!vars
  <2>1. UNCHANGED <<wal, open, ddlLog, poller, lastID, batch, saved, marked, executed, late>>
    BY <1>11 DEF Ddl!Streams, Ddl!AppliesRow, Ddl!CountsRow, Ddl!vars, Ddl!logVars, Ddl!srcVars,
      Ddl!pollVars
  <2>2. \A i : DdlOutOfReach(i)' <=> DdlOutOfReach(i)
    BY <2>1 DEF DdlOutOfReach
  <2> QED
    BY <2>1, <2>2 DEF DdlStepped
<1> QED
  BY <1>4, <1>5, <1>6, <1>7, <1>8, <1>9, <1>10, <1>11 DEF Ddl!Next

LEMMA DdlInitStepped == ASSUME Ddl!Init PROVE DdlStepped
  BY DEF Ddl!Init, DdlStepped

\* A column that is there already came from the entry itself.
LEMMA DdlDuplicates == ASSUME DdlInv PROVE Ddl!DuplicateIsReplay
<1> SUFFICES ASSUME batch # {}, Ddl!ShouldApply(Ddl!Entry), Ddl!Answer(Ddl!Entry) = "halt"
             PROVE  Ddl!Entry \in executed
  BY DEF Ddl!DuplicateIsReplay
<1>1. Ddl!Entry \in tgt[wal[Ddl!Entry].table].cols
  BY DdlTextOf
<1>2. wal[Ddl!Entry].table \in Tables
  BY DdlEntryIsLeast, DdlPlaces DEF DdlInv
<1> QED
  BY <1>1, <1>2 DEF DdlInv, DdlSane

\* With the log behind it, a table of which nothing went unseen agrees with the
\* source at its end.
LEMMA DdlConcludes ==
  ASSUME DdlInv, DdlStepped
  PROVE  /\ Ddl!TypeOK /\ Ddl!SchemaFollows /\ Ddl!RowsFollow
         /\ Ddl!NoneSteppedOver /\ Ddl!DuplicateIsReplay
<1>1. DdlTypes /\ DdlCursors
  BY DEF DdlInv
<1>2. Ddl!TypeOK
  BY <1>1, DdlTypesImply
<1>3. Ddl!NoneSteppedOver
  <2>1. \A i \in ddlLog : i <= (IF Ddl!Up THEN lastID ELSE saved.ddl)
          => i \notin batch /\ DdlOutOfReach(i)
    <3>1. saved.ddl \in Nat /\ lastID \in Nat /\ saved.ddl <= lastID /\ ddlLog \subseteq Nat
          /\ \A i \in batch : i > lastID
      BY <1>1, DdlPlaces DEF DdlTypes, DdlCursors
    <3> QED
      BY <3>1 DEF DdlOutOfReach, Ddl!Up
  <2> QED
    BY <2>1 DEF DdlStepped, Ddl!NoneSteppedOver, Ddl!ShouldApply
<1>4. ASSUME Ddl!HandledAll, NEW t \in Tables, ~Ddl!Unseen(t)
      PROVE  tgt[t].here = src[t].here /\ tgt[t].cols = src[t].cols
  <2>1. ~DdlLacks(t) /\ ~DdlPassed(t, lastID)
    <3>1. ~DdlLacks(t) /\ \A i \in Ddl!Statements(t) : i \in late => i \in executed \cup marked
      BY <1>4 DEF Ddl!Unseen, DdlLacks
    <3>2. Ddl!Up /\ open = {} /\ \A i \in Ddl!Statements(t) : i \in ddlLog
      BY <1>4, <3>1 DEF Ddl!HandledAll, Ddl!Up, DdlLacks
    <3> QED
      BY <1>3, <3>1, <3>2 DEF DdlPassed, Ddl!NoneSteppedOver, Ddl!ShouldApply
  <2>2. \A i \in Ddl!Statements(t) : i \in ddlLog /\ i <= lastID
    BY <1>4, <2>1 DEF Ddl!HandledAll, DdlLacks
  <2>3. \A i \in Ddl!Of(t) : wal[i].kind # "row" => ~(lastID < i)
    BY <1>1, <2>2, DdlPlaces DEF Ddl!Statements
  <2>4. ~DdlDropped(t, lastID, DdlL)
    BY <2>3 DEF DdlDropped
  <2>5. DdlQuiet(t, lastID, DdlL) /\ lastID \in 0..DdlL /\ DdlL \in 0..DdlL /\ lastID <= DdlL
    BY <1>1, <2>3, DdlPlaces DEF DdlQuiet, DdlTypes
  <2>6. PICK H : DdlWorld(H, t) /\ DdlClaim(H, t, lastID)
    BY <1>4 DEF DdlInv
  <2>7. DdlAgrees(H, t, lastID)
    BY <2>1, <2>4, <2>6 DEF DdlClaim
  <2>8. DdlAgrees(H, t, DdlL)
    BY <1>1, <2>5, <2>7, DdlQuietSpan
  <2>9. ~DdlCreated(t, DdlL, DdlL)
    BY <1>1, DdlPlaces DEF DdlCreated
  <2>10. tgt[t] \in DdlRelType /\ src[t] \in DdlRelType
    BY <1>1, <1>4 DEF DdlTypes
  <2>11. tgt[t].here \in BOOLEAN /\ src[t].here \in BOOLEAN
    BY <2>10 DEF DdlRelType
  <2> QED
    BY <2>6, <2>8, <2>9, <2>11 DEF DdlAgrees, DdlWorld
<1>5. Ddl!SchemaFollows
  BY <1>4 DEF Ddl!SchemaFollows
<1>6. ASSUME Ddl!HandledAll, dml > Len(wal), NEW t \in Tables, ~Ddl!Unseen(t), ~Ddl!Recreated(t)
      PROVE  src[t].rows \ counted \subseteq tgt[t].rows /\ tgt[t].rows \subseteq src[t].rows
  <2>1. DdlSane(t)
    BY <1>6 DEF DdlInv
  <2>2. CASE DdlDropped(t, 0, DdlL)
    <3>1. ~src[t].here /\ ~tgt[t].here
      BY <1>4, <1>6, <2>1, <2>2 DEF DdlSane
    <3> QED
      BY <2>1, <3>1 DEF DdlSane
  <2>3. CASE ~DdlDropped(t, 0, DdlL)
    <3>1. \A i \in DdlRowsOf(t) : i < dml
      BY <1>1, <1>6, DdlPlaces DEF DdlRowsOf, DdlL
    <3> QED
      BY <2>1, <2>3, <3>1 DEF DdlSane
  <2> QED
    BY <2>2, <2>3
<1>7. Ddl!RowsFollow
  BY <1>6 DEF Ddl!RowsFollow
<1> QED
  BY <1>2, <1>3, <1>5, <1>7, DdlDuplicates

-----------------------------------------------------------------------------
(* Chain: a load and the process behind it.  From every position a process  *)
(* may go on from, the last write of each table is had in the end: it is    *)
(* loaded or ahead in the log.                                              *)

\* What the theorem assumes of the bounds, and the slot it is about: the one the
\* load has made (config.yaml may name another, for which the property fails).
ChainSized == MaxWrites \in Nat \ {0} /\ MaxLoads \in Nat /\ MaxStarts \in Nat

ChainSlot == LoadSlots = {"chain"}

ChainActive == {"loading", "loaded", "seeding", "seeded", "done"}
ChainUsable == file.kind = setup.kind

\* The positions a process may go on from.
ChainPosition(p) == p = slots["chain"] \/ (ChainUsable /\ p = file.at) \/ (child.up /\ p = child.at)


\* Who applies the log from p has the last write of t in the end.
ChainFrom(t, p) == Chain!LastWrite(t, Chain!End) > p \/ tgt[t] = Chain!LastWrite(t, Chain!End)

\* No write to t since it was read is before p.
ChainSpared(t, p) == \A i \in 1..p : i > task.read[t] => wal[i] # t

\* What holds of such a position: a table that is loaded will be had from it, and
\* for one that was read only, loading it will leave nothing out.
ChainHeld(t, p) ==
  /\ t \in task.wrote => ChainFrom(t, p)
  /\ t \notin task.wrote /\ task.read[t] # 0 => ChainSpared(t, p)

\* Nothing is past the end of the log.
ChainBounded ==
  /\ \A t \in Loaded : tgt[t] <= Chain!End /\ task.read[t] <= Chain!End
  /\ \A n \in {"chain", "own"} : slots[n] <= Chain!End
  /\ file.at <= Chain!End /\ child.at <= Chain!End /\ task.chain <= Chain!End
     /\ task.stored <= Chain!End
  /\ Chain!End >= 1

\* The slot is the default one; it is there once a task or a process was started.
ChainSlotted ==
  /\ setup.slot = "chain"
  /\ setup.kind = "pg" => (task.st # "idle" \/ child.up => slots["chain"] # Chain!None)

\* A process that did not go wrong beside a load is past the slot and its file.
ChainAhead ==
  child.up /\ "beside" \notin excuse =>
    slots["chain"] <= child.at /\ (ChainUsable => file.at <= child.at)

\* What the states of the task say of its tables.
ChainLoads ==
  /\ task.st = "idle" => \A t \in Loaded : task.read[t] = 0
  /\ task.st \in ChainActive \ {"loading"} => task.wrote = Loaded
  /\ \A t \in task.wrote : task.read[t] # 0
  /\ \A t \in Loaded : task.read[t] # 0 => task.chain <= task.read[t]

\* The window between reading a table and the start is in the log from each position.
ChainWindows ==
  excuse = {} /\ task.st \in ChainActive =>
    /\ \A t \in Loaded, p \in {Chain!None} \cup Chain!Pos : ChainPosition(p) => ChainHeld(t, p)
    /\ task.chain # Chain!None
    /\ task.st \in {"loading", "loaded", "seeding"} =>
         \A t \in task.wrote : ChainFrom(t, task.chain)

ChainInv == Chain!TypeOK /\ ChainBounded /\ ChainSlotted /\ ChainAhead /\ ChainLoads /\ ChainWindows

-----------------------------------------------------------------------------
\* The largest of a finite set of places is one of them, and not smaller than any.
LEMMA ChainLargestOf ==
  ASSUME NEW n \in Nat, NEW S, S \subseteq 0..n, S # {}
  PROVE  Chain!Max(S) \in S /\ \A y \in S : y <= Chain!Max(S)
<1> DEFINE D == 0..n
           T == {x..n : x \in S}
<1>0. IsFiniteSet(D)
  BY FS_Interval
<1>1. T \subseteq SUBSET D /\ T # {}
  <2>1. \A x \in S : x..n \in SUBSET D
    OBVIOUS
  <2>2. PICK x \in S : TRUE
    OBVIOUS
  <2>3. x..n \in T
    OBVIOUS
  <2> QED
    BY <2>1, <2>3
<1>2. PICK X \in T : \A Y \in T : Y \subseteq X => Y = X
  <2> HIDE DEF T, D
  <2> QED
    BY <1>0, <1>1, MinimalSet
<1>3. PICK x \in S : X = x..n
  OBVIOUS
<1>4. ASSUME NEW y \in S, ~(x >= y) PROVE FALSE
  <2>1. y..n \in T /\ y..n \subseteq X /\ x \in X /\ x \notin y..n
    BY <1>3, <1>4
  <2> QED
    BY <1>2, <2>1
<1>5. \E z \in S : \A y \in S : z >= y
  BY <1>4
<1>6. Chain!Max(S) \in S /\ \A y \in S : Chain!Max(S) >= y
  BY <1>5 DEF Chain!Max
<1> QED
  BY <1>6

-----------------------------------------------------------------------------
\* The last write to t among the first p of a log.
ChainLastIn(w, t, p) == Chain!Max({0} \cup {i \in 1..p : w[i] = t})

LEMMA ChainLastInFacts ==
  ASSUME NEW w, NEW t, NEW p \in Nat
  PROVE  /\ ChainLastIn(w, t, p) \in 0..p
         /\ \A i \in 1..p : w[i] = t => i <= ChainLastIn(w, t, p)
         /\ ChainLastIn(w, t, p) # 0 => w[ChainLastIn(w, t, p)] = t
<1> DEFINE S == {0} \cup {i \in 1..p : w[i] = t}
<1>1. S \subseteq 0..p /\ S # {}
  OBVIOUS
<1>2. Chain!Max(S) \in S /\ \A y \in S : y <= Chain!Max(S)
  <2> HIDE DEF S
  <2> QED
    BY <1>1, ChainLargestOf
<1>3. ChainLastIn(w, t, p) = Chain!Max(S)
  BY DEF ChainLastIn
<1> QED
  BY <1>1, <1>2, <1>3

LEMMA ChainLastInShorter ==
  ASSUME NEW w, NEW t, NEW p \in Nat, NEW q \in Nat, q <= p, ChainLastIn(w, t, p) <= q
  PROVE  ChainLastIn(w, t, q) = ChainLastIn(w, t, p)
<1> DEFINE a == ChainLastIn(w, t, p)
           b == ChainLastIn(w, t, q)
<1>1. a \in 0..p /\ (\A i \in 1..p : w[i] = t => i <= a) /\ (a # 0 => w[a] = t)
  BY ChainLastInFacts
<1>2. b \in 0..q /\ (\A i \in 1..q : w[i] = t => i <= b) /\ (b # 0 => w[b] = t)
  BY ChainLastInFacts
<1> HIDE DEF a, b
<1>3. a \in 0..q
  BY <1>1 DEF a
<1>4. a <= b
  BY <1>1, <1>2, <1>3
<1>5. b <= a
  BY <1>1, <1>2
<1>6. a = b
  BY <1>1, <1>2, <1>4, <1>5
<1> QED
  BY <1>6 DEF a, b

LEMMA ChainLastInAppend ==
  ASSUME NEW S, NEW w \in Seq(S), NEW x \in S, NEW t
  PROVE  ChainLastIn(Append(w, x), t, Len(w) + 1) = IF x = t THEN Len(w) + 1
         ELSE ChainLastIn(w, t, Len(w))
<1> DEFINE n == Len(w)
           v == Append(w, x)
           a == ChainLastIn(v, t, n + 1)
           b == ChainLastIn(w, t, n)
<1>1. n \in Nat /\ (\A i \in 1..n : v[i] = w[i]) /\ v[n + 1] = x
  OBVIOUS
<1>2. a \in 0..n + 1 /\ (\A i \in 1..n + 1 : v[i] = t => i <= a) /\ (a # 0 => v[a] = t)
  <2>1. n + 1 \in Nat
    OBVIOUS
  <2> QED
    BY <2>1, ChainLastInFacts
<1>3. b \in 0..n /\ (\A i \in 1..n : w[i] = t => i <= b) /\ (b # 0 => w[b] = t)
  BY ChainLastInFacts
<1> HIDE DEF n, v, a, b
<1>4. CASE x = t
  <2>1. a = n + 1
    BY <1>1, <1>2, <1>4
  <2> QED
    BY <2>1, <1>4 DEF a, n, v
<1>5. CASE x # t
  <2>1. a # n + 1
    BY <1>1, <1>2, <1>5
  <2>2. a <= b
    BY <1>1, <1>2, <1>3, <2>1
  <2>3. b <= a
    BY <1>1, <1>2, <1>3
  <2>4. a = b
    BY <1>1, <1>2, <1>3, <2>2, <2>3
  <2> QED
    BY <2>4, <1>5 DEF a, b, n, v
<1> QED
  BY <1>4, <1>5

-----------------------------------------------------------------------------
ChainExcuses == {"late start", "beside", "not stored", "unseeded"}
ChainChildType == [up : BOOLEAN, slot : {"chain", "own", ""}, at : Chain!Pos]
ChainTaskType ==
  [st : {"idle", "loading", "loaded", "seeding", "seeded", "done", "failed", "paused"},
   chain : Chain!Pos \cup {Chain!None}, stored : Chain!Pos \cup {Chain!None},
   read : [Loaded -> Chain!Pos], loads : 0..MaxLoads, wrote : SUBSET Loaded]

ChainRanges ==
  /\ setup \in [kind : Chain!Kinds, slot : LoadSlots] /\ match \in BOOLEAN
  /\ wal \in Seq(Loaded) /\ Len(wal) \in Chain!Pos
  /\ tgt \in [Loaded -> Chain!Pos]
  /\ slots \in [{"chain", "own"} -> Chain!Pos \cup {Chain!None}]
  /\ file \in Chain!File /\ task \in ChainTaskType /\ child \in ChainChildType
  /\ starts \in 0..MaxStarts /\ excuse \subseteq ChainExcuses

\* The types with what the set of all sequences hides.
LEMMA ChainTypesAreRanges == (Chain!TypeOK <=> ChainRanges) /\ (Chain!TypeOK' <=> ChainRanges')
BY DEF Chain!TypeOK, ChainRanges, ChainTaskType, ChainChildType, ChainExcuses

LEMMA ChainSameTask ==
  ASSUME UNCHANGED task
  PROVE  ChainLoads <=> ChainLoads'
BY DEF ChainLoads

LEMMA ChainFileFields ==
  /\ Chain!NoFile \in Chain!File /\ Chain!NoFile.at = 0 /\ Chain!NoFile.kind = "none"
  /\ \A f \in Chain!File : f.slot \in {"chain", "own", ""}
<1>1. Chain!NoFile.slot = ""
  BY DEF Chain!NoFile
<1>2. \A f \in [kind : Chain!Kinds, slot : {"chain", "own", ""}, at : Chain!Pos] :
        f.slot \in {"chain", "own", ""}
  OBVIOUS
<1> QED
  BY <1>1, <1>2 DEF Chain!File, Chain!NoFile

\* What is a number, and the numbers there are.
LEMMA ChainNumbers ==
  ASSUME ChainSized, Chain!TypeOK
  PROVE  /\ Chain!End \in Nat /\ Chain!End <= MaxWrites /\ Chain!Pos \subseteq Nat
         /\ wal \in Seq(Loaded) /\ \A i \in 1..Chain!End : wal[i] \in Loaded
         /\ \A n \in {"chain", "own"} : slots[n] \in Chain!Pos \cup {Chain!None}
         /\ file.at \in Chain!Pos /\ child.at \in Chain!Pos
         /\ task.chain \in Chain!Pos \cup {Chain!None}
            /\ task.stored \in Chain!Pos \cup {Chain!None}
         /\ task.wrote \subseteq Loaded
         /\ \A t \in Loaded : task.read[t] \in Chain!Pos /\ tgt[t] \in Chain!Pos
<1>0. wal \in Seq(Loaded) /\ Len(wal) \in Chain!Pos /\ file \in Chain!File
  BY DEF Chain!TypeOK
<1>1. Chain!End \in Nat /\ Chain!End <= MaxWrites /\ Chain!Pos \subseteq Nat
  BY <1>0 DEF Chain!End, Chain!Pos, ChainSized
<1>2. wal \in Seq(Loaded) /\ \A i \in 1..Chain!End : wal[i] \in Loaded
  BY <1>0 DEF Chain!End
<1>3. file.at \in Chain!Pos
  <2>1. 0 \in Chain!Pos
    BY DEF Chain!Pos, ChainSized
  <2>2. CASE file = Chain!NoFile
    BY <2>1, <2>2 DEF Chain!NoFile
  <2>3. CASE file \in [kind : Chain!Kinds, slot : {"chain", "own", ""}, at : Chain!Pos]
    BY <2>3
  <2> QED
    BY <1>0, <2>2, <2>3 DEF Chain!File
<1>4. child.at \in Chain!Pos /\ \A n \in {"chain", "own"} : slots[n] \in Chain!Pos \cup {Chain!None}
  BY DEF Chain!TypeOK
<1>5. /\ task.chain \in Chain!Pos \cup {Chain!None} /\ task.stored \in Chain!Pos \cup {Chain!None}
      /\ task.wrote \subseteq Loaded
      /\ \A t \in Loaded : task.read[t] \in Chain!Pos /\ tgt[t] \in Chain!Pos
  BY DEF Chain!TypeOK
<1> QED
  BY <1>1, <1>2, <1>3, <1>4, <1>5

LEMMA ChainLatestWrite ==
  ASSUME ChainSized, Chain!TypeOK, NEW t
  PROVE  /\ Chain!LastWrite(t, Chain!End) \in 0..Chain!End
         /\ \A i \in 1..Chain!End : wal[i] = t => i <= Chain!LastWrite(t, Chain!End)
         /\ Chain!LastWrite(t, Chain!End) # 0 => wal[Chain!LastWrite(t, Chain!End)] = t
<1>1. Chain!LastWrite(t, Chain!End) = ChainLastIn(wal, t, Chain!End)
  BY DEF Chain!LastWrite, ChainLastIn
<1>2. Chain!End \in Nat
  BY ChainNumbers
<1> QED
  BY <1>1, <1>2, ChainLastInFacts

LEMMA ChainSameWal ==
  ASSUME wal' = wal
  PROVE  Chain!End' = Chain!End /\ \A t, p : Chain!LastWrite(t, p)' = Chain!LastWrite(t, p)
BY DEF Chain!End, Chain!LastWrite

LEMMA ChainSameLatest ==
  ASSUME wal' = wal, NEW t
  PROVE  Chain!LastWrite(t, Chain!End)' = Chain!LastWrite(t, Chain!End)
BY DEF Chain!End, Chain!LastWrite

\* Where no position is gained, the windows stay.
LEMMA ChainWindowsKept ==
  ASSUME ChainSized, ChainInv, Chain!TypeOK', wal' = wal, tgt' = tgt,
         task'.read = task.read, task'.wrote = task.wrote, task'.chain = task.chain,
         excuse' = {} => excuse = {},
         task'.st \in ChainActive => task.st \in ChainActive,
         task'.st \in {"loading", "loaded", "seeding"} =>
           task.st \in {"loading", "loaded", "seeding"},
         excuse' = {} /\ task'.st \in ChainActive
         => \A p \in {Chain!None} \cup Chain!Pos : ChainPosition(p)' => ChainPosition(p)
  PROVE  ChainWindows'
<1> SUFFICES ASSUME excuse' = {}, task'.st \in ChainActive
             PROVE  /\ \A t \in Loaded, p \in {Chain!None} \cup Chain!Pos : ChainPosition(p)'
                         => ChainHeld(t, p)'
                    /\ task'.chain # Chain!None
                    /\ task'.st \in {"loading", "loaded", "seeding"} =>
                         \A t \in task'.wrote : ChainFrom(t, task.chain)'
  BY DEF ChainWindows
<1>1. \A t, p : ChainFrom(t, p)' <=> ChainFrom(t, p)
  BY ChainSameLatest DEF ChainFrom
<1>2. \A t, p : ChainHeld(t, p)' <=> ChainHeld(t, p)
  <2>1. \A t, p : ChainSpared(t, p)' <=> ChainSpared(t, p)
    BY DEF ChainSpared
  <2> QED
    BY <1>1, <2>1 DEF ChainHeld
<1>3. \A t \in task'.wrote : ChainFrom(t, task.chain)' <=> ChainFrom(t, task'.chain)
  BY ChainSameLatest DEF ChainFrom
<1> QED
  BY <1>1, <1>2, <1>3 DEF ChainInv, ChainWindows

-----------------------------------------------------------------------------
\* A write of the source is after every position.
LEMMA ChainWritesStep == ASSUME ChainSized, ChainSlot, ChainInv, Chain!SourceWrites PROVE ChainInv'
<1>0. ChainRanges /\ Chain!TypeOK /\ ChainBounded /\ ChainSlotted /\ ChainAhead /\ ChainLoads
      /\ ChainWindows
  BY ChainTypesAreRanges DEF ChainInv
<1>1. PICK u \in Loaded : wal' = Append(wal, u)
  BY DEF Chain!SourceWrites
<1>2. Chain!End < MaxWrites
      /\ UNCHANGED <<setup, match, tgt, slots, file, task, child, starts, excuse>>
  BY DEF Chain!SourceWrites
<1>3. /\ wal' \in Seq(Loaded) /\ Chain!End' = Chain!End + 1 /\ Len(wal') \in Chain!Pos
      /\ \A i \in 1..Chain!End : wal'[i] = wal[i]
  BY <1>0, <1>1, <1>2, ChainNumbers DEF ChainRanges, Chain!End, Chain!Pos, ChainSized
<1>4. Chain!TypeOK'
  <2>1. ChainRanges'
    BY <1>0, <1>2, <1>3 DEF ChainRanges, Chain!Pos, Chain!File, ChainTaskType, ChainChildType
  <2> QED
    BY <2>1, ChainTypesAreRanges
<1>5. ChainBounded'
  BY <1>0, <1>2, <1>3, ChainNumbers DEF ChainBounded, Chain!Pos, Chain!None, ChainSized
<1>6. ChainSlotted' /\ ChainAhead' /\ ChainLoads'
  BY <1>0, <1>2, ChainSameTask DEF ChainSlotted, ChainAhead, ChainUsable
<1>7. ASSUME NEW t \in Loaded, NEW p \in Chain!Pos \cup {Chain!None}, p <= Chain!End,
             ChainFrom(t, p)
      PROVE  ChainFrom(t, p)'
  <2>1. Chain!LastWrite(t, Chain!End) = ChainLastIn(wal, t, Len(wal))
        /\ Chain!LastWrite(t, Chain!End)' = ChainLastIn(wal', t, Len(wal'))
    BY DEF Chain!LastWrite, ChainLastIn, Chain!End
  <2>2. Chain!LastWrite(t, Chain!End)' = IF u = t THEN Chain!End + 1
        ELSE Chain!LastWrite(t, Chain!End)
    BY <1>0, <1>1, <1>3, <2>1, ChainLastInAppend DEF ChainRanges, Chain!End
  <2> QED
    BY <1>0, <1>2, <1>7, <2>2, ChainNumbers DEF ChainFrom, Chain!Pos, Chain!None
<1>8. \A p \in {Chain!None} \cup Chain!Pos : ChainPosition(p) => p <= Chain!End
  BY <1>0, ChainNumbers DEF ChainBounded, ChainPosition
<1>9. ChainWindows'
  <2> SUFFICES ASSUME excuse' = {}, task'.st \in ChainActive
               PROVE  /\ \A t \in Loaded, p \in {Chain!None} \cup Chain!Pos : ChainPosition(p)'
                           => ChainHeld(t, p)'
                      /\ task'.chain # Chain!None
                      /\ task'.st \in {"loading", "loaded", "seeding"} =>
                           \A t \in task'.wrote : ChainFrom(t, task.chain)'
    BY DEF ChainWindows
  <2>1. /\ \A t \in Loaded, p \in {Chain!None} \cup Chain!Pos : ChainPosition(p) => ChainHeld(t, p)
        /\ task.chain # Chain!None
        /\ task.st \in {"loading", "loaded", "seeding"}
           => \A t \in task.wrote : ChainFrom(t, task.chain)
    BY <1>0, <1>2 DEF ChainWindows
  <2>2. \A p : ChainPosition(p)' <=> ChainPosition(p)
    BY <1>2 DEF ChainPosition, ChainUsable
  <2>3. ASSUME NEW t \in Loaded, NEW p \in {Chain!None} \cup Chain!Pos, ChainPosition(p)
        PROVE ChainHeld(t, p)'
    <3>1. ChainHeld(t, p) /\ p <= Chain!End
      BY <1>8, <2>1, <2>3
    <3>2. ChainSpared(t, p) => ChainSpared(t, p)'
      BY SMTT(30), <1>0, <1>2, <1>3, <3>1, ChainNumbers DEF ChainSpared, Chain!Pos, Chain!None
    <3> QED
      BY <1>2, <1>7, <3>1, <3>2 DEF ChainHeld
  <2>4. task.chain \in Chain!Pos \cup {Chain!None} /\ task.chain <= Chain!End
        /\ task.wrote \subseteq Loaded
    BY <1>0, ChainNumbers DEF ChainBounded
  <2>5. ASSUME NEW t \in task.wrote, ChainFrom(t, task.chain) PROVE ChainFrom(t, task.chain)'
    <3>1. t \in Loaded /\ ChainFrom(t, task.chain)
      BY <2>4, <2>5
    <3>2. \A p \in Chain!Pos \cup {Chain!None} : p <= Chain!End /\ ChainFrom(t, p)
            => ChainFrom(t, p)'
      BY <1>7, <3>1
    <3>3. PICK p \in Chain!Pos \cup {Chain!None} : p = task.chain
      BY <2>4
    <3>4. ChainFrom(t, p)' = ChainFrom(t, task.chain)'
      BY <1>2, <3>3 DEF ChainFrom
    <3>5. ChainFrom(t, p)'
      BY <2>4, <3>1, <3>2, <3>3
    <3> QED
      BY <3>4, <3>5
  <2> QED
    BY <1>2, <2>1, <2>2, <2>3, <2>5
<1> QED
  BY <1>4, <1>5, <1>6, <1>9 DEF ChainInv

LEMMA ChainStartsTaskStep == ASSUME ChainSized, ChainSlot, ChainInv, Chain!StartsTask
  PROVE ChainInv'
<1>0. ChainRanges /\ Chain!TypeOK /\ ChainBounded /\ ChainSlotted /\ ChainAhead /\ ChainLoads
      /\ ChainWindows
  BY ChainTypesAreRanges DEF ChainInv
<1>1a. PICK lsn \in (IF setup.kind = "pg" /\ slots["chain"] # Chain!None THEN 1..slots["chain"]
                     ELSE {Chain!End}) :
         \E stored \in {lsn, task.stored} : Chain!Loading(lsn, stored)
  BY DEF Chain!StartsTask
<1>1. PICK stored \in {lsn, task.stored} : Chain!Loading(lsn, stored)
  BY <1>1a
<1>2. /\ slots' = IF setup.kind = "pg" /\ slots["chain"] = Chain!None
                  THEN [slots EXCEPT !["chain"] = Chain!End] ELSE slots
      /\ excuse' = Chain!Lasting /\ task.loads < MaxLoads
      /\ UNCHANGED <<setup, match, wal, tgt, file, child, starts>>
  BY DEF Chain!StartsTask
<1>3. Chain!End' = Chain!End /\ Chain!End \in Chain!Pos
  BY <1>0, <1>2, ChainNumbers DEF Chain!End, ChainRanges
<1>4. lsn \in Chain!Pos /\ lsn <= Chain!End /\ stored \in Chain!Pos \cup {Chain!None}
      /\ stored <= Chain!End
  <2>1. /\ slots["chain"] \in Chain!Pos \cup {Chain!None} /\ slots["chain"] <= Chain!End
        /\ task.stored \in Chain!Pos \cup {Chain!None} /\ task.stored <= Chain!End
    BY <1>0, ChainNumbers DEF ChainBounded
  <2>2. CASE setup.kind = "pg" /\ slots["chain"] # Chain!None
    <3>1. lsn \in 1..slots["chain"]
      BY <2>2
    <3>2. lsn \in Chain!Pos /\ lsn <= Chain!End
      BY <1>3, <2>1, <2>2, <3>1 DEF Chain!Pos, Chain!None, ChainSized
    <3> QED
      BY <2>1, <3>2
  <2>3. CASE ~(setup.kind = "pg" /\ slots["chain"] # Chain!None)
    <3>1. lsn = Chain!End
      BY <2>3
    <3> QED
      BY <1>3, <2>1, <3>1 DEF Chain!Pos
  <2> QED
    BY <2>2, <2>3
<1>5. task' \in ChainTaskType /\ task'.st = "loading" /\ task'.wrote = {} /\ task'.chain = lsn
      /\ task'.stored = stored /\ \A t \in Loaded : task'.read[t] = 0
  <2>1. 0 \in Chain!Pos /\ task.loads + 1 \in 0..MaxLoads
    BY <1>0, <1>2 DEF ChainRanges, ChainTaskType, Chain!Pos, ChainSized
  <2> QED
    BY <1>1, <1>4, <2>1 DEF Chain!Loading, ChainTaskType
<1>6. Chain!TypeOK'
  <2>1. slots' \in [{"chain", "own"} -> Chain!Pos \cup {Chain!None}]
    BY <1>0, <1>2, <1>3 DEF ChainRanges
  <2>2. excuse' \subseteq ChainExcuses
    BY <1>0, <1>2 DEF ChainRanges, Chain!Lasting
  <2>3. ChainRanges'
    BY <1>0, <1>2, <1>5, <2>1, <2>2 DEF ChainRanges, Chain!Pos, Chain!File, ChainTaskType,
      ChainChildType
  <2> QED
    BY <2>3, ChainTypesAreRanges
<1>7. \A n \in {"chain", "own"} : slots'[n] <= Chain!End
  BY <1>0, <1>2, ChainNumbers DEF ChainBounded, ChainRanges
<1>8. ChainBounded'
  <2>1. \A t \in Loaded : task'.read[t] <= Chain!End
    BY <1>3, <1>5 DEF Chain!Pos
  <2> QED
    BY <1>0, <1>2, <1>3, <1>4, <1>5, <1>7, <2>1 DEF ChainBounded
<1>9. ChainSlotted'
  <2>1. setup.kind = "pg" => slots'["chain"] # Chain!None
    BY <1>0, <1>2, <1>3 DEF ChainRanges, Chain!Pos, Chain!None
  <2> QED
    BY <1>0, <1>2, <2>1 DEF ChainSlotted
<1>10. ChainAhead'
  <2>1. child.up => slots' = slots
    BY <1>0, <1>2, <1>1 DEF ChainSlotted, Chain!None, ChainRanges
  <2>2. child.up => ("beside" \in excuse' <=> "beside" \in excuse)
    BY <1>2 DEF Chain!Lasting
  <2> QED
    BY <1>0, <1>2, <2>1, <2>2 DEF ChainAhead, ChainUsable
<1>11. ChainLoads'
  BY <1>5 DEF ChainLoads, ChainActive
<1>12. ChainWindows'
  BY <1>4, <1>5 DEF ChainWindows, ChainHeld, Chain!None, Chain!Pos
<1> QED
  BY <1>6, <1>8, <1>9, <1>10, <1>11, <1>12 DEF ChainInv

LEMMA ChainResumesTaskStep == ASSUME ChainSized, ChainSlot, ChainInv, Chain!ResumesTask
  PROVE ChainInv'
<1>0. ChainRanges /\ Chain!TypeOK /\ ChainBounded /\ ChainSlotted /\ ChainAhead /\ ChainLoads
      /\ ChainWindows
  BY ChainTypesAreRanges DEF ChainInv
<1>1. /\ task.st = "paused" /\ task.loads < MaxLoads
      /\ Chain!Loading(task.stored, task.stored)
      /\ excuse' = Chain!Lasting \cup IF task.stored = Chain!None THEN {"not stored"} ELSE {}
      /\ UNCHANGED <<setup, match, wal, tgt, slots, file, child, starts>>
  BY DEF Chain!ResumesTask
<1>2. task.stored \in Chain!Pos \cup {Chain!None} /\ task.stored <= Chain!End
      /\ Chain!End' = Chain!End
  BY <1>0, <1>1, ChainNumbers DEF ChainBounded, Chain!End
<1>3. task' \in ChainTaskType /\ task'.st = "loading" /\ task'.wrote = {}
      /\ task'.chain = task.stored
      /\ task'.stored = task.stored /\ \A t \in Loaded : task'.read[t] = 0
  <2>0. task.loads \in 0..MaxLoads
    BY <1>0 DEF ChainRanges, ChainTaskType
  <2>1. 0 \in Chain!Pos /\ task.loads + 1 \in 0..MaxLoads
    <3>1. task.loads < MaxLoads
      BY <1>1
    <3> QED
      BY <2>0, <3>1 DEF Chain!Pos, ChainSized
  <2> QED
    BY <1>1, <1>2, <2>1 DEF Chain!Loading, ChainTaskType
<1>4. Chain!TypeOK'
  <2>1. excuse' \subseteq ChainExcuses
    BY <1>0, <1>1 DEF ChainRanges, Chain!Lasting, ChainExcuses
  <2>2. ChainRanges'
    BY <1>0, <1>1, <1>3, <2>1 DEF ChainRanges, Chain!Pos, Chain!File, ChainTaskType,
      ChainChildType
  <2> QED
    BY <2>2, ChainTypesAreRanges
<1>5. ChainBounded'
  <2>1. \A t \in Loaded : task'.read[t] <= Chain!End
    BY <1>0, <1>3, ChainNumbers
  <2> QED
    BY <1>0, <1>1, <1>2, <1>3, <2>1 DEF ChainBounded
<1>6. ChainSlotted'
  BY <1>0, <1>1 DEF ChainSlotted
<1>7. ChainAhead'
  <2>1. child.up => ("beside" \in excuse' <=> "beside" \in excuse)
    BY <1>1 DEF Chain!Lasting
  <2> QED
    BY <1>0, <1>1, <2>1 DEF ChainAhead, ChainUsable
<1>8. ChainLoads'
  BY <1>3 DEF ChainLoads, ChainActive
<1>9. ChainWindows'
  BY <1>1, <1>3 DEF ChainWindows, ChainHeld, Chain!None, Chain!Pos
<1> QED
  BY <1>4, <1>5, <1>6, <1>7, <1>8, <1>9 DEF ChainInv

LEMMA ChainReadsTableStep ==
  ASSUME ChainSized, ChainSlot, ChainInv, NEW t \in Loaded, Chain!ReadsTable(t) PROVE ChainInv'
<1>0. ChainRanges /\ Chain!TypeOK /\ ChainBounded /\ ChainSlotted /\ ChainAhead /\ ChainLoads
      /\ ChainWindows
  BY ChainTypesAreRanges DEF ChainInv
<1>1. /\ task.st = "loading" /\ task.read[t] = 0
      /\ task' = [task EXCEPT !.read[t] = Chain!End]
      /\ UNCHANGED <<setup, match, wal, tgt, slots, file, child, starts, excuse>>
  BY DEF Chain!ReadsTable
<1>2. Chain!End' = Chain!End /\ Chain!End \in Chain!Pos
  BY <1>0, <1>1, ChainNumbers DEF Chain!End, ChainRanges
<1>3. /\ task' \in ChainTaskType /\ task'.st = task.st /\ task'.wrote = task.wrote
      /\ task'.chain = task.chain /\ task'.stored = task.stored
      /\ task'.read[t] = Chain!End /\ \A u \in Loaded : u # t => task'.read[u] = task.read[u]
  BY <1>0, <1>1, <1>2 DEF ChainRanges, ChainTaskType
<1>4. Chain!TypeOK'
  <2>2. ChainRanges'
    BY <1>0, <1>1, <1>3 DEF ChainRanges, Chain!Pos, Chain!File, ChainTaskType, ChainChildType
  <2> QED
    BY <2>2, ChainTypesAreRanges
<1>5. ChainBounded'
  <2>1. \A u \in Loaded : task'.read[u] <= Chain!End
    BY <1>0, <1>2, <1>3, ChainNumbers DEF ChainBounded
  <2> QED
    BY <1>0, <1>1, <1>2, <1>3, <2>1 DEF ChainBounded
<1>6. ChainSlotted' /\ ChainAhead'
  BY <1>0, <1>1, <1>3 DEF ChainSlotted, ChainAhead, ChainUsable
<1>7. ChainLoads'
  <2>1. Chain!End # 0 /\ task.chain <= Chain!End /\ t \notin task.wrote
    BY <1>0, <1>1, ChainNumbers DEF ChainBounded, ChainLoads
  <2>2. \A u \in task'.wrote : task'.read[u] # 0
    BY <1>0, <1>3, <2>1, ChainNumbers DEF ChainLoads
  <2> QED
    BY <1>0, <1>1, <1>3, <2>1, <2>2 DEF ChainLoads, ChainActive
<1>8. ChainWindows'
  <2> SUFFICES ASSUME excuse' = {}
               PROVE  /\ \A u \in Loaded, p \in {Chain!None} \cup Chain!Pos : ChainPosition(p)'
                           => ChainHeld(u, p)'
                      /\ task'.chain # Chain!None
                      /\ \A u \in task'.wrote : ChainFrom(u, task.chain)'
    BY DEF ChainWindows
  <2>1. /\ \A u \in Loaded, p \in {Chain!None} \cup Chain!Pos : ChainPosition(p) => ChainHeld(u, p)
        /\ task.chain # Chain!None
        /\ \A u \in task.wrote : ChainFrom(u, task.chain)
    BY <1>0, <1>1 DEF ChainWindows, ChainActive
  <2>2. \A p : ChainPosition(p)' <=> ChainPosition(p)
    BY <1>1 DEF ChainPosition, ChainUsable
  <2>3. \A u, p : ChainFrom(u, p)' <=> ChainFrom(u, p)
    BY <1>1, ChainSameLatest DEF ChainFrom
  <2>4. ASSUME NEW u \in Loaded, NEW p \in {Chain!None} \cup Chain!Pos, ChainPosition(p)
        PROVE ChainHeld(u, p)'
    <3>1. ChainHeld(u, p) /\ p <= Chain!End
      BY <1>0, <2>1, <2>4, ChainNumbers DEF ChainBounded, ChainPosition
    <3>2. CASE u = t
      <4>1. ChainSpared(t, p)'
        BY <1>0, <1>1, <1>3, <3>1, ChainNumbers DEF ChainSpared, Chain!Pos, Chain!None
      <4>2. t \notin task'.wrote
        BY <1>0, <1>1, <1>3 DEF ChainLoads
      <4> QED
        BY <3>2, <4>1, <4>2 DEF ChainHeld
    <3>3. CASE u # t
      <4>1. ChainSpared(u, p) <=> ChainSpared(u, p)'
        BY <1>1, <1>3, <3>3 DEF ChainSpared
      <4> QED
        BY <1>3, <2>3, <3>1, <3>3, <4>1 DEF ChainHeld
    <3> QED
      BY <3>2, <3>3
  <2>5. \A u \in task'.wrote : ChainFrom(u, task.chain)'
    BY <1>1, <1>3, <2>1, ChainSameLatest DEF ChainFrom
  <2> QED
    BY <1>3, <2>1, <2>2, <2>4, <2>5
<1> QED
  BY <1>4, <1>5, <1>6, <1>7, <1>8 DEF ChainInv

\* The table is what it was when it was read; what came since is after each position,
\* or had to be spared.
LEMMA ChainLoadsTableStep ==
  ASSUME ChainSized, ChainSlot, ChainInv, NEW t \in Loaded, Chain!LoadsTable(t) PROVE ChainInv'
<1>0. ChainRanges /\ Chain!TypeOK /\ ChainBounded /\ ChainSlotted /\ ChainAhead /\ ChainLoads
      /\ ChainWindows
  BY ChainTypesAreRanges DEF ChainInv
<1>1. /\ task.st = "loading" /\ task.read[t] # 0 /\ t \notin task.wrote
      /\ tgt' = [tgt EXCEPT ![t] = Chain!LastWrite(t, task.read[t])]
      /\ task' = [task EXCEPT !.wrote = task.wrote \cup {t},
                              !.st = IF task.wrote \cup {t} = Loaded THEN "loaded" ELSE @]
      /\ UNCHANGED <<setup, match, wal, slots, file, child, starts, excuse>>
  BY DEF Chain!LoadsTable
<1>2. Chain!End' = Chain!End /\ Chain!End \in Chain!Pos
  BY <1>0, <1>1, ChainNumbers DEF Chain!End, ChainRanges
<1>3. /\ task' \in ChainTaskType /\ task'.st \in {"loading", "loaded"}
      /\ task'.st = "loaded" => task'.wrote = Loaded
      /\ task'.wrote = task.wrote \cup {t} /\ task'.read = task.read
      /\ task'.chain = task.chain /\ task'.stored = task.stored
  BY <1>0, <1>1 DEF ChainRanges, ChainTaskType
<1>4. task.read[t] \in Nat /\ task.read[t] <= Chain!End /\ task.chain <= task.read[t]
  BY <1>0, <1>1, ChainNumbers DEF ChainBounded, ChainLoads
<1>5. Chain!LastWrite(t, task.read[t]) \in 0..task.read[t]
  <2>1. Chain!LastWrite(t, task.read[t]) = ChainLastIn(wal, t, task.read[t])
    BY DEF Chain!LastWrite, ChainLastIn
  <2> QED
    BY <1>4, <2>1, ChainLastInFacts
<1>6. tgt' \in [Loaded -> Chain!Pos] /\ tgt'[t] = Chain!LastWrite(t, task.read[t])
      /\ tgt'[t] <= Chain!End
      /\ \A u \in Loaded : u # t => tgt'[u] = tgt[u]
  <2>1. Chain!LastWrite(t, task.read[t]) \in Chain!Pos
        /\ Chain!LastWrite(t, task.read[t]) <= Chain!End
    BY <1>2, <1>4, <1>5 DEF Chain!Pos, ChainSized
  <2> QED
    BY <1>0, <1>1, <2>1 DEF ChainRanges
<1>7. Chain!TypeOK'
  <2>2. ChainRanges'
    BY <1>0, <1>1, <1>3, <1>6 DEF ChainRanges, Chain!Pos, Chain!File, ChainTaskType,
      ChainChildType
  <2> QED
    BY <2>2, ChainTypesAreRanges
<1>8. ChainBounded'
  <2>1. \A u \in Loaded : tgt'[u] <= Chain!End
    BY <1>0, <1>6 DEF ChainBounded
  <2> QED
    BY <1>0, <1>1, <1>2, <1>3, <2>1 DEF ChainBounded
<1>9. ChainSlotted' /\ ChainAhead'
  BY <1>0, <1>1, <1>3 DEF ChainSlotted, ChainAhead, ChainUsable
<1>10. ChainLoads'
  BY <1>0, <1>1, <1>3 DEF ChainLoads, ChainActive
<1>11. Chain!LastWrite(t, Chain!End) <= task.read[t] => tgt'[t] = Chain!LastWrite(t, Chain!End)
  <2>1. Chain!LastWrite(t, Chain!End) = ChainLastIn(wal, t, Chain!End)
        /\ Chain!LastWrite(t, task.read[t]) = ChainLastIn(wal, t, task.read[t])
    BY DEF Chain!LastWrite, ChainLastIn
  <2>2. Chain!End \in Nat
    BY <1>0, ChainNumbers
  <2> QED
    BY <1>4, <1>6, <2>1, <2>2, ChainLastInShorter
<1>12. ChainWindows'
  <2> SUFFICES ASSUME excuse' = {}
               PROVE  /\ \A u \in Loaded, p \in {Chain!None} \cup Chain!Pos : ChainPosition(p)'
                           => ChainHeld(u, p)'
                      /\ task'.chain # Chain!None
                      /\ \A u \in task'.wrote : ChainFrom(u, task.chain)'
    BY DEF ChainWindows
  <2>1. /\ \A u \in Loaded, p \in {Chain!None} \cup Chain!Pos : ChainPosition(p) => ChainHeld(u, p)
        /\ task.chain # Chain!None
        /\ \A u \in task.wrote : ChainFrom(u, task.chain)
    BY <1>0, <1>1 DEF ChainWindows, ChainActive
  <2>2. \A p : ChainPosition(p)' <=> ChainPosition(p)
    BY <1>1 DEF ChainPosition, ChainUsable
  <2>3. \A u \in Loaded : u # t => \A p : (ChainFrom(u, p)' <=> ChainFrom(u, p))
    BY <1>1, <1>6, ChainSameLatest DEF ChainFrom
  <2>4. ASSUME NEW p \in {Chain!None} \cup Chain!Pos, p <= Chain!End,
               ChainSpared(t, p) \/ p <= task.read[t]
        PROVE  ChainFrom(t, p)'
    <3>1. Chain!LastWrite(t, Chain!End) \in 0..Chain!End
          /\ (Chain!LastWrite(t, Chain!End) # 0 => wal[Chain!LastWrite(t, Chain!End)] = t)
      BY <1>0, ChainLatestWrite
    <3>2. Chain!LastWrite(t, Chain!End) <= p => Chain!LastWrite(t, Chain!End) <= task.read[t]
      BY <1>0, <1>2, <1>4, <2>4, <3>1, ChainNumbers DEF ChainSpared, Chain!Pos, Chain!None
    <3>3. Chain!LastWrite(t, Chain!End)' = Chain!LastWrite(t, Chain!End)
      BY <1>1, ChainSameLatest
    <3> QED
      BY <1>11, <2>4, <3>1, <3>2, <3>3, <1>0, ChainNumbers DEF ChainFrom, Chain!Pos, Chain!None
  <2>5. ASSUME NEW u \in Loaded, NEW p \in {Chain!None} \cup Chain!Pos, ChainPosition(p)
        PROVE ChainHeld(u, p)'
    <3>1. ChainHeld(u, p) /\ p <= Chain!End
      BY <1>0, <2>1, <2>5, ChainNumbers DEF ChainBounded, ChainPosition
    <3>2. CASE u = t
      <4>1. ChainFrom(t, p)'
        BY <1>1, <2>4, <3>1, <3>2 DEF ChainHeld
      <4> QED
        BY <1>3, <3>2, <4>1 DEF ChainHeld
    <3>3. CASE u # t
      <4>1. ChainSpared(u, p) <=> ChainSpared(u, p)'
        BY <1>1, <1>3, <3>3 DEF ChainSpared
      <4> QED
        BY <1>3, <2>3, <3>1, <3>3, <4>1 DEF ChainHeld
    <3> QED
      BY <3>2, <3>3
  <2>6. ASSUME NEW u \in task'.wrote PROVE ChainFrom(u, task.chain)'
    <3>1. ChainFrom(u, task.chain)' <=> \/ Chain!LastWrite(u, Chain!End)' > task.chain
                                        \/ tgt'[u] = Chain!LastWrite(u, Chain!End)'
      BY <1>3 DEF ChainFrom
    <3>2. CASE u # t
      <4>1. u \in task.wrote /\ u \in Loaded
        BY <1>0, <1>3, <3>2, <2>6, ChainNumbers
      <4> QED
        BY <1>1, <1>6, <2>1, <3>1, <3>2, <4>1, ChainSameLatest DEF ChainFrom
    <3>3. CASE u = t
      <4>1. PICK p \in {Chain!None} \cup Chain!Pos : p = task.chain
        BY <1>0, ChainNumbers
      <4>2. ChainFrom(t, p)' <=> Chain!LastWrite(t, Chain!End)' > p
            \/ tgt'[t] = Chain!LastWrite(t, Chain!End)'
        BY DEF ChainFrom
      <4>3. p <= task.read[t] /\ p <= Chain!End
        BY <1>0, <1>4, <4>1 DEF ChainBounded
      <4> QED
        BY <2>4, <3>1, <3>3, <4>1, <4>2, <4>3
    <3> QED
      BY <3>2, <3>3
  <2> QED
    BY <1>3, <2>1, <2>2, <2>5, <2>6
<1> QED
  BY <1>7, <1>8, <1>9, <1>10, <1>12 DEF ChainInv

LEMMA ChainLoadEndsStep == ASSUME ChainSized, ChainSlot, ChainInv, Chain!LoadEnds PROVE ChainInv'
<1>0. ChainRanges /\ Chain!TypeOK /\ ChainBounded /\ ChainSlotted /\ ChainAhead /\ ChainLoads
      /\ ChainWindows
  BY ChainTypesAreRanges DEF ChainInv
<1>1. PICK s \in {"failed", "paused"} : task' = [task EXCEPT !.st = s]
  BY DEF Chain!LoadEnds
<1>2. UNCHANGED <<setup, match, wal, tgt, slots, file, child, starts, excuse>>
      /\ task.st = "loading"
  BY DEF Chain!LoadEnds
<1>3. /\ task' \in ChainTaskType /\ task'.st = s /\ task'.wrote = task.wrote
         /\ task'.read = task.read
      /\ task'.chain = task.chain /\ task'.stored = task.stored
  BY <1>0, <1>1 DEF ChainRanges, ChainTaskType
<1>4. Chain!TypeOK'
  <2>2. ChainRanges'
    BY <1>0, <1>2, <1>3 DEF ChainRanges, Chain!Pos, Chain!File, ChainTaskType, ChainChildType
  <2> QED
    BY <2>2, ChainTypesAreRanges
<1>5. ChainBounded' /\ ChainSlotted' /\ ChainAhead' /\ ChainLoads' /\ ChainWindows'
  BY <1>0, <1>2, <1>3 DEF ChainBounded, Chain!End, ChainSlotted, ChainAhead, ChainUsable,
    ChainLoads, ChainWindows, ChainActive
<1> QED
  BY <1>4, <1>5 DEF ChainInv

-----------------------------------------------------------------------------
\* The larger of two positions.
LEMMA ChainLargerOf ==
  ASSUME NEW a \in Nat, NEW b \in Int
  PROVE  Chain!Max({a, b}) \in {a, b} /\ a <= Chain!Max({a, b}) /\ b <= Chain!Max({a, b})
<1>1. \E x \in {a, b} : \A y \in {a, b} : x >= y
  <2>1. CASE a >= b
    BY <2>1
  <2>2. CASE b >= a
    BY <2>2
  <2> QED
    BY <2>1, <2>2
<1>2. Chain!Max({a, b}) \in {a, b} /\ \A y \in {a, b} : Chain!Max({a, b}) >= y
  BY <1>1 DEF Chain!Max
<1> QED
  BY <1>2

\* A process starts: at the larger of the file's and the slot's position, or at the end
\* of the log, which is an excuse once tables were read.
LEMMA ChainStartsStep ==
  ASSUME ChainSized, ChainSlot, ChainInv, Chain!Starts, task'.read = task.read,
         task'.wrote = task.wrote,
         task'.chain = task.chain, task'.stored = task.stored, task' \in ChainTaskType,
         \/ task' = task
         \/ task.st = "seeded" /\ task'.st = "done"
  PROVE  ChainInv'
<1> DEFINE own  == file.kind = setup.kind
           kept == IF setup.kind = "pg" /\ slots[setup.slot] = Chain!None
                   THEN [slots EXCEPT ![setup.slot] = Chain!End] ELSE slots
           larger == Chain!Max({file.at, kept[setup.slot]})
<1>0. ChainRanges /\ Chain!TypeOK /\ ChainBounded /\ ChainSlotted /\ ChainAhead /\ ChainLoads
      /\ ChainWindows
  BY ChainTypesAreRanges DEF ChainInv
<1>1. /\ ~child.up /\ starts < MaxStarts /\ slots' = kept
      /\ file' = IF own THEN file ELSE Chain!NoFile
      /\ child' = [up |-> TRUE, slot |-> IF own THEN file.slot ELSE setup.slot,
                   at |-> IF own THEN larger ELSE Chain!End]
      /\ starts' = starts + 1
      /\ excuse' = IF ~own /\ \E t \in Loaded : task.read[t] # 0
                   THEN excuse \cup {"late start"} ELSE excuse
      /\ UNCHANGED <<setup, match, wal, tgt>>
  BY DEF Chain!Starts
<1>2. Chain!End' = Chain!End /\ Chain!End \in Chain!Pos /\ setup.slot = "chain"
  BY <1>0, <1>1, ChainNumbers DEF Chain!End, ChainRanges, ChainSlotted
<1>3. /\ slots' \in [{"chain", "own"} -> Chain!Pos \cup {Chain!None}]
      /\ \A n \in {"chain", "own"} : slots'[n] <= Chain!End
      /\ setup.kind = "pg" => slots'["chain"] # Chain!None
      /\ slots'["chain"] # slots["chain"] => task.st = "idle" /\ slots'["chain"] = Chain!End
  <2>1. /\ slots \in [{"chain", "own"} -> Chain!Pos \cup {Chain!None}]
        /\ \A n \in {"chain", "own"} : slots[n] <= Chain!End
        /\ task.st # "idle" /\ setup.kind = "pg" => slots["chain"] # Chain!None
    BY <1>0 DEF ChainRanges, ChainBounded, ChainSlotted
  <2>2. Chain!End # Chain!None /\ Chain!End <= Chain!End
    BY <1>2 DEF Chain!Pos, Chain!None
  <2>3. CASE setup.kind = "pg" /\ slots["chain"] = Chain!None
    <3>1. slots' = [slots EXCEPT !["chain"] = Chain!End]
      BY <1>1, <1>2, <2>3
    <3> QED
      BY <1>2, <2>1, <2>2, <2>3, <3>1
  <2>4. CASE ~(setup.kind = "pg" /\ slots["chain"] = Chain!None)
    <3>1. slots' = slots
      BY <1>1, <1>2, <2>4
    <3> QED
      BY <2>1, <2>4, <3>1
  <2> QED
    BY <2>3, <2>4
<1>4. own => /\ larger \in Chain!Pos /\ larger <= Chain!End /\ slots'["chain"] <= larger
                /\ file.at <= larger
             /\ larger \in {file.at, slots'["chain"]}
  <2>1. file.at \in Nat /\ file.at <= Chain!End /\ kept["chain"] \in Int
    <3>1. file.at \in Nat /\ file.at <= Chain!End
      BY <1>0, ChainNumbers DEF ChainBounded
    <3>2. slots'["chain"] \in Chain!Pos \cup {Chain!None} /\ slots' = kept
      BY <1>1, <1>3
    <3> HIDE DEF kept
    <3>3. Chain!Pos \cup {Chain!None} \subseteq Int
      BY DEF Chain!Pos, Chain!None, ChainSized
    <3> QED
      BY <3>1, <3>2, <3>3
  <2>2. larger = Chain!Max({file.at, kept["chain"]})
    BY <1>2
  <2>3. larger \in {file.at, kept["chain"]} /\ file.at <= larger /\ kept["chain"] <= larger
    BY <2>1, <2>2, ChainLargerOf
  <2> HIDE DEF larger, kept
  <2>4. larger <= Chain!End /\ larger \in Nat
    <3>1. kept["chain"] <= Chain!End /\ Chain!End \in Nat
      BY <1>0, <1>1, <1>3, ChainNumbers
    <3> QED
      BY <2>1, <2>3, <3>1
  <2>5. larger \in Chain!Pos
    BY <1>2, <2>4 DEF Chain!Pos, ChainSized
  <2> QED
    BY <1>1, <2>3, <2>4, <2>5
<1> HIDE DEF larger, kept
<1>5. /\ child' \in ChainChildType /\ child'.up /\ child'.at <= Chain!End
      /\ child'.at = IF own THEN larger ELSE Chain!End
  <2>1. file.slot \in {"chain", "own", ""}
    BY <1>0, ChainFileFields DEF ChainRanges
  <2>2. setup.slot \in {"chain", "own", ""}
    BY <1>2
  <2>3. (IF own THEN larger ELSE Chain!End) \in Chain!Pos
        /\ (IF own THEN larger ELSE Chain!End) <= Chain!End
    BY <1>2, <1>4 DEF Chain!Pos
  <2> HIDE DEF own
  <2> QED
    BY <1>1, <2>1, <2>2, <2>3 DEF ChainChildType
<1>6. file' \in Chain!File /\ file'.at <= Chain!End /\ (own => file' = file)
      /\ (~own => file'.kind = "none")
  <2>1. file \in Chain!File /\ file.at <= Chain!End /\ 0 <= Chain!End
    BY <1>0, ChainNumbers DEF ChainRanges, ChainBounded
  <2>2. Chain!NoFile \in Chain!File /\ Chain!NoFile.at = 0 /\ Chain!NoFile.kind = "none"
    BY ChainFileFields
  <2> QED
    BY <1>1, <2>1, <2>2
<1>7. Chain!TypeOK'
  <2>1. starts' \in 0..MaxStarts /\ excuse' \subseteq ChainExcuses
    <3>1. starts \in 0..MaxStarts /\ excuse \subseteq ChainExcuses /\ MaxStarts \in Nat
      BY <1>0 DEF ChainRanges, ChainSized
    <3>a. starts < MaxStarts /\ starts' = starts + 1
      BY <1>1
    <3>2. starts' \in 0..MaxStarts
      BY <3>a, <3>1
    <3>3. excuse' \subseteq ChainExcuses
      BY <1>1, <3>1 DEF ChainExcuses
    <3> QED
      BY <3>2, <3>3
  <2>2. ChainRanges'
    BY <1>0, <1>1, <1>3, <1>5, <1>6, <2>1 DEF ChainRanges, Chain!Pos, Chain!File, ChainTaskType,
      ChainChildType
  <2> QED
    BY <2>2, ChainTypesAreRanges
<1>8. ChainBounded'
  BY <1>0, <1>1, <1>2, <1>3, <1>5, <1>6 DEF ChainBounded
<1>9. ChainSlotted'
  BY <1>1, <1>2, <1>3 DEF ChainSlotted
<1>10. ChainAhead'
  <2>1. CASE own
    BY <1>1, <1>4, <1>5, <1>6, <2>1 DEF ChainAhead, ChainUsable
  <2>2. CASE ~own
    <3>1. ~ChainUsable'
      BY <1>0, <1>1, <1>6, <2>2 DEF ChainUsable, ChainRanges, Chain!Kinds
    <3> QED
      BY <1>3, <1>5, <2>2, <3>1 DEF ChainAhead
  <2> QED
    BY <2>1, <2>2
<1>11. ChainLoads'
  BY <1>0 DEF ChainLoads, ChainActive
<1>12. ChainWindows'
  <2> SUFFICES ASSUME excuse' = {}, task'.st \in ChainActive
               PROVE  ChainWindows'
    BY DEF ChainWindows
  <2>1. excuse = {} /\ task.st \in ChainActive
    BY <1>1 DEF ChainActive
  <2>2. CASE own
    <3>1. \A p \in {Chain!None} \cup Chain!Pos : ChainPosition(p)' => ChainPosition(p)
      BY <1>1, <1>3, <1>4, <1>5, <1>6, <2>1, <2>2 DEF ChainPosition, ChainUsable, ChainActive
    <3> QED
      BY <1>1, <1>7, <2>1, <3>1, ChainWindowsKept
  <2>3. CASE ~own
    <3>1. \A t \in Loaded : task.read[t] = 0
      BY <1>1, <2>3
    <3>2. task.wrote = {}
      BY <1>0, <3>1, ChainNumbers DEF ChainLoads
    <3>3. task.chain # Chain!None
      BY <1>0, <2>1 DEF ChainWindows
    <3> QED
      BY <3>1, <3>2, <3>3 DEF ChainWindows, ChainHeld
  <2> QED
    BY <2>2, <2>3
<1> QED
  BY <1>7, <1>8, <1>9, <1>10, <1>11, <1>12 DEF ChainInv

LEMMA ChainChildStartsStep == ASSUME ChainSized, ChainSlot, ChainInv, Chain!ChildStarts
  PROVE ChainInv'
<1>1. task \in ChainTaskType
  BY ChainTypesAreRanges DEF ChainInv, ChainRanges
<1> QED
  BY <1>1, ChainStartsStep DEF Chain!ChildStarts

LEMMA ChainChainStartsStep == ASSUME ChainSized, ChainSlot, ChainInv, Chain!ChainStarts
  PROVE ChainInv'
<1>1. task \in ChainTaskType
  BY ChainTypesAreRanges DEF ChainInv, ChainRanges
<1>2. task.st = "seeded" /\ Chain!Starts /\ task' = [task EXCEPT !.st = "done"]
  BY DEF Chain!ChainStarts
<1>3. /\ task' \in ChainTaskType /\ task'.st = "done" /\ task'.wrote = task.wrote
      /\ task'.read = task.read /\ task'.chain = task.chain /\ task'.stored = task.stored
  BY <1>1, <1>2 DEF ChainTaskType
<1> QED
  BY <1>2, <1>3, ChainStartsStep

-----------------------------------------------------------------------------
\* Only task.st changes, and not to a state that asks for more.
LEMMA ChainStateStep ==
  ASSUME ChainSized, ChainSlot, ChainInv, NEW s \in {"seeding", "done"},
         task' = [task EXCEPT !.st = s], task.st \in {"loaded", "seeding", "seeded"},
         UNCHANGED <<setup, match, wal, tgt, slots, file, child, starts>>,
         excuse' \subseteq ChainExcuses, excuse \subseteq excuse',
         s = "seeding" => task.st = "loaded"
  PROVE  ChainInv'
<1>0. ChainRanges /\ Chain!TypeOK /\ ChainBounded /\ ChainSlotted /\ ChainAhead /\ ChainLoads
      /\ ChainWindows
  BY ChainTypesAreRanges DEF ChainInv
<1>1. /\ task' \in ChainTaskType /\ task'.st = s /\ task'.wrote = task.wrote
      /\ task'.read = task.read /\ task'.chain = task.chain /\ task'.stored = task.stored
  BY <1>0 DEF ChainRanges, ChainTaskType
<1>2. Chain!TypeOK'
  <2>2. ChainRanges'
    BY <1>0, <1>1 DEF ChainRanges, Chain!Pos, Chain!File, ChainTaskType, ChainChildType
  <2> QED
    BY <2>2, ChainTypesAreRanges
<1>3. ChainBounded' /\ ChainSlotted' /\ ChainAhead' /\ ChainLoads'
  BY <1>0, <1>1 DEF ChainBounded, Chain!End, ChainSlotted, ChainAhead, ChainUsable, ChainLoads,
    ChainActive
<1>4. \A p : ChainPosition(p)' <=> ChainPosition(p)
  BY DEF ChainPosition, ChainUsable
<1>5. ChainWindows'
  BY <1>1, <1>2, <1>4, ChainWindowsKept DEF ChainActive
<1> QED
  BY <1>2, <1>3, <1>5 DEF ChainInv

LEMMA ChainChainStateSteps ==
  ASSUME ChainSized, ChainSlot, ChainInv,
         Chain!ChainPasses \/ Chain!ChainSkipped \/ Chain!ChainSeedFails \/ Chain!ChainStartsNone
  PROVE  ChainInv'
<1>0. excuse \subseteq ChainExcuses
  BY ChainTypesAreRanges DEF ChainInv, ChainRanges
<1>1. CASE Chain!ChainPasses
  BY <1>0, <1>1, ChainStateStep DEF Chain!ChainPasses
<1>2. CASE Chain!ChainSkipped
  BY <1>0, <1>2, ChainStateStep DEF Chain!ChainSkipped
<1>3. CASE Chain!ChainSeedFails
  <2>1. excuse' \subseteq ChainExcuses
    BY <1>0, <1>3 DEF Chain!ChainSeedFails, ChainExcuses
  <2> QED
    BY <1>3, <2>1, ChainStateStep DEF Chain!ChainSeedFails
<1>4. CASE Chain!ChainStartsNone
  BY <1>0, <1>4, ChainStateStep DEF Chain!ChainStartsNone
<1> QED
  BY <1>1, <1>2, <1>3, <1>4

LEMMA ChainChainSeedsStep == ASSUME ChainSized, ChainSlot, ChainInv, Chain!ChainSeeds
  PROVE ChainInv'
<1>0. ChainRanges /\ Chain!TypeOK /\ ChainBounded /\ ChainSlotted /\ ChainAhead /\ ChainLoads
      /\ ChainWindows
  BY ChainTypesAreRanges DEF ChainInv
<1>1. /\ task.st = "seeding"
      /\ file' = Chain!Seeded(file)
      /\ task' = [task EXCEPT !.st = "seeded"]
      /\ excuse' = excuse \cup (IF child.up THEN {"beside"} ELSE {})
                     \cup (IF setup.kind = "pg" /\ file # Chain!NoFile /\ file.slot = ""
                           THEN {"unseeded"} ELSE {})
      /\ UNCHANGED <<setup, match, wal, tgt, slots, child, starts>>
  BY DEF Chain!ChainSeeds
<1>2. Chain!End' = Chain!End /\ Chain!End \in Chain!Pos
  BY <1>0, <1>1, ChainNumbers DEF Chain!End, ChainRanges
<1>3. /\ task' \in ChainTaskType /\ task'.st = "seeded" /\ task'.wrote = task.wrote
      /\ task'.read = task.read /\ task'.chain = task.chain /\ task'.stored = task.stored
  BY <1>0, <1>1 DEF ChainRanges, ChainTaskType
<1>4. \/ file' = file
      \/ task.chain # Chain!None /\ file' = [kind |-> setup.kind, at |-> task.chain,
           slot |-> IF setup.kind = "mysql" /\ file # Chain!NoFile THEN file.slot ELSE "chain"]
  BY <1>1 DEF Chain!Seeded
<1>5. file' \in Chain!File /\ file'.at <= Chain!End
      /\ (file' # file => task.chain # Chain!None /\ file'.at = task.chain)
  <2>1. file \in Chain!File /\ file.slot \in {"chain", "own", ""} /\ setup.kind \in Chain!Kinds
    BY <1>0, ChainFileFields DEF ChainRanges
  <2>2. task.chain \in Chain!Pos \cup {Chain!None} /\ task.chain <= Chain!End
        /\ file.at <= Chain!End
    BY <1>0, ChainNumbers DEF ChainBounded
  <2>3. CASE file' = file
    BY <2>1, <2>2, <2>3
  <2>4. CASE file' # file
    <3> DEFINE slot == IF setup.kind = "mysql" /\ file # Chain!NoFile THEN file.slot ELSE "chain"
    <3>1. slot \in {"chain", "own", ""}
      BY <2>1
    <3> HIDE DEF slot
    <3>2. task.chain # Chain!None /\ file' = [kind |-> setup.kind, at |-> task.chain, slot |-> slot]
      BY <1>4, <2>4 DEF slot
    <3> QED
      BY <2>1, <2>2, <3>1, <3>2 DEF Chain!File
  <2> QED
    BY <2>3, <2>4
<1>6. Chain!TypeOK'
  <2>1. excuse' \subseteq ChainExcuses
    BY <1>0, <1>1 DEF ChainRanges, ChainExcuses
  <2>2. ChainRanges'
    BY <1>0, <1>1, <1>3, <1>5, <2>1 DEF ChainRanges, Chain!Pos, Chain!File, ChainTaskType,
      ChainChildType
  <2> QED
    BY <2>2, ChainTypesAreRanges
<1>7. ChainBounded' /\ ChainSlotted'
  BY <1>0, <1>1, <1>2, <1>3, <1>5 DEF ChainBounded, ChainSlotted
<1>8. ChainAhead' /\ ChainLoads'
  BY <1>0, <1>1, <1>3 DEF ChainAhead, ChainLoads, ChainActive
<1>9. ChainWindows'
  <2> SUFFICES ASSUME excuse' = {}
               PROVE  \A t \in Loaded, p \in {Chain!None} \cup Chain!Pos : ChainPosition(p)'
                        => ChainHeld(t, p)'
    BY <1>0, <1>1, <1>3 DEF ChainWindows, ChainActive
  <2>1. /\ \A t \in Loaded, p \in {Chain!None} \cup Chain!Pos : ChainPosition(p) => ChainHeld(t, p)
        /\ \A t \in task.wrote : ChainFrom(t, task.chain)
        /\ task.wrote = Loaded /\ excuse = {}
    BY <1>0, <1>1 DEF ChainWindows, ChainLoads, ChainActive
  <2>2. ASSUME NEW t \in Loaded, NEW p \in {Chain!None} \cup Chain!Pos, ChainPosition(p)'
        PROVE ChainFrom(t, p)
    <3>1. CASE ChainPosition(p)
      BY <2>1, <3>1 DEF ChainHeld
    <3>2. CASE ~ChainPosition(p)
      <4>1. file' # file /\ p = file'.at
        BY <1>1, <2>2, <3>2 DEF ChainPosition, ChainUsable
      <4>2. p = task.chain
        BY <1>5, <4>1
      <4> QED
        BY <2>1, <4>2
    <3> QED
      BY <3>1, <3>2
  <2>3. \A t, p : ChainFrom(t, p)' <=> ChainFrom(t, p)
    BY <1>1, ChainSameLatest DEF ChainFrom
  <2> QED
    BY <1>3, <2>1, <2>2, <2>3 DEF ChainHeld
<1> QED
  BY <1>6, <1>7, <1>8, <1>9 DEF ChainInv

-----------------------------------------------------------------------------
\* The file, the slot and the process change, the rest does not.
LEMMA ChainProcessStep ==
  ASSUME ChainSized, ChainSlot, ChainInv, ChainRanges',
         UNCHANGED <<setup, wal, tgt, task>>, excuse' = excuse,
         file'.at <= Chain!End, child'.at <= Chain!End,
         \A n \in {"chain", "own"} : slots'[n] <= Chain!End,
         slots["chain"] # Chain!None => slots'["chain"] # Chain!None, child'.up => child.up,
         child'.up /\ "beside" \notin excuse =>
           slots'["chain"] <= child'.at /\ (ChainUsable' => file'.at <= child'.at),
         \A p \in {Chain!None} \cup Chain!Pos : ChainPosition(p)' => ChainPosition(p)
  PROVE  ChainInv'
<1>0. ChainRanges /\ Chain!TypeOK /\ ChainBounded /\ ChainSlotted /\ ChainAhead /\ ChainLoads
      /\ ChainWindows
  BY ChainTypesAreRanges DEF ChainInv
<1>1. Chain!TypeOK'
  BY ChainTypesAreRanges
<1>2. ChainBounded' /\ ChainSlotted' /\ ChainAhead' /\ ChainLoads'
  BY <1>0, ChainSameTask DEF ChainBounded, Chain!End, ChainSlotted, ChainAhead
<1>3. ChainWindows'
  BY <1>1, ChainWindowsKept
<1> QED
  BY <1>1, <1>2, <1>3 DEF ChainInv

LEMMA ChainChildConfirmsStep == ASSUME ChainSized, ChainSlot, ChainInv, Chain!ChildConfirms
  PROVE ChainInv'
<1>0. ChainRanges /\ Chain!TypeOK /\ ChainBounded /\ ChainSlotted /\ ChainAhead
  BY ChainTypesAreRanges DEF ChainInv
<1>1. /\ child.up /\ setup.slot = "chain"
      /\ slots' = [slots EXCEPT !["chain"] = child.at]
      /\ UNCHANGED <<setup, match, wal, tgt, file, task, child, starts, excuse>>
  BY <1>0 DEF Chain!ChildConfirms, ChainSlotted
<1>2. child.at \in Chain!Pos /\ child.at # Chain!None /\ child.at <= Chain!End
      /\ child.at <= child.at
  BY <1>0, ChainNumbers DEF ChainBounded, Chain!Pos, Chain!None
<1>3. /\ slots' \in [{"chain", "own"} -> Chain!Pos \cup {Chain!None}] /\ slots'["chain"] = child.at
      /\ \A n \in {"chain", "own"} : slots'[n] <= Chain!End
  BY <1>0, <1>1, <1>2 DEF ChainRanges, ChainBounded
<1>4. ChainRanges'
  BY <1>0, <1>1, <1>3 DEF ChainRanges, Chain!Pos, Chain!File, ChainTaskType, ChainChildType
<1>5. \A p : ChainPosition(p)' => ChainPosition(p)
  BY <1>1, <1>3 DEF ChainPosition, ChainUsable
<1>6. "beside" \notin excuse => (ChainUsable' => file.at <= child.at)
  BY <1>0, <1>1 DEF ChainAhead, ChainUsable
<1> QED
  BY <1>0, <1>1, <1>2, <1>3, <1>4, <1>5, <1>6, ChainProcessStep DEF ChainBounded

LEMMA ChainChildSavesStep == ASSUME ChainSized, ChainSlot, ChainInv, Chain!ChildSaves
  PROVE ChainInv'
<1>0. ChainRanges /\ Chain!TypeOK /\ ChainBounded /\ ChainSlotted /\ ChainAhead
  BY ChainTypesAreRanges DEF ChainInv
<1>1. /\ child.up
      /\ file' = [kind |-> setup.kind, slot |-> child.slot, at |-> child.at]
      /\ UNCHANGED <<setup, match, wal, tgt, slots, task, child, starts, excuse>>
  BY DEF Chain!ChildSaves
<1>2. child.at \in Chain!Pos /\ child.at <= Chain!End /\ child.at <= child.at
  BY <1>0, ChainNumbers DEF ChainBounded, Chain!Pos, Chain!None
<1>3. file' \in Chain!File /\ file'.at = child.at
  <2>1. child.slot \in {"chain", "own", ""} /\ setup.kind \in Chain!Kinds
    BY <1>0 DEF ChainRanges, ChainChildType
  <2> QED
    BY <1>1, <1>2, <2>1 DEF Chain!File
<1>4. ChainRanges'
  BY <1>0, <1>1, <1>3 DEF ChainRanges, Chain!Pos, Chain!File, ChainTaskType, ChainChildType
<1>5. \A p : ChainPosition(p)' => ChainPosition(p)
  BY <1>1, <1>3 DEF ChainPosition, ChainUsable
<1>6. "beside" \notin excuse => slots["chain"] <= child.at
  BY <1>0, <1>1 DEF ChainAhead
<1> QED
  BY <1>0, <1>1, <1>2, <1>3, <1>4, <1>5, <1>6, ChainProcessStep DEF ChainBounded

LEMMA ChainChildEndsStep == ASSUME ChainSized, ChainSlot, ChainInv, Chain!ChildEnds PROVE ChainInv'
<1>0. ChainRanges /\ Chain!TypeOK /\ ChainBounded
  BY ChainTypesAreRanges DEF ChainInv
<1>1. child' = Chain!Down /\ UNCHANGED <<setup, match, wal, tgt, slots, file, task, starts, excuse>>
  BY DEF Chain!ChildEnds
<1>2. child' \in ChainChildType /\ child'.at <= Chain!End /\ ~child'.up
  <2>1. Chain!Down.at = 0 /\ Chain!Down.up = FALSE /\ Chain!Down.slot = ""
    BY DEF Chain!Down
  <2>2. 0 \in Chain!Pos /\ 0 <= Chain!End
    BY <1>0, ChainNumbers DEF Chain!Pos, ChainSized
  <2> QED
    BY <1>1, <2>1, <2>2 DEF Chain!Down, ChainChildType
<1>3. ChainRanges'
  BY <1>0, <1>1, <1>2 DEF ChainRanges, Chain!Pos, Chain!File, ChainTaskType, ChainChildType
<1>4. \A p : ChainPosition(p)' => ChainPosition(p)
  BY <1>1, <1>2 DEF ChainPosition, ChainUsable
<1> QED
  BY <1>0, <1>1, <1>2, <1>3, <1>4, ChainProcessStep DEF ChainBounded

\* ResetsCheckpoint and SwitchesSource.
LEMMA ChainDropsFileStep == ASSUME ChainSized, ChainSlot, ChainInv,
  Chain!ResetsCheckpoint \/ Chain!SwitchesSource PROVE ChainInv'
<1>0. ChainRanges /\ Chain!TypeOK /\ ChainBounded /\ ChainAhead
  BY ChainTypesAreRanges DEF ChainInv
<1>1. /\ file' \in {file, Chain!NoFile} /\ match' \in BOOLEAN
      /\ UNCHANGED <<setup, wal, tgt, slots, task, child, starts, excuse>>
  BY <1>0 DEF Chain!ResetsCheckpoint, Chain!SwitchesSource, ChainRanges
<1>2. file' \in Chain!File /\ file'.at <= Chain!End /\ (file' # file => file'.kind = "none")
  <2>1. file \in Chain!File /\ file.at <= Chain!End /\ 0 <= Chain!End
    BY <1>0, ChainNumbers DEF ChainRanges, ChainBounded
  <2> QED
    BY <1>1, <2>1, ChainFileFields
<1>3. ChainUsable' => file' = file
  BY <1>0, <1>1, <1>2 DEF ChainUsable, ChainRanges, Chain!Kinds
<1>4. ChainRanges'
  BY <1>0, <1>1, <1>2 DEF ChainRanges, Chain!Pos, Chain!File, ChainTaskType, ChainChildType
<1>5. \A p : ChainPosition(p)' => ChainPosition(p)
  BY <1>1, <1>3 DEF ChainPosition, ChainUsable
<1>6. child'.up /\ "beside" \notin excuse =>
        slots'["chain"] <= child'.at /\ (ChainUsable' => file'.at <= child'.at)
  BY <1>0, <1>1, <1>3 DEF ChainAhead, ChainUsable
<1> QED
  BY <1>0, <1>1, <1>2, <1>4, <1>5, <1>6, ChainProcessStep DEF ChainBounded

\* A row is applied: its table has its last write up to there, unless it crosses the
\* load.
LEMMA ChainChildAppliesStep == ASSUME ChainSized, ChainSlot, ChainInv, Chain!ChildApplies
  PROVE ChainInv'
<1>0. ChainRanges /\ Chain!TypeOK /\ ChainBounded /\ ChainSlotted /\ ChainAhead /\ ChainLoads
      /\ ChainWindows
  BY ChainTypesAreRanges DEF ChainInv
<1>a. child.at \in Nat /\ \A i \in 1..Chain!End : wal[i] \in Loaded
  BY <1>0, ChainNumbers
<1>b. PICK q \in Nat : q = child.at + 1
  BY <1>a
<1>c. q \in 1..Chain!End
  BY <1>0, <1>a, <1>b, ChainNumbers DEF Chain!ChildApplies
<1>d. PICK t \in Loaded : t = wal[q]
  BY <1>a, <1>c
<1>1. /\ child.up /\ child.at < Chain!End
      /\ tgt' = [tgt EXCEPT ![t] = q]
      /\ child' = [child EXCEPT !.at = q]
      /\ excuse' = IF Chain!Crosses(t, q) THEN excuse \cup {"beside"} ELSE excuse
      /\ UNCHANGED <<setup, match, wal, slots, file, task, starts>>
  BY <1>b, <1>d DEF Chain!ChildApplies
<1>2. Chain!End' = Chain!End /\ Chain!End \in Chain!Pos /\ child.at \in Nat
  BY <1>0, <1>1, ChainNumbers DEF Chain!End, ChainRanges
<1>3. q \in 1..Chain!End /\ q \in Chain!Pos /\ t \in Loaded /\ q \in Nat
  BY <1>0, <1>c, ChainNumbers DEF Chain!Pos, ChainSized
<1>4. /\ tgt' \in [Loaded -> Chain!Pos] /\ tgt'[t] = q /\ \A u \in Loaded : u # t
         => tgt'[u] = tgt[u]
      /\ child' \in ChainChildType /\ child'.at = q /\ child'.up
  BY <1>0, <1>1, <1>3 DEF ChainRanges, ChainChildType
<1> DEFINE a == child.at
<1>5. q = a + 1 /\ a \in Nat /\ q \in Nat /\ q <= Chain!End
  BY <1>b, <1>2, <1>3
<1>6. Chain!TypeOK'
  <2>1. excuse' \subseteq ChainExcuses
    BY <1>0, <1>1 DEF ChainRanges, ChainExcuses
  <2>2. ChainRanges'
    BY <1>0, <1>1, <1>4, <2>1 DEF ChainRanges, Chain!Pos, Chain!File, ChainTaskType,
      ChainChildType
  <2> QED
    BY <2>2, ChainTypesAreRanges
<1>7. ChainBounded'
  <2>1. \A u \in Loaded : tgt'[u] <= Chain!End
    BY <1>0, <1>3, <1>4 DEF ChainBounded
  <2> QED
    BY <1>0, <1>1, <1>2, <1>4, <1>5, <2>1 DEF ChainBounded
<1>8. ChainSlotted' /\ ChainLoads'
  BY <1>0, <1>1, ChainSameTask DEF ChainSlotted
<1>9. "beside" \notin excuse => slots["chain"] <= a /\ (ChainUsable => file.at <= a)
  BY <1>0, <1>1 DEF ChainAhead
<1>10. /\ slots["chain"] <= a => slots["chain"] <= q
       /\ file.at <= a => file.at <= q
  <2>1. slots["chain"] \in Int /\ file.at \in Int
    BY <1>0, ChainNumbers DEF Chain!Pos, Chain!None, ChainSized
  <2> QED
    BY <1>5, <2>1
<1>11. ChainAhead'
  BY <1>1, <1>4, <1>9, <1>10 DEF ChainAhead, ChainUsable
<1>12. ChainWindows'
  <2> SUFFICES ASSUME excuse' = {}, task.st \in ChainActive
               PROVE  /\ \A u \in Loaded, p \in {Chain!None} \cup Chain!Pos : ChainPosition(p)'
                           => ChainHeld(u, p)'
                      /\ task'.chain # Chain!None
                      /\ task'.st \in {"loading", "loaded", "seeding"} =>
                           \A u \in task'.wrote : ChainFrom(u, task.chain)'
    BY <1>1 DEF ChainWindows
  <2>1. excuse = {} /\ ~Chain!Crosses(t, q)
    BY <1>1
  <2>2. /\ \A u \in Loaded, p \in {Chain!None} \cup Chain!Pos : ChainPosition(p) => ChainHeld(u, p)
        /\ task.chain # Chain!None
        /\ task.st \in {"loading", "loaded", "seeding"}
           => \A u \in task.wrote : ChainFrom(u, task.chain)
    BY <1>0, <2>1 DEF ChainWindows
  <2>3. \A u \in Loaded : /\ Chain!LastWrite(u, Chain!End) \in 0..Chain!End
                          /\ \A i \in 1..Chain!End : wal[i] = u
                               => i <= Chain!LastWrite(u, Chain!End)
                          /\ Chain!LastWrite(u, Chain!End) # 0
                             => wal[Chain!LastWrite(u, Chain!End)] = u
    BY <1>0, ChainLatestWrite
  <2>4. Chain!LastWrite(t, Chain!End) >= q /\ Chain!LastWrite(t, Chain!End) \in Nat
    BY <1>c, <1>d, <1>3, <2>3
  <2>5. ASSUME NEW p \in {Chain!None} \cup Chain!Pos, p <= q PROVE ChainFrom(t, p)'
    <3>1. Chain!LastWrite(t, Chain!End)' = Chain!LastWrite(t, Chain!End)
      BY <1>1, ChainSameLatest
    <3>2. Chain!LastWrite(t, Chain!End) > p \/ q = Chain!LastWrite(t, Chain!End)
      BY <1>5, <2>4, <2>5 DEF Chain!Pos, Chain!None, ChainSized
    <3>3. ChainFrom(t, p)' <=> Chain!LastWrite(t, Chain!End)' > p
          \/ tgt'[t] = Chain!LastWrite(t, Chain!End)'
      BY <1>1, <1>5 DEF ChainFrom
    <3> QED
      BY <1>4, <3>1, <3>2, <3>3
  <2>6. ASSUME NEW u \in Loaded, u # t, NEW p PROVE ChainFrom(u, p)' <=> ChainFrom(u, p)
    BY <1>1, <1>4, <2>6, ChainSameLatest DEF ChainFrom
  <2>7. ASSUME NEW u \in Loaded, u # t, ChainFrom(u, a) PROVE ChainFrom(u, q)
    <3>1. Chain!LastWrite(u, Chain!End) \in Nat
          /\ (Chain!LastWrite(u, Chain!End) # 0 => wal[Chain!LastWrite(u, Chain!End)] = u)
      BY <2>3
    <3>2. Chain!LastWrite(u, Chain!End) # q
      BY <1>5, <1>d, <2>7, <3>1
    <3> QED
      BY <1>5, <2>7, <3>1, <3>2 DEF ChainFrom
  <2>8. ASSUME NEW u \in Loaded, u \notin task.wrote, task.read[u] # 0, ChainSpared(u, a)
        PROVE  ChainSpared(u, q)
    <3>1. u = t => q <= task.read[u]
      <4>1. u = t => task.st \in {"loading", "loaded", "seeding"}
        BY <1>0, <2>8 DEF ChainLoads, ChainActive
      <4>2. task.read[u] \in Nat
        BY <1>0, ChainNumbers
      <4> QED
        BY <1>5, <2>1, <2>8, <4>1, <4>2 DEF Chain!Crosses
    <3>2. \A i \in 1..q : i \in 1..a \/ i = q
      BY <1>5
    <3>3. task.read[u] \in Nat
      BY <1>0, ChainNumbers
    <3> QED
      BY <1>5, <1>d, <2>8, <3>1, <3>2, <3>3 DEF ChainSpared
  <2>9. ChainPosition(a) /\ a \in {Chain!None} \cup Chain!Pos
    BY <1>0, <1>1, ChainNumbers DEF ChainPosition
  <2>10. ASSUME NEW p \in {Chain!None} \cup Chain!Pos, ChainPosition(p)'
         PROVE  (p = q \/ ChainPosition(p)) /\ p <= q
    <3>1. p = q \/ p = slots["chain"] \/ (ChainUsable /\ p = file.at)
      BY <1>1, <1>4, <2>10 DEF ChainPosition, ChainUsable
    <3> QED
      BY <1>5, <1>9, <1>10, <2>1, <3>1 DEF ChainPosition
  <2>11. ASSUME NEW u \in Loaded, NEW p \in {Chain!None} \cup Chain!Pos, ChainPosition(p)'
         PROVE ChainHeld(u, p)'
    <3>1. ChainHeld(u, a) /\ (p = q \/ ChainHeld(u, p)) /\ p <= q
      BY <2>2, <2>9, <2>10, <2>11
    <3>2. u \in task.wrote => ChainFrom(u, p)'
      <4>1. CASE u = t
        BY <2>5, <3>1, <4>1
      <4>2. CASE u # t
        BY <2>6, <2>7, <3>1, <4>2 DEF ChainHeld
      <4> QED
        BY <4>1, <4>2
    <3>3. u \notin task.wrote /\ task.read[u] # 0 => ChainSpared(u, p)'
      <4>1. ChainSpared(u, p)' <=> ChainSpared(u, p)
        BY <1>1 DEF ChainSpared
      <4> QED
        BY <2>8, <3>1, <4>1 DEF ChainHeld
    <3> QED
      BY <1>1, <3>2, <3>3 DEF ChainHeld
  <2>12. ASSUME NEW u \in task.wrote, task.st \in {"loading", "loaded", "seeding"}
         PROVE  ChainFrom(u, task.chain)'
    <3>1. u \in Loaded /\ task.chain \in {Chain!None} \cup Chain!Pos /\ task.read[u] \in Nat
      BY <1>0, <2>12, ChainNumbers
    <3>2. task.read[u] # 0 /\ task.chain <= task.read[u]
      BY <1>0, <2>12, <3>1 DEF ChainLoads
    <3>3. PICK p \in {Chain!None} \cup Chain!Pos : p = task.chain
      BY <3>1
    <3>4. ChainFrom(u, task.chain)' <=> ChainFrom(u, p)'
      BY <1>1, <3>3 DEF ChainFrom
    <3>5. CASE u = t
      <4>1. p <= q
        BY <1>5, <2>1, <2>12, <3>1, <3>2, <3>3, <3>5 DEF Chain!Crosses, Chain!Pos, Chain!None,
          ChainSized
      <4> QED
        BY <2>5, <3>4, <3>5, <4>1
    <3>6. CASE u # t
      BY <2>2, <2>6, <2>12, <3>1, <3>3, <3>4, <3>6
    <3> QED
      BY <3>5, <3>6
  <2> QED
    BY <1>1, <2>2, <2>11, <2>12
<1> QED
  BY <1>6, <1>7, <1>8, <1>11, <1>12 DEF ChainInv

-----------------------------------------------------------------------------
LEMMA ChainInitInv == ASSUME ChainSized, ChainSlot, Chain!Init PROVE ChainInv
<1>1. /\ setup \in [kind : Chain!Kinds, slot : LoadSlots] /\ match \in BOOLEAN
         /\ wal \in [1..1 -> Loaded]
      /\ tgt = [t \in Loaded |-> 0] /\ slots = [n \in {"chain", "own"} |-> Chain!None]
      /\ file \in Chain!OldFiles(setup.kind)
      /\ task = [st |-> "idle", chain |-> Chain!None, stored |-> Chain!None,
                 read |-> [t \in Loaded |-> 0],
                 loads |-> 0, wrote |-> {}]
      /\ child = Chain!Down /\ starts = 0 /\ excuse = {}
  BY DEF Chain!Init
<1>2. 0 \in Chain!Pos /\ 1 \in Chain!Pos /\ Chain!None <= 1 /\ 0 \in 0..MaxLoads
      /\ 0 \in 0..MaxStarts
  BY DEF Chain!Pos, ChainSized, Chain!None
<1>3. wal \in Seq(Loaded) /\ Len(wal) = 1
  <2>1. \A i \in 1..1 : wal[i] \in Loaded
    BY <1>1
  <2>2. wal = [i \in 1..1 |-> wal[i]]
    BY <1>1
  <2>3. /\ [i \in 1..1 |-> wal[i]] \in Seq(Loaded) /\ Len([i \in 1..1 |-> wal[i]]) = 1
    BY <2>1, IsASeq
  <2> QED
    BY <2>2, <2>3
<1>4. file \in Chain!File /\ file.at <= 1
  <2>1. CASE file = Chain!NoFile
    <3>1. file \in Chain!File /\ file.at = 0
      BY <2>1, ChainFileFields
    <3> QED
      BY <3>1
  <2>2. CASE file # Chain!NoFile
    <3>1. \/ file \in [kind : Chain!Kinds, slot : {"own"}, at : {1}]
          \/ file = [kind |-> "mysql", slot |-> "", at |-> 1]
      BY <1>1, <2>2 DEF Chain!OldFiles
    <3>2. CASE file \in [kind : Chain!Kinds, slot : {"own"}, at : {1}]
      <4>1. file \in [kind : Chain!Kinds, slot : {"chain", "own", ""}, at : Chain!Pos]
            /\ file.at = 1
        BY <1>2, <3>2
      <4>2. file \in Chain!File
        BY <4>1 DEF Chain!File
      <4>3. file.at = 1
        BY <4>1
      <4>4. file.at <= 1
        BY <4>3
      <4> QED
        BY <4>2, <4>4
    <3>3. CASE file = [kind |-> "mysql", slot |-> "", at |-> 1]
      <4>1. file \in [kind : Chain!Kinds, slot : {"chain", "own", ""}, at : Chain!Pos]
            /\ file.at = 1
        BY <1>2, <3>3 DEF Chain!Kinds
      <4>2. file \in Chain!File
        BY <4>1 DEF Chain!File
      <4>3. file.at = 1
        BY <4>1
      <4>4. file.at <= 1
        BY <4>3
      <4> QED
        BY <4>2, <4>4
    <3> QED
      BY <3>1, <3>2, <3>3
  <2> QED
    BY <2>1, <2>2
<1>5. task \in ChainTaskType /\ child \in ChainChildType /\ child.up = FALSE /\ child.at = 0
  BY <1>1, <1>2 DEF ChainTaskType, ChainChildType, Chain!Down
<1>6. Chain!TypeOK
  <2>1. tgt \in [Loaded -> Chain!Pos] /\ slots \in [{"chain", "own"} -> Chain!Pos \cup {Chain!None}]
    BY <1>1, <1>2
  <2>2. ChainRanges
    BY <1>1, <1>2, <1>3, <1>4, <1>5, <2>1 DEF ChainRanges
  <2> QED
    BY <2>2, ChainTypesAreRanges
<1>7. Chain!End = 1
  BY <1>3 DEF Chain!End
<1>8. /\ task.st = "idle" /\ task.chain = Chain!None /\ task.stored = Chain!None /\ task.wrote = {}
      /\ \A t \in Loaded : task.read[t] = 0
  BY <1>1
<1>9. ChainBounded
  <2>1. \A t \in Loaded : tgt[t] <= 1 /\ task.read[t] <= 1
    BY <1>1, <1>8
  <2>2. \A n \in {"chain", "own"} : slots[n] <= 1
    BY <1>1, <1>2
  <2> QED
    BY <1>2, <1>4, <1>5, <1>7, <1>8, <2>1, <2>2 DEF ChainBounded
<1>10. ChainSlotted
  BY <1>1, <1>5, <1>8 DEF ChainSlotted, ChainSlot
<1>11. ChainAhead /\ ChainLoads /\ ChainWindows
  BY <1>1, <1>5, <1>8 DEF ChainAhead, ChainLoads, ChainWindows, ChainActive
<1> QED
  BY <1>6, <1>9, <1>10, <1>11 DEF ChainInv

LEMMA ChainStutterStep == ASSUME ChainInv, UNCHANGED Chain!vars PROVE ChainInv'
<1>1. UNCHANGED <<setup, match, wal, tgt, slots, file, task, child, starts, excuse>>
  BY DEF Chain!vars
<1>2. \A t, p : ChainHeld(t, p)' <=> ChainHeld(t, p)
  BY <1>1, ChainSameLatest DEF ChainHeld, ChainFrom, ChainSpared
<1>3. \A p : ChainPosition(p)' <=> ChainPosition(p)
  BY <1>1 DEF ChainPosition, ChainUsable
<1>4. \A t : ChainFrom(t, task.chain)' <=> ChainFrom(t, task.chain)
  BY <1>1, ChainSameLatest DEF ChainFrom
<1>5. ChainWindows'
  BY <1>1, <1>2, <1>3, <1>4 DEF ChainInv, ChainWindows, Chain!Pos
<1>6. Chain!TypeOK'
  BY <1>1 DEF ChainInv, Chain!TypeOK, Chain!File, Chain!Pos
<1> QED
  BY <1>1, <1>5, <1>6, ChainSameTask DEF ChainInv, ChainBounded, Chain!End, ChainSlotted,
    ChainAhead, ChainUsable

LEMMA ChainNextStep == ASSUME ChainSized, ChainSlot, ChainInv, Chain!Next PROVE ChainInv'
<1>1. CASE Chain!SourceWrites \/ Chain!StartsTask \/ Chain!ResumesTask \/ Chain!LoadEnds
  BY <1>1, ChainWritesStep, ChainStartsTaskStep, ChainResumesTaskStep, ChainLoadEndsStep
<1>2. CASE \E t \in Loaded : Chain!ReadsTable(t) \/ Chain!LoadsTable(t)
  BY <1>2, ChainReadsTableStep, ChainLoadsTableStep
<1>3. CASE Chain!ChildStarts \/ Chain!ChainStarts \/ Chain!ChainSeeds
  BY <1>3, ChainChildStartsStep, ChainChainStartsStep, ChainChainSeedsStep
<1>4. CASE Chain!ChainPasses \/ Chain!ChainSkipped \/ Chain!ChainSeedFails \/ Chain!ChainStartsNone
  BY <1>4, ChainChainStateSteps
<1>5. CASE Chain!ChildApplies \/ Chain!ChildConfirms \/ Chain!ChildSaves \/ Chain!ChildEnds
  BY <1>5, ChainChildAppliesStep, ChainChildConfirmsStep, ChainChildSavesStep, ChainChildEndsStep
<1>6. CASE Chain!ResetsCheckpoint \/ Chain!SwitchesSource
  BY <1>6, ChainDropsFileStep
<1> QED
  BY <1>1, <1>2, <1>3, <1>4, <1>5, <1>6 DEF Chain!Next

\* A process at the end of the log has nothing left to apply.
LEMMA ChainCaughtUpHolds == ASSUME ChainSized, ChainInv PROVE Chain!NothingBetween
<1> SUFFICES ASSUME Chain!CaughtUp, excuse = {}, NEW t \in Loaded
             PROVE  tgt[t] = Chain!LastWrite(t, Chain!End)
  BY DEF Chain!NothingBetween
<1>1. Chain!End \in Nat /\ Chain!End \in Chain!Pos /\ Chain!LastWrite(t, Chain!End) \in 0..Chain!End
  BY ChainNumbers, ChainLatestWrite, ChainTypesAreRanges DEF ChainInv, ChainRanges, Chain!End
<1>2. t \in task.wrote
  BY DEF ChainInv, ChainLoads, Chain!CaughtUp, ChainActive
<1>3. ChainPosition(Chain!End)
  BY DEF Chain!CaughtUp, ChainPosition
<1>4. ChainFrom(t, Chain!End)
  BY <1>1, <1>2, <1>3 DEF ChainInv, ChainWindows, Chain!CaughtUp, ChainActive, ChainHeld
<1> QED
  BY <1>1, <1>4 DEF ChainFrom

-----------------------------------------------------------------------------
(* Bin: the MySQL stream.  The position covers only events canal is through *)
(* with, and so did every position that was saved.                          *)

\* What the theorems assume of the constants.
BinSized == Binlog \in Seq(STRING) /\ EventRows \in Nat \ {0} /\ MaxEnds \in Nat

-----------------------------------------------------------------------------
(* Coordinates: an event has one, and it tells the event. *)

LEMMA BinCardinality == \A S : Bin!Cardinality(S) = Cardinality(S)
BY DEF Bin!Cardinality, Cardinality

LEMMA BinEndsAreFinite ==
  ASSUME NEW i \in Nat
  PROVE  /\ IsFiniteSet(Bin!Rotates(i)) /\ IsFiniteSet(Bin!InFile(i))
         /\ Cardinality(Bin!Rotates(i)) \in Nat /\ Cardinality(Bin!InFile(i)) \in Nat
<1>1. IsFiniteSet(1..i)
  BY FS_Interval
<1>2. Bin!Rotates(i) \in SUBSET (1..i) /\ Bin!InFile(i) \in SUBSET (1..i)
  BY DEF Bin!Rotates, Bin!InFile
<1>3. IsFiniteSet(Bin!Rotates(i)) /\ IsFiniteSet(Bin!InFile(i))
  BY <1>1, <1>2, FS_Subset
<1> QED
  BY <1>3, FS_CardinalityType

\* Two events of one file at one offset are one event.
LEMMA BinLaterIsFurther ==
  ASSUME NEW i \in Nat, NEW j \in Nat, i < j
  PROVE  Bin!End(i) # Bin!End(j)
<1> SUFFICES ASSUME Bin!End(i) = Bin!End(j)
             PROVE  FALSE
  OBVIOUS
<1>1. Cardinality(Bin!Rotates(i)) = Cardinality(Bin!Rotates(j))
      /\ Cardinality(Bin!InFile(i)) = Cardinality(Bin!InFile(j))
  BY BinCardinality DEF Bin!End
<1>2. Bin!Rotates(i) \in SUBSET Bin!Rotates(j)
  BY DEF Bin!Rotates
<1>3. Bin!Rotates(i) = Bin!Rotates(j)
  BY <1>1, <1>2, BinEndsAreFinite, FS_Subset
<1>4. \A k \in i + 1..j : Binlog[k] # "rotate"
  BY <1>3 DEF Bin!Rotates
<1>5. Bin!InFile(i) \in SUBSET Bin!InFile(j)
  <2> SUFFICES ASSUME NEW k \in Bin!InFile(i), NEW l \in k..j
               PROVE  k \in 1..j /\ Binlog[l] # "rotate"
    BY DEF Bin!InFile
  <2>1. k \in 1..i /\ \A m \in k..i : Binlog[m] # "rotate"
    BY DEF Bin!InFile
  <2>2. l \in k..i \/ l \in i + 1..j
    BY <2>1
  <2> QED
    BY <2>1, <2>2, <1>4
<1>6. Bin!InFile(i) = Bin!InFile(j)
  BY <1>1, <1>5, BinEndsAreFinite, FS_Subset
<1>7. j \in Bin!InFile(j)
  BY <1>4 DEF Bin!InFile
<1>8. j \notin Bin!InFile(i)
  BY DEF Bin!InFile
<1> QED
  BY <1>6, <1>7, <1>8

LEMMA BinIndexOfEnd ==
  ASSUME BinSized, NEW i \in 0..Len(Binlog)
  PROVE  Bin!Index(Bin!End(i)) = i
<1>1. Len(Binlog) \in Nat
  BY DEF BinSized
<1>2. \A j \in 0..Len(Binlog) : Bin!End(j) = Bin!End(i) => j = i
  <2> SUFFICES ASSUME NEW j \in 0..Len(Binlog), Bin!End(j) = Bin!End(i), j # i
               PROVE  FALSE
    OBVIOUS
  <2>1. j < i \/ i < j
    BY <1>1
  <2> QED
    BY <1>1, <2>1, BinLaterIsFurther
<1> QED
  BY <1>2 DEF Bin!Index

LEMMA BinIndexOfPosition ==
  ASSUME BinSized, NEW p \in Bin!Positions
  PROVE  Bin!Index(p) \in 0..Len(Binlog) /\ Bin!End(Bin!Index(p)) = p /\ p # Bin!None
<1>1. PICK i \in 0..Len(Binlog) : p = Bin!End(i)
  BY DEF Bin!Positions
<1>2. Bin!Index(p) = i
  BY <1>1, BinIndexOfEnd
<1>3. i \in Nat
  BY DEF BinSized
<1>4. Bin!End(i).file \in Nat /\ Bin!None.file = -1
  BY <1>3, BinEndsAreFinite, BinCardinality DEF Bin!End, Bin!None
<1> QED
  BY <1>1, <1>2, <1>4

\* An event that is no rotation ends in the file it begins in.
LEMMA BinSameFile ==
  ASSUME NEW i \in Nat, Binlog[i + 1] # "rotate"
  PROVE  Bin!End(i + 1).file = Bin!End(i).file
<1>1. Bin!Rotates(i + 1) = Bin!Rotates(i)
  BY DEF Bin!Rotates
<1> QED
  BY <1>1 DEF Bin!End

-----------------------------------------------------------------------------
(* The invariant. *)

\* The rows pushed or dropped of what canal is through with.
BinBehind == {r \in Bin!RowIds : since < r[1] /\ (r[1] <= cur \/ (r[1] = cur + 1 /\ r[2] <= sub))}

BinNoDdlUpTo(i) == \A d \in since + 1..i : Binlog[d] \notin {"ddl", "drop"}

\* What the position covers canal is through with; it is in canal's file.
BinPosBehind == Bin!Index(pos) <= cur /\ pos.file = Bin!End(cur).file

\* So is what was saved: some cur of some process was there.
BinSavedBehind ==
  saved # Bin!None => /\ Bin!Index(saved) <= made
                      /\ Bin!UpTo(saved) \subseteq sent \cup skipped
                      /\ BinNoDdlUpTo(Bin!Index(saved))

\* Rows pushed are settled or on their way, but for an unclean end.
BinNothingElse == clean => sent \subseteq settled \cup flight

BinIInv ==
  /\ Bin!TypeOK
  /\ BinPosBehind
  /\ BinBehind \subseteq sent \cup skipped
  /\ BinNoDdlUpTo(cur)
  /\ BinSavedBehind
  /\ Bin!DdlNeverPassed
  /\ BinNothingElse
  /\ sub > 0 => Binlog[cur + 1] = "rows" /\ known
  /\ stream = "off" => flight = {}

\* The end a save leads to.
LEMMA BinSavesAreBehind ==
  ASSUME BinSized, BinIInv, Bin!Save
  PROVE  /\ saved' \in Bin!Positions /\ saved' # Bin!None
         /\ Bin!Index(saved') <= cur /\ Bin!Index(saved') <= made
         /\ Bin!UpTo(saved') \subseteq sent \cup skipped
         /\ BinNoDdlUpTo(Bin!Index(saved'))
<1>1. pos \in Bin!Positions /\ saved' = pos /\ Bin!Index(pos) <= cur /\ cur \in 0..made
      /\ made \in Nat
  BY DEF BinIInv, Bin!TypeOK, Bin!Save, BinPosBehind
<1>2. Bin!Index(pos) \in 0..Len(Binlog) /\ pos # Bin!None
  BY <1>1, BinIndexOfPosition
<1>3. Bin!UpTo(pos) \subseteq BinBehind
  BY <1>1, <1>2 DEF Bin!UpTo, BinBehind, Bin!RowIds, Bin!Events, BinSized
<1>4. Bin!UpTo(pos) \subseteq sent \cup skipped
  BY <1>3 DEF BinIInv
<1>5. since \in 0..made /\ BinNoDdlUpTo(Bin!Index(pos))
  BY <1>1, <1>2 DEF BinIInv, Bin!TypeOK, BinNoDdlUpTo
<1> QED
  BY <1>1, <1>2, <1>4, <1>5

-----------------------------------------------------------------------------
(* The steps. *)

\* What a step that moves neither canal nor the chain leaves alone; the end of a
\* process forgets how much of an event was pushed.
LEMMA BinCanalFrame ==
  ASSUME BinSized, BinIInv, UNCHANGED <<cur, pos, since, sent, skipped>>, sub' \in {sub, 0},
         known' = known
  PROVE  /\ BinPosBehind' /\ (BinBehind \subseteq sent \cup skipped)' /\ BinNoDdlUpTo(cur)'
            /\ Bin!DdlNeverPassed'
         /\ (sub > 0 => Binlog[cur + 1] = "rows" /\ known)' /\ (sub \in 0..EventRows - 1)'
<1>1. sub \in 0..EventRows - 1 /\ EventRows \in Nat \ {0}
  BY DEF BinIInv, Bin!TypeOK, BinSized
<1>2. BinBehind' \subseteq BinBehind
  <2> SUFFICES ASSUME NEW q \in BinBehind' PROVE q \in BinBehind
    OBVIOUS
  <2>1. q \in Bin!RowIds /\ since < q[1] /\ (q[1] <= cur \/ (q[1] = cur + 1 /\ q[2] <= sub'))
    BY DEF BinBehind
  <2>2. q[2] \in 1..EventRows
    BY <2>1 DEF Bin!RowIds
  <2>3. q[2] <= sub' => q[2] <= sub
    BY <1>1, <2>2
  <2> QED
    BY <2>1, <2>3 DEF BinBehind
<1>3. BinPosBehind' /\ BinNoDdlUpTo(cur)' /\ Bin!DdlNeverPassed'
  BY DEF BinIInv, BinPosBehind, BinNoDdlUpTo, Bin!DdlNeverPassed
<1>4. (sub > 0 => Binlog[cur + 1] = "rows" /\ known)' /\ (sub \in 0..EventRows - 1)'
  BY <1>1 DEF BinIInv
<1> QED
  BY <1>2, <1>3, <1>4 DEF BinIInv

LEMMA BinSavedFrame ==
  ASSUME BinSized, BinIInv, UNCHANGED <<saved, since>>, sent \subseteq sent',
         skipped \subseteq skipped',
         made' \in Nat, made <= made'
  PROVE  BinSavedBehind'
<1>1. made \in Nat /\ saved \in Bin!Positions \cup {Bin!None}
  BY DEF BinIInv, Bin!TypeOK, BinSized
<1>2. CASE saved = Bin!None
  BY <1>2 DEF BinSavedBehind
<1>3. CASE saved # Bin!None
  <2>1. Bin!Index(saved) \in Nat
    BY <1>1, <1>3, BinIndexOfPosition DEF BinSized
  <2>2. Bin!Index(saved) <= made /\ Bin!UpTo(saved) \subseteq sent \cup skipped
        /\ BinNoDdlUpTo(Bin!Index(saved))
    BY <1>3 DEF BinIInv, BinSavedBehind
  <2> QED
    BY <1>1, <2>1, <2>2 DEF BinSavedBehind, Bin!UpTo, BinNoDdlUpTo
<1> QED
  BY <1>2, <1>3

LEMMA BinInit_IInv ==
  ASSUME BinSized, Bin!Init
  PROVE  BinIInv
<1>1. Len(Binlog) \in Nat /\ 0 \in 0..Len(Binlog)
  BY DEF BinSized
<1>2. Bin!Index(Bin!End(0)) = 0 /\ Bin!End(0) \in Bin!Positions
  BY <1>1, BinIndexOfEnd DEF Bin!Positions
<1>3. Bin!TypeOK
  <2>1. fatal \in BOOLEAN /\ clean \in BOOLEAN /\ flight \subseteq sent /\ sent \subseteq Bin!RowIds
        /\ settled \subseteq sent /\ skipped \subseteq Bin!RowIds /\ known \in BOOLEAN
    BY DEF Bin!Init
  <2> QED
    BY <1>1, <1>2, <2>1 DEF Bin!Init, Bin!TypeOK, BinSized
<1>4. BinPosBehind
  BY <1>2 DEF Bin!Init, BinPosBehind
<1>5. BinBehind = {}
  BY DEF Bin!Init, BinBehind, Bin!RowIds, Bin!Events, BinSized
<1>6. BinNoDdlUpTo(cur) /\ BinSavedBehind /\ Bin!DdlNeverPassed /\ BinNothingElse
  BY DEF Bin!Init, BinNoDdlUpTo, BinSavedBehind, Bin!DdlNeverPassed, BinNothingElse
<1>7. BinBehind \subseteq sent /\ (stream = "off" => flight = {})
      /\ (sub > 0 => Binlog[cur + 1] = "rows" /\ known)
  BY <1>5 DEF Bin!Init
<1> QED
  BY <1>3, <1>4, <1>6, <1>7 DEF BinIInv

\* A process begins where the checkpoint points, or begins the chain anew.
LEMMA BinStart_IInv ==
  ASSUME BinSized, BinIInv, Bin!Start
  PROVE  BinIInv'
<1> DEFINE from == IF saved = Bin!None THEN made ELSE Bin!Index(saved)
<1>1. stream = "off" /\ cur' = from /\ begun' = from /\ pos' = Bin!End(from) /\ sub' = 0
      /\ stream' = "on" /\ fatal' = FALSE /\ flight' = {} /\ made' = made /\ saved' = saved
      /\ ends' = ends /\ known' = FALSE
  BY DEF Bin!Start
<1>2. CASE saved = Bin!None
  <2>1. since' = made /\ sent' = {} /\ settled' = {} /\ skipped' = {} /\ clean' = TRUE
        /\ from = made
    BY <1>2 DEF Bin!Start
  <2>2. made \in 0..Len(Binlog) /\ Len(Binlog) \in Nat
    BY DEF BinIInv, Bin!TypeOK, BinSized
  <2>3. Bin!Index(Bin!End(made)) = made /\ Bin!End(made) \in Bin!Positions
    BY <2>2, BinIndexOfEnd DEF Bin!Positions
  <2>4. Bin!TypeOK'
    <3>1. (fatal \in BOOLEAN /\ clean \in BOOLEAN /\ flight \subseteq sent
           /\ sent \subseteq Bin!RowIds
           /\ settled \subseteq sent /\ skipped \subseteq Bin!RowIds /\ known \in BOOLEAN)'
      BY <1>1, <2>1
    <3> QED
      BY <1>1, <2>1, <2>2, <2>3, <3>1 DEF BinIInv, Bin!TypeOK, BinSized
  <2>5. BinPosBehind'
    BY <1>1, <2>1, <2>2, <2>3 DEF BinPosBehind
  <2>6. BinBehind' = {}
    BY <1>1, <2>1, <2>2 DEF BinBehind, Bin!RowIds, Bin!Events, BinSized
  <2>7. BinNoDdlUpTo(cur)' /\ BinSavedBehind' /\ Bin!DdlNeverPassed' /\ BinNothingElse'
    BY <1>1, <1>2, <2>1, <2>2 DEF BinNoDdlUpTo, BinSavedBehind, Bin!DdlNeverPassed, BinNothingElse
  <2>8. (BinBehind \subseteq sent \cup skipped)' /\ (stream = "off" => flight = {})'
         /\ (sub > 0 => Binlog[cur + 1] = "rows" /\ known)'
    BY <1>1, <2>6
  <2> QED
    BY <2>4, <2>5, <2>7, <2>8 DEF BinIInv
<1>3. CASE saved # Bin!None
  <2>1. UNCHANGED <<since, sent, settled, skipped, clean>> /\ from = Bin!Index(saved)
    BY <1>3 DEF Bin!Start, Bin!chainVars
  <2>2. saved \in Bin!Positions /\ made \in 0..Len(Binlog) /\ Len(Binlog) \in Nat /\ flight = {}
    BY <1>1, <1>3 DEF BinIInv, Bin!TypeOK, BinSized
  <2>3. Bin!Index(saved) \in 0..Len(Binlog) /\ Bin!End(Bin!Index(saved)) = saved
    BY <2>2, BinIndexOfPosition
  <2>4. Bin!Index(saved) <= made /\ Bin!UpTo(saved) \subseteq sent \cup skipped
        /\ BinNoDdlUpTo(Bin!Index(saved))
    BY <1>3 DEF BinIInv, BinSavedBehind
  <2>5. Bin!TypeOK'
    <3>1. (fatal \in BOOLEAN /\ clean \in BOOLEAN /\ flight \subseteq sent
           /\ sent \subseteq Bin!RowIds
           /\ settled \subseteq sent /\ skipped \subseteq Bin!RowIds /\ known \in BOOLEAN)'
      BY <1>1, <2>1 DEF BinIInv, Bin!TypeOK
    <3> QED
      BY <1>1, <2>1, <2>2, <2>3, <2>4, <3>1 DEF BinIInv, Bin!TypeOK, BinSized
  <2>6. BinPosBehind'
    BY <1>1, <2>1, <2>2, <2>3 DEF BinPosBehind
  <2>7. BinBehind' \subseteq Bin!UpTo(saved)
    BY <1>1, <2>1, <2>2, <2>3 DEF BinBehind, Bin!UpTo, Bin!RowIds, Bin!Events, BinSized
  <2>8. BinNoDdlUpTo(cur)' /\ Bin!DdlNeverPassed' /\ BinNothingElse'
    BY <1>1, <2>1, <2>2, <2>4 DEF BinIInv, BinNoDdlUpTo, Bin!DdlNeverPassed, BinNothingElse
  <2>9. BinSavedBehind'
    BY <1>1, <2>1, <2>2, BinSavedFrame DEF BinIInv, Bin!TypeOK
  <2>10. (BinBehind \subseteq sent \cup skipped)' /\ (stream = "off" => flight = {})'
         /\ (sub > 0 => Binlog[cur + 1] = "rows" /\ known)'
    BY <1>1, <2>1, <2>4, <2>7
  <2> QED
    BY <2>5, <2>6, <2>8, <2>9, <2>10 DEF BinIInv
<1> QED
  BY <1>2, <1>3

\* A row is pushed behind all rows before it and no DDL.
LEMMA BinPushesRow_IInv ==
  ASSUME BinSized, BinIInv, Bin!PushesRow
  PROVE  BinIInv'
<1> DEFINE r == <<cur + 1, sub + 1>>
<1>1. cur < made /\ Binlog[cur + 1] = "rows" /\ stream # "off"
      /\ flight' = flight \cup {r} /\ sent' = sent \cup {r} /\ known' = TRUE
      /\ UNCHANGED <<made, stream, begun, fatal, saved, since, settled, skipped, clean, ends>>
  BY DEF Bin!PushesRow, Bin!Pushing, Bin!Handles, Bin!Reads, Bin!At
<1>2. \/ sub + 1 = EventRows /\ sub' = 0 /\ cur' = cur + 1
         /\ pos' = [pos EXCEPT !.off = Bin!End(cur + 1).off]
      \/ sub + 1 # EventRows /\ sub' = sub + 1 /\ cur' = cur /\ pos' = pos
  BY DEF Bin!PushesRow, Bin!At, Bin!AdvancesInFile
<1>3. made \in 0..Len(Binlog) /\ Len(Binlog) \in Nat /\ cur \in 0..made /\ sub \in 0..EventRows - 1
      /\ EventRows \in Nat \ {0} /\ begun \in 0..made /\ since \in 0..made /\ pos \in Bin!Positions
  BY DEF BinIInv, Bin!TypeOK, BinSized
<1>4. r \in Bin!RowIds
  BY <1>1, <1>3 DEF Bin!RowIds, Bin!Events
<1>5. pos' \in Bin!Positions /\ BinPosBehind'
  <2>1. CASE cur' = cur /\ pos' = pos
    BY <1>3, <2>1 DEF BinIInv, BinPosBehind
  <2>2. CASE cur' = cur + 1 /\ pos' = [pos EXCEPT !.off = Bin!End(cur + 1).off]
    <3>1. Bin!End(cur + 1).file = Bin!End(cur).file
      BY <1>1, <1>3, BinSameFile
    <3>2. pos.file = Bin!End(cur).file
      BY DEF BinIInv, BinPosBehind
    <3> PICK i \in 0..Len(Binlog) : pos = Bin!End(i)
      BY <1>3 DEF Bin!Positions
    <3>3. pos = [file |-> pos.file, off |-> pos.off]
      BY DEF Bin!End
    <3>4. pos' = Bin!End(cur + 1)
      BY <2>2, <3>1, <3>2, <3>3 DEF Bin!End
    <3>5. cur + 1 \in 0..Len(Binlog)
      BY <1>1, <1>3
    <3>6. Bin!Index(pos') = cur'
      BY <2>2, <3>4, <3>5, BinIndexOfEnd
    <3>7. pos' \in Bin!Positions
      BY <3>4, <3>5 DEF Bin!Positions
    <3>8. (pos.file = Bin!End(cur).file)'
      BY <2>2, <3>4 DEF Bin!End
    <3> QED
      BY <1>3, <2>2, <3>6, <3>7, <3>8 DEF BinPosBehind
  <2> QED
    BY <1>2, <2>1, <2>2
<1>6. Bin!TypeOK'
  <2>1. flight \subseteq sent /\ sent \subseteq Bin!RowIds /\ settled \subseteq sent
    BY DEF BinIInv, Bin!TypeOK
  <2>2. flight' \subseteq sent' /\ sent' \subseteq Bin!RowIds /\ settled' \subseteq sent'
    BY <1>1, <1>4, <2>1
  <2>3. cur' \in 0..made' /\ sub' \in 0..EventRows - 1 /\ known' \in BOOLEAN
    BY <1>1, <1>2, <1>3
  <2> QED
    BY <1>1, <1>5, <2>2, <2>3 DEF BinIInv, Bin!TypeOK
<1>7. (BinBehind \subseteq sent \cup skipped)'
  <2> SUFFICES ASSUME NEW q \in BinBehind' PROVE q \in sent \cup skipped \/ q = r
    BY <1>1
  <2>1. q \in Bin!RowIds /\ since < q[1] /\ (q[1] <= cur' \/ (q[1] = cur' + 1 /\ q[2] <= sub'))
    BY <1>1 DEF BinBehind
  <2>2. q[1] \in Nat /\ q[2] \in 1..EventRows /\ q = <<q[1], q[2]>>
    BY <2>1 DEF Bin!RowIds, Bin!Events
  <2>3. q \in BinBehind \/ (q[1] = cur + 1 /\ q[2] = sub + 1)
    BY <1>2, <1>3, <2>1, <2>2 DEF BinBehind
  <2> QED
    BY <2>2, <2>3 DEF BinIInv
<1>8. BinNoDdlUpTo(cur)'
  BY <1>1, <1>2, <1>3 DEF BinIInv, BinNoDdlUpTo
<1>9. Bin!DdlNeverPassed'
  <2> SUFFICES ASSUME NEW d \in Bin!Ddls, d > since
               PROVE  \A q \in sent \cup {r} : q[1] < d
    BY <1>1 DEF Bin!DdlNeverPassed
  <2>1. \A q \in sent : q[1] < d
    BY DEF BinIInv, Bin!DdlNeverPassed
  <2>2. d \in 1..Len(Binlog) /\ Binlog[d] \in {"ddl", "drop"}
    BY DEF Bin!Ddls, Bin!Events
  <2>4. ~(d <= cur) /\ d # cur + 1
    BY <1>1, <1>3, <2>2 DEF BinIInv, BinNoDdlUpTo
  <2>3. r[1] < d
    BY <1>3, <2>2, <2>4
  <2> QED
    BY <2>1, <2>3
<1>10. BinSavedBehind'
  BY <1>1, <1>3, BinSavedFrame
<1>11. BinNothingElse' /\ (stream = "off" => flight = {})'
       /\ (sub > 0 => Binlog[cur + 1] = "rows" /\ known)'
  BY <1>1, <1>2 DEF BinIInv, BinNothingElse
<1> QED
  BY <1>5, <1>6, <1>7, <1>8, <1>9, <1>10, <1>11 DEF BinIInv

\* Events that are passed, with or without the position: no row among them.
LEMMA BinPasses_IInv ==
  ASSUME BinSized, BinIInv, Bin!Advancing \/ Bin!Passing
  PROVE  BinIInv'
<1>1. cur < made /\ Binlog[cur + 1] \notin {"rows", "ddl", "drop"} /\ stream # "off"
      /\ cur' = cur + 1
      /\ UNCHANGED <<sub, made, stream, begun, known, fatal, flight, saved, since, sent, settled,
                     skipped, clean, ends>>
  BY DEF Bin!Advancing, Bin!Passing, Bin!Handles, Bin!Reads, Bin!At, Bin!Through, Bin!dump,
    Bin!NothingPushed, Bin!chainVars
<1>2. \/ pos' = Bin!End(cur + 1)
      \/ pos' = pos /\ Binlog[cur + 1] # "rotate"
  BY DEF Bin!Advancing, Bin!Passing, Bin!Handles, Bin!Advances, Bin!At
<1>3. made \in 0..Len(Binlog) /\ Len(Binlog) \in Nat /\ cur \in 0..made /\ sub \in 0..EventRows - 1
      /\ EventRows \in Nat \ {0} /\ begun \in 0..made /\ since \in 0..made /\ pos \in Bin!Positions
  BY DEF BinIInv, Bin!TypeOK, BinSized
<1>4. cur + 1 \in 0..Len(Binlog) /\ cur \in Nat
  BY <1>1, <1>3
<1>5. pos' \in Bin!Positions /\ BinPosBehind'
  <2>1. CASE pos' = Bin!End(cur + 1)
    BY <1>1, <1>4, <2>1, BinIndexOfEnd DEF Bin!Positions, BinPosBehind
  <2>2. CASE pos' = pos /\ Binlog[cur + 1] # "rotate"
    <3>1. Bin!End(cur + 1).file = Bin!End(cur).file
      BY <1>4, <2>2, BinSameFile
    <3>2. Bin!Index(pos) \in Nat
      BY <1>3, BinIndexOfPosition
    <3> QED
      BY <1>1, <1>3, <2>2, <3>1, <3>2 DEF BinIInv, BinPosBehind
  <2> QED
    BY <1>2, <2>1, <2>2
<1>6. Bin!TypeOK'
  <2>1. (fatal \in BOOLEAN /\ clean \in BOOLEAN /\ flight \subseteq sent
         /\ sent \subseteq Bin!RowIds
         /\ settled \subseteq sent /\ skipped \subseteq Bin!RowIds /\ known \in BOOLEAN)'
    BY <1>1 DEF BinIInv, Bin!TypeOK
  <2> QED
    BY <1>1, <1>3, <1>5, <2>1 DEF BinIInv, Bin!TypeOK
<1>7. (BinBehind \subseteq sent \cup skipped)'
  <2> SUFFICES ASSUME NEW q \in BinBehind' PROVE q \in BinBehind
    BY <1>1 DEF BinIInv
  <2>1. q \in Bin!RowIds /\ since < q[1] /\ (q[1] <= cur + 1 \/ (q[1] = cur + 2 /\ q[2] <= sub))
    BY <1>1, <1>3 DEF BinBehind
  <2>2. q[1] \in Nat /\ q[2] \in 1..EventRows /\ Binlog[q[1]] = "rows"
    BY <2>1 DEF Bin!RowIds, Bin!Events
  <2>3. q[1] # cur + 1
    BY <1>1, <2>2
  <2>4. sub = 0
    BY <1>1, <1>3 DEF BinIInv
  <2> QED
    BY <1>3, <2>1, <2>2, <2>3, <2>4 DEF BinBehind
<1>8. BinNoDdlUpTo(cur)' /\ Bin!DdlNeverPassed'
  BY <1>1, <1>3 DEF BinIInv, BinNoDdlUpTo, Bin!DdlNeverPassed
<1>9. BinSavedBehind'
  BY <1>1, <1>3, BinSavedFrame
<1>10. BinNothingElse' /\ (stream = "off" => flight = {})'
       /\ (sub > 0 => Binlog[cur + 1] = "rows" /\ known)'
  BY <1>1, <1>3 DEF BinIInv, BinNothingElse
<1> QED
  BY <1>5, <1>6, <1>7, <1>8, <1>9, <1>10 DEF BinIInv

\* Rows of a table that is gone are dropped: what canal is through with grows by
\* them, the position does not.
LEMMA BinSkipsRows_IInv ==
  ASSUME BinSized, BinIInv, Bin!SkipsRows
  PROVE  BinIInv'
<1>1. cur < made /\ Binlog[cur + 1] = "rows" /\ stream # "off" /\ ~known /\ cur' = cur + 1
      /\ skipped' = skipped \cup ({cur + 1} \X (1..EventRows))
      /\ UNCHANGED <<sub, made, stream, begun, known, pos, fatal, flight, saved, since, sent,
                     settled, clean, ends>>
  BY DEF Bin!SkipsRows, Bin!Handles, Bin!Reads, Bin!At, Bin!Through, Bin!dump
<1>2. made \in 0..Len(Binlog) /\ Len(Binlog) \in Nat /\ cur \in 0..made /\ sub \in 0..EventRows - 1
      /\ EventRows \in Nat \ {0} /\ begun \in 0..made /\ since \in 0..made /\ pos \in Bin!Positions
  BY DEF BinIInv, Bin!TypeOK, BinSized
<1>3. sub = 0
  BY <1>1, <1>2 DEF BinIInv
<1>4. Bin!TypeOK'
  <2>1. {cur + 1} \X (1..EventRows) \subseteq Bin!RowIds
    BY <1>1, <1>2 DEF Bin!RowIds, Bin!Events
  <2>2. (fatal \in BOOLEAN /\ clean \in BOOLEAN /\ flight \subseteq sent
         /\ sent \subseteq Bin!RowIds
         /\ settled \subseteq sent /\ skipped \subseteq Bin!RowIds /\ known \in BOOLEAN)'
    BY <1>1, <2>1 DEF BinIInv, Bin!TypeOK
  <2> QED
    BY <1>1, <1>2, <2>2 DEF BinIInv, Bin!TypeOK
<1>5. BinPosBehind'
  <2>1. Bin!End(cur + 1).file = Bin!End(cur).file
    BY <1>1, <1>2, BinSameFile
  <2>2. Bin!Index(pos) \in Nat
    BY <1>2, BinIndexOfPosition
  <2> QED
    BY <1>1, <1>2, <2>1, <2>2 DEF BinIInv, BinPosBehind
<1>6. (BinBehind \subseteq sent \cup skipped)'
  <2> SUFFICES ASSUME NEW q \in BinBehind' PROVE q \in sent \cup skipped'
    BY <1>1
  <2>1. q \in Bin!RowIds /\ since < q[1] /\ (q[1] <= cur + 1 \/ (q[1] = cur + 2 /\ q[2] <= 0))
    BY <1>1, <1>2, <1>3 DEF BinBehind
  <2>2. q[1] \in Nat /\ q[2] \in 1..EventRows /\ q = <<q[1], q[2]>>
    BY <2>1 DEF Bin!RowIds, Bin!Events
  <2>3. q \in BinBehind \/ q[1] = cur + 1
    BY <1>2, <2>1, <2>2 DEF BinBehind
  <2> QED
    BY <1>1, <2>2, <2>3 DEF BinIInv
<1>7. BinNoDdlUpTo(cur)' /\ Bin!DdlNeverPassed'
  BY <1>1, <1>2 DEF BinIInv, BinNoDdlUpTo, Bin!DdlNeverPassed
<1>8. BinSavedBehind'
  BY <1>1, <1>2, BinSavedFrame
<1>9. BinNothingElse' /\ (stream = "off" => flight = {})'
      /\ (sub > 0 => Binlog[cur + 1] = "rows" /\ known)'
  BY <1>1, <1>3 DEF BinIInv, BinNothingElse
<1> QED
  BY <1>4, <1>5, <1>6, <1>7, <1>8, <1>9 DEF BinIInv

\* Steps canal takes no part in and that save nothing.
LEMMA BinQuiet_IInv ==
  ASSUME BinSized, BinIInv,
         UNCHANGED <<cur, pos, since, sent, skipped, known, saved>>, sub' \in {sub, 0},
         \/ Bin!SourceWrites \/ Bin!CannotDecode \/ Bin!GateHalts \/ Bin!StreamFails \/ Bin!Settles
         \/ Bin!Signal \/ Bin!Closes \/ Bin!Killed
  PROVE  BinIInv'
<1>1. made' \in 0..Len(Binlog) /\ made <= made' /\ made \in 0..Len(Binlog) /\ Len(Binlog) \in Nat
  <2>1. made \in 0..Len(Binlog) /\ Len(Binlog) \in Nat
    BY DEF BinIInv, Bin!TypeOK, BinSized
  <2>2. made' = made \/ (made < Len(Binlog) /\ made' = made + 1)
    BY DEF Bin!SourceWrites, Bin!CannotDecode, Bin!GateHalts, Bin!StreamFails, Bin!Settles,
      Bin!Signal, Bin!Closes, Bin!Killed, Bin!Gone
  <2> QED
    BY <2>1, <2>2
<1>2. Bin!TypeOK'
  <2>1. (fatal \in BOOLEAN /\ clean \in BOOLEAN)'
    BY DEF BinIInv, Bin!TypeOK, Bin!SourceWrites, Bin!CannotDecode, Bin!GateHalts,
      Bin!StreamFails, Bin!Settles, Bin!Signal, Bin!Closes, Bin!Killed, Bin!Gone, Bin!chainVars,
      Bin!dump
  <2>2. (flight \subseteq sent /\ sent \subseteq Bin!RowIds /\ settled \subseteq sent
         /\ skipped \subseteq Bin!RowIds /\ known \in BOOLEAN)'
    BY DEF BinIInv, Bin!TypeOK, Bin!SourceWrites, Bin!CannotDecode, Bin!GateHalts,
      Bin!StreamFails, Bin!Settles, Bin!Signal, Bin!Closes, Bin!Killed, Bin!Gone, Bin!chainVars,
      Bin!dump
  <2>3. (stream \in {"off", "on", "closing", "ended"})' /\ (ends \in 0..MaxEnds)' /\ begun' = begun
    <3>1. stream \in {"off", "on", "closing", "ended"} /\ ends \in 0..MaxEnds /\ MaxEnds \in Nat
      BY DEF BinIInv, Bin!TypeOK, BinSized
    <3>2. stream' \in {stream, "ended", "closing", "off"} /\ begun' = begun
          /\ (ends' = ends \/ (ends < MaxEnds /\ ends' = ends + 1))
      BY DEF Bin!SourceWrites, Bin!CannotDecode, Bin!GateHalts, Bin!StreamFails, Bin!Settles,
        Bin!Signal, Bin!Closes, Bin!Killed, Bin!Gone, Bin!chainVars, Bin!dump
    <3> QED
      BY <3>1, <3>2
  <2>4. (cur \in 0..made /\ begun \in 0..made /\ since \in 0..made)'
    BY <1>1, <2>3 DEF BinIInv, Bin!TypeOK
  <2>5. (sub \in 0..EventRows - 1 /\ pos \in Bin!Positions
         /\ saved \in Bin!Positions \cup {Bin!None})'
    BY BinCanalFrame DEF BinIInv, Bin!TypeOK
  <2> QED
    BY <1>1, <2>1, <2>2, <2>3, <2>4, <2>5 DEF Bin!TypeOK
<1>3. BinSavedBehind'
  BY <1>1, BinSavedFrame
<1>4. BinNothingElse'
  BY DEF BinIInv, BinNothingElse, Bin!SourceWrites, Bin!CannotDecode, Bin!GateHalts,
    Bin!StreamFails, Bin!Settles, Bin!Signal, Bin!Closes, Bin!Killed, Bin!Gone, Bin!chainVars,
      Bin!dump
<1>5. (stream = "off" => flight = {})'
  BY DEF BinIInv, Bin!TypeOK, Bin!SourceWrites, Bin!CannotDecode, Bin!GateHalts,
    Bin!StreamFails, Bin!Settles, Bin!Signal, Bin!Closes, Bin!Killed, Bin!Gone, Bin!chainVars,
      Bin!dump
<1> QED
  BY <1>2, <1>3, <1>4, <1>5, BinCanalFrame DEF BinIInv

\* Steps that save the position.
LEMMA BinSaves_IInv ==
  ASSUME BinSized, BinIInv, Bin!Ticks \/ Bin!Drained \/ Bin!LeavesRows
  PROVE  BinIInv'
<1>1. Bin!Save /\ sub' \in {sub, 0}
      /\ UNCHANGED <<cur, pos, since, sent, skipped, made, begun, known, fatal, settled>>
  BY DEF Bin!Ticks, Bin!Drained, Bin!LeavesRows, Bin!Gone, Bin!chainVars, Bin!dump
<1>2. \/ UNCHANGED <<stream, flight, clean, ends>>
      \/ /\ stream' = "off" /\ flight' = {} /\ ends < MaxEnds /\ ends' = ends + 1
         /\ clean' = FALSE \/ (flight = {} /\ clean' = clean)
  <2>1. CASE Bin!Ticks
    BY <2>1 DEF Bin!Ticks, Bin!chainVars
  <2>2. CASE Bin!Drained
    <3>1. clean \in BOOLEAN
      BY DEF BinIInv, Bin!TypeOK
    <3> QED
      BY <2>2, <3>1 DEF Bin!Drained, Bin!Gone
  <2>3. CASE Bin!LeavesRows
    BY <2>3 DEF Bin!LeavesRows, Bin!Gone
  <2> QED
    BY <2>1, <2>2, <2>3
<1>3. BinSavedBehind' /\ saved' \in Bin!Positions
  BY <1>1, BinSavesAreBehind DEF BinSavedBehind, Bin!UpTo, BinNoDdlUpTo
<1>4. Bin!TypeOK'
  <2>1. (fatal \in BOOLEAN /\ clean \in BOOLEAN /\ flight \subseteq sent
         /\ sent \subseteq Bin!RowIds
         /\ settled \subseteq sent /\ skipped \subseteq Bin!RowIds /\ known \in BOOLEAN)'
    BY <1>1, <1>2 DEF BinIInv, Bin!TypeOK
  <2>2. (stream \in {"off", "on", "closing", "ended"})' /\ (ends \in 0..MaxEnds)'
    BY <1>2 DEF BinIInv, Bin!TypeOK, BinSized
  <2> QED
    BY <1>1, <1>3, <2>1, <2>2, BinCanalFrame DEF BinIInv, Bin!TypeOK
<1>5. BinNothingElse' /\ (stream = "off" => flight = {})'
  BY <1>1, <1>2 DEF BinIInv, BinNothingElse
<1> QED
  BY <1>1, <1>3, <1>4, <1>5, BinCanalFrame DEF BinIInv

LEMMA BinNext_IInv ==
  ASSUME BinSized, BinIInv, [Bin!Next]_(Bin!vars)
  PROVE  BinIInv'
<1>1. CASE Bin!Start
  BY <1>1, BinStart_IInv
<1>2. CASE Bin!PushesRow
  BY <1>2, BinPushesRow_IInv
<1>7. CASE Bin!SkipsRows
  BY <1>7, BinSkipsRows_IInv
<1>3. CASE Bin!Advancing \/ Bin!Passing
  BY <1>3, BinPasses_IInv
<1>4. CASE Bin!Ticks \/ Bin!Drained \/ Bin!LeavesRows
  BY <1>4, BinSaves_IInv
<1>5. CASE Bin!SourceWrites \/ Bin!CannotDecode \/ Bin!GateHalts \/ Bin!StreamFails \/ Bin!Settles
           \/ Bin!Signal \/ Bin!Closes \/ Bin!Killed
  <2>1. UNCHANGED <<cur, pos, since, sent, skipped, known, saved>> /\ sub' \in {sub, 0}
    BY <1>5 DEF Bin!SourceWrites, Bin!CannotDecode, Bin!GateHalts, Bin!StreamFails, Bin!Settles,
      Bin!Signal, Bin!Closes, Bin!Killed, Bin!Gone, Bin!chainVars, Bin!dump
  <2> QED
    BY <1>5, <2>1, BinQuiet_IInv
<1>6. CASE UNCHANGED Bin!vars
  BY <1>6 DEF Bin!vars, Bin!chainVars, Bin!dump, BinIInv, Bin!TypeOK, BinPosBehind, BinBehind,
    BinNoDdlUpTo, BinSavedBehind, Bin!UpTo, Bin!DdlNeverPassed, BinNothingElse
<1> QED
  BY <1>1, <1>2, <1>3, <1>4, <1>5, <1>6, <1>7 DEF Bin!Next

-----------------------------------------------------------------------------
(* The theorems of the parts, for the whole of each specification. *)

LEMMA BinInductive ==
  ASSUME BinSized
  PROVE  Bin!Spec => []BinIInv
<1>1. Bin!Init => BinIInv
  BY BinInit_IInv
<1>2. BinIInv /\ [Bin!Next]_(Bin!vars) => BinIInv'
  BY BinNext_IInv
<1> QED
  BY <1>1, <1>2, PTL DEF Bin!Spec

LEMMA BinConcludes ==
  ASSUME BinIInv
  PROVE  Bin!TypeOK /\ Bin!SavedWasSent /\ Bin!DdlNeverPassed /\ Bin!CleanEndSettles
<1>1. ASSUME stream = "off", clean, saved # Bin!None
      PROVE  Bin!UpTo(saved) \subseteq settled \cup skipped
  <2>1. Bin!UpTo(saved) \subseteq sent \cup skipped
    BY <1>1 DEF BinIInv, BinSavedBehind
  <2>2. sent \subseteq settled \cup flight /\ flight = {}
    BY <1>1 DEF BinIInv, BinNothingElse
  <2> QED
    BY <2>1, <2>2
<1> QED
  BY <1>1 DEF BinIInv, BinSavedBehind, Bin!SavedWasSent, Bin!CleanEndSettles

\* The types of the MySQL stream's variables (canalStreamer, BinlogRunner).
THEOREM BinlogTypeCorrect == ASSUME BinSized PROVE Bin!Spec => []Bin!TypeOK
  BY BinInductive, BinConcludes, PTL

\* The checkpoint of the MySQL stream is never ahead of what was pushed, but for rows
\* of a table that was gone when canal asked for its structure, through any number
\* of ends and starts (OnRow advances behind its rows, handleRowsEvent drops those).
THEOREM BinlogSavedWasSent == ASSUME BinSized PROVE Bin!Spec => []Bin!SavedWasSent
  BY BinInductive, BinConcludes, PTL

\* No row behind a DDL of the target database is pushed after the chain's start
\* (gateDDLQuery).
THEOREM BinlogDdlNeverPassed == ASSUME BinSized PROVE Bin!Spec => []Bin!DdlNeverPassed
  BY BinInductive, BinConcludes, PTL

\* Where every end was in order, all rows up to the checkpoint are settled but for
\* those dropped because their table was gone (Run saves after the applier has
\* drained the closed channel).
THEOREM BinlogCleanEndSettles == ASSUME BinSized PROVE Bin!Spec => []Bin!CleanEndSettles
  BY BinInductive, BinConcludes, PTL

LEMMA ConvInductive == ASSUME ConvKeyed PROVE Conv!Spec => []ConvInv
<1>1. ConvInv /\ [Conv!Next]_(Conv!vars) => ConvInv'
  BY ConvNextStep, ConvStutterStep
<1> QED
  BY <1>1, ConvInitInv, PTL DEF Conv!Spec

\* However often the worker goes back to an older checkpoint and repeats row events,
\* at the end of the log every row is the source's, but for rows whose key was moved
\* and those lost to a duplicate or a transient error (applyBatchInTx, writeInsert).
THEOREM RepeatedRowsConverge == ASSUME ConvKeyed PROVE Conv!Spec => []Conv!RowsConverge
  BY ConvInductive, ConvConverged, PTL

LEMMA DdlInductive == Ddl!Spec => [](DdlInv /\ DdlStepped)
<1>1. DdlInv /\ DdlStepped /\ [Ddl!Next]_(Ddl!vars) => (DdlInv /\ DdlStepped)'
  BY DdlNextStep, DdlStutterStep, DdlSteppedStep
<1> QED
  BY <1>1, DdlInitInv, DdlInitStepped, PTL DEF Ddl!Spec

\* When the poller is through its log, a table of which no statement went unseen has
\* the source's columns, whatever was repeated after a restart, skipped or left out
\* as a rider (runDDLPoller).
THEOREM DdlSchemaFollows == Ddl!Spec => []Ddl!SchemaFollows
  BY DdlInductive, DdlConcludes, PTL

\* The cursor of the DDL channel, in memory and on disk, passes no logged statement
\* that was neither executed nor marked as skipped, halts, lost answers and kills
\* included, but for one committed behind it (runDDLPoller, FetchNewDDL).
THEOREM DdlNoneSteppedOver == Ddl!Spec => []Ddl!NoneSteppedOver
  BY DdlInductive, DdlConcludes, PTL

\* The error that halts the process at every restart, a duplicate column, is only met
\* by a statement the target executed before (isDegradableError, shouldApplyDDL).
THEOREM DdlDuplicateIsReplay == Ddl!Spec => []Ddl!DuplicateIsReplay
  BY DdlInductive, DdlConcludes, PTL

\* Rows and statements come on two channels; where both are through, the order
\* between them has cost a table no row that was not counted (handleEvent).
THEOREM DdlRowsFollow == Ddl!Spec => []Ddl!RowsFollow
  BY DdlInductive, DdlConcludes, PTL

LEMMA ChainInductive == ASSUME ChainSized, ChainSlot PROVE Chain!Spec => []ChainInv
<1>1. ChainInv /\ [Chain!Next]_(Chain!vars) => ChainInv'
  BY ChainNextStep, ChainStutterStep
<1> QED
  BY <1>1, ChainInitInv, PTL DEF Chain!Spec

\* A target that was loaded and has caught up misses nothing written between the
\* reading of a table and the start of the process, but for the excuses the property
\* names (seedChainCheckpoint, startCDCChainAfterSuccess).
THEOREM ChainNothingBetween ==
  ASSUME ChainSized, ChainSlot
  PROVE  Chain!Spec => []Chain!NothingBetween
  BY ChainInductive, ChainCaughtUpHolds, PTL

-----------------------------------------------------------------------------
(* The sum: a part keeps its invariant and the others do not touch it. *)

LEMMA Assumed == ConvKeyed /\ BinSized /\ ChainSized
  BY SyncAssumption DEF ConvKeyed, BinSized, ChainSized

LEMMA PartStays == [Next]_vars => UNCHANGED part
  BY DEF Next, vars

LEMMA RowsInvariant == Spec => [](On("rows") => ConvInv)
<1>1. Init => (On("rows") => ConvInv)
  BY ConvInitInv DEF Init, On
<1>2. (On("rows") => ConvInv) /\ [Next]_vars => (On("rows") => ConvInv)'
  <2> SUFFICES ASSUME On("rows"), ConvInv, [Next]_vars PROVE ConvInv'
    BY PartStays DEF On
  <2>1. Conv!Next \/ UNCHANGED vars
    BY DEF Next, On
  <2>2. UNCHANGED vars => UNCHANGED Conv!vars
    BY DEF vars, convVars, Conv!vars
  <2> QED
    BY <2>1, <2>2, Assumed, ConvNextStep, ConvStutterStep
<1> QED
  BY <1>1, <1>2, PTL DEF Spec

LEMMA DdlInvariant == Spec => [](part \in {"table", "tables"} => DdlInv /\ DdlStepped)
<1> DEFINE P == part \in {"table", "tables"}
<1>1. Init => (P => DdlInv /\ DdlStepped)
  BY DdlInitInv, DdlInitStepped DEF Init
<1>2. (P => DdlInv /\ DdlStepped) /\ [Next]_vars => (P => DdlInv /\ DdlStepped)'
  <2> SUFFICES ASSUME P, DdlInv, DdlStepped, [Next]_vars PROVE (DdlInv /\ DdlStepped)'
    BY PartStays
  <2>1. Ddl!Next \/ UNCHANGED vars
    BY DEF Next, On
  <2>2. UNCHANGED vars => UNCHANGED Ddl!vars
    BY DEF vars, ddlVars, Ddl!vars, Ddl!logVars, Ddl!srcVars, Ddl!pollVars, Ddl!rowVars
  <2> QED
    BY <2>1, <2>2, DdlNextStep, DdlStutterStep, DdlSteppedStep
<1> QED
  BY <1>1, <1>2, PTL DEF Spec

LEMMA BinlogInvariant == Spec => [](On("binlog") => BinIInv)
<1>1. Init => (On("binlog") => BinIInv)
  BY Assumed, BinInit_IInv DEF Init, On
<1>2. (On("binlog") => BinIInv) /\ [Next]_vars => (On("binlog") => BinIInv)'
  <2> SUFFICES ASSUME On("binlog"), BinIInv, [Next]_vars PROVE BinIInv'
    BY PartStays DEF On
  <2>1. Bin!Next \/ UNCHANGED vars
    BY DEF Next, On
  <2>2. UNCHANGED vars => UNCHANGED Bin!vars
    BY DEF vars, binVars, Bin!vars, Bin!chainVars, Bin!dump
  <2> QED
    BY <2>1, <2>2, Assumed, BinNext_IInv
<1> QED
  BY <1>1, <1>2, PTL DEF Spec

LEMMA ChainInvariant == ASSUME ChainSlot PROVE Spec => [](On("chain") => ChainInv)
<1>1. Init => (On("chain") => ChainInv)
  BY Assumed, ChainInitInv DEF Init, On
<1>2. (On("chain") => ChainInv) /\ [Next]_vars => (On("chain") => ChainInv)'
  <2> SUFFICES ASSUME On("chain"), ChainInv, [Next]_vars PROVE ChainInv'
    BY PartStays DEF On
  <2>1. Chain!Next \/ UNCHANGED vars
    BY DEF Next, On
  <2>2. UNCHANGED vars => UNCHANGED Chain!vars
    BY DEF vars, chainVars, Chain!vars
  <2> QED
    BY <2>1, <2>2, Assumed, ChainNextStep, ChainStutterStep
<1> QED
  BY <1>1, <1>2, PTL DEF Spec

\* Rows converge, for any keys, strategies, bounds and number of rewinds, as
\* RepeatedRowsConverge has it of the part.
THEOREM SyncRowsConverge == Spec => []RowsConverge
<1>1. (On("rows") => ConvInv) => RowsConverge
  BY ConvConverged DEF RowsConverge, ConvInv
<1> QED
  BY <1>1, RowsInvariant, PTL

\* The target follows the statements and loses no row uncounted, for any number of
\* tables, operations and restarts (runDDLPoller beside the row stream).
THEOREM SyncDdlFollows == Spec => []DdlFollows
<1>1. (part \in {"table", "tables"} => DdlInv /\ DdlStepped) => DdlFollows
  BY DdlConcludes DEF DdlFollows
<1> QED
  BY <1>1, DdlInvariant, PTL

\* The checkpoint of the MySQL stream steps over no DDL and no row but those of a
\* table that is gone, for any binlog, rows of an event and ends of the process
\* (OnRow, handleRowsEvent, gateDDLQuery, Run).
THEOREM SyncBinlogSound == Spec => []BinlogSound
<1>1. (On("binlog") => BinIInv) => BinlogSound
  BY BinConcludes DEF BinlogSound
<1> QED
  BY <1>1, BinlogInvariant, PTL

\* No write between the reading of a table and the start of the process is missing
\* where config.yaml names the slot of the load, for any tables, writes, loads and
\* starts (seedChainCheckpoint).
THEOREM SyncChainLossless == ASSUME ChainSlot PROVE Spec => []ChainLossless
<1>1. (On("chain") => ChainInv) => ChainLossless
  BY Assumed, ChainCaughtUpHolds DEF ChainLossless, ChainInv
<1> QED
  BY <1>1, ChainInvariant, PTL

-----------------------------------------------------------------------------
(* The comparison, on tables at rest and under change, and the watermark sync *)
(* have their proofs in a module of their own; the numbers of the comparison  *)
(* do not concern the watermark sync, so that either instance has its proofs. *)

RestP == INSTANCE Tables_proofs WITH MaxKey <- 3, MaxVal <- 2, ChunkSize <- 2,
  CountSize <- 2, DrillSize <- 1, Setups <- Compared, Contents <- {0, 1}, MaxMoves <- 0,
  JobSetups <- Setups

BusyP == INSTANCE Tables_proofs WITH MaxKey <- 2, MaxVal <- 2, ChunkSize <- 1,
  CountSize <- 1, DrillSize <- 1, Setups <- Moved, Contents <- {0, 1}, MaxMoves <- 2,
  JobSetups <- Setups

-----------------------------------------------------------------------------
(* The watermark sync. *)

\* The module and its proofs have the same definitions.
LEMMA SameSyncNames == Inc!vars = RestP!Inc!vars /\ Inc!Setup = RestP!Inc!Setup
  BY DEF Inc!vars, RestP!Inc!vars, Inc!Setup, RestP!Inc!Setup, Inc!Wms, RestP!Inc!Wms

LEMMA SameSyncInit == Inc!Init <=> RestP!Inc!Init
  BY DEF Inc!Init, RestP!Inc!Init, Inc!Wms, RestP!Inc!Wms, Inc!None, RestP!Inc!None,
    Inc!Idle, RestP!Inc!Idle, Inc!Empty, RestP!Inc!Empty, Inc!Max, RestP!Inc!Max

LEMMA SameSyncNext == Inc!Next <=> RestP!Inc!Next
<1>1. Inc!SourceWrites <=> RestP!Inc!SourceWrites
  BY DEF Inc!SourceWrites, RestP!Inc!SourceWrites, Inc!job, RestP!Inc!job, Inc!Max,
    RestP!Inc!Max
<1>2. (Inc!SourceDeletes <=> RestP!Inc!SourceDeletes) /\ (Inc!Edits <=> RestP!Inc!Edits)
      /\ (Inc!Resets <=> RestP!Inc!Resets) /\ (Inc!Begins <=> RestP!Inc!Begins)
  BY DEF Inc!SourceDeletes, RestP!Inc!SourceDeletes, Inc!Edits, RestP!Inc!Edits, Inc!Resets,
    RestP!Inc!Resets, Inc!Begins, RestP!Inc!Begins, Inc!job, RestP!Inc!job, Inc!source,
    RestP!Inc!source, Inc!Live, RestP!Inc!Live, Inc!Wm, RestP!Inc!Wm, Inc!Idle,
    RestP!Inc!Idle, Inc!Empty, RestP!Inc!Empty
<1>3. Inc!ProbesMin <=> RestP!Inc!ProbesMin
  BY DEF Inc!ProbesMin, RestP!Inc!ProbesMin, Inc!job, RestP!Inc!job, Inc!source,
    RestP!Inc!source, Inc!Live, RestP!Inc!Live, Inc!Wm, RestP!Inc!Wm, Inc!Idle,
    RestP!Inc!Idle, Inc!Empty, RestP!Inc!Empty, Inc!Min, RestP!Inc!Min
<1>4. Inc!Scans <=> RestP!Inc!Scans
  BY DEF Inc!Scans, RestP!Inc!Scans, Inc!job, RestP!Inc!job, Inc!source, RestP!Inc!source,
    Inc!Live, RestP!Inc!Live, Inc!Wm, RestP!Inc!Wm, Inc!Within, RestP!Inc!Within, Inc!Strict,
    RestP!Inc!Strict, Inc!IsBatch, RestP!Inc!IsBatch, Inc!BatchSize, RestP!Inc!BatchSize,
    Inc!Min, RestP!Inc!Min, Inc!Max, RestP!Inc!Max, Inc!Cardinality, RestP!Inc!Cardinality
<1>5. (Inc!WritesBatch <=> RestP!Inc!WritesBatch) /\ (Inc!Drains <=> RestP!Inc!Drains)
  BY DEF Inc!WritesBatch, RestP!Inc!WritesBatch, Inc!Drains, RestP!Inc!Drains, Inc!Takes,
    RestP!Inc!Takes, Inc!CursorStep, RestP!Inc!CursorStep, Inc!Saturated, RestP!Inc!Saturated,
    Inc!job, RestP!Inc!job, Inc!source, RestP!Inc!source, Inc!Live, RestP!Inc!Live, Inc!Wm,
    RestP!Inc!Wm, Inc!BatchSize, RestP!Inc!BatchSize, Inc!None, RestP!Inc!None, Inc!Empty,
    RestP!Inc!Empty, Inc!Cardinality, RestP!Inc!Cardinality
<1>6. Inc!Jumps <=> RestP!Inc!Jumps
  BY DEF Inc!Jumps, RestP!Inc!Jumps, Inc!AfterJump, RestP!Inc!AfterJump, Inc!Live,
    RestP!Inc!Live, Inc!Wm, RestP!Inc!Wm, Inc!source, RestP!Inc!source, Inc!job,
    RestP!Inc!job, Inc!Min, RestP!Inc!Min
<1>7. (Inc!Ends <=> RestP!Inc!Ends) /\ (Inc!Breaks <=> RestP!Inc!Breaks)
      /\ (Inc!BatchFails <=> RestP!Inc!BatchFails)
  BY DEF Inc!Ends, RestP!Inc!Ends, Inc!Breaks, RestP!Inc!Breaks, Inc!BatchFails,
    RestP!Inc!BatchFails, Inc!Takes, RestP!Inc!Takes, Inc!Idle, RestP!Inc!Idle, Inc!Empty,
    RestP!Inc!Empty, Inc!Live, RestP!Inc!Live, Inc!Wm, RestP!Inc!Wm, Inc!source,
    RestP!Inc!source, Inc!job, RestP!Inc!job, Inc!None, RestP!Inc!None
<1> QED
  BY <1>1, <1>2, <1>3, <1>4, <1>5, <1>6, <1>7 DEF Inc!Next, RestP!Inc!Next

LEMMA SameSyncProperties ==
  /\ Inc!TypeOK <=> RestP!Inc!TypeOK
  /\ Inc!RunCopies <=> RestP!Inc!RunCopies
  /\ Inc!NoneBehind <=> RestP!Inc!NoneBehind
  /\ Inc!AlwaysForward <=> RestP!Inc!AlwaysForward
<1>1. Inc!TypeOK <=> RestP!Inc!TypeOK
  BY DEF Inc!TypeOK, RestP!Inc!TypeOK, Inc!Setup, RestP!Inc!Setup, Inc!Wms, RestP!Inc!Wms,
    Inc!Batch, RestP!Inc!Batch, Inc!None, RestP!Inc!None
<1>2. /\ Inc!RunCopies <=> RestP!Inc!RunCopies
      /\ Inc!NoneBehind <=> RestP!Inc!NoneBehind
      /\ Inc!AlwaysForward <=> RestP!Inc!AlwaysForward
  BY DEF Inc!RunCopies, RestP!Inc!RunCopies, Inc!NoneBehind, RestP!Inc!NoneBehind,
    Inc!AlwaysForward, RestP!Inc!AlwaysForward, Inc!Live, RestP!Inc!Live, Inc!Wm,
    RestP!Inc!Wm, Inc!Copied, RestP!Inc!Copied
<1> QED
  BY <1>1, <1>2

LEMMA IncrementalInvariant == Spec => [](part \in {"few", "many"} => RestP!IncIInv)
<1> DEFINE P == part \in {"few", "many"}
<1>1. RestP!IncSized
  <2>1. RestP!IsFiniteSet(JobRows) /\ JobRows # {}
    BY SyncAssumption DEF RestP!IsFiniteSet, IsFiniteSet
  <2>2. MaxWm \in Nat /\ JobWrites \in Nat /\ MaxRuns \in Nat
    BY SyncAssumption
  <2>3. Setups \subseteq RestP!Inc!Setup
    BY SyncAssumption, SameSyncNames
  <2> QED
    BY <2>1, <2>2, <2>3 DEF RestP!IncSized
<1>2. Init => (P => RestP!IncIInv)
  BY <1>1, SameSyncInit, RestP!IncInitIInv DEF Init
<1>3. (P => RestP!IncIInv) /\ [Next]_vars => (P => RestP!IncIInv)'
  <2> SUFFICES ASSUME P, RestP!IncIInv, [Next]_vars PROVE RestP!IncIInv'
    BY PartStays
  <2>1. Inc!Next \/ UNCHANGED vars
    BY DEF Next, On
  <2>2. UNCHANGED vars => UNCHANGED Inc!vars
    BY DEF vars, incVars, Inc!vars
  <2>3. CASE Inc!Next
    <3>1. RestP!Inc!Next
      BY <2>3, SameSyncNext
    <3> QED
      BY <1>1, <3>1, RestP!IncInductive
  <2>4. CASE UNCHANGED vars
    <3>1. Inc!vars' = Inc!vars
      BY <2>2, <2>4
    <3>2. RestP!Inc!vars' = RestP!Inc!vars
      BY <3>1 DEF Inc!vars, RestP!Inc!vars
    <3> QED
      BY <1>1, <3>2, RestP!IncInductive
  <2> QED
    BY <2>1, <2>3, <2>4
<1> QED
  BY <1>2, <1>3, PTL DEF Spec

\* A run of the watermark sync misses none of the rows it has to read, the saved
\* watermark has none behind it and no scan repeats the one before but once, where its
\* cursor was spelt otherwise, for any rows, watermarks, batch sizes, configurations,
\* writes and runs (syncOneTable).
THEOREM SyncIncrementalComplete == Spec => []IncrementalComplete
<1>1. (part \in {"few", "many"} => RestP!IncIInv) => IncrementalComplete
  BY RestP!IncConcludes, SameSyncProperties DEF IncrementalComplete
<1> QED
  BY <1>1, IncrementalInvariant, PTL

-----------------------------------------------------------------------------
(* The comparison. *)

LEMMA RestSetups == Compared \subseteq Rest!Setup
  BY DEF Compared, Moved, Compare, Rest!Setup, Rest!Sides

LEMMA SameRestSetup == Rest!Setup = RestP!Setup
  BY DEF Rest!Setup, RestP!Setup, Rest!Sides, RestP!Sides

LEMMA SameRestVars == (Rest!vars = RestP!vars) /\ (Rest!vars' = RestP!vars')
  BY DEF Rest!vars, RestP!vars

LEMMA SameRestInit == Rest!Init <=> RestP!Init
  BY DEF Rest!Init, RestP!Init, Rest!Sides, RestP!Sides, Rest!Slots, RestP!Slots,
    Rest!NullKey, RestP!NullKey, Rest!Nil, RestP!Nil, Rest!Stream, RestP!Stream,
    Rest!Classes, RestP!Classes
LEMMA SameRestNext == Rest!Next <=> RestP!Next
<1>1. /\ Rest!Moves <=> RestP!Moves
      /\ Rest!CountFails <=> RestP!CountFails
  BY DEF Rest!Moves, RestP!Moves, Rest!Sides, RestP!Sides, Rest!Slots, RestP!Slots,
    Rest!NullKey, RestP!NullKey, Rest!CountFails, RestP!CountFails, Rest!NoStatement,
    RestP!NoStatement, Rest!Ends, RestP!Ends, Rest!tables, RestP!tables
<1>2. /\ Rest!ScansBounds <=> RestP!ScansBounds
      /\ Rest!CountsSource <=> RestP!CountsSource
  BY DEF Rest!ScansBounds, RestP!ScansBounds, Rest!Window, RestP!Window, Rest!Behind,
    RestP!Behind, Rest!Present, RestP!Present, Rest!Slots, RestP!Slots, Rest!NullKey,
    RestP!NullKey, Rest!Nil, RestP!Nil, Rest!Rank, RestP!Rank, Rest!Cardinality,
    RestP!Cardinality, Rest!LastOf, RestP!LastOf, Rest!tables, RestP!tables,
    Rest!CountsSource, RestP!CountsSource, Rest!NoStatement, RestP!NoStatement,
    Rest!InRange, RestP!InRange
<1>3. Rest!CountsTarget <=> RestP!CountsTarget
  BY DEF Rest!CountsTarget, RestP!CountsTarget, Rest!Cardinality, RestP!Cardinality,
    Rest!InRange, RestP!InRange, Rest!Nil, RestP!Nil, Rest!Behind, RestP!Behind,
    Rest!Present, RestP!Present, Rest!Slots, RestP!Slots, Rest!NullKey, RestP!NullKey,
    Rest!Rank, RestP!Rank, Rest!Drilling, RestP!Drilling, Rest!Ends, RestP!Ends,
    Rest!Hashing, RestP!Hashing, Rest!tables, RestP!tables
<1>4. /\ Rest!ReadsSource <=> RestP!ReadsSource
      /\ Rest!WindowFails <=> RestP!WindowFails
  BY DEF Rest!ReadsSource, RestP!ReadsSource, Rest!Window, RestP!Window, Rest!Behind,
    RestP!Behind, Rest!Present, RestP!Present, Rest!Slots, RestP!Slots, Rest!NullKey,
    RestP!NullKey, Rest!Nil, RestP!Nil, Rest!Rank, RestP!Rank, Rest!Cardinality,
    RestP!Cardinality, Rest!Hash, RestP!Hash, Rest!tables, RestP!tables, Rest!WindowFails,
    RestP!WindowFails, Rest!Closes, RestP!Closes, Rest!Untrusted, RestP!Untrusted,
    Rest!Drilling, RestP!Drilling, Rest!Ends, RestP!Ends
<1>5. Rest!ReadsTarget <=> RestP!ReadsTarget
  BY DEF Rest!ReadsTarget, RestP!ReadsTarget, Rest!Window, RestP!Window, Rest!Behind,
    RestP!Behind, Rest!Present, RestP!Present, Rest!Slots, RestP!Slots, Rest!NullKey,
    RestP!NullKey, Rest!Nil, RestP!Nil, Rest!Rank, RestP!Rank, Rest!Cardinality,
    RestP!Cardinality, Rest!Hash, RestP!Hash, Rest!Stream, RestP!Stream, Rest!Closes,
    RestP!Closes, Rest!Untrusted, RestP!Untrusted, Rest!Drilling, RestP!Drilling,
    Rest!Ends, RestP!Ends, Rest!LastOf, RestP!LastOf, Rest!tables, RestP!tables
<1>6. /\ Rest!BagReadsSource <=> RestP!BagReadsSource
      /\ Rest!BagReadsTarget <=> RestP!BagReadsTarget
      /\ Rest!BagFails <=> RestP!BagFails
  BY DEF Rest!BagReadsSource, RestP!BagReadsSource, Rest!Reads, RestP!Reads,
    Rest!Present, RestP!Present, Rest!Slots, RestP!Slots, Rest!NullKey, RestP!NullKey,
    Rest!Nil, RestP!Nil, Rest!Hash, RestP!Hash, Rest!Cardinality, RestP!Cardinality,
    Rest!tables, RestP!tables, Rest!BagReadsTarget, RestP!BagReadsTarget, Rest!Stream,
    RestP!Stream, Rest!Ends, RestP!Ends, Rest!BagFails, RestP!BagFails
<1>7. /\ \A pc, d, n : Rest!ScansNulls(pc, d, n) <=> RestP!ScansNulls(pc, d, n)
      /\ Rest!DrillFails <=> RestP!DrillFails
  BY DEF Rest!ScansNulls, RestP!ScansNulls, Rest!NullKey, RestP!NullKey, Rest!Present,
    RestP!Present, Rest!Slots, RestP!Slots, Rest!Aborts, RestP!Aborts, Rest!At, RestP!At,
    Rest!tables, RestP!tables, Rest!DrillFails, RestP!DrillFails
<1>8. Rest!FetchesSource <=> RestP!FetchesSource
  BY DEF Rest!FetchesSource, RestP!FetchesSource, Rest!Dry, RestP!Dry, Rest!Stream,
    RestP!Stream, Rest!Nil, RestP!Nil, Rest!At, RestP!At, Rest!Fetch, RestP!Fetch,
    Rest!Window, RestP!Window, Rest!Behind, RestP!Behind, Rest!Present, RestP!Present,
    Rest!Slots, RestP!Slots, Rest!NullKey, RestP!NullKey, Rest!Rank, RestP!Rank,
    Rest!Cardinality, RestP!Cardinality, Rest!Refuses, RestP!Refuses, Rest!Aborts,
    RestP!Aborts, Rest!Sorted, RestP!Sorted, Rest!Fetched, RestP!Fetched, Rest!LastOf,
    RestP!LastOf, Rest!tables, RestP!tables
<1>9. Rest!FetchesTarget <=> RestP!FetchesTarget
  <2>1. \A s : Rest!Merges(s) <=> RestP!Merges(s)
    BY DEF Rest!Merges, RestP!Merges, Rest!Aligned, RestP!Aligned, Rest!Sides,
      RestP!Sides, Rest!Max, RestP!Max, Rest!Classes, RestP!Classes, Rest!At, RestP!At,
      Rest!Stream, RestP!Stream, Rest!Nil, RestP!Nil
  <2>2. Rest!Fetch("target") = RestP!Fetch("target")
    BY DEF Rest!Fetch, RestP!Fetch, Rest!Window, RestP!Window, Rest!Behind,
      RestP!Behind, Rest!Present, RestP!Present, Rest!Slots, RestP!Slots, Rest!NullKey,
      RestP!NullKey, Rest!Nil, RestP!Nil, Rest!Rank, RestP!Rank, Rest!Cardinality,
      RestP!Cardinality
  <2>3. /\ Rest!Dry("target") <=> RestP!Dry("target")
        /\ \A w : /\ Rest!Sorted("target", w) <=> RestP!Sorted("target", w)
                  /\ Rest!Refuses("target", w) <=> RestP!Refuses("target", w)
    BY DEF Rest!Dry, RestP!Dry, Rest!Stream, RestP!Stream, Rest!Nil, RestP!Nil,
      Rest!Refuses, RestP!Refuses, Rest!NullKey, RestP!NullKey, Rest!Aborts, RestP!Aborts,
      Rest!At, RestP!At, Rest!Sorted, RestP!Sorted, Rest!Rank, RestP!Rank
  <2>4. \A w : Rest!Fetched("target", w) = RestP!Fetched("target", w)
    BY DEF Rest!Fetched, RestP!Fetched, Rest!LastOf, RestP!LastOf, Rest!Rank,
      RestP!Rank, Rest!NullKey, RestP!NullKey, Rest!Cardinality, RestP!Cardinality
  <2> QED
    BY <2>1, <2>2, <2>3, <2>4 DEF Rest!FetchesTarget, RestP!FetchesTarget, Rest!NullKey,
      RestP!NullKey, Rest!tables, RestP!tables
<1> QED
  BY <1>1, <1>2, <1>3, <1>4, <1>5, <1>6, <1>7, <1>8, <1>9 DEF Rest!Next, RestP!Next

LEMMA SameRestProperties ==
  /\ Rest!TypeOK <=> RestP!TypeOK
  /\ Rest!CompareHonest <=> RestP!CompareHonest
<1>1. Rest!TypeOK <=> RestP!TypeOK
  BY DEF Rest!TypeOK, RestP!TypeOK, Rest!Setup, RestP!Setup, Rest!Sides, RestP!Sides,
    Rest!Slots, RestP!Slots, Rest!NullKey, RestP!NullKey, Rest!Nil, RestP!Nil,
    Rest!Classes, RestP!Classes
<1>2. /\ Rest!PassCovers <=> RestP!PassCovers
      /\ Rest!PassIsSame <=> RestP!PassIsSame
      /\ Rest!FailDiffers <=> RestP!FailDiffers
      /\ Rest!DrillNames <=> RestP!DrillNames
  BY DEF Rest!PassCovers, RestP!PassCovers, Rest!Over, RestP!Over, Rest!Still,
    RestP!Still, Rest!Slots, RestP!Slots, Rest!NullKey, RestP!NullKey, Rest!Agree,
    RestP!Agree, Rest!PassIsSame, RestP!PassIsSame, Rest!SameRows, RestP!SameRows,
    Rest!Hash, RestP!Hash, Rest!Cardinality, RestP!Cardinality, Rest!Present,
    RestP!Present, Rest!FailDiffers, RestP!FailDiffers, Rest!NoStatement,
    RestP!NoStatement, Rest!DrillNames, RestP!DrillNames, Rest!Drilled, RestP!Drilled,
    Rest!Classes, RestP!Classes, Rest!Class, RestP!Class
<1> QED
  BY <1>1, <1>2 DEF Rest!CompareHonest, RestP!CompareHonest

LEMMA RestInvariant == Spec => [](On("rest") => RestP!IInv)
<1>1. RestP!Sized
  <2>1. Compared \subseteq RestP!Setup
    BY RestSetups, SameRestSetup
  <2> QED
    BY <2>1 DEF RestP!Sized
<1>2. Init => (On("rest") => RestP!IInv)
  BY <1>1, SameRestInit, RestP!InitHolds DEF Init, On
<1>3. (On("rest") => RestP!IInv) /\ [Next]_vars => (On("rest") => RestP!IInv)'
  <2> SUFFICES ASSUME On("rest"), RestP!IInv, [Next]_vars PROVE RestP!IInv'
    BY PartStays DEF On
  <2>1. Rest!Next \/ UNCHANGED vars
    BY DEF Next, On
  <2>2. UNCHANGED vars => UNCHANGED Rest!vars
    BY DEF vars, sumVars, Rest!vars
  <2>3. [RestP!Next]_(RestP!vars)
    BY <2>1, <2>2, SameRestNext, SameRestVars
  <2> QED
    BY <1>1, <2>3, RestP!Inductive
<1> QED
  BY <1>2, <1>3, PTL DEF Spec

LEMMA BusySetups == Moved \subseteq Busy!Setup
  BY DEF Moved, Compare, Busy!Setup, Busy!Sides

LEMMA SameBusySetup == Busy!Setup = BusyP!Setup
  BY DEF Busy!Setup, BusyP!Setup, Busy!Sides, BusyP!Sides

LEMMA SameBusyVars == (Busy!vars = BusyP!vars) /\ (Busy!vars' = BusyP!vars')
  BY DEF Busy!vars, BusyP!vars

LEMMA SameBusyInit == Busy!Init <=> BusyP!Init
  BY DEF Busy!Init, BusyP!Init, Busy!Sides, BusyP!Sides, Busy!Slots, BusyP!Slots,
    Busy!NullKey, BusyP!NullKey, Busy!Nil, BusyP!Nil, Busy!Stream, BusyP!Stream,
    Busy!Classes, BusyP!Classes
LEMMA SameBusyNext == Busy!Next <=> BusyP!Next
<1>1. /\ Busy!Moves <=> BusyP!Moves
      /\ Busy!CountFails <=> BusyP!CountFails
  BY DEF Busy!Moves, BusyP!Moves, Busy!Sides, BusyP!Sides, Busy!Slots, BusyP!Slots,
    Busy!NullKey, BusyP!NullKey, Busy!CountFails, BusyP!CountFails, Busy!NoStatement,
    BusyP!NoStatement, Busy!Ends, BusyP!Ends, Busy!tables, BusyP!tables
<1>2. /\ Busy!ScansBounds <=> BusyP!ScansBounds
      /\ Busy!CountsSource <=> BusyP!CountsSource
  BY DEF Busy!ScansBounds, BusyP!ScansBounds, Busy!Window, BusyP!Window, Busy!Behind,
    BusyP!Behind, Busy!Present, BusyP!Present, Busy!Slots, BusyP!Slots, Busy!NullKey,
    BusyP!NullKey, Busy!Nil, BusyP!Nil, Busy!Rank, BusyP!Rank, Busy!Cardinality,
    BusyP!Cardinality, Busy!LastOf, BusyP!LastOf, Busy!tables, BusyP!tables,
    Busy!CountsSource, BusyP!CountsSource, Busy!NoStatement, BusyP!NoStatement,
    Busy!InRange, BusyP!InRange
<1>3. Busy!CountsTarget <=> BusyP!CountsTarget
  BY DEF Busy!CountsTarget, BusyP!CountsTarget, Busy!Cardinality, BusyP!Cardinality,
    Busy!InRange, BusyP!InRange, Busy!Nil, BusyP!Nil, Busy!Behind, BusyP!Behind,
    Busy!Present, BusyP!Present, Busy!Slots, BusyP!Slots, Busy!NullKey, BusyP!NullKey,
    Busy!Rank, BusyP!Rank, Busy!Drilling, BusyP!Drilling, Busy!Ends, BusyP!Ends,
    Busy!Hashing, BusyP!Hashing, Busy!tables, BusyP!tables
<1>4. /\ Busy!ReadsSource <=> BusyP!ReadsSource
      /\ Busy!WindowFails <=> BusyP!WindowFails
  BY DEF Busy!ReadsSource, BusyP!ReadsSource, Busy!Window, BusyP!Window, Busy!Behind,
    BusyP!Behind, Busy!Present, BusyP!Present, Busy!Slots, BusyP!Slots, Busy!NullKey,
    BusyP!NullKey, Busy!Nil, BusyP!Nil, Busy!Rank, BusyP!Rank, Busy!Cardinality,
    BusyP!Cardinality, Busy!Hash, BusyP!Hash, Busy!tables, BusyP!tables, Busy!WindowFails,
    BusyP!WindowFails, Busy!Closes, BusyP!Closes, Busy!Untrusted, BusyP!Untrusted,
    Busy!Drilling, BusyP!Drilling, Busy!Ends, BusyP!Ends
<1>5. Busy!ReadsTarget <=> BusyP!ReadsTarget
  BY DEF Busy!ReadsTarget, BusyP!ReadsTarget, Busy!Window, BusyP!Window, Busy!Behind,
    BusyP!Behind, Busy!Present, BusyP!Present, Busy!Slots, BusyP!Slots, Busy!NullKey,
    BusyP!NullKey, Busy!Nil, BusyP!Nil, Busy!Rank, BusyP!Rank, Busy!Cardinality,
    BusyP!Cardinality, Busy!Hash, BusyP!Hash, Busy!Stream, BusyP!Stream, Busy!Closes,
    BusyP!Closes, Busy!Untrusted, BusyP!Untrusted, Busy!Drilling, BusyP!Drilling,
    Busy!Ends, BusyP!Ends, Busy!LastOf, BusyP!LastOf, Busy!tables, BusyP!tables
<1>6. /\ Busy!BagReadsSource <=> BusyP!BagReadsSource
      /\ Busy!BagReadsTarget <=> BusyP!BagReadsTarget
      /\ Busy!BagFails <=> BusyP!BagFails
  BY DEF Busy!BagReadsSource, BusyP!BagReadsSource, Busy!Reads, BusyP!Reads,
    Busy!Present, BusyP!Present, Busy!Slots, BusyP!Slots, Busy!NullKey, BusyP!NullKey,
    Busy!Nil, BusyP!Nil, Busy!Hash, BusyP!Hash, Busy!Cardinality, BusyP!Cardinality,
    Busy!tables, BusyP!tables, Busy!BagReadsTarget, BusyP!BagReadsTarget, Busy!Stream,
    BusyP!Stream, Busy!Ends, BusyP!Ends, Busy!BagFails, BusyP!BagFails
<1>7. /\ \A pc, d, n : Busy!ScansNulls(pc, d, n) <=> BusyP!ScansNulls(pc, d, n)
      /\ Busy!DrillFails <=> BusyP!DrillFails
  BY DEF Busy!ScansNulls, BusyP!ScansNulls, Busy!NullKey, BusyP!NullKey, Busy!Present,
    BusyP!Present, Busy!Slots, BusyP!Slots, Busy!Aborts, BusyP!Aborts, Busy!At, BusyP!At,
    Busy!tables, BusyP!tables, Busy!DrillFails, BusyP!DrillFails
<1>8. Busy!FetchesSource <=> BusyP!FetchesSource
  BY DEF Busy!FetchesSource, BusyP!FetchesSource, Busy!Dry, BusyP!Dry, Busy!Stream,
    BusyP!Stream, Busy!Nil, BusyP!Nil, Busy!At, BusyP!At, Busy!Fetch, BusyP!Fetch,
    Busy!Window, BusyP!Window, Busy!Behind, BusyP!Behind, Busy!Present, BusyP!Present,
    Busy!Slots, BusyP!Slots, Busy!NullKey, BusyP!NullKey, Busy!Rank, BusyP!Rank,
    Busy!Cardinality, BusyP!Cardinality, Busy!Refuses, BusyP!Refuses, Busy!Aborts,
    BusyP!Aborts, Busy!Sorted, BusyP!Sorted, Busy!Fetched, BusyP!Fetched, Busy!LastOf,
    BusyP!LastOf, Busy!tables, BusyP!tables
<1>9. Busy!FetchesTarget <=> BusyP!FetchesTarget
  <2>1. \A s : Busy!Merges(s) <=> BusyP!Merges(s)
    BY DEF Busy!Merges, BusyP!Merges, Busy!Aligned, BusyP!Aligned, Busy!Sides,
      BusyP!Sides, Busy!Max, BusyP!Max, Busy!Classes, BusyP!Classes, Busy!At, BusyP!At,
      Busy!Stream, BusyP!Stream, Busy!Nil, BusyP!Nil
  <2>2. Busy!Fetch("target") = BusyP!Fetch("target")
    BY DEF Busy!Fetch, BusyP!Fetch, Busy!Window, BusyP!Window, Busy!Behind,
      BusyP!Behind, Busy!Present, BusyP!Present, Busy!Slots, BusyP!Slots, Busy!NullKey,
      BusyP!NullKey, Busy!Nil, BusyP!Nil, Busy!Rank, BusyP!Rank, Busy!Cardinality,
      BusyP!Cardinality
  <2>3. /\ Busy!Dry("target") <=> BusyP!Dry("target")
        /\ \A w : /\ Busy!Sorted("target", w) <=> BusyP!Sorted("target", w)
                  /\ Busy!Refuses("target", w) <=> BusyP!Refuses("target", w)
    BY DEF Busy!Dry, BusyP!Dry, Busy!Stream, BusyP!Stream, Busy!Nil, BusyP!Nil,
      Busy!Refuses, BusyP!Refuses, Busy!NullKey, BusyP!NullKey, Busy!Aborts, BusyP!Aborts,
      Busy!At, BusyP!At, Busy!Sorted, BusyP!Sorted, Busy!Rank, BusyP!Rank
  <2>4. \A w : Busy!Fetched("target", w) = BusyP!Fetched("target", w)
    BY DEF Busy!Fetched, BusyP!Fetched, Busy!LastOf, BusyP!LastOf, Busy!Rank,
      BusyP!Rank, Busy!NullKey, BusyP!NullKey, Busy!Cardinality, BusyP!Cardinality
  <2> QED
    BY <2>1, <2>2, <2>3, <2>4 DEF Busy!FetchesTarget, BusyP!FetchesTarget, Busy!NullKey,
      BusyP!NullKey, Busy!tables, BusyP!tables
<1> QED
  BY <1>1, <1>2, <1>3, <1>4, <1>5, <1>6, <1>7, <1>8, <1>9 DEF Busy!Next, BusyP!Next

LEMMA SameBusyProperties ==
  /\ Busy!TypeOK <=> BusyP!TypeOK
  /\ Busy!CompareHonest <=> BusyP!CompareHonest
<1>1. Busy!TypeOK <=> BusyP!TypeOK
  BY DEF Busy!TypeOK, BusyP!TypeOK, Busy!Setup, BusyP!Setup, Busy!Sides, BusyP!Sides,
    Busy!Slots, BusyP!Slots, Busy!NullKey, BusyP!NullKey, Busy!Nil, BusyP!Nil,
    Busy!Classes, BusyP!Classes
<1>2. /\ Busy!PassCovers <=> BusyP!PassCovers
      /\ Busy!PassIsSame <=> BusyP!PassIsSame
      /\ Busy!FailDiffers <=> BusyP!FailDiffers
      /\ Busy!DrillNames <=> BusyP!DrillNames
  BY DEF Busy!PassCovers, BusyP!PassCovers, Busy!Over, BusyP!Over, Busy!Still,
    BusyP!Still, Busy!Slots, BusyP!Slots, Busy!NullKey, BusyP!NullKey, Busy!Agree,
    BusyP!Agree, Busy!PassIsSame, BusyP!PassIsSame, Busy!SameRows, BusyP!SameRows,
    Busy!Hash, BusyP!Hash, Busy!Cardinality, BusyP!Cardinality, Busy!Present,
    BusyP!Present, Busy!FailDiffers, BusyP!FailDiffers, Busy!NoStatement,
    BusyP!NoStatement, Busy!DrillNames, BusyP!DrillNames, Busy!Drilled, BusyP!Drilled,
    Busy!Classes, BusyP!Classes, Busy!Class, BusyP!Class
<1> QED
  BY <1>1, <1>2 DEF Busy!CompareHonest, BusyP!CompareHonest

LEMMA BusyInvariant == Spec => [](On("busy") => BusyP!IInv)
<1>1. BusyP!Sized
  <2>1. Moved \subseteq BusyP!Setup
    BY BusySetups, SameBusySetup
  <2> QED
    BY <2>1 DEF BusyP!Sized
<1>2. Init => (On("busy") => BusyP!IInv)
  BY <1>1, SameBusyInit, BusyP!InitHolds DEF Init, On
<1>3. (On("busy") => BusyP!IInv) /\ [Next]_vars => (On("busy") => BusyP!IInv)'
  <2> SUFFICES ASSUME On("busy"), BusyP!IInv, [Next]_vars PROVE BusyP!IInv'
    BY PartStays DEF On
  <2>1. Busy!Next \/ UNCHANGED vars
    BY DEF Next, On
  <2>2. UNCHANGED vars => UNCHANGED Busy!vars
    BY DEF vars, sumVars, Busy!vars
  <2>3. [BusyP!Next]_(BusyP!vars)
    BY <2>1, <2>2, SameBusyNext, SameBusyVars
  <2> QED
    BY <1>1, <2>3, BusyP!Inductive
<1> QED
  BY <1>2, <1>3, PTL DEF Spec

\* A table that passes the comparison is the same where nobody wrote meanwhile, one
\* that fails is not, and a drill names the rows that differ, on the tables and the
\* configurations of this instance (Tables_proofs has it for all).
THEOREM SyncCompareHonest == Spec => []CompareHonest
<1>1. RestP!Sized /\ BusyP!Sized
  BY RestSetups, BusySetups, SameRestSetup, SameBusySetup DEF RestP!Sized, BusyP!Sized
<1>2. (On("rest") => RestP!IInv) /\ (On("busy") => BusyP!IInv) => CompareHonest
  BY <1>1, RestP!InvTyped, RestP!Concludes, BusyP!InvTyped, BusyP!Concludes,
    SameRestProperties, SameBusyProperties DEF CompareHonest
<1> QED
  BY <1>2, RestInvariant, BusyInvariant, PTL

=============================================================================
