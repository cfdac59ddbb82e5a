---------------------------- MODULE Tables_proofs ----------------------------
(***************************************************************************)
(* Proofs about what is done to one table apart from the stream.           *)
(*                                                                         *)
(* Checksum, for tables of any size, any windows, orders of the two        *)
(* databases, configurations and writes meanwhile: what a verdict says of  *)
(* the rows that nobody wrote, and that the drill names those that differ. *)
(*                                                                         *)
(* Incremental (Inc, at the end), for any number of rows, watermarks,      *)
(* batch size, configurations, writes and runs: a run of the watermark     *)
(* sync misses none of the rows it has to read, and the saved watermark    *)
(* has none behind it.                                                     *)
(***************************************************************************)
EXTENDS Checksum, FiniteSetTheorems, WellFoundedInduction, TLAPS

\* Tables and windows of any size.
Sized ==
  /\ MaxKey \in Nat /\ MaxVal \in Nat /\ MaxMoves \in Nat
  /\ ChunkSize \in Nat \ {0} /\ CountSize \in Nat \ {0} /\ DrillSize \in Nat \ {0}
  /\ Setups \subseteq Setup

-----------------------------------------------------------------------------
(* The operators of the model as functions of a setup S, of tables T and   *)
(* of the slots W written meanwhile: what a step leaves alone keeps them.  *)

Order(S, d, s) ==
  IF s = NullKey THEN (IF d = "source" /\ S.nullsLast THEN MaxKey + 1 ELSE -(MaxKey + 1))
  ELSE IF S.own = d THEN -s ELSE s

\* Behind position k, a slot and not what it holds.
Beyond(S, d, s, k) == k = Nil \/ (s # NullKey /\ Order(S, d, s) > Order(S, d, k))

RowsOf(T, d) == {s \in Slots : T[d][s] # 0}
RowsBehind(S, T, d, k) == {s \in RowsOf(T, d) : Beyond(S, d, s, k)}

Page(S, T, d, k, n) ==
  LET all == RowsBehind(S, T, d, k)
  IN  {s \in all : Cardinality({q \in all : Order(S, d, q) < Order(S, d, s)}) < n}

Final(S, d, R) == CHOOSE s \in R : \A q \in R : Order(S, d, q) <= Order(S, d, s)

Digest(S, T, d, R) ==
  IF S.hidden THEN [v \in 1..MaxVal |-> Cardinality({s \in R : T[d][s] = v})]
  ELSE [s \in R |-> T[d][s]]

Same(S, T) == Digest(S, T, "source", RowsOf(T, "source")) = Digest(S, T, "target", RowsOf(T, "target"))
Agrees(T, s) == T["source"][s] = T["target"][s]

\* Range i of bounds b; a row for a range from i on, the rows for none of those.
Low(b, i) == IF i = 1 THEN Nil ELSE b[i - 1]
Ranged(S, T, b, d, i) ==
  {s \in RowsBehind(S, T, d, Low(b, i)) :
    i <= Len(b) => s # NullKey /\ Order(S, d, s) <= Order(S, d, b[i])}
Pending(S, b, d, i, s) == i <= Len(b) + 1 /\ Beyond(S, d, s, Low(b, i))
Counted(S, T, b, d, i) == {s \in RowsOf(T, d) : ~Pending(S, b, d, i, s)}

-----------------------------------------------------------------------------
(* The inductive invariant. *)

Counting == {"bounds", "count", "countTarget"}
Hashed == {"window", "windowTarget"}
Bagged == {"bag", "bagTarget"}
Drills == {"nulls", "nullsTarget", "fetch", "fetchTarget"}
Undecided == Counting \cup Hashed \cup Bagged

Positions == {Nil} \cup Slots
TableType == [Sides -> [Slots -> 0..MaxVal]]
Images == UNION {[R -> 0..MaxVal] : R \in SUBSET Slots}
Hashes == Images \cup [1..MaxVal -> Nat]
Stops == Undecided \cup Drills \cup {"end"}

RunType ==
  [pc : Stops, bounds : Seq(Slots), range : Nat \ {0},
   source : Nat, target : Nat, left : Nat, seek : Positions, fetched : SUBSET Slots,
   hash : Hashes, covered : Nat,
   null : BOOLEAN, bad : BOOLEAN, error : BOOLEAN, short : BOOLEAN, cut : BOOLEAN]

StreamType == [rows : Images, seek : Positions, done : BOOLEAN]
DrillType ==
  [stream : [Sides -> StreamType], note : {"none", "null", "order", "error"},
   missed : BOOLEAN, found : [Classes -> SUBSET Slots]]
RepType == [status : {"none", "PASS", "FAIL"}, by : {"none", "count", "windows", "bag", "error"}]

\* Only a unique index holds NULL.
Tables(S, T, W) ==
  /\ S \in Setup /\ T \in TableType /\ W \subseteq Slots
  /\ S.key # "unique" => \A d \in Sides : T[d][NullKey] = 0

NoDrill == [stream |-> [d \in Sides |-> Stream], note |-> "none", missed |-> FALSE,
            found |-> [c \in Classes |-> {}]]

DrilledIn(S, r, rp) ==
  /\ S.key # "none" /\ rp.status = "FAIL"
  /\ rp.by = "count" \/ (rp.by = "windows" /\ r.bad)

\* What each stage knows of the flags.
Stages(S, r, dr, rp) ==
  /\ S.ranged \/ r.bounds = <<>>
  /\ r.pc = "bounds" => S.ranged /\ r.range = 1 /\ r.source = 0 /\ r.target = 0
  /\ r.pc \in Undecided => rp.status = "none" /\ dr = NoDrill
  /\ r.pc \in Undecided \ {"bagTarget"} => ~r.cut
  /\ r.pc \in Counting => ~r.null /\ ~r.bad /\ ~r.error /\ r.covered = 0
  /\ r.pc \in Hashed => ~r.null /\ ~r.error /\ r.left >= 1 /\ S.key # "none"
  /\ r.pc \in Drills => DrilledIn(S, r, rp)
  /\ r.pc \in {"nulls", "nullsTarget"} => S.key = "unique"
  /\ r.pc \in {"fetch", "fetchTarget"} => rp.status # "none"
  /\ r.pc = "end" => rp.status # "none"

\* Bounds are keys in the source's order.
Bounds(S, r) ==
  r.pc \in Counting =>
    /\ \A i \in 1..Len(r.bounds) : r.bounds[i] # NullKey
    /\ \A i \in 1..Len(r.bounds) - 1 : Order(S, "source", r.bounds[i]) < Order(S, "source", r.bounds[i + 1])
    /\ r.range <= Len(r.bounds) + 1
    /\ r.pc = "bounds" => r.seek = IF r.bounds = <<>> THEN Nil ELSE r.bounds[Len(r.bounds)]

\* A count of none has met no row; at rest it is exact, or, on a side with an order
\* of its own, leaves none out.
Tally(S, T, W, b, d, i, n) ==
  /\ n = 0 => \A s \in Slots \ W : T[d][s] # 0 => Pending(S, b, d, i, s)
  /\ W = {} =>
       /\ n >= Cardinality(Counted(S, T, b, d, i))
       /\ d = "source" \/ S.own = "none" => n = Cardinality(Counted(S, T, b, d, i))

Counts(S, T, W, r) ==
  r.pc \in Counting =>
    /\ Tally(S, T, W, r.bounds, "source", IF r.pc = "countTarget" THEN r.range + 1 ELSE r.range, r.source)
    /\ Tally(S, T, W, r.bounds, "target", r.range, r.target)

Sums(T, W, r) ==
  r.pc \in Hashed /\ W = {} =>
    r.source = Cardinality(RowsOf(T, "source")) /\ Cardinality(RowsOf(T, "target")) <= r.source

\* The rows the windows are through with.
Through(S, T, k) == {s \in RowsOf(T, "source") : s # NullKey /\ ~Beyond(S, "source", s, k)}

\* Rows that differ are still to come, on each side that has one.
ToCome(S, T, W, k) ==
  \A s \in Slots \ (W \cup {NullKey}) : \A d \in Sides :
    ~Agrees(T, s) /\ T[d][s] # 0 => Beyond(S, d, s, k)

Windows(S, T, W, r) ==
  r.pc \in Hashed =>
    /\ ~S.hidden /\ ~r.bad => ToCome(S, T, W, r.seek)
    /\ r.seek # NullKey
    /\ r.seek # Nil => (NullKey \notin W => T["target"][NullKey] = 0)
    /\ r.covered + r.left * ChunkSize >= r.source
    /\ W = {} => r.covered = Cardinality(Through(S, T, r.seek))
    /\ W = {} /\ S.own = "none" /\ ~S.hidden /\ Same(S, T) => ~r.bad

\* What the source has given, the target not yet.
Half(S, T, W, r) ==
  r.pc = "windowTarget" =>
    /\ ~S.hidden =>
         /\ DOMAIN r.hash = r.fetched
         /\ \A s \in r.fetched \ W : r.hash[s] = T["source"][s]
    /\ \A s \in Slots \ (W \cup r.fetched \cup {NullKey}) :
         T["source"][s] # 0 /\ Beyond(S, "source", s, r.seek) =>
           /\ Cardinality(r.fetched) >= ChunkSize
           /\ \A q \in r.fetched : Order(S, "source", q) < Order(S, "source", s)
    /\ \A s \in r.fetched : Beyond(S, "source", s, r.seek)
    /\ W = {} => /\ r.fetched = Page(S, T, "source", r.seek, ChunkSize)
                 /\ r.hash = Digest(S, T, "source", r.fetched)

Bag(S, T, W, r) ==
  r.pc = "bagTarget" /\ ~r.cut =>
    /\ ~S.hidden =>
         \A s \in Slots \ W : /\ s \in DOMAIN r.hash <=> T["source"][s] # 0
                              /\ s \in DOMAIN r.hash => r.hash[s] = T["source"][s]
    /\ W = {} => r.hash = Digest(S, T, "source", RowsOf(T, "source"))

\* The verdict, as soon as it is given.
Verdict(S, T, W, r, rp) ==
  /\ rp.status = "PASS" /\ ~S.hidden /\ ~r.cut /\ (rp.by = "windows" => r.short \/ W = {}) =>
       \A s \in Slots \ W : (s = NullKey /\ rp.by = "windows" => W = {}) => Agrees(T, s)
  /\ rp.status = "PASS" /\ W = {} /\ ~r.cut /\ rp.by # "windows" => Same(S, T)
  /\ rp.status = "FAIL" /\ W = {} /\ ~r.cut /\ ~r.error /\ S.own = "none"
     /\ ~(rp.by = "error" /\ S.ranged /\ r.bounds = <<>>) /\ (S.hidden => rp.by # "windows") => ~Same(S, T)

\* A row that the drill has to leave for an order that is not its own: it comes
\* behind the last key fetched and is smaller.
Doomed(S, T, st, s) ==
  \E d \in Sides :
    /\ ~st[d].done /\ st[d].seek # Nil /\ T[d][s] # 0
    /\ s < st[d].seek /\ Order(S, d, s) > Order(S, d, st[d].seek)

\* A row is among those fetched exactly if it is there and was reached.
View(T, st, d, s) ==
  /\ s \in DOMAIN st[d].rows <=> T[d][s] # 0 /\ (s <= st[d].seek \/ st[d].done)
  /\ s \in DOMAIN st[d].rows => st[d].rows[s] = T[d][s]

ClassOf(T, s) ==
  {c \in Classes : ~Agrees(T, s) /\ (c = "source" <=> T["target"][s] = 0)
                                 /\ (c = "target" <=> T["source"][s] = 0)}

Names(T, found, s) == {c \in Classes : s \in found[c]} = ClassOf(T, s)

\* The keys up to f are aligned, those behind it are not.
Aligns(S, T, W, st, found, f) ==
  /\ \A d \in Sides :
       /\ st[d].done \/ f <= st[d].seek
       /\ \A k \in DOMAIN st[d].rows : f < k
  /\ \A c \in Classes : \A k \in found[c] : k <= f /\ k # NullKey
  /\ \A s \in Slots \ (W \cup {NullKey}) : ~Doomed(S, T, st, s) =>
       /\ s <= f => Names(T, found, s)
       /\ s > f => \A d \in Sides : View(T, st, d, s)

\* The rows fetched are in order, up to the last key.
Shape(S, T, W, st, d) ==
  /\ st[d].seek # NullKey /\ NullKey \notin DOMAIN st[d].rows
  /\ \A k \in DOMAIN st[d].rows : k <= st[d].seek
  /\ DOMAIN st[d].rows # {} => st[d].seek \in DOMAIN st[d].rows
  /\ \A s \in Slots \ (W \cup {NullKey}) :
       T[d][s] # 0 /\ ~Beyond(S, d, s, st[d].seek) => s <= st[d].seek

Merging(S, T, W, st, found) ==
  /\ \A d \in Sides : Shape(S, T, W, st, d)
  /\ \E f \in Positions : Aligns(S, T, W, st, found, f)

NullsGone(T, W, dr, D) == ~dr.missed => (NullKey \notin W => \A d \in D : T[d][NullKey] = 0)

Empty(st, d) == st[d].rows = Stream.rows

Drill(S, T, W, r, dr, rp) ==
  /\ r.pc = "nulls" => dr = NoDrill
  /\ r.pc = "nullsTarget" =>
       dr.note = "none" /\ dr.stream = NoDrill.stream /\ dr.found = NoDrill.found /\ NullsGone(T, W, dr, {"source"})
  /\ r.pc \in {"fetch", "fetchTarget"} =>
       dr.note = "none" /\ NullsGone(T, W, dr, Sides) /\ Merging(S, T, W, dr.stream, dr.found)
  /\ r.pc = "fetchTarget" => dr.stream["source"].done \/ ~Empty(dr.stream, "source")
  /\ r.pc = "end" /\ DrilledIn(S, r, rp) /\ dr.note = "none" /\ ~dr.missed =>
       \A s \in Slots \ W : Names(T, dr.found, s)

Inv(S, T, W, r, dr, rp) ==
  /\ Tables(S, T, W) /\ r \in RunType /\ dr \in DrillType /\ rp \in RepType
  /\ Stages(S, r, dr, rp) /\ Bounds(S, r) /\ Counts(S, T, W, r) /\ Sums(T, W, r)
  /\ Windows(S, T, W, r) /\ Half(S, T, W, r) /\ Bag(S, T, W, r)
  /\ Verdict(S, T, W, r, rp) /\ Drill(S, T, W, r, dr, rp)

IInv ==
  /\ setup \in Setups /\ moves \in 0..MaxMoves
  /\ Inv(setup, tbl, touched, run, drill, rep)

-----------------------------------------------------------------------------
(* Orders and windows. *)

LEMMA RankType ==
  ASSUME Sized, NEW S, NEW d \in Sides, NEW s \in Slots
  PROVE  Order(S, d, s) \in Int
BY DEF Sized, Order, Slots, NullKey

LEMMA RankSeparates ==
  ASSUME Sized, NEW S, NEW d \in Sides, NEW s \in Slots, NEW q \in Slots, Order(S, d, s) = Order(S, d, q)
  PROVE  s = q
BY DEF Sized, Order, Slots, NullKey

\* The target has NULL first; without an order of their own sides agree on keys.
LEMMA RankOfNull ==
  ASSUME Sized, NEW S, NEW s \in Slots, s # NullKey
  PROVE  Order(S, "target", NullKey) < Order(S, "target", s)
BY DEF Sized, Order, Slots, NullKey

LEMMA RankOfKey ==
  ASSUME Sized, NEW S, S.own = "none", NEW d \in Sides, NEW s \in Slots, s # NullKey
  PROVE  Order(S, d, s) = s
BY DEF Sized, Order, Sides

LEMMA SlotsFinite == ASSUME Sized PROVE IsFiniteSet(Slots) /\ Nil \notin Slots /\ NullKey \in Slots
<1>1. IsFiniteSet(NullKey..MaxKey)
  BY FS_Interval DEF Sized, NullKey
<1> QED
  BY <1>1 DEF Sized, Slots, NullKey, Nil

LEMMA SomeFinite ==
  ASSUME Sized, NEW R, R \subseteq Slots
  PROVE  IsFiniteSet(R) /\ Cardinality(R) \in Nat
BY SlotsFinite, FS_Subset, FS_CardinalityType

LEMMA SmallestMember ==
  ASSUME NEW D, IsFiniteSet(D), NEW T, T \subseteq SUBSET D, T # {}
  PROVE  \E x \in T : \A y \in T : y \subseteq x => y = x
<1> DEFINE R == StrictSubsetOrdering(D)
<1>1. FiniteSubsetsOf(D) = SUBSET D
  BY FS_FiniteSubsetsOfFinite
<1>2. IsWellFoundedOn(R, SUBSET D)
  BY <1>1, FS_StrictSubsetOrderingWellFounded
<1>3. PICK x \in T : \A y \in T : ~ (<<y, x>> \in R)
  <2> HIDE DEF R
  <2> QED
    BY <1>2, WFMin
<1>4. ASSUME NEW y \in T, y \subseteq x, y # x PROVE FALSE
  <2>1. <<y, x>> \in (SUBSET D) \X (SUBSET D)
    OBVIOUS
  <2>2. <<y, x>> \in R
    BY <1>4, <2>1 DEF StrictSubsetOrdering
  <2> QED
    BY <1>3, <2>2
<1> QED
  BY <1>4

\* Of some slots one comes first and one last.
LEMMA FirstOfSome ==
  ASSUME Sized, NEW S, NEW d \in Sides, NEW R, R \subseteq Slots, R # {}
  PROVE  \E x \in R : \A q \in R : Order(S, d, x) <= Order(S, d, q)
<1> DEFINE T == {{q \in R : Order(S, d, q) <= Order(S, d, x)} : x \in R}
<1>1. T \subseteq SUBSET Slots /\ T # {}
  OBVIOUS
<1>2. PICK X \in T : \A Y \in T : Y \subseteq X => Y = X
  <2> HIDE DEF T
  <2> QED
    BY <1>1, SlotsFinite, SmallestMember
<1>3. PICK x \in R : X = {q \in R : Order(S, d, q) <= Order(S, d, x)}
  OBVIOUS
<1>4. ASSUME NEW y \in R, ~(Order(S, d, x) <= Order(S, d, y)) PROVE FALSE
  <2> DEFINE Y == {q \in R : Order(S, d, q) <= Order(S, d, y)}
  <2>1. \A q \in R : Order(S, d, q) \in Int
    BY RankType
  <2>2. Y \in T
    OBVIOUS
  <2>3. Y \subseteq X /\ x \in X /\ x \notin Y
    BY <1>3, <1>4, <2>1
  <2> QED
    BY <1>2, <2>2, <2>3
<1> QED
  BY <1>4

LEMMA LastOfSome ==
  ASSUME Sized, NEW S, NEW d \in Sides, NEW R, R \subseteq Slots, R # {}
  PROVE  Final(S, d, R) \in R /\ \A q \in R : Order(S, d, q) <= Order(S, d, Final(S, d, R))
<1> DEFINE T == {{q \in R : Order(S, d, x) <= Order(S, d, q)} : x \in R}
<1>1. T \subseteq SUBSET Slots /\ T # {}
  OBVIOUS
<1>2. PICK X \in T : \A Y \in T : Y \subseteq X => Y = X
  <2> HIDE DEF T
  <2> QED
    BY <1>1, SlotsFinite, SmallestMember
<1>3. PICK x \in R : X = {q \in R : Order(S, d, x) <= Order(S, d, q)}
  OBVIOUS
<1>4. ASSUME NEW y \in R, ~(Order(S, d, y) <= Order(S, d, x)) PROVE FALSE
  <2> DEFINE Y == {q \in R : Order(S, d, y) <= Order(S, d, q)}
  <2>1. \A q \in R : Order(S, d, q) \in Int
    BY RankType
  <2>2. Y \in T
    OBVIOUS
  <2>3. Y \subseteq X /\ x \in X /\ x \notin Y
    BY <1>3, <1>4, <2>1
  <2> QED
    BY <1>2, <2>2, <2>3
<1> QED
  BY <1>4 DEF Final

\* A window is full if it leaves out a row, and the row comes behind all it holds.
LEMMA WindowCut ==
  ASSUME Sized, NEW S, NEW T, NEW d \in Sides, NEW k, NEW n \in Nat
  PROVE  /\ Page(S, T, d, k, n) \subseteq RowsBehind(S, T, d, k) /\ RowsBehind(S, T, d, k) \subseteq RowsOf(T, d)
         /\ \A s \in RowsBehind(S, T, d, k) \ Page(S, T, d, k, n) :
              /\ Cardinality(Page(S, T, d, k, n)) >= n
              /\ \A q \in Page(S, T, d, k, n) : Order(S, d, q) < Order(S, d, s)
<1> DEFINE B == RowsBehind(S, T, d, k)
           W == Page(S, T, d, k, n)
           P(s) == {q \in B : Order(S, d, q) < Order(S, d, s)}
<1>1. W \subseteq B /\ B \subseteq RowsOf(T, d) /\ B \subseteq Slots
  BY DEF Page, RowsBehind, RowsOf
<1>2. \A s \in B : s \in W <=> Cardinality(P(s)) < n
  BY DEF Page
<1>3. \A s \in B : \A q \in P(s) : q \in B /\ Order(S, d, q) < Order(S, d, s)
  OBVIOUS
<1>4. \A s \in B, q \in B : Order(S, d, q) < Order(S, d, s) => q \in P(s)
  OBVIOUS
<1> HIDE DEF B, W, P
<1>5. \A s \in B : Order(S, d, s) \in Int
  BY <1>1, RankType
<1>6. \A s \in B : P(s) \subseteq Slots /\ IsFiniteSet(P(s)) /\ Cardinality(P(s)) \in Nat
  <2>1. \A s \in B : P(s) \subseteq Slots
    BY <1>1, <1>3
  <2> QED
    BY <2>1, SomeFinite
<1>7. IsFiniteSet(W) /\ Cardinality(W) \in Nat
  <2>1. W \subseteq Slots
    BY <1>1
  <2> QED
    BY <2>1, SomeFinite
<1>8. ASSUME NEW s \in B \ W, NEW q \in W PROVE Order(S, d, q) < Order(S, d, s)
  <2>1. Order(S, d, s) \in Int /\ Order(S, d, q) \in Int /\ q \in B /\ s \in B
    BY <1>1, <1>5
  <2> SUFFICES ASSUME Order(S, d, s) <= Order(S, d, q) PROVE FALSE
    BY <2>1
  <2>2. ASSUME NEW x \in P(s) PROVE x \in P(q)
    <3>1. x \in B /\ Order(S, d, x) < Order(S, d, s) /\ Order(S, d, x) \in Int
      BY <1>3, <1>5, <2>1
    <3>2. Order(S, d, x) < Order(S, d, q)
      BY <2>1, <3>1
    <3> QED
      BY <1>4, <2>1, <3>1, <3>2
  <2>3. Cardinality(P(s)) <= Cardinality(P(q))
    <3>1. P(s) \subseteq P(q)
      BY <2>2
    <3> QED
      BY <1>6, <2>1, <3>1, FS_Subset
  <2>4. Cardinality(P(q)) < n /\ ~(Cardinality(P(s)) < n)
    BY <1>2, <2>1
  <2>5. Cardinality(P(s)) \in Nat /\ Cardinality(P(q)) \in Nat
    BY <1>6, <2>1
  <2> QED
    BY <2>3, <2>4, <2>5
<1>9. ASSUME NEW s \in B \ W, Cardinality(W) < n PROVE FALSE
  <2>1. PICK x \in B \ W : \A q \in B \ W : Order(S, d, x) <= Order(S, d, q)
    <3>1. B \ W \subseteq Slots /\ B \ W # {}
      BY <1>1
    <3> QED
      BY <3>1, FirstOfSome
  <2>2. ASSUME NEW y \in P(x), y \notin W PROVE FALSE
    <3>1. y \in B /\ Order(S, d, y) < Order(S, d, x)
      BY <1>3, <2>1
    <3>2. Order(S, d, x) <= Order(S, d, y)
      BY <2>1, <2>2, <3>1
    <3>3. Order(S, d, x) \in Int /\ Order(S, d, y) \in Int
      BY <1>5, <3>1
    <3> QED
      BY <3>1, <3>2, <3>3
  <2>3. Cardinality(P(x)) <= Cardinality(W)
    <3>1. P(x) \subseteq W
      BY <2>2
    <3> QED
      BY <1>7, <3>1, FS_Subset
  <2>4. ~(Cardinality(P(x)) < n) /\ Cardinality(P(x)) \in Nat
    BY <1>2, <1>6
  <2> QED
    BY <1>7, <1>9, <2>3, <2>4
<1>10. \A s \in B \ W : Cardinality(W) >= n /\ \A q \in W : Order(S, d, q) < Order(S, d, s)
  BY <1>7, <1>8, <1>9
<1> QED
  BY <1>1, <1>10 DEF B, W

\* The first window of the target takes a NULL that is there.
LEMMA NullComesFirst ==
  ASSUME Sized, NEW S, NEW T, NEW n \in Nat \ {0}, NullKey \in RowsOf(T, "target")
  PROVE  NullKey \in Page(S, T, "target", Nil, n)
<1> DEFINE P == {q \in RowsBehind(S, T, "target", Nil) : Order(S, "target", q) < Order(S, "target", NullKey)}
<1>1. RowsBehind(S, T, "target", Nil) \subseteq Slots /\ NullKey \in RowsBehind(S, T, "target", Nil)
  BY DEF RowsBehind, RowsOf, Beyond
<1>2. P = {}
  <2> SUFFICES ASSUME NEW q \in P PROVE FALSE
    OBVIOUS
  <2>1. q \in Slots /\ Order(S, "target", q) < Order(S, "target", NullKey)
    BY <1>1
  <2>2. Order(S, "target", q) \in Int /\ Order(S, "target", NullKey) \in Int
    BY <2>1, RankType, SlotsFinite DEF Sides
  <2>3. q # NullKey
    BY <2>1, <2>2
  <2> QED
    BY <2>1, <2>2, <2>3, RankOfNull
<1>3. Cardinality(P) = 0
  BY <1>2, FS_EmptySet
<1> QED
  BY <1>1, <1>3 DEF Page


-----------------------------------------------------------------------------
(* Hashes of rows. *)

LEMMA RowsAreSlots ==
  ASSUME Sized, NEW T, NEW d
  PROVE  RowsOf(T, d) \subseteq Slots /\ IsFiniteSet(RowsOf(T, d)) /\ Cardinality(RowsOf(T, d)) \in Nat
<1>1. RowsOf(T, d) \subseteq Slots
  BY DEF RowsOf
<1> QED
  BY <1>1, SomeFinite

\* Hashes that show the key tell each row.
LEMMA ShownDigest ==
  ASSUME NEW S, NEW T, ~S.hidden, NEW R, NEW Q,
         Digest(S, T, "source", R) = Digest(S, T, "target", Q)
  PROVE  R = Q /\ \A s \in R : Agrees(T, s)
<1>1. [s \in R |-> T["source"][s]] = [s \in Q |-> T["target"][s]]
  BY DEF Digest
<1>2. R = Q
  <2>1. DOMAIN [s \in R |-> T["source"][s]] = R /\ DOMAIN [s \in Q |-> T["target"][s]] = Q
    OBVIOUS
  <2> QED
    BY <1>1, <2>1
<1>3. ASSUME NEW s \in R PROVE Agrees(T, s)
  <2>1. [x \in R |-> T["source"][x]][s] = [x \in Q |-> T["target"][x]][s]
    BY <1>1
  <2> QED
    BY <1>2, <2>1 DEF Agrees
<1> QED
  BY <1>2, <1>3

LEMMA SameShown ==
  ASSUME NEW S, NEW T, ~S.hidden, Same(S, T)
  PROVE  RowsOf(T, "source") = RowsOf(T, "target") /\ \A s \in Slots : Agrees(T, s)
<1>1. RowsOf(T, "source") = RowsOf(T, "target") /\ \A s \in RowsOf(T, "source") : Agrees(T, s)
  BY ShownDigest DEF Same
<1> QED
  BY <1>1 DEF RowsOf, Agrees

\* Tables with the same rows, with their keys or without, have as many of them.
LEMMA SameSize ==
  ASSUME Sized, NEW S, NEW T \in TableType, Same(S, T)
  PROVE  Cardinality(RowsOf(T, "source")) = Cardinality(RowsOf(T, "target"))
<1>1. CASE ~S.hidden
  BY <1>1, SameShown
<1>2. CASE S.hidden
  <2> DEFINE P == RowsOf(T, "source")
             Q == RowsOf(T, "target")
             A(v) == {s \in P : T["source"][s] = v}
             B(v) == {s \in Q : T["target"][s] = v}
             f == [v \in 1..MaxVal |-> CHOOSE g : g \in Bijection(A(v), B(v))]
             F == [s \in P |-> f[T["source"][s]][s]]
  <2>1. IsFiniteSet(P) /\ IsFiniteSet(Q) /\ P \subseteq Slots /\ Q \subseteq Slots
    BY RowsAreSlots
  <2>2. \A s \in P : T["source"][s] \in 1..MaxVal
    BY <2>1 DEF RowsOf, TableType, Sides, Sized
  <2>3. \A s \in Q : T["target"][s] \in 1..MaxVal
    BY <2>1 DEF RowsOf, TableType, Sides, Sized
  <2>4. [v \in 1..MaxVal |-> Cardinality(A(v))] = [v \in 1..MaxVal |-> Cardinality(B(v))]
    BY <1>2 DEF Same, Digest
  <2>5. \A s : \A v : s \in A(v) <=> s \in P /\ T["source"][s] = v
    OBVIOUS
  <2>6. \A s : \A v : s \in B(v) <=> s \in Q /\ T["target"][s] = v
    OBVIOUS
  <2>7. \A v \in 1..MaxVal : f[v] = CHOOSE g : g \in Bijection(A(v), B(v))
    OBVIOUS
  <2>8. F = [s \in P |-> f[T["source"][s]][s]]
    OBVIOUS
  <2> HIDE DEF P, Q, A, B, f, F
  <2>9. ASSUME NEW v \in 1..MaxVal PROVE f[v] \in Bijection(A(v), B(v))
    <3>1. Cardinality(A(v)) = Cardinality(B(v))
      <4>1. [u \in 1..MaxVal |-> Cardinality(A(u))][v] = [u \in 1..MaxVal |-> Cardinality(B(u))][v]
        BY <2>4
      <4> QED
        BY <4>1
    <3>2. A(v) \subseteq P /\ B(v) \subseteq Q
      BY <2>5, <2>6
    <3>3. IsFiniteSet(A(v)) /\ IsFiniteSet(B(v))
      BY <2>1, <3>2, FS_Subset
    <3>4. ExistsBijection(A(v), B(v))
      BY <3>1, <3>3, FS_SameCardinalityBij
    <3>5. \E g : g \in Bijection(A(v), B(v))
      BY <3>4 DEF ExistsBijection
    <3> QED
      BY <3>5, <2>7
  <2>10. \A v \in 1..MaxVal : f[v] \in [A(v) -> B(v)]
    BY <2>9 DEF Bijection, Injection
  <2>11. \A v \in 1..MaxVal : \A s \in A(v) : \A q \in A(v) : f[v][s] = f[v][q] => s = q
    BY <2>9 DEF Bijection, Injection, IsInjective
  <2>12. \A v \in 1..MaxVal : \A t \in B(v) : \E s \in A(v) : f[v][s] = t
    BY <2>9 DEF Bijection, Surjection
  <2>13. ASSUME NEW s \in P
         PROVE  F[s] \in Q /\ T["target"][F[s]] = T["source"][s] /\ F[s] = f[T["source"][s]][s]
    <3>1. s \in A(T["source"][s]) /\ T["source"][s] \in 1..MaxVal
      BY <2>2, <2>5
    <3>2. f[T["source"][s]][s] \in B(T["source"][s])
      BY <2>10, <3>1
    <3> QED
      BY <2>6, <2>8, <3>2
  <2>14. F \in [P -> Q]
    BY <2>8, <2>13
  <2>15. ASSUME NEW s \in P, NEW q \in P, F[s] = F[q] PROVE s = q
    <3>1. T["source"][s] = T["source"][q]
      BY <2>13, <2>15
    <3>2. s \in A(T["source"][s]) /\ q \in A(T["source"][s]) /\ T["source"][s] \in 1..MaxVal
      BY <2>2, <2>5, <3>1
    <3>3. f[T["source"][s]][s] = f[T["source"][s]][q]
      BY <2>13, <2>15, <3>1
    <3> QED
      BY <2>11, <3>2, <3>3
  <2>16. ASSUME NEW t \in Q PROVE \E s \in P : F[s] = t
    <3>1. t \in B(T["target"][t]) /\ T["target"][t] \in 1..MaxVal
      BY <2>3, <2>6
    <3>2. PICK s \in A(T["target"][t]) : f[T["target"][t]][s] = t
      BY <2>12, <3>1
    <3>3. s \in P /\ T["source"][s] = T["target"][t]
      BY <2>5, <3>2
    <3> QED
      BY <2>13, <3>2, <3>3
  <2>17. F \in Bijection(P, Q)
    BY <2>14, <2>15, <2>16 DEF Bijection, Injection, Surjection, IsInjective
  <2>18. ExistsBijection(P, Q)
    BY <2>17 DEF ExistsBijection
  <2>19. Cardinality(Q) = Cardinality(P)
    BY <2>1, <2>18, FS_Bijection
  <2> QED
    BY <2>19 DEF P, Q
<1> QED
  BY <1>1, <1>2

LEMMA EmptySame ==
  ASSUME NEW S, NEW T, \A d \in Sides : \A s \in Slots : T[d][s] = 0
  PROVE  Same(S, T)
<1>1. RowsOf(T, "source") = {} /\ RowsOf(T, "target") = {}
  BY DEF RowsOf, Sides
<1>2. \A v : {s \in {} : T["source"][s] = v} = {} /\ {s \in {} : T["target"][s] = v} = {}
  OBVIOUS
<1>3. [s \in {} |-> T["source"][s]] = [s \in {} |-> T["target"][s]]
  OBVIOUS
<1> QED
  BY <1>1, <1>2, <1>3 DEF Same, Digest

LEMMA DigestType ==
  ASSUME Sized, NEW S, NEW T \in TableType, NEW d \in Sides, NEW R, R \subseteq RowsOf(T, d)
  PROVE  Digest(S, T, d, R) \in Hashes
<1>1. R \subseteq Slots
  BY DEF RowsOf
<1>2. \A v \in 1..MaxVal : Cardinality({s \in R : T[d][s] = v}) \in Nat
  <2>1. \A v \in 1..MaxVal : {s \in R : T[d][s] = v} \subseteq Slots
    BY <1>1
  <2> QED
    BY <2>1, SomeFinite
<1>3. [v \in 1..MaxVal |-> Cardinality({s \in R : T[d][s] = v})] \in Hashes
  BY <1>2 DEF Hashes
<1>4. [s \in R |-> T[d][s]] \in [R -> 0..MaxVal]
  BY <1>1 DEF TableType
<1>5. [s \in R |-> T[d][s]] \in Images
  BY <1>1, <1>4 DEF Images
<1> QED
  BY <1>3, <1>5 DEF Digest, Hashes

-----------------------------------------------------------------------------
(* Counts. *)

LEMMA BeyondNil == ASSUME NEW S, NEW d, NEW s PROVE Beyond(S, d, s, Nil)
BY DEF Beyond

\* Pages of so many rows are enough for the rows counted.
LEMMA PagesSuffice ==
  ASSUME NEW n \in Nat, NEW c \in Nat \ {0}
  PROVE  /\ (n + c - 1) \div c \in Nat
         /\ ((n + c - 1) \div c) * c >= n
         /\ n # 0 => (n + c - 1) \div c >= 1
<1> DEFINE q == (n + c - 1) \div c
           m == (n + c - 1) % c
<1>1. q \in Int /\ m \in 0..c-1 /\ n + c - 1 = c * q + m
  OBVIOUS
<1> HIDE DEF q, m
<1>2. c * q >= n
  BY <1>1
<1>3. q >= 0
  <2> SUFFICES ASSUME q <= -1 PROVE FALSE
    BY <1>1
  <2>1. c * q <= -c
    BY <1>1
  <2> QED
    BY <1>1, <2>1
<1>4. n # 0 => q # 0
  BY <1>2, <1>1
<1>5. c * q = q * c
  BY <1>1
<1> QED
  BY <1>1, <1>2, <1>3, <1>4, <1>5 DEF q

\* A side counts a range: with the rows of the earlier ones these are all it has up
\* to there, none of them twice unless its order is another than the source's.
LEMMA TallyStep ==
  ASSUME Sized, NEW S, NEW T, NEW W, Tables(S, T, W), NEW b \in Seq(Slots), S.ranged \/ b = <<>>,
         \A j \in 1..Len(b) : b[j] # NullKey,
         \A j \in 1..Len(b) - 1 : Order(S, "source", b[j]) < Order(S, "source", b[j + 1]),
         NEW d \in Sides, NEW i \in Nat \ {0}, i <= Len(b) + 1, NEW n \in Nat, Tally(S, T, W, b, d, i, n)
  PROVE  Tally(S, T, W, b, d, i + 1, n + Cardinality(Ranged(S, T, b, d, i)))
<1> DEFINE C == Counted(S, T, b, d, i)
           D == Counted(S, T, b, d, i + 1)
           R == Ranged(S, T, b, d, i)
<1>1. Len(b) \in Nat /\ \A j \in 1..Len(b) : b[j] \in Slots
  OBVIOUS
<1>2. \A s \in Slots : Order(S, d, s) \in Int
  BY RankType
<1>3. i <= Len(b) => \A s \in RowsOf(T, d) : s # NullKey
  BY <1>1 DEF Tables, Setup, RowsOf
<1>4. Low(b, i + 1) = b[i]
  BY DEF Low
<1>5. i <= Len(b) => b[i] \in Slots /\ b[i] # Nil /\ b[i] # NullKey
  BY <1>1, SlotsFinite
<1>6. C \subseteq Slots /\ D \subseteq Slots /\ R \subseteq Slots
  BY DEF Counted, Ranged, RowsBehind, RowsOf
<1>7. ASSUME NEW s \in RowsOf(T, d), Pending(S, b, d, i, s), ~Pending(S, b, d, i + 1, s)
      PROVE  s \in R
  <2>1. s \in Slots /\ Order(S, d, s) \in Int
    BY <1>2 DEF RowsOf
  <2>2. Beyond(S, d, s, Low(b, i))
    BY <1>7 DEF Pending
  <2>3. i <= Len(b) => s # NullKey /\ Order(S, d, s) <= Order(S, d, b[i])
    <3> SUFFICES ASSUME i <= Len(b) PROVE s # NullKey /\ Order(S, d, s) <= Order(S, d, b[i])
      OBVIOUS
    <3>1. ~Beyond(S, d, s, b[i])
      BY <1>1, <1>4, <1>7 DEF Pending
    <3>2. Order(S, d, b[i]) \in Int
      BY <1>2, <1>5
    <3> QED
      BY <1>3, <1>5, <2>1, <3>1, <3>2 DEF Beyond
  <2> QED
    BY <2>2, <2>3 DEF Ranged, RowsBehind
<1>8. ASSUME NEW s \in R PROVE Pending(S, b, d, i, s) /\ ~Pending(S, b, d, i + 1, s) /\ s \in RowsOf(T, d)
  <2>1. s \in RowsOf(T, d) /\ s \in Slots /\ Beyond(S, d, s, Low(b, i))
    BY DEF Ranged, RowsBehind, RowsOf
  <2>2. i <= Len(b) => ~Beyond(S, d, s, b[i])
    <3> SUFFICES ASSUME i <= Len(b) PROVE ~Beyond(S, d, s, b[i])
      OBVIOUS
    <3>1. Order(S, d, s) <= Order(S, d, b[i])
      BY DEF Ranged
    <3>2. Order(S, d, b[i]) \in Int /\ Order(S, d, s) \in Int
      BY <1>2, <1>5, <2>1
    <3> QED
      BY <1>5, <3>1, <3>2 DEF Beyond
  <2>3. ~(i + 1 <= Len(b) + 1 /\ i > Len(b))
    BY <1>1
  <2> QED
    BY <1>1, <1>4, <2>1, <2>2, <2>3 DEF Pending
<1>9. D \subseteq C \cup R
  BY <1>7 DEF Counted
<1>10. C \cap R = {}
  BY <1>8 DEF Counted
<1>11. ASSUME d = "source" \/ S.own = "none" PROVE D = C \cup R
  <2>1. ASSUME NEW s \in RowsOf(T, d), Pending(S, b, d, i + 1, s) PROVE Pending(S, b, d, i, s)
    <3>1. i <= Len(b) /\ Beyond(S, d, s, b[i])
      BY <1>1, <1>4, <2>1 DEF Pending
    <3>2. CASE i = 1
      BY <3>1, <3>2, <1>1, BeyondNil DEF Pending, Low
    <3>3. CASE i # 1
      <4>1. Low(b, i) = b[i - 1] /\ i - 1 \in 1..Len(b) - 1 /\ (i - 1) + 1 = i
        BY <3>1, <3>3, <1>1 DEF Low
      <4>2. Order(S, "source", b[i - 1]) < Order(S, "source", b[i])
        BY <4>1
      <4>3. b[i - 1] \in Slots /\ b[i - 1] # NullKey /\ b[i - 1] # Nil
        BY <1>1, <4>1, SlotsFinite
      <4>4. Order(S, d, b[i - 1]) < Order(S, d, b[i])
        <5>1. CASE d = "source"
          BY <4>2, <5>1
        <5>2. CASE S.own = "none"
          <6>1. "source" \in Sides
            BY DEF Sides
          <6>2. Order(S, d, b[i - 1]) = Order(S, "source", b[i - 1])
            BY <5>2, <6>1, <4>3, RankOfKey
          <6>3. Order(S, d, b[i]) = Order(S, "source", b[i])
            BY <5>2, <6>1, <3>1, <1>5, RankOfKey
          <6> QED
            BY <4>2, <6>2, <6>3
        <5> QED
          BY <1>11, <5>1, <5>2
      <4>5. s \in Slots /\ s # NullKey /\ Order(S, d, s) > Order(S, d, b[i])
        BY <1>5, <3>1 DEF Beyond, RowsOf
      <4>6. Order(S, d, s) \in Int /\ Order(S, d, b[i]) \in Int /\ Order(S, d, b[i - 1]) \in Int
        BY <1>2, <1>5, <3>1, <4>3, <4>5
      <4>7. Order(S, d, s) > Order(S, d, b[i - 1])
        BY <4>4, <4>5, <4>6
      <4> QED
        BY <4>1, <4>5, <4>7 DEF Pending, Beyond
    <3> QED
      BY <3>2, <3>3
  <2>2. C \subseteq D
    BY <2>1 DEF Counted
  <2>3. R \subseteq D
    BY <1>8 DEF Counted
  <2> QED
    BY <1>9, <2>2, <2>3
<1> HIDE DEF C, D, R
<1>12. /\ IsFiniteSet(C) /\ IsFiniteSet(R) /\ IsFiniteSet(C \cup R)
       /\ Cardinality(C) \in Nat /\ Cardinality(R) \in Nat /\ Cardinality(D) \in Nat
       /\ Cardinality(C \cup R) \in Nat
  BY <1>6, SomeFinite, FS_Union, FS_CardinalityType
<1>13. Cardinality(C \cup R) = Cardinality(C) + Cardinality(R)
  <2>1. Cardinality(C \cup R) = Cardinality(C) + Cardinality(R) - Cardinality(C \cap R)
    BY <1>12, FS_Union
  <2>2. Cardinality(C \cap R) = 0
    BY <1>10, FS_EmptySet
  <2> QED
    BY <1>12, <2>1, <2>2
<1>14. Cardinality(D) <= Cardinality(C) + Cardinality(R)
  BY <1>9, <1>12, <1>13, FS_Subset
<1>15. n + Cardinality(R) = 0 => \A s \in Slots \ W : T[d][s] # 0 => Pending(S, b, d, i + 1, s)
  <2> SUFFICES ASSUME n + Cardinality(R) = 0, NEW s \in Slots \ W, T[d][s] # 0, ~Pending(S, b, d, i + 1, s)
               PROVE  FALSE
    OBVIOUS
  <2>1. n = 0 /\ Cardinality(R) = 0
    BY <1>12
  <2>2. R = {}
    BY <1>12, <2>1, FS_EmptySet
  <2>3. Pending(S, b, d, i, s)
    BY <2>1 DEF Tally
  <2>4. s \in RowsOf(T, d)
    BY DEF RowsOf
  <2> QED
    BY <1>7, <2>2, <2>3, <2>4
<1>16. ASSUME W = {}
       PROVE  /\ n + Cardinality(R) >= Cardinality(D)
              /\ d = "source" \/ S.own = "none" => n + Cardinality(R) = Cardinality(D)
  <2>1. /\ n >= Cardinality(C)
        /\ d = "source" \/ S.own = "none" => n = Cardinality(C)
    BY <1>16 DEF Tally, C
  <2>2. n + Cardinality(R) >= Cardinality(D)
    BY <1>12, <1>14, <2>1
  <2>3. ASSUME d = "source" \/ S.own = "none" PROVE n + Cardinality(R) = Cardinality(D)
    BY <1>11, <1>12, <1>13, <2>1, <2>3
  <2> QED
    BY <2>2, <2>3
<1> QED
  BY <1>15, <1>16 DEF Tally, D, R

LEMMA TallyStart ==
  ASSUME NEW S, NEW T, NEW W, NEW b \in Seq(Slots), NEW d
  PROVE  Tally(S, T, W, b, d, 1, 0)
<1>1. \A s : Pending(S, b, d, 1, s)
  <2>1. Len(b) \in Nat
    OBVIOUS
  <2> QED
    BY <2>1, BeyondNil DEF Pending, Low
<1>2. Counted(S, T, b, d, 1) = {}
  BY <1>1 DEF Counted
<1>3. Cardinality(Counted(S, T, b, d, 1)) = 0
  BY <1>2, FS_EmptySet
<1> QED
  BY <1>1, <1>3 DEF Tally

-----------------------------------------------------------------------------
(* Windows. *)

\* The target's window, for which the source has given its own.
Partner(S, T, r) == Page(S, T, "target", r.seek, ChunkSize)

\* Both sides are read up to the same row of the source.
Reading(S, T, W, r) ==
  /\ Tables(S, T, W) /\ r \in RunType /\ r.pc = "windowTarget"
  /\ Sums(T, W, r) /\ Windows(S, T, W, r) /\ Half(S, T, W, r)

LEMMA ReadingFacts ==
  ASSUME Sized, NEW S, NEW T, NEW W, NEW r, Reading(S, T, W, r)
  PROVE  /\ Tables(S, T, W) /\ r.seek \in Positions /\ r.seek # NullKey /\ r.fetched \subseteq Slots
         /\ IsFiniteSet(r.fetched) /\ Cardinality(r.fetched) \in Nat
         /\ r.covered \in Nat /\ r.left \in Nat /\ r.source \in Nat
         /\ \A s \in r.fetched : Beyond(S, "source", s, r.seek)
         /\ Partner(S, T, r) \subseteq RowsBehind(S, T, "target", r.seek)
<1>1. r.fetched \subseteq Slots /\ r.seek \in Positions /\ r.covered \in Nat /\ r.left \in Nat /\ r.source \in Nat
  BY DEF Reading, RunType
<1>2. r.seek # NullKey
  BY DEF Reading, Windows, Hashed
<1>3. \A s \in r.fetched : Beyond(S, "source", s, r.seek)
  BY DEF Reading, Half
<1>4. Partner(S, T, r) \subseteq RowsBehind(S, T, "target", r.seek)
  BY DEF Partner, Page
<1>5. IsFiniteSet(r.fetched) /\ Cardinality(r.fetched) \in Nat
  BY <1>1, SomeFinite
<1>6. Tables(S, T, W)
  BY DEF Reading
<1> QED
  BY <1>1, <1>2, <1>3, <1>4, <1>5, <1>6

\* Equal hashes that show the key: both windows hold the same rows.
LEMMA HashShown ==
  ASSUME NEW S, NEW T, NEW W, NEW r, NEW R, Half(S, T, W, r), r.pc = "windowTarget",
         ~S.hidden, Digest(S, T, "target", R) = r.hash
  PROVE  R = r.fetched /\ \A s \in r.fetched \ W : Agrees(T, s)
<1>1. r.hash = [s \in R |-> T["target"][s]]
  BY DEF Digest
<1>2. DOMAIN r.hash = r.fetched /\ \A s \in r.fetched \ W : r.hash[s] = T["source"][s]
  BY DEF Half
<1>3. R = r.fetched
  <2>1. DOMAIN [s \in R |-> T["target"][s]] = R
    OBVIOUS
  <2> QED
    BY <1>1, <1>2, <2>1
<1>4. \A s \in R : r.hash[s] = T["target"][s]
  BY <1>1
<1> QED
  BY <1>2, <1>3, <1>4 DEF Agrees

\* Equal hashes leave out a row that differs on each side that has it.
LEMMA LeftOut ==
  ASSUME Sized, NEW S, NEW T, NEW W, NEW r, Reading(S, T, W, r),
         ~S.hidden, ~r.bad, Digest(S, T, "target", Partner(S, T, r)) = r.hash,
         NEW s \in Slots \ (W \cup {NullKey}), NEW d \in Sides, ~Agrees(T, s), T[d][s] # 0
  PROVE  /\ Beyond(S, d, s, r.seek) /\ s \notin r.fetched /\ Partner(S, T, r) = r.fetched
         /\ Cardinality(r.fetched) >= ChunkSize
         /\ \A q \in r.fetched : Order(S, d, q) < Order(S, d, s)
<1>1. Partner(S, T, r) = r.fetched /\ s \notin r.fetched
  BY HashShown DEF Reading
<1>2. Beyond(S, d, s, r.seek)
  BY DEF Reading, Windows, Hashed, ToCome
<1>3. CASE d = "source"
  <2>1. /\ Cardinality(r.fetched) >= ChunkSize
        /\ \A q \in r.fetched : Order(S, "source", q) < Order(S, "source", s)
    BY <1>1, <1>2, <1>3 DEF Reading, Half
  <2> QED
    BY <1>1, <1>2, <1>3, <2>1
<1>4. CASE d = "target"
  <2>1. s \in RowsBehind(S, T, "target", r.seek) \ Partner(S, T, r)
    BY <1>1, <1>2, <1>4 DEF RowsBehind, RowsOf
  <2>2. /\ Cardinality(Partner(S, T, r)) >= ChunkSize
        /\ \A q \in Partner(S, T, r) : Order(S, "target", q) < Order(S, "target", s)
    BY <2>1, WindowCut DEF Partner, Sides, Sized
  <2> QED
    BY <1>1, <1>2, <1>4, <2>2
<1> QED
  BY <1>3, <1>4 DEF Sides

\* At rest the windows so far are what the source has up to here.
LEMMA CoveredRows ==
  ASSUME Sized, NEW S, NEW T, NEW W, NEW r, Reading(S, T, W, r), W = {}
  PROVE  /\ Through(S, T, r.seek) \cup r.fetched \subseteq RowsOf(T, "source")
         /\ Cardinality(Through(S, T, r.seek) \cup r.fetched) = r.covered + Cardinality(r.fetched)
         /\ r.fetched = Page(S, T, "source", r.seek, ChunkSize)
         /\ r.source = Cardinality(RowsOf(T, "source")) /\ Cardinality(RowsOf(T, "target")) <= r.source
<1> DEFINE A == Through(S, T, r.seek)
<1>1. /\ r.covered = Cardinality(A) /\ r.fetched = Page(S, T, "source", r.seek, ChunkSize)
      /\ r.source = Cardinality(RowsOf(T, "source")) /\ Cardinality(RowsOf(T, "target")) <= r.source
  BY DEF Reading, Windows, Half, Sums, Hashed
<1>2. r.fetched \subseteq RowsOf(T, "source")
  BY <1>1 DEF Page, RowsBehind
<1>3. A \subseteq RowsOf(T, "source") /\ A \cap r.fetched = {}
  BY ReadingFacts DEF Through
<1> HIDE DEF A
<1>4. IsFiniteSet(A) /\ Cardinality(A) \in Nat /\ IsFiniteSet(r.fetched) /\ Cardinality(r.fetched) \in Nat
  <2>1. A \subseteq Slots
    BY <1>3, RowsAreSlots
  <2> QED
    BY <2>1, SomeFinite, ReadingFacts
<1>5. Cardinality(A \cup r.fetched) = Cardinality(A) + Cardinality(r.fetched) - Cardinality(A \cap r.fetched)
  BY <1>4, FS_Union
<1>6. Cardinality(A \cap r.fetched) = 0
  BY <1>3, FS_EmptySet
<1>7. Cardinality(A \cup r.fetched) = r.covered + Cardinality(r.fetched)
  BY <1>1, <1>4, <1>5, <1>6
<1> QED
  BY <1>1, <1>2, <1>3, <1>7 DEF A

\* Same tables that both sides sort alike: the target answers as the source did.
LEMMA SamePages ==
  ASSUME Sized, NEW S, NEW T, NEW W, NEW r, Reading(S, T, W, r), W = {}, S.own = "none", ~S.hidden,
         Same(S, T), r.seek # Nil \/ T["target"][NullKey] = 0
  PROVE  Digest(S, T, "target", Partner(S, T, r)) = r.hash
<1> DEFINE B == RowsBehind(S, T, "source", r.seek)
           C == RowsBehind(S, T, "target", r.seek)
<1>1. RowsOf(T, "source") = RowsOf(T, "target") /\ \A s \in Slots : Agrees(T, s)
  BY SameShown
<1>2. r.seek \in Positions /\ r.seek # NullKey
  BY ReadingFacts
<1>3. \A s \in Slots : s # NullKey => Order(S, "source", s) = s /\ Order(S, "target", s) = s
  BY RankOfKey DEF Sides
<1>4. \A s \in Slots : Beyond(S, "source", s, r.seek) <=> Beyond(S, "target", s, r.seek)
  <2> SUFFICES ASSUME NEW s \in Slots
               PROVE  Beyond(S, "source", s, r.seek) <=> Beyond(S, "target", s, r.seek)
    OBVIOUS
  <2>1. CASE r.seek = Nil
    BY <2>1 DEF Beyond
  <2>2. CASE r.seek \in Slots
    BY <1>2, <1>3, <2>2 DEF Beyond
  <2> QED
    BY <1>2, <2>1, <2>2 DEF Positions
<1>5. B = C
  BY <1>1, <1>4 DEF RowsBehind, RowsOf
<1>6. \A s \in B : s \in Slots /\ s # NullKey
  BY <1>5 DEF RowsBehind, RowsOf, Beyond
<1>7. \A s \in B : Order(S, "source", s) = Order(S, "target", s)
  BY <1>3, <1>6
<1>8. Page(S, T, "source", r.seek, ChunkSize) =
        {s \in B : Cardinality({q \in B : Order(S, "source", q) < Order(S, "source", s)}) < ChunkSize}
  BY DEF Page
<1>9. Partner(S, T, r) =
        {s \in C : Cardinality({q \in C : Order(S, "target", q) < Order(S, "target", s)}) < ChunkSize}
  BY DEF Page, Partner
<1> HIDE DEF B, C
<1>10. \A s \in B : {q \in B : Order(S, "source", q) < Order(S, "source", s)} =
                    {q \in B : Order(S, "target", q) < Order(S, "target", s)}
  BY <1>7
<1>11. Partner(S, T, r) = Page(S, T, "source", r.seek, ChunkSize)
  BY <1>5, <1>8, <1>9, <1>10
<1>12. r.fetched = Page(S, T, "source", r.seek, ChunkSize) /\ r.hash = Digest(S, T, "source", r.fetched)
  BY DEF Reading, Half
<1>13. r.fetched \subseteq Slots
  BY ReadingFacts
<1>14. Digest(S, T, "source", r.fetched) = [s \in r.fetched |-> T["source"][s]]
  BY DEF Digest
<1>15. Digest(S, T, "target", r.fetched) = [s \in r.fetched |-> T["target"][s]]
  BY DEF Digest
<1>16. [s \in r.fetched |-> T["source"][s]] = [s \in r.fetched |-> T["target"][s]]
  BY <1>1, <1>13 DEF Agrees
<1> QED
  BY <1>11, <1>12, <1>14, <1>15, <1>16

\* A window of the target without NULL, from the start: it has none.
LEMMA NoNull ==
  ASSUME Sized, NEW S, NEW T, NEW W, NEW r, Reading(S, T, W, r),
         S.key # "unique" \/ NullKey \notin Partner(S, T, r)
  PROVE  r.seek = Nil => T["target"][NullKey] = 0
<1>1. CASE S.key # "unique"
  BY <1>1 DEF Reading, Tables, Sides
<1>2. CASE NullKey \notin Partner(S, T, r)
  <2> SUFFICES ASSUME r.seek = Nil, T["target"][NullKey] # 0 PROVE FALSE
    OBVIOUS
  <2>1. NullKey \in RowsOf(T, "target")
    BY SlotsFinite DEF RowsOf
  <2>2. NullKey \in Page(S, T, "target", Nil, ChunkSize)
    BY <2>1, NullComesFirst DEF Sized
  <2> QED
    BY <1>2, <2>2 DEF Partner
<1> QED
  BY <1>1, <1>2

\* The windows end, trusted, without a mismatch: no row nobody wrote differs.
LEMMA WindowsPass ==
  ASSUME Sized, NEW S, NEW T, NEW W, NEW r, Reading(S, T, W, r),
         ~S.hidden, ~r.bad, Digest(S, T, "target", Partner(S, T, r)) = r.hash,
         \/ NullKey \in r.fetched \cup Partner(S, T, r)
         \/ Cardinality(r.fetched) < ChunkSize
         \/ r.left - 1 = 0,
         ~(S.key = "unique" /\ (NullKey \in r.fetched \cup Partner(S, T, r)
                                \/ r.covered + Cardinality(r.fetched) < r.source)),
         \/ NullKey \notin r.fetched \cup Partner(S, T, r) /\ Cardinality(r.fetched) < ChunkSize
         \/ W = {},
         NEW s \in Slots \ W, s = NullKey => W = {}
  PROVE  Agrees(T, s)
<1> DEFINE P == RowsOf(T, "source")
           Q == RowsOf(T, "target")
           A == Through(S, T, r.seek)
<1>1. /\ r.covered \in Nat /\ r.left \in Nat /\ r.source \in Nat /\ Cardinality(r.fetched) \in Nat
      /\ r.seek \in Positions /\ r.seek # NullKey /\ r.fetched \subseteq Slots
  BY ReadingFacts
<1>2. /\ IsFiniteSet(P) /\ Cardinality(P) \in Nat /\ P \subseteq Slots
      /\ IsFiniteSet(Q) /\ Cardinality(Q) \in Nat /\ Q \subseteq Slots
  BY RowsAreSlots
<1>3. Partner(S, T, r) = r.fetched /\ \A q \in r.fetched \ W : Agrees(T, q)
  BY HashShown DEF Reading
<1>4. r.fetched \subseteq Q
  BY <1>3, ReadingFacts DEF RowsBehind
<1>5. W = {} => A \cup r.fetched \subseteq P
                /\ Cardinality(A \cup r.fetched) = r.covered + Cardinality(r.fetched)
                /\ r.source = Cardinality(P) /\ Cardinality(Q) <= r.source
  BY CoveredRows
<1>6. S.key # "unique" => \A q \in P \cup Q : q # NullKey
  BY DEF Reading, Tables, Sides, RowsOf
<1>7. ASSUME W = {}, r.covered + Cardinality(r.fetched) >= r.source PROVE A \cup r.fetched = P
  <2>1. Cardinality(A \cup r.fetched) >= Cardinality(P) /\ A \cup r.fetched \subseteq P
    BY <1>5, <1>7
  <2>2. IsFiniteSet(A \cup r.fetched) /\ Cardinality(A \cup r.fetched) <= Cardinality(P)
        /\ Cardinality(A \cup r.fetched) \in Nat
    BY <1>2, <2>1, FS_Subset, FS_CardinalityType
  <2>3. Cardinality(A \cup r.fetched) = Cardinality(P)
    BY <1>2, <2>1, <2>2
  <2> QED
    BY <1>2, <2>1, <2>3, FS_Subset
<1>8. CASE s # NullKey
  <2> SUFFICES ASSUME ~Agrees(T, s) PROVE FALSE
    OBVIOUS
  <2>1. PICK d \in Sides : T[d][s] # 0
    BY DEF Agrees, Sides
  <2>2. /\ Beyond(S, d, s, r.seek) /\ s \notin r.fetched /\ Cardinality(r.fetched) >= ChunkSize
    BY <1>8, <2>1, LeftOut
  <2>3. ~(Cardinality(r.fetched) < ChunkSize) /\ W = {}
    BY <1>1, <2>2 DEF Sized
  <2>4. NullKey \notin r.fetched
    BY <1>3, <1>4, <1>6
  <2>5. r.left - 1 = 0
    BY <1>3, <2>3, <2>4
  <2>6. r.covered + Cardinality(r.fetched) >= r.source
    <3>1. r.covered + r.left * ChunkSize >= r.source
      BY DEF Reading, Windows, Hashed
    <3>2. r.left = 1
      BY <1>1, <2>5
    <3>3. r.left * ChunkSize = ChunkSize
      BY <3>2 DEF Sized
    <3> QED
      BY <1>1, <2>2, <3>1, <3>3 DEF Sized
  <2>7. A \cup r.fetched = P
    BY <1>7, <2>3, <2>6
  <2>8. ASSUME NEW q \in Slots, q # NullKey, NEW e \in Sides, ~Agrees(T, q), T[e][q] # 0
        PROVE  Beyond(S, e, q, r.seek) /\ q \notin r.fetched
    BY <2>3, <2>8, LeftOut
  <2>9. ASSUME NEW q \in P PROVE Agrees(T, q)
    <3>1. q \in Slots /\ T["source"][q] # 0
      BY DEF RowsOf
    <3>2. CASE q \in r.fetched
      BY <1>3, <2>3, <3>2
    <3>3. CASE q \in A
      <4>1. q # NullKey /\ ~Beyond(S, "source", q, r.seek)
        BY <3>3 DEF Through
      <4> QED
        BY <2>8, <3>1, <4>1 DEF Sides
    <3> QED
      BY <2>7, <3>2, <3>3
  <2>10. s \notin P
    BY <2>9
  <2>11. s \in Q
    BY <2>1, <2>10 DEF RowsOf, Sides
  <2>12. P \subseteq Q
    BY <2>9 DEF RowsOf, Agrees
  <2> HIDE DEF P, Q, A
  <2>13. Cardinality(P) = Cardinality(Q)
    <3>1. Cardinality(P) <= Cardinality(Q)
      BY <1>2, <2>12, FS_Subset
    <3> QED
      BY <1>2, <1>5, <2>3, <3>1
  <2>14. P = Q
    BY <1>2, <2>12, <2>13, FS_Subset
  <2> QED
    BY <2>10, <2>11, <2>14
<1>9. CASE s = NullKey
  <2>1. W = {}
    BY <1>9
  <2>2. CASE S.key # "unique"
    BY <1>9, <2>2 DEF Reading, Tables, Sides, Agrees
  <2>3. CASE S.key = "unique"
    <3>1. NullKey \notin r.fetched /\ NullKey \notin Partner(S, T, r)
          /\ r.covered + Cardinality(r.fetched) >= r.source
      BY <1>1, <2>3
    <3>2. A \cup r.fetched = P
      BY <1>7, <2>1, <3>1
    <3>3. NullKey \notin A
      BY DEF Through
    <3>4. T["source"][NullKey] = 0
      BY <3>1, <3>2, <3>3, SlotsFinite DEF RowsOf
    <3>5. r.seek = Nil => T["target"][NullKey] = 0
      BY <3>1, NoNull
    <3>6. r.seek # Nil => T["target"][NullKey] = 0
      BY <2>1 DEF Reading, Windows, Hashed
    <3> QED
      BY <1>9, <3>4, <3>5, <3>6 DEF Agrees
  <2> QED
    BY <2>2, <2>3
<1> QED
  BY <1>8, <1>9

\* The last row of a window is where the next one begins.
LEMMA NextSeek ==
  ASSUME Sized, NEW S, NEW T, NEW W, NEW r, Reading(S, T, W, r),
         r.fetched # {}, NullKey \notin r.fetched, NEW k, k = Final(S, "source", r.fetched)
  PROVE  /\ k \in r.fetched /\ k \in Slots /\ k # NullKey /\ k # Nil
         /\ \A q \in r.fetched : Order(S, "source", q) <= Order(S, "source", k)
         /\ W = {} => Through(S, T, k) = Through(S, T, r.seek) \cup r.fetched
<1>1. r.fetched \subseteq Slots /\ r.seek \in Positions /\ r.seek # NullKey
      /\ \A s \in r.fetched : Beyond(S, "source", s, r.seek)
  BY ReadingFacts
<1>2. k \in r.fetched /\ \A q \in r.fetched : Order(S, "source", q) <= Order(S, "source", k)
  BY <1>1, LastOfSome DEF Sides
<1>3. k \in Slots /\ k # NullKey /\ k # Nil
  BY <1>1, <1>2, SlotsFinite
<1>4. \A s \in Slots : Order(S, "source", s) \in Int
  BY RankType DEF Sides
<1>5. ASSUME W = {}, NEW s \in RowsOf(T, "source"), s # NullKey
      PROVE  ~Beyond(S, "source", s, k) <=> (~Beyond(S, "source", s, r.seek) \/ s \in r.fetched)
  <2>1. s \in Slots
    BY DEF RowsOf
  <2>2. ASSUME s \in r.fetched PROVE ~Beyond(S, "source", s, k)
    <3>1. Order(S, "source", s) <= Order(S, "source", k)
      BY <1>2, <2>2
    <3> QED
      BY <1>3, <1>4, <2>1, <3>1 DEF Beyond
  <2>3. ASSUME ~Beyond(S, "source", s, r.seek) PROVE ~Beyond(S, "source", s, k)
    <3>1. r.seek \in Slots /\ r.seek # Nil /\ ~(Order(S, "source", s) > Order(S, "source", r.seek))
      BY <1>1, <1>5, <2>3 DEF Beyond, Positions
    <3>2. Beyond(S, "source", k, r.seek)
      BY <1>1, <1>2
    <3>3. Order(S, "source", k) > Order(S, "source", r.seek)
      BY <3>1, <3>2 DEF Beyond
    <3>4. Order(S, "source", k) \in Int /\ Order(S, "source", s) \in Int /\ Order(S, "source", r.seek) \in Int
      BY <1>3, <1>4, <2>1, <3>1
    <3>5. ~(Order(S, "source", s) > Order(S, "source", k))
      BY <3>1, <3>3, <3>4
    <3> QED
      BY <1>3, <3>5 DEF Beyond
  <2>4. ASSUME ~Beyond(S, "source", s, k), Beyond(S, "source", s, r.seek), s \notin r.fetched PROVE FALSE
    <3>1. \A q \in r.fetched : Order(S, "source", q) < Order(S, "source", s)
      BY <1>5, <2>1, <2>4 DEF Reading, Half, RowsOf
    <3>2. Order(S, "source", k) < Order(S, "source", s)
      BY <1>2, <3>1
    <3>3. ~(Order(S, "source", s) > Order(S, "source", k))
      BY <1>5, <2>4 DEF Beyond
    <3> QED
      BY <1>3, <1>4, <2>1, <3>2, <3>3
  <2> QED
    BY <2>2, <2>3, <2>4
<1>6. W = {} => r.fetched \subseteq RowsOf(T, "source")
  BY CoveredRows
<1>7. W = {} => Through(S, T, k) = Through(S, T, r.seek) \cup r.fetched
  BY <1>5, <1>6 DEF Through
<1> QED
  BY <1>2, <1>3, <1>7

\* The windows go on: what differs is still to come.
LEMMA WindowsGoOn ==
  ASSUME Sized, NEW S, NEW T, NEW W, NEW r, Reading(S, T, W, r),
         NullKey \notin r.fetched \cup Partner(S, T, r), Cardinality(r.fetched) >= ChunkSize, r.left >= 1,
         NEW n, n.seek = Final(S, "source", r.fetched), n.covered = r.covered + Cardinality(r.fetched),
         n.left = r.left - 1, n.source = r.source,
         n.bad = (r.bad \/ Digest(S, T, "target", Partner(S, T, r)) # r.hash)
  PROVE  Windows(S, T, W, n)
<1>1. /\ r.covered \in Nat /\ r.left \in Nat /\ r.source \in Nat /\ Cardinality(r.fetched) \in Nat
      /\ r.fetched \subseteq Slots
  BY ReadingFacts
<1>2. r.fetched # {}
  <2>1. Cardinality(r.fetched) # 0
    BY <1>1 DEF Sized
  <2> QED
    BY <2>1, FS_EmptySet
<1>3. /\ n.seek \in r.fetched /\ n.seek \in Slots /\ n.seek # NullKey /\ n.seek # Nil
      /\ W = {} => Through(S, T, n.seek) = Through(S, T, r.seek) \cup r.fetched
  BY <1>2, NextSeek
<1>4. ASSUME ~S.hidden, ~n.bad, NEW s \in Slots \ (W \cup {NullKey}), NEW d \in Sides, ~Agrees(T, s), T[d][s] # 0
      PROVE  Beyond(S, d, s, n.seek)
  <2>1. \A q \in r.fetched : Order(S, d, q) < Order(S, d, s)
    BY <1>4, LeftOut
  <2>2. Order(S, d, n.seek) < Order(S, d, s) /\ Order(S, d, n.seek) \in Int /\ Order(S, d, s) \in Int
    BY <1>3, <2>1, RankType
  <2>3. Order(S, d, s) > Order(S, d, n.seek)
    BY <2>2
  <2> QED
    BY <1>4, <2>3 DEF Beyond
<1>5. ~S.hidden /\ ~n.bad => ToCome(S, T, W, n.seek)
  BY <1>4 DEF ToCome
<1>6. NullKey \notin W => T["target"][NullKey] = 0
  <2>1. r.seek = Nil => T["target"][NullKey] = 0
    BY NoNull
  <2>2. r.seek # Nil => (NullKey \notin W => T["target"][NullKey] = 0)
    BY DEF Reading, Windows, Hashed
  <2> QED
    BY <2>1, <2>2
<1>7. n.covered + n.left * ChunkSize >= n.source
  <2>1. r.covered + r.left * ChunkSize >= r.source
    BY DEF Reading, Windows, Hashed
  <2>2. (r.left - 1) * ChunkSize = r.left * ChunkSize - ChunkSize /\ r.left * ChunkSize \in Int
    BY <1>1 DEF Sized
  <2> QED
    BY <1>1, <2>1, <2>2 DEF Sized
<1>8. W = {} => n.covered = Cardinality(Through(S, T, n.seek))
  BY <1>3, CoveredRows
<1>9. W = {} /\ S.own = "none" /\ ~S.hidden /\ Same(S, T) => ~n.bad
  <2> SUFFICES ASSUME W = {}, S.own = "none", ~S.hidden, Same(S, T) PROVE ~n.bad
    OBVIOUS
  <2>1. r.seek # Nil \/ T["target"][NullKey] = 0
    BY NoNull
  <2>2. Digest(S, T, "target", Partner(S, T, r)) = r.hash
    BY <2>1, SamePages
  <2>3. ~r.bad
    BY DEF Reading, Windows, Hashed
  <2> QED
    BY <2>2, <2>3
<1> QED
  BY <1>3, <1>5, <1>6, <1>7, <1>8, <1>9 DEF Windows

-----------------------------------------------------------------------------
(* The drill. *)

LEMMA StreamFacts ==
  ASSUME NEW st \in [Sides -> StreamType], NEW d \in Sides
  PROVE  /\ st[d].rows \in Images /\ DOMAIN st[d].rows \subseteq Slots
         /\ st[d].seek \in Positions /\ st[d].done \in BOOLEAN
         /\ Empty(st, d) <=> DOMAIN st[d].rows = {}
<1>1. st[d].rows \in Images /\ st[d].seek \in Positions /\ st[d].done \in BOOLEAN
  BY DEF StreamType
<1>2. PICK R \in SUBSET Slots : st[d].rows \in [R -> 0..MaxVal]
  BY <1>1 DEF Images
<1>3. Empty(st, d) <=> DOMAIN st[d].rows = {}
  BY <1>2 DEF Empty, Stream
<1> QED
  BY <1>1, <1>2, <1>3

LEMMA PositionsAreInts == ASSUME Sized PROVE Positions \subseteq Int /\ Slots \subseteq Nat /\ Nil = -1
BY DEF Sized, Positions, Slots, Nil, NullKey

\* n is st after the rows w have been fetched from a side.
Gets(S, T, st, d, w, n) ==
  /\ n \in [Sides -> StreamType] /\ \A e \in Sides \ {d} : n[e] = st[e]
  /\ DOMAIN n[d].rows = w /\ \A s \in w : n[d].rows[s] = T[d][s]
  /\ n[d].seek = IF w = {} THEN st[d].seek ELSE Final(S, d, w)
  /\ n[d].done <=> Cardinality(w) < DrillSize

\* A side is read on, in the order the merge goes by: what it has up to the last key
\* is among its rows, save what an order of its own puts behind that key.
LEMMA FetchKeeps ==
  ASSUME Sized, NEW S, NEW T, NEW W, Tables(S, T, W), NEW st \in [Sides -> StreamType], NEW found,
         Merging(S, T, W, st, found), NEW d \in Sides, Empty(st, d), ~st[d].done,
         NEW w, w = Page(S, T, d, st[d].seek, DrillSize), NullKey \notin w,
         \A s \in w : \A q \in w : Order(S, d, s) < Order(S, d, q) => s < q,
         \A s \in w : st[d].seek < s,
         NEW n, Gets(S, T, st, d, w, n)
  PROVE  Merging(S, T, W, n, found) /\ (n[d].done \/ ~Empty(n, d))
<1> DEFINE k == n[d].seek
<1>1. /\ w \subseteq RowsBehind(S, T, d, st[d].seek)
      /\ \A s \in RowsBehind(S, T, d, st[d].seek) \ w :
           Cardinality(w) >= DrillSize /\ \A q \in w : Order(S, d, q) < Order(S, d, s)
  BY WindowCut DEF Sized
<1>2. w \subseteq Slots /\ IsFiniteSet(w) /\ Cardinality(w) \in Nat /\ \A s \in w : T[d][s] # 0
  <2>1. w \subseteq Slots /\ \A s \in w : T[d][s] # 0
    BY <1>1 DEF RowsBehind, RowsOf
  <2> QED
    BY <2>1, SomeFinite
<1>3. st[d].seek \in Positions
  BY StreamFacts
<1>7. /\ DOMAIN n[d].rows = w /\ (\A s \in w : n[d].rows[s] = T[d][s]) /\ n[d].seek = k
      /\ n[d].done <=> Cardinality(w) < DrillSize
      /\ \A e \in Sides \ {d} : n[e] = st[e]
  BY DEF Gets
<1>8. n \in [Sides -> StreamType]
  BY DEF Gets
<1>5. w = {} => k = st[d].seek
  BY DEF Gets
<1>6. k \in Positions
  BY <1>8, StreamFacts
<1>4. w # {} => k \in w /\ (\A q \in w : Order(S, d, q) <= Order(S, d, k)) /\ st[d].seek < k
  <2>1. w # {} => k = Final(S, d, w)
    BY DEF Gets
  <2> QED
    BY <1>2, <2>1, LastOfSome
<1> HIDE DEF k
<1>9. /\ Positions \subseteq Int /\ Slots \subseteq Nat /\ Nil = -1
      /\ k \in Int /\ st[d].seek \in Int /\ \A s \in w : s \in Int
  BY <1>2, <1>3, <1>6, PositionsAreInts
<1>10. \A s \in Slots : Order(S, d, s) \in Int
  BY RankType
<1>11. \A s \in w : s <= k
  <2> SUFFICES ASSUME NEW s \in w, s # k PROVE s <= k
    BY <1>2, <1>9
  <2>1. k \in w /\ Order(S, d, s) <= Order(S, d, k) /\ s \in Slots /\ k \in Slots
    BY <1>2, <1>4
  <2>2. Order(S, d, s) # Order(S, d, k)
    BY <2>1, RankSeparates
  <2>3. Order(S, d, s) < Order(S, d, k)
    BY <1>10, <2>1, <2>2
  <2>4. s < k
    BY <2>1, <2>3
  <2> QED
    BY <1>9, <2>1, <2>4
<1>12. st[d].seek <= k
  BY <1>3, <1>4, <1>5, <1>6, <1>9
<1>13. Shape(S, T, W, st, d) /\ st[d].seek # NullKey
  BY DEF Merging, Shape
<1>14. \A s \in w : s # NullKey /\ Beyond(S, d, s, st[d].seek)
  BY <1>1 DEF RowsBehind
\* A row left out comes behind the last one.
<1>15. ASSUME NEW s \in Slots \ {NullKey}, T[d][s] # 0, s \notin w, Beyond(S, d, s, st[d].seek)
       PROVE  Cardinality(w) >= DrillSize /\ w # {} /\ Order(S, d, s) > Order(S, d, k) /\ Beyond(S, d, s, k)
  <2>1. s \in RowsBehind(S, T, d, st[d].seek) \ w
    BY <1>15 DEF RowsBehind, RowsOf
  <2>2. Cardinality(w) >= DrillSize /\ \A q \in w : Order(S, d, q) < Order(S, d, s)
    BY <1>1, <2>1
  <2>3. w # {}
    <3>1. Cardinality(w) # 0
      BY <1>2, <2>2 DEF Sized
    <3> QED
      BY <3>1, FS_EmptySet
  <2>4. k \in w /\ k \in Slots
    BY <1>2, <1>4, <2>3
  <2>5. Order(S, d, s) > Order(S, d, k)
    BY <1>10, <2>2, <2>4
  <2> QED
    BY <1>15, <2>2, <2>3, <2>5 DEF Beyond
<1>16. ASSUME NEW s \in Slots \ (W \cup {NullKey}), T[d][s] # 0, ~Beyond(S, d, s, st[d].seek)
       PROVE  s <= st[d].seek
  BY <1>13, <1>16 DEF Shape
<1>17. Shape(S, T, W, n, d)
  <2>1. k # NullKey
    BY <1>4, <1>5, <1>13
  <2>2. ASSUME NEW s \in Slots \ (W \cup {NullKey}), T[d][s] # 0, ~Beyond(S, d, s, k) PROVE s <= k
    <3>1. CASE s \in w
      BY <1>11, <3>1
    <3>2. CASE Beyond(S, d, s, st[d].seek) /\ s \notin w
      BY <1>15, <2>2, <3>2
    <3>3. CASE ~Beyond(S, d, s, st[d].seek)
      <4>1. s <= st[d].seek
        BY <1>16, <2>2, <3>3
      <4>2. s \in Int
        BY <1>9
      <4> QED
        BY <1>9, <1>12, <4>1, <4>2
    <3> QED
      BY <3>1, <3>2, <3>3
  <2> QED
    BY <1>4, <1>7, <1>11, <2>1, <2>2 DEF Shape
<1>18. \A e \in Sides : Shape(S, T, W, n, e)
  <2> SUFFICES ASSUME NEW e \in Sides, e # d PROVE Shape(S, T, W, n, e)
    BY <1>17
  <2>1. Shape(S, T, W, st, e) /\ n[e] = st[e]
    BY <1>7 DEF Merging
  <2> QED
    BY <2>1 DEF Shape
<1>19. PICK f \in Positions : Aligns(S, T, W, st, found, f)
  BY DEF Merging
<1>20. f <= st[d].seek
  BY <1>19 DEF Aligns
<1>21. ASSUME NEW s \in Slots \ (W \cup {NullKey}), Doomed(S, T, st, s) PROVE Doomed(S, T, n, s)
  <2>1. PICK e \in Sides : /\ ~st[e].done /\ st[e].seek # Nil /\ T[e][s] # 0
                           /\ s < st[e].seek /\ Order(S, e, s) > Order(S, e, st[e].seek)
    BY <1>21 DEF Doomed
  <2>2. CASE e # d
    BY <1>7, <2>1, <2>2 DEF Doomed
  <2>3. CASE e = d
    <3>1. Beyond(S, d, s, st[d].seek)
      BY <2>1, <2>3 DEF Beyond
    <3>2. s \notin w
      <4> SUFFICES ASSUME s \in w PROVE FALSE
        OBVIOUS
      <4>1. st[d].seek < s /\ s < st[d].seek
        BY <2>1, <2>3
      <4> QED
        BY <1>3, <1>9, <4>1
    <3>3. Cardinality(w) >= DrillSize /\ Order(S, d, s) > Order(S, d, k)
      BY <1>15, <2>1, <2>3, <3>1, <3>2
    <3>4. ~n[d].done
      BY <1>2, <1>7, <3>3 DEF Sized
    <3>5. s < k
      <4>1. s \in Int /\ s < st[d].seek
        BY <1>9, <2>1, <2>3
      <4> QED
        BY <1>9, <1>12, <4>1
    <3>6. k # Nil
      <4>1. s \in Nat
        BY PositionsAreInts
      <4> QED
        BY <1>9, <3>5, <4>1
    <3> QED
      BY <1>7, <2>1, <2>3, <3>3, <3>4, <3>5, <3>6 DEF Doomed
  <2> QED
    BY <2>2, <2>3
<1>22. ASSUME NEW s \in Slots \ (W \cup {NullKey}), ~Doomed(S, T, n, s), s > f, View(T, st, d, s)
       PROVE  View(T, n, d, s)
  <2>1. ASSUME T[d][s] # 0, s <= k \/ n[d].done, s \notin w PROVE FALSE
    <3>1. ~(s <= st[d].seek)
      <4>1. DOMAIN st[d].rows = {}
        BY StreamFacts
      <4> QED
        BY <1>22, <2>1, <4>1 DEF View
    <3>2. Beyond(S, d, s, st[d].seek)
      BY <1>16, <2>1, <3>1
    <3>3. Cardinality(w) >= DrillSize /\ w # {} /\ Order(S, d, s) > Order(S, d, k)
      BY <1>15, <2>1, <3>2
    <3>4. ~n[d].done /\ s <= k
      BY <1>2, <1>7, <2>1, <3>3 DEF Sized
    <3>5. k \in w /\ k \in Slots /\ k # Nil
      BY <1>2, <1>4, <3>3, SlotsFinite
    <3>6. s < k
      <4>1. s \in Int /\ s # k
        BY <1>9, <2>1, <3>5
      <4> QED
        BY <1>9, <3>4, <4>1
    <3>7. Doomed(S, T, n, s)
      BY <1>7, <2>1, <3>3, <3>4, <3>5, <3>6 DEF Doomed
    <3> QED
      BY <1>22, <3>7
  <2>2. s \in w => T[d][s] # 0 /\ s <= k /\ n[d].rows[s] = T[d][s]
    BY <1>2, <1>7, <1>11
  <2> QED
    BY <1>7, <2>1, <2>2 DEF View
<1>23. Aligns(S, T, W, n, found, f)
  <2>1. \A c \in Classes : \A q \in found[c] : q <= f /\ q # NullKey
    BY <1>19 DEF Aligns
  <2>2. ASSUME NEW e \in Sides PROVE (n[e].done \/ f <= n[e].seek) /\ \A q \in DOMAIN n[e].rows : f < q
    <3>1. CASE e # d
      BY <1>7, <1>19, <3>1 DEF Aligns
    <3>2. CASE e = d
      <4>1. f <= k
        BY <1>3, <1>6, <1>9, <1>12, <1>20
      <4>2. \A q \in w : f < q
        <5> SUFFICES ASSUME NEW q \in w PROVE f < q
          OBVIOUS
        <5>1. st[d].seek < q /\ q \in Int
          BY <1>2, <1>9
        <5> QED
          BY <1>3, <1>9, <1>20, <5>1
      <4> QED
        BY <1>7, <3>2, <4>1, <4>2
    <3> QED
      BY <3>1, <3>2
  <2>3. ASSUME NEW s \in Slots \ (W \cup {NullKey}), ~Doomed(S, T, n, s)
        PROVE  (s <= f => Names(T, found, s)) /\ (s > f => \A e \in Sides : View(T, n, e, s))
    <3>1. ~Doomed(S, T, st, s)
      BY <1>21, <2>3
    <3>2. (s <= f => Names(T, found, s)) /\ (s > f => \A e \in Sides : View(T, st, e, s))
      BY <1>19, <3>1 DEF Aligns
    <3>3. ASSUME s > f, NEW e \in Sides PROVE View(T, n, e, s)
      <4>1. CASE e = d
        BY <1>22, <2>3, <3>2, <3>3, <4>1
      <4>2. CASE e # d
        <5>1. View(T, st, e, s) /\ n[e] = st[e]
          BY <1>7, <3>2, <3>3, <4>2
        <5> QED
          BY <5>1 DEF View
      <4> QED
        BY <4>1, <4>2
    <3> QED
      BY <3>2, <3>3
  <2> QED
    BY <2>1, <2>2, <2>3 DEF Aligns
<1>24. n[d].done \/ ~Empty(n, d)
  <2>1. w = {} => Cardinality(w) = 0
    BY FS_EmptySet
  <2>2. w = {} => n[d].done
    BY <1>7, <2>1 DEF Sized
  <2>3. w # {} => ~Empty(n, d)
    BY <1>7, <1>8, StreamFacts
  <2> QED
    BY <2>2, <2>3
<1> QED
  BY <1>7, <1>8, <1>18, <1>23, <1>24 DEF Merging

Joined(found, more) == [c \in Classes |-> found[c] \cup more[c]]

\* The merge takes all keys up to the last one that every side still read has reached,
\* and names what it takes for what it is.
LEMMA MergeNames ==
  ASSUME Sized, NEW S, NEW T, NEW W, NEW st \in [Sides -> StreamType], NEW found \in [Classes -> SUBSET Slots],
         Merging(S, T, W, st, found), \A d \in Sides : st[d].done \/ ~Empty(st, d),
         NEW a, a = Aligned(st), NEW new, new = Joined(found, a.found)
  PROVE  /\ a.stream \in [Sides -> StreamType] /\ new \in [Classes -> SUBSET Slots]
         /\ Merging(S, T, W, a.stream, new)
         /\ (\A d \in Sides : a.stream[d].done /\ Empty(a.stream, d)) =>
              /\ \A s \in Slots \ (W \cup {NullKey}) : Names(T, new, s)
              /\ \A c \in Classes : NullKey \notin new[c]
<1> DEFINE keys == [d \in Sides |-> DOMAIN st[d].rows]
           open == {d \in Sides : ~st[d].done}
           now == {k \in keys["source"] \cup keys["target"] : \A d \in open : k <= Max(keys[d])}
           both == keys["source"] \cap keys["target"] \cap now
           n == [d \in Sides |-> [st[d] EXCEPT !.rows = [k \in keys[d] \ now |-> st[d].rows[k]]]]
<1>1. a = [stream |-> n,
           found |-> [content |-> {k \in both : st["source"].rows[k] # st["target"].rows[k]},
                      source |-> (keys["source"] \ keys["target"]) \cap now,
                      target |-> (keys["target"] \ keys["source"]) \cap now]]
  BY DEF Aligned
<1>2. Positions \subseteq Int /\ Slots \subseteq Nat /\ Nil = -1
  BY PositionsAreInts
<1>3. \A d \in Sides : keys[d] = DOMAIN st[d].rows /\ keys[d] \subseteq Slots /\ st[d].seek \in Positions
                       /\ st[d].done \in BOOLEAN /\ (Empty(st, d) <=> keys[d] = {})
  BY StreamFacts
<1>4. "source" \in Sides /\ "target" \in Sides /\ \A d \in Sides : d = "source" \/ d = "target"
  BY DEF Sides
<1>6. \A k : k \in now <=> (k \in keys["source"] \/ k \in keys["target"]) /\ \A d \in open : k <= Max(keys[d])
  OBVIOUS
<1>7. \A k : k \in both <=> k \in keys["source"] /\ k \in keys["target"] /\ k \in now
  OBVIOUS
<1>8. ASSUME NEW d \in Sides
      PROVE  /\ n[d] \in StreamType /\ n[d].seek = st[d].seek /\ n[d].done = st[d].done
             /\ n[d].rows = [k \in keys[d] \ now |-> st[d].rows[k]]
             /\ DOMAIN n[d].rows = keys[d] \ now
  <2>1. PICK R \in SUBSET Slots : st[d].rows \in [R -> 0..MaxVal]
    BY DEF StreamType, Images
  <2>2. [k \in keys[d] \ now |-> st[d].rows[k]] \in [keys[d] \ now -> 0..MaxVal]
    BY <1>3, <2>1
  <2>3. [k \in keys[d] \ now |-> st[d].rows[k]] \in Images
    <3>1. keys[d] \ now \in SUBSET Slots
      BY <1>3
    <3> HIDE DEF now, keys
    <3> QED
      BY <2>2, <3>1 DEF Images
  <2>4. st[d] \in StreamType
    OBVIOUS
  <2>5. n[d] = [st[d] EXCEPT !.rows = [k \in keys[d] \ now |-> st[d].rows[k]]]
    OBVIOUS
  <2> HIDE DEF n, now, keys
  <2>6. n[d] \in StreamType /\ n[d].seek = st[d].seek /\ n[d].done = st[d].done
        /\ n[d].rows = [k \in keys[d] \ now |-> st[d].rows[k]]
    BY <2>3, <2>4, <2>5 DEF StreamType
  <2> QED
    BY <2>6
<1>9. n \in [Sides -> StreamType]
  BY <1>8
<1>10. \A d : d \in open <=> d \in Sides /\ ~st[d].done
  OBVIOUS
<1> HIDE DEF now, both, open, keys, n
<1>5. /\ a.stream = n
      /\ a.found["content"] = {k \in both : st["source"].rows[k] # st["target"].rows[k]}
      /\ a.found["source"] = (keys["source"] \ keys["target"]) \cap now
      /\ a.found["target"] = (keys["target"] \ keys["source"]) \cap now
  BY <1>1
<1>11. \A k \in now : k \in Slots
  BY <1>3, <1>4, <1>6
<1>12. ASSUME NEW d \in open PROVE d \in Sides /\ st[d].seek \in keys[d] /\ Max(keys[d]) = st[d].seek
  <2>1. d \in Sides /\ keys[d] # {} /\ Shape(S, T, W, st, d)
    BY <1>3, <1>10 DEF Merging
  <2>2. st[d].seek \in keys[d] /\ \A k \in keys[d] : k <= st[d].seek
    BY <1>3, <2>1 DEF Shape
  <2>3. \A x \in keys[d] : x \in Int
    BY <1>2, <1>3, <2>1
  <2>4. \A x \in keys[d] : (\A y \in keys[d] : x >= y) <=> x = st[d].seek
    BY <2>2, <2>3
  <2> QED
    BY <2>1, <2>2, <2>4 DEF Max
<1>13. PICK f \in Positions : Aligns(S, T, W, st, found, f)
  BY DEF Merging
<1>14. \E g \in Positions : /\ f <= g /\ \A d \in open : g <= st[d].seek
                            /\ \A k \in Slots : (\A d \in open : k <= st[d].seek) <=> k <= g
  <2>1. \A d \in open : d \in Sides /\ st[d].seek \in Positions /\ st[d].seek \in Int /\ f <= st[d].seek
    BY <1>2, <1>3, <1>10, <1>13 DEF Aligns
  <2>2. f \in Int /\ MaxKey \in Nat /\ f <= MaxKey /\ MaxKey \in Positions /\ \A k \in Slots : k \in Int /\ k <= MaxKey
    BY <1>2 DEF Positions, Slots, Sized, NullKey, Nil
  <2>3. CASE open = {}
    BY <2>2, <2>3
  <2>4. CASE open # {}
    <3>1. PICK d \in open : \A e \in open : st[d].seek <= st[e].seek
      <4>1. CASE "source" \in open /\ "target" \in open /\ st["source"].seek <= st["target"].seek
        BY <1>4, <2>1, <4>1
      <4>2. CASE "source" \in open /\ "target" \in open /\ st["target"].seek <= st["source"].seek
        BY <1>4, <2>1, <4>2
      <4>3. CASE "source" \notin open
        BY <1>4, <2>1, <2>4, <4>3
      <4>4. CASE "target" \notin open
        BY <1>4, <2>1, <2>4, <4>4
      <4> QED
        BY <2>1, <4>1, <4>2, <4>3, <4>4
    <3>2. st[d].seek \in Positions /\ f <= st[d].seek
      BY <2>1
    <3>3. \A k \in Slots : (\A e \in open : k <= st[e].seek) <=> k <= st[d].seek
      BY <2>1, <2>2, <3>1
    <3> QED
      BY <3>1, <3>2, <3>3
  <2> QED
    BY <2>3, <2>4
<1>15. PICK g \in Positions : /\ f <= g /\ \A d \in open : g <= st[d].seek
                              /\ \A k \in Slots : (\A d \in open : k <= st[d].seek) <=> k <= g
  BY <1>14
<1>16. \A k : k \in now <=> (k \in keys["source"] \/ k \in keys["target"]) /\ k <= g
  BY <1>3, <1>4, <1>6, <1>12, <1>15
<1>17. f \in Int /\ g \in Int /\ f <= g
  BY <1>2, <1>13, <1>15
<1>18. ASSUME NEW d \in Sides, NEW k \in keys[d] PROVE f < k /\ k # NullKey /\ k \in Int
  <2>1. k \in DOMAIN st[d].rows /\ k \in Int
    <3>1. keys[d] = DOMAIN st[d].rows /\ keys[d] \subseteq Slots
      BY <1>3
    <3>2. k \in Slots
      BY <3>1
    <3> QED
      BY <1>2, <3>1, <3>2
  <2>2. f < k
    BY <1>13, <2>1 DEF Aligns
  <2>3. k # NullKey
    BY <2>1 DEF Merging, Shape
  <2> QED
    BY <2>1, <2>2, <2>3
<1>19. ASSUME NEW c \in Classes PROVE new[c] = found[c] \cup a.found[c] /\ a.found[c] \subseteq now
  BY <1>5, <1>7 DEF Classes, Joined
<1>20. new \in [Classes -> SUBSET Slots]
  <2>1. \A c \in Classes : new[c] \in SUBSET Slots
    BY <1>11, <1>19
  <2> QED
    BY <2>1 DEF Joined
<1>21. ASSUME NEW c \in Classes, NEW k \in new[c] PROVE k <= g /\ k # NullKey
  <2>1. CASE k \in found[c]
    <3>1. k <= f /\ k # NullKey
      BY <1>13, <2>1 DEF Aligns
    <3>2. k \in Int
      BY <1>2, <2>1
    <3> QED
      BY <1>17, <3>1, <3>2
  <2>2. CASE k \in now
    BY <1>4, <1>16, <1>18, <2>2
  <2> QED
    BY <1>19, <2>1, <2>2
<1>22. ASSUME NEW s \in Slots \ (W \cup {NullKey}), Doomed(S, T, st, s) PROVE Doomed(S, T, n, s)
  BY <1>8, <1>22 DEF Doomed
<1>23. ASSUME NEW s \in Slots \ (W \cup {NullKey}), ~Doomed(S, T, n, s), s > g, NEW d \in Sides
       PROVE  View(T, n, d, s)
  <2>1. s \in Int /\ s > f /\ ~(s <= g)
    BY <1>2, <1>17, <1>23
  <2>2. View(T, st, d, s)
    BY <1>13, <1>22, <1>23, <2>1 DEF Aligns
  <2>3. s \notin now
    BY <1>16, <2>1
  <2>4. s \in DOMAIN n[d].rows <=> s \in DOMAIN st[d].rows
    BY <1>3, <1>8, <2>3
  <2>5. s \in DOMAIN n[d].rows => n[d].rows[s] = st[d].rows[s]
    BY <1>8
  <2> QED
    BY <1>8, <2>2, <2>4, <2>5 DEF View
<1>24. ASSUME NEW s \in Slots \ (W \cup {NullKey}), ~Doomed(S, T, n, s), s <= g PROVE Names(T, new, s)
  <2>1. s \in Int /\ ~Doomed(S, T, st, s)
    BY <1>2, <1>22, <1>24
  <2>2. CASE s <= f
    <3>1. Names(T, found, s)
      BY <1>13, <2>1, <2>2 DEF Aligns
    <3>2. s \notin now
      BY <1>4, <1>16, <1>17, <1>18, <2>1, <2>2
    <3>3. {c \in Classes : s \in new[c]} = {c \in Classes : s \in found[c]}
      BY <1>19, <3>2
    <3> QED
      BY <3>1, <3>3 DEF Names
  <2>3. CASE s > f
    <3>1. \A d \in Sides : View(T, st, d, s)
      BY <1>13, <2>1, <2>3 DEF Aligns
    <3>2. ASSUME NEW d \in Sides
          PROVE  (s \in keys[d] <=> T[d][s] # 0) /\ (s \in keys[d] => st[d].rows[s] = T[d][s])
      <4>1. s <= st[d].seek \/ st[d].done
        BY <1>10, <1>15, <1>24
      <4> QED
        BY <1>3, <3>1, <4>1 DEF View
    <3>3. \A c \in Classes : s \notin found[c]
      <4>1. \A c \in Classes : s \in found[c] => s <= f
        BY <1>13 DEF Aligns
      <4> QED
        BY <1>17, <2>1, <2>3, <4>1
    <3>4. s \in now <=> s \in keys["source"] \/ s \in keys["target"]
      BY <1>16, <1>24
    <3>5. /\ s \in a.found["content"] <=>
               s \in keys["source"] /\ s \in keys["target"] /\ T["source"][s] # T["target"][s]
          /\ s \in a.found["source"] <=> s \in keys["source"] /\ s \notin keys["target"]
          /\ s \in a.found["target"] <=> s \in keys["target"] /\ s \notin keys["source"]
      BY <1>4, <1>5, <1>7, <3>2, <3>4
    <3>6. \A c \in Classes : s \in new[c] <=> s \in a.found[c]
      BY <1>19, <3>3
    <3>7. /\ s \in keys["source"] <=> T["source"][s] # 0
          /\ s \in keys["target"] <=> T["target"][s] # 0
      BY <1>4, <3>2
    <3>8. ASSUME NEW c \in Classes PROVE s \in new[c] <=> c \in ClassOf(T, s)
      <4>1. c \in ClassOf(T, s) <=> (/\ ~(T["source"][s] = T["target"][s])
                                    /\ (c = "source" <=> T["target"][s] = 0)
                                    /\ (c = "target" <=> T["source"][s] = 0))
        BY Zenon DEF ClassOf, Agrees
      <4>2. CASE c = "content"
        BY <3>5, <3>6, <3>7, <4>1, <4>2
      <4>3. CASE c = "source"
        BY <3>5, <3>6, <3>7, <4>1, <4>3
      <4>4. CASE c = "target"
        BY <3>5, <3>6, <3>7, <4>1, <4>4
      <4> QED
        BY <4>2, <4>3, <4>4 DEF Classes
    <3>9. {c \in Classes : s \in new[c]} = ClassOf(T, s)
      BY <3>8 DEF ClassOf
    <3> QED
      BY <3>9 DEF Names
  <2> QED
    BY <1>17, <2>1, <2>2, <2>3
<1>25. Aligns(S, T, W, n, new, g)
  <2>1. ASSUME NEW d \in Sides PROVE (n[d].done \/ g <= n[d].seek) /\ \A k \in DOMAIN n[d].rows : g < k
    <3>1. n[d].done \/ g <= n[d].seek
      BY <1>8, <1>10, <1>15
    <3>2. ASSUME NEW k \in keys[d] \ now PROVE g < k
      <4>1. ~(k <= g) /\ k \in Int
        BY <1>4, <1>16, <1>18, <3>2
      <4> QED
        BY <1>17, <4>1
    <3> QED
      BY <1>8, <3>1, <3>2
  <2> QED
    BY <1>21, <1>23, <1>24, <2>1 DEF Aligns
<1>26. ASSUME NEW d \in Sides PROVE Shape(S, T, W, n, d)
  <2>1. Shape(S, T, W, st, d)
    BY DEF Merging
  <2>2. ASSUME NEW k \in keys[d] \ now PROVE st[d].seek \in keys[d] \ now
    <3>1. st[d].seek \in keys[d] /\ k <= st[d].seek
      BY <1>3, <2>1, <2>2 DEF Shape
    <3>2. ~(k <= g) /\ k \in Int /\ st[d].seek \in Int
      BY <1>4, <1>16, <1>18, <2>2, <3>1
    <3>3. ~(st[d].seek <= g)
      BY <1>17, <3>1, <3>2
    <3> QED
      BY <1>16, <3>1, <3>3
  <2> QED
    BY <1>3, <1>8, <2>1, <2>2 DEF Shape
<1>27. Merging(S, T, W, n, new)
  BY <1>25, <1>26 DEF Merging
<1>28. ASSUME \A d \in Sides : n[d].done /\ Empty(n, d), NEW s \in Slots \ (W \cup {NullKey})
       PROVE  Names(T, new, s)
  <2>1. ~Doomed(S, T, n, s)
    BY <1>28 DEF Doomed
  <2>2. CASE s <= g
    BY <1>24, <2>1, <2>2
  <2>3. CASE s > g
    <3>1. \A d \in Sides : View(T, n, d, s)
      BY <1>23, <2>1, <2>3
    <3>2. \A d \in Sides : DOMAIN n[d].rows = {}
      BY <1>9, <1>28, StreamFacts
    <3>3. \A d \in Sides : T[d][s] = 0
      BY <1>28, <3>1, <3>2 DEF View
    <3>4. Agrees(T, s)
      BY <1>4, <3>3 DEF Agrees
    <3>5. s \in Int /\ ~(s <= g)
      BY <1>2, <1>17, <2>3
    <3>6. \A c \in Classes : s \notin new[c]
      BY <1>21, <3>5
    <3>7. {c \in Classes : s \in new[c]} = {} /\ ClassOf(T, s) = {}
      BY <3>4, <3>6 DEF ClassOf
    <3> QED
      BY <3>7 DEF Names
  <2>4. s \in Int
    BY <1>2
  <2> QED
    BY <1>17, <2>2, <2>3, <2>4
<1> QED
  BY <1>5, <1>9, <1>20, <1>21, <1>27, <1>28

-----------------------------------------------------------------------------
(* The stages. *)

LEMMA StopsAre ==
  {"bounds", "count", "countTarget", "window", "windowTarget", "bag", "bagTarget",
   "nulls", "nullsTarget", "fetch", "fetchTarget", "end"} = Stops
BY DEF Stops, Undecided, Counting, Hashed, Bagged, Drills

LEMMA RunFields ==
  ASSUME NEW r \in RunType
  PROVE  /\ r.pc \in Stops /\ r.bounds \in Seq(Slots) /\ r.range \in Nat \ {0}
         /\ r.source \in Nat /\ r.target \in Nat /\ r.left \in Nat /\ r.seek \in Positions
         /\ r.fetched \in SUBSET Slots /\ r.hash \in Hashes /\ r.covered \in Nat
         /\ r.null \in BOOLEAN /\ r.bad \in BOOLEAN /\ r.error \in BOOLEAN
         /\ r.short \in BOOLEAN /\ r.cut \in BOOLEAN
BY DEF RunType

\* The parts of the invariant that are about other stages.
LEMMA OtherStages ==
  ASSUME NEW S, NEW T, NEW W, NEW n, NEW dr, NEW rp
  PROVE  /\ n.pc \notin Counting => Bounds(S, n) /\ Counts(S, T, W, n)
         /\ n.pc \notin Hashed => Sums(T, W, n) /\ Windows(S, T, W, n)
         /\ n.pc # "windowTarget" => Half(S, T, W, n)
         /\ n.pc # "bagTarget" => Bag(S, T, W, n)
         /\ rp.status = "none" => Verdict(S, T, W, n, rp)
         /\ n.pc \in Undecided => Drill(S, T, W, n, dr, rp)
         /\ n.pc = "end" /\ ~DrilledIn(S, n, rp) => Drill(S, T, W, n, dr, rp)
<1>1. n.pc \notin Counting => Bounds(S, n) /\ Counts(S, T, W, n)
  BY DEF Bounds, Counts
<1>2. n.pc \notin Hashed => Sums(T, W, n) /\ Windows(S, T, W, n)
  BY DEF Sums, Windows
<1>3. n.pc # "windowTarget" => Half(S, T, W, n)
  BY DEF Half
<1>4. n.pc # "bagTarget" => Bag(S, T, W, n)
  BY DEF Bag
<1>5. rp.status = "none" => Verdict(S, T, W, n, rp)
  BY DEF Verdict
<1>6. n.pc \in Undecided => Drill(S, T, W, n, dr, rp)
  BY DEF Drill, Undecided, Counting, Hashed, Bagged
<1>7. n.pc = "end" /\ ~DrilledIn(S, n, rp) => Drill(S, T, W, n, dr, rp)
  BY DEF Drill
<1> QED
  BY <1>1, <1>2, <1>3, <1>4, <1>5, <1>6, <1>7

\* Where the drill begins, if the table has a key.
FirstScan(S) == CASE S.key = "pk" -> "fetch" [] S.key = "unique" -> "nulls" [] OTHER -> "end"

\* Nothing fetched and nothing aligned.
LEMMA NothingMerged ==
  ASSUME Sized, NEW S, NEW T, NEW W, Tables(S, T, W)
  PROVE  Merging(S, T, W, NoDrill.stream, NoDrill.found)
<1>1. \A d \in Sides : NoDrill.stream[d] = Stream
  BY DEF NoDrill
<1>2. DOMAIN Stream.rows = {} /\ Stream.seek = Nil /\ Stream.done = FALSE
  BY DEF Stream
<1>3. NoDrill.note = "none" /\ NoDrill.missed = FALSE /\ \A c \in Classes : NoDrill.found[c] = {}
  BY DEF NoDrill
<1>4. \A d \in Sides : Shape(S, T, W, NoDrill.stream, d)
  BY <1>1, <1>2, BeyondNil DEF Shape, Nil, NullKey
<1>5. \A s \in Slots : s > Nil /\ ~(s <= Nil)
  BY PositionsAreInts DEF Slots, NullKey
<1>6. \A s \in Slots : \A d \in Sides : View(T, NoDrill.stream, d, s)
  BY <1>1, <1>2, <1>5 DEF View
<1>7. Nil <= Nil /\ Nil \in Positions
  BY DEF Nil, Positions
<1>8. Aligns(S, T, W, NoDrill.stream, NoDrill.found, Nil)
  BY <1>1, <1>2, <1>3, <1>5, <1>6, <1>7 DEF Aligns
<1> QED
  BY <1>4, <1>7, <1>8 DEF Merging

LEMMA DrillStarts ==
  ASSUME Sized, NEW S, NEW T, NEW W, Tables(S, T, W), NEW n, NEW rp, n.pc = FirstScan(S)
  PROVE  Drill(S, T, W, n, NoDrill, rp)
<1>3. NoDrill.note = "none"
  BY DEF NoDrill
<1>4. Merging(S, T, W, NoDrill.stream, NoDrill.found)
  BY NothingMerged
<1>5. CASE S.key = "pk"
  <2>1. n.pc = "fetch"
    BY <1>5 DEF FirstScan
  <2>2. NullsGone(T, W, NoDrill, Sides)
    BY <1>5 DEF NullsGone, Tables
  <2> QED
    BY <1>3, <1>4, <2>1, <2>2 DEF Drill
<1>6. CASE S.key = "unique"
  <2>1. n.pc = "nulls"
    BY <1>6 DEF FirstScan
  <2> QED
    BY <2>1 DEF Drill
<1>7. CASE S.key = "none"
  <2>1. n.pc = "end"
    BY <1>7 DEF FirstScan
  <2> QED
    BY <1>7, <2>1 DEF Drill, DrilledIn
<1> QED
  BY <1>5, <1>6, <1>7 DEF Tables, Setup

\* What the parts of the invariant need to know of a step before it.
LEMMA InvParts ==
  ASSUME NEW S, NEW T, NEW W, NEW r, NEW dr, NEW rp, Inv(S, T, W, r, dr, rp)
  PROVE  /\ Tables(S, T, W) /\ r \in RunType /\ dr \in DrillType /\ rp \in RepType
         /\ Stages(S, r, dr, rp) /\ Bounds(S, r) /\ Counts(S, T, W, r) /\ Sums(T, W, r)
         /\ Windows(S, T, W, r) /\ Half(S, T, W, r) /\ Bag(S, T, W, r)
         /\ Verdict(S, T, W, r, rp) /\ Drill(S, T, W, r, dr, rp)
BY DEF Inv

\* chunkCountBoundaries: the bound behind the next window.
LEMMA BoundsStep ==
  ASSUME Sized, NEW S, NEW T, NEW W, NEW r, NEW dr, NEW rp, Inv(S, T, W, r, dr, rp), r.pc = "bounds",
         NEW w, w = Page(S, T, "source", r.seek, CountSize), NEW k, k = Final(S, "source", w),
         NEW n, n = [r EXCEPT !.pc = IF Cardinality(w) < CountSize THEN "count" ELSE @,
                              !.bounds = IF w = {} THEN @ ELSE Append(@, k),
                              !.seek = IF w = {} THEN @ ELSE k]
  PROVE  Inv(S, T, W, n, dr, rp)
<1>1. /\ Tables(S, T, W) /\ r \in RunType /\ dr \in DrillType /\ rp \in RepType
      /\ Stages(S, r, dr, rp) /\ Bounds(S, r)
  BY InvParts
<1>2. S.ranged /\ r.range = 1 /\ r.source = 0 /\ r.target = 0 /\ rp.status = "none" /\ dr = NoDrill
  BY <1>1 DEF Stages, Undecided, Counting
<1>3. w \subseteq RowsBehind(S, T, "source", r.seek) /\ w \subseteq Slots
  BY WindowCut DEF Sized, Sides, RowsOf
<1>4. \A s \in w : s # NullKey
  BY <1>1, <1>2, <1>3 DEF Tables, Setup, RowsBehind, RowsOf, Sides
<1>5. w # {} => k \in w
  BY <1>3, LastOfSome DEF Sides
<1>6. r.bounds \in Seq(Slots) /\ r.seek \in Positions
  BY <1>1 DEF RunType
<1>7. /\ \A i \in 1..Len(r.bounds) : r.bounds[i] # NullKey
      /\ \A i \in 1..Len(r.bounds) - 1 :
           Order(S, "source", r.bounds[i]) < Order(S, "source", r.bounds[i + 1])
      /\ r.seek = IF r.bounds = <<>> THEN Nil ELSE r.bounds[Len(r.bounds)]
  BY <1>1 DEF Bounds, Counting
<1>8. /\ n.bounds = (IF w = {} THEN r.bounds ELSE Append(r.bounds, k))
      /\ n.seek = (IF w = {} THEN r.seek ELSE k) /\ n.pc \in {"bounds", "count"}
      /\ n.range = 1 /\ n.source = 0 /\ n.target = 0 /\ n.covered = r.covered
      /\ n.null = r.null /\ n.bad = r.bad /\ n.error = r.error /\ n.cut = r.cut
  BY <1>1, <1>2 DEF RunType
<1>9. n.bounds \in Seq(Slots) /\ n.seek \in Positions
  BY <1>3, <1>5, <1>6, <1>8 DEF Positions
<1>10. n \in RunType
  <2>1. n = [r EXCEPT !.pc = n.pc, !.bounds = n.bounds, !.seek = n.seek]
    BY <1>1, <1>8 DEF RunType
  <2>2. n.pc \in Stops
    BY <1>8 DEF Stops, Undecided, Counting
  <2> QED
    BY <1>1, <1>9, <2>1, <2>2 DEF RunType
<1>11. Stages(S, n, dr, rp)
  BY <1>1, <1>2, <1>8 DEF Stages, Undecided, Counting, Hashed, Bagged, Drills
<1>12. Bounds(S, n)
  <2>1. CASE w = {}
    BY <1>6, <1>7, <1>8, <2>1 DEF Bounds
  <2>2. CASE w # {}
    <3>1. k \in Slots /\ k # NullKey /\ Beyond(S, "source", k, r.seek)
      BY <1>3, <1>4, <1>5, <2>2 DEF RowsBehind
    <3>2. n.bounds = Append(r.bounds, k) /\ n.seek = k
      BY <1>8, <2>2
    <3>3. /\ Len(r.bounds) \in Nat /\ Len(n.bounds) = Len(r.bounds) + 1 /\ n.bounds # <<>>
          /\ n.bounds[Len(r.bounds) + 1] = k /\ \A i \in 1..Len(r.bounds) : n.bounds[i] = r.bounds[i]
      BY <1>6, <3>1, <3>2
    <3>4. \A i \in 1..Len(n.bounds) : n.bounds[i] # NullKey
      <4> SUFFICES ASSUME NEW i \in 1..Len(n.bounds) PROVE n.bounds[i] # NullKey
        OBVIOUS
      <4>1. i \in 1..Len(r.bounds) \/ i = Len(r.bounds) + 1
        BY <3>3
      <4> QED
        BY <1>7, <3>1, <3>3, <4>1
    <3>5. ASSUME NEW i \in 1..Len(n.bounds) - 1
          PROVE  Order(S, "source", n.bounds[i]) < Order(S, "source", n.bounds[i + 1])
      <4>1. i \in 1..Len(r.bounds) /\ (i \in 1..Len(r.bounds) - 1 \/ i = Len(r.bounds))
        BY <3>3
      <4>2. CASE i \in 1..Len(r.bounds) - 1
        <5>1. i + 1 \in 1..Len(r.bounds)
          BY <3>3, <4>2
        <5> QED
          BY <1>7, <3>3, <4>1, <4>2, <5>1
      <4>3. CASE i = Len(r.bounds)
        <5>1. r.bounds # <<>> /\ r.seek = r.bounds[i] /\ r.seek \in Slots /\ r.seek # Nil
          BY <1>6, <1>7, <4>1, <4>3, SlotsFinite
        <5>2. Order(S, "source", k) > Order(S, "source", r.seek)
          BY <3>1, <5>1 DEF Beyond
        <5>3. Order(S, "source", k) \in Int /\ Order(S, "source", r.seek) \in Int
          BY <3>1, <5>1, RankType DEF Sides
        <5>4. n.bounds[i] = r.seek /\ n.bounds[i + 1] = k
          BY <3>3, <4>1, <4>3, <5>1
        <5> QED
          BY <5>2, <5>3, <5>4
      <4> QED
        BY <4>1, <4>2, <4>3
    <3>6. n.range <= Len(n.bounds) + 1
      BY <1>8, <3>3
    <3> QED
      BY <3>2, <3>3, <3>4, <3>5, <3>6 DEF Bounds
  <2> QED
    BY <2>1, <2>2
<1>13. Counts(S, T, W, n)
  <2>1. n.pc # "countTarget"
    BY <1>8
  <2> QED
    BY <1>8, <1>9, <2>1, TallyStart DEF Counts
<1>14. n.pc \in Undecided /\ n.pc \notin Hashed /\ n.pc # "windowTarget" /\ n.pc # "bagTarget"
  BY <1>8 DEF Undecided, Counting, Hashed
<1> QED
  BY <1>1, <1>2, <1>10, <1>11, <1>12, <1>13, <1>14, OtherStages DEF Inv

\* A side counts a range.
LEMMA CountStep ==
  ASSUME Sized, NEW S, NEW T, NEW W, NEW r, NEW dr, NEW rp, Inv(S, T, W, r, dr, rp)
  PROVE  /\ r.pc = "count" =>
              Tally(S, T, W, r.bounds, "source", r.range + 1,
                    r.source + Cardinality(Ranged(S, T, r.bounds, "source", r.range)))
         /\ r.pc = "countTarget" =>
              /\ Tally(S, T, W, r.bounds, "source", r.range + 1, r.source)
              /\ Tally(S, T, W, r.bounds, "target", r.range + 1,
                       r.target + Cardinality(Ranged(S, T, r.bounds, "target", r.range)))
         /\ \A d \in Sides : Cardinality(Ranged(S, T, r.bounds, d, r.range)) \in Nat
<1>1. Tables(S, T, W) /\ r \in RunType /\ Stages(S, r, dr, rp) /\ Bounds(S, r) /\ Counts(S, T, W, r)
  BY InvParts
<1>2. /\ r.bounds \in Seq(Slots) /\ r.range \in Nat \ {0} /\ r.source \in Nat /\ r.target \in Nat
      /\ S.ranged \/ r.bounds = <<>>
  BY <1>1 DEF RunType, Stages
<1>3. \A d \in Sides : Cardinality(Ranged(S, T, r.bounds, d, r.range)) \in Nat
  <2>1. \A d \in Sides : Ranged(S, T, r.bounds, d, r.range) \subseteq Slots
    BY DEF Ranged, RowsBehind, RowsOf
  <2> QED
    BY <2>1, SomeFinite
<1>4. ASSUME r.pc \in {"count", "countTarget"}
      PROVE  /\ \A j \in 1..Len(r.bounds) : r.bounds[j] # NullKey
             /\ \A j \in 1..Len(r.bounds) - 1 :
                  Order(S, "source", r.bounds[j]) < Order(S, "source", r.bounds[j + 1])
             /\ r.range <= Len(r.bounds) + 1
             /\ Tally(S, T, W, r.bounds, "source", IF r.pc = "countTarget" THEN r.range + 1 ELSE r.range, r.source)
             /\ Tally(S, T, W, r.bounds, "target", r.range, r.target)
  BY <1>1, <1>4 DEF Bounds, Counts, Counting
<1>5. ASSUME r.pc = "count"
      PROVE  Tally(S, T, W, r.bounds, "source", r.range + 1,
                   r.source + Cardinality(Ranged(S, T, r.bounds, "source", r.range)))
  <2>1. Tally(S, T, W, r.bounds, "source", r.range, r.source)
    BY <1>4, <1>5
  <2>2. "source" \in Sides
    BY DEF Sides
  <2> QED
    BY <1>1, <1>2, <1>4, <1>5, <2>1, <2>2, TallyStep
<1>6. ASSUME r.pc = "countTarget"
      PROVE  /\ Tally(S, T, W, r.bounds, "source", r.range + 1, r.source)
             /\ Tally(S, T, W, r.bounds, "target", r.range + 1,
                      r.target + Cardinality(Ranged(S, T, r.bounds, "target", r.range)))
  <2>1. "target" \in Sides
    BY DEF Sides
  <2> QED
    BY <1>1, <1>2, <1>4, <1>6, <2>1, TallyStep
<1> QED
  BY <1>3, <1>5, <1>6

LEMMA SourceCounted ==
  ASSUME Sized, NEW S, NEW T, NEW W, NEW r, NEW dr, NEW rp, Inv(S, T, W, r, dr, rp), r.pc = "count",
         NEW n, n = [r EXCEPT !.pc = "countTarget",
                              !.source = @ + Cardinality(Ranged(S, T, r.bounds, "source", r.range))]
  PROVE  Inv(S, T, W, n, dr, rp)
<1>1. /\ Tables(S, T, W) /\ r \in RunType /\ dr \in DrillType /\ rp \in RepType
      /\ Stages(S, r, dr, rp) /\ Bounds(S, r) /\ Counts(S, T, W, r)
  BY InvParts
<1> DEFINE c == Cardinality(Ranged(S, T, r.bounds, "source", r.range))
<1>2. c \in Nat /\ Tally(S, T, W, r.bounds, "source", r.range + 1, r.source + c)
  BY CountStep DEF Sides
<1> HIDE DEF c
<1>3. n = [r EXCEPT !.pc = "countTarget", !.source = @ + c]
  BY DEF c
<1>10. n \in RunType
  <2>1. r.source + c \in Nat /\ "countTarget" \in Stops
    BY <1>1, <1>2, RunFields, StopsAre
  <2> QED
    BY <1>1, <1>3, <2>1 DEF RunType
<1>4. /\ n.pc = "countTarget" /\ n.source = r.source + c
      /\ n.bounds = r.bounds /\ n.range = r.range /\ n.target = r.target /\ n.covered = r.covered
      /\ n.null = r.null /\ n.bad = r.bad /\ n.error = r.error /\ n.cut = r.cut
  BY <1>1, <1>3 DEF RunType
<1>5. Stages(S, n, dr, rp) /\ rp.status = "none"
  BY <1>1, <1>4 DEF Stages, Undecided, Counting, Hashed, Bagged, Drills
<1>6. Bounds(S, n)
  BY <1>1, <1>4 DEF Bounds, Counting
<1>7. Counts(S, T, W, n)
  <2>1. Tally(S, T, W, r.bounds, "target", r.range, r.target)
    BY <1>1 DEF Counts, Counting
  <2> QED
    BY <1>2, <1>4, <2>1 DEF Counts
<1>8. n.pc \in Undecided /\ n.pc \notin Hashed /\ n.pc # "windowTarget" /\ n.pc # "bagTarget"
  BY <1>4 DEF Undecided, Counting, Hashed
<1> QED
  BY <1>1, <1>4, <1>5, <1>6, <1>7, <1>8, <1>10, OtherStages DEF Inv

LEMMA NextRange ==
  ASSUME Sized, NEW S, NEW T, NEW W, NEW r, NEW dr, NEW rp, Inv(S, T, W, r, dr, rp), r.pc = "countTarget",
         r.range <= Len(r.bounds),
         NEW n, n = [r EXCEPT !.pc = "count", !.range = @ + 1,
                              !.target = @ + Cardinality(Ranged(S, T, r.bounds, "target", r.range))]
  PROVE  Inv(S, T, W, n, dr, rp)
<1>1. /\ Tables(S, T, W) /\ r \in RunType /\ dr \in DrillType /\ rp \in RepType
      /\ Stages(S, r, dr, rp) /\ Bounds(S, r)
  BY InvParts
<1> DEFINE c == Cardinality(Ranged(S, T, r.bounds, "target", r.range))
<1>2. /\ c \in Nat /\ Tally(S, T, W, r.bounds, "target", r.range + 1, r.target + c)
      /\ Tally(S, T, W, r.bounds, "source", r.range + 1, r.source)
  BY CountStep DEF Sides
<1> HIDE DEF c
<1>3. n = [r EXCEPT !.pc = "count", !.range = @ + 1, !.target = @ + c]
  BY DEF c
<1>10. n \in RunType
  <2>1. r.target + c \in Nat /\ r.range + 1 \in Nat \ {0} /\ "count" \in Stops
    BY <1>1, <1>2, RunFields, StopsAre
  <2> QED
    BY <1>1, <1>3, <2>1 DEF RunType
<1>4. /\ n.pc = "count" /\ n.target = r.target + c
      /\ n.bounds = r.bounds /\ n.range = r.range + 1 /\ n.source = r.source /\ n.covered = r.covered
      /\ n.null = r.null /\ n.bad = r.bad /\ n.error = r.error /\ n.cut = r.cut
  BY <1>1, <1>3 DEF RunType
<1>5. Stages(S, n, dr, rp) /\ rp.status = "none"
  BY <1>1, <1>4 DEF Stages, Undecided, Counting, Hashed, Bagged, Drills
<1>6. Bounds(S, n)
  <2>1. n.range <= Len(n.bounds) + 1
    BY <1>1, <1>4 DEF RunType
  <2> QED
    BY <1>1, <1>4, <2>1 DEF Bounds, Counting
<1>7. Counts(S, T, W, n)
  BY <1>2, <1>4 DEF Counts
<1>8. n.pc \in Undecided /\ n.pc \notin Hashed /\ n.pc # "windowTarget" /\ n.pc # "bagTarget"
  BY <1>4 DEF Undecided, Counting, Hashed
<1> QED
  BY <1>1, <1>4, <1>5, <1>6, <1>7, <1>8, <1>10, OtherStages DEF Inv

\* Behind the last range: what the two counts say of the tables.
LEMMA CountsSay ==
  ASSUME Sized, NEW S, NEW T, NEW W, NEW r, NEW dr, NEW rp, Inv(S, T, W, r, dr, rp), r.pc = "countTarget",
         r.range > Len(r.bounds), NEW t, t = r.target + Cardinality(Ranged(S, T, r.bounds, "target", r.range))
  PROVE  /\ r.source \in Nat /\ t \in Nat
         /\ r.source = 0 => \A s \in Slots \ W : T["source"][s] = 0
         /\ t = 0 => \A s \in Slots \ W : T["target"][s] = 0
         /\ W = {} =>
              /\ r.source = Cardinality(RowsOf(T, "source")) /\ t >= Cardinality(RowsOf(T, "target"))
              /\ S.own = "none" => t = Cardinality(RowsOf(T, "target"))
<1>1. r \in RunType
  BY InvParts
<1>2. r.bounds \in Seq(Slots) /\ r.range \in Nat /\ r.source \in Nat /\ r.target \in Nat
  BY <1>1 DEF RunType
<1>3. /\ Tally(S, T, W, r.bounds, "target", r.range + 1, t)
      /\ Tally(S, T, W, r.bounds, "source", r.range + 1, r.source)
      /\ Cardinality(Ranged(S, T, r.bounds, "target", r.range)) \in Nat
  BY CountStep DEF Sides
<1>4. r.range + 1 \in Nat /\ r.range + 1 > Len(r.bounds) + 1
  BY <1>2
<1>7. \A d : \A n : Tally(S, T, W, r.bounds, d, r.range + 1, n) =>
        /\ n = 0 => \A s \in Slots \ W : T[d][s] = 0
        /\ W = {} => /\ n >= Cardinality(RowsOf(T, d))
                     /\ d = "source" \/ S.own = "none" => n = Cardinality(RowsOf(T, d))
  <2> SUFFICES ASSUME NEW d, NEW n, Tally(S, T, W, r.bounds, d, r.range + 1, n)
               PROVE  /\ n = 0 => \A s \in Slots \ W : T[d][s] = 0
                      /\ W = {} => /\ n >= Cardinality(RowsOf(T, d))
                                   /\ d = "source" \/ S.own = "none" => n = Cardinality(RowsOf(T, d))
    OBVIOUS
  <2>1. \A s : ~Pending(S, r.bounds, d, r.range + 1, s)
    <3>1. Len(r.bounds) \in Nat
      BY <1>2
    <3>2. ~(r.range + 1 <= Len(r.bounds) + 1)
      BY <1>2, <3>1
    <3> QED
      BY <3>2 DEF Pending
  <2>2. Counted(S, T, r.bounds, d, r.range + 1) = RowsOf(T, d)
    BY <2>1 DEF Counted
  <2> QED
    BY <2>1, <2>2 DEF Tally
<1>5. /\ r.source = 0 => \A s \in Slots \ W : T["source"][s] = 0
      /\ W = {} => r.source = Cardinality(RowsOf(T, "source"))
  BY <1>3, <1>7
<1>6. /\ t = 0 => \A s \in Slots \ W : T["target"][s] = 0
      /\ W = {} => /\ t >= Cardinality(RowsOf(T, "target"))
                   /\ S.own = "none" => t = Cardinality(RowsOf(T, "target"))
  BY <1>3, <1>7
<1> QED
  BY <1>2, <1>3, <1>5, <1>6

\* The counts differ.
LEMMA CountsDiffer ==
  ASSUME Sized, NEW S, NEW T, NEW W, NEW r, NEW dr, NEW rp, Inv(S, T, W, r, dr, rp), r.pc = "countTarget",
         r.range > Len(r.bounds),
         r.source # r.target + Cardinality(Ranged(S, T, r.bounds, "target", r.range)),
         NEW n, n = [r EXCEPT !.pc = FirstScan(S), !.bounds = <<>>, !.range = 1, !.target = 0],
         NEW rq, rq = [status |-> "FAIL", by |-> "count"]
  PROVE  Inv(S, T, W, n, dr, rq)
<1>1. /\ Tables(S, T, W) /\ r \in RunType /\ dr \in DrillType /\ rp \in RepType /\ Stages(S, r, dr, rp)
  BY InvParts
<1>2. dr = NoDrill /\ ~r.cut /\ S.key \in {"pk", "unique", "none"}
  BY <1>1 DEF Stages, Undecided, Counting, Tables, Setup
<1>3. FirstScan(S) \in {"fetch", "nulls", "end"} /\ (FirstScan(S) # "end" => S.key # "none")
      /\ (FirstScan(S) = "nulls" => S.key = "unique")
  BY <1>2 DEF FirstScan
<1>10. n \in RunType
  <2> DEFINE e == <<>>
  <2>1. FirstScan(S) \in Stops /\ e \in Seq(Slots) /\ 1 \in Nat \ {0} /\ 0 \in Nat
    BY <1>3, StopsAre
  <2>2. n = [r EXCEPT !.pc = FirstScan(S), !.bounds = e, !.range = 1, !.target = 0]
    OBVIOUS
  <2> HIDE DEF e
  <2> QED
    BY <1>1, <2>1, <2>2, ZenonT(60) DEF RunType
<1>4. /\ n.pc = FirstScan(S) /\ n.bounds = <<>> /\ n.cut = r.cut
  BY <1>1 DEF RunType
<1>5. rq.status = "FAIL" /\ rq.by = "count" /\ rq \in RepType
  BY DEF RepType
<1>6. Stages(S, n, dr, rq)
  BY <1>3, <1>4, <1>5 DEF Stages, DrilledIn, Undecided, Counting, Hashed, Bagged, Drills
<1>7. Verdict(S, T, W, n, rq)
  <2>1. ASSUME W = {}, S.own = "none", Same(S, T) PROVE FALSE
    BY <1>1, <2>1, CountsSay, SameSize DEF Tables
  <2> QED
    BY <1>5, <2>1 DEF Verdict
<1>8. Drill(S, T, W, n, dr, rq)
  BY <1>1, <1>2, <1>4, DrillStarts
<1>9. n.pc \notin Counting /\ n.pc \notin Hashed /\ n.pc # "windowTarget" /\ n.pc # "bagTarget"
  BY <1>3, <1>4 DEF Counting, Hashed
<1> QED
  BY <1>1, <1>4, <1>5, <1>6, <1>7, <1>8, <1>9, <1>10, OtherStages DEF Inv

\* No rows on either side.
LEMMA CountsNone ==
  ASSUME Sized, NEW S, NEW T, NEW W, NEW r, NEW dr, NEW rp, Inv(S, T, W, r, dr, rp), r.pc = "countTarget",
         r.range > Len(r.bounds), r.source = 0,
         r.source = r.target + Cardinality(Ranged(S, T, r.bounds, "target", r.range)),
         NEW n, n = [r EXCEPT !.pc = "end", !.bounds = <<>>, !.range = 1, !.target = 0],
         NEW rq, rq = [status |-> "PASS", by |-> "count"]
  PROVE  Inv(S, T, W, n, dr, rq)
<1>1. /\ Tables(S, T, W) /\ r \in RunType /\ dr \in DrillType /\ rp \in RepType /\ Stages(S, r, dr, rp)
  BY InvParts
<1>10. n \in RunType
  <2> DEFINE e == <<>>
  <2>1. "end" \in Stops /\ e \in Seq(Slots) /\ 1 \in Nat \ {0} /\ 0 \in Nat
    BY StopsAre
  <2>2. n = [r EXCEPT !.pc = "end", !.bounds = e, !.range = 1, !.target = 0]
    OBVIOUS
  <2> HIDE DEF e
  <2> QED
    BY <1>1, <2>1, <2>2, ZenonT(60) DEF RunType
<1>2. /\ n.pc = "end" /\ n.bounds = <<>> /\ n.cut = r.cut
  BY <1>1 DEF RunType
<1>3. rq.status = "PASS" /\ rq.by = "count" /\ rq \in RepType
  BY DEF RepType
<1>4. Stages(S, n, dr, rq)
  BY <1>2, <1>3 DEF Stages, Undecided, Counting, Hashed, Bagged, Drills
<1>5. \A s \in Slots \ W : \A d \in Sides : T[d][s] = 0
  BY CountsSay DEF Sides
<1>6. Verdict(S, T, W, n, rq)
  <2>1. \A s \in Slots \ W : Agrees(T, s)
    BY <1>5 DEF Agrees, Sides
  <2>2. W = {} => Same(S, T)
    BY <1>5, EmptySame
  <2> QED
    BY <1>3, <2>1, <2>2 DEF Verdict
<1>7. n.pc \notin Counting /\ n.pc \notin Hashed /\ n.pc # "windowTarget" /\ n.pc # "bagTarget"
      /\ ~DrilledIn(S, n, rq)
  BY <1>2, <1>3 DEF Counting, Hashed, DrilledIn
<1> QED
  BY <1>1, <1>2, <1>3, <1>4, <1>6, <1>7, <1>10, OtherStages DEF Inv

\* The counts agree: rows are hashed as a bag or by windows.
LEMMA BagNext ==
  ASSUME NEW S, NEW T, NEW W, NEW r, NEW dr, NEW rp, Inv(S, T, W, r, dr, rp), r.pc \in Undecided \ {"bagTarget"},
         NEW n \in RunType, n.pc = "bag", n.bounds \in {<<>>, r.bounds}, n.cut = r.cut
  PROVE  Inv(S, T, W, n, dr, rp)
<1>1. /\ Tables(S, T, W) /\ r \in RunType /\ dr \in DrillType /\ rp \in RepType /\ Stages(S, r, dr, rp)
  BY InvParts
<1>2. Stages(S, n, dr, rp) /\ rp.status = "none"
  BY <1>1 DEF Stages, Undecided, Counting, Hashed, Bagged, Drills
<1>3. n.pc \in Undecided /\ n.pc \notin Counting /\ n.pc \notin Hashed /\ n.pc # "windowTarget" /\ n.pc # "bagTarget"
  BY DEF Undecided, Bagged, Counting, Hashed
<1> QED
  BY <1>1, <1>2, <1>3, OtherStages DEF Inv

LEMMA WindowsStart ==
  ASSUME Sized, NEW S, NEW T, NEW W, NEW r, NEW dr, NEW rp, Inv(S, T, W, r, dr, rp), r.pc = "countTarget",
         r.range > Len(r.bounds), r.source # 0, S.key # "none",
         r.source = r.target + Cardinality(Ranged(S, T, r.bounds, "target", r.range)),
         NEW n, n = [r EXCEPT !.pc = "window", !.bounds = <<>>, !.range = 1, !.target = 0, !.seek = Nil,
                              !.left = (r.source + ChunkSize - 1) \div ChunkSize]
  PROVE  Inv(S, T, W, n, dr, rp)
<1>1. /\ Tables(S, T, W) /\ r \in RunType /\ dr \in DrillType /\ rp \in RepType /\ Stages(S, r, dr, rp)
  BY InvParts
<1> DEFINE m == (r.source + ChunkSize - 1) \div ChunkSize
<1>2. r.source \in Nat
  BY <1>1 DEF RunType
<1>3. m \in Nat /\ m * ChunkSize >= r.source /\ m >= 1
  BY <1>2, PagesSuffice DEF Sized
<1> HIDE DEF m
<1>4. n = [r EXCEPT !.pc = "window", !.bounds = <<>>, !.range = 1, !.target = 0, !.seek = Nil, !.left = m]
  BY DEF m
<1>10. n \in RunType
  <2> DEFINE e == <<>>
  <2>1. "window" \in Stops /\ e \in Seq(Slots) /\ Nil \in Positions /\ 1 \in Nat \ {0} /\ 0 \in Nat
    BY StopsAre DEF Positions
  <2>2. n = [r EXCEPT !.pc = "window", !.bounds = e, !.range = 1, !.target = 0, !.seek = Nil, !.left = m]
    BY <1>4
  <2> HIDE DEF e
  <2> QED
    BY <1>1, <1>3, <2>1, <2>2, ZenonT(60) DEF RunType
<1>5. /\ n.pc = "window" /\ n.bounds = <<>> /\ n.seek = Nil /\ n.left = m
      /\ n.source = r.source /\ n.covered = r.covered
      /\ n.null = r.null /\ n.bad = r.bad /\ n.error = r.error /\ n.cut = r.cut
  BY <1>1, <1>4 DEF RunType
<1>6. Stages(S, n, dr, rp) /\ rp.status = "none" /\ r.covered = 0 /\ ~r.bad
  BY <1>1, <1>3, <1>5 DEF Stages, Undecided, Counting, Hashed, Bagged, Drills
<1>7. Sums(T, W, n)
  BY <1>5, CountsSay DEF Sums
<1>8. Windows(S, T, W, n)
  <2>1. ToCome(S, T, W, Nil)
    BY BeyondNil DEF ToCome
  <2>2. Cardinality(Through(S, T, Nil)) = 0
    <3>1. Through(S, T, Nil) = {}
      BY BeyondNil DEF Through
    <3> QED
      BY <3>1, FS_EmptySet
  <2>3. n.covered + n.left * ChunkSize >= n.source
    <3>1. m * ChunkSize \in Int
      BY <1>3 DEF Sized
    <3> QED
      BY <1>2, <1>3, <1>5, <1>6, <3>1
  <2> QED
    BY <1>5, <1>6, <2>1, <2>2, <2>3 DEF Windows, Nil, NullKey
<1>9. n.pc \in Undecided /\ n.pc \notin Counting /\ n.pc # "windowTarget" /\ n.pc # "bagTarget"
  BY <1>5 DEF Undecided, Hashed, Counting
<1> QED
  BY <1>1, <1>5, <1>6, <1>7, <1>8, <1>9, <1>10, OtherStages DEF Inv

\* A count fails: no verdict on rows.
LEMMA Errs ==
  ASSUME NEW S, NEW T, NEW W, NEW r, NEW dr, NEW rp, Inv(S, T, W, r, dr, rp),
         NEW n \in RunType, n.pc = "end", n.bounds = r.bounds,
         n.error \/ (S.ranged /\ r.bounds = <<>>),
         NEW rq, rq = [status |-> "FAIL", by |-> "error"]
  PROVE  Inv(S, T, W, n, dr, rq)
<1>1. /\ Tables(S, T, W) /\ r \in RunType /\ dr \in DrillType /\ rp \in RepType /\ Stages(S, r, dr, rp)
  BY InvParts
<1>2. rq.status = "FAIL" /\ rq.by = "error" /\ rq \in RepType
  BY DEF RepType
<1>3. Stages(S, n, dr, rq)
  BY <1>1, <1>2 DEF Stages, Undecided, Counting, Hashed, Bagged, Drills
<1>4. Verdict(S, T, W, n, rq)
  BY <1>2 DEF Verdict
<1>5. n.pc \notin Counting /\ n.pc \notin Hashed /\ n.pc # "windowTarget" /\ n.pc # "bagTarget"
      /\ ~DrilledIn(S, n, rq)
  BY <1>2 DEF Counting, Hashed, DrilledIn
<1> QED
  BY <1>1, <1>2, <1>3, <1>4, <1>5, OtherStages DEF Inv

\* A window of the source.
LEMMA SourceRead ==
  ASSUME Sized, NEW S, NEW T, NEW W, NEW r, NEW dr, NEW rp, Inv(S, T, W, r, dr, rp), r.pc = "window",
         NEW w, w = Page(S, T, "source", r.seek, ChunkSize),
         NEW n, n = [r EXCEPT !.pc = "windowTarget", !.fetched = w, !.hash = Digest(S, T, "source", w)]
  PROVE  Inv(S, T, W, n, dr, rp)
<1>1. /\ Tables(S, T, W) /\ r \in RunType /\ dr \in DrillType /\ rp \in RepType
      /\ Stages(S, r, dr, rp) /\ Sums(T, W, r) /\ Windows(S, T, W, r)
  BY InvParts
<1>2. /\ w \subseteq RowsBehind(S, T, "source", r.seek)
      /\ \A s \in RowsBehind(S, T, "source", r.seek) \ w :
           Cardinality(w) >= ChunkSize /\ \A q \in w : Order(S, "source", q) < Order(S, "source", s)
  BY WindowCut DEF Sized, Sides
<1>3. w \subseteq RowsOf(T, "source") /\ w \subseteq Slots /\ \A s \in w : Beyond(S, "source", s, r.seek)
  BY <1>2 DEF RowsBehind, RowsOf
<1> DEFINE h == Digest(S, T, "source", w)
<1>4. h \in Hashes
  BY <1>1, <1>3, DigestType DEF Tables, Sides
<1>5. ~S.hidden => h = [s \in w |-> T["source"][s]]
  BY DEF Digest
<1>6. h = Digest(S, T, "source", w) /\ n = [r EXCEPT !.pc = "windowTarget", !.fetched = w, !.hash = h]
  OBVIOUS
<1> HIDE DEF h
<1>7. n \in RunType
  <2>1. "windowTarget" \in Stops
    BY StopsAre
  <2> QED
    BY <1>1, <1>3, <1>4, <1>6, <2>1, ZenonT(60) DEF RunType
<1>8. /\ n.pc = "windowTarget" /\ n.fetched = w /\ n.hash = h /\ n.seek = r.seek
      /\ n.bounds = r.bounds /\ n.source = r.source /\ n.covered = r.covered /\ n.left = r.left
      /\ n.null = r.null /\ n.bad = r.bad /\ n.error = r.error /\ n.cut = r.cut
  BY <1>1, <1>6 DEF RunType
<1>9. Stages(S, n, dr, rp) /\ rp.status = "none"
  BY <1>1, <1>8 DEF Stages, Undecided, Counting, Hashed, Bagged, Drills
<1>10. Sums(T, W, n) /\ Windows(S, T, W, n)
  BY <1>1, <1>8 DEF Sums, Windows, Hashed
<1>11. Half(S, T, W, n)
  <2>1. ~S.hidden => DOMAIN h = w /\ \A s \in w \ W : h[s] = T["source"][s]
    BY <1>5
  <2>2. ASSUME NEW s \in Slots \ (W \cup w \cup {NullKey}), T["source"][s] # 0, Beyond(S, "source", s, r.seek)
        PROVE  Cardinality(w) >= ChunkSize /\ \A q \in w : Order(S, "source", q) < Order(S, "source", s)
    <3>1. s \in RowsBehind(S, T, "source", r.seek) \ w
      BY <2>2 DEF RowsBehind, RowsOf
    <3> QED
      BY <1>2, <3>1
  <2> QED
    BY <1>3, <1>6, <1>8, <2>1, <2>2 DEF Half
<1>12. n.pc \in Undecided /\ n.pc \notin Counting /\ n.pc # "bagTarget"
  BY <1>8 DEF Undecided, Hashed, Counting
<1> QED
  BY <1>1, <1>7, <1>9, <1>10, <1>11, <1>12, OtherStages DEF Inv

\* The windows are over and trusted: their verdict, and the drill.
LEMMA Closed ==
  ASSUME Sized, NEW S, NEW T, NEW W, NEW r, NEW dr, NEW rp, Inv(S, T, W, r, dr, rp), r.pc \in Hashed,
         NEW m \in RunType, m.bounds = r.bounds, m.cut = r.cut,
         NEW rq, rq = [status |-> IF m.bad \/ m.error THEN "FAIL" ELSE "PASS", by |-> "windows"],
         Verdict(S, T, W, m, rq),
         NEW n, n = IF m.bad THEN [m EXCEPT !.pc = FirstScan(S)] ELSE [m EXCEPT !.pc = "end"]
  PROVE  Inv(S, T, W, n, dr, rq)
<1>1. /\ Tables(S, T, W) /\ r \in RunType /\ dr \in DrillType /\ rp \in RepType /\ Stages(S, r, dr, rp)
  BY InvParts
<1>2. dr = NoDrill /\ S.key \in {"pk", "unique"} /\ (S.ranged \/ r.bounds = <<>>)
  BY <1>1 DEF Stages, Undecided, Hashed, Tables, Setup
<1>3. FirstScan(S) \in {"fetch", "nulls"} /\ (FirstScan(S) = "nulls" => S.key = "unique")
  BY <1>2 DEF FirstScan
<1>4. n \in RunType
  <2>1. FirstScan(S) \in Stops /\ "end" \in Stops
    BY <1>3, StopsAre
  <2> QED
    BY <2>1 DEF RunType
<1>5. /\ n.pc = (IF m.bad THEN FirstScan(S) ELSE "end") /\ n.bounds = r.bounds /\ n.cut = m.cut
      /\ n.bad = m.bad /\ n.error = m.error /\ n.short = m.short /\ m.bad \in BOOLEAN
  BY DEF RunType
<1>6. rq.status \in {"PASS", "FAIL"} /\ rq.by = "windows" /\ rq \in RepType /\ (m.bad => rq.status = "FAIL")
  BY DEF RepType
<1>7. Stages(S, n, dr, rq)
  BY <1>2, <1>3, <1>5, <1>6 DEF Stages, DrilledIn, Undecided, Counting, Hashed, Bagged, Drills
<1>8. Verdict(S, T, W, n, rq)
  BY <1>5 DEF Verdict
<1>9. Drill(S, T, W, n, dr, rq)
  <2>1. CASE m.bad
    BY <1>1, <1>2, <1>5, <2>1, DrillStarts
  <2>2. CASE ~m.bad
    <3>1. n.pc = "end" /\ ~DrilledIn(S, n, rq)
      BY <1>5, <1>6, <2>2 DEF DrilledIn
    <3> QED
      BY <3>1, OtherStages
  <2> QED
    BY <2>1, <2>2
<1>10. n.pc \notin Counting /\ n.pc \notin Hashed /\ n.pc # "windowTarget" /\ n.pc # "bagTarget"
  BY <1>3, <1>5 DEF Counting, Hashed
<1> QED
  BY <1>1, <1>4, <1>6, <1>7, <1>8, <1>9, <1>10, OtherStages DEF Inv

\* What both sides have given of a window.
AfterWindow(S, T, r) ==
  LET w == Partner(S, T, r)
      null == NullKey \in r.fetched \cup w
  IN  [r EXCEPT !.covered = @ + Cardinality(r.fetched), !.null = null,
                !.bad = @ \/ Digest(S, T, "target", w) # r.hash,
                !.short = ~null /\ Cardinality(r.fetched) < ChunkSize,
                !.left = @ - 1, !.fetched = {}, !.hash = Stream.rows, !.seek = Nil]

LEMMA AfterWindowIs ==
  ASSUME Sized, NEW S, NEW T, NEW W, NEW r, Reading(S, T, W, r), r.left >= 1, NEW m, m = AfterWindow(S, T, r)
  PROVE  /\ m \in RunType /\ m.bounds = r.bounds /\ m.cut = r.cut /\ m.error = r.error /\ m.pc = r.pc
         /\ m.covered = r.covered + Cardinality(r.fetched) /\ m.left = r.left - 1
         /\ m.source = r.source
         /\ m.null = (NullKey \in r.fetched \cup Partner(S, T, r))
         /\ m.bad = (r.bad \/ Digest(S, T, "target", Partner(S, T, r)) # r.hash)
         /\ m.short = (NullKey \notin r.fetched \cup Partner(S, T, r) /\ Cardinality(r.fetched) < ChunkSize)
<1> DEFINE null == NullKey \in r.fetched \cup Partner(S, T, r)
           bad == r.bad \/ Digest(S, T, "target", Partner(S, T, r)) # r.hash
           short == ~null /\ Cardinality(r.fetched) < ChunkSize
           c == r.covered + Cardinality(r.fetched)
           l == r.left - 1
           h == Stream.rows
<1>1. m = [r EXCEPT !.covered = c, !.null = null, !.bad = bad, !.short = short, !.left = l,
                    !.fetched = {}, !.hash = h, !.seek = Nil]
  BY DEF AfterWindow
<1>2. r \in RunType
  BY DEF Reading
<1>3. c \in Nat /\ l \in Nat
  BY ReadingFacts
<1>4. null \in BOOLEAN /\ bad \in BOOLEAN /\ short \in BOOLEAN
  OBVIOUS
<1>5. h \in Hashes
  <2>1. h \in [{} -> 0..MaxVal]
    BY DEF Stream
  <2> QED
    BY <2>1 DEF Hashes, Images
<1>6. Nil \in Positions /\ {} \in SUBSET Slots
  BY DEF Positions
<1>7. /\ null = (NullKey \in r.fetched \cup Partner(S, T, r))
      /\ bad = (r.bad \/ Digest(S, T, "target", Partner(S, T, r)) # r.hash)
      /\ short = (NullKey \notin r.fetched \cup Partner(S, T, r) /\ Cardinality(r.fetched) < ChunkSize)
      /\ c = r.covered + Cardinality(r.fetched) /\ l = r.left - 1
  OBVIOUS
<1> HIDE DEF null, bad, short, c, l, h
<1>8. m \in RunType
  BY <1>1, <1>2, <1>3, <1>4, <1>5, <1>6, ZenonT(60) DEF RunType
<1>9. /\ m.bounds = r.bounds /\ m.cut = r.cut /\ m.error = r.error /\ m.pc = r.pc /\ m.covered = c /\ m.left = l
      /\ m.source = r.source /\ m.null = null /\ m.bad = bad /\ m.short = short
  BY <1>1, <1>2 DEF RunType
<1> QED
  BY <1>7, <1>8, <1>9

\* Trusted windows that end: a verdict that holds.
LEMMA WindowsVerdict ==
  ASSUME Sized, NEW S, NEW T, NEW W, NEW r, Reading(S, T, W, r), r.left >= 1, ~r.error,
         NEW m, m = AfterWindow(S, T, r), m.null \/ Cardinality(r.fetched) < ChunkSize \/ m.left = 0,
         ~(S.key = "unique" /\ (m.null \/ m.covered < m.source)),
         NEW rq, rq = [status |-> IF m.bad \/ m.error THEN "FAIL" ELSE "PASS", by |-> "windows"]
  PROVE  Verdict(S, T, W, m, rq)
<1>1. /\ m \in RunType /\ m.error = r.error /\ m.source = r.source
      /\ m.covered = r.covered + Cardinality(r.fetched) /\ m.left = r.left - 1
      /\ m.null = (NullKey \in r.fetched \cup Partner(S, T, r))
      /\ m.bad = (r.bad \/ Digest(S, T, "target", Partner(S, T, r)) # r.hash)
      /\ m.short = (NullKey \notin r.fetched \cup Partner(S, T, r) /\ Cardinality(r.fetched) < ChunkSize)
  BY AfterWindowIs
<1>2. rq.by = "windows" /\ (rq.status = "PASS" => ~m.bad) /\ (rq.status = "FAIL" => m.bad)
  BY <1>1
<1>3. ASSUME rq.status = "PASS", ~S.hidden, m.short \/ W = {}, NEW s \in Slots \ W, s = NullKey => W = {}
      PROVE  Agrees(T, s)
  <2>1. ~r.bad /\ Digest(S, T, "target", Partner(S, T, r)) = r.hash
    BY <1>1, <1>2, <1>3
  <2>2. \/ NullKey \in r.fetched \cup Partner(S, T, r)
        \/ Cardinality(r.fetched) < ChunkSize
        \/ r.left - 1 = 0
    BY <1>1
  <2>3. ~(S.key = "unique" /\ (NullKey \in r.fetched \cup Partner(S, T, r)
                               \/ r.covered + Cardinality(r.fetched) < r.source))
    BY <1>1
  <2>4. \/ NullKey \notin r.fetched \cup Partner(S, T, r) /\ Cardinality(r.fetched) < ChunkSize
        \/ W = {}
    BY <1>1, <1>3
  <2> QED
    BY <1>3, <2>1, <2>2, <2>3, <2>4, WindowsPass
<1>4. ASSUME rq.status = "FAIL", W = {}, S.own = "none", ~S.hidden, Same(S, T) PROVE FALSE
  <2>1. ~r.bad
    BY <1>4 DEF Reading, Windows, Hashed
  <2>2. S.key # "unique" \/ NullKey \notin Partner(S, T, r)
    BY <1>1
  <2>3. r.seek # Nil \/ T["target"][NullKey] = 0
    BY <2>2, NoNull
  <2>4. Digest(S, T, "target", Partner(S, T, r)) = r.hash
    BY <1>4, <2>3, SamePages
  <2> QED
    BY <1>1, <1>2, <1>4, <2>1, <2>4
<1> QED
  BY <1>2, <1>3, <1>4 DEF Verdict

\* The next window.
LEMMA WindowNext ==
  ASSUME Sized, NEW S, NEW T, NEW W, NEW r, NEW dr, NEW rp, Inv(S, T, W, r, dr, rp), r.pc = "windowTarget",
         NEW m, m = AfterWindow(S, T, r), ~m.null, ~(Cardinality(r.fetched) < ChunkSize), m.left # 0,
         NEW n, n = [m EXCEPT !.pc = "window", !.seek = Final(S, "source", r.fetched)]
  PROVE  Inv(S, T, W, n, dr, rp)
<1>1. /\ Tables(S, T, W) /\ r \in RunType /\ dr \in DrillType /\ rp \in RepType
      /\ Stages(S, r, dr, rp) /\ Sums(T, W, r) /\ Windows(S, T, W, r) /\ Half(S, T, W, r)
  BY InvParts
<1>2. Reading(S, T, W, r) /\ r.left >= 1
  BY <1>1 DEF Reading, Stages, Hashed
<1>3. /\ m \in RunType /\ m.bounds = r.bounds /\ m.cut = r.cut /\ m.error = r.error
      /\ m.covered = r.covered + Cardinality(r.fetched) /\ m.left = r.left - 1 /\ m.source = r.source
      /\ m.null = (NullKey \in r.fetched \cup Partner(S, T, r))
      /\ m.bad = (r.bad \/ Digest(S, T, "target", Partner(S, T, r)) # r.hash)
  BY <1>2, AfterWindowIs
<1>12. NullKey \notin r.fetched \cup Partner(S, T, r)
  BY <1>3
<1>4. Cardinality(r.fetched) \in Nat /\ Cardinality(r.fetched) >= ChunkSize /\ r.fetched # {}
  <2>1. Cardinality(r.fetched) \in Nat
    BY <1>2, ReadingFacts
  <2>2. Cardinality(r.fetched) >= ChunkSize /\ Cardinality(r.fetched) # 0
    BY <2>1 DEF Sized
  <2> QED
    BY <2>1, <2>2, FS_EmptySet
<1> DEFINE k == Final(S, "source", r.fetched)
<1>5. k \in Positions
  BY <1>2, <1>4, <1>12, NextSeek DEF Positions
<1> HIDE DEF k
<1>6. n \in RunType /\ n.pc = "window" /\ n.seek = k /\ n.bounds = r.bounds /\ n.cut = r.cut /\ n.error = r.error
      /\ n.covered = m.covered /\ n.left = m.left /\ n.source = m.source /\ n.bad = m.bad /\ n.null = m.null
  <2>1. n = [m EXCEPT !.pc = "window", !.seek = k]
    BY DEF k
  <2>2. "window" \in Stops
    BY StopsAre
  <2> QED
    BY <1>3, <1>5, <2>1, <2>2, ZenonT(60) DEF RunType
<1>7. n.left >= 1
  <2>1. m.left \in Nat
    BY <1>3, RunFields
  <2> QED
    BY <1>6, <2>1
<1>8. Stages(S, n, dr, rp) /\ rp.status = "none"
  BY <1>1, <1>6, <1>7 DEF Stages, Undecided, Counting, Hashed, Bagged, Drills
<1>9. Windows(S, T, W, n)
  <2>1. /\ n.seek = Final(S, "source", r.fetched) /\ n.covered = r.covered + Cardinality(r.fetched)
        /\ n.left = r.left - 1 /\ n.source = r.source
        /\ n.bad = (r.bad \/ Digest(S, T, "target", Partner(S, T, r)) # r.hash)
    BY <1>3, <1>6 DEF k
  <2> QED
    BY <1>2, <1>4, <1>12, <2>1, WindowsGoOn
<1>10. Sums(T, W, n)
  BY <1>1, <1>3, <1>6 DEF Sums, Hashed
<1>11. n.pc \in Undecided /\ n.pc \notin Counting /\ n.pc # "windowTarget" /\ n.pc # "bagTarget"
  BY <1>6 DEF Undecided, Hashed, Counting
<1> QED
  BY <1>1, <1>6, <1>8, <1>9, <1>10, <1>11, OtherStages DEF Inv

\* All rows of the source, or as many as were read.
LEMMA BagRead ==
  ASSUME Sized, NEW S, NEW T, NEW W, NEW r, NEW dr, NEW rp, Inv(S, T, W, r, dr, rp), r.pc = "bag",
         NEW R, R \subseteq RowsOf(T, "source"), NEW cut \in BOOLEAN, ~cut => R = RowsOf(T, "source"),
         NEW n, n = [r EXCEPT !.pc = "bagTarget", !.hash = Digest(S, T, "source", R), !.cut = cut]
  PROVE  Inv(S, T, W, n, dr, rp)
<1>1. Tables(S, T, W) /\ r \in RunType /\ dr \in DrillType /\ rp \in RepType /\ Stages(S, r, dr, rp)
  BY InvParts
<1> DEFINE h == Digest(S, T, "source", R)
<1>2. h \in Hashes /\ cut \in BOOLEAN
  <2>1. h \in Hashes
    BY <1>1, DigestType DEF Tables, Sides
  <2> QED
    BY <2>1
<1>3. ~S.hidden => h = [s \in R |-> T["source"][s]]
  BY DEF Digest
<1>4. /\ h = Digest(S, T, "source", R) /\ (~cut => R = RowsOf(T, "source"))
      /\ n = [r EXCEPT !.pc = "bagTarget", !.hash = h, !.cut = cut]
  OBVIOUS
<1> HIDE DEF h
<1>5. n \in RunType
  <2>1. "bagTarget" \in Stops
    BY StopsAre
  <2> QED
    BY <1>1, <1>2, <1>4, <2>1 DEF RunType
<1>6. n.pc = "bagTarget" /\ n.hash = h /\ n.cut = cut /\ n.bounds = r.bounds
  BY <1>1, <1>4 DEF RunType
<1>7. Stages(S, n, dr, rp) /\ rp.status = "none"
  BY <1>1, <1>6 DEF Stages, Undecided, Counting, Hashed, Bagged, Drills
<1>8. Bag(S, T, W, n)
  <2> SUFFICES ASSUME ~cut
               PROVE  /\ ~S.hidden =>
                           \A s \in Slots \ W : /\ s \in DOMAIN h <=> T["source"][s] # 0
                                                /\ s \in DOMAIN h => h[s] = T["source"][s]
                      /\ W = {} => h = Digest(S, T, "source", RowsOf(T, "source"))
    BY <1>6 DEF Bag
  <2>1. \A s \in Slots : s \in R <=> T["source"][s] # 0
    BY <1>4 DEF RowsOf
  <2>2. ~S.hidden => DOMAIN h = R /\ \A s \in R : h[s] = T["source"][s]
    BY <1>3
  <2> QED
    BY <1>4, <2>1, <2>2
<1>9. n.pc \in Undecided /\ n.pc \notin Counting /\ n.pc \notin Hashed /\ n.pc # "windowTarget"
  BY <1>6 DEF Undecided, Bagged, Counting, Hashed
<1> QED
  BY <1>1, <1>5, <1>7, <1>8, <1>9, OtherStages DEF Inv

LEMMA BagCompared ==
  ASSUME Sized, NEW S, NEW T, NEW W, NEW r, NEW dr, NEW rp, Inv(S, T, W, r, dr, rp), r.pc = "bagTarget",
         NEW R, R \subseteq RowsOf(T, "target"),
         NEW n, n = [r EXCEPT !.pc = "end", !.hash = Stream.rows, !.cut = @ \/ R # RowsOf(T, "target")],
         NEW rq, rq = [status |-> IF Digest(S, T, "target", R) = r.hash THEN "PASS" ELSE "FAIL", by |-> "bag"]
  PROVE  Inv(S, T, W, n, dr, rq)
<1>1. /\ Tables(S, T, W) /\ r \in RunType /\ dr \in DrillType /\ rp \in RepType
      /\ Stages(S, r, dr, rp) /\ Bag(S, T, W, r)
  BY InvParts
<1> DEFINE h == Stream.rows
           cut == r.cut \/ R # RowsOf(T, "target")
<1>2. h \in Hashes /\ cut \in BOOLEAN
  <2>1. h \in [{} -> 0..MaxVal]
    BY DEF Stream
  <2> QED
    BY <2>1 DEF Hashes, Images
<1>3. (~cut => ~r.cut /\ R = RowsOf(T, "target")) /\ n = [r EXCEPT !.pc = "end", !.hash = h, !.cut = cut]
  OBVIOUS
<1> HIDE DEF h, cut
<1>4. n \in RunType
  <2>1. "end" \in Stops
    BY StopsAre
  <2> QED
    BY <1>1, <1>2, <1>3, <2>1 DEF RunType
<1>5. n.pc = "end" /\ n.cut = cut /\ n.bounds = r.bounds
  BY <1>1, <1>3 DEF RunType
<1>6. /\ rq.by = "bag" /\ rq \in RepType /\ rq.status \in {"PASS", "FAIL"}
      /\ rq.status = "PASS" <=> Digest(S, T, "target", R) = r.hash
  BY DEF RepType
<1>7. Stages(S, n, dr, rq)
  BY <1>1, <1>5, <1>6 DEF Stages, Undecided, Counting, Hashed, Bagged, Drills
<1>8. ~cut => R = RowsOf(T, "target") /\ (W = {} => r.hash = Digest(S, T, "source", RowsOf(T, "source")))
  BY <1>1, <1>3 DEF Bag
<1>9. ~cut /\ W = {} => (rq.status = "PASS" <=> Same(S, T))
  BY <1>6, <1>8 DEF Same
<1>10. ASSUME ~cut, ~S.hidden, rq.status = "PASS", NEW s \in Slots \ W PROVE Agrees(T, s)
  <2>1. r.hash = [q \in R |-> T["target"][q]]
    BY <1>6, <1>10 DEF Digest
  <2>2. DOMAIN r.hash = R /\ \A q \in R : r.hash[q] = T["target"][q]
    BY <2>1
  <2>3. (s \in R <=> T["source"][s] # 0) /\ (s \in R => r.hash[s] = T["source"][s])
    BY <1>1, <1>3, <1>10, <2>2 DEF Bag
  <2>4. s \in R <=> T["target"][s] # 0
    BY <1>8, <1>10 DEF RowsOf
  <2> QED
    BY <2>2, <2>3, <2>4 DEF Agrees
<1>11. Verdict(S, T, W, n, rq)
  BY <1>5, <1>6, <1>9, <1>10 DEF Verdict
<1>12. n.pc \notin Counting /\ n.pc \notin Hashed /\ n.pc # "windowTarget" /\ n.pc # "bagTarget"
       /\ ~DrilledIn(S, n, rq)
  BY <1>5, <1>6 DEF Counting, Hashed, DrilledIn
<1> QED
  BY <1>1, <1>4, <1>5, <1>6, <1>7, <1>11, <1>12, OtherStages DEF Inv

\* A step of the drill changes no verdict.
LEMMA DrillStep ==
  ASSUME NEW S, NEW T, NEW W, NEW r, NEW dr, NEW rp, Inv(S, T, W, r, dr, rp), r.pc \in Drills,
         NEW p, p \in {"nullsTarget", "fetch", "fetchTarget", "end"}, p = "nullsTarget" => S.key = "unique",
         NEW n, n = [r EXCEPT !.pc = p], NEW dq \in DrillType, Drill(S, T, W, n, dq, rp)
  PROVE  Inv(S, T, W, n, dq, rp)
<1>1. /\ Tables(S, T, W) /\ r \in RunType /\ rp \in RepType /\ Stages(S, r, dr, rp) /\ Verdict(S, T, W, r, rp)
  BY InvParts
<1>2. n \in RunType
  <2>1. p \in Stops
    BY StopsAre
  <2> QED
    BY <1>1, <2>1 DEF RunType
<1>3. /\ n.pc = p /\ n.bounds = r.bounds /\ n.bad = r.bad /\ n.cut = r.cut /\ n.error = r.error /\ n.short = r.short
  BY <1>1 DEF RunType
<1>4. Stages(S, n, dq, rp)
  BY <1>1, <1>3 DEF Stages, DrilledIn, Undecided, Counting, Hashed, Bagged, Drills
<1>5. Verdict(S, T, W, n, rp)
  BY <1>1, <1>3 DEF Verdict
<1>6. n.pc \notin Counting /\ n.pc \notin Hashed /\ n.pc # "windowTarget" /\ n.pc # "bagTarget"
  BY <1>3 DEF Counting, Hashed
<1> QED
  BY <1>1, <1>2, <1>4, <1>5, <1>6, OtherStages DEF Inv

\* The drill breaks off, with a reason.
LEMMA DrillBreaks ==
  ASSUME NEW S, NEW T, NEW W, NEW r, NEW dr, NEW rp, Inv(S, T, W, r, dr, rp), r.pc \in Drills,
         NEW note, note \in {"null", "order", "error"}, NEW n, n = [r EXCEPT !.pc = "end"],
         NEW dq, dq = [dr EXCEPT !.note = note]
  PROVE  Inv(S, T, W, n, dq, rp)
<1>1. dr \in DrillType /\ r \in RunType
  BY InvParts
<1>2. dq \in DrillType /\ dq.note # "none"
  BY <1>1 DEF DrillType
<1>3. n.pc = "end"
  BY <1>1 DEF RunType
<1>4. Drill(S, T, W, n, dq, rp)
  BY <1>2, <1>3 DEF Drill
<1> QED
  BY <1>2, <1>4, DrillStep

\* Rows without a key are probed for, on one side and then on the other.
LEMMA NullsScanned ==
  ASSUME Sized, NEW S, NEW T, NEW W, NEW r, NEW dr, NEW rp, Inv(S, T, W, r, dr, rp),
         NEW dq, NEW d \in Sides, NEW p, NEW n, n = [r EXCEPT !.pc = p],
         \/ r.pc = "nulls" /\ d = "source" /\ p = "nullsTarget"
         \/ r.pc = "nullsTarget" /\ d = "target" /\ p = "fetch",
         \/ T[d][NullKey] = 0 /\ dq = dr
         \/ dq = [dr EXCEPT !.missed = TRUE]
  PROVE  Inv(S, T, W, n, dq, rp)
<1>1. Tables(S, T, W) /\ r \in RunType /\ dr \in DrillType /\ Stages(S, r, dr, rp) /\ Drill(S, T, W, r, dr, rp)
  BY InvParts
<1>2. /\ dq \in DrillType /\ (dq.missed \/ (dq = dr /\ T[d][NullKey] = 0))
      /\ dq.note = dr.note /\ dq.stream = dr.stream /\ dq.found = dr.found
  <2>1. CASE dq = dr /\ T[d][NullKey] = 0
    BY <1>1, <2>1
  <2>2. CASE dq = [dr EXCEPT !.missed = TRUE]
    <3>1. dq \in DrillType
      BY <1>1, <2>2 DEF DrillType
    <3>2. dq.missed = TRUE /\ dq.note = dr.note /\ dq.stream = dr.stream /\ dq.found = dr.found
      BY <1>1, <2>2 DEF DrillType
    <3>3. dq.missed
      BY <3>2
    <3> QED
      BY <3>1, <3>2, <3>3
  <2> QED
    BY <2>1, <2>2
<1>3. n.pc = p
  BY <1>1 DEF RunType
<1>4. S.key = "unique"
  BY <1>1 DEF Stages
<1>5. dr.note = "none" /\ dr.stream = NoDrill.stream /\ dr.found = NoDrill.found
  BY <1>1 DEF Drill, NoDrill
<1>6. r.pc = "nullsTarget" => NullsGone(T, W, dr, {"source"})
  BY <1>1 DEF Drill
<1>7. CASE p = "nullsTarget"
  <2>1. d = "source" /\ r.pc \in Drills
    BY <1>7 DEF Drills
  <2>2. NullsGone(T, W, dq, {"source"})
    BY <1>2, <2>1 DEF NullsGone
  <2>3. Drill(S, T, W, n, dq, rp)
    BY <1>2, <1>3, <1>5, <1>7, <2>2 DEF Drill
  <2> QED
    BY <1>2, <1>4, <1>7, <2>1, <2>3, DrillStep
<1>8. CASE p = "fetch"
  <2>1. d = "target" /\ r.pc = "nullsTarget" /\ r.pc \in Drills
    BY <1>8 DEF Drills
  <2>2. NullsGone(T, W, dq, Sides)
    <3> SUFFICES ASSUME ~dq.missed, NullKey \notin W PROVE \A e \in Sides : T[e][NullKey] = 0
      BY DEF NullsGone
    <3>1. dq = dr /\ T["target"][NullKey] = 0
      BY <1>2, <2>1
    <3>2. T["source"][NullKey] = 0
      BY <1>6, <2>1, <3>1 DEF NullsGone
    <3> QED
      BY <3>1, <3>2 DEF Sides
  <2>3. Merging(S, T, W, NoDrill.stream, NoDrill.found)
    BY <1>1, NothingMerged
  <2>6. Drill(S, T, W, n, dq, rp)
    BY <1>2, <1>3, <1>5, <1>8, <2>2, <2>3 DEF Drill
  <2> QED
    BY <1>2, <1>8, <2>1, <2>6, DrillStep
<1> QED
  BY <1>7, <1>8

\* A side that ran dry is read on.
LEMMA SideFetched ==
  ASSUME Sized, NEW S, NEW T, NEW W, NEW r, NEW dr, NEW rp, Inv(S, T, W, r, dr, rp),
         r.pc \in {"fetch", "fetchTarget"}, NEW d \in Sides, Empty(dr.stream, d), ~dr.stream[d].done,
         NEW w, w = Page(S, T, d, dr.stream[d].seek, DrillSize), NullKey \notin w,
         \A s \in w : \A q \in w : Order(S, d, s) < Order(S, d, q) => s < q,
         \A s \in w : dr.stream[d].seek < s,
         NEW st, Gets(S, T, dr.stream, d, w, st)
  PROVE  Merging(S, T, W, st, dr.found) /\ (st[d].done \/ ~Empty(st, d))
<1>1. Tables(S, T, W) /\ dr \in DrillType /\ Drill(S, T, W, r, dr, rp)
  BY InvParts
<1>2. Merging(S, T, W, dr.stream, dr.found)
  BY <1>1 DEF Drill
<1>3. dr.stream \in [Sides -> StreamType]
  BY <1>1 DEF DrillType
<1> DEFINE old == dr.stream
           found == dr.found
<1>4. /\ old \in [Sides -> StreamType] /\ Merging(S, T, W, old, found) /\ Empty(old, d) /\ ~old[d].done
      /\ w = Page(S, T, d, old[d].seek, DrillSize) /\ \A s \in w : old[d].seek < s
      /\ Gets(S, T, old, d, w, st)
  BY <1>2, <1>3
<1> HIDE DEF old, found
<1>5. Merging(S, T, W, st, found) /\ (st[d].done \/ ~Empty(st, d))
  BY <1>1, <1>4, FetchKeeps
<1> QED
  BY <1>5 DEF old, found

LEMMA SourceReady ==
  ASSUME Sized, NEW S, NEW T, NEW W, NEW r, NEW dr, NEW rp, Inv(S, T, W, r, dr, rp), r.pc = "fetch",
         NEW st \in [Sides -> StreamType], Merging(S, T, W, st, dr.found),
         st["source"].done \/ ~Empty(st, "source"),
         NEW n, n = [r EXCEPT !.pc = "fetchTarget"], NEW dq, dq = [dr EXCEPT !.stream = st]
  PROVE  Inv(S, T, W, n, dq, rp)
<1>1. r \in RunType /\ dr \in DrillType /\ Drill(S, T, W, r, dr, rp)
  BY InvParts
<1>2. dq \in DrillType
  BY <1>1 DEF DrillType
<1>3. dq.note = dr.note /\ dq.missed = dr.missed /\ dq.found = dr.found /\ dq.stream = st
  BY <1>1 DEF DrillType
<1>4. n.pc = "fetchTarget"
  BY <1>1 DEF RunType
<1>5. dr.note = "none" /\ NullsGone(T, W, dr, Sides)
  BY <1>1 DEF Drill
<1>6. NullsGone(T, W, dq, Sides)
  BY <1>3, <1>5 DEF NullsGone
<1>7. Drill(S, T, W, n, dq, rp)
  BY <1>3, <1>4, <1>5, <1>6 DEF Drill
<1>8. r.pc \in Drills
  BY DEF Drills
<1> QED
  BY <1>2, <1>7, <1>8, DrillStep

\* Both sides are merged, and the drill ends when both are done.
LEMMA SidesMerged ==
  ASSUME Sized, NEW S, NEW T, NEW W, NEW r, NEW dr, NEW rp, Inv(S, T, W, r, dr, rp), r.pc = "fetchTarget",
         NEW st \in [Sides -> StreamType], Merging(S, T, W, st, dr.found),
         \A d \in Sides : st[d].done \/ ~Empty(st, d),
         NEW a, a = Aligned(st),
         NEW n, n = [r EXCEPT !.pc = IF \A d \in Sides : a.stream[d].done /\ Empty(a.stream, d)
                                     THEN "end" ELSE "fetch"],
         NEW dq, dq = [dr EXCEPT !.stream = a.stream, !.found = Joined(@, a.found)]
  PROVE  Inv(S, T, W, n, dq, rp)
<1>1. Tables(S, T, W) /\ r \in RunType /\ dr \in DrillType /\ Drill(S, T, W, r, dr, rp)
  BY InvParts
<1> DEFINE new == Joined(dr.found, a.found)
           over == \A d \in Sides : a.stream[d].done /\ Empty(a.stream, d)
           p == IF over THEN "end" ELSE "fetch"
<1>2. dr.found \in [Classes -> SUBSET Slots]
  BY <1>1 DEF DrillType
<1>3. /\ a.stream \in [Sides -> StreamType] /\ new \in [Classes -> SUBSET Slots]
      /\ Merging(S, T, W, a.stream, new)
      /\ over => /\ \A s \in Slots \ (W \cup {NullKey}) : Names(T, new, s)
                 /\ \A c \in Classes : NullKey \notin new[c]
  <2> DEFINE found == dr.found
  <2>1. found \in [Classes -> SUBSET Slots] /\ Merging(S, T, W, st, found)
        /\ new = Joined(found, a.found)
    BY <1>2
  <2> HIDE DEF found, new
  <2> QED
    BY <1>1, <2>1, MergeNames
<1>4. dq = [dr EXCEPT !.stream = a.stream, !.found = new] /\ n = [r EXCEPT !.pc = p]
  BY <1>1 DEF DrillType
<1>5. p \in {"end", "fetch"} /\ (p = "end" => over)
  OBVIOUS
<1> HIDE DEF new, over, p
<1>6. dq \in DrillType /\ dq.note = dr.note /\ dq.missed = dr.missed /\ dq.found = new /\ dq.stream = a.stream
  BY <1>1, <1>3, <1>4 DEF DrillType
<1>7. n.pc = p
  BY <1>1, <1>4 DEF RunType
<1>8. dr.note = "none" /\ NullsGone(T, W, dr, Sides)
  BY <1>1 DEF Drill
<1>9. NullsGone(T, W, dq, Sides)
  BY <1>6, <1>8 DEF NullsGone
<1>10. p = "end" /\ ~dq.missed => \A s \in Slots \ W : Names(T, new, s)
  <2> SUFFICES ASSUME p = "end", ~dq.missed, NEW s \in Slots \ W, s = NullKey PROVE Names(T, new, s)
    BY <1>3, <1>5
  <2>1. T["source"][s] = 0 /\ T["target"][s] = 0
    BY <1>9 DEF NullsGone, Sides
  <2>2. \A c \in Classes : s \notin new[c]
    BY <1>3, <1>5
  <2>3. {c \in Classes : s \in new[c]} = {} /\ ClassOf(T, s) = {}
    BY <2>1, <2>2 DEF ClassOf, Agrees
  <2> QED
    BY <2>3 DEF Names
<1>11. Drill(S, T, W, n, dq, rp)
  BY <1>3, <1>5, <1>6, <1>7, <1>8, <1>9, <1>10 DEF Drill
<1>12. r.pc \in Drills
  BY DEF Drills
<1> QED
  BY <1>4, <1>5, <1>6, <1>11, <1>12, DrillStep

-----------------------------------------------------------------------------
(* Writes meanwhile. *)

\* A row is written: what the comparison knows of the rows nobody wrote is still so.
LEMMA RowsWritten ==
  ASSUME NEW S, NEW T, NEW W, NEW r, NEW dr, NEW rp, Inv(S, T, W, r, dr, rp),
         NEW T2 \in TableType, NEW W2, W2 \subseteq Slots, W \subseteq W2, W2 # {},
         \A d \in Sides : \A s \in Slots \ W2 : T2[d][s] = T[d][s],
         S.key # "unique" => \A d \in Sides : T2[d][NullKey] = 0,
         NullKey \in Slots
  PROVE  Inv(S, T2, W2, r, dr, rp)
<1>1. /\ Tables(S, T, W) /\ r \in RunType /\ dr \in DrillType /\ rp \in RepType
      /\ Stages(S, r, dr, rp) /\ Bounds(S, r) /\ Counts(S, T, W, r)
      /\ Windows(S, T, W, r) /\ Half(S, T, W, r) /\ Bag(S, T, W, r)
      /\ Verdict(S, T, W, r, rp) /\ Drill(S, T, W, r, dr, rp)
  BY InvParts
<1>2. "source" \in Sides /\ "target" \in Sides
  BY DEF Sides
<1>3. \A s \in Slots \ W2 : s \in Slots \ W
  OBVIOUS
<1>4. \A s \in Slots \ W2 : T2["source"][s] = T["source"][s] /\ T2["target"][s] = T["target"][s]
  BY <1>2
<1>5. \A s \in Slots \ W2 : Agrees(T2, s) <=> Agrees(T, s)
  BY <1>4 DEF Agrees
<1>6. Tables(S, T2, W2)
  BY <1>1 DEF Tables
<1>7. Counts(S, T2, W2, r)
  <2>1. ASSUME NEW d \in Sides, NEW i, NEW m, Tally(S, T, W, r.bounds, d, i, m)
        PROVE  Tally(S, T2, W2, r.bounds, d, i, m)
    BY <2>1 DEF Tally
  <2> QED
    BY <1>1, <1>2, <2>1 DEF Counts
<1>8. Sums(T2, W2, r)
  BY DEF Sums
<1>9. Windows(S, T2, W2, r)
  <2>1. ToCome(S, T, W, r.seek) => ToCome(S, T2, W2, r.seek)
    BY <1>5 DEF ToCome
  <2>2. NullKey \notin W2 /\ T["target"][NullKey] = 0 => T2["target"][NullKey] = 0
    BY <1>4
  <2> QED
    BY <1>1, <2>1, <2>2 DEF Windows
<1>10. Half(S, T2, W2, r)
  <2> SUFFICES ASSUME r.pc = "windowTarget"
               PROVE  /\ ~S.hidden =>
                           /\ DOMAIN r.hash = r.fetched
                           /\ \A s \in r.fetched \ W2 : r.hash[s] = T2["source"][s]
                      /\ \A s \in Slots \ (W2 \cup r.fetched \cup {NullKey}) :
                           T2["source"][s] # 0 /\ Beyond(S, "source", s, r.seek) =>
                             /\ Cardinality(r.fetched) >= ChunkSize
                             /\ \A q \in r.fetched : Order(S, "source", q) < Order(S, "source", s)
                      /\ \A s \in r.fetched : Beyond(S, "source", s, r.seek)
    BY DEF Half
  <2>1. r.fetched \subseteq Slots
    BY <1>1, RunFields
  <2>2. /\ ~S.hidden =>
             /\ DOMAIN r.hash = r.fetched
             /\ \A s \in r.fetched \ W : r.hash[s] = T["source"][s]
        /\ \A s \in r.fetched : Beyond(S, "source", s, r.seek)
    BY <1>1 DEF Half
  <2>3. \A s \in Slots \ (W \cup r.fetched \cup {NullKey}) :
          T["source"][s] # 0 /\ Beyond(S, "source", s, r.seek) =>
            /\ Cardinality(r.fetched) >= ChunkSize
            /\ \A q \in r.fetched : Order(S, "source", q) < Order(S, "source", s)
    BY <1>1 DEF Half
  <2>4. \A s \in r.fetched \ W2 : s \in r.fetched \ W /\ T2["source"][s] = T["source"][s]
    BY <1>4, <2>1
  <2>5. \A s \in Slots \ (W2 \cup r.fetched \cup {NullKey}) :
          s \in Slots \ (W \cup r.fetched \cup {NullKey}) /\ T2["source"][s] = T["source"][s]
    BY <1>4
  <2> QED
    BY <2>2, <2>3, <2>4, <2>5
<1>11. Bag(S, T2, W2, r)
  BY <1>1, <1>4 DEF Bag
<1>12. Verdict(S, T2, W2, r, rp)
  BY <1>1, <1>5 DEF Verdict
<1>13. ASSUME NEW st, NEW s \in Slots \ W2 PROVE Doomed(S, T2, st, s) <=> Doomed(S, T, st, s)
  BY DEF Doomed
<1>14. ASSUME NEW found, NEW s \in Slots \ W2 PROVE Names(T2, found, s) <=> Names(T, found, s)
  <2>1. ClassOf(T2, s) = ClassOf(T, s)
    BY <1>4, <1>5 DEF ClassOf
  <2> QED
    BY <2>1 DEF Names
<1>15. ASSUME NEW st, NEW d \in Sides, NEW s \in Slots \ W2 PROVE View(T2, st, d, s) <=> View(T, st, d, s)
  BY DEF View
<1>16. ASSUME NEW st, NEW found, Merging(S, T, W, st, found) PROVE Merging(S, T2, W2, st, found)
  <2>1. PICK f \in Positions : Aligns(S, T, W, st, found, f)
    BY <1>16 DEF Merging
  <2>2. ASSUME NEW s \in Slots \ (W2 \cup {NullKey}), ~Doomed(S, T2, st, s)
        PROVE  (s <= f => Names(T2, found, s)) /\ (s > f => \A d \in Sides : View(T2, st, d, s))
    <3>1. ~Doomed(S, T, st, s) /\ s \in Slots \ (W \cup {NullKey})
      BY <1>13, <2>2
    <3>2. (s <= f => Names(T, found, s)) /\ (s > f => \A d \in Sides : View(T, st, d, s))
      BY <2>1, <3>1 DEF Aligns
    <3> QED
      BY <1>14, <1>15, <3>2
  <2>3. Aligns(S, T2, W2, st, found, f)
    BY <2>1, <2>2 DEF Aligns
  <2>4. \A d \in Sides : Shape(S, T, W, st, d)
    BY <1>16 DEF Merging
  <2>5. \A d \in Sides : Shape(S, T2, W2, st, d)
    BY <2>4 DEF Shape
  <2> QED
    BY <2>3, <2>5 DEF Merging
<1>17. ASSUME NEW D, D \subseteq Sides, NullsGone(T, W, dr, D) PROVE NullsGone(T2, W2, dr, D)
  BY <1>17 DEF NullsGone
<1>18. Drill(S, T2, W2, r, dr, rp)
  <2>1. r.pc = "nulls" => dr = NoDrill
    BY <1>1 DEF Drill
  <2>2. r.pc = "nullsTarget" =>
          dr.note = "none" /\ dr.stream = NoDrill.stream /\ dr.found = NoDrill.found /\ NullsGone(T2, W2, dr, {"source"})
    BY <1>1, <1>2, <1>17 DEF Drill
  <2>3. r.pc \in {"fetch", "fetchTarget"} =>
          dr.note = "none" /\ NullsGone(T2, W2, dr, Sides) /\ Merging(S, T2, W2, dr.stream, dr.found)
    BY <1>1, <1>16, <1>17 DEF Drill
  <2>4. r.pc = "fetchTarget" => dr.stream["source"].done \/ ~Empty(dr.stream, "source")
    BY <1>1 DEF Drill
  <2>5. r.pc = "end" /\ DrilledIn(S, r, rp) /\ dr.note = "none" /\ ~dr.missed =>
          \A s \in Slots \ W2 : Names(T2, dr.found, s)
    BY <1>1, <1>14 DEF Drill
  <2> QED
    BY <2>1, <2>2, <2>3, <2>4, <2>5 DEF Drill
<1> QED
  BY <1>1, <1>6, <1>7, <1>8, <1>9, <1>10, <1>11, <1>12, <1>18 DEF Inv

-----------------------------------------------------------------------------
(* The operators of the model are those of the invariant. *)

LEMMA RanksAre == ASSUME NEW d, NEW s PROVE Rank(d, s) = Order(setup, d, s)
BY DEF Rank, Order

LEMMA RowsAre ==
  ASSUME NEW d, NEW k
  PROVE  Present(d) = RowsOf(tbl, d) /\ Behind(d, k) = RowsBehind(setup, tbl, d, k)
BY DEF Present, RowsOf, Behind, RowsBehind, Beyond, Rank, Order

LEMMA PagesAre ==
  ASSUME NEW d, NEW k, NEW n, NEW R
  PROVE  /\ Window(d, k, n) = Page(setup, tbl, d, k, n)
         /\ LastOf(d, R) = Final(setup, d, R)
         /\ Hash(d, R) = Digest(setup, tbl, d, R)
<1>1. Window(d, k, n) = Page(setup, tbl, d, k, n)
  BY DEF Window, Page, Present, RowsOf, Behind, RowsBehind, Beyond, Rank, Order
<1>2. LastOf(d, R) = Final(setup, d, R)
  BY DEF LastOf, Final, Rank, Order
<1>3. Hash(d, R) = Digest(setup, tbl, d, R)
  BY DEF Hash, Digest
<1> QED
  BY <1>1, <1>2, <1>3

LEMMA RangesAre == ASSUME NEW d PROVE InRange(d) = Ranged(setup, tbl, run.bounds, d, run.range)
BY DEF InRange, Ranged, Low, Present, RowsOf, Behind, RowsBehind, Beyond, Rank, Order

LEMMA VerdictsAre ==
  ASSUME NEW s
  PROVE  /\ Agree(s) <=> Agrees(tbl, s)
         /\ SameRows <=> Same(setup, tbl)
         /\ Drilled <=> DrilledIn(setup, run, rep)
         /\ Class(s) = ClassOf(tbl, s)
         /\ NoStatement <=> setup.ranged /\ run.bounds = <<>>
<1>1. Agree(s) <=> Agrees(tbl, s)
  BY DEF Agree, Agrees
<1>2. SameRows <=> Same(setup, tbl)
  BY DEF SameRows, Same, Hash, Digest, Present, RowsOf
<1>3. Drilled <=> DrilledIn(setup, run, rep)
  BY DEF Drilled, DrilledIn
<1>4. Class(s) = ClassOf(tbl, s)
  BY DEF Class, ClassOf, Agree, Agrees
<1> QED
  BY <1>1, <1>2, <1>3, <1>4 DEF NoStatement

-----------------------------------------------------------------------------
(* The first state, and the steps. *)

LEMMA FirstState ==
  ASSUME Sized, NEW S, NEW T, NEW W, W = {}, Tables(S, T, W),
         NEW p, p = (IF S.ranged THEN "bounds" ELSE "count"),
         NEW r, r = [pc |-> p, bounds |-> <<>>, range |-> 1, source |-> 0, target |-> 0,
                     left |-> 0, seek |-> Nil, fetched |-> {}, hash |-> Stream.rows, covered |-> 0,
                     null |-> FALSE, bad |-> FALSE, error |-> FALSE, short |-> FALSE, cut |-> FALSE],
         NEW rp, rp = [status |-> "none", by |-> "none"]
  PROVE  Inv(S, T, W, r, NoDrill, rp)
<1>1. p \in Stops /\ p \in {"bounds", "count"} /\ (p = "bounds" => S.ranged)
  BY StopsAre
<1> DEFINE e == <<>>
           h == Stream.rows
<1>2. e \in Seq(Slots) /\ Len(e) = 0 /\ e = <<>> /\ h \in Hashes /\ Nil \in Positions
  <2>1. h \in [{} -> 0..MaxVal]
    BY DEF Stream
  <2>2. h \in Hashes
    BY <2>1 DEF Hashes, Images
  <2> QED
    BY <2>2 DEF Positions
<1>3. r = [pc |-> p, bounds |-> e, range |-> 1, source |-> 0, target |-> 0,
           left |-> 0, seek |-> Nil, fetched |-> {}, hash |-> h, covered |-> 0,
           null |-> FALSE, bad |-> FALSE, error |-> FALSE, short |-> FALSE, cut |-> FALSE]
  OBVIOUS
<1> HIDE DEF e, h
<1>4. r \in RunType
  BY <1>1, <1>2, <1>3 DEF RunType
<1>5. /\ r.pc = p /\ r.bounds = e /\ r.range = 1 /\ r.source = 0 /\ r.target = 0 /\ r.seek = Nil
      /\ r.null = FALSE /\ r.bad = FALSE /\ r.error = FALSE /\ r.cut = FALSE /\ r.covered = 0
  BY <1>3
<1>6. NoDrill \in DrillType
  <2>1. Stream.rows \in [{} -> 0..MaxVal]
    BY DEF Stream
  <2>2. Stream.rows \in Images
    BY <2>1 DEF Images
  <2>3. Stream \in StreamType
    BY <2>2 DEF Stream, StreamType, Positions
  <2>4. [d \in Sides |-> Stream] \in [Sides -> StreamType] /\ [c \in Classes |-> {}] \in [Classes -> SUBSET Slots]
    BY <2>3
  <2> QED
    BY <2>4 DEF NoDrill, DrillType
<1>7. rp \in RepType /\ rp.status = "none"
  BY DEF RepType
<1>8. Stages(S, r, NoDrill, rp)
  BY <1>1, <1>2, <1>5, <1>7 DEF Stages, Undecided, Counting, Hashed, Bagged, Drills
<1>9. Bounds(S, r)
  <2>1. r.bounds = <<>> /\ Len(r.bounds) = 0
    BY <1>2, <1>5
  <2> QED
    BY <1>5, <2>1 DEF Bounds
<1>10. Counts(S, T, W, r)
  <2>1. \A d \in Sides : Tally(S, T, W, r.bounds, d, 1, 0)
    BY <1>2, <1>5, TallyStart
  <2> QED
    BY <1>1, <1>5, <2>1 DEF Counts, Sides
<1>11. r.pc \in Undecided /\ r.pc \notin Hashed /\ r.pc # "windowTarget" /\ r.pc # "bagTarget"
  BY <1>1, <1>5 DEF Undecided, Counting, Hashed
<1> QED
  BY <1>4, <1>6, <1>7, <1>8, <1>9, <1>10, <1>11, OtherStages DEF Inv

LEMMA InitHolds == ASSUME Sized, Init PROVE IInv
<1>1. Tables(setup, tbl, touched) /\ touched = {}
  BY DEF Init, Sized, Tables, TableType
<1>2. drill = NoDrill
  BY DEF Init, NoDrill
<1> DEFINE p == IF setup.ranged THEN "bounds" ELSE "count"
<1>3. /\ run = [pc |-> p, bounds |-> <<>>, range |-> 1, source |-> 0, target |-> 0,
                left |-> 0, seek |-> Nil, fetched |-> {}, hash |-> Stream.rows, covered |-> 0,
                null |-> FALSE, bad |-> FALSE, error |-> FALSE, short |-> FALSE, cut |-> FALSE]
      /\ rep = [status |-> "none", by |-> "none"]
  BY DEF Init
<1>4. Inv(setup, tbl, touched, run, NoDrill, rep)
  BY <1>1, <1>3, FirstState
<1>5. setup \in Setups /\ moves \in 0..MaxMoves
  BY DEF Init, Sized
<1> QED
  BY <1>2, <1>4, <1>5 DEF IInv

\* Every step but a write leaves the tables alone.
LEMMA TablesKept ==
  ASSUME IInv, UNCHANGED tables, Inv(setup, tbl, touched, run', drill', rep')
  PROVE  IInv'
BY DEF IInv, tables

LEMMA MovesHolds == ASSUME Sized, IInv, Moves PROVE IInv'
<1>1. PICK d \in Sides, s \in Slots, v \in 0..MaxVal :
        /\ s = NullKey => setup.key = "unique"
        /\ tbl' = [tbl EXCEPT ![d][s] = v]
        /\ touched' = touched \cup {s}
  BY DEF Moves
<1>2. Inv(setup, tbl, touched, run, drill, rep) /\ Tables(setup, tbl, touched)
  BY InvParts DEF IInv
<1>3. tbl \in [Sides -> [Slots -> 0..MaxVal]] /\ touched \subseteq Slots
      /\ (setup.key # "unique" => \A e \in Sides : tbl[e][NullKey] = 0)
  BY <1>2 DEF Tables, TableType
<1>4. tbl' \in [Sides -> [Slots -> 0..MaxVal]]
  BY <1>1, <1>3
<1>5. \A e \in Sides : \A q \in Slots : q # s => tbl'[e][q] = tbl[e][q]
  BY <1>1, <1>3
<1>6. NullKey \in Slots
  BY SlotsFinite
<1> DEFINE T2 == tbl'
           W2 == touched'
<1>7. /\ T2 \in TableType /\ W2 \subseteq Slots /\ touched \subseteq W2 /\ W2 # {}
      /\ \A e \in Sides : \A q \in Slots \ W2 : T2[e][q] = tbl[e][q]
      /\ setup.key # "unique" => \A e \in Sides : T2[e][NullKey] = 0
  BY <1>1, <1>3, <1>4, <1>5, <1>6 DEF TableType
<1> HIDE DEF T2, W2
<1>8. Inv(setup, T2, W2, run, drill, rep)
  BY <1>2, <1>6, <1>7, RowsWritten
<1>9. setup' = setup /\ run' = run /\ drill' = drill /\ rep' = rep /\ setup' \in Setups /\ moves' \in 0..MaxMoves
  BY DEF Moves, IInv, Sized
<1> QED
  BY <1>8, <1>9 DEF IInv, T2, W2

LEMMA ScansBoundsHolds == ASSUME Sized, IInv, ScansBounds PROVE IInv'
<1> DEFINE w == Page(setup, tbl, "source", run.seek, CountSize)
           k == Final(setup, "source", w)
<1>1. /\ run.pc = "bounds" /\ UNCHANGED <<tables, drill, rep>>
      /\ run' = [run EXCEPT !.pc = IF Cardinality(w) < CountSize THEN "count" ELSE @,
                            !.bounds = IF w = {} THEN @ ELSE Append(@, k),
                            !.seek = IF w = {} THEN @ ELSE k]
  BY PagesAre DEF ScansBounds
<1>2. w = Page(setup, tbl, "source", run.seek, CountSize) /\ k = Final(setup, "source", w)
  OBVIOUS
<1> HIDE DEF w, k
<1>3. Inv(setup, tbl, touched, run', drill, rep)
  BY <1>1, <1>2, BoundsStep DEF IInv
<1> QED
  BY <1>1, <1>3, TablesKept

LEMMA CountsSourceHolds == ASSUME Sized, IInv, CountsSource PROVE IInv'
<1>1. /\ run.pc = "count" /\ UNCHANGED <<tables, drill, rep>>
      /\ run' = [run EXCEPT !.pc = "countTarget",
                            !.source = @ + Cardinality(Ranged(setup, tbl, run.bounds, "source", run.range))]
  BY RangesAre DEF CountsSource
<1>2. Inv(setup, tbl, touched, run', drill, rep)
  BY <1>1, SourceCounted DEF IInv
<1> QED
  BY <1>1, <1>2, TablesKept

LEMMA ErrsHolds ==
  ASSUME Sized, IInv, CountFails \/ BagFails PROVE IInv'
<1>1. /\ UNCHANGED <<tables, drill>> /\ rep' = [status |-> "FAIL", by |-> "error"]
      /\ \/ run' = [run EXCEPT !.pc = "end", !.error = TRUE]
         \/ NoStatement /\ run' = [run EXCEPT !.pc = "end", !.error = FALSE]
  <2>1. CASE CountFails
    <3>1. CASE run.pc = "count" /\ NoStatement
      BY <2>1, <3>1 DEF CountFails, Ends
    <3>2. CASE ~(run.pc = "count" /\ NoStatement)
      BY <2>1, <3>2 DEF CountFails, Ends
    <3> QED
      BY <3>1, <3>2
  <2>2. CASE BagFails
    BY <2>2 DEF BagFails, Ends
  <2> QED
    BY <2>1, <2>2
<1>2. run \in RunType /\ "end" \in Stops /\ Inv(setup, tbl, touched, run, drill, rep)
  BY InvParts, StopsAre DEF IInv
<1>3. run' \in RunType /\ run'.pc = "end" /\ run'.bounds = run.bounds
  BY <1>1, <1>2, ZenonT(60) DEF RunType
<1>4. run'.error \/ (setup.ranged /\ run.bounds = <<>>)
  <2>1. CASE run' = [run EXCEPT !.pc = "end", !.error = TRUE]
    <3>1. run'.error = TRUE
      BY <1>2, <2>1 DEF RunType
    <3> QED
      BY <3>1
  <2> QED
    BY <1>1, <2>1 DEF NoStatement
<1> DEFINE n == run'
           rq == rep'
<1>5. /\ n \in RunType /\ n.pc = "end" /\ n.bounds = run.bounds /\ (n.error \/ (setup.ranged /\ run.bounds = <<>>))
      /\ rq = [status |-> "FAIL", by |-> "error"]
  BY <1>1, <1>3, <1>4
<1> HIDE DEF n, rq
<1>6. Inv(setup, tbl, touched, n, drill, rq)
  BY <1>2, <1>5, Errs
<1> QED
  BY <1>1, <1>6, TablesKept DEF n, rq

LEMMA CountsTargetHolds == ASSUME Sized, IInv, CountsTarget PROVE IInv'
<1>1. Inv(setup, tbl, touched, run, drill, rep) /\ run \in RunType /\ Stages(setup, run, drill, rep)
      /\ setup \in Setup
  BY InvParts DEF IInv, Sized
<1> DEFINE t == run.target + Cardinality(Ranged(setup, tbl, run.bounds, "target", run.range))
           e == <<>>
           c == [run EXCEPT !.target = t]
           a == [c EXCEPT !.bounds = e, !.range = 1, !.target = 0]
<1>2. /\ run.pc = "countTarget" /\ UNCHANGED <<tables, drill>>
      /\ \/ /\ c.range <= Len(c.bounds)
            /\ run' = [c EXCEPT !.pc = "count", !.range = @ + 1] /\ UNCHANGED rep
         \/ /\ c.range > Len(c.bounds) /\ c.source # c.target
            /\ run' = Drilling(a) /\ Ends("FAIL", "count")
         \/ /\ c.range > Len(c.bounds) /\ c.source = c.target
            /\ IF c.source = 0 THEN run' = [a EXCEPT !.pc = "end"] /\ Ends("PASS", "count")
               ELSE run' \in Hashing(a) /\ UNCHANGED rep
  BY RangesAre DEF CountsTarget
<1>3. t = run.target + Cardinality(Ranged(setup, tbl, run.bounds, "target", run.range)) /\ e = <<>>
      /\ c = [run EXCEPT !.target = t] /\ a = [c EXCEPT !.bounds = e, !.range = 1, !.target = 0]
  OBVIOUS
<1> HIDE DEF t, e, c, a
<1>4. /\ c.range = run.range /\ c.bounds = run.bounds /\ c.source = run.source /\ c.target = t
      /\ a.source = run.source
      /\ [c EXCEPT !.pc = "count", !.range = @ + 1] = [run EXCEPT !.pc = "count", !.range = @ + 1, !.target = t]
      /\ [a EXCEPT !.pc = "end"] = [run EXCEPT !.pc = "end", !.bounds = e, !.range = 1, !.target = 0]
      /\ [a EXCEPT !.pc = "bag"] = [run EXCEPT !.pc = "bag", !.bounds = e, !.range = 1, !.target = 0]
  BY <1>1, <1>3 DEF RunType
<1>9. ASSUME NEW p
      PROVE  [a EXCEPT !.pc = p] = [run EXCEPT !.pc = p, !.bounds = e, !.range = 1, !.target = 0]
  BY <1>1, <1>3 DEF RunType
<1>5. CASE c.range <= Len(c.bounds) /\ run' = [c EXCEPT !.pc = "count", !.range = @ + 1] /\ UNCHANGED rep
  <2>1. run.range <= Len(run.bounds) /\ run' = [run EXCEPT !.pc = "count", !.range = @ + 1, !.target = t]
    BY <1>4, <1>5
  <2>2. run' = [run EXCEPT !.pc = "count", !.range = @ + 1,
                !.target = @ + Cardinality(Ranged(setup, tbl, run.bounds, "target", run.range))]
    BY <1>3, <2>1
  <2>3. Inv(setup, tbl, touched, run', drill, rep)
    BY <1>1, <1>2, <2>1, <2>2, NextRange
  <2> QED
    BY <1>2, <1>5, <2>3, TablesKept
<1>6. CASE c.range > Len(c.bounds) /\ c.source # c.target /\ run' = Drilling(a) /\ Ends("FAIL", "count")
  <2>1. Drilling(a) = [a EXCEPT !.pc = FirstScan(setup)]
    BY DEF Drilling, FirstScan
  <2>2. run' = [run EXCEPT !.pc = FirstScan(setup), !.bounds = <<>>, !.range = 1, !.target = 0]
    <3>1. [a EXCEPT !.pc = FirstScan(setup)]
            = [run EXCEPT !.pc = FirstScan(setup), !.bounds = e, !.range = 1, !.target = 0]
      BY <1>9
    <3> QED
      BY <1>3, <1>6, <2>1, <3>1
  <2>3. /\ run.range > Len(run.bounds)
        /\ run.source # run.target + Cardinality(Ranged(setup, tbl, run.bounds, "target", run.range))
        /\ rep' = [status |-> "FAIL", by |-> "count"]
    BY <1>3, <1>4, <1>6 DEF Ends
  <2>4. Inv(setup, tbl, touched, run', drill, rep')
    BY <1>1, <1>2, <2>2, <2>3, CountsDiffer
  <2> QED
    BY <1>2, <2>4, TablesKept
<1>7. CASE /\ c.range > Len(c.bounds) /\ c.source = c.target
           /\ c.source = 0 /\ run' = [a EXCEPT !.pc = "end"] /\ Ends("PASS", "count")
  <2>1. run' = [run EXCEPT !.pc = "end", !.bounds = <<>>, !.range = 1, !.target = 0]
    BY <1>3, <1>4, <1>7
  <2>2. /\ run.range > Len(run.bounds) /\ run.source = 0
        /\ run.source = run.target + Cardinality(Ranged(setup, tbl, run.bounds, "target", run.range))
        /\ rep' = [status |-> "PASS", by |-> "count"]
    BY <1>3, <1>4, <1>7 DEF Ends
  <2>3. Inv(setup, tbl, touched, run', drill, rep')
    BY <1>1, <1>2, <2>1, <2>2, CountsNone
  <2> QED
    BY <1>2, <2>3, TablesKept
<1>8. CASE /\ c.range > Len(c.bounds) /\ c.source = c.target
           /\ c.source # 0 /\ run' \in Hashing(a) /\ UNCHANGED rep
  <2>1. /\ run.range > Len(run.bounds) /\ run.source # 0
        /\ run.source = run.target + Cardinality(Ranged(setup, tbl, run.bounds, "target", run.range))
    BY <1>3, <1>4, <1>8
  <2>2. \/ run' = [a EXCEPT !.pc = "bag"]
        \/ /\ setup.key # "none"
           /\ run' = [a EXCEPT !.pc = "window", !.seek = Nil,
                               !.left = (run.source + ChunkSize - 1) \div ChunkSize]
    BY <1>4, <1>8 DEF Hashing
  <2>3. CASE run' = [a EXCEPT !.pc = "bag"]
    <3>1. run' = [run EXCEPT !.pc = "bag", !.bounds = e, !.range = 1, !.target = 0]
      BY <1>4, <2>3
    <3>2. "bag" \in Stops /\ e \in Seq(Slots) /\ 1 \in Nat \ {0} /\ 0 \in Nat
      BY <1>3, StopsAre
    <3>3. run' \in RunType
      BY <1>1, <3>1, <3>2 DEF RunType
    <3>4. run'.pc = "bag" /\ run'.bounds = <<>> /\ run'.cut = run.cut
      BY <1>1, <1>3, <3>1 DEF RunType
    <3>5. run.pc \in Undecided \ {"bagTarget"}
      BY <1>2 DEF Undecided, Counting
    <3> DEFINE n == run'
    <3>6. n \in RunType /\ n.pc = "bag" /\ n.bounds \in {<<>>, run.bounds} /\ n.cut = run.cut
      BY <3>3, <3>4
    <3> HIDE DEF n
    <3>7. Inv(setup, tbl, touched, n, drill, rep)
      BY <1>1, <3>5, <3>6, BagNext
    <3> QED
      BY <1>2, <1>8, <3>7, TablesKept DEF n
  <2>4. CASE /\ setup.key # "none"
             /\ run' = [a EXCEPT !.pc = "window", !.seek = Nil,
                                 !.left = (run.source + ChunkSize - 1) \div ChunkSize]
    <3> DEFINE l == (run.source + ChunkSize - 1) \div ChunkSize
    <3>1. run' = [a EXCEPT !.pc = "window", !.seek = Nil, !.left = l] /\ l = (run.source + ChunkSize - 1) \div ChunkSize
      BY <2>4
    <3> HIDE DEF l
    <3>2. run' = [run EXCEPT !.pc = "window", !.bounds = e, !.range = 1, !.target = 0, !.seek = Nil, !.left = l]
      BY <1>1, <1>3, <3>1 DEF RunType
    <3>3. run' = [run EXCEPT !.pc = "window", !.bounds = <<>>, !.range = 1, !.target = 0, !.seek = Nil,
                             !.left = (run.source + ChunkSize - 1) \div ChunkSize]
      BY <1>3, <3>1, <3>2
    <3>4. Inv(setup, tbl, touched, run', drill, rep)
      BY <1>1, <1>2, <2>1, <2>4, <3>3, WindowsStart
    <3> QED
      BY <1>2, <1>8, <3>4, TablesKept
  <2> QED
    BY <2>2, <2>3, <2>4
<1> QED
  BY <1>2, <1>5, <1>6, <1>7, <1>8

LEMMA ReadsSourceHolds == ASSUME Sized, IInv, ReadsSource PROVE IInv'
<1> DEFINE w == Page(setup, tbl, "source", run.seek, ChunkSize)
<1>1. /\ run.pc = "window" /\ UNCHANGED <<tables, drill, rep>>
      /\ run' = [run EXCEPT !.pc = "windowTarget", !.fetched = w, !.hash = Digest(setup, tbl, "source", w)]
  BY PagesAre DEF ReadsSource
<1>2. w = Page(setup, tbl, "source", run.seek, ChunkSize)
  OBVIOUS
<1> HIDE DEF w
<1>3. Inv(setup, tbl, touched, run', drill, rep)
  BY <1>1, <1>2, SourceRead DEF IInv
<1> QED
  BY <1>1, <1>3, TablesKept

\* The windows are over: they are trusted, or their rows are compared as a bag.
LEMMA ClosesHolds ==
  ASSUME Sized, IInv, UNCHANGED <<tables, drill>>, run.pc \in Hashed,
         NEW m \in RunType, m.bounds = run.bounds, m.cut = run.cut,
         NEW rq, rq = [status |-> IF m.bad \/ m.error THEN "FAIL" ELSE "PASS", by |-> "windows"],
         ~Untrusted(m) => Verdict(setup, tbl, touched, m, rq),
         Closes(m)
  PROVE  IInv'
<1>1. Inv(setup, tbl, touched, run, drill, rep)
  BY DEF IInv
<1>2. CASE Untrusted(m)
  <2>1. run' = [m EXCEPT !.pc = "bag"] /\ UNCHANGED rep
    BY <1>2 DEF Closes
  <2>2. "bag" \in Stops
    BY StopsAre
  <2>3. run' \in RunType /\ run'.pc = "bag" /\ run'.bounds = run.bounds /\ run'.cut = run.cut
    BY <2>1, <2>2 DEF RunType
  <2>4. run.pc \in Undecided \ {"bagTarget"}
    BY DEF Undecided, Hashed
  <2> DEFINE n == run'
  <2>5. n \in RunType /\ n.pc = "bag" /\ n.bounds \in {<<>>, run.bounds} /\ n.cut = run.cut
    BY <2>3
  <2> HIDE DEF n
  <2>6. Inv(setup, tbl, touched, n, drill, rep)
    BY <1>1, <2>4, <2>5, BagNext
  <2> QED
    BY <2>1, <2>6, TablesKept DEF n
<1>3. CASE ~Untrusted(m)
  <2>1. Drilling(m) = [m EXCEPT !.pc = FirstScan(setup)]
    BY DEF Drilling, FirstScan
  <2>2. /\ run' = IF m.bad THEN [m EXCEPT !.pc = FirstScan(setup)] ELSE [m EXCEPT !.pc = "end"]
        /\ rep' = [status |-> IF m.bad \/ m.error THEN "FAIL" ELSE "PASS", by |-> "windows"]
    BY <1>3, <2>1 DEF Closes, Ends
  <2>3. Verdict(setup, tbl, touched, m, rep')
    BY <1>3, <2>2
  <2> DEFINE n == run'
             q == rep'
  <2>4. /\ n = IF m.bad THEN [m EXCEPT !.pc = FirstScan(setup)] ELSE [m EXCEPT !.pc = "end"]
        /\ q = [status |-> IF m.bad \/ m.error THEN "FAIL" ELSE "PASS", by |-> "windows"]
        /\ Verdict(setup, tbl, touched, m, q)
    BY <2>2, <2>3
  <2> HIDE DEF n, q
  <2>5. Inv(setup, tbl, touched, n, drill, q)
    BY <1>1, <2>4, Closed
  <2> QED
    BY <2>5, TablesKept DEF n, q
<1> QED
  BY <1>2, <1>3

LEMMA WindowFailsHolds == ASSUME Sized, IInv, WindowFails PROVE IInv'
<1> DEFINE m == [run EXCEPT !.error = TRUE]
           rq == [status |-> IF m.bad \/ m.error THEN "FAIL" ELSE "PASS", by |-> "windows"]
<1>1. run \in RunType /\ Closes(m) /\ run.pc \in Hashed /\ UNCHANGED <<tables, drill>>
  BY InvParts DEF IInv, WindowFails, Hashed
<1>2. m \in RunType /\ m.bounds = run.bounds /\ m.cut = run.cut /\ m.error = TRUE
  BY <1>1 DEF RunType
<1>3. rq = [status |-> IF m.bad \/ m.error THEN "FAIL" ELSE "PASS", by |-> "windows"]
  OBVIOUS
<1>4. rq.status = "FAIL"
  BY <1>2
<1> HIDE DEF m, rq
<1>5. Verdict(setup, tbl, touched, m, rq)
  BY <1>2, <1>4 DEF Verdict
<1> QED
  BY <1>1, <1>2, <1>3, <1>5, ClosesHolds

LEMMA ReadsTargetHolds == ASSUME Sized, IInv, ReadsTarget PROVE IInv'
<1>1. /\ Inv(setup, tbl, touched, run, drill, rep) /\ run \in RunType /\ run.pc = "windowTarget"
      /\ Stages(setup, run, drill, rep) /\ UNCHANGED <<tables, drill>>
  BY InvParts DEF IInv, ReadsTarget
<1>2. Reading(setup, tbl, touched, run)
  BY <1>1, InvParts DEF Reading
<1>3. run.left >= 1 /\ run.error = FALSE /\ run.pc \in Hashed
  <2>1. run.pc \in Hashed
    BY <1>1 DEF Hashed
  <2>2. run.error \in BOOLEAN
    BY <1>1, RunFields
  <2> QED
    BY <1>1, <2>1, <2>2 DEF Stages
<1> DEFINE w == Partner(setup, tbl, run)
           m == AfterWindow(setup, tbl, run)
           null == NullKey \in run.fetched \cup w
           short == Cardinality(run.fetched) < ChunkSize
<1>4. /\ IF null \/ short \/ m.left = 0 THEN Closes(m)
         ELSE /\ run' = [m EXCEPT !.pc = "window", !.seek = Final(setup, "source", run.fetched)]
              /\ UNCHANGED rep
  <2>1. Window("target", run.seek, ChunkSize) = w
    BY PagesAre DEF Partner
  <2>2. Hash("target", w) = Digest(setup, tbl, "target", w)
        /\ LastOf("source", run.fetched) = Final(setup, "source", run.fetched)
    BY PagesAre
  <2> DEFINE x == [run EXCEPT !.covered = @ + Cardinality(run.fetched), !.null = null,
                          !.bad = @ \/ Hash("target", w) # run.hash, !.short = ~null /\ short,
                          !.left = @ - 1, !.fetched = {}, !.hash = Stream.rows, !.seek = Nil]
  <2>3. /\ IF null \/ short \/ x.left = 0 THEN Closes(x)
           ELSE /\ run' = [x EXCEPT !.pc = "window", !.seek = LastOf("source", run.fetched)]
                /\ UNCHANGED rep
    BY <2>1 DEF ReadsTarget
  <2>4. x = m
    BY <2>2 DEF AfterWindow
  <2> QED
    BY <2>2, <2>3, <2>4
<1>5. w = Partner(setup, tbl, run) /\ m = AfterWindow(setup, tbl, run)
  OBVIOUS
<1> HIDE DEF w, m
<1>6. /\ m \in RunType /\ m.bounds = run.bounds /\ m.cut = run.cut
      /\ m.null = null
  BY <1>2, <1>3, <1>5, AfterWindowIs
<1>7. CASE null \/ short \/ m.left = 0
  <2> DEFINE rq == [status |-> IF m.bad \/ m.error THEN "FAIL" ELSE "PASS", by |-> "windows"]
  <2>1. rq = [status |-> IF m.bad \/ m.error THEN "FAIL" ELSE "PASS", by |-> "windows"]
    OBVIOUS
  <2> HIDE DEF rq
  <2>2. ASSUME ~Untrusted(m) PROVE Verdict(setup, tbl, touched, m, rq)
    <3>1. ~(setup.key = "unique" /\ (m.null \/ m.covered < m.source))
      BY <2>2 DEF Untrusted
    <3>2. m.null \/ Cardinality(run.fetched) < ChunkSize \/ m.left = 0
      BY <1>6, <1>7
    <3> QED
      BY <1>2, <1>3, <1>5, <2>1, <3>1, <3>2, WindowsVerdict
  <2>3. Closes(m)
    BY <1>4, <1>7
  <2> QED
    BY <1>1, <1>3, <1>6, <2>1, <2>2, <2>3, ClosesHolds
<1>8. CASE ~(null \/ short \/ m.left = 0)
  <2>1. /\ run' = [m EXCEPT !.pc = "window", !.seek = Final(setup, "source", run.fetched)]
        /\ UNCHANGED rep
    BY <1>4, <1>8
  <2>2. ~m.null /\ ~(Cardinality(run.fetched) < ChunkSize) /\ m.left # 0
    BY <1>6, <1>8
  <2>3. Inv(setup, tbl, touched, run', drill, rep)
    BY <1>1, <1>5, <2>1, <2>2, WindowNext
  <2> QED
    BY <1>1, <2>1, <2>3, TablesKept
<1> QED
  BY <1>7, <1>8

LEMMA BagReadsSourceHolds == ASSUME Sized, IInv, BagReadsSource PROVE IInv'
<1>1. PICK R \in Reads("source") :
        run' = [run EXCEPT !.pc = "bagTarget", !.hash = Hash("source", R), !.cut = R # Present("source")]
  BY DEF BagReadsSource
<1>2. R \subseteq RowsOf(tbl, "source") /\ Present("source") = RowsOf(tbl, "source")
      /\ Hash("source", R) = Digest(setup, tbl, "source", R)
  <2>1. Present("source") = RowsOf(tbl, "source") /\ Hash("source", R) = Digest(setup, tbl, "source", R)
    BY RowsAre, PagesAre
  <2> QED
    BY <2>1 DEF Reads
<1>3. run' = [run EXCEPT !.pc = "bagTarget", !.hash = Digest(setup, tbl, "source", R),
                         !.cut = R # RowsOf(tbl, "source")]
  BY <1>1, <1>2
<1>4. run.pc = "bag" /\ UNCHANGED <<tables, drill, rep>>
  BY DEF BagReadsSource
<1> DEFINE n == run'
           cut == R # RowsOf(tbl, "source")
<1>5. /\ n = [run EXCEPT !.pc = "bagTarget", !.hash = Digest(setup, tbl, "source", R), !.cut = cut]
      /\ cut \in BOOLEAN /\ (~cut => R = RowsOf(tbl, "source"))
      /\ Inv(setup, tbl, touched, run, drill, rep)
  BY <1>3 DEF IInv
<1> HIDE DEF n, cut
<1>6. Inv(setup, tbl, touched, n, drill, rep)
  BY <1>2, <1>4, <1>5, BagRead
<1> QED
  BY <1>4, <1>6, TablesKept DEF n

LEMMA BagReadsTargetHolds == ASSUME Sized, IInv, BagReadsTarget PROVE IInv'
<1>1. PICK R \in Reads("target") :
        /\ run' = [run EXCEPT !.pc = "end", !.hash = Stream.rows, !.cut = @ \/ R # Present("target")]
        /\ Ends(IF Hash("target", R) = run.hash THEN "PASS" ELSE "FAIL", "bag")
  BY DEF BagReadsTarget
<1>2. R \subseteq RowsOf(tbl, "target") /\ Present("target") = RowsOf(tbl, "target")
      /\ Hash("target", R) = Digest(setup, tbl, "target", R)
  <2>1. Present("target") = RowsOf(tbl, "target") /\ Hash("target", R) = Digest(setup, tbl, "target", R)
    BY RowsAre, PagesAre
  <2> QED
    BY <2>1 DEF Reads
<1>3. /\ run' = [run EXCEPT !.pc = "end", !.hash = Stream.rows, !.cut = @ \/ R # RowsOf(tbl, "target")]
      /\ rep' = [status |-> IF Digest(setup, tbl, "target", R) = run.hash THEN "PASS" ELSE "FAIL", by |-> "bag"]
  BY <1>1, <1>2 DEF Ends
<1>4. run.pc = "bagTarget" /\ UNCHANGED <<tables, drill>>
  BY DEF BagReadsTarget
<1>5. Inv(setup, tbl, touched, run', drill, rep')
  BY <1>2, <1>3, <1>4, BagCompared DEF IInv
<1> QED
  BY <1>4, <1>5, TablesKept

\* The drill breaks off.
LEMMA AbortsHolds ==
  ASSUME Sized, IInv, UNCHANGED <<tables, rep>>, run.pc \in Drills,
         NEW note, note \in {"null", "order", "error"}, Aborts(note)
  PROVE  IInv'
<1>1. drill' = [drill EXCEPT !.note = note] /\ run' = [run EXCEPT !.pc = "end"]
  BY DEF Aborts, At
<1>2. Inv(setup, tbl, touched, run', drill', rep)
  BY <1>1, DrillBreaks DEF IInv
<1> QED
  BY <1>2, TablesKept

LEMMA DrillFailsHolds == ASSUME Sized, IInv, DrillFails PROVE IInv'
BY AbortsHolds DEF DrillFails, Drills

LEMMA ScansNullsHolds ==
  ASSUME Sized, IInv, NEW d \in Sides, NEW p, NEW q, ScansNulls(p, d, q),
         \/ p = "nulls" /\ d = "source" /\ q = "nullsTarget"
         \/ p = "nullsTarget" /\ d = "target" /\ q = "fetch"
  PROVE  IInv'
<1>1. run.pc = p /\ UNCHANGED <<tables, rep>> /\ run.pc \in Drills /\ Inv(setup, tbl, touched, run, drill, rep)
  BY DEF ScansNulls, Drills, IInv
<1>2. NullKey \notin Present(d) => tbl[d][NullKey] = 0
  BY SlotsFinite DEF Present
<1>3. \/ Aborts("null")
      \/ /\ run' = [run EXCEPT !.pc = q]
         /\ \/ tbl[d][NullKey] = 0 /\ drill' = drill
            \/ drill' = [drill EXCEPT !.missed = TRUE]
  BY <1>2 DEF ScansNulls, At
<1>4. CASE Aborts("null")
  BY <1>1, <1>4, AbortsHolds
<1>5. CASE /\ run' = [run EXCEPT !.pc = q]
           /\ \/ tbl[d][NullKey] = 0 /\ drill' = drill
              \/ drill' = [drill EXCEPT !.missed = TRUE]
  <2> DEFINE n == run'
             dq == drill'
  <2>1. /\ n = [run EXCEPT !.pc = q]
        /\ \/ tbl[d][NullKey] = 0 /\ dq = drill
           \/ dq = [drill EXCEPT !.missed = TRUE]
    BY <1>5
  <2>2. \/ run.pc = "nulls" /\ d = "source" /\ q = "nullsTarget"
        \/ run.pc = "nullsTarget" /\ d = "target" /\ q = "fetch"
    BY <1>1
  <2> HIDE DEF n, dq
  <2>3. Inv(setup, tbl, touched, n, dq, rep)
    BY <1>1, <2>1, <2>2, NullsScanned
  <2> QED
    BY <1>1, <2>3, TablesKept DEF n, dq
<1> QED
  BY <1>3, <1>4, <1>5

\* A side that ran dry gets rows in an order the merge can take.
LEMMA FetchHolds ==
  ASSUME Sized, IInv, run.pc \in {"fetch", "fetchTarget"}, NEW d \in Sides, Dry(d),
         NEW w, w = Fetch(d), NullKey \notin w, Sorted(d, w), NEW st, st = Fetched(d, w)
  PROVE  /\ st \in [Sides -> StreamType] /\ Merging(setup, tbl, touched, st, drill.found)
         /\ st[d].done \/ ~Empty(st, d)
         /\ \A e \in Sides \ {d} : st[e] = drill.stream[e]
<1>1. Inv(setup, tbl, touched, run, drill, rep) /\ drill \in DrillType /\ Tables(setup, tbl, touched)
  BY InvParts DEF IInv
<1>2. drill.stream \in [Sides -> StreamType]
  BY <1>1 DEF DrillType
<1>3. w = Page(setup, tbl, d, drill.stream[d].seek, DrillSize)
  BY PagesAre DEF Fetch
<1>4. Empty(drill.stream, d) /\ ~drill.stream[d].done
  BY DEF Dry, Empty
<1>5. /\ \A s \in w : \A q \in w : Order(setup, d, s) < Order(setup, d, q) => s < q
      /\ \A s \in w : drill.stream[d].seek < s
  BY RanksAre DEF Sorted
<1>6. w \subseteq RowsOf(tbl, d) /\ w \subseteq Slots /\ IsFiniteSet(w) /\ Cardinality(w) \in Nat
  <2>1. w \subseteq RowsOf(tbl, d)
    BY <1>3, WindowCut DEF Sized
  <2>2. w \subseteq Slots
    BY <2>1 DEF RowsOf
  <2> QED
    BY <2>1, <2>2, SomeFinite
<1> DEFINE k == IF w = {} THEN drill.stream[d].seek ELSE Final(setup, d, w)
           c == Cardinality(w) < DrillSize
           R == [s \in w |-> tbl[d][s]]
<1>7. k \in Positions
  <2>1. CASE w = {}
    <3>1. drill.stream[d].seek \in Positions
      BY <1>2, StreamFacts
    <3> QED
      BY <2>1, <3>1
  <2>2. CASE w # {}
    <3>1. Final(setup, d, w) \in w
      BY <1>6, <2>2, LastOfSome
    <3> QED
      BY <1>6, <2>2, <3>1 DEF Positions
  <2> QED
    BY <2>1, <2>2
<1>8. R \in Images
  <2>1. R \in [w -> 0..MaxVal]
    BY <1>1, <1>6 DEF Tables, TableType
  <2> QED
    BY <1>6, <2>1 DEF Images
<1>9. /\ c \in BOOLEAN /\ c = (Cardinality(w) < DrillSize)
      /\ DOMAIN R = w /\ \A s \in w : R[s] = tbl[d][s]
      /\ k = IF w = {} THEN drill.stream[d].seek ELSE Final(setup, d, w)
  <2>1. c \in BOOLEAN
    BY <1>6 DEF Sized
  <2>2. c = (Cardinality(w) < DrillSize)
    OBVIOUS
  <2>3. k = IF w = {} THEN drill.stream[d].seek ELSE Final(setup, d, w)
    OBVIOUS
  <2>4. DOMAIN R = w /\ \A s \in w : R[s] = tbl[d][s]
    OBVIOUS
  <2> QED
    BY <2>1, <2>2, <2>3, <2>4
<1>10. st = [drill.stream EXCEPT ![d] = [rows |-> R, seek |-> k, done |-> c]]
  BY PagesAre DEF Fetched
<1> HIDE DEF k, c, R
<1>11. st \in [Sides -> StreamType]
  <2>1. [rows |-> R, seek |-> k, done |-> c] \in StreamType
    BY <1>7, <1>8, <1>9 DEF StreamType
  <2> QED
    BY <1>2, <1>10, <2>1
<1>12. st[d] = [rows |-> R, seek |-> k, done |-> c] /\ \A e \in Sides \ {d} : st[e] = drill.stream[e]
  BY <1>2, <1>10
<1>13. Gets(setup, tbl, drill.stream, d, w, st)
  <2>1. st[d].rows = R /\ st[d].seek = k /\ st[d].done = c
    BY <1>12
  <2>2. st[d].done <=> Cardinality(w) < DrillSize
    BY <1>9, <2>1
  <2>3. DOMAIN st[d].rows = w /\ \A s \in w : st[d].rows[s] = tbl[d][s]
    BY <1>9, <2>1
  <2>4. st[d].seek = IF w = {} THEN drill.stream[d].seek ELSE Final(setup, d, w)
    BY <1>9, <2>1
  <2> QED
    BY <1>11, <1>12, <2>2, <2>3, <2>4 DEF Gets
<1>14. Merging(setup, tbl, touched, st, drill.found) /\ (st[d].done \/ ~Empty(st, d))
  BY <1>1, <1>3, <1>4, <1>5, <1>13, SideFetched
<1> QED
  BY <1>11, <1>12, <1>14

LEMMA FetchesSourceHolds == ASSUME Sized, IInv, FetchesSource PROVE IInv'
<1>1. Inv(setup, tbl, touched, run, drill, rep) /\ drill \in DrillType /\ Drill(setup, tbl, touched, run, drill, rep)
      /\ run.pc = "fetch" /\ UNCHANGED <<tables, rep>> /\ run.pc \in Drills
  BY InvParts DEF IInv, FetchesSource, Drills
<1>2. drill.stream \in [Sides -> StreamType] /\ Merging(setup, tbl, touched, drill.stream, drill.found)
  BY <1>1 DEF DrillType, Drill
<1>3. CASE ~Dry("source")
  <2>1. run' = [run EXCEPT !.pc = "fetchTarget"] /\ drill' = drill
    BY <1>3 DEF FetchesSource, At
  <2>2. drill = [drill EXCEPT !.stream = drill.stream]
    BY <1>1 DEF DrillType
  <2>3. drill.stream["source"].done \/ ~Empty(drill.stream, "source")
    BY <1>3 DEF Dry, Empty
  <2> DEFINE st == drill.stream
  <2>4. st \in [Sides -> StreamType] /\ Merging(setup, tbl, touched, st, drill.found)
        /\ (st["source"].done \/ ~Empty(st, "source")) /\ drill' = [drill EXCEPT !.stream = st]
    BY <1>2, <2>1, <2>2, <2>3
  <2> HIDE DEF st
  <2>5. Inv(setup, tbl, touched, run', drill', rep)
    BY <1>1, <2>1, <2>4, SourceReady
  <2> QED
    BY <1>1, <2>5, TablesKept
<1>4. CASE Dry("source")
  <2> DEFINE w == Fetch("source")
             st == Fetched("source", w)
  <2>1. \/ Refuses("source", w)
        \/ /\ NullKey \notin w /\ Sorted("source", w)
           /\ drill' = [drill EXCEPT !.stream = st] /\ At("fetchTarget")
    BY <1>4 DEF FetchesSource
  <2>2. w = Fetch("source") /\ st = Fetched("source", w)
    OBVIOUS
  <2> HIDE DEF w, st
  <2>3. CASE Refuses("source", w)
    <3>1. Aborts("null") \/ Aborts("order")
      BY <2>3 DEF Refuses
    <3> QED
      BY <1>1, <3>1, AbortsHolds
  <2>4. CASE /\ NullKey \notin w /\ Sorted("source", w)
             /\ drill' = [drill EXCEPT !.stream = st] /\ At("fetchTarget")
    <3>1. /\ st \in [Sides -> StreamType] /\ Merging(setup, tbl, touched, st, drill.found)
          /\ st["source"].done \/ ~Empty(st, "source")
      BY <1>1, <1>4, <2>2, <2>4, FetchHolds DEF Sides
    <3>2. run' = [run EXCEPT !.pc = "fetchTarget"]
      BY <2>4 DEF At
    <3>3. Inv(setup, tbl, touched, run', drill', rep)
      BY <1>1, <2>4, <3>1, <3>2, SourceReady
    <3> QED
      BY <1>1, <3>3, TablesKept
  <2> QED
    BY <2>1, <2>3, <2>4
<1> QED
  BY <1>3, <1>4

LEMMA MergesHolds ==
  ASSUME Sized, IInv, run.pc = "fetchTarget", UNCHANGED <<tables, rep>>,
         NEW st \in [Sides -> StreamType], Merging(setup, tbl, touched, st, drill.found),
         \A d \in Sides : st[d].done \/ ~Empty(st, d), Merges(st)
  PROVE  IInv'
<1> DEFINE a == Aligned(st)
           n == run'
           dq == drill'
<1>1. /\ a = Aligned(st)
      /\ n = [run EXCEPT !.pc = IF \A d \in Sides : a.stream[d].done /\ Empty(a.stream, d) THEN "end" ELSE "fetch"]
      /\ dq = [drill EXCEPT !.stream = a.stream, !.found = Joined(@, a.found)]
  BY DEF Merges, At, Joined, Empty
<1> HIDE DEF a, n, dq
<1>2. Inv(setup, tbl, touched, n, dq, rep)
  BY <1>1, SidesMerged DEF IInv
<1> QED
  BY <1>2, TablesKept DEF n, dq

LEMMA FetchesTargetHolds == ASSUME Sized, IInv, FetchesTarget PROVE IInv'
<1>1. Inv(setup, tbl, touched, run, drill, rep) /\ drill \in DrillType /\ Drill(setup, tbl, touched, run, drill, rep)
      /\ run.pc = "fetchTarget" /\ UNCHANGED <<tables, rep>> /\ run.pc \in Drills
  BY InvParts DEF IInv, FetchesTarget, Drills
<1>2. /\ drill.stream \in [Sides -> StreamType] /\ Merging(setup, tbl, touched, drill.stream, drill.found)
      /\ drill.stream["source"].done \/ ~Empty(drill.stream, "source")
  BY <1>1 DEF DrillType, Drill
<1>3. CASE ~Dry("target")
  <2>1. drill.stream["target"].done \/ ~Empty(drill.stream, "target")
    BY <1>3 DEF Dry, Empty
  <2> DEFINE st == drill.stream
  <2>2. st \in [Sides -> StreamType] /\ Merging(setup, tbl, touched, st, drill.found)
        /\ (\A d \in Sides : st[d].done \/ ~Empty(st, d)) /\ Merges(st)
    BY <1>2, <1>3, <2>1 DEF FetchesTarget, Sides
  <2> HIDE DEF st
  <2> QED
    BY <1>1, <2>2, MergesHolds
<1>4. CASE Dry("target")
  <2> DEFINE w == Fetch("target")
             st == Fetched("target", w)
  <2>1. \/ Refuses("target", w)
        \/ NullKey \notin w /\ Sorted("target", w) /\ Merges(st)
    BY <1>4 DEF FetchesTarget
  <2>2. w = Fetch("target") /\ st = Fetched("target", w)
    OBVIOUS
  <2> HIDE DEF w, st
  <2>3. CASE Refuses("target", w)
    <3>1. Aborts("null") \/ Aborts("order")
      BY <2>3 DEF Refuses
    <3> QED
      BY <1>1, <3>1, AbortsHolds
  <2>4. CASE NullKey \notin w /\ Sorted("target", w) /\ Merges(st)
    <3>1. /\ st \in [Sides -> StreamType] /\ Merging(setup, tbl, touched, st, drill.found)
          /\ st["target"].done \/ ~Empty(st, "target")
          /\ \A e \in Sides \ {"target"} : st[e] = drill.stream[e]
      BY <1>1, <1>4, <2>2, <2>4, FetchHolds DEF Sides
    <3>2. st["source"] = drill.stream["source"]
      BY <3>1 DEF Sides
    <3>3. \A d \in Sides : st[d].done \/ ~Empty(st, d)
      BY <1>2, <3>1, <3>2 DEF Sides, Empty
    <3> QED
      BY <1>1, <2>4, <3>1, <3>3, MergesHolds
  <2> QED
    BY <2>1, <2>3, <2>4
<1> QED
  BY <1>3, <1>4

-----------------------------------------------------------------------------
(* The theorems. *)

LEMMA Inductive == ASSUME Sized, IInv, [Next]_vars PROVE IInv'
<1>1. CASE Moves
  BY <1>1, MovesHolds
<1>2. CASE ScansBounds
  BY <1>2, ScansBoundsHolds
<1>3. CASE CountsSource
  BY <1>3, CountsSourceHolds
<1>4. CASE CountsTarget
  BY <1>4, CountsTargetHolds
<1>5. CASE CountFails \/ BagFails
  BY <1>5, ErrsHolds
<1>6. CASE ReadsSource
  BY <1>6, ReadsSourceHolds
<1>7. CASE ReadsTarget
  BY <1>7, ReadsTargetHolds
<1>8. CASE WindowFails
  BY <1>8, WindowFailsHolds
<1>9. CASE BagReadsSource
  BY <1>9, BagReadsSourceHolds
<1>10. CASE BagReadsTarget
  BY <1>10, BagReadsTargetHolds
<1>11. CASE ScansNulls("nulls", "source", "nullsTarget")
  BY <1>11, ScansNullsHolds DEF Sides
<1>12. CASE ScansNulls("nullsTarget", "target", "fetch")
  BY <1>12, ScansNullsHolds DEF Sides
<1>13. CASE FetchesSource
  BY <1>13, FetchesSourceHolds
<1>14. CASE FetchesTarget
  BY <1>14, FetchesTargetHolds
<1>15. CASE DrillFails
  BY <1>15, DrillFailsHolds
<1>16. CASE UNCHANGED vars
  <2>1. UNCHANGED tables /\ run' = run /\ drill' = drill /\ rep' = rep
    BY <1>16 DEF vars, tables
  <2> QED
    BY <2>1 DEF IInv, tables
<1> QED
  BY <1>1, <1>2, <1>3, <1>4, <1>5, <1>6, <1>7, <1>8, <1>9, <1>10, <1>11, <1>12, <1>13,
     <1>14, <1>15, <1>16 DEF Next

LEMMA InvTyped == ASSUME Sized, IInv PROVE TypeOK
<1>1. Tables(setup, tbl, touched) /\ run \in RunType /\ drill \in DrillType /\ rep \in RepType
  BY InvParts DEF IInv
<1>2. run.pc \in Stops /\ run.seek \in Positions /\ run.left \in Nat
      /\ run.null \in BOOLEAN /\ run.bad \in BOOLEAN /\ run.error \in BOOLEAN
  BY <1>1 DEF RunType
<1>3. drill.note \in {"none", "null", "order", "error"} /\ drill.found \in [Classes -> SUBSET Slots]
  BY <1>1 DEF DrillType
<1> QED
  BY <1>1, <1>2, <1>3 DEF TypeOK, IInv, Sized, Tables, TableType, RepType, Stops, Undecided,
    Counting, Hashed, Bagged, Drills, Positions

LEMMA Concludes == ASSUME IInv PROVE CompareHonest
<1>1. /\ Stages(setup, run, drill, rep) /\ Verdict(setup, tbl, touched, run, rep)
      /\ Drill(setup, tbl, touched, run, drill, rep)
  BY InvParts DEF IInv
<1>2. /\ \A s : Agree(s) <=> Agrees(tbl, s)
      /\ \A s : Class(s) = ClassOf(tbl, s)
      /\ SameRows <=> Same(setup, tbl)
      /\ Drilled <=> DrilledIn(setup, run, rep)
      /\ NoStatement <=> setup.ranged /\ run.bounds = <<>>
  BY VerdictsAre
<1>3. PassCovers
  BY <1>1, <1>2 DEF PassCovers, Verdict, Still
<1>4. PassIsSame
  BY <1>1, <1>2 DEF PassIsSame, Verdict, Still
<1>5. FailDiffers
  BY <1>1, <1>2 DEF FailDiffers, Verdict, Still
<1>6. DrillNames
  BY <1>1, <1>2 DEF DrillNames, Over, Drill, Names
<1> QED
  BY <1>3, <1>4, <1>5, <1>6 DEF CompareHonest

\* The comparison's invariant: what its counts, windows, bags and merged rows tell
\* of the rows that nobody wrote meanwhile.
THEOREM ChecksumInvariant == ASSUME Sized PROVE Spec => []IInv
<1>1. Init => IInv
  BY InitHolds
<1>2. IInv /\ [Next]_vars => IInv'
  BY Inductive
<1> QED
  BY <1>1, <1>2, PTL DEF Spec

\* The types of the comparison.
THEOREM ChecksumTypeCorrect == ASSUME Sized PROVE Spec => []TypeOK
<1>1. IInv => TypeOK
  BY InvTyped
<1> QED
  BY <1>1, ChecksumInvariant, PTL

\* A verdict is worth what it says (Checksum!CompareHonest): a table that passed has
\* no differing row among those nobody wrote, unless its hashes hide the key or the
\* read was cut off; one that failed at rest differs; the drill names each untouched
\* row that differs, for what it is.
THEOREM CompareIsHonest == ASSUME Sized PROVE Spec => []CompareHonest
<1>1. IInv => CompareHonest
  BY Concludes
<1> QED
  BY <1>1, ChecksumInvariant, PTL

-----------------------------------------------------------------------------
(* The watermark sync.  It shares nothing with the comparison: where both     *)
(* have a variable of one name, setup and run, it stands for either (MCSync). *)

CONSTANTS JobRows, MaxWm, JobSetups, JobWrites, MaxRuns
VARIABLES src, tgt, st, top, ordered, over, raced, floor, writes, runs

Inc == INSTANCE Incremental WITH Rows <- JobRows, Setups <- JobSetups, MaxWrites <- JobWrites

\* A table that may have rows, and any bounds.
IncSized ==
  /\ IsFiniteSet(JobRows) /\ JobRows # {}
  /\ MaxWm \in Nat /\ JobWrites \in Nat /\ MaxRuns \in Nat
  /\ JobSetups \subseteq Inc!Setup

-----------------------------------------------------------------------------
(* The largest and the smallest of some watermarks.                          *)

\* The sizes the instance speaks of are those of the library's theorems.
LEMMA IncSizes == \A S : Inc!Cardinality(S) = Cardinality(S)
  BY DEF Inc!Cardinality, Cardinality

LEMMA IncLargestOf ==
  ASSUME NEW n \in Nat, NEW S, S \subseteq 0..n, S # {}
  PROVE  Inc!Max(S) \in S /\ \A y \in S : y <= Inc!Max(S)
<1> DEFINE D == 0..n
           T == {x..n : x \in S}
<1>1. IsFiniteSet(D)
  BY FS_Interval
<1>2. T \subseteq SUBSET D /\ T # {}
  <2>1. \A x \in S : x..n \in SUBSET D
    OBVIOUS
  <2>2. PICK x \in S : TRUE
    OBVIOUS
  <2>3. x..n \in T
    OBVIOUS
  <2> QED
    BY <2>1, <2>3
<1>3. PICK X \in T : \A Y \in T : Y \subseteq X => Y = X
  <2> HIDE DEF T, D
  <2> QED
    BY <1>1, <1>2, SmallestMember
<1>4. PICK x \in S : X = x..n
  OBVIOUS
<1>5. ASSUME NEW y \in S, ~(x >= y) PROVE FALSE
  <2>1. y..n \in T /\ y..n \subseteq X /\ x \in X /\ x \notin y..n
    BY <1>4, <1>5
  <2> QED
    BY <1>3, <2>1
<1>6. \E z \in S : \A y \in S : z >= y
  BY <1>5
<1>7. Inc!Max(S) \in S /\ \A y \in S : Inc!Max(S) >= y
  BY <1>6 DEF Inc!Max
<1> QED
  BY <1>7

LEMMA IncSmallestOf ==
  ASSUME NEW n \in Nat, NEW S, S \subseteq 0..n, S # {}
  PROVE  Inc!Min(S) \in S /\ \A y \in S : Inc!Min(S) <= y
<1> DEFINE D == 0..n
           T == {0..x : x \in S}
<1>1. IsFiniteSet(D)
  BY FS_Interval
<1>2. T \subseteq SUBSET D /\ T # {}
  <2>1. \A x \in S : 0..x \in SUBSET D
    OBVIOUS
  <2>2. PICK x \in S : TRUE
    OBVIOUS
  <2>3. 0..x \in T
    OBVIOUS
  <2> QED
    BY <2>1, <2>3
<1>3. PICK X \in T : \A Y \in T : Y \subseteq X => Y = X
  <2> HIDE DEF T, D
  <2> QED
    BY <1>1, <1>2, SmallestMember
<1>4. PICK x \in S : X = 0..x
  OBVIOUS
<1>5. ASSUME NEW y \in S, ~(x <= y) PROVE FALSE
  <2>1. 0..y \in T /\ 0..y \subseteq X /\ x \in X /\ x \notin 0..y
    BY <1>4, <1>5
  <2> QED
    BY <1>3, <2>1
<1>6. \E z \in S : \A y \in S : z =< y
  BY <1>5
<1>7. Inc!Min(S) \in S /\ \A y \in S : Inc!Min(S) =< y
  BY <1>6 DEF Inc!Min
<1> QED
  BY <1>7

LEMMA IncLesserOf ==
  ASSUME NEW a \in Nat, NEW b \in Nat
  PROVE  Inc!Min({a, b}) \in {a, b} /\ Inc!Min({a, b}) <= a /\ Inc!Min({a, b}) <= b
<1>1. a + b \in Nat /\ {a, b} \subseteq 0..(a + b) /\ {a, b} # {}
  OBVIOUS
<1>2. Inc!Min({a, b}) \in {a, b} /\ \A y \in {a, b} : Inc!Min({a, b}) <= y
  BY <1>1, IncSmallestOf
<1> QED
  BY <1>2

-----------------------------------------------------------------------------
(* The inductive invariant.                                                *)

\* The target never has a newer version than the source, nor than a batch that
\* is about to be written.
IncVersions ==
  /\ \A r \in JobRows : tgt[r] <= src[r].n /\ src[r].n <= writes
  /\ run.pc = "write" =>
       \A r \in DOMAIN run.batch : tgt[r] <= run.batch[r] /\ run.batch[r] <= src[r].n

\* Where the cursor stands.  But for a watermark the run was given, no position
\* is beyond the largest watermark committed, so that what is committed in order
\* comes at or behind none of them.
IncPositions ==
  /\ \A r \in JobRows : Inc!Wm(r) <= top
  /\ st <= top /\ run.last <= top
  /\ run.pc = "min" => st = 0 /\ run.passed = 0 /\ run.last = 0
  /\ run.pc \notin {"idle", "min"} =>
       /\ st # 0 => run.from = st
       /\ run.from <= run.wm
       /\ run.wm = run.from \/ run.wm <= top
  /\ run.pc = "scan" =>
       /\ run.passed < run.wm \/ (run.passed = run.wm /\ run.spelt /\ ~run.was)
       /\ run.last <= run.wm
       /\ ~run.ge => run.wm \in {run.last, st, setup.init}
  /\ run.pc = "write" => run.passed = run.wm /\ run.was = run.spelt /\ run.wm <= run.last
  /\ run.pc \in {"drain", "probe"} => run.passed = run.wm /\ run.last = run.wm

\* The rows a run answers for: committed in order, or not at all since it began.
IncDue(r) ==
  /\ Inc!Wm(r) # 0 /\ r \in (ordered \ raced) \cup (JobRows \ run.changed)
  /\ run.from <= Inc!Wm(r) /\ Inc!Wm(r) \notin over
IncInBatch(r) == r \in DOMAIN run.batch /\ run.batch[r] = src[r].n

\* Those of them that lie before w have been copied.
IncBehind(w) == \A r \in JobRows : IncDue(r) /\ Inc!Wm(r) < w => Inc!Copied(r)

\* What of them is copied, or in the batch, at each point of a run.
IncProgress ==
  /\ run.pc = "scan" => IncBehind(run.wm)
  /\ run.pc = "write" =>
       /\ \A r \in JobRows : IncDue(r) /\ Inc!Wm(r) < run.last => Inc!Copied(r) \/ IncInBatch(r)
       /\ Inc!Cardinality(DOMAIN run.batch) # Inc!BatchSize =>
            \A r \in JobRows \ run.changed : IncDue(r) => Inc!Copied(r) \/ IncInBatch(r)
  /\ run.pc = "drain" => IncBehind(run.wm)
  /\ run.pc = "probe" => IncBehind(run.wm + 1)
  /\ run.pc = "end" =>
       IncBehind(run.last) /\ \A r \in JobRows \ run.changed : IncDue(r) => Inc!Copied(r)

IncIInv == Inc!TypeOK /\ IncVersions /\ IncPositions /\ IncProgress /\ Inc!NoneBehind

-----------------------------------------------------------------------------
(* Types. *)

IncPcs == {"idle", "min", "scan", "write", "drain", "probe", "end"}
IncRunType == [pc : IncPcs, wm : Inc!Wms, spelt : BOOLEAN, ge : BOOLEAN, batch : Inc!Batch, last : Inc!Wms,
            total : BOOLEAN, from : Inc!Wms, passed : Inc!Wms, was : BOOLEAN, changed : SUBSET JobRows]
IncSrcType == [JobRows -> [wm : Inc!Wms, n : 0..JobWrites]]

\* TypeOK, with its sets under names.
IncRanges ==
  /\ setup \in Inc!Setup /\ setup \in JobSetups
  /\ src \in IncSrcType
  /\ tgt \in [JobRows -> Inc!None..JobWrites]
  /\ st \in Inc!Wms /\ top \in Inc!Wms /\ floor \in Inc!Wms /\ over \subseteq Inc!Wms
  /\ ordered \subseteq JobRows /\ raced \subseteq JobRows
  /\ run \in IncRunType
  /\ writes \in 0..JobWrites /\ runs \in 0..MaxRuns

LEMMA IncTypesAreRanges ==
  ASSUME IncSized
  PROVE  (Inc!TypeOK <=> IncRanges) /\ (Inc!TypeOK' <=> IncRanges')
<1>1. Inc!TypeOK <=> IncRanges
  BY DEF IncSized, Inc!TypeOK, IncRanges, IncRunType, IncSrcType, IncPcs
<1>2. Inc!TypeOK' <=> IncRanges'
  BY DEF IncSized, Inc!TypeOK, IncRanges, IncRunType, IncSrcType, IncPcs
<1> QED
  BY <1>1, <1>2

\* The fields, and that the watermarks are numbers.
LEMMA IncFields ==
  ASSUME IncSized, IncRanges
  PROVE  /\ Inc!Wms \subseteq Nat /\ 0 \in Inc!Wms
         /\ setup.init \in Inc!Wms /\ setup.strict \in BOOLEAN /\ Inc!BatchSize \in Nat \ {0}
         /\ \A r \in JobRows : Inc!Wm(r) \in Inc!Wms /\ src[r].n \in 0..JobWrites /\ src[r].n \in Nat
         /\ \A r \in JobRows : tgt[r] \in Inc!None..JobWrites /\ tgt[r] \in Int
         /\ st \in Inc!Wms /\ top \in Inc!Wms /\ floor \in Inc!Wms
         /\ run.wm \in Inc!Wms /\ run.last \in Inc!Wms /\ run.from \in Inc!Wms /\ run.passed \in Inc!Wms
         /\ run.pc \in IncPcs /\ run.ge \in BOOLEAN /\ run.total \in BOOLEAN
         /\ run.batch \in Inc!Batch /\ run.changed \subseteq JobRows
         /\ Inc!Live \subseteq JobRows /\ Inc!Within \subseteq Inc!Live
         /\ writes \in Nat /\ JobWrites \in Nat

<1>1. Inc!Wms \subseteq Nat /\ 0 \in Inc!Wms /\ 0..JobWrites \subseteq Nat /\ Inc!None..JobWrites \subseteq Int
  BY DEF IncSized, Inc!Wms, Inc!None
<1>2. setup.init \in Inc!Wms /\ setup.strict \in BOOLEAN /\ Inc!BatchSize \in Nat \ {0}
  BY DEF IncRanges, Inc!Setup, Inc!BatchSize
<1>3. \A r \in JobRows : Inc!Wm(r) \in Inc!Wms /\ src[r].n \in 0..JobWrites
  BY DEF IncRanges, IncSrcType, Inc!Wm
<1>4. /\ run.wm \in Inc!Wms /\ run.last \in Inc!Wms /\ run.from \in Inc!Wms /\ run.passed \in Inc!Wms
      /\ run.pc \in IncPcs /\ run.ge \in BOOLEAN /\ run.total \in BOOLEAN
      /\ run.batch \in Inc!Batch /\ run.changed \subseteq JobRows
  BY DEF IncRanges, IncRunType
<1>5. Inc!Live \subseteq JobRows /\ Inc!Within \subseteq Inc!Live
  BY DEF Inc!Live, Inc!Within
<1> QED
  BY <1>1, <1>2, <1>3, <1>4, <1>5 DEF IncRanges, IncSized

\* The watermarks and versions are numbers.
IncNumbers ==
  /\ \A r \in JobRows : Inc!Wm(r) \in Nat /\ src[r].n \in Nat /\ tgt[r] \in Int
  /\ st \in Nat /\ top \in Nat /\ floor \in Nat /\ writes \in Nat
  /\ run.wm \in Nat /\ run.last \in Nat /\ run.from \in Nat /\ run.passed \in Nat

LEMMA IncAreNumbers == ASSUME IncSized, IncRanges PROVE IncNumbers
  BY IncFields DEF IncNumbers

\* What a batch is: versions of some rows.
LEMMA IncBatches ==
  /\ \A b \in Inc!Batch : DOMAIN b \subseteq JobRows /\ \A r \in DOMAIN b : b[r] \in 0..JobWrites
  /\ \A S \in SUBSET JobRows : \A b \in [S -> 0..JobWrites] : b \in Inc!Batch
  /\ Inc!Empty \in Inc!Batch /\ DOMAIN Inc!Empty = {}
<1>1. \A b \in Inc!Batch : DOMAIN b \subseteq JobRows /\ \A r \in DOMAIN b : b[r] \in 0..JobWrites
  BY DEF Inc!Batch
<1>2. \A S \in SUBSET JobRows : \A b \in [S -> 0..JobWrites] : b \in Inc!Batch
  BY DEF Inc!Batch
<1>3. Inc!Empty \in [{} -> 0..JobWrites] /\ {} \in SUBSET JobRows
  BY DEF Inc!Empty
<1> QED
  BY <1>1, <1>2, <1>3

LEMMA IncIdleType == ASSUME IncSized PROVE Inc!Idle \in IncRunType
  BY IncBatches DEF Inc!Idle, IncRunType, IncPcs, IncSized, Inc!Wms

LEMMA IncInitIInv == ASSUME IncSized, Inc!Init PROVE IncIInv
<1>1. /\ 0 \in Inc!Wms /\ Inc!Wms \subseteq Nat /\ 0 \in 0..JobWrites /\ 0 \in 0..MaxRuns
      /\ MaxWm \in Nat /\ Inc!None \in Inc!None..JobWrites /\ Inc!None <= 0
  BY DEF IncSized, Inc!Wms, Inc!None
<1>2. src \in IncSrcType /\ \A r \in JobRows : src[r].wm \in Inc!Wms /\ src[r].n = 0
  BY <1>1 DEF Inc!Init, IncSrcType
<1>3. top \in Inc!Wms /\ \A r \in JobRows : Inc!Wm(r) <= top
  <2> DEFINE W == {src[r].wm : r \in JobRows}
  <2>1. W \subseteq 0..MaxWm
    BY <1>2 DEF Inc!Wms
  <2>2. W # {}
    BY DEF IncSized
  <2>3. Inc!Max(W) \in W /\ \A y \in W : y <= Inc!Max(W)
    BY <1>1, <2>1, <2>2, IncLargestOf
  <2>4. top = Inc!Max(W)
    BY DEF Inc!Init
  <2> QED
    BY <2>1, <2>3, <2>4 DEF Inc!Wm, Inc!Wms
<1>4. IncRanges
  BY <1>1, <1>2, <1>3, IncIdleType DEF Inc!Init, IncRanges, IncSized
<1>5. run.pc = "idle" /\ run.last = 0 /\ st = 0 /\ writes = 0
  BY DEF Inc!Init, Inc!Idle
<1>6. \A r \in JobRows : tgt[r] = Inc!None /\ src[r].n = 0
  BY <1>2 DEF Inc!Init
<1>7. IncVersions /\ IncPositions /\ IncProgress /\ Inc!NoneBehind
  <2>1. 0 <= top
    BY <1>1, <1>3
  <2> QED
    BY <1>1, <1>3, <1>5, <1>6, <2>1 DEF IncVersions, IncPositions, IncProgress, Inc!NoneBehind
<1> QED
  BY <1>4, <1>7, IncTypesAreRanges DEF IncIInv

-----------------------------------------------------------------------------
(* The source and the job. *)

LEMMA IncWritesStep == ASSUME IncSized, IncIInv, Inc!SourceWrites PROVE IncIInv'
<1>0. IncRanges
  BY IncTypesAreRanges DEF IncIInv
<1>1. PICK r \in JobRows, w \in 1..MaxWm :
        /\ src' = [src EXCEPT ![r] = [wm |-> w, n |-> writes + 1]]
        /\ top' = Inc!Max({top, w})
        /\ ordered' = IF w >= top THEN ordered \cup {r} ELSE ordered \ {r}
        /\ raced' = IF run.pc = "probe" /\ w = run.wm THEN raced \cup {r} ELSE raced \ {r}
        /\ run' = [run EXCEPT !.changed = IF run.pc = "idle" THEN {} ELSE @ \cup {r}]
  BY DEF Inc!SourceWrites
<1>2. /\ writes < JobWrites /\ writes' = writes + 1
      /\ UNCHANGED <<setup, st, floor, runs, tgt, over>>
  BY DEF Inc!SourceWrites, Inc!job
<1>3. w \in Inc!Wms /\ w \in Nat /\ w # 0
  BY DEF Inc!Wms, IncSized
<1>4. top' \in Inc!Wms /\ top' \in Nat /\ top <= top' /\ w <= top'
  <2>1. {top, w} \subseteq 0..MaxWm /\ {top, w} # {}
    BY <1>0, <1>3 DEF IncRanges, Inc!Wms
  <2>2. top' \in {top, w} /\ \A y \in {top, w} : y <= top'
    BY <1>1, <2>1, IncLargestOf DEF IncSized
  <2> QED
    BY <2>1, <2>2 DEF Inc!Wms
<1>5. /\ src' \in IncSrcType /\ Inc!Wm(r)' = w /\ src'[r].n = writes + 1
      /\ \A q \in JobRows : q # r => src'[q] = src[q] /\ Inc!Wm(q)' = Inc!Wm(q)
  <2>1. [wm |-> w, n |-> writes + 1] \in [wm : Inc!Wms, n : 0..JobWrites]
    BY <1>0, <1>2, <1>3 DEF IncRanges, IncSized
  <2> QED
    BY <1>0, <1>1, <2>1 DEF IncRanges, IncSrcType, Inc!Wm
<1>6. /\ run' \in IncRunType /\ run'.pc = run.pc /\ run'.wm = run.wm /\ run'.ge = run.ge
      /\ run'.batch = run.batch /\ run'.last = run.last /\ run'.from = run.from
      /\ run'.passed = run.passed /\ run'.spelt = run.spelt /\ run'.was = run.was
      /\ run.pc # "idle" => run'.changed = run.changed \cup {r}
  BY <1>0, <1>1 DEF IncRanges, IncRunType
<1>7. IncRanges'
  BY <1>0, <1>1, <1>2, <1>4, <1>5, <1>6 DEF IncRanges, IncSized
<1>8. IncVersions'
  <2>1. \A q \in JobRows : src[q].n <= src'[q].n /\ tgt'[q] = tgt[q] /\ tgt[q] <= src[q].n
                       /\ src'[q].n <= writes + 1 /\ src[q].n \in Nat /\ src'[q].n \in Nat /\ tgt[q] \in Int
    BY <1>0, <1>2, <1>5, IncAreNumbers DEF IncIInv, IncVersions, IncNumbers
  <2>2. /\ run'.pc = run.pc /\ run'.batch = run.batch /\ DOMAIN run.batch \subseteq JobRows
        /\ \A q \in DOMAIN run.batch : run.batch[q] \in Nat
    BY <1>0, <1>6, IncFields, IncBatches
  <2>3. \A q \in JobRows : tgt'[q] <= src'[q].n /\ src'[q].n <= writes'
    BY <1>2, <2>1
  <2>4. run.pc = "write" => \A q \in DOMAIN run.batch : tgt'[q] <= run.batch[q] /\ run.batch[q] <= src'[q].n
    BY <2>1, <2>2 DEF IncIInv, IncVersions
  <2> QED
    BY <2>2, <2>3, <2>4 DEF IncVersions
<1>9. IncPositions'
  <2>1. \A q \in JobRows : Inc!Wm(q)' <= top'
    <3>1. ASSUME NEW q \in JobRows, q # r PROVE Inc!Wm(q) <= top /\ Inc!Wm(q) \in Nat /\ top \in Nat
      BY <1>0, IncAreNumbers DEF IncIInv, IncPositions, IncNumbers
    <3> QED
      BY <1>3, <1>4, <1>5, <3>1
  <2>2. \A x \in Nat : x <= top => x <= top'
    BY <1>0, <1>4, IncAreNumbers DEF IncNumbers
  <2> QED
    BY <1>0, <1>2, <1>6, <2>1, <2>2, IncAreNumbers DEF IncIInv, IncPositions, IncNumbers
<1>10. /\ \A q \in JobRows : q # r /\ run.pc # "idle" => (IncDue(q)' <=> IncDue(q)) /\ (IncInBatch(q)' <=> IncInBatch(q))
       /\ \A q \in JobRows : q # r => (Inc!Copied(q)' <=> Inc!Copied(q))
  BY <1>1, <1>2, <1>5, <1>6 DEF IncDue, IncInBatch, Inc!Copied
<1>11. run.pc # "idle" /\ IncDue(r)' =>
         /\ r \in run'.changed /\ top <= w /\ ~(run.pc = "probe" /\ w = run.wm) /\ run.from <= w
  BY <1>0, <1>1, <1>3, <1>5, <1>6, IncFields DEF IncDue
<1>12. IncProgress'
  <2>1. CASE run.pc = "scan" \/ run.pc = "drain"
    <3>1. IncDue(r)' => ~(w < run.wm)
      BY <1>0, <1>3, <1>11, <2>1, IncAreNumbers DEF IncIInv, IncPositions, IncNumbers
    <3> QED
      BY <1>5, <1>6, <1>10, <2>1, <3>1 DEF IncIInv, IncProgress, IncBehind
  <2>2. CASE run.pc = "write"
    <3>1. IncDue(r)' => ~(w < run.last) /\ r \in run'.changed
      BY <1>0, <1>3, <1>11, <2>2, IncAreNumbers DEF IncIInv, IncPositions, IncNumbers
    <3> QED
      BY <1>2, <1>5, <1>6, <1>10, <2>2, <3>1 DEF IncIInv, IncProgress, Inc!BatchSize
  <2>3. CASE run.pc = "probe"
    <3>1. IncDue(r)' => ~(w < run.wm + 1)
      BY <1>0, <1>3, <1>11, <2>3, IncAreNumbers DEF IncIInv, IncPositions, IncNumbers
    <3> QED
      BY <1>5, <1>6, <1>10, <2>3, <3>1 DEF IncIInv, IncProgress, IncBehind
  <2>4. CASE run.pc = "end"
    <3>1. IncDue(r)' => ~(w < run.last) /\ r \in run'.changed
      BY <1>0, <1>3, <1>11, <2>4, IncAreNumbers DEF IncIInv, IncPositions, IncNumbers
    <3> QED
      BY <1>5, <1>6, <1>10, <2>4, <3>1 DEF IncIInv, IncProgress, IncBehind
  <2> QED
    BY <1>6, <2>1, <2>2, <2>3, <2>4 DEF IncProgress
<1>13. Inc!NoneBehind'
  <2>1. r \in ordered' => ~(w < st)
    BY <1>0, <1>1, <1>3, IncFields DEF IncIInv, IncPositions
  <2> QED
    BY <1>1, <1>2, <1>5, <1>10, <2>1 DEF IncIInv, Inc!NoneBehind, Inc!Live
<1> QED
  BY <1>7, <1>8, <1>9, <1>12, <1>13, IncTypesAreRanges DEF IncIInv

LEMMA IncDeletesStep == ASSUME IncSized, IncIInv, Inc!SourceDeletes PROVE IncIInv'
<1>0. IncRanges
  BY IncTypesAreRanges DEF IncIInv
<1>1. PICK r \in Inc!Live : src' = [src EXCEPT ![r].wm = 0]
  BY DEF Inc!SourceDeletes
<1>2. /\ writes < JobWrites /\ writes' = writes + 1
      /\ UNCHANGED <<setup, st, floor, runs, run, tgt, top, ordered, over, raced>>
  BY DEF Inc!SourceDeletes, Inc!job
<1>3. r \in JobRows
  BY DEF Inc!Live
<1>4. /\ src' \in IncSrcType /\ Inc!Wm(r)' = 0 /\ src'[r].n = src[r].n
      /\ \A q \in JobRows : q # r => src'[q] = src[q] /\ Inc!Wm(q)' = Inc!Wm(q)
  BY <1>0, <1>1, <1>3, IncFields DEF IncRanges, IncSrcType, Inc!Wm
<1>5. IncRanges'
  BY <1>0, <1>2, <1>4, IncFields DEF IncRanges, IncSized
<1>6. \A q \in JobRows : src'[q].n = src[q].n /\ (Inc!Copied(q)' <=> Inc!Copied(q)) /\ (IncInBatch(q)' <=> IncInBatch(q))
  BY <1>2, <1>4 DEF Inc!Copied, IncInBatch
<1>7. \A q \in JobRows : (IncDue(q)' => IncDue(q) /\ Inc!Wm(q)' = Inc!Wm(q)) /\ (q \in Inc!Live' => q \in Inc!Live /\ Inc!Wm(q)' = Inc!Wm(q))
  BY <1>2, <1>4 DEF IncDue, Inc!Live
<1>8. IncVersions'
  BY SMTT(30), <1>0, <1>2, <1>6, IncFields, IncBatches DEF IncIInv, IncVersions
<1>9. IncPositions'
  BY <1>0, <1>2, <1>4, IncFields DEF IncIInv, IncPositions
<1>10. IncProgress'
  BY <1>2, <1>6, <1>7 DEF IncIInv, IncProgress, IncBehind, Inc!BatchSize
<1>11. Inc!NoneBehind'
  BY <1>2, <1>6, <1>7 DEF IncIInv, Inc!NoneBehind, Inc!Live
<1> QED
  BY <1>5, <1>8, <1>9, <1>10, <1>11, IncTypesAreRanges DEF IncIInv

\* Nothing a run is at work on changes.
LEMMA IncJobSteps == ASSUME IncSized, IncIInv, Inc!Edits \/ Inc!Resets PROVE IncIInv'
<1>0. IncRanges
  BY IncTypesAreRanges DEF IncIInv
<1>1. /\ run.pc = "idle" /\ UNCHANGED <<src, top, ordered, writes, runs, run, tgt>>
      /\ (st' = st /\ floor' = floor /\ over' = over /\ raced' = raced) \/ st' = 0
  BY DEF Inc!Edits, Inc!Resets, Inc!source
<1>2. IncRanges'
  BY <1>0, <1>1, IncFields DEF IncRanges, Inc!Edits, Inc!Resets, Inc!source, IncSized
<1>3. IncVersions' /\ IncProgress'
  BY <1>1 DEF IncIInv, IncVersions, IncProgress
<1>4. IncPositions'
  BY <1>0, <1>1, IncFields DEF IncIInv, IncPositions, Inc!Wm
<1>5. Inc!NoneBehind'
  BY <1>1 DEF IncIInv, Inc!NoneBehind, Inc!Live, Inc!Wm, Inc!Copied
<1> QED
  BY <1>2, <1>3, <1>4, <1>5, IncTypesAreRanges DEF IncIInv

-----------------------------------------------------------------------------
(* A run. *)

\* It is over, its table as it was.
LEMMA IncIdleStep ==
  ASSUME IncSized, IncIInv, run' = Inc!Idle, UNCHANGED <<Inc!source, Inc!job, tgt, over, raced>>
  PROVE  IncIInv'
<1>0. IncRanges /\ IncNumbers
  BY IncTypesAreRanges, IncAreNumbers DEF IncIInv
<1>1. UNCHANGED <<src, top, ordered, writes, setup, st, floor, runs>>
  BY DEF Inc!source, Inc!job
<1>2. run'.pc = "idle" /\ run'.last = 0
  BY DEF Inc!Idle
<1>3. IncRanges'
  BY <1>0, <1>1, IncIdleType DEF IncRanges
<1>4. IncVersions' /\ IncProgress' /\ Inc!NoneBehind'
  BY <1>1, <1>2 DEF IncIInv, IncVersions, IncProgress, Inc!NoneBehind, Inc!Live, Inc!Wm,
    Inc!Copied
<1>5. IncPositions'
  BY <1>0, <1>1, <1>2 DEF IncIInv, IncPositions, Inc!Wm, IncNumbers
<1> QED
  BY <1>3, <1>4, <1>5, IncTypesAreRanges DEF IncIInv

LEMMA IncBeginsStep == ASSUME IncSized, IncIInv, Inc!Begins PROVE IncIInv'
<1>0. IncRanges /\ IncNumbers
  BY IncTypesAreRanges, IncAreNumbers DEF IncIInv
<1> DEFINE wm == IF st # 0 THEN st ELSE setup.init
           pc == IF wm = 0 THEN "min" ELSE "scan"
<1>1. PICK spelt \in BOOLEAN :
      /\ wm \in Inc!Wms /\ wm \in Nat /\ pc \in IncPcs
      /\ run' = [Inc!Idle EXCEPT !.pc = pc, !.wm = wm, !.spelt = spelt, !.from = wm]
      /\ runs' = runs + 1 /\ runs < MaxRuns
      /\ UNCHANGED <<src, top, ordered, writes, setup, st, floor, tgt, over, raced>>
  BY <1>0, IncFields DEF Inc!Begins, Inc!source, IncPcs
<1>2. /\ run'.pc = pc /\ run'.wm = wm /\ run'.from = wm /\ run'.ge = FALSE
      /\ run'.last = 0 /\ run'.passed = 0
  BY <1>1 DEF Inc!Idle
<1>3. run' \in IncRunType
  BY <1>1, IncIdleType DEF IncRunType
<1>4. IncRanges'
  BY <1>0, <1>1, <1>3 DEF IncRanges, IncSized
<1>5. IncVersions' /\ Inc!NoneBehind'
  BY <1>1, <1>2 DEF IncIInv, IncVersions, Inc!NoneBehind, Inc!Live, Inc!Wm, Inc!Copied
<1>6. IncPositions'
  <2>1. \A r \in JobRows : Inc!Wm(r)' <= top'
    BY <1>1 DEF IncIInv, IncPositions, Inc!Wm
  <2>2. 0 <= top /\ st <= top
    BY <1>0 DEF IncIInv, IncPositions, IncNumbers
  <2>3. wm = 0 => st = 0
    BY <1>0 DEF IncNumbers
  <2>4. wm \in {st, setup.init} /\ (st # 0 => wm = st)
    OBVIOUS
  <2>5. wm # 0 => 0 < wm
    BY <1>1
  <2> HIDE DEF wm
  <2> QED
    BY <1>1, <1>2, <2>1, <2>2, <2>3, <2>4, <2>5 DEF IncPositions
<1>7. IncProgress'
  <2>1. \A r \in JobRows : Inc!Wm(r)' \in Nat
    BY <1>0, <1>1 DEF IncNumbers, Inc!Wm
  <2>2. \A r \in JobRows : ~(IncDue(r)' /\ Inc!Wm(r)' < run'.wm)
    <3> HIDE DEF wm, pc
    <3> QED
      BY <1>1, <1>2, <2>1 DEF IncDue
  <2> QED
    BY <1>2, <2>2 DEF IncProgress, IncBehind
<1> QED
  BY <1>4, <1>5, <1>6, <1>7, IncTypesAreRanges DEF IncIInv

LEMMA IncProbesStep == ASSUME IncSized, IncIInv, Inc!ProbesMin PROVE IncIInv'
<1>0. IncRanges /\ IncNumbers
  BY IncTypesAreRanges, IncAreNumbers DEF IncIInv
<1>1. CASE Inc!Live = {}
  BY <1>1, IncIdleStep DEF Inc!ProbesMin
<1>2. CASE Inc!Live # {}
  <2> DEFINE W == {Inc!Wm(r) : r \in Inc!Live}
             low == Inc!Min(W)
  <2>1. low \in W /\ low \in Inc!Wms /\ low \in Nat /\ 0 < low
    <3>1. W \subseteq Inc!Wms /\ W # {} /\ Inc!Wms \subseteq Nat
      BY <1>0, <1>2, IncFields
    <3>2. low \in W
      <4> HIDE DEF W
      <4> QED
        BY <3>1, IncSmallestOf DEF IncSized, Inc!Wms
    <3>3. \A x \in W : x # 0
      BY DEF Inc!Live
    <3> HIDE DEF W, low
    <3>4. low \in Nat /\ low # 0 /\ low \in Inc!Wms
      BY <3>1, <3>2, <3>3
    <3> QED
      BY <3>2, <3>4
  <2>2. low <= top
    <3>1. PICK r \in Inc!Live : low = Inc!Wm(r)
      BY <2>1
    <3> QED
      BY <1>0, <3>1, IncFields DEF IncIInv, IncPositions
  <2>3. /\ run' = [run EXCEPT !.pc = "scan", !.wm = low, !.spelt = setup.alike,
                             !.from = low, !.ge = TRUE]
        /\ run.pc = "min"
        /\ UNCHANGED <<src, top, ordered, writes, setup, st, floor, runs, tgt, over, raced>>
    BY <1>2 DEF Inc!ProbesMin, Inc!source, Inc!job
  <2>9. setup.alike \in BOOLEAN
    BY <1>0 DEF IncRanges, Inc!Setup
  <2> HIDE DEF low, W
  <2>4. /\ run'.pc = "scan" /\ run'.wm = low /\ run'.from = low /\ run'.ge = TRUE
        /\ run'.last = run.last /\ run'.passed = run.passed /\ run' \in IncRunType
    BY <1>0, <2>1, <2>3, <2>9 DEF IncRanges, IncRunType, IncPcs
  <2>5. IncRanges'
    BY <1>0, <2>3, <2>4 DEF IncRanges
  <2>6. IncVersions' /\ Inc!NoneBehind'
    BY <2>3, <2>4 DEF IncIInv, IncVersions, Inc!NoneBehind, Inc!Live, Inc!Wm, Inc!Copied
  <2>7. IncPositions'
    <3>1. \A r \in JobRows : Inc!Wm(r)' <= top'
      BY <2>3 DEF IncIInv, IncPositions, Inc!Wm
    <3>2. st = 0 /\ run.passed = 0 /\ run.last = 0 /\ 0 <= top
      BY <1>0, <2>3 DEF IncIInv, IncPositions, IncNumbers
    <3> QED
      BY <2>1, <2>2, <2>3, <2>4, <3>1, <3>2 DEF IncPositions
  <2>8. IncProgress'
    <3>1. \A r \in JobRows : Inc!Wm(r)' \in Nat
      BY <1>0, <2>3 DEF IncNumbers, Inc!Wm
    <3>2. \A r \in JobRows : ~(IncDue(r)' /\ Inc!Wm(r)' < run'.wm)
      BY <2>1, <2>4, <3>1 DEF IncDue
    <3> QED
      BY <2>4, <3>2 DEF IncProgress, IncBehind
  <2> QED
    BY <2>5, <2>6, <2>7, <2>8, IncTypesAreRanges DEF IncIInv
<1> QED
  BY <1>1, <1>2

\* A batch is a first part of the rows from the cursor on, and all of them if it
\* is short.
LEMMA IncBatchIsFirst ==
  ASSUME IncSized, IncRanges, NEW S \in SUBSET Inc!Within, Inc!IsBatch(S)
  PROVE  /\ S = {} => Inc!Within = {}
         /\ Inc!Cardinality(S) # Inc!BatchSize => S = Inc!Within
         /\ \A r \in S, q \in Inc!Within \ S : Inc!Wm(r) <= Inc!Wm(q)
<1>1. IsFiniteSet(Inc!Within) /\ Inc!Cardinality(Inc!Within) \in Nat
  <2>1. Inc!Within \subseteq JobRows
    BY IncFields
  <2> QED
    BY <2>1, IncSizes, FS_Subset, FS_CardinalityType DEF IncSized
<1>2. Inc!Cardinality(S) \in {Inc!BatchSize, Inc!Cardinality(Inc!Within)}
  BY <1>1, IncLesserOf, IncFields DEF Inc!IsBatch
<1>3. Inc!Cardinality(S) = Inc!Cardinality(Inc!Within) => S = Inc!Within
  BY <1>1, IncSizes, FS_Subset
<1>4. S = {} => Inc!Cardinality(S) = 0
  BY IncSizes, FS_EmptySet
<1>5. S = {} => Inc!Within = {}
  BY <1>2, <1>3, <1>4, IncFields
<1>6. \A r \in S, q \in Inc!Within \ S : Inc!Wm(r) <= Inc!Wm(q)
  BY DEF Inc!IsBatch
<1> QED
  BY <1>2, <1>3, <1>5, <1>6

LEMMA IncScansStep == ASSUME IncSized, IncIInv, Inc!Scans PROVE IncIInv'
<1>0. IncRanges /\ IncNumbers
  BY IncTypesAreRanges, IncAreNumbers DEF IncIInv
<1>1. PICK S \in SUBSET Inc!Within :
        /\ Inc!IsBatch(S)
        /\ run' = IF S = {} THEN [run EXCEPT !.pc = "end"]
                  ELSE [run EXCEPT !.pc = "write", !.batch = [r \in S |-> src[r].n],
                                   !.last = Inc!Max({Inc!Wm(r) : r \in S}),
                                   !.passed = run.wm, !.was = run.spelt]
  BY DEF Inc!Scans
<1>2. /\ run.pc = "scan"
      /\ over' = IF Inc!Strict /\ run.wm \in {run.last, st, setup.init} THEN over \cup {run.wm} ELSE over
      /\ UNCHANGED <<src, top, ordered, writes, setup, st, floor, runs, tgt, raced>>
  BY DEF Inc!Scans, Inc!source, Inc!job
<1>3. over \subseteq over' /\ over' \subseteq Inc!Wms
  BY <1>0, <1>2, IncFields DEF IncRanges
<1>4. \A r \in JobRows : Inc!Wm(r)' = Inc!Wm(r) /\ (Inc!Copied(r)' <=> Inc!Copied(r)) /\ (r \in Inc!Live' <=> r \in Inc!Live)
  BY <1>2 DEF Inc!Wm, Inc!Copied, Inc!Live
<1>5. run'.changed = run.changed /\ run'.from = run.from /\ run'.wm = run.wm
  BY <1>0, <1>1 DEF IncRanges, IncRunType
<1>6. \A r \in JobRows : IncDue(r)' => IncDue(r)
  BY <1>2, <1>3, <1>4, <1>5 DEF IncDue
\* The rows a strict scan passes by lie at a value it went on from.
<1>7. \A r \in JobRows : IncDue(r)' /\ r \notin Inc!Within => Inc!Copied(r)
  <2> SUFFICES ASSUME NEW r \in JobRows, IncDue(r)', r \notin Inc!Within PROVE Inc!Copied(r)
    OBVIOUS
  <2>1. IncDue(r) /\ r \in Inc!Live /\ Inc!Wm(r) \notin over' /\ Inc!Wm(r) \in Nat /\ run.wm \in Nat
    BY <1>0, <1>4, <1>6 DEF IncDue, Inc!Live, IncNumbers
  <2>2. CASE Inc!Wm(r) < run.wm
    BY <1>2, <2>1, <2>2 DEF IncIInv, IncProgress, IncBehind
  <2>3. CASE ~(Inc!Wm(r) < run.wm)
    <3>1. Inc!Strict /\ Inc!Wm(r) = run.wm
      BY <2>1, <2>3 DEF Inc!Within
    <3>2. run.wm \in over'
      BY <1>2, <3>1 DEF IncIInv, IncPositions, Inc!Strict
    <3> QED
      BY <2>1, <3>1, <3>2
  <2> QED
    BY <2>2, <2>3
<1>8. Inc!NoneBehind'
  BY <1>2, <1>3, <1>4 DEF IncIInv, Inc!NoneBehind, Inc!Live
<1>9. CASE S = {}
  <2>1. /\ run' \in IncRunType /\ run'.pc = "end" /\ run'.last = run.last
    BY <1>0, <1>1, <1>9 DEF IncRanges, IncRunType, IncPcs
  <2>2. IncRanges'
    BY <1>0, <1>2, <1>3, <2>1 DEF IncRanges
  <2>3. IncVersions'
    BY <1>2, <2>1 DEF IncIInv, IncVersions
  <2>4. IncPositions'
    BY <1>2, <1>4, <1>5, <2>1 DEF IncIInv, IncPositions
  <2>5. \A r \in JobRows : IncDue(r)' => Inc!Copied(r)
    BY <1>1, <1>7, <1>9, <1>0, IncBatchIsFirst
  <2>6. IncProgress'
    BY <1>4, <2>1, <2>5 DEF IncProgress, IncBehind
  <2> QED
    BY <1>8, <2>2, <2>3, <2>4, <2>6, IncTypesAreRanges DEF IncIInv
<1>10. CASE S # {}
  <2> DEFINE W == {Inc!Wm(r) : r \in S}
             b == [r \in S |-> src[r].n]
             last == Inc!Max(W)
  <2>1. S \subseteq JobRows /\ b \in Inc!Batch /\ DOMAIN b = S /\ \A r \in S : b[r] = src[r].n
    <3>1. S \subseteq JobRows
      BY <1>0, IncFields
    <3>2. b \in [S -> 0..JobWrites]
      BY <1>0, <3>1, IncFields
    <3> QED
      BY <3>1, <3>2, IncBatches
  <2>2. last \in W /\ \A y \in W : y <= last
    <3>1. W \subseteq Inc!Wms /\ W # {}
      BY <1>0, <1>10, <2>1, IncFields
    <3> HIDE DEF W
    <3> QED
      BY <3>1, IncLargestOf DEF IncSized, Inc!Wms
  <2>3. \A r \in S : Inc!Wm(r) <= last
    BY <2>2
  <2>4. PICK s \in S : last = Inc!Wm(s)
    BY <2>2
  <2> HIDE DEF W, last, b
  <2>5. last \in Inc!Wms /\ last \in Nat /\ last <= top /\ run.wm <= last
    <3>1. run.wm <= Inc!Wm(s) /\ s \in JobRows
      BY <1>0, <2>1, <2>4 DEF Inc!Within, IncNumbers
    <3> QED
      BY <1>0, <2>4, <3>1, IncFields DEF IncIInv, IncPositions
  <2>6. /\ run' \in IncRunType /\ run'.pc = "write" /\ run'.batch = b /\ run'.last = last
        /\ run'.passed = run.wm /\ run'.was = run.spelt /\ run'.spelt = run.spelt
    BY <1>0, <1>1, <1>10, <2>1, <2>5, IncFields DEF IncRanges, IncRunType, IncPcs, W, last, b
  <2>7. IncRanges'
    BY <1>0, <1>2, <1>3, <2>6 DEF IncRanges
  <2>8. IncVersions'
    BY <1>0, <1>2, <2>1, <2>6 DEF IncIInv, IncVersions, IncNumbers
  <2>9. IncPositions'
    BY <1>2, <1>4, <1>5, <2>5, <2>6 DEF IncIInv, IncPositions
  <2>10. \A r \in S : IncInBatch(r)'
    BY <1>2, <2>1, <2>6 DEF IncInBatch
  <2>11. \A r \in JobRows : IncDue(r)' /\ Inc!Wm(r) < last => Inc!Copied(r) \/ IncInBatch(r)'
    <3> SUFFICES ASSUME NEW r \in JobRows, IncDue(r)', Inc!Wm(r) < last, r \in Inc!Within, r \notin S
                 PROVE  FALSE
      BY <1>7, <2>10
    <3>1. Inc!Wm(s) <= Inc!Wm(r)
      BY <1>0, <1>1, IncBatchIsFirst
    <3> QED
      BY <1>0, <2>4, <2>5, <3>1 DEF IncNumbers
  <2>12. Inc!Cardinality(S) # Inc!BatchSize => \A r \in JobRows : IncDue(r)' => Inc!Copied(r) \/ IncInBatch(r)'
    BY <1>0, <1>1, <1>7, <2>10, IncBatchIsFirst
  <2>13. IncProgress'
    BY <1>2, <1>4, <2>1, <2>6, <2>11, <2>12 DEF IncProgress, Inc!BatchSize
  <2> QED
    BY <1>8, <2>7, <2>8, <2>9, <2>13, IncTypesAreRanges DEF IncIInv
<1> QED
  BY <1>9, <1>10

\* Versions no older than the target's and no newer than the source's are handed
\* over: what was copied stays so, and rows leave raced only once they are.
LEMMA IncTakesKeeps ==
  ASSUME IncSized, IncIInv, NEW b, DOMAIN b \subseteq JobRows,
         \A r \in DOMAIN b : b[r] \in 0..JobWrites /\ tgt[r] <= b[r] /\ b[r] <= src[r].n,
         Inc!Takes(b), UNCHANGED <<Inc!source, Inc!job, over>>
  PROVE  /\ run' \in IncRunType => IncRanges'
         /\ \A r \in JobRows : Inc!Wm(r)' = Inc!Wm(r) /\ tgt'[r] <= src'[r].n /\ src'[r].n <= writes'
         /\ \A r \in JobRows : Inc!Copied(r) => Inc!Copied(r)'
         /\ \A r \in DOMAIN b : b[r] = src[r].n => Inc!Copied(r)'
         /\ \A r \in raced : r \in raced' \/ Inc!Copied(r)'
         /\ Inc!NoneBehind'
<1>0. IncRanges /\ IncNumbers
  BY IncTypesAreRanges, IncAreNumbers DEF IncIInv
<1>1. UNCHANGED <<src, top, ordered, writes, setup, st, floor, runs>>
  BY DEF Inc!source, Inc!job
<1>2. \A r \in JobRows : tgt'[r] = IF r \in DOMAIN b THEN b[r] ELSE tgt[r]
  BY DEF Inc!Takes
<1>3. raced' = raced \ {r \in DOMAIN b : b[r] = src[r].n}
  BY DEF Inc!Takes
<1>4. tgt' \in [JobRows -> Inc!None..JobWrites]
  <2>1. \A r \in DOMAIN b : b[r] \in Inc!None..JobWrites
    BY DEF Inc!None, IncSized
  <2> QED
    BY <1>0, <2>1 DEF Inc!Takes, IncRanges
<1>5. run' \in IncRunType => IncRanges'
  BY <1>0, <1>1, <1>3, <1>4 DEF IncRanges
<1>6. \A r \in JobRows : Inc!Wm(r)' = Inc!Wm(r) /\ tgt'[r] <= src'[r].n /\ src'[r].n <= writes'
  BY <1>1, <1>2 DEF IncIInv, IncVersions, Inc!Wm
<1>7. \A r \in JobRows : Inc!Copied(r) => Inc!Copied(r)'
  <2> SUFFICES ASSUME NEW r \in DOMAIN b, Inc!Copied(r) PROVE Inc!Copied(r)'
    BY <1>1, <1>2 DEF Inc!Copied
  <2>1. b[r] \in Nat /\ tgt[r] = src[r].n /\ src[r].n \in Nat
    BY <1>0 DEF IncNumbers, Inc!Copied, IncSized
  <2>2. b[r] = src[r].n
    BY <2>1
  <2> QED
    BY <1>1, <1>2, <2>2 DEF Inc!Copied
<1>8. \A r \in DOMAIN b : b[r] = src[r].n => Inc!Copied(r)'
  BY <1>1, <1>2 DEF Inc!Copied
<1>9. \A r \in raced : r \in raced' \/ Inc!Copied(r)'
  BY <1>3, <1>8
<1>10. Inc!NoneBehind'
  BY <1>1, <1>6, <1>7, <1>9 DEF IncIInv, Inc!NoneBehind, Inc!Live
<1> QED
  BY <1>5, <1>6, <1>7, <1>8, <1>9, <1>10

LEMMA IncWritesBatchStep == ASSUME IncSized, IncIInv, Inc!WritesBatch PROVE IncIInv'
<1>0. IncRanges /\ IncNumbers
  BY IncTypesAreRanges, IncAreNumbers DEF IncIInv
<1> DEFINE b == run.batch
           full == Inc!Cardinality(DOMAIN b) = Inc!BatchSize
<1>1. /\ run.pc = "write" /\ Inc!Takes(b) /\ run' = Inc!CursorStep(full)
      /\ UNCHANGED <<Inc!source, Inc!job, over>>
  BY DEF Inc!WritesBatch
<1>2. /\ DOMAIN b \subseteq JobRows
      /\ \A r \in DOMAIN b : b[r] \in 0..JobWrites /\ tgt[r] <= b[r] /\ b[r] <= src[r].n
  BY <1>0, <1>1, IncFields, IncBatches DEF IncIInv, IncVersions
<1>3. UNCHANGED <<src, top, ordered, writes, setup, st, floor, runs>>
  BY <1>1 DEF Inc!source, Inc!job
<1>4. /\ run' \in IncRunType => IncRanges'
      /\ \A r \in JobRows : Inc!Wm(r)' = Inc!Wm(r) /\ tgt'[r] <= src'[r].n /\ src'[r].n <= writes'
      /\ \A r \in JobRows : Inc!Copied(r) => Inc!Copied(r)'
      /\ \A r \in DOMAIN b : b[r] = src[r].n => Inc!Copied(r)'
      /\ \A r \in raced : r \in raced' \/ Inc!Copied(r)'
      /\ Inc!NoneBehind'
  BY <1>1, <1>2, IncTakesKeeps
<1> HIDE DEF full
<1>5. /\ run' \in IncRunType /\ run'.changed = run.changed /\ run'.from = run.from
      /\ run'.last = run.last /\ run'.passed = run.passed
      /\ run'.pc = IF ~full THEN "end" ELSE IF Inc!Saturated THEN "drain" ELSE "scan"
      /\ run'.wm = IF full /\ ~Inc!Saturated THEN run.last ELSE run.wm
      /\ full /\ ~Inc!Saturated => run'.ge = FALSE /\ run'.spelt = TRUE
      /\ run'.was = run.was
  <2>1. Inc!Empty \in Inc!Batch
    BY IncBatches
  <2> QED
    BY <1>0, <1>1, <2>1 DEF IncRanges, IncRunType, IncPcs, Inc!CursorStep
<1>6. \A r \in JobRows : IncDue(r)' => IncDue(r) \/ Inc!Copied(r)'
  BY <1>1, <1>3, <1>4, <1>5 DEF IncDue
<1>7. \A r \in JobRows : IncDue(r)' /\ Inc!Wm(r)' < run.last => Inc!Copied(r)'
  BY <1>1, <1>4, <1>6 DEF IncIInv, IncProgress, IncInBatch
<1>8. ~full => \A r \in JobRows \ run.changed : IncDue(r)' => Inc!Copied(r)'
  BY <1>1, <1>4, <1>6 DEF IncIInv, IncProgress, IncInBatch, full
<1>9. IncVersions'
  <2>1. run'.pc # "write"
    BY <1>5
  <2> QED
    BY <1>4, <2>1 DEF IncVersions
<1>10. /\ run.passed = run.wm /\ run.was = run.spelt /\ run.wm <= run.last /\ run.last <= top /\ st <= top
       /\ \A r \in JobRows : Inc!Wm(r)' <= top
       /\ (st # 0 => run.from = st) /\ run.from <= run.wm /\ (run.wm = run.from \/ run.wm <= top)
  BY <1>1, <1>4 DEF IncIInv, IncPositions
<1>11. CASE ~full
  <2>1. run'.pc = "end" /\ run'.wm = run.wm
    BY <1>5, <1>11
  <2>2. IncPositions'
    BY <1>3, <1>5, <1>10, <2>1 DEF IncPositions
  <2>3. IncProgress'
    BY <1>5, <1>7, <1>8, <1>11, <2>1 DEF IncProgress, IncBehind
  <2> QED
    BY <1>4, <1>5, <1>9, <2>2, <2>3, IncTypesAreRanges DEF IncIInv
<1>12. CASE full /\ Inc!Saturated
  <2>1. run'.pc = "drain" /\ run'.wm = run.wm /\ run.last = run.wm
    BY <1>5, <1>12 DEF Inc!Saturated
  <2>2. IncPositions'
    BY <1>3, <1>5, <1>10, <2>1 DEF IncPositions
  <2>3. IncProgress'
    BY <1>5, <1>7, <2>1 DEF IncProgress, IncBehind
  <2> QED
    BY <1>4, <1>5, <1>9, <2>2, <2>3, IncTypesAreRanges DEF IncIInv
<1>13. CASE full /\ ~Inc!Saturated
  <2>1. run'.pc = "scan" /\ run'.wm = run.last /\ (run.last # run.wm \/ ~run.spelt)
    BY <1>5, <1>13 DEF Inc!Saturated, full
  <2>2. (run.wm < run.last \/ (run.wm = run.last /\ ~run.was)) /\ run.from <= run.last
    BY <1>0, <1>10, <2>1 DEF IncNumbers
  <2>3. run.last <= run.last
    BY <1>0 DEF IncNumbers
  <2>4. IncPositions'
    BY <1>3, <1>5, <1>10, <1>13, <2>1, <2>2, <2>3 DEF IncPositions
  <2>5. IncProgress'
    BY <1>5, <1>7, <2>1 DEF IncProgress, IncBehind
  <2> QED
    BY <1>4, <1>5, <1>9, <2>4, <2>5, IncTypesAreRanges DEF IncIInv
<1> QED
  BY <1>11, <1>12, <1>13

LEMMA IncDrainsStep == ASSUME IncSized, IncIInv, Inc!Drains PROVE IncIInv'
<1>0. IncRanges /\ IncNumbers
  BY IncTypesAreRanges, IncAreNumbers DEF IncIInv
<1> DEFINE b == [r \in {q \in Inc!Live : Inc!Wm(q) = run.wm} |-> src[r].n]
<1>1. /\ run.pc = "drain" /\ Inc!Takes(b) /\ run' = [run EXCEPT !.pc = "probe"]
      /\ UNCHANGED <<Inc!source, Inc!job, over>>
  BY DEF Inc!Drains
<1>2. /\ DOMAIN b \subseteq JobRows
      /\ \A r \in DOMAIN b : b[r] = src[r].n
      /\ \A r \in DOMAIN b : b[r] \in 0..JobWrites /\ tgt[r] <= b[r] /\ b[r] <= src[r].n
  <2>1. DOMAIN b \subseteq JobRows /\ \A r \in DOMAIN b : b[r] = src[r].n
    BY DEF Inc!Live
  <2>2. \A r \in JobRows : src[r].n \in 0..JobWrites /\ tgt[r] <= src[r].n /\ src[r].n <= src[r].n
    BY <1>0, IncFields DEF IncIInv, IncVersions, IncNumbers
  <2> HIDE DEF b
  <2> QED
    BY <2>1, <2>2
<1>3. UNCHANGED <<src, top, ordered, writes, setup, st, floor, runs>>
  BY <1>1 DEF Inc!source, Inc!job
<1>d. \A r \in JobRows : Inc!Wm(r) = run.wm /\ Inc!Wm(r) # 0 => r \in DOMAIN b
  BY DEF Inc!Live
<1> HIDE DEF b
<1>4. /\ run' \in IncRunType => IncRanges'
      /\ \A r \in JobRows : Inc!Wm(r)' = Inc!Wm(r) /\ tgt'[r] <= src'[r].n /\ src'[r].n <= writes'
      /\ \A r \in JobRows : Inc!Copied(r) => Inc!Copied(r)'
      /\ \A r \in DOMAIN b : b[r] = src[r].n => Inc!Copied(r)'
      /\ \A r \in raced : r \in raced' \/ Inc!Copied(r)'
      /\ Inc!NoneBehind'
  BY <1>1, <1>2, IncTakesKeeps
<1>5. /\ run' \in IncRunType /\ run'.changed = run.changed /\ run'.from = run.from
      /\ run'.last = run.last /\ run'.passed = run.passed /\ run'.wm = run.wm /\ run'.pc = "probe"
  BY <1>0, <1>1 DEF IncRanges, IncRunType, IncPcs
<1>6. IncVersions'
  BY <1>4, <1>5 DEF IncVersions
<1>7. IncPositions'
  BY <1>1, <1>3, <1>4, <1>5 DEF IncIInv, IncPositions
<1>8. IncProgress'
  <2>1. \A r \in JobRows : IncDue(r)' => IncDue(r) \/ Inc!Copied(r)'
    BY <1>1, <1>3, <1>4, <1>5 DEF IncDue
  <2>2. ASSUME NEW r \in JobRows, IncDue(r), Inc!Wm(r) < run.wm + 1 PROVE Inc!Copied(r)'
    <3>1. CASE Inc!Wm(r) < run.wm
      BY <1>1, <1>4, <2>2, <3>1 DEF IncIInv, IncProgress, IncBehind
    <3>2. CASE ~(Inc!Wm(r) < run.wm)
      <4>1. Inc!Wm(r) = run.wm /\ Inc!Wm(r) # 0
        BY <1>0, <2>2, <3>2 DEF IncNumbers, IncDue
      <4> QED
        BY <1>2, <1>4, <1>d, <4>1
    <3> QED
      BY <3>1, <3>2
  <2> QED
    BY <1>4, <1>5, <2>1, <2>2 DEF IncProgress, IncBehind
<1> QED
  BY <1>4, <1>5, <1>6, <1>7, <1>8, IncTypesAreRanges DEF IncIInv

LEMMA IncJumpsStep == ASSUME IncSized, IncIInv, Inc!Jumps PROVE IncIInv'
<1>0. IncRanges /\ IncNumbers
  BY IncTypesAreRanges, IncAreNumbers DEF IncIInv
<1> DEFINE above == {Inc!Wm(r) : r \in Inc!Live} \ 0..run.wm
           m == Inc!Min(above)
<1>1. /\ run.pc = "probe"
      /\ run' = IF above = {} THEN [run EXCEPT !.pc = "end"] ELSE Inc!AfterJump(m)
      /\ UNCHANGED <<Inc!source, Inc!job, tgt, over, raced>>
  BY DEF Inc!Jumps
<1>2. UNCHANGED <<src, top, ordered, writes, setup, st, floor, runs, tgt, over, raced>>
  BY <1>1 DEF Inc!source, Inc!job
<1>3. run'.changed = run.changed /\ run'.from = run.from /\ run'.last = run.last
      /\ run'.passed = run.passed
  BY <1>0, <1>1 DEF IncRanges, IncRunType, Inc!AfterJump
<1>4. \A r \in JobRows : /\ Inc!Wm(r)' = Inc!Wm(r) /\ (Inc!Copied(r)' <=> Inc!Copied(r)) /\ (IncDue(r)' => IncDue(r))
                      /\ (r \in Inc!Live' <=> r \in Inc!Live)
  BY <1>2, <1>3 DEF Inc!Wm, Inc!Copied, IncDue, Inc!Live
<1>5. Inc!NoneBehind'
  BY <1>2, <1>4 DEF IncIInv, Inc!NoneBehind, Inc!Live
\* All that lies at or before the drained value is copied, and there is nothing
\* between it and the value jumped to.
<1>6. \A r \in JobRows : IncDue(r)' /\ Inc!Wm(r) \notin above => Inc!Copied(r)'
  <2> SUFFICES ASSUME NEW r \in JobRows, IncDue(r), Inc!Wm(r) \notin above PROVE Inc!Copied(r)
    BY <1>4
  <2>1. r \in Inc!Live
    BY DEF IncDue, Inc!Live
  <2>2. Inc!Wm(r) \in 0..run.wm
    BY <2>1
  <2>3. Inc!Wm(r) < run.wm + 1
    BY <1>0, <2>2 DEF IncNumbers
  <2> QED
    BY <1>1, <2>3 DEF IncIInv, IncProgress, IncBehind
<1>7. /\ run.passed = run.wm /\ run.last = run.wm /\ run.from <= run.wm /\ st <= top
      /\ run.last <= top /\ (st # 0 => run.from = st) /\ (run.wm = run.from \/ run.wm <= top)
      /\ \A r \in JobRows : Inc!Wm(r) <= top
  BY <1>1 DEF IncIInv, IncPositions
<1>8. CASE above = {}
  <2>1. run' \in IncRunType /\ run'.pc = "end" /\ run'.wm = run.wm
    BY <1>0, <1>1, <1>8 DEF IncRanges, IncRunType, IncPcs
  <2>2. IncRanges'
    BY <1>0, <1>2, <2>1 DEF IncRanges
  <2>3. IncVersions'
    BY <1>2, <2>1 DEF IncIInv, IncVersions
  <2>4. IncPositions'
    BY <1>2, <1>3, <1>4, <1>7, <2>1 DEF IncPositions
  <2>5. IncProgress'
    <3>1. \A r \in JobRows : IncDue(r)' => Inc!Copied(r)'
      BY <1>6, <1>8
    <3> QED
      BY <2>1, <3>1 DEF IncProgress, IncBehind
  <2> QED
    BY <1>5, <2>2, <2>3, <2>4, <2>5, IncTypesAreRanges DEF IncIInv
<1>9. CASE above # {}
  <2>1. above \subseteq 0..MaxWm
    BY <1>0, IncFields DEF Inc!Wms
  <2>2. m \in above /\ \A y \in above : m <= y
    <3> HIDE DEF above
    <3> QED
      BY <1>9, <2>1, IncSmallestOf DEF IncSized
  <2>3. PICK s \in Inc!Live : m = Inc!Wm(s)
    BY <2>2
  <2>4. m \in Inc!Wms /\ m \in Nat /\ run.wm < m /\ m <= top
    <3>1. s \in JobRows
      BY DEF Inc!Live
    <3>2. m \in Inc!Wms /\ m \in Nat /\ m <= top
      BY <1>0, <1>7, <2>3, <3>1, IncFields
    <3>3. m \notin 0..run.wm
      BY <2>2
    <3> HIDE DEF m
    <3>4. run.wm < m
      BY <1>0, <3>2, <3>3 DEF IncNumbers
    <3> QED
      BY <3>2, <3>4
  <2> HIDE DEF m
  <2>a. setup.alike \in BOOLEAN
    BY <1>0 DEF IncRanges, Inc!Setup
  <2>5. run' \in IncRunType /\ run'.pc = "scan" /\ run'.wm = m /\ run'.ge = TRUE
    BY <1>0, <1>1, <1>9, <2>4, <2>a DEF IncRanges, IncRunType, IncPcs, Inc!AfterJump
  <2>6. IncRanges'
    BY <1>0, <1>2, <2>5 DEF IncRanges
  <2>7. IncVersions'
    BY <1>2, <2>5 DEF IncIInv, IncVersions
  <2>8. IncPositions'
    <3>1. run.from <= m /\ run.wm <= m
      BY <1>0, <1>7, <2>4 DEF IncNumbers
    <3> QED
      BY <1>2, <1>3, <1>4, <1>7, <2>4, <2>5, <3>1 DEF IncPositions
  <2>9. IncProgress'
    <3>1. \A r \in JobRows : Inc!Wm(r) < m => Inc!Wm(r) \notin above
      BY <1>0, <2>2, <2>4 DEF IncNumbers
    <3> HIDE DEF above
    <3> QED
      BY <1>4, <1>6, <2>5, <3>1 DEF IncProgress, IncBehind
  <2> QED
    BY <1>5, <2>6, <2>7, <2>8, <2>9, IncTypesAreRanges DEF IncIInv
<1> QED
  BY <1>8, <1>9

\* A run that read rows leaves the last watermark it read; nothing before it,
\* from where the run before left it on, is missing.
LEMMA IncEndsStep == ASSUME IncSized, IncIInv, Inc!Ends PROVE IncIInv'
<1>0. IncRanges /\ IncNumbers
  BY IncTypesAreRanges, IncAreNumbers DEF IncIInv
<1>1. /\ run.pc = "end" /\ run' = Inc!Idle
      /\ UNCHANGED <<src, top, ordered, writes, setup, runs, tgt, over, raced>>
  BY DEF Inc!Ends, Inc!source
<1>2. CASE UNCHANGED <<st, floor>>
  BY <1>1, <1>2, IncIdleStep DEF Inc!source, Inc!job
<1>3. CASE st' = run.last /\ floor' = IF st = 0 THEN run.from ELSE floor
  <2>1. run'.pc = "idle" /\ run'.last = 0
    BY <1>1 DEF Inc!Idle
  <2>2. IncRanges'
    BY <1>0, <1>1, <1>3, IncIdleType, IncFields DEF IncRanges
  <2>3. IncVersions' /\ IncProgress'
    BY <1>1, <2>1 DEF IncIInv, IncVersions, IncProgress
  <2>4. IncPositions'
    BY <1>0, <1>1, <1>3, <2>1 DEF IncIInv, IncPositions, Inc!Wm, IncNumbers
  <2>5. Inc!NoneBehind'
    <3> SUFFICES ASSUME NEW r \in JobRows, Inc!Wm(r) # 0, r \in ordered, floor' <= Inc!Wm(r),
                        Inc!Wm(r) < run.last, Inc!Wm(r) \notin over, r \notin raced
                 PROVE  Inc!Copied(r)
      BY <1>1, <1>3 DEF Inc!NoneBehind, Inc!Live, Inc!Wm, Inc!Copied
    <3>1. CASE run.from <= Inc!Wm(r)
      <4>1. IncDue(r)
        BY <3>1 DEF IncDue
      <4> QED
        BY <1>1, <4>1 DEF IncIInv, IncProgress, IncBehind
    <3>2. CASE ~(run.from <= Inc!Wm(r))
      <4>1. st # 0 /\ run.from = st
        BY <1>1, <1>3, <3>2 DEF IncIInv, IncPositions
      <4>2. floor <= Inc!Wm(r) /\ Inc!Wm(r) < st
        BY <1>0, <1>3, <3>2, <4>1 DEF IncNumbers
      <4> QED
        BY <4>1, <4>2 DEF IncIInv, Inc!NoneBehind, Inc!Live
    <3> QED
      BY <3>1, <3>2
  <2> QED
    BY <2>2, <2>3, <2>4, <2>5, IncTypesAreRanges DEF IncIInv
<1> QED
  BY <1>2, <1>3 DEF Inc!Ends

LEMMA IncFailsStep == ASSUME IncSized, IncIInv, Inc!BatchFails PROVE IncIInv'
<1>0. IncRanges /\ IncNumbers
  BY IncTypesAreRanges, IncAreNumbers DEF IncIInv
<1> DEFINE b == IF run.pc = "write" THEN run.batch
                ELSE [r \in {q \in Inc!Live : Inc!Wm(q) = run.wm} |-> src[r].n]
<1>1. /\ run.pc \in {"write", "drain"} /\ run' = Inc!Idle /\ UNCHANGED <<Inc!source, Inc!job, over>>
  BY DEF Inc!BatchFails
<1>2. PICK S \in SUBSET DOMAIN b : Inc!Takes([r \in S |-> b[r]])
  BY DEF Inc!BatchFails
<1>3. DOMAIN b \subseteq JobRows /\ \A r \in DOMAIN b : b[r] \in 0..JobWrites /\ tgt[r] <= b[r] /\ b[r] <= src[r].n
  <2>1. CASE run.pc = "write"
    BY <1>0, <2>1, IncFields, IncBatches DEF IncIInv, IncVersions
  <2>2. CASE run.pc # "write"
    <3>1. DOMAIN b \subseteq JobRows /\ \A r \in DOMAIN b : b[r] = src[r].n
      BY <2>2 DEF Inc!Live
    <3>2. \A r \in JobRows : src[r].n \in 0..JobWrites /\ tgt[r] <= src[r].n /\ src[r].n <= src[r].n
      BY <1>0, IncFields DEF IncIInv, IncVersions, IncNumbers
    <3> HIDE DEF b
    <3> QED
      BY <3>1, <3>2
  <2> QED
    BY <2>1, <2>2
<1> DEFINE c == [r \in S |-> b[r]]
<1>4. /\ DOMAIN c \subseteq JobRows
      /\ \A r \in DOMAIN c : c[r] \in 0..JobWrites /\ tgt[r] <= c[r] /\ c[r] <= src[r].n
  <2> HIDE DEF b
  <2> QED
    BY <1>3
<1>5. /\ run' \in IncRunType => IncRanges'
      /\ \A r \in JobRows : Inc!Wm(r)' = Inc!Wm(r) /\ tgt'[r] <= src'[r].n /\ src'[r].n <= writes'
      /\ Inc!NoneBehind'
  <2> HIDE DEF b, c
  <2> QED
    BY <1>1, <1>2, <1>4, IncTakesKeeps DEF c
<1>6. run' \in IncRunType /\ run'.pc = "idle" /\ run'.last = 0
  BY <1>1, IncIdleType DEF Inc!Idle
<1>7. IncVersions' /\ IncProgress'
  BY <1>5, <1>6 DEF IncVersions, IncProgress
<1>8. IncPositions'
  <2>1. st' = st /\ top' = top /\ 0 <= top
    BY <1>0, <1>1 DEF Inc!source, Inc!job, IncNumbers
  <2> QED
    BY <1>5, <1>6, <2>1 DEF IncIInv, IncPositions
<1> QED
  BY <1>5, <1>6, <1>7, <1>8, IncTypesAreRanges DEF IncIInv

LEMMA IncInductive == ASSUME IncSized PROVE IncIInv /\ [Inc!Next]_(Inc!vars) => IncIInv'
<1>1. IncIInv /\ UNCHANGED Inc!vars => IncIInv'
  BY DEF Inc!vars, IncIInv, Inc!TypeOK, IncVersions, IncPositions, IncProgress,
    Inc!NoneBehind, IncBehind, IncDue, IncInBatch,
    Inc!Copied, Inc!Live, Inc!Wm, Inc!BatchSize
<1>2. IncIInv /\ Inc!Breaks => IncIInv'
  BY IncIdleStep DEF Inc!Breaks
<1> QED
  BY <1>1, <1>2, IncWritesStep, IncDeletesStep, IncJobSteps, IncBeginsStep, IncProbesStep,
    IncScansStep,
    IncWritesBatchStep, IncDrainsStep, IncJumpsStep, IncEndsStep, IncFailsStep DEF Inc!Next

LEMMA IncInvariance == ASSUME IncSized PROVE Inc!Spec => []IncIInv
  BY IncInitIInv, IncInductive, PTL DEF Inc!Spec

-----------------------------------------------------------------------------
(* What follows of the watermark sync. *)

LEMMA IncConcludes == ASSUME IncIInv PROVE Inc!TypeOK /\ Inc!RunCopies /\ Inc!NoneBehind /\ Inc!AlwaysForward
<1>1. Inc!RunCopies
  BY DEF IncIInv, IncProgress, Inc!RunCopies, IncDue, Inc!Live
<1>2. Inc!AlwaysForward
  BY DEF IncIInv, IncPositions, Inc!AlwaysForward
<1> QED
  BY <1>1, <1>2 DEF IncIInv

\* Type correctness: every batch is of rows of the table, at versions they have
\* had, and every position a watermark.
THEOREM IncTypeCorrect == ASSUME IncSized PROVE Inc!Spec => []Inc!TypeOK
  BY IncConcludes, IncInvariance, PTL

\* A run of syncOneTable that comes to its end has handed over every row at or
\* above its watermark that nobody wrote meanwhile, whatever the batch size, however
\* many rows share a value, wherever LIMIT cuts among them and however often earlier
\* runs broke off; a strict run leaves out the values its scans went on from.
THEOREM RunsAreComplete == ASSUME IncSized PROVE Inc!Spec => []Inc!RunCopies
  BY IncConcludes, IncInvariance, PTL

\* The watermark finalizeIncRun saves has no row behind it that was committed in
\* order and is missing in the target, over all runs, failures, restarts and changes of
\* the configuration: but for what strict scans left out, and rows committed between
\* the drain of their value and the jump from it (incJumpAfterDrain).
THEOREM WatermarkIsSound == ASSUME IncSized PROVE Inc!Spec => []Inc!NoneBehind
  BY IncConcludes, IncInvariance, PTL

\* Every scan of a run begins behind the one before it, or once where that one began
\* because its cursor was spelt otherwise: a full batch of one value is never read
\* for ever (incCursorStep and the drain).
THEOREM ScansGoForward == ASSUME IncSized PROVE Inc!Spec => []Inc!AlwaysForward
  BY IncConcludes, IncInvariance, PTL

=============================================================================
