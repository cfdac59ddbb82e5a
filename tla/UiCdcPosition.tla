----------------------------- MODULE UiCdcPosition -----------------------------
(***************************************************************************)
(* The position sparkline of the CDC page (views/CDCView.vue): each        *)
(* refresh turns the position the server reports, a PostgreSQL LSN or a    *)
(* MySQL file and offset, into one number, and appends it to a capped      *)
(* history unless it is beyond what a JavaScript number holds exactly.     *)
(* The radices are the code's in the small: 2^32 for the high word of an   *)
(* LSN, 10^9 for the index of a binlog file, 2^53 - 1 for the largest safe *)
(* integer.  Printing and parsing of the digits are left out.              *)
(***************************************************************************)
EXTENDS Naturals, Sequences

CONSTANTS
  Radix,    \* for each kind of source, what the high part is multiplied by
  LowMax,   \* for each kind, the largest low part the source reports
  HighMax,  \* bound: high parts
  Safe,     \* the largest safe integer
  Cap       \* the samples kept (60)

VARIABLES
  kind,     \* the kind of the source
  pos,      \* where the source is
  ckpt,     \* the checkpoint of the server, which follows
  live,     \* the status file names the position
  latest,   \* positionLatest; Unset when empty
  history,  \* positionHistory
  risk      \* positionPrecisionRisk

vars == <<kind, pos, ckpt, live, latest, history, risk>>

Kinds == {"pg", "mysql"}
Pos   == [high : Nat, low : Nat]
Unset == [high |-> 0, low |-> 0]
Numbers == 0..(Radix[kind] * HighMax + LowMax[kind])

TypeOK ==
  /\ kind \in Kinds /\ live \in BOOLEAN /\ risk \in BOOLEAN
  /\ \A p \in {pos, ckpt, latest} : p.high \in 0..HighMax /\ p.low \in 0..LowMax[kind]
  /\ history \in Seq(Numbers) /\ Len(history) <= Cap

Init ==
  /\ kind \in Kinds
  /\ pos \in {[high |-> 0, low |-> 1], Unset} /\ ckpt = Unset /\ live = FALSE
  /\ latest = Unset /\ history = <<>> /\ risk = FALSE

-----------------------------------------------------------------------------

Before(p, q) == p.high < q.high \/ (p.high = q.high /\ p.low < q.low)

\* The source advances, a binlog file up to its size and then to the next file.
Advance ==
  /\ \E p \in [high : 0..HighMax, low : 0..LowMax[kind]] : Before(pos, p) /\ pos' = p
  /\ UNCHANGED <<kind, ckpt, live, latest, history, risk>>

Save ==
  /\ ckpt # pos /\ ckpt' = pos
  /\ UNCHANGED <<kind, pos, live, latest, history, risk>>

StatusFile ==
  /\ live' = ~live
  /\ UNCHANGED <<kind, pos, ckpt, latest, history, risk>>

\* parsePosition, before its gate.
Number(p) == p.high * Radix[kind] + p.low

\* The gate of parsePosition: an unsafe number raises the flag, a safe one clears it.
RiskAfter(n) == n > Safe

Last(s) == SubSeq(s, IF Len(s) > Cap THEN 2 ELSE 1, Len(s))

\* pushPosition.
Push(p) ==
  IF p = Unset THEN UNCHANGED <<latest, history, risk>>
  ELSE /\ latest' = p
       /\ risk' = RiskAfter(Number(p))
       /\ history' = IF Number(p) > Safe THEN history ELSE Last(Append(history, Number(p)))

\* refresh: the status names the position, or else the checkpoint does.
Refresh ==
  /\ Push(IF live THEN pos ELSE ckpt)
  /\ UNCHANGED <<kind, pos, ckpt, live>>

Next == Advance \/ Save \/ StatusFile \/ Refresh

Spec == Init /\ [][Next]_vars

-----------------------------------------------------------------------------
(* Not kept: TLC has a counterexample to this (README.md). *)

\* The number is monotonic (the comment on parsePosition), for a binlog position
\* too.
Monotonic == Before(latest, pos) => Number(latest) <= Number(pos)
=============================================================================
