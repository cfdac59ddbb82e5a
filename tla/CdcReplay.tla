----------------------------- MODULE CdcReplay -----------------------------
(***************************************************************************)
(* What a CDC source promises the applier, whatever happens to the         *)
(* process: the stream is handed over in order, one message after the      *)
(* other, and an interruption may take it back to a message it has handed  *)
(* over before but never past one it has not (at-least-once, no gap).      *)
(***************************************************************************)
EXTENDS Integers

CONSTANT N

VARIABLES
  next,  \* the message handed over next
  got    \* messages 1..got were handed over at least once

Init ==
  /\ got \in 0..N
  /\ next = got + 1

HandOver ==
  /\ next <= N
  /\ next' = next + 1
  /\ got' = IF next > got THEN next ELSE got

Interrupt ==
  /\ next' \in 1..(got + 1)
  /\ UNCHANGED got

Next == HandOver \/ Interrupt

Spec == Init /\ [][Next]_<<next, got>>

\* Nothing is ever skipped: the next message is at most one past what was
\* handed over.
InOrder == next \in 1..(got + 1)

=============================================================================
