---------------------------- MODULE MCCdcApplier ----------------------------
(***************************************************************************)
(* CdcApplier on six events of two tables, one worker each; a is created   *)
(* on the target late.  Behind the event a's worker halts on there is one  *)
(* more than its channel holds.                                            *)
(***************************************************************************)
EXTENDS CdcApplier, TLC

CONSTANTS a, b

MCN == 6
MCLsn     == <<  2,     3,     4,       5,     6,     7 >>
MCCommit  == <<  8,     8,     8,       8,     8,     8 >>
MCTableOf == <<  a,     b,     a,       a,     a,     a >>
MCNoKey   == <<"row", "row", "nokey", "row", "row", "row">>

MCRoute   == (a :> 1) @@ (b :> 2)

=============================================================================
