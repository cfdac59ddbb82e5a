---------------------------- MODULE MCCdcRunner ----------------------------
(***************************************************************************)
(* CdcRunner on one transaction: a row, a row without a key, the commit.   *)
(***************************************************************************)
EXTENDS CdcRunner

CONSTANT a

MCN == 3
MCLsn     == <<  2,     3,       4 >>
MCCommit  == <<  4,     4,       4 >>
MCTableOf == <<  a,     a,       a >>
MCNoKey   == <<"row", "nokey", "ctl">>

MCRoute   == [t \in {a} |-> 1]

=============================================================================
