---------------------------- MODULE MCCdcSource ----------------------------
(***************************************************************************)
(* CdcSource on two overlapping transactions (WALStart goes back from 4 to *)
(* 2 between them) and a third one whose last record cannot be parsed.     *)
(***************************************************************************)
EXTENDS CdcSource

CONSTANTS a, b

MCN == 7
MCLsn     == <<   3,     4,     2,     5,     6,     8,     9 >>
MCCommit  == <<   4,     4,     6,     6,     6,     9,     9 >>
MCKind    == <<"row", "ctl", "row", "row", "ctl", "row", "bad">>
MCTableOf == <<   a,     a,     b,     a,     a,     b,     b >>

=============================================================================
