------------------------------- MODULE CdcWal -------------------------------
(***************************************************************************)
(* The logical replication stream of the PostgreSQL source, as the CDC     *)
(* pipeline of internal/cdc sees it.  PostgreSQL itself is external: the   *)
(* stream is a constant, a numbered list of the XLogData messages pgoutput *)
(* sends in commit order.  A message carries the LSN the client reads as   *)
(* XLogData.WALStart, and belongs to a transaction whose commit record     *)
(* ends at Commit.  Transactions overlap in the WAL, so WALStart is not    *)
(* monotone along the stream; Commit is.                                   *)
(***************************************************************************)
EXTENDS Integers

CONSTANTS
  N,        \* number of messages in the stream
  Lsn,      \* message -> WALStart of the message
  Commit,   \* message -> end LSN of the commit record of its transaction
  Kind,     \* message -> what parseLogicalMsg makes of it (see Kinds)
  TableOf,  \* message -> table of a row event
  Tables    \* the replicated tables

\* "row"   an insert, update, delete or truncate: becomes one CDCEvent
\* "nokey" an update or delete with no usable key: becomes a CDCEvent the
\*         transformer refuses with a StructuralError
\* "ctl"   a control message (begin, commit, relation): no event
\* "bad"   a message pglogrepl cannot parse
Kinds == {"row", "nokey", "ctl", "bad"}

Msgs == 1..N

Max(a, b) == IF a >= b THEN a ELSE b

\* Messages that become an event on the channel to the applier.
IsEvent(m) == Kind[m] \in {"row", "nokey"}
Events == {m \in Msgs : IsEvent(m)}

\* The WAL position of a database with no transaction of the stream yet.
BaseLsn == 1

\* pgoutput's order: transactions in commit order, every change before the
\* end of its own commit record and of every later one.  Only the commit
\* message reports the end of the commit record as its WALStart.
ASSUME WalAssumption ==
  /\ N \in Nat
  /\ Lsn \in [Msgs -> Nat]
  /\ Commit \in [Msgs -> Nat]
  /\ Kind \in [Msgs -> Kinds]
  /\ TableOf \in [Msgs -> Tables]
  /\ \A m \in Msgs :
       /\ BaseLsn < Commit[m]
       /\ Lsn[m] <= Commit[m]
       /\ IsEvent(m) => Lsn[m] < Commit[m]
  /\ \A m, n \in Msgs : m < n => /\ Commit[m] <= Commit[n]
                                 /\ Lsn[m] < Commit[n]

\* Message m ends a transaction of the stream.
EndsTxn(m) == m < N => Commit[m] < Commit[m + 1]

\* Where START_REPLICATION at LSN l resumes: PostgreSQL skips exactly the
\* transactions whose commit record ends at or before l.
ResumesAt(l, p) ==
  /\ p \in 1..(N + 1)
  /\ \A m \in Msgs : Commit[m] <= l <=> m < p

=============================================================================
