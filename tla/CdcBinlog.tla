----------------------------- MODULE CdcBinlog -----------------------------
(***************************************************************************)
(* The MySQL stream: canalStreamer and its handler                         *)
(* (internal/cdc/binlog_canal.go), driven by canal's event loop            *)
(* (internal/canalpatch/sync.go), and the process around it                *)
(* (internal/cdc/binlog_runner.go).  A position is a file and an offset;   *)
(* the channels and the applier together are the rows in flight, which     *)
(* are settled in any order (CdcApplier is the detail).                    *)
(***************************************************************************)
EXTENDS Integers, Sequences, FiniteSets

CONSTANTS
  Binlog,   \* the source's events: "map", "rows", "xid", "rotate", "other", "ddl", "drop"
  Rows,     \* bound: rows of a rows event
  Cap,      \* bound: rows in flight
  MaxEnds   \* bound: processes that end

\* A Query event "other" is BEGIN, an administrative statement or a DDL that
\* does not name the target database; "drop" is a DDL that takes the table of the
\* rows away (DROP, RENAME), "ddl" any other, understood by canal's parser or not.
Events == 1..Len(Binlog)
RowIds == {i \in Events : Binlog[i] = "rows"} \X (1..Rows)

Ddls == {i \in Events : Binlog[i] \in {"ddl", "drop"}}

Rotates(i) == {j \in 1..i : Binlog[j] = "rotate"}
InFile(i)  == {j \in 1..i : \A k \in j..i : Binlog[k] # "rotate"}

\* The coordinate behind event i (behind 0: the first file's start): the file,
\* and the offset of the event's end in it.
End(i) == [file |-> Cardinality(Rotates(i)), off |-> Cardinality(InFile(i))]

None == [file |-> -1, off |-> -1]
Index(p) == CHOOSE i \in 0..Len(Binlog) : End(i) = p

VARIABLES
  made,     \* events the source has written
  stream,   \* "off", "on", "closing" (Close was called) or "ended"
  cur,      \* the last event canal is through with
  sub,      \* rows of the next event already pushed
  begun,    \* where this dump began
  known,    \* canal has the table's structure in its cache
  pos,      \* curFile and lastPos
  fatal,    \* canalStreamer.fatal
  flight,   \* rows pushed and not settled
  saved,    \* the checkpoint file
  since,    \* history: where the chain was last started without a checkpoint
  sent,     \* history: rows pushed since then
  settled,  \* history: rows settled since then
  skipped,  \* history: rows canal dropped since then, see SkipsRows
  clean,    \* history: every end since then left nothing in flight
  ends

chainVars == <<since, sent, settled, skipped, clean>>
dump == <<begun, known>>
vars == <<made, stream, cur, sub, dump, pos, fatal, flight, saved, chainVars, ends>>

Positions == {End(i) : i \in 0..Len(Binlog)}

TypeOK ==
  /\ made \in 0..Len(Binlog) /\ cur \in 0..made /\ begun \in 0..made
  /\ stream \in {"off", "on", "closing", "ended"}
  /\ sub \in 0..Rows - 1
  /\ pos \in Positions /\ saved \in Positions \cup {None}
  /\ fatal \in BOOLEAN /\ clean \in BOOLEAN
  /\ flight \subseteq sent /\ sent \subseteq RowIds /\ settled \subseteq sent
  /\ skipped \subseteq RowIds /\ known \in BOOLEAN
  /\ since \in 0..made /\ ends \in 0..MaxEnds

Init ==
  /\ made = 0 /\ stream = "off" /\ cur = 0 /\ sub = 0 /\ begun = 0 /\ known = FALSE
  /\ pos = End(0) /\ saved = None
  /\ fatal = FALSE /\ flight = {}
  /\ since = 0 /\ sent = {} /\ settled = {} /\ skipped = {} /\ clean = TRUE /\ ends = 0

SourceWrites ==
  /\ made < Len(Binlog)
  /\ made' = made + 1
  /\ UNCHANGED <<stream, cur, sub, dump, pos, fatal, flight, saved, chainVars, ends>>

-----------------------------------------------------------------------------
(* The stream. *)

At == cur + 1
\* Close cancels canal's context, but GetEvent may still hand out what is
\* buffered, and an event that is being handled is finished.
Reads == stream \in {"on", "closing"} /\ cur < made
Handles(kind) == Reads /\ Binlog[At] = kind

\* advance: with the file of the position kept so far, or canal's coordinate.
AdvancesInFile == pos' = [pos EXCEPT !.off = End(At).off]
Advances == pos' = End(At)

Through == cur' = At /\ UNCHANGED <<sub, dump>>
NothingPushed == UNCHANGED <<made, flight, saved, chainVars, ends>>

\* Run: from the checkpoint, or from the master's position of this moment.
Start ==
  /\ stream = "off"
  /\ LET from == IF saved = None THEN made ELSE Index(saved)
     IN  /\ cur' = from /\ begun' = from /\ pos' = End(from)
         /\ IF saved = None THEN /\ since' = from /\ sent' = {} /\ settled' = {} /\ skipped' = {}
                 /\ clean' = TRUE
            ELSE UNCHANGED chainVars
  /\ stream' = "on" /\ sub' = 0 /\ known' = FALSE /\ fatal' = FALSE /\ flight' = {}
  /\ UNCHANGED <<made, saved, ends>>

\* The table map a rows event is decoded with was read by this dump.
Decodable == \E m \in begun + 1..cur : Binlog[m] = "map" /\ \A j \in m..cur : Binlog[j] \in {"map", "rows"}

\* The source has no such table any more: rows that follow the DROP are of a new one.
Missing ==
  \E d \in At + 1..made : Binlog[d] = "drop" /\ \A j \in d + 1..made : Binlog[j] # "rows"

Pushing == Handles("rows") /\ Decodable /\ (known \/ ~Missing) /\ Cardinality(flight) < Cap

\* Mutant: the position moves with the first row.
PushesRowEarly ==
  /\ Pushing
  /\ flight' = flight \cup {<<At, sub + 1>>}
  /\ sent' = sent \cup {<<At, sub + 1>>}
  /\ AdvancesInFile /\ known' = TRUE
  /\ IF sub + 1 = Rows THEN sub' = 0 /\ cur' = At ELSE sub' = sub + 1 /\ UNCHANGED cur
  /\ UNCHANGED <<made, stream, begun, fatal, saved, since, settled, skipped, clean, ends>>

\* handleRowsEvent asks for the table's structure, OnRow pushes the rows one by one
\* and then advances.
PushesRow ==
  /\ Pushing
  /\ flight' = flight \cup {<<At, sub + 1>>}
  /\ sent' = sent \cup {<<At, sub + 1>>}
  /\ known' = TRUE
  /\ IF sub + 1 = Rows THEN sub' = 0 /\ cur' = At /\ AdvancesInFile
                       ELSE sub' = sub + 1 /\ UNCHANGED <<cur, pos>>
  /\ UNCHANGED <<made, stream, begun, fatal, saved, since, settled, skipped, clean, ends>>

\* The source no longer has the table and canal does not know it from before: the
\* event is dropped without an error (ErrTableNotExist).
SkipsRows ==
  /\ Handles("rows") /\ Decodable /\ ~known /\ Missing
  /\ skipped' = skipped \cup ({At} \X (1..Rows))
  /\ Through
  /\ UNCHANGED <<made, stream, pos, fatal, flight, saved, since, sent, settled, clean, ends>>

\* The dump began behind the table map: go-mysql cannot decode the event.
CannotDecode ==
  /\ Handles("rows") /\ ~Decodable
  /\ fatal' = TRUE /\ stream' = "ended"
  /\ UNCHANGED <<made, cur, sub, dump, pos, flight, saved, chainVars, ends>>

\* OnXID, OnRotate.
Advancing ==
  /\ Handles("xid") \/ Handles("rotate")
  /\ Advances
  /\ Through
  /\ UNCHANGED <<stream, fatal>> /\ NothingPushed

\* Table maps, and Query events gateDDLQuery lets pass.
Passing ==
  /\ Handles("map") \/ Handles("other")
  /\ Through
  /\ UNCHANGED <<stream, pos, fatal>> /\ NothingPushed

\* gateDDLQuery: a DDL on the target database ends the stream where it is.
GateHalts ==
  /\ Handles("ddl") \/ Handles("drop")
  /\ fatal' = TRUE /\ stream' = "ended"
  /\ UNCHANGED <<made, cur, sub, dump, pos, flight, saved, chainVars, ends>>

\* A connection error: no retry (DisableRetrySync).
StreamFails ==
  /\ stream \in {"on", "closing"} /\ sub = 0
  /\ fatal' = TRUE /\ stream' = "ended"
  /\ UNCHANGED <<made, cur, sub, dump, pos, flight, saved, chainVars, ends>>

Settles ==
  /\ \E r \in flight : flight' = flight \ {r} /\ settled' = settled \cup {r}
  /\ UNCHANGED <<made, stream, cur, sub, dump, pos, fatal, saved, since, sent, skipped, clean, ends>>

-----------------------------------------------------------------------------
(* The process. *)

\* updateCheckpoint and Save.
Save == saved' = pos

Ticks ==
  /\ stream \in {"on", "ended"} /\ saved # pos
  /\ Save
  /\ UNCHANGED <<made, stream, cur, sub, dump, pos, fatal, flight, chainVars, ends>>

Signal ==
  /\ stream = "on"
  /\ stream' = "closing"
  /\ UNCHANGED <<made, cur, sub, dump, pos, fatal, flight, saved, chainVars, ends>>

\* canal's loop returns, the events channel is closed.
Closes ==
  /\ stream = "closing" /\ sub = 0
  /\ stream' = "ended"
  /\ UNCHANGED <<made, cur, sub, dump, pos, fatal, flight, saved, chainVars, ends>>

Gone(isClean) ==
  /\ ends < MaxEnds /\ ends' = ends + 1
  /\ stream' = "off" /\ sub' = 0 /\ flight' = {} /\ clean' = (clean /\ isClean)
  /\ UNCHANGED <<made, cur, dump, pos, fatal, since, sent, settled, skipped>>

\* The applier has drained the closed channel: the final save.
Drained == stream = "ended" /\ flight = {} /\ Save /\ Gone(TRUE)

\* The applier halts on a structural failure, or does not drain within 30
\* seconds of the signal: the save does not wait for it.
LeavesRows == stream # "off" /\ flight # {} /\ Save /\ Gone(FALSE)

\* A kill, or a cancelled context.
Killed == stream # "off" /\ UNCHANGED saved /\ Gone(FALSE)

Next ==
  \/ SourceWrites \/ Start \/ PushesRow \/ SkipsRows \/ CannotDecode \/ Advancing \/ Passing \/ GateHalts
  \/ StreamFails \/ Settles \/ Ticks \/ Signal \/ Closes \/ Drained \/ LeavesRows \/ Killed

Spec == Init /\ [][Next]_vars

-----------------------------------------------------------------------------
(* Properties. *)

\* The rows from the chain's start to a position.
UpTo(p) == LET i == Index(p) IN {r \in RowIds : since < r[1] /\ r[1] <= i}

\* The checkpoint is never ahead of what was pushed: whatever end comes next,
\* canal does not step over a row event, but for those of a table that is gone.
SavedWasSent == saved # None => UpTo(saved) \subseteq sent \cup skipped

\* No row behind a DDL of the target database goes to the target, restarts
\* included: silent DDL skipping is forbidden (gateDDLQuery).
DdlNeverPassed ==
  \A d \in Ddls : d > since => \A r \in sent : r[1] < d

\* Where every end so far was in order (a halted or closed stream, drained), every
\* row up to the checkpoint is settled, but for rows of a table that is gone: the
\* next start loses nothing else.
CleanEndSettles ==
  stream = "off" /\ clean /\ saved # None => UpTo(saved) \subseteq settled \cup skipped

\* What the code does not keep (see the README): the checkpoint is the position
\* of what is applied;
SavedIsSettled == saved # None => UpTo(saved) \subseteq settled \cup skipped

\* a missing table structure is a fatal error, never a silent skip
\* (binlog_canal.go:14-17);
NeverSilentSkip == skipped = {}

\* a checkpoint is a position canal can go on from;
SavedIsDecodable ==
  Handles("rows") => Decodable

\* a DDL is not passed by a start without a checkpoint either.
NoDdlPassedAtAll ==
  \A d \in Ddls : \A r \in sent : r[1] < d

=============================================================================
