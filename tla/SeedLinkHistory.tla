--------------------------- MODULE SeedLinkHistory ---------------------------
(***************************************************************************)
(* A SeedLink session of RS_CSharp (Protocols/SeedLinkProtocol.cs) that    *)
(* asks for the past: records of the archive first, then packets of the    *)
(* ring.  The module composes the ring (RingBuffer), the archive           *)
(* (MseedArchive) and the DataLink clients whose WRITE fills both.         *)
(*                                                                         *)
(* There is one session.  A packet covers the data times start .. start +  *)
(* DataLength; packets come in any order of their times, of which several  *)
(* may have the same.  Which streams the session selects is the constant   *)
(* Selected; the SELECT command and a client that closes are left out.     *)
(***************************************************************************)
EXTENDS Integers, Sequences, FiniteSets

CONSTANTS
  MaxPackets, Streams, NoStream, RingIdMaximum,      \* of the ring
  MaxWrites,                                         \* bound: packets written
  Writers, Timers, Closer, BatchSize, NoRecord,      \* of the archive
  Packets,        \* what a packet may be: stream, start time and payload
  Client,         \* the SeedLink client
  Selected,       \* streams that pass its limit, match and reject
  DataLength,     \* data end time minus data start time of a packet
  RequestTimes,   \* start times a TIME command may bring
  EndTimes,       \* end times it may bring
  SeqNumbers,     \* sequence numbers a DATA command may bring
  SeqModulus,     \* sequence numbers have 24 bits: 2^24
  Limit           \* rows a query returns at most (10000)

ASSUME HistoryAssumption ==
  /\ MaxPackets \in Nat /\ MaxPackets >= 2 /\ RingIdMaximum \in Nat \ {0}
  /\ MaxWrites \in Nat /\ NoStream \notin Streams /\ Selected \subseteq Streams
  /\ IsFiniteSet(Writers) /\ Writers \cap Timers = {} /\ Closer \notin Writers \cup Timers
  /\ BatchSize \in Nat \ {0} /\ NoRecord \notin 1 .. MaxWrites
  /\ Packets \subseteq [stream : Streams, start : Nat, payload : {"miniSEED", "other", "empty"}]
  /\ DataLength \in Nat /\ Limit \in Nat \ {0}
  /\ RequestTimes \subseteq Nat /\ EndTimes \subseteq Nat
  /\ SeqNumbers \subseteq Nat /\ SeqModulus \in Nat \ {0}
  \* An id with another low part is a ulong still.
  /\ \A id \in 0 .. RingIdMaximum, q \in SeqNumbers :
       SeqModulus * (id \div SeqModulus) + q \in q .. RingIdMaximum + 5

VARIABLES
  slot, earliest, latest, streamIdx, streamCount, clock, reader, writes, last,
  handing, pending, phase, batch, db, disposed, closed, lost, late,
  record,      \* record[n]: what the n-th packet holds (its MseedRecord)
  sl,          \* ClientInfo.State and SLExtInfo
  sent,        \* history: rows of the archive and packets of the ring that were
               \* sent since the client last asked
  promised,    \* history: the rows in the range it asked for, and the last row of
               \* the first page (0: none)
  amiss        \* history: "query", one failed since then; "burst", the last record
               \* of a page had no data

ringVars    == <<slot, earliest, latest, streamIdx, streamCount, clock, reader,
                 writes, last>>
archiveVars == <<handing, pending, phase, batch, db, disposed, closed, lost, late>>
sessionVars == <<sl, sent, promised, amiss>>
vars        == <<ringVars, archiveVars, record, sessionVars>>

Ring == INSTANCE RingBuffer WITH
          Readers <- {Client}, Accepts <- [c \in {Client} |-> Selected],
          DataTimes <- Nat, UserIds <- {}, MaxClock <- 1,
          ClockMayStepBack <- FALSE

Archive == INSTANCE MseedArchive WITH MaxRecords <- MaxWrites

Unset == Ring!Unset
Waits == Ring!RingIdNext

-----------------------------------------------------------------------------
(* WRITE of a DataLink client: the ring, then the archive.                 *)

DataEnd(n) == record[n].start + DataLength

HandleWrite(w) ==
  /\ \E p \in Packets :
       /\ Ring!Write(p.stream, p.start, Ring!RingIdNone)
       /\ record' = Append(record, p)
  /\ Archive!Enqueue(w, writes + 1)
  /\ UNCHANGED sessionVars

ArchiveStep ==
  /\ \/ \E w \in Writers : Archive!PutInQueue(w)
     \/ \E t \in Timers : Archive!TimerFires(t)
     \/ \E f \in Writers \cup Timers : Archive!Flush(f)
  /\ UNCHANGED <<ringVars, record, sessionVars>>

-----------------------------------------------------------------------------
(* Queries.  A row is named by its id, its place in db.                    *)

RowStart(i) == record[db[i]].start

RowsBetween(rows, from, to) ==
  {i \in DOMAIN db : /\ from <= RowStart(i) /\ RowStart(i) <= to
                     /\ record[db[i]].stream \in rows}

\* The results of LIMIT rows of S in the order of "<=".
Pages(S, Before(_, _)) ==
  LET n == IF Cardinality(S) < Limit THEN Cardinality(S) ELSE Limit
  IN {q \in [1 .. n -> S] :
        \A i \in 1 .. n :
          LET taken == {q[j] : j \in 1 .. i - 1}
          IN q[i] \notin taken /\ \A x \in S \ taken : Before(q[i], x)}

\* ORDER BY start_time: rows of the same time come in any order.
QueryByTime(rows, from, to) ==
  Pages(RowsBetween(rows, from, to), LAMBDA i, j : RowStart(i) <= RowStart(j))

\* Mutation of Cursor: rows that start when the last one did are passed over.
CursorTime(i) == RowStart(i) > sl.lastStart

\* Mutation of Cursor: the id is not compared.
CursorStart(i) == RowStart(i) >= sl.lastStart

Cursor(i) ==
  \/ RowStart(i) > sl.lastStart
  \/ RowStart(i) = sl.lastStart /\ i > sl.lastId

\* ORDER BY start_time, id, from the cursor on.
QueryByTimePagination ==
  Pages({i \in RowsBetween(sl.rows, sl.lastStart, sl.queryEnd) : Cursor(i)},
        LAMBDA i, j : \/ RowStart(i) < RowStart(j)
                      \/ RowStart(i) = RowStart(j) /\ i <= j)

\* The time of day: the next packet has begun.
Now == LET ends == {DataEnd(n) : n \in DOMAIN record} \cup {0}
           e    == CHOOSE x \in ends : \A y \in ends : y <= x
       IN e + 1

-----------------------------------------------------------------------------
(* Commands of the session                                                 *)

NewSession ==
  [state |-> "command", station |-> FALSE, start |-> Unset, end |-> Unset,
   rows |-> {}, queue |-> <<>>, queryEnd |-> Unset, lastId |-> 0, lastStart |-> Unset,
   lastEnd |-> Unset, step |-> "loop"]

Nothing   == [rows |-> {}, packets |-> {}]
NoPromise == [rows |-> {}, cut |-> 0]

Streaming == sl.state = "stream"

\* A command is read between two calls of StreamPackets.
Between == sl.state # "closed" /\ sl.step = "loop"

\* The reader placed on offset o; as it is if the search found nothing (-1).
PlacedOr(o, rd) == IF o < 0 THEN rd ELSE Ring!Placed(o)

SetReader(rd) ==
  /\ reader' = [reader EXCEPT ![Client] = rd]
  /\ last' = IF rd.off = reader[Client].off THEN last ELSE [last EXCEPT ![Client] = 0]
  /\ UNCHANGED <<slot, earliest, latest, streamIdx, streamCount, clock, writes>>

\* STATION: from now on the session is in station mode (SelectedStations).
HandleStation ==
  /\ Between /\ ~sl.station
  /\ sl' = [sl EXCEPT !.station = TRUE]
  /\ UNCHANGED <<ringVars, archiveVars, record, sent, promised, amiss>>

\* Mutation of StartPacket: the high part is taken although there is no packet.
StartPacketUnguarded(seq) == SeqModulus * (latest.id \div SeqModulus) + seq

\* The ring id of the packet before the one with this sequence number, which is
\* the low part of an id: the high part is taken from the latest packet.
StartPacket(seq) ==
  LET id == IF latest.id <= RingIdMaximum
            THEN SeqModulus * (latest.id \div SeqModulus) + seq ELSE seq
  IN IF 0 < id /\ id < RingIdMaximum THEN id - 1 ELSE id

\* DATA [ALL | -1 | sequence].
HandleData ==
  /\ Between
  /\ \E id \in {Ring!RingIdEarliest, Waits} \cup {StartPacket(q) : q \in SeqNumbers} :
       SetReader([reader[Client] EXCEPT !.id = id])
  /\ sl' = IF sl.station THEN sl ELSE [sl EXCEPT !.state = "stream"]
  /\ IF Streaming /\ reader[Client].off < 0 /\ sl.queue = <<>>
     THEN /\ sent' = Nothing /\ amiss' = {}     \* it asks anew
          /\ promised' = [promised EXCEPT !.rows = {}]
     ELSE UNCHANGED <<sent, promised, amiss>>
  /\ UNCHANGED <<archiveVars, record>>

Earlier(t) == IF sl.start = Unset \/ t < sl.start THEN t ELSE sl.start

\* TIME start [end] in station mode: the widest window asked for is kept.
HandleTimeStation(t, e) ==
  /\ Between /\ sl.station
  /\ sl' = [sl EXCEPT !.start = Earlier(t),
                      !.end = IF e # Unset THEN e
                              ELSE IF @ # Unset /\ t > @ THEN Unset ELSE @]
  /\ UNCHANGED <<ringVars, archiveVars, record, sent, promised, amiss>>

\* The rows from time "from" are fetched and the session streams.  A query may
\* fail: the error is logged and the queue stays as it is.
Prefetch(rows, from, end) ==
  LET ask == [sl EXCEPT !.state = "stream", !.start = from, !.end = end, !.rows = rows]
      to  == IF end = Unset THEN Now ELSE end
  IN \/ /\ \E q \in QueryByTime(rows, from, to) :
             /\ sl' = IF q = <<>> THEN ask ELSE [ask EXCEPT !.queue = q, !.queryEnd = to]
             /\ promised' = [rows |-> RowsBetween(rows, from, to),
                             cut  |-> IF q = <<>> THEN promised.cut ELSE q[Len(q)]]
        /\ amiss' = {}
     \/ /\ sl' = ask
        /\ promised' = [promised EXCEPT !.rows = {}] /\ amiss' = {"query"}

\* TIME without STATION: query, position the ring, stream.
HandleTimeAll(t, e) ==
  /\ Between /\ ~sl.station
  /\ Prefetch(Streams, Earlier(t), IF e # Unset THEN e ELSE sl.end)
  /\ SetReader(PlacedOr(Ring!AfterOffset(t, 0), reader[Client]))
  /\ sent' = Nothing
  /\ UNCHANGED <<archiveVars, record>>

\* END, step 1: the packet a DATA command named; a packet that is not found is
\* given up for the next one.
ByPacketId(rd) ==
  IF 0 < rd.id /\ rd.id < RingIdMaximum
  THEN PlacedOr(Ring!PositionOffset(rd.id, Unset), [rd EXCEPT !.id = Waits])
  ELSE rd

\* Mutation of EndAccepted: END is obeyed while streaming.
EndAcceptedAlways == Between

EndAccepted == Between /\ ~Streaming

HandleEnd ==
  /\ EndAccepted
  /\ LET rd1 == ByPacketId(reader[Client])
         \* step 2: the time a TIME command named, unless step 1 placed the reader
         rd2 == IF rd1.off < 0 /\ sl.start # Unset
                THEN PlacedOr(Ring!AfterOffset(sl.start, 0), rd1) ELSE rd1
         \* step 2c: DATA ALL without TIME asks for the last seven days
         from == IF sl.start = Unset /\ rd2.id = Ring!RingIdEarliest THEN 0
                 ELSE sl.start
     IN /\ SetReader(IF rd2.id = Ring!RingIdNone THEN [rd2 EXCEPT !.id = Waits] ELSE rd2)
        /\ IF from = Unset
           THEN sl' = [sl EXCEPT !.state = "stream"] /\ UNCHANGED <<promised, amiss>>
           ELSE Prefetch(IF sl.station THEN Selected ELSE Streams, from, sl.end)
  /\ UNCHANGED <<archiveVars, record, sent>>

-----------------------------------------------------------------------------
(* StreamPackets                                                           *)

HasData(i)  == record[db[i]].payload # "empty"
Dequeued(i) == [sl EXCEPT !.queue = Tail(@), !.lastId = i, !.lastStart = RowStart(i),
                          !.lastEnd = DataEnd(db[i])]

\* One record of the burst is sent.  One without data aborts the burst: the next
\* call goes on behind it, but nobody notices then that it was the last of its page.
SendDbRecord ==
  /\ Streaming /\ sl.step = "loop" /\ sl.queue # <<>>
  /\ LET i == Head(sl.queue)
     IN IF HasData(i)
        THEN /\ sl' = [Dequeued(i) EXCEPT !.step = IF Len(sl.queue) = 1 THEN "exhausted" ELSE "loop"]
             /\ sent' = [sent EXCEPT !.rows = @ \cup {i}]
             /\ UNCHANGED amiss
        ELSE /\ sl' = Dequeued(i)
             /\ amiss' = IF Len(sl.queue) = 1 THEN amiss \cup {"burst"} ELSE amiss
             /\ UNCHANGED sent
  /\ UNCHANGED <<ringVars, archiveVars, record, promised>>

MoreExpected == sl.queryEnd # Unset /\ sl.lastStart < sl.queryEnd /\ sl.lastId > 0

\* HandleDbQueueExhausted: the next page, if there is one.
FetchNextPage ==
  /\ sl.step = "exhausted"
  /\ \/ /\ MoreExpected
        /\ \E q \in QueryByTimePagination :
             sl' = [sl EXCEPT !.queue = q, !.step = IF q = <<>> THEN "reposition" ELSE "loop"]
        /\ UNCHANGED amiss
     \/ /\ MoreExpected /\ sl' = [sl EXCEPT !.step = "reposition"]
        /\ amiss' = amiss \cup {"query"}
     \/ /\ ~MoreExpected /\ sl' = [sl EXCEPT !.step = "reposition"] /\ UNCHANGED amiss
  /\ UNCHANGED <<ringVars, archiveVars, record, sent, promised>>

HandoverTime == sl.lastEnd

\* HandleDbQueueExhausted: from the archive to the ring.
GoToRing ==
  /\ sl.step = "reposition"
  /\ SetReader(PlacedOr(Ring!AfterOffset(HandoverTime, 0),
                        [reader[Client] EXCEPT !.off = -1, !.id = Waits, !.sn = 0]))
  /\ sl' = [sl EXCEPT !.step = "loop"]
  /\ promised' = NoPromise /\ amiss' = {}
  /\ UNCHANGED <<archiveVars, record, sent>>

\* Of the packets that the reader comes to, those that are miniSEED are sent.
Sends(n) == Ring!Delivered(Client) /\ n = last'[Client] /\ record[n].payload = "miniSEED"

SendPacket ==
  /\ Streaming /\ sl.step = "loop" /\ sl.queue = <<>>
  /\ Ring!ReadNext(Client)
  /\ sent' = [sent EXCEPT !.packets = @ \cup {n \in DOMAIN record : Sends(n)}]
  /\ UNCHANGED <<archiveVars, record, sl, promised, amiss>>

\* ReadNext knows no such position: RingIdError.
PositionUnknown ==
  /\ sl.queue = <<>> /\ latest.off >= 0 /\ reader[Client].off < 0
  /\ reader[Client].id \notin {Waits, Ring!RingIdLatest, Ring!RingIdEarliest}

\* StreamPackets returns an error, the one of ReadNext or that of the socket: the
\* connection is closed, and the session's reader and SLExtInfo are no more.
SendFails ==
  /\ Streaming /\ sl.step = "loop"
  /\ sl.queue # <<>> \/ PositionUnknown
  /\ sl' = [NewSession EXCEPT !.state = "closed"]
  /\ SetReader(Ring!NewReader)
  /\ sent' = Nothing /\ promised' = NoPromise /\ amiss' = {}
  /\ UNCHANGED <<archiveVars, record>>

-----------------------------------------------------------------------------
Init ==
  /\ Ring!Init /\ Archive!Init
  /\ record = <<>>
  /\ sl = NewSession /\ sent = Nothing /\ promised = NoPromise /\ amiss = {}

Command ==
  \/ HandleStation \/ HandleData \/ HandleEnd
  \/ \E t \in RequestTimes, e \in EndTimes \cup {Unset} :
       HandleTimeStation(t, e) \/ HandleTimeAll(t, e)

SendHistory == SendDbRecord \/ FetchNextPage \/ GoToRing

StreamPackets == SendHistory \/ SendPacket \/ SendFails

Next == (\E w \in Writers : HandleWrite(w)) \/ ArchiveStep \/ Command \/ StreamPackets

\* The thread of a client that reads what it is sent goes round its loop whatever
\* the writers do.  Only the burst of history is stated to be fair: nothing here
\* needs more.
Spec == Init /\ [][Next]_vars /\ WF_vars(SendHistory)

-----------------------------------------------------------------------------
(* Properties                                                              *)

TypeOK ==
  /\ Ring!TypeOK /\ Archive!TypeOK
  /\ sl.state \in {"command", "stream", "closed"} /\ sl.station \in BOOLEAN
  /\ sl.queue \in Seq(DOMAIN db) /\ sl.rows \subseteq Streams
  /\ sl.step = "exhausted" => sl.queue = <<>>
  /\ sl.step \in {"loop", "exhausted", "reposition"}
  /\ {sl.start, sl.end, sl.queryEnd, sl.lastStart} \subseteq Nat \cup {Unset}
  /\ Len(record) = writes
  /\ sent.rows \subseteq DOMAIN db /\ sent.packets \subseteq 1 .. writes
  /\ promised.rows \subseteq DOMAIN db /\ promised.cut \in DOMAIN db \cup {0}
  /\ amiss \subseteq {"query", "burst"}

\* Rows that start when the last row of the first page does.
TiedWithCut(i) == promised.cut # 0 /\ RowStart(i) = RowStart(promised.cut)

\* When the session goes over from the archive to the ring, every row that
\* the archive held for it when it asked has been sent, however the pages fell
\* and whatever times the rows have (HandleDbQueueExhausted, the cursor of start
\* time and id).  Not so: rows without data; those of the last instant asked
\* for, where a page may end the history; and, the first page being ordered by
\* time alone, rows that start with its last row and were stored before it.
HistoryComplete ==
  [][GoToRing /\ amiss = {} =>
       \A i \in promised.rows :
         \/ i \in sent.rows
         \/ ~HasData(i)
         \/ RowStart(i) = sl.queryEnd
         \/ TiedWithCut(i) /\ i < promised.cut]_vars

\* A packet that started before it came with data after its own in the ring: the
\* handover by data time cannot tell that it is not new.
CameLate(n) == \E p \in 1 .. n - 1 : record[p].start >= DataEnd(n)

\* What a step of the session sends follows what it has sent since the client
\* asked: rows of the archive in the order of their times, then packets of the
\* ring in the order they were written.  Neither two pages, nor the archive and
\* the ring, nor commands repeated while streaming bring a packet twice, unless
\* it starts with the last row of the first page, came late, or the handover to
\* the ring did not take place (StreamPackets, HandleDbQueueExhausted, HandleEnd).
SentInOrder ==
  [][/\ SendDbRecord /\ HasData(Head(sl.queue)) =>
          LET i == Head(sl.queue)
          IN /\ sent.packets = {}
             /\ \A r \in sent.rows : RowStart(r) <= RowStart(i)
             /\ i \in sent.rows => TiedWithCut(i) /\ i > promised.cut
     /\ \A n \in DOMAIN record : Sends(n) /\ SendPacket =>
          /\ \A p \in sent.packets : p < n
          /\ n \in {db[r] : r \in sent.rows} => CameLate(n) \/ "burst" \in amiss]_vars

\* The history comes to an end although new rows keep being added to it (in
\* station mode, where the client cannot ask for it again).
HistoryEnds ==
  sl.station /\ sl.queue # <<>> ~> sl.queue = <<>> /\ sl.step = "loop"

\* "whence 0 = Set position to the packet just prior that found for whence == 1"
\* (ring.c:1298), and "Ring has no packets after DB end_time, falling back to
\* RINGID_NEXT" (SeedLinkProtocol.cs:500): whichever of the two the handover
\* takes, packets of the ring that follow the last record sent stay ahead.
NothingPassedOver ==
  [][GoToRing =>
       \A o \in Ring!Live :
         slot[o].stream \in Selected /\ slot[o].start >= sl.lastEnd
         => reader'[Client].off >= 0 /\ reader'[Client].sn < slot[o].sn]_vars
=============================================================================
