----------------------- MODULE SeedLinkHistoryProofs -----------------------
(***************************************************************************)
(* Theorems about SeedLinkHistory, for every size of ring and page, every  *)
(* set of streams and selection, and any number of packets: what is proved *)
(* of the ring (RingBufferProofs) and of the archive (MseedArchiveProofs)  *)
(* is used for the ring and the archive of the session.                    *)
(***************************************************************************)
EXTENDS SeedLinkHistory, FiniteSetTheorems, SequenceTheorems, TLAPS

RP == INSTANCE RingBufferProofs WITH
        Readers <- {Client}, Accepts <- [c \in {Client} |-> Selected],
        DataTimes <- Nat, UserIds <- {}, MaxClock <- 1,
        ClockMayStepBack <- FALSE

AP == INSTANCE MseedArchiveProofs WITH MaxRecords <- MaxWrites

-----------------------------------------------------------------------------
(* The inductive invariant                                                 *)

RingOK == RP!TypeOK /\ RP!WindowExact /\ RP!ClockInv /\ RP!ReaderInv

ArchiveOK == AP!QueueInv /\ AP!PlaceInv /\ AP!Seen \ {NoRecord} = 1 .. writes

PacketRecord == [stream : Streams, start : Nat, payload : {"miniSEED", "other", "empty"}]

\* The ring holds what was recorded of its packets, and their times are bounded.
RecordOK ==
  /\ record \in Seq(PacketRecord) /\ Len(record) = writes
  /\ \A o \in RP!Offsets :
       slot[o].start = IF slot[o].sn > 0 THEN record[slot[o].sn].start ELSE 0
  /\ \E m \in Nat : \A n \in 1 .. writes : record[n].start <= m

SessionRecord ==
  [state : {"command", "stream", "closed"}, station : BOOLEAN,
   start : Nat \cup {Unset}, end : Nat \cup {Unset}, rows : SUBSET Streams,
   queue : Seq(DOMAIN db), queryEnd : Nat \cup {Unset}, lastId : Nat,
   lastStart : Nat \cup {Unset}, lastEnd : Nat \cup {Unset},
   step : {"loop", "exhausted", "reposition"}]

\* Behind the last row of a page the cursor is that row; a session that does not
\* stream has nothing queued, sent or promised.
SessionOK ==
  /\ sl \in SessionRecord
  /\ sent \in [rows : SUBSET DOMAIN db, packets : SUBSET (1 .. writes)]
  /\ promised \in [rows : SUBSET DOMAIN db, cut : DOMAIN db \cup {0}]
  /\ amiss \in SUBSET {"query", "burst"}
  /\ sl.step # "loop" =>
       /\ Streaming /\ sl.queue = <<>> /\ sl.lastId \in DOMAIN db
       /\ sl.lastStart = RowStart(sl.lastId) /\ sl.lastEnd = sl.lastStart + DataLength
  /\ ~Streaming => sl.queue = <<>> /\ sent = Nothing /\ promised.rows = {}

\* The order of the pages: start time, then id.
Lex(i, j) == RowStart(i) < RowStart(j) \/ (RowStart(i) = RowStart(j) /\ i < j)

\* The rows that the first page, ordered by time alone, may hold before its last
\* row and the second page brings again.
Repeated(i) == TiedWithCut(i) /\ i > promised.cut

Queued == {sl.queue[j] : j \in DOMAIN sl.queue}

\* While rows are queued, or a page has just been sent: its last row.
InPages == sl.queue # <<>> \/ sl.step # "loop"
PageEnd == IF sl.queue # <<>> THEN sl.queue[Len(sl.queue)] ELSE sl.lastId

\* The queue is in the order of the times, and behind what was sent; no row that
\* was sent or is queued lies behind the last one of its page, but those repeated.
QueueInOrder ==
  /\ \A i, j \in DOMAIN sl.queue :
       i < j => RowStart(sl.queue[i]) <= RowStart(sl.queue[j]) /\ sl.queue[i] # sl.queue[j]
  /\ \A r \in sent.rows, j \in DOMAIN sl.queue :
       RowStart(r) <= RowStart(sl.queue[j]) /\ (r = sl.queue[j] => Repeated(r))

PagesInOrder ==
  InPages =>
    /\ sent.packets = {}
    /\ \A x \in sent.rows \cup Queued :
         RowStart(x) <= RowStart(PageEnd) /\ (Lex(PageEnd, x) => Repeated(x))

\* The reader stands behind the packets that were sent, and behind the packets of
\* the rows that were: or has no place yet.
RingInOrder ==
  Streaming /\ ~InPages =>
    IF reader[Client].off < 0
    THEN /\ sent.packets = {}
         /\ "burst" \in amiss \/ sent.rows = {} \/ reader[Client].id = Waits
    ELSE /\ \A p \in sent.packets : p <= reader[Client].sn
         /\ \/ "burst" \in amiss
            \/ \A r \in sent.rows : db[r] <= reader[Client].sn \/ CameLate(db[r])

\* A row promised to the client that is still to be sent: it is in the queue, or
\* comes behind the last row of the page, where the next one begins.
ToCome(i) ==
  /\ record[db[i]].stream \in sl.rows /\ RowStart(i) <= sl.queryEnd
  /\ IF sl.queue # <<>> THEN i \in Queued \/ Lex(PageEnd, i)
     ELSE sl.step = "exhausted" /\ Lex(PageEnd, i)

\* What HistoryComplete says of a row when the session goes to the ring.
Done(i) ==
  \/ i \in sent.rows
  \/ ~HasData(i)
  \/ RowStart(i) = sl.queryEnd
  \/ TiedWithCut(i) /\ i < promised.cut

Complete == amiss = {} => \A i \in promised.rows : Done(i) \/ ToCome(i)

InOrder == QueueInOrder /\ PagesInOrder /\ RingInOrder

HistoryInv == RingOK /\ ArchiveOK /\ RecordOK /\ SessionOK /\ InOrder /\ Complete

-----------------------------------------------------------------------------
(* The ring of the session                                                 *)

LEMMA RingAssumed == RP!RingAssumption
BY HistoryAssumption DEF HistoryAssumption, RP!RingAssumption

LEMMA RingNames ==
  /\ Waits = RP!RingIdNext /\ Unset = RP!Unset
  /\ Ring!RingIdNone = RP!RingIdNone /\ Ring!RingIdLatest = RP!RingIdLatest
  /\ Ring!RingIdEarliest = RP!RingIdEarliest /\ Ring!RingIdError = RP!RingIdError
BY DEF Waits, Unset, Ring!RingIdNext, RP!RingIdNext, Ring!Unset, RP!Unset, Ring!RingIdNone,
   RP!RingIdNone, Ring!RingIdLatest, RP!RingIdLatest, Ring!RingIdEarliest, RP!RingIdEarliest,
   Ring!RingIdError, RP!RingIdError

LEMMA RingTypes == Ring!TypeOK <=> RP!TypeOK
BY DEF Ring!TypeOK, RP!TypeOK, Ring!Packet, RP!Packet, Ring!PacketSummary, RP!PacketSummary,
   Ring!StreamRecord, RP!StreamRecord, Ring!ReaderRecord, RP!ReaderRecord,
   Ring!Offsets, RP!Offsets, Ring!RingIdError, RP!RingIdError, Ring!Unset, RP!Unset

LEMMA RingPlaces == \A o : Ring!Placed(o) = RP!Placed(o)
BY DEF Ring!Placed, RP!Placed

LEMMA RingAfter == \A t : Ring!AfterOffset(t, 0) = RP!AfterOffset(t, 0)
BY DEF Ring!AfterOffset, RP!AfterOffset, Ring!FirstFrom, RP!FirstFrom, Ring!EobOffset,
   RP!EobOffset, Ring!Offsets, RP!Offsets, Ring!NextOffset, RP!NextOffset,
   Ring!Steps, RP!Steps, Ring!At, RP!At

LEMMA RingPosition == \A id : Ring!PositionOffset(id, Unset) = RP!PositionOffset(id, RP!Unset)
BY RingNames DEF Ring!PositionOffset, RP!PositionOffset, Ring!ResolvedId, RP!ResolvedId,
   Ring!FindOffsetForID, RP!FindOffsetForID, Ring!FirstFrom, RP!FirstFrom, Ring!EobOffset,
   RP!EobOffset, Ring!Offsets, RP!Offsets, Ring!NextOffset, RP!NextOffset,
   Ring!Steps, RP!Steps, Ring!At, RP!At, Unset

LEMMA RingReads == Ring!ReadNext(Client) => RP!ReadNext(Client)
BY DEF Ring!ReadNext, RP!ReadNext, Ring!ReadNextEmpty, RP!ReadNextEmpty,
   Ring!ReadNextPlace, RP!ReadNextPlace, Ring!ReadNextScan, RP!ReadNextScan,
   Ring!RingIdNext, RP!RingIdNext, Ring!RingIdLatest, RP!RingIdLatest,
   Ring!RingIdEarliest, RP!RingIdEarliest, Ring!FirstFrom, RP!FirstFrom,
   Ring!EobOffset, RP!EobOffset, Ring!Offsets, RP!Offsets, Ring!NextOffset, RP!NextOffset,
   Ring!Steps, RP!Steps, Ring!At, RP!At, Ring!Hit, RP!Hit, Ring!FirstOffset, RP!FirstOffset,
   Ring!Stops, RP!Stops, Ring!Ahead, RP!Ahead, Ring!LastPassed, RP!LastPassed,
   Ring!Return, RP!Return, Ring!Placed, RP!Placed, Ring!ringVars, RP!ringVars

LEMMA RingWrites ==
  ASSUME NEW s, NEW d, Ring!Write(s, d, Ring!RingIdNone)
  PROVE  RP!Write(s, d, RP!RingIdNone)
BY DEF Ring!Write, RP!Write, Ring!RingIdNone, RP!RingIdNone, Ring!NSnow, RP!NSnow,
   Ring!WriteOffset, RP!WriteOffset, Ring!NextOffset, RP!NextOffset, Ring!NextId, RP!NextId,
   Ring!RingIdError, RP!RingIdError, Ring!EvictedIdx, RP!EvictedIdx,
   Ring!StoredSlots, RP!StoredSlots, Ring!StreamEntry, RP!StreamEntry,
   Ring!Summary, RP!Summary, Ring!IsFull, RP!IsFull, Ring!OnlyInStream, RP!OnlyInStream

LEMMA RingBegins == Ring!Init => RP!Init
BY DEF Ring!Init, RP!Init, Ring!Offsets, RP!Offsets, Ring!Blank, RP!Blank,
   Ring!NoSummary, RP!NoSummary, Ring!RingIdNone, RP!RingIdNone, Ring!Unset, RP!Unset,
   Ring!NewReader, RP!NewReader

LEMMA RingInit == Ring!Init => RingOK
<1> SUFFICES ASSUME Ring!Init PROVE RingOK
  OBVIOUS
<1>1. RP!Init
  BY RingBegins
<1>2. RP!TypeOK
  BY <1>1, RingAssumed, RP!InitType
<1>3. \A o \in RP!Offsets : slot[o].sn = 0 /\ slot[o].time = 0
  BY <1>1 DEF RP!Init, RP!Blank
<1>4. RP!WindowExact
  BY <1>1, <1>3 DEF RP!Init, RP!WindowExact, RP!Live
<1>5. RP!ClockInv
  BY <1>1, <1>3 DEF RP!Init, RP!ClockInv, RP!NoSummary
<1>6. RP!ReaderInv
  BY <1>1 DEF RP!Init, RP!ReaderInv, RP!NewReader
<1> QED
  BY <1>2, <1>4, <1>5, <1>6 DEF RingOK

\* WRITE keeps the ring right and adds a packet with the next number.
LEMMA RingWrite ==
  ASSUME RingOK, NEW s \in Streams, NEW d \in Nat, Ring!Write(s, d, Ring!RingIdNone)
  PROVE  /\ RingOK' /\ UNCHANGED <<reader, last>> /\ writes' = writes + 1
         /\ writes \in 0 .. MaxWrites - 1
         /\ RP!WriteOffset \in RP!Offsets
         /\ slot'[RP!WriteOffset].sn = writes + 1 /\ slot'[RP!WriteOffset].start = d
         /\ \A x \in RP!Offsets \ {RP!WriteOffset} :
              slot'[x].sn = slot[x].sn /\ slot'[x].start = slot[x].start
<1>1. RP!Write(s, d, RP!RingIdNone) /\ RP!RingIdNone \in {} \cup {RP!RingIdNone}
  BY RingWrites
<1>2. RP!TypeOK'
  BY <1>1, RingAssumed, RP!WriteType DEF RingOK
<1>3. RP!WindowExact'
  BY <1>1, RingAssumed, RP!WriteWindow DEF RingOK
<1>4. RP!ClockInv'
  BY <1>1, RingAssumed, RP!WriteClock DEF RingOK
<1>5. RP!ReaderInv'
  BY <1>1, RingAssumed, RP!WriteReaders DEF RingOK
<1>6. /\ UNCHANGED <<reader, last>> /\ writes' = writes + 1
      /\ RP!WriteOffset \in RP!Offsets
      /\ slot'[RP!WriteOffset].sn = writes + 1 /\ slot'[RP!WriteOffset].start = d
      /\ \A x \in RP!Offsets \ {RP!WriteOffset} :
           slot'[x].sn = slot[x].sn /\ slot'[x].start = slot[x].start
  BY <1>1, RingAssumed, RP!WriteFacts DEF RingOK
<1>7. writes \in 0 .. MaxWrites - 1
  BY <1>1, HistoryAssumption DEF RP!Write, RingOK, RP!TypeOK, HistoryAssumption
<1> QED
  BY <1>2, <1>3, <1>4, <1>5, <1>6, <1>7 DEF RingOK

\* Every reader the session may set: one placed on a slot, the present one with
\* another id, or one without a position.
Stands(rd) ==
  /\ rd \in RP!ReaderRecord
  /\ \/ rd.off \in RP!Offsets /\ rd.sn = slot[rd.off].sn
     \/ rd.off = reader[Client].off /\ rd.sn = reader[Client].sn
     \/ rd.off = -1 /\ rd.sn = 0

LEMMA ReaderTypes ==
  ASSUME RP!TypeOK
  PROVE  /\ reader \in [{Client} -> RP!ReaderRecord] /\ last \in [{Client} -> 0 .. MaxWrites]
         /\ slot \in [RP!Offsets -> RP!Packet] /\ RP!Offsets \subseteq Nat
         /\ reader[Client] \in RP!ReaderRecord /\ last[Client] \in Nat
         /\ MaxWrites \in Nat /\ MaxPackets \in Nat \ {0}
BY HistoryAssumption DEF RP!TypeOK, RP!Offsets, HistoryAssumption

LEMMA PlacedStands ==
  ASSUME RP!TypeOK, NEW o \in RP!Offsets
  PROVE  Stands(RP!Placed(o)) /\ RP!Placed(o).sn = slot[o].sn /\ RP!Placed(o).off = o
<1>1. RP!Placed(o) \in RP!ReaderRecord
  BY RingAssumed, RP!PlacedType
<1> QED
  BY <1>1 DEF Stands, RP!Placed

LEMMA RingSet ==
  ASSUME RingOK, NEW rd, Stands(rd), SetReader(rd)
  PROVE  RingOK' /\ reader'[Client] = rd /\ UNCHANGED <<slot, writes, latest>>
<1>1. /\ reader \in [{Client} -> RP!ReaderRecord] /\ last \in [{Client} -> 0 .. MaxWrites]
      /\ slot \in [RP!Offsets -> RP!Packet] /\ RP!Offsets \subseteq Nat
      /\ reader[Client] \in RP!ReaderRecord /\ last[Client] \in Nat
      /\ MaxWrites \in Nat /\ MaxPackets \in Nat \ {0}
  BY ReaderTypes DEF RingOK
<1>2. /\ UNCHANGED <<slot, earliest, latest, streamIdx, streamCount, clock, writes>>
      /\ reader' = [reader EXCEPT ![Client] = rd]
      /\ last' = IF rd.off = reader[Client].off THEN last ELSE [last EXCEPT ![Client] = 0]
  BY DEF SetReader
<1>3. reader'[Client] = rd /\ reader' \in [{Client} -> RP!ReaderRecord]
  BY <1>1, <1>2 DEF Stands
<1>4. /\ last' \in [{Client} -> 0 .. MaxWrites]
      /\ last'[Client] = IF rd.off = reader[Client].off THEN last[Client] ELSE 0
  BY <1>1, <1>2
<1>5. RP!TypeOK'
  BY <1>2, <1>3, <1>4 DEF RingOK, RP!TypeOK
<1>6. RP!WindowExact' /\ RP!ClockInv'
  BY <1>2 DEF RingOK, RP!WindowExact, RP!ClockInv, RP!Live, RP!Held
<1>7. /\ last[Client] <= reader[Client].sn
      /\ reader[Client].sn > 0 =>
           LET o == reader[Client].off
           IN o \in RP!Offsets /\ (slot[o].sn = reader[Client].sn
                                   \/ slot[o].sn >= reader[Client].sn + MaxPackets)
  BY DEF RingOK, RP!ReaderInv
<1>8. reader[Client].sn \in Nat /\ rd.sn \in Nat /\ \A o \in RP!Offsets : slot[o].sn \in Nat
  BY <1>1 DEF Stands, RP!ReaderRecord, RP!Packet
<1>9. last'[Client] <= rd.sn
  BY <1>1, <1>4, <1>7, <1>8 DEF Stands
<1>10. rd.sn > 0 => /\ rd.off \in RP!Offsets
                    /\ slot[rd.off].sn = rd.sn \/ slot[rd.off].sn >= rd.sn + MaxPackets
  BY <1>7, <1>8 DEF Stands
<1>11. RP!ReaderInv'
  BY <1>2, <1>3, <1>9, <1>10 DEF RP!ReaderInv
<1> QED
  BY <1>2, <1>3, <1>5, <1>6, <1>11 DEF RingOK

\* A search by time finds a packet of the ring that starts then or later, or nothing.
LEMMA RingFinds ==
  ASSUME RingOK
  PROVE  /\ \A t : LET o == Ring!AfterOffset(t, 0)
                   IN o = -1 \/ (o \in RP!Offsets /\ slot[o].start >= t /\ slot[o].sn > 0)
         /\ \A id : Ring!PositionOffset(id, Unset) \in RP!Offsets \cup {-1}
<1>0. RP!TypeOK /\ RP!WindowExact
  BY DEF RingOK
<1>1. ASSUME NEW t
      PROVE  LET o == Ring!AfterOffset(t, 0)
             IN o = -1 \/ (o \in RP!Offsets /\ slot[o].start >= t /\ slot[o].sn > 0)
  <2> DEFINE S == {o \in RP!Offsets : slot[o].start >= t}
             from == IF earliest.off >= 0 THEN earliest.off ELSE 0
             f == RP!FirstFrom(from, RP!EobOffset, S)
  <2>1. RP!AfterOffset(t, 0) = IF latest.off < 0 THEN -1 ELSE f
    BY DEF RP!AfterOffset
  <2>2. CASE latest.off < 0
    BY <2>1, <2>2, RingAfter
  <2>3. CASE ~(latest.off < 0)
    <3>1. RP!EobOffset \in RP!Offsets /\ MaxPackets \in Nat \ {0} /\ writes \in Nat
      BY <1>0, RingAssumed, RP!EndsType, HistoryAssumption DEF HistoryAssumption, RP!TypeOK
    <3>2. writes > 0
      BY <1>0, <2>3, <3>1 DEF RP!WindowExact, RP!NoSummary
    <3>3. /\ earliest.off \in RP!Offsets /\ latest.off \in RP!Offsets
          /\ RP!Steps(earliest.off, latest.off) = RP!Held - 1
          /\ \A o \in RP!Offsets :
               LET i == RP!Steps(earliest.off, o)
               IN slot[o].sn = IF i < RP!Held THEN writes - RP!Held + 1 + i ELSE 0
      BY <1>0, <3>1, <3>2 DEF RP!WindowExact
    <3>4. from = earliest.off
      BY <3>1, <3>3 DEF RP!Offsets
    <3>5. RP!Held \in 1 .. MaxPackets /\ RP!Held <= writes
      BY <3>1, <3>2 DEF RP!Held
    <3>6. RP!Steps(earliest.off, RP!EobOffset) <= RP!Held
      BY <3>1, <3>3, <3>5 DEF RP!EobOffset, RP!NextOffset, RP!Steps, RP!Offsets
    <3>7. \/ f = -1
          \/ \E i \in 0 .. RP!Steps(earliest.off, RP!EobOffset) - 1 :
               f = RP!At(earliest.off, i) /\ f \in S
      <4> HIDE DEF S, from
      <4> QED
        BY <3>1, <3>3, <3>4, RingAssumed, RP!FirstFromFinds
    <3>8. ASSUME NEW i \in 0 .. RP!Steps(earliest.off, RP!EobOffset) - 1,
                 f = RP!At(earliest.off, i), f \in S
          PROVE  slot[f].sn > 0
      <4>1. PICK h, e : h = RP!Held /\ e = earliest.off
        OBVIOUS
      <4>2. i \in 0 .. MaxPackets - 1 /\ i < h
        <5>1. RP!Steps(e, RP!EobOffset) \in Int
          BY <3>1, <3>3, <4>1 DEF RP!Steps, RP!Offsets
        <5> QED
          BY <3>1, <3>5, <3>6, <4>1, <5>1
      <4>3. RP!Steps(e, f) = i
        BY <3>3, <3>8, <4>1, <4>2, RingAssumed, RP!StepsAt
      <4>4. f \in RP!Offsets
        BY <3>8
      <4> HIDE DEF f
      <4>5. slot[f].sn = writes - h + 1 + i
        BY <3>3, <4>1, <4>2, <4>3, <4>4
      <4> QED
        BY <3>1, <3>5, <4>1, <4>2, <4>5
    <3> QED
      BY <2>1, <2>3, <3>7, <3>8, RingAfter
  <2> QED
    BY <2>2, <2>3
<1>2. \A id : Ring!PositionOffset(id, Unset) \in RP!Offsets \cup {-1}
  BY <1>0, RingAssumed, RP!LookupType, RingPosition
<1> QED
  BY <1>1, <1>2

\* A ring without packets, and one with.
LEMMA RingEnds ==
  ASSUME RingOK
  PROVE  /\ latest.off < 0 <=> writes = 0
         /\ latest.off >= 0 => /\ latest.off \in RP!Offsets /\ slot[latest.off].sn = writes
         /\ \A o \in RP!Offsets : slot[o].sn \in 0 .. writes
<1>1. RP!TypeOK /\ RP!WindowExact /\ writes \in Nat /\ MaxPackets \in Nat \ {0}
  BY HistoryAssumption DEF RingOK, RP!TypeOK, HistoryAssumption
<1>2. \A o \in RP!Offsets : slot[o].sn \in Nat
  BY <1>1 DEF RP!TypeOK, RP!Packet
<1>3. CASE writes = 0
  <2>1. latest.off = -1 /\ \A o \in RP!Offsets : ~(slot[o].sn > 0)
    BY <1>1, <1>3 DEF RP!WindowExact, RP!NoSummary, RP!Live
  <2> QED
    BY <1>2, <1>3, <2>1
<1>4. CASE writes > 0
  <2>1. /\ latest.off \in RP!Offsets
        /\ RP!Steps(earliest.off, latest.off) = RP!Held - 1
        /\ \A o \in RP!Offsets :
             LET i == RP!Steps(earliest.off, o)
             IN slot[o].sn = IF i < RP!Held THEN writes - RP!Held + 1 + i ELSE 0
    BY <1>1, <1>4 DEF RP!WindowExact
  <2>2. ~(latest.off < 0) /\ RP!Held \in 1 .. writes
    BY <1>1, <1>4, <2>1 DEF RP!Held, RP!Offsets
  <2>3. slot[latest.off].sn = writes
    BY <1>1, <2>1, <2>2
  <2>4. \A o \in RP!Offsets : slot[o].sn <= writes
    <3> TAKE o \in RP!Offsets
    <3>1. CASE slot[o].sn = 0
      BY <1>1, <3>1
    <3>2. CASE slot[o].sn > 0
      BY <1>1, <3>2, RingAssumed, RP!WindowFacts DEF RP!Live
    <3> QED
      BY <1>2, <3>1, <3>2
  <2>5. \A o \in RP!Offsets : slot[o].sn \in 0 .. writes
    BY <1>1, <1>2, <2>4
  <2> QED
    BY <1>1, <1>4, <2>1, <2>2, <2>3, <2>5
<1> QED
  BY <1>1, <1>3, <1>4

\* What ReadNext does to the reader: nothing, on an empty ring at most another id;
\* the first read after "next packet" places it on the latest one; a scan leaves it
\* alone or brings it to a later packet, which is delivered or not.
ReadsOn ==
  \/ writes = 0 /\ UNCHANGED last
  \/ /\ reader[Client].off < 0 /\ reader[Client].id = Waits
     /\ reader'[Client].off >= 0 /\ reader'[Client].sn = writes /\ UNCHANGED last
  \/ /\ reader[Client].off >= 0 \/ reader[Client].id # Waits
     /\ \/ reader' = reader /\ UNCHANGED last
        \/ /\ reader'[Client].off >= 0
           /\ reader[Client].sn > 0 => reader'[Client].sn > reader[Client].sn
           /\ last' = last \/ last'[Client] = reader'[Client].sn

LEMMA RingRead ==
  ASSUME RingOK, Ring!ReadNext(Client)
  PROVE  RingOK' /\ UNCHANGED <<slot, writes, latest>> /\ ReadsOn
<1>1. /\ RP!ReadNext(Client) /\ RP!TypeOK /\ RP!WindowExact /\ RP!ClockInv /\ RP!ReaderInv
      /\ Client \in {Client}
  BY RingReads DEF RingOK
<1>2. UNCHANGED RP!ringVars
  BY <1>1 DEF RP!ReadNext, RP!ReadNextEmpty, RP!ReadNextPlace, RP!ReadNextScan
<1>3. RP!TypeOK'
  BY <1>1, RingAssumed, RP!WindowEnds, RP!ReadNextType
<1>4. RP!WindowExact' /\ RP!ClockInv'
  BY <1>1, <1>2 DEF RP!ringVars, RP!WindowExact, RP!ClockInv, RP!Live, RP!Held
<1>5. RP!ReaderInv'
  BY <1>1, RingAssumed, RP!ReadsKeepInv
<1> SUFFICES ReadsOn
  BY <1>2, <1>3, <1>4, <1>5 DEF RingOK, RP!ringVars
<1>6. /\ reader \in [{Client} -> RP!ReaderRecord] /\ last \in [{Client} -> 0 .. MaxWrites]
      /\ RP!Offsets \subseteq Nat
  BY <1>1, ReaderTypes
<1>7. /\ latest.off < 0 <=> writes = 0
      /\ latest.off >= 0 => latest.off \in RP!Offsets /\ slot[latest.off].sn = writes
  BY RingEnds
<1>8. \A o \in RP!Offsets : reader' = [reader EXCEPT ![Client] = RP!Placed(o)] =>
        reader'[Client].off = o /\ reader'[Client].off >= 0 /\ reader'[Client].sn = slot[o].sn
  BY <1>6 DEF RP!Placed
<1>9. CASE RP!ReadNextEmpty(Client)
  BY <1>7, <1>9 DEF RP!ReadNextEmpty, ReadsOn
<1>10. CASE RP!ReadNextPlace(Client)
  <2>1. /\ latest.off >= 0 /\ reader[Client].off < 0 /\ reader[Client].id = Waits
        /\ reader' = [reader EXCEPT ![Client] = RP!Placed(latest.off)] /\ UNCHANGED last
    BY <1>10, RingNames DEF RP!ReadNextPlace
  <2> QED
    BY <1>7, <1>8, <2>1 DEF ReadsOn
<1>11. CASE RP!ReadNextScan(Client)
  <2>1. reader[Client].off >= 0 \/ reader[Client].id # Waits
    BY <1>11, RingNames, HistoryAssumption
    DEF RP!ReadNextScan, RP!RingIdNext, RP!RingIdLatest, RP!RingIdEarliest, HistoryAssumption
  <2>2. latest.off >= 0
    BY <1>11 DEF RP!ReadNextScan
  <2>3. RP!Walk(Client) \subseteq RP!Offsets
    BY <1>1, <2>2, RingAssumed, RP!WalkType
  <2>4. \A o \in RP!Walk(Client) : reader[Client].sn > 0 => slot[o].sn > reader[Client].sn
    BY <1>1, RingAssumed, RP!WalkNewer DEF RP!Walk
  <2>5. CASE \E i : RP!Delivers(Client, i)
    <3>1. PICK h \in RP!Walk(Client) :
            /\ reader' = [reader EXCEPT ![Client] = RP!Placed(h)]
            /\ last' = [last EXCEPT ![Client] = slot[h].sn]
      BY <2>5 DEF RP!Delivers, RP!Walk
    <3>2. last'[Client] = slot[h].sn
      BY <1>6, <3>1
    <3> QED
      BY <1>8, <2>1, <2>3, <2>4, <3>1, <3>2 DEF ReadsOn
  <2>6. CASE RP!MovesOn(Client)
    <3>1. CASE reader' = reader
      BY <2>1, <2>6, <3>1 DEF ReadsOn, RP!MovesOn
    <3>2. CASE \E o \in RP!Walk(Client) : reader' = [reader EXCEPT ![Client] = RP!Placed(o)]
      BY <1>8, <2>1, <2>3, <2>4, <2>6, <3>2 DEF ReadsOn, RP!MovesOn
    <3> QED
      BY <2>6, <3>1, <3>2 DEF RP!MovesOn
  <2> QED
    BY <1>1, <1>11, <2>5, <2>6, RingAssumed, RP!ScanOutcome
<1> QED
  BY <1>1, <1>9, <1>10, <1>11 DEF RP!ReadNext

-----------------------------------------------------------------------------
(* The archive of the session                                              *)

LEMMA ArchiveSizes == \A S : AP!Cardinality(S) = Cardinality(S)
BY DEF AP!Cardinality, Cardinality

LEMMA ArchiveAssumed == AP!ArchiveAssumption
BY HistoryAssumption DEF HistoryAssumption, AP!ArchiveAssumption, AP!Records,
   AP!IsFiniteSet, IsFiniteSet

LEMMA ArchiveTypes == Archive!TypeOK <=> AP!TypeOK
BY DEF Archive!TypeOK, AP!TypeOK, Archive!Records, AP!Records, Archive!Flushers, AP!Flushers

LEMMA ArchiveBegins == Archive!Init => AP!Init
BY DEF Archive!Init, AP!Init, Archive!Flushers, AP!Flushers

LEMMA ArchiveTakes ==
  ASSUME NEW w, NEW rec, Archive!Enqueue(w, rec)
  PROVE  AP!Enqueue(w, rec)
BY DEF Archive!Enqueue, AP!Enqueue, Archive!Idle, AP!Idle

LEMMA ArchiveSteps ==
  ASSUME ArchiveStep
  PROVE  \/ \E w \in Writers : AP!PutInQueue(w)
         \/ \E t \in Timers : AP!TimerFires(t)
         \/ \E f \in AP!Flushers : AP!Flush(f)
BY DEF ArchiveStep, Archive!PutInQueue, AP!PutInQueue, Archive!TimerFires, AP!TimerFires,
   Archive!Flush, AP!Flush, Archive!FullBatch, AP!FullBatch, Archive!Idle, AP!Idle,
   Archive!Due, AP!Due, Archive!queueVars, AP!queueVars, AP!Flushers,
   Archive!TryDequeue, AP!TryDequeue, Archive!Drained, AP!Drained, Archive!Copy, AP!Copy,
   Archive!CopyFails, AP!CopyFails, Archive!EndFlush, AP!EndFlush,
   Archive!Dequeued, AP!Dequeued, Archive!AfterDrain, AP!AfterDrain,
   Archive!Elements, AP!Elements

LEMMA ArchiveInit == Archive!Init /\ writes = 0 => ArchiveOK
<1> SUFFICES ASSUME Archive!Init, writes = 0 PROVE ArchiveOK
  OBVIOUS
<1>1. AP!Init
  BY ArchiveBegins
<1>2. AP!QueueInv
  BY <1>1, ArchiveAssumed, AP!QueueInit
<1>3. AP!PlaceInv
  BY <1>1, ArchiveAssumed, AP!PlaceInit
<1>4. AP!Seen \ {NoRecord} = {}
  BY <1>1 DEF AP!Init, AP!Seen, AP!Elements
<1> QED
  BY <1>2, <1>3, <1>4 DEF ArchiveOK

\* A written packet is the next record that the archive is handed.
LEMMA ArchiveHandIn ==
  ASSUME ArchiveOK, NEW w \in Writers, Archive!Enqueue(w, writes + 1),
         writes \in 0 .. MaxWrites - 1, writes' = writes + 1
  PROVE  ArchiveOK' /\ UNCHANGED db
<1> DEFINE rec == writes + 1
<1>1. AP!Enqueue(w, rec)
  BY ArchiveTakes
<1>2. rec \in AP!Records /\ writes \in Nat
  BY HistoryAssumption DEF AP!Records, HistoryAssumption
<1>3. rec = AP!Cardinality(AP!Seen \ {NoRecord}) + 1
  <2>1. AP!Cardinality(1 .. writes) = writes
    BY <1>2, FS_Interval, ArchiveSizes
  <2> QED
    BY <2>1 DEF ArchiveOK
<1> HIDE DEF rec
<1>4. AP!Next
  BY <1>1, <1>2, <1>3 DEF AP!Next, AP!HandIn
<1>5. AP!QueueInv'
  BY <1>4, ArchiveAssumed, AP!QueueStep DEF ArchiveOK
<1>6. AP!PlaceInv' /\ AP!Seen' \ {NoRecord} = (AP!Seen \ {NoRecord}) \cup {rec}
  BY <1>1, <1>2, <1>3, <1>5, ArchiveAssumed, AP!PlaceHandIn DEF ArchiveOK, AP!QueueInv
<1>7. (AP!Seen \ {NoRecord})' = 1 .. writes'
  <2>1. (1 .. writes) \cup {rec} = 1 .. writes'
    BY <1>2 DEF rec
  <2> QED
    BY <1>6, <2>1 DEF ArchiveOK
<1>8. UNCHANGED db
  BY <1>1 DEF AP!Enqueue
<1> QED
  BY <1>5, <1>6, <1>7, <1>8 DEF ArchiveOK

\* The rows of the table are packets that were written, each of them once.
LEMMA RowFacts ==
  ASSUME ArchiveOK, writes \in Nat
  PROVE  /\ db \in Seq(1 .. writes) /\ DOMAIN db = 1 .. Len(db) /\ Len(db) \in Nat
         /\ \A i \in DOMAIN db : db[i] \in 1 .. writes
         /\ \A i, j \in DOMAIN db : db[i] = db[j] => i = j
<1>1. db \in Seq(AP!Records) /\ DOMAIN db = 1 .. Len(db) /\ Len(db) \in Nat
  BY DEF ArchiveOK, AP!QueueInv, AP!TypeOK
<1>2. \A i \in DOMAIN db : db[i] \in AP!Seen \ {NoRecord}
  BY <1>1, ArchiveAssumed DEF AP!Seen, AP!Elements, AP!ArchiveAssumption
<1>3. \A i \in DOMAIN db : db[i] \in 1 .. writes
  BY <1>2 DEF ArchiveOK
<1>4. db \in Seq(1 .. writes)
  BY <1>1, <1>3, SeqDef
<1>5. \A i, j \in DOMAIN db : db[i] = db[j] => i = j
  BY DEF ArchiveOK, AP!PlaceInv, AP!Apart, AP!Distinct
<1> QED
  BY <1>1, <1>3, <1>4, <1>5

\* The table only grows at its end.
RowsStay == DOMAIN db \subseteq DOMAIN db' /\ \A i \in DOMAIN db : db'[i] = db[i]

LEMMA ArchiveMoves ==
  ASSUME ArchiveOK, ArchiveStep, writes \in Nat
  PROVE  ArchiveOK' /\ RowsStay
<1>1. \/ \E w \in Writers : AP!PutInQueue(w)
      \/ \E t \in Timers : AP!TimerFires(t)
      \/ \E f \in AP!Flushers : AP!Flush(f)
  BY ArchiveSteps
<1>2. AP!TypeOK /\ AP!QueueInv /\ AP!PlaceInv
  BY DEF ArchiveOK, AP!QueueInv
<1>3. /\ handing \in [Writers -> AP!Records \cup {NoRecord}] /\ pending \in Seq(AP!Records)
      /\ phase \in [AP!Flushers -> {"idle", "drain", "copy"}]
      /\ batch \in [AP!Flushers -> Seq(AP!Records)] /\ db \in Seq(AP!Records)
      /\ \A f \in AP!Flushers : phase[f] = "copy" \/ batch[f] = <<>> \/ phase[f] = "drain"
  BY <1>2 DEF AP!TypeOK
<1>4. AP!Next
  BY <1>1 DEF AP!Next
<1>5. ~AP!HandIn
  <2>1. UNCHANGED <<pending, phase>> => FALSE
    <3> SUFFICES ASSUME UNCHANGED <<pending, phase>> PROVE FALSE
      OBVIOUS
    <3>1. ASSUME NEW w \in Writers, AP!PutInQueue(w) PROVE FALSE
      <4>1. handing[w] \in AP!Records /\ pending' = Append(pending, handing[w])
        BY <1>3, <3>1 DEF AP!PutInQueue
      <4>2. Len(pending') = Len(pending) + 1 /\ Len(pending) \in Nat
        BY <1>3, <4>1
      <4> QED
        BY <4>2
    <3>2. ASSUME NEW t \in Timers, AP!TimerFires(t) PROVE FALSE
      BY <1>3, <3>2 DEF AP!TimerFires, AP!Idle, AP!Flushers
    <3>3. ASSUME NEW f \in AP!Flushers, AP!Flush(f) PROVE FALSE
      <4>1. CASE AP!TryDequeue(f)
        <5>1. pending # <<>> /\ pending' = Tail(pending)
          BY <4>1 DEF AP!TryDequeue, AP!Dequeued
        <5>2. Len(pending') = Len(pending) - 1 /\ Len(pending) \in Nat
          BY <1>3, <5>1
        <5> QED
          BY <5>2
      <4>2. CASE AP!Drained(f)
        BY <1>3, <4>2 DEF AP!Drained, AP!AfterDrain
      <4>3. CASE AP!Copy(f) \/ AP!CopyFails(f)
        BY <1>3, <4>3 DEF AP!Copy, AP!CopyFails, AP!EndFlush
      <4> QED
        BY <3>3, <4>1, <4>2, <4>3 DEF AP!Flush
    <3> QED
      BY <1>1, <3>1, <3>2, <3>3
  <2> QED
    BY <2>1 DEF AP!HandIn, AP!Enqueue
<1>6. AP!QueueInv' /\ AP!TypeOK'
  BY <1>2, <1>4, ArchiveAssumed, AP!QueueStep DEF AP!QueueInv
<1>7. AP!PlaceInv' /\ AP!Seen' \ {NoRecord} = AP!Seen \ {NoRecord}
  BY <1>2, <1>4, <1>5, <1>6, ArchiveAssumed, AP!PlaceMoves DEF AP!SeenSame
<1>8. ArchiveOK'
  <2>1. writes' = writes
    BY DEF ArchiveStep, ringVars
  <2> QED
    BY <1>6, <1>7, <2>1 DEF ArchiveOK
<1>9. RowsStay
  <2>1. UNCHANGED db \/ \E f \in AP!Flushers : db' = db \o batch[f]
    BY <1>1 DEF AP!PutInQueue, AP!TimerFires, AP!Flush, AP!TryDequeue, AP!Drained, AP!Copy,
       AP!CopyFails
  <2>2. ASSUME NEW f \in AP!Flushers, db' = db \o batch[f] PROVE RowsStay
    <3>1. batch[f] \in Seq(AP!Records)
      BY <1>3
    <3>2. /\ Len(db) \in Nat /\ Len(batch[f]) \in Nat
          /\ DOMAIN db = 1 .. Len(db) /\ DOMAIN db' = 1 .. Len(db) + Len(batch[f])
          /\ \A i \in 1 .. Len(db) : db'[i] = db[i]
      BY <1>3, <2>2, <3>1
    <3> QED
      BY <3>2 DEF RowsStay
  <2> QED
    BY <2>1, <2>2 DEF RowsStay
<1> QED
  BY <1>8, <1>9

-----------------------------------------------------------------------------
(* What is recorded of the packets                                         *)

LEMMA RecordFacts ==
  ASSUME RecordOK
  PROVE  /\ writes \in Nat /\ DOMAIN record = 1 .. writes
         /\ \A n \in 1 .. writes : /\ record[n] \in PacketRecord
                                   /\ record[n].stream \in Streams
                                   /\ record[n].start \in Nat
<1>1. record \in Seq(PacketRecord) /\ Len(record) = writes
  BY DEF RecordOK
<1>2. writes \in Nat /\ DOMAIN record = 1 .. writes
  BY <1>1
<1>3. \A n \in 1 .. writes : record[n] \in PacketRecord
  BY <1>1, <1>2, ElementOfSeq
<1> QED
  BY <1>2, <1>3 DEF PacketRecord

LEMMA RecordInit ==
  ASSUME RingOK, writes = 0, record = <<>>, \A o \in RP!Offsets : slot[o].start = 0
  PROVE  RecordOK
<1>1. \A o \in RP!Offsets : slot[o].sn = 0
  BY RingEnds
<1>2. \A n \in 1 .. writes : record[n].start <= 0
  OBVIOUS
<1> QED
  BY <1>1, <1>2 DEF RecordOK

LEMMA RecordWrite ==
  ASSUME RingOK, RecordOK, NEW p \in Packets,
         Ring!Write(p.stream, p.start, Ring!RingIdNone), record' = Append(record, p)
  PROVE  /\ RingOK' /\ RecordOK' /\ UNCHANGED <<reader, last>> /\ writes' = writes + 1
         /\ writes \in 0 .. MaxWrites - 1
         /\ \A n \in 1 .. writes : record'[n] = record[n]
<1>1. writes \in Nat
  BY RecordFacts
<1>2. p \in PacketRecord /\ p.stream \in Streams /\ p.start \in Nat
  BY HistoryAssumption DEF HistoryAssumption, PacketRecord
<1>3. PICK w, d : w = RP!WriteOffset /\ d = p.start
  OBVIOUS
<1>4. /\ RingOK' /\ UNCHANGED <<reader, last>> /\ writes' = writes + 1
      /\ writes \in 0 .. MaxWrites - 1 /\ w \in RP!Offsets
      /\ slot'[w].sn = writes + 1 /\ slot'[w].start = d
      /\ \A x \in RP!Offsets \ {w} : slot'[x].sn = slot[x].sn /\ slot'[x].start = slot[x].start
  BY <1>2, <1>3, RingWrite
<1>5. record \in Seq(PacketRecord) /\ Len(record) = writes
  BY DEF RecordOK
<1>6. /\ record' \in Seq(PacketRecord) /\ Len(record') = writes + 1
      /\ \A n \in 1 .. writes : record'[n] = record[n]
      /\ record'[writes + 1] = p
  BY <1>1, <1>2, <1>5
<1>7. \A x \in RP!Offsets : slot[x].sn \in 0 .. writes
  BY RingEnds
<1>8. \A x \in RP!Offsets :
        slot'[x].start = IF slot'[x].sn > 0 THEN record'[slot'[x].sn].start ELSE 0
  <2> TAKE x \in RP!Offsets
  <2>1. CASE x = w
    <3>1. slot'[x].sn = writes + 1 /\ slot'[x].start = d /\ writes + 1 > 0
      BY <1>1, <1>4, <2>1
    <3>2. record'[writes + 1].start = d
      BY <1>3, <1>6
    <3> QED
      BY <3>1, <3>2
  <2>2. CASE x # w
    <3>1. slot'[x].sn = slot[x].sn /\ slot'[x].start = slot[x].start /\ slot[x].sn \in 0 .. writes
      BY <1>4, <1>7, <2>2
    <3>2. slot[x].start = IF slot[x].sn > 0 THEN record[slot[x].sn].start ELSE 0
      BY DEF RecordOK
    <3>3. slot[x].sn > 0 => record'[slot[x].sn] = record[slot[x].sn]
      BY <1>1, <1>6, <3>1
    <3> QED
      BY <3>1, <3>2, <3>3
  <2> QED
    BY <2>1, <2>2
<1>9. \E m \in Nat : \A n \in 1 .. writes' : record'[n].start <= m
  <2>1. PICK m \in Nat : \A n \in 1 .. writes : record[n].start <= m
    BY DEF RecordOK
  <2>2. d \in Nat /\ m + d \in Nat
    BY <1>2, <1>3
  <2>3. \A n \in 1 .. writes + 1 : record'[n].start <= m + d
    <3> TAKE n \in 1 .. writes + 1
    <3>1. CASE n = writes + 1
      BY <1>3, <1>6, <2>2, <3>1
    <3>2. CASE n # writes + 1
      <4>1. n \in 1 .. writes
        BY <1>1, <3>2
      <4>2. record'[n].start = record[n].start /\ record[n].start \in Nat
        BY <1>6, <4>1, RecordFacts
      <4> QED
        BY <2>1, <2>2, <4>1, <4>2
    <3> QED
      BY <3>1, <3>2
  <2> QED
    BY <1>4, <2>2, <2>3
<1>10. RP!Offsets' = RP!Offsets /\ PacketRecord' = PacketRecord
  BY DEF RP!Offsets, PacketRecord
<1>11. RecordOK'
  BY <1>4, <1>6, <1>8, <1>9, <1>10 DEF RecordOK
<1> QED
  BY <1>4, <1>6, <1>11

LEMMA RecordSame ==
  ASSUME RecordOK, UNCHANGED <<slot, record, writes>>
  PROVE  RecordOK'
BY DEF RecordOK, RP!Offsets, PacketRecord

\* The time of day is a time.
LEMMA NowType ==
  ASSUME RecordOK
  PROVE  Now \in Nat
<1> DEFINE ends == {DataEnd(n) : n \in DOMAIN record} \cup {0}
<1>1. PICK m \in Nat : \A n \in 1 .. writes : record[n].start <= m
  BY DEF RecordOK
<1>2. DataLength \in Nat /\ m + DataLength \in Nat
  BY HistoryAssumption DEF HistoryAssumption
<1>3. \A n \in DOMAIN record : DataEnd(n) \in 0 .. (m + DataLength)
  BY <1>1, <1>2, RecordFacts DEF DataEnd
<1>4. ends \in SUBSET (0 .. (m + DataLength)) /\ ends # {}
  BY <1>2, <1>3
<1>5. \E x \in ends : \A y \in ends : y <= x
  <2> HIDE DEF ends
  <2> QED
    BY <1>2, <1>4, RP!Greatest, RingAssumed
<1> DEFINE e == CHOOSE x \in ends : \A y \in ends : y <= x
<1>6. e \in ends
  BY <1>5
<1>7. Now = e + 1
  BY DEF Now
<1> HIDE DEF ends, e
<1>8. e \in Nat
  BY <1>2, <1>4, <1>6
<1> QED
  BY <1>7, <1>8

-----------------------------------------------------------------------------
(* Queries                                                                 *)

\* q holds rows of S, each once, and none only if there is none.
Taken(q, i) == {q[j] : j \in 1 .. i - 1}

PageOf(S, q) ==
  /\ \E n \in Nat : q \in [1 .. n -> S] /\ (n = 0 => S = {})
  /\ \A i \in DOMAIN q : q[i] \notin Taken(q, i)

\* The orders of the two queries.
ByTime(S, q) == \A i \in DOMAIN q : \A x \in S \ Taken(q, i) : RowStart(q[i]) <= RowStart(x)

ByCursor(S, q) ==
  \A i \in DOMAIN q : \A x \in S \ Taken(q, i) : Lex(q[i], x) \/ q[i] = x

LEMMA RowTimes ==
  ASSUME ArchiveOK, RecordOK
  PROVE  \A i \in DOMAIN db : /\ RowStart(i) \in Nat /\ i \in Nat \ {0}
                              /\ db[i] \in 1 .. writes
                              /\ record[db[i]].stream \in Streams
BY RowFacts, RecordFacts DEF RowStart

LEMMA RowsFinite ==
  ASSUME ArchiveOK, RecordOK, NEW S \in SUBSET DOMAIN db
  PROVE  IsFiniteSet(S) /\ Cardinality(S) \in Nat /\ (Cardinality(S) = 0 => S = {})
<1>1. IsFiniteSet(DOMAIN db)
  BY RowFacts, RecordFacts, FS_Interval
<1>2. IsFiniteSet(S)
  BY <1>1, FS_Subset
<1> QED
  BY <1>2, FS_CardinalityType, FS_EmptySet

LEMMA QueryPages ==
  ASSUME ArchiveOK, RecordOK, NEW rows, NEW from, NEW to, NEW q \in QueryByTime(rows, from, to)
  PROVE  PageOf(RowsBetween(rows, from, to), q) /\ ByTime(RowsBetween(rows, from, to), q)
<1> DEFINE S == RowsBetween(rows, from, to)
           n == IF Cardinality(S) < Limit THEN Cardinality(S) ELSE Limit
<1>1. S \in SUBSET DOMAIN db
  BY DEF RowsBetween
<1> HIDE DEF S
<1>2. q \in {p \in [1 .. n -> S] :
               \A i \in 1 .. n :
                 LET taken == {p[j] : j \in 1 .. i - 1}
                 IN p[i] \notin taken /\ \A x \in S \ taken : RowStart(p[i]) <= RowStart(x)}
  BY DEF QueryByTime, Pages, S
<1>3. n \in Nat /\ (n = 0 => S = {}) /\ q \in [1 .. n -> S] /\ DOMAIN q = 1 .. n
  BY <1>1, <1>2, RowsFinite, HistoryAssumption DEF HistoryAssumption
<1> HIDE DEF n
<1>4. \A i \in DOMAIN q : /\ q[i] \notin Taken(q, i)
                          /\ \A x \in S \ Taken(q, i) : RowStart(q[i]) <= RowStart(x)
  BY <1>2, <1>3 DEF Taken
<1> QED
  BY <1>3, <1>4 DEF S, PageOf, ByTime

\* The rows behind the cursor.
RowsBehind == {i \in RowsBetween(sl.rows, sl.lastStart, sl.queryEnd) : Cursor(i)}

LEMMA NextPages ==
  ASSUME ArchiveOK, RecordOK, NEW q \in QueryByTimePagination
  PROVE  PageOf(RowsBehind, q) /\ ByCursor(RowsBehind, q)
<1> DEFINE S == RowsBehind
           n == IF Cardinality(S) < Limit THEN Cardinality(S) ELSE Limit
<1>1. S \in SUBSET DOMAIN db
  BY DEF RowsBetween, RowsBehind
<1> HIDE DEF S
<1>2. q \in {p \in [1 .. n -> S] :
               \A i \in 1 .. n :
                 LET taken == {p[j] : j \in 1 .. i - 1}
                 IN /\ p[i] \notin taken
                    /\ \A x \in S \ taken : \/ RowStart(p[i]) < RowStart(x)
                                            \/ RowStart(p[i]) = RowStart(x) /\ p[i] <= x}
  BY DEF QueryByTimePagination, Pages, S, RowsBehind
<1>3. n \in Nat /\ (n = 0 => S = {}) /\ q \in [1 .. n -> S] /\ DOMAIN q = 1 .. n
  BY <1>1, <1>2, RowsFinite, HistoryAssumption DEF HistoryAssumption
<1> HIDE DEF n
<1>4. \A i \in DOMAIN q : q[i] \notin Taken(q, i)
  BY <1>2, <1>3 DEF Taken
<1>5. \A i \in DOMAIN q : \A x \in S \ Taken(q, i) :
        RowStart(q[i]) < RowStart(x) \/ (RowStart(q[i]) = RowStart(x) /\ q[i] <= x)
  BY <1>2, <1>3 DEF Taken
<1>6. \A x, y \in S : x \in Nat /\ y \in Nat /\ (x <= y <=> x < y \/ x = y)
  BY <1>1, RowTimes
<1>7. \A i \in DOMAIN q : q[i] \in S
  BY <1>3
<1>8. ByCursor(S, q)
  BY <1>5, <1>6, <1>7 DEF ByCursor, Lex
<1> QED
  BY <1>3, <1>4, <1>8 DEF S, PageOf

\* A page is a queue of rows, no two the same; what it leaves out of S was there
\* to be taken when its last row was.
LEMMA PageFacts ==
  ASSUME NEW S \in SUBSET DOMAIN db, NEW q, PageOf(S, q)
  PROVE  /\ q \in Seq(DOMAIN db) /\ DOMAIN q = 1 .. Len(q) /\ Len(q) \in Nat
         /\ \A j \in DOMAIN q : q[j] \in S
         /\ q = <<>> => S = {}
         /\ \A i, j \in DOMAIN q : i < j => q[i] # q[j] /\ q[j] \in S \ Taken(q, i)
         /\ \A x \in S : \/ \E j \in DOMAIN q : q[j] = x
                         \/ /\ q # <<>> /\ Len(q) \in DOMAIN q
                            /\ x \in S \ Taken(q, Len(q)) /\ x # q[Len(q)]
<1>1. PICK n \in Nat : q \in [1 .. n -> S] /\ (n = 0 => S = {})
  BY DEF PageOf
<1>2. q \in Seq(DOMAIN db)
  BY <1>1, SeqDef
<1>3. q \in Seq(S)
  BY <1>1, SeqDef
<1>4. Len(q) = n /\ DOMAIN q = 1 .. n /\ Len(q) \in Nat
  BY <1>1, <1>3
<1>5. q = <<>> => n = 0
  BY <1>4
<1>6. ASSUME NEW i \in DOMAIN q, NEW j \in DOMAIN q, i < j
      PROVE  q[i] # q[j] /\ q[j] \in S \ Taken(q, i)
  <2>1. q[j] \notin {q[k] : k \in 1 .. j - 1}
    BY DEF PageOf, Taken
  <2>2. \A k \in 1 .. i : q[j] # q[k]
    BY <1>4, <1>6, <2>1
  <2> QED
    BY <1>1, <1>4, <2>2 DEF Taken
<1>7. ASSUME NEW x \in S, \A j \in DOMAIN q : q[j] # x
      PROVE  /\ q # <<>> /\ Len(q) \in DOMAIN q
             /\ x \in S \ Taken(q, Len(q)) /\ x # q[Len(q)]
  <2>1. n # 0
    BY <1>1
  <2>2. q # <<>> /\ Len(q) \in DOMAIN q
    BY <1>4, <2>1, EmptySeq
  <2> QED
    BY <1>4, <1>7, <2>2 DEF Taken
<1> QED
  BY <1>1, <1>2, <1>4, <1>5, <1>6, <1>7

LEMMA FirstPage ==
  ASSUME NEW S \in SUBSET DOMAIN db, NEW q, PageOf(S, q), ByTime(S, q)
  PROVE  /\ \A i, j \in DOMAIN q : i < j => RowStart(q[i]) <= RowStart(q[j]) /\ q[i] # q[j]
         /\ \A x \in S : \/ \E j \in DOMAIN q : q[j] = x
                         \/ q # <<>> /\ x # q[Len(q)] /\ RowStart(q[Len(q)]) <= RowStart(x)
BY PageFacts DEF ByTime

LEMMA LaterPage ==
  ASSUME NEW S \in SUBSET DOMAIN db, NEW q, PageOf(S, q), ByCursor(S, q)
  PROVE  /\ \A i, j \in DOMAIN q : i < j => Lex(q[i], q[j]) /\ q[i] # q[j]
         /\ \A x \in S : \/ \E j \in DOMAIN q : q[j] = x
                         \/ q # <<>> /\ Lex(q[Len(q)], x)
<1>1. \A i, j \in DOMAIN q : i < j => q[i] # q[j] /\ q[j] \in S \ Taken(q, i)
  BY PageFacts
<1>2. \A x \in S : \/ \E j \in DOMAIN q : q[j] = x
                   \/ /\ q # <<>> /\ Len(q) \in DOMAIN q
                      /\ x \in S \ Taken(q, Len(q)) /\ x # q[Len(q)]
  BY PageFacts
<1>3. \A i, j \in DOMAIN q : i < j => Lex(q[i], q[j])
  BY <1>1 DEF ByCursor
<1>4. \A x \in S : \/ \E j \in DOMAIN q : q[j] = x
                   \/ q # <<>> /\ Lex(q[Len(q)], x)
  BY <1>2 DEF ByCursor
<1> QED
  BY <1>1, <1>3, <1>4

-----------------------------------------------------------------------------
(* Steps beneath the session: packets are written, rows are added          *)

LEMMA RingSame ==
  ASSUME RingOK, UNCHANGED ringVars
  PROVE  RingOK' /\ UNCHANGED <<slot, writes, latest, reader, last>>
<1>1. RP!TypeOK'
  BY DEF RingOK, ringVars, RP!TypeOK
<1>2. RP!WindowExact' /\ RP!ClockInv' /\ RP!ReaderInv'
  BY DEF RingOK, ringVars, RP!WindowExact, RP!ClockInv, RP!ReaderInv, RP!Live, RP!Held
<1> QED
  BY <1>1, <1>2 DEF RingOK, ringVars

LEMMA ArchiveSame ==
  ASSUME ArchiveOK, UNCHANGED <<archiveVars, writes>>
  PROVE  ArchiveOK' /\ UNCHANGED db /\ RowsStay
<1>1. UNCHANGED AP!vars /\ UNCHANGED db
  BY DEF archiveVars, AP!vars
<1>2. AP!QueueInv'
  BY <1>1, ArchiveAssumed, AP!QueueStep DEF ArchiveOK
<1>3. AP!PlaceInv'
  BY <1>1, ArchiveAssumed, AP!PlaceStep DEF ArchiveOK
<1>4. (AP!Seen \ {NoRecord})' = AP!Seen \ {NoRecord}
  BY <1>1 DEF AP!vars, AP!Seen
<1> QED
  BY <1>1, <1>2, <1>3, <1>4 DEF ArchiveOK, RowsStay

LEMMA SequenceFacts ==
  ASSUME NEW T, NEW s \in Seq(T)
  PROVE  /\ DOMAIN s = 1 .. Len(s) /\ Len(s) \in Nat /\ \A j \in DOMAIN s : s[j] \in T
         /\ s # <<>> => Len(s) \in DOMAIN s
<1>1. DOMAIN s = 1 .. Len(s) /\ Len(s) \in Nat /\ \A j \in DOMAIN s : s[j] \in T
  BY ElementOfSeq
<1>2. s # <<>> => Len(s) \in Nat \ {0}
  BY EmptySeq
<1> QED
  BY <1>1, <1>2

LEMMA SessionFacts ==
  ASSUME SessionOK
  PROVE  /\ sl.queue \in Seq(DOMAIN db) /\ DOMAIN sl.queue = 1 .. Len(sl.queue)
         /\ Len(sl.queue) \in Nat /\ \A j \in DOMAIN sl.queue : sl.queue[j] \in DOMAIN db
         /\ sl.queue # <<>> => Len(sl.queue) \in DOMAIN sl.queue
         /\ sent.rows \subseteq DOMAIN db /\ promised.rows \subseteq DOMAIN db
         /\ sent.packets \subseteq 1 .. writes
         /\ promised.cut # 0 => promised.cut \in DOMAIN db
<1>1. sl.queue \in Seq(DOMAIN db)
  BY DEF SessionOK, SessionRecord
<1>2. /\ sent.rows \subseteq DOMAIN db /\ promised.rows \subseteq DOMAIN db
      /\ sent.packets \subseteq 1 .. writes
      /\ promised.cut # 0 => promised.cut \in DOMAIN db
  BY DEF SessionOK
<1> QED
  BY <1>1, <1>2, SequenceFacts

\* The session as it is stays right while packets are written and rows are added.
LEMMA SessionStays ==
  ASSUME ArchiveOK, RecordOK, RecordOK', SessionOK, RowsStay, writes' \in {writes, writes + 1},
         \A n \in 1 .. writes : record'[n] = record[n],
         UNCHANGED <<reader, sessionVars>>
  PROVE  /\ SessionOK'
         /\ InOrder => InOrder'
         /\ Complete => Complete'
<1>1. /\ UNCHANGED <<sl, sent, promised, amiss, reader>>
      /\ writes \in Nat /\ \A i \in DOMAIN db : db[i] \in 1 .. writes
      /\ DOMAIN db \subseteq DOMAIN db' /\ \A i \in DOMAIN db : db'[i] = db[i]
  BY RowFacts, RecordFacts DEF sessionVars, RowsStay
<1>2. \A i \in DOMAIN db : /\ RowStart(i)' = RowStart(i) /\ HasData(i)' = HasData(i)
                           /\ record'[db'[i]] = record[db[i]]
  BY <1>1 DEF RowStart, HasData
<1>3. /\ sl.queue \in Seq(DOMAIN db) /\ DOMAIN sl.queue = 1 .. Len(sl.queue)
      /\ Len(sl.queue) \in Nat /\ \A j \in DOMAIN sl.queue : sl.queue[j] \in DOMAIN db
      /\ sl.queue # <<>> => Len(sl.queue) \in DOMAIN sl.queue
      /\ sent.rows \subseteq DOMAIN db /\ promised.rows \subseteq DOMAIN db
      /\ promised.cut # 0 => promised.cut \in DOMAIN db
  BY SessionFacts
<1>4. SessionOK'
  <2>1. sl.queue \in Seq(DOMAIN db')
    BY <1>1, <1>3, SeqDef
  <2>2. sl' \in SessionRecord'
    BY <1>1, <2>1 DEF SessionOK, SessionRecord, Unset, Ring!Unset
  <2>3. sent' \in [rows : SUBSET DOMAIN db', packets : SUBSET (1 .. writes')]
    <3>1. 1 .. writes \subseteq 1 .. writes'
      BY <1>1
    <3> QED
      BY <1>1, <3>1 DEF SessionOK
  <2>4. promised' \in [rows : SUBSET DOMAIN db', cut : DOMAIN db' \cup {0}]
    BY <1>1 DEF SessionOK
  <2>5. sl.step # "loop" => sl.lastId \in DOMAIN db /\ RowStart(sl.lastId)' = RowStart(sl.lastId)
    BY <1>1, <1>2 DEF SessionOK, RowStart
  <2> QED
    BY <1>1, <2>2, <2>3, <2>4, <2>5 DEF SessionOK, Streaming, Nothing
<1>5. /\ (InPages => PageEnd \in DOMAIN db) /\ InPages' = InPages /\ PageEnd' = PageEnd
      /\ Queued' = Queued /\ Queued \subseteq DOMAIN db
  <2>1. sl.step # "loop" => sl.lastId \in DOMAIN db
    BY DEF SessionOK
  <2> QED
    BY <1>1, <1>3, <2>1 DEF InPages, PageEnd, Queued
<1>6. \A i \in DOMAIN db : /\ TiedWithCut(i)' = TiedWithCut(i) /\ Repeated(i)' = Repeated(i)
                           /\ \A j \in DOMAIN db : Lex(i, j)' = Lex(i, j)
  BY <1>1, <1>2, <1>3 DEF TiedWithCut, Repeated, Lex
<1>7. ASSUME QueueInOrder PROVE QueueInOrder'
  <2>1. \A j \in DOMAIN sl.queue : /\ RowStart(sl.queue[j])' = RowStart(sl.queue[j])
                                   /\ Repeated(sl.queue[j])' = Repeated(sl.queue[j])
    BY <1>1, <1>2, <1>3, <1>6
  <2>2. \A r \in sent.rows : RowStart(r)' = RowStart(r) /\ Repeated(r)' = Repeated(r)
    BY <1>2, <1>3, <1>6
  <2> QED
    BY <1>1, <1>7, <2>1, <2>2 DEF QueueInOrder
<1>8. ASSUME PagesInOrder PROVE PagesInOrder'
  <2>1. InPages => RowStart(PageEnd)' = RowStart(PageEnd)
    BY <1>2, <1>5
  <2>2. \A x \in sent.rows \cup Queued :
          /\ RowStart(x)' = RowStart(x) /\ Repeated(x)' = Repeated(x)
          /\ InPages => Lex(PageEnd, x)' = Lex(PageEnd, x)
    BY <1>2, <1>3, <1>5, <1>6
  <2> QED
    BY <1>1, <1>5, <1>8, <2>1, <2>2 DEF PagesInOrder
<1>9. ASSUME RingInOrder PROVE RingInOrder'
  <2>1. \A n \in 1 .. writes : CameLate(n) => CameLate(n)'
    <3> SUFFICES ASSUME NEW n \in 1 .. writes, NEW p \in 1 .. n - 1, record[p].start >= DataEnd(n)
                 PROVE  record'[p].start >= DataEnd(n)'
      BY DEF CameLate
    <3>1. p \in 1 .. writes
      BY <1>1
    <3> QED
      BY <3>1 DEF DataEnd
  <2>2. \A r \in sent.rows : CameLate(db[r]) => CameLate(db[r])'
    BY <1>1, <1>3, <2>1
  <2> QED
    BY <1>1, <1>3, <1>5, <1>9, <2>2 DEF RingInOrder, Streaming, Waits, Ring!RingIdNext
<1>10. ASSUME Complete PROVE Complete'
  <2>1. ASSUME NEW i \in DOMAIN db, ToCome(i) PROVE ToCome(i)'
    <3>1. InPages
      BY <2>1 DEF ToCome, InPages
    <3>2. Lex(PageEnd, i)' = Lex(PageEnd, i)
      BY <1>5, <1>6, <3>1
    <3> QED
      BY <1>1, <1>2, <1>5, <2>1, <3>2 DEF ToCome
  <2>2. ASSUME NEW i \in DOMAIN db, Done(i) PROVE Done(i)'
    BY <1>1, <1>2, <1>6, <2>2 DEF Done
  <2> QED
    BY <1>1, <1>3, <1>10, <2>1, <2>2 DEF Complete
<1> QED
  BY <1>4, <1>7, <1>8, <1>9, <1>10 DEF InOrder

LEMMA StepBeneath ==
  ASSUME HistoryInv, (\E w \in Writers : HandleWrite(w)) \/ ArchiveStep
  PROVE  HistoryInv'
<1>1. RingOK /\ ArchiveOK /\ RecordOK /\ SessionOK /\ writes \in Nat
  BY RecordFacts DEF HistoryInv
<1>2. ASSUME NEW w \in Writers, HandleWrite(w)
      PROVE  /\ RingOK' /\ ArchiveOK' /\ RecordOK' /\ RowsStay /\ writes' = writes + 1
             /\ \A n \in 1 .. writes : record'[n] = record[n]
             /\ UNCHANGED <<reader, sessionVars>>
  <2>1. PICK p \in Packets :
          Ring!Write(p.stream, p.start, Ring!RingIdNone) /\ record' = Append(record, p)
    BY <1>2 DEF HandleWrite
  <2>2. Archive!Enqueue(w, writes + 1) /\ UNCHANGED sessionVars
    BY <1>2 DEF HandleWrite
  <2>3. /\ RingOK' /\ RecordOK' /\ UNCHANGED <<reader, last>> /\ writes' = writes + 1
        /\ writes \in 0 .. MaxWrites - 1
        /\ \A n \in 1 .. writes : record'[n] = record[n]
    BY <1>1, <2>1, RecordWrite
  <2>4. ArchiveOK' /\ UNCHANGED db
    BY <1>1, <2>2, <2>3, ArchiveHandIn
  <2> QED
    BY <2>2, <2>3, <2>4 DEF RowsStay
<1>3. ASSUME ArchiveStep
      PROVE  /\ RingOK' /\ ArchiveOK' /\ RecordOK' /\ RowsStay /\ writes' = writes
             /\ \A n \in 1 .. writes : record'[n] = record[n]
             /\ UNCHANGED <<reader, sessionVars>>
  <2>1. UNCHANGED <<ringVars, record, sessionVars>>
    BY <1>3 DEF ArchiveStep
  <2>2. RingOK' /\ UNCHANGED <<slot, writes, latest, reader, last>>
    BY <1>1, <2>1, RingSame
  <2>3. ArchiveOK' /\ RowsStay
    BY <1>1, <1>3, ArchiveMoves
  <2>4. RecordOK'
    BY <1>1, <2>1, <2>2, RecordSame
  <2> QED
    BY <2>1, <2>2, <2>3, <2>4
<1>4. /\ RingOK' /\ ArchiveOK' /\ RecordOK' /\ RowsStay /\ writes' \in {writes, writes + 1}
      /\ \A n \in 1 .. writes : record'[n] = record[n]
      /\ UNCHANGED <<reader, sessionVars>>
  BY <1>2, <1>3
<1>5. SessionOK' /\ (InOrder => InOrder') /\ (Complete => Complete')
  BY <1>1, <1>4, SessionStays
<1> QED
  BY <1>4, <1>5 DEF HistoryInv

-----------------------------------------------------------------------------
(* Steps of the session                                                    *)

\* A step of the session leaves the packets and the rows as they are.
Rest == UNCHANGED <<slot, writes, record>> /\ UNCHANGED archiveVars

LEMMA RestStays ==
  ASSUME ArchiveOK, RecordOK, Rest
  PROVE  /\ ArchiveOK' /\ RecordOK' /\ UNCHANGED <<db, record, writes, slot>>
         /\ SessionRecord' = SessionRecord
<1>1. UNCHANGED <<slot, writes, record>> /\ UNCHANGED <<archiveVars, writes>>
  BY DEF Rest
<1>2. ArchiveOK' /\ UNCHANGED db
  BY <1>1, ArchiveSame
<1>3. RecordOK'
  BY <1>1, RecordSame
<1>4. SessionRecord' = SessionRecord
  BY <1>2 DEF SessionRecord, Unset, Ring!Unset
<1> QED
  BY <1>1, <1>2, <1>3, <1>4
LEMMA RingRests ==
  ASSUME HistoryInv, UNCHANGED <<ringVars, archiveVars, record>>
  PROVE  /\ RingOK' /\ ArchiveOK' /\ RecordOK' /\ UNCHANGED <<db, record, writes, reader>>
         /\ SessionRecord' = SessionRecord
<1>1. RingOK /\ ArchiveOK /\ RecordOK
  BY DEF HistoryInv
<1>2. RingOK' /\ UNCHANGED <<slot, writes, latest, reader, last>>
  BY <1>1, RingSame
<1> QED
  BY <1>1, <1>2, RestStays DEF Rest

\* A session that keeps its queue, its cursor and what it has sent keeps what is
\* still to come.
LEMMA KeepsQueue ==
  ASSUME UNCHANGED <<db, record, sent, promised, amiss>>,
         sl'.queue = sl.queue, sl'.rows = sl.rows, sl'.queryEnd = sl.queryEnd,
         sl'.step = sl.step, sl'.lastId = sl.lastId
  PROVE  /\ QueueInOrder => QueueInOrder'
         /\ PagesInOrder => PagesInOrder'
         /\ Complete => Complete'
         /\ InPages' = InPages
<1>1. /\ InPages' = InPages /\ PageEnd' = PageEnd /\ Queued' = Queued
      /\ \A i : RowStart(i)' = RowStart(i) /\ HasData(i)' = HasData(i)
  BY DEF InPages, PageEnd, Queued, RowStart, HasData
<1>2. \A i : TiedWithCut(i)' = TiedWithCut(i) /\ Repeated(i)' = Repeated(i)
  BY <1>1 DEF TiedWithCut, Repeated
<1>3. \A i, j : Lex(i, j)' = Lex(i, j)
  BY <1>1 DEF Lex
<1>4. QueueInOrder => QueueInOrder'
  BY <1>1, <1>2 DEF QueueInOrder
<1>5. PagesInOrder => PagesInOrder'
  BY <1>1, <1>2, <1>3 DEF PagesInOrder
<1>6. \A i : (ToCome(i) => ToCome(i)') /\ (Done(i) => Done(i)')
  BY <1>1, <1>2, <1>3 DEF ToCome, Done
<1> QED
  BY <1>1, <1>4, <1>5, <1>6 DEF Complete

\* A session that has sent nothing and been promised nothing, whose queue is in the
\* order of the times.
LEMMA SentNothing ==
  ASSUME sent' = Nothing
  PROVE  /\ RingInOrder'
         /\ \A r \in sent.rows' : FALSE
         /\ sl'.queue = <<>> /\ sl'.step = "loop" => QueueInOrder' /\ PagesInOrder'
         /\ promised'.rows = {} => Complete'
BY DEF Nothing, RingInOrder, QueueInOrder, PagesInOrder, InPages, Complete

\* STATION, and TIME in station mode.
LEMMA StepSettings ==
  ASSUME HistoryInv, UNCHANGED <<ringVars, archiveVars, record, sent, promised, amiss>>,
         NEW b \in BOOLEAN, NEW s \in Nat \cup {Unset}, NEW e \in Nat \cup {Unset},
         sl' = [sl EXCEPT !.station = b, !.start = s, !.end = e]
  PROVE  HistoryInv'
<1>1. SessionOK /\ sl \in SessionRecord
  BY DEF HistoryInv, SessionOK
<1>2. /\ RingOK' /\ ArchiveOK' /\ RecordOK' /\ UNCHANGED <<db, record, writes, reader>>
      /\ SessionRecord' = SessionRecord
  BY RingRests
<1>3. /\ sl' \in SessionRecord
      /\ sl'.state = sl.state /\ sl'.queue = sl.queue /\ sl'.rows = sl.rows
      /\ sl'.queryEnd = sl.queryEnd /\ sl'.step = sl.step /\ sl'.lastId = sl.lastId
      /\ sl'.lastStart = sl.lastStart /\ sl'.lastEnd = sl.lastEnd
  BY <1>1 DEF SessionRecord
<1>4. SessionOK'
  BY <1>1, <1>2, <1>3 DEF SessionOK, Streaming, RowStart, Nothing
<1>5. QueueInOrder' /\ PagesInOrder' /\ Complete' /\ InPages' = InPages
  BY <1>2, <1>3, KeepsQueue DEF HistoryInv, InOrder
<1>6. RingInOrder'
  BY <1>2, <1>3, <1>5
  DEF HistoryInv, InOrder, RingInOrder, Streaming, Waits, Ring!RingIdNext, CameLate, DataEnd
<1> QED
  BY <1>2, <1>4, <1>5, <1>6 DEF HistoryInv, InOrder

\* The id a DATA command asks for is a ulong.
LEMMA StartPacketType ==
  ASSUME RP!TypeOK, NEW seq \in SeqNumbers
  PROVE  StartPacket(seq) \in 0 .. RP!RingIdError
<1>1. /\ seq \in Nat /\ SeqModulus \in Nat \ {0} /\ RingIdMaximum \in Nat \ {0}
      /\ \A id \in 0 .. RingIdMaximum : SeqModulus * (id \div SeqModulus) + seq
                                        \in seq .. RingIdMaximum + 5
  BY HistoryAssumption DEF HistoryAssumption
<1>2. latest.id \in 0 .. RP!RingIdError /\ RP!RingIdError = RingIdMaximum + 5
  BY DEF RP!TypeOK, RP!PacketSummary, RP!RingIdError
<1>3. latest.id <= RingIdMaximum =>
        SeqModulus * (latest.id \div SeqModulus) + seq \in 0 .. RingIdMaximum + 5
  BY <1>1, <1>2
<1>4. seq \in 0 .. RingIdMaximum + 5
  <2>1. SeqModulus * (0 \div SeqModulus) + seq \in seq .. RingIdMaximum + 5
    BY <1>1
  <2>2. seq <= RingIdMaximum + 5
    <3> DEFINE v == SeqModulus * (0 \div SeqModulus) + seq
    <3>1. v \in seq .. RingIdMaximum + 5
      BY <2>1
    <3> HIDE DEF v
    <3> QED
      BY <1>1, <3>1
  <2> QED
    BY <1>1, <2>2
<1> DEFINE id == IF latest.id <= RingIdMaximum
                 THEN SeqModulus * (latest.id \div SeqModulus) + seq ELSE seq
<1>5. id \in 0 .. RingIdMaximum + 5
  BY <1>3, <1>4
<1>6. StartPacket(seq) = IF 0 < id /\ id < RingIdMaximum THEN id - 1 ELSE id
  BY DEF StartPacket
<1> HIDE DEF id
<1> QED
  BY <1>1, <1>2, <1>5, <1>6

LEMMA StepData == HistoryInv /\ HandleData => HistoryInv'
<1> SUFFICES ASSUME HistoryInv, HandleData PROVE HistoryInv'
  OBVIOUS
<1>1. /\ RingOK /\ ArchiveOK /\ RecordOK /\ SessionOK /\ RP!TypeOK /\ sl \in SessionRecord
      /\ QueueInOrder /\ PagesInOrder /\ RingInOrder /\ Complete
  BY DEF HistoryInv, RingOK, SessionOK, InOrder
<1>2. PICK id \in {Ring!RingIdEarliest, Waits} \cup {StartPacket(q) : q \in SeqNumbers} :
        SetReader([reader[Client] EXCEPT !.id = id])
  BY DEF HandleData
<1> DEFINE rd == [reader[Client] EXCEPT !.id = id]
<1>3. id \in 0 .. RP!RingIdError
  <2>1. RP!RingIdEarliest \in 0 .. RP!RingIdError /\ RP!RingIdNext \in 0 .. RP!RingIdError
    BY HistoryAssumption
    DEF HistoryAssumption, RP!RingIdEarliest, RP!RingIdNext, RP!RingIdError
  <2> QED
    BY <1>1, <1>2, <2>1, RingNames, StartPacketType
<1>4. reader[Client] \in RP!ReaderRecord
  BY <1>1, ReaderTypes
<1>5. Stands(rd) /\ rd.off = reader[Client].off /\ rd.sn = reader[Client].sn
  BY <1>3, <1>4 DEF Stands, RP!ReaderRecord
<1> HIDE DEF rd
<1>6. RingOK' /\ reader'[Client] = rd /\ UNCHANGED <<slot, writes, latest>>
  BY <1>1, <1>2, <1>5, RingSet DEF rd
<1>7. /\ UNCHANGED <<archiveVars, record>> /\ Between
      /\ sl' = IF sl.station THEN sl ELSE [sl EXCEPT !.state = "stream"]
      /\ IF Streaming /\ reader[Client].off < 0 /\ sl.queue = <<>>
         THEN sent' = Nothing /\ amiss' = {} /\ promised' = [promised EXCEPT !.rows = {}]
         ELSE UNCHANGED <<sent, promised, amiss>>
  BY DEF HandleData
<1>8. /\ ArchiveOK' /\ RecordOK' /\ UNCHANGED <<db, record, writes>>
      /\ SessionRecord' = SessionRecord
  BY <1>1, <1>6, <1>7, RestStays DEF Rest
<1>9. /\ sl' \in SessionRecord /\ sl'.state \in {sl.state, "stream"} /\ sl'.queue = sl.queue
      /\ sl'.rows = sl.rows /\ sl'.queryEnd = sl.queryEnd /\ sl'.step = "loop"
      /\ sl.step = "loop" /\ sl'.lastId = sl.lastId
  BY <1>1, <1>7 DEF SessionRecord, Between
<1>10. CASE Streaming /\ reader[Client].off < 0 /\ sl.queue = <<>>
  <2>1. /\ sent' = Nothing /\ amiss' = {} /\ promised'.rows = {}
        /\ promised' \in [rows : SUBSET DOMAIN db, cut : DOMAIN db \cup {0}]
    BY <1>1, <1>7, <1>10 DEF SessionOK
  <2>2. SessionOK'
    BY <1>8, <1>9, <1>10, <2>1 DEF SessionOK, Nothing
  <2>3. QueueInOrder' /\ PagesInOrder' /\ RingInOrder' /\ Complete'
    BY <1>9, <1>10, <2>1, SentNothing
  <2> QED
    BY <1>6, <1>8, <2>2, <2>3 DEF HistoryInv, InOrder
<1>11. CASE ~(Streaming /\ reader[Client].off < 0 /\ sl.queue = <<>>)
  <2>1. UNCHANGED <<sent, promised, amiss>>
    BY <1>7, <1>11
  <2>2. ~Streaming' => ~Streaming
    BY <1>7, <1>9 DEF Streaming
  <2>3. SessionOK'
    BY <1>1, <1>8, <1>9, <2>1, <2>2 DEF SessionOK, Nothing
  <2>4. QueueInOrder' /\ PagesInOrder' /\ Complete' /\ InPages' = InPages
    BY <1>1, <1>8, <1>9, <2>1, KeepsQueue
  <2>5. RingInOrder'
    <3>1. CASE ~Streaming
      BY <1>1, <2>1, <3>1, SentNothing DEF SessionOK, Nothing
    <3>2. CASE Streaming /\ ~InPages
      <4>1. ~(reader[Client].off < 0)
        BY <1>11, <3>2 DEF InPages
      <4>2. \A n : CameLate(n)' = CameLate(n)
        BY <1>8 DEF CameLate, DataEnd
      <4> QED
        BY <1>1, <1>5, <1>6, <1>8, <2>1, <3>2, <4>1, <4>2 DEF RingInOrder
    <3>3. CASE InPages
      BY <2>4, <3>3 DEF RingInOrder
    <3> QED
      BY <3>1, <3>2, <3>3
  <2> QED
    BY <1>6, <1>8, <2>3, <2>4, <2>5 DEF HistoryInv, InOrder
<1> QED
  BY <1>10, <1>11

\* The first query of a session: the rows it finds are queued and promised.
LEMMA StepPrefetch ==
  ASSUME RingOK', ArchiveOK, RecordOK, SessionOK, QueueInOrder, PagesInOrder, Rest, Between,
         NEW rows \in SUBSET Streams, NEW from \in Nat, NEW end \in Nat \cup {Unset},
         Prefetch(rows, from, end), sent' = Nothing
  PROVE  HistoryInv'
<1>1. /\ ArchiveOK' /\ RecordOK' /\ UNCHANGED <<db, record, writes>>
      /\ SessionRecord' = SessionRecord
  BY RestStays
<1>2. PICK ask, to, S :
        /\ ask = [sl EXCEPT !.state = "stream", !.start = from, !.end = end, !.rows = rows]
        /\ to = IF end = Unset THEN Now ELSE end
        /\ S = RowsBetween(rows, from, to)
  OBVIOUS
<1>3. sl \in SessionRecord /\ to \in Nat
  BY <1>2, NowType DEF SessionOK
<1>4. S \in SUBSET DOMAIN db /\ \A x \in S : record[db[x]].stream \in rows /\ RowStart(x) <= to
  BY <1>2 DEF RowsBetween
<1>5. \/ /\ \E q \in QueryByTime(rows, from, to) :
              /\ sl' = IF q = <<>> THEN ask ELSE [ask EXCEPT !.queue = q, !.queryEnd = to]
              /\ promised' = [rows |-> S, cut |-> IF q = <<>> THEN promised.cut ELSE q[Len(q)]]
         /\ amiss' = {}
      \/ sl' = ask /\ promised' = [promised EXCEPT !.rows = {}] /\ amiss' = {"query"}
  BY <1>2 DEF Prefetch
<1>6. /\ ask \in SessionRecord /\ ask.state = "stream" /\ ask.queue = sl.queue
      /\ ask.rows = rows /\ ask.step = "loop" /\ ask.lastId = sl.lastId /\ sl.step = "loop"
  BY <1>2, <1>3 DEF SessionRecord, Between
<1>7. RingInOrder' /\ \A r \in sent.rows' : FALSE
  BY SentNothing
<1>8. /\ sent' \in [rows : SUBSET DOMAIN db, packets : SUBSET (1 .. writes)]
      /\ amiss' \in SUBSET {"query", "burst"}
      /\ promised \in [rows : SUBSET DOMAIN db, cut : DOMAIN db \cup {0}]
  BY <1>5 DEF Nothing, SessionOK
\* The queue stays as it is and nothing is promised.
<1>9. CASE /\ sl' = ask /\ promised'.rows = {} /\ promised'.cut = promised.cut
           /\ promised' \in [rows : SUBSET DOMAIN db, cut : DOMAIN db \cup {0}]
  <2>1. SessionOK'
    BY <1>1, <1>6, <1>8, <1>9 DEF SessionOK, Streaming
  <2>2. /\ Queued' = Queued /\ PageEnd' = PageEnd /\ InPages' = InPages
        /\ \A i : RowStart(i)' = RowStart(i)
    BY <1>1, <1>6, <1>9 DEF Queued, PageEnd, InPages, RowStart
  <2>3. /\ \A i : Repeated(i)' = Repeated(i)
        /\ \A i, j : Lex(i, j)' = Lex(i, j)
    BY <1>9, <2>2 DEF TiedWithCut, Repeated, Lex
  <2>4. QueueInOrder'
    BY <1>6, <1>7, <1>9, <2>2 DEF QueueInOrder
  <2>5. PagesInOrder'
    BY <1>7, <2>2, <2>3 DEF PagesInOrder, Nothing
  <2>6. Complete'
    BY <1>9 DEF Complete
  <2> QED
    BY <1>1, <1>7, <2>1, <2>4, <2>5, <2>6 DEF HistoryInv, InOrder
\* The rows are queued and promised.
<1>10. ASSUME NEW q \in QueryByTime(rows, from, to), q # <<>>,
              sl' = [ask EXCEPT !.queue = q, !.queryEnd = to],
              promised' = [rows |-> S, cut |-> q[Len(q)]]
       PROVE  HistoryInv'
  <2>1. PageOf(S, q) /\ ByTime(S, q)
    BY <1>2, QueryPages
  <2>2. /\ q \in Seq(DOMAIN db) /\ \A j \in DOMAIN q : q[j] \in S
        /\ Len(q) \in DOMAIN q /\ DOMAIN q = 1 .. Len(q) /\ Len(q) \in Nat
    BY <1>4, <1>10, <2>1, PageFacts, SequenceFacts
  <2>3. /\ \A i, j \in DOMAIN q : i < j => RowStart(q[i]) <= RowStart(q[j]) /\ q[i] # q[j]
        /\ \A x \in S : \/ \E j \in DOMAIN q : q[j] = x
                        \/ x # q[Len(q)] /\ RowStart(q[Len(q)]) <= RowStart(x)
    BY <1>4, <2>1, FirstPage
  <2>4. /\ sl' \in SessionRecord /\ sl'.state = "stream" /\ sl'.step = "loop"
        /\ sl'.queue = q /\ sl'.rows = rows /\ sl'.queryEnd = to
    BY <1>3, <1>6, <1>10, <2>2 DEF SessionRecord
  <2>5. PICK c : c = q[Len(q)]
    OBVIOUS
  <2>6. /\ c \in DOMAIN db /\ c # 0 /\ promised'.cut = c /\ promised'.rows = S
        /\ \A x \in S : RowStart(x) \in Nat /\ x \in Nat \ {0}
        /\ RowStart(c) \in Nat /\ c \in Nat
    BY <1>4, <1>10, <2>2, <2>5, RowTimes
  <2>7. SessionOK'
    BY <1>1, <1>4, <1>8, <1>10, <2>4, <2>5, <2>6 DEF SessionOK, Streaming
  <2>8. /\ PageEnd' = c /\ Queued' = {q[j] : j \in DOMAIN q}
        /\ \A i : RowStart(i)' = RowStart(i)
    BY <1>1, <1>10, <2>4, <2>5 DEF PageEnd, Queued, RowStart
  <2>9. QueueInOrder'
    BY <1>7, <2>3, <2>4, <2>8 DEF QueueInOrder
  <2>10. \A x \in Queued' : RowStart(x)' <= RowStart(c)' /\ x \in S
    BY <2>2, <2>3, <2>5, <2>6, <2>8
  <2>11. \A i : TiedWithCut(i)' <=> RowStart(i) = RowStart(c)
    BY <2>6, <2>8 DEF TiedWithCut
  <2>12. \A i : Repeated(i)' <=> RowStart(i) = RowStart(c) /\ i > c
    BY <2>6, <2>11 DEF Repeated
  <2>13. PagesInOrder'
    <3>1. \A x \in Queued' : Lex(c, x)' => Repeated(x)'
      BY <2>6, <2>8, <2>10, <2>12 DEF Lex
    <3> QED
      BY <1>7, <2>8, <2>10, <3>1 DEF PagesInOrder, Nothing
  <2>14. Complete'
    <3>1. ASSUME NEW x \in S PROVE Done(x)' \/ ToCome(x)'
      <4>1. CASE \E j \in DOMAIN q : q[j] = x
        BY <1>1, <1>4, <1>10, <2>4, <2>8, <4>1 DEF ToCome
      <4>2. CASE x # c /\ RowStart(c) <= RowStart(x)
        <5>1. CASE RowStart(x) = RowStart(c) /\ x < c
          BY <2>6, <2>11, <5>1 DEF Done
        <5>2. CASE RowStart(c) < RowStart(x) \/ (RowStart(c) = RowStart(x) /\ c < x)
          <6>1. Lex(c, x)'
            BY <2>8, <5>2 DEF Lex
          <6> QED
            BY <1>1, <1>4, <1>10, <2>4, <2>8, <6>1 DEF ToCome
        <5> QED
          BY <2>6, <4>2, <5>1, <5>2
      <4> QED
        BY <2>3, <2>5, <4>1, <4>2
    <3> QED
      BY <2>6, <3>1 DEF Complete
  <2> QED
    BY <1>1, <1>7, <2>7, <2>9, <2>13, <2>14 DEF HistoryInv, InOrder
<1>11. CASE sl' = ask /\ promised' = [promised EXCEPT !.rows = {}]
  <2>1. /\ promised'.rows = {} /\ promised'.cut = promised.cut
        /\ promised' \in [rows : SUBSET DOMAIN db, cut : DOMAIN db \cup {0}]
    BY <1>8, <1>11
  <2> QED
    BY <1>9, <1>11, <2>1
<1>12. ASSUME NEW q \in QueryByTime(rows, from, to), q = <<>>, sl' = ask,
              promised' = [rows |-> S, cut |-> promised.cut]
       PROVE  HistoryInv'
  <2>1. PageOf(S, q)
    BY <1>2, QueryPages
  <2>2. S = {}
    BY <1>4, <1>12, <2>1, PageFacts
  <2>3. /\ promised'.rows = {} /\ promised'.cut = promised.cut
        /\ promised' \in [rows : SUBSET DOMAIN db, cut : DOMAIN db \cup {0}]
    BY <1>8, <1>12, <2>2
  <2> QED
    BY <1>9, <1>12, <2>3
<1>13. CASE \E q \in QueryByTime(rows, from, to) :
              /\ sl' = IF q = <<>> THEN ask ELSE [ask EXCEPT !.queue = q, !.queryEnd = to]
              /\ promised' = [rows |-> S, cut |-> IF q = <<>> THEN promised.cut ELSE q[Len(q)]]
  <2>1. PICK q \in QueryByTime(rows, from, to) :
          /\ sl' = IF q = <<>> THEN ask ELSE [ask EXCEPT !.queue = q, !.queryEnd = to]
          /\ promised' = [rows |-> S, cut |-> IF q = <<>> THEN promised.cut ELSE q[Len(q)]]
    BY <1>13
  <2>2. CASE q = <<>>
    BY <1>12, <2>1, <2>2
  <2>3. CASE q # <<>>
    BY <1>10, <2>1, <2>3
  <2> QED
    BY <2>2, <2>3
<1> QED
  BY <1>5, <1>11, <1>13

LEMMA ReadersStand ==
  ASSUME RP!TypeOK
  PROVE  /\ Stands(reader[Client])
         /\ \A rd : Stands(rd) => Stands([rd EXCEPT !.id = Waits])
         /\ \A rd, o : Stands(rd) /\ o \in RP!Offsets \cup {-1} => Stands(PlacedOr(o, rd))
<1>1. reader[Client] \in RP!ReaderRecord
  BY ReaderTypes
<1>2. Stands(reader[Client])
  BY <1>1 DEF Stands
<1>3. ASSUME NEW rd, Stands(rd) PROVE Stands([rd EXCEPT !.id = Waits])
  <2>1. Waits \in 0 .. RP!RingIdError
    BY RingNames, HistoryAssumption DEF HistoryAssumption, RP!RingIdNext, RP!RingIdError
  <2> QED
    BY <1>3, <2>1 DEF Stands, RP!ReaderRecord
<1>4. ASSUME NEW rd, NEW o \in RP!Offsets \cup {-1}, Stands(rd) PROVE Stands(PlacedOr(o, rd))
  <2>1. CASE o \in RP!Offsets
    BY <2>1, PlacedStands, RingPlaces, ReaderTypes DEF PlacedOr
  <2>2. CASE o = -1
    BY <1>4, <2>2 DEF PlacedOr
  <2> QED
    BY <2>1, <2>2
<1> QED
  BY <1>2, <1>3, <1>4

\* TIME without STATION.
LEMMA StepTimeAll ==
  ASSUME HistoryInv, NEW t \in RequestTimes, NEW e \in EndTimes \cup {Unset},
         HandleTimeAll(t, e)
  PROVE  HistoryInv'
<1>1. /\ RingOK /\ ArchiveOK /\ RecordOK /\ SessionOK /\ RP!TypeOK /\ sl \in SessionRecord
      /\ QueueInOrder /\ PagesInOrder
  BY DEF HistoryInv, RingOK, SessionOK, InOrder
<1> DEFINE rd == PlacedOr(Ring!AfterOffset(t, 0), reader[Client])
           end == IF e # Unset THEN e ELSE sl.end
<1>2. /\ Between /\ Prefetch(Streams, Earlier(t), end) /\ SetReader(rd) /\ sent' = Nothing
      /\ UNCHANGED <<archiveVars, record>>
  BY DEF HandleTimeAll
<1>3. Stands(rd)
  BY <1>1, RingFinds, ReadersStand
<1> HIDE DEF rd
<1>4. RingOK' /\ Rest
  BY <1>1, <1>2, <1>3, RingSet DEF Rest
<1>5. Earlier(t) \in Nat /\ end \in Nat \cup {Unset}
  BY <1>1, HistoryAssumption DEF HistoryAssumption, Earlier, SessionRecord
<1> HIDE DEF end
<1> QED
  BY <1>1, <1>2, <1>4, <1>5, StepPrefetch

LEMMA StepEnd == HistoryInv /\ HandleEnd => HistoryInv'
<1> SUFFICES ASSUME HistoryInv, HandleEnd PROVE HistoryInv'
  OBVIOUS
<1>1. /\ RingOK /\ ArchiveOK /\ RecordOK /\ SessionOK /\ RP!TypeOK /\ sl \in SessionRecord
      /\ QueueInOrder /\ PagesInOrder
  BY DEF HistoryInv, RingOK, SessionOK, InOrder
<1> DEFINE rd1 == ByPacketId(reader[Client])
           rd2 == IF rd1.off < 0 /\ sl.start # Unset
                  THEN PlacedOr(Ring!AfterOffset(sl.start, 0), rd1) ELSE rd1
           from == IF sl.start = Unset /\ rd2.id = Ring!RingIdEarliest THEN 0 ELSE sl.start
           rd == IF rd2.id = Ring!RingIdNone THEN [rd2 EXCEPT !.id = Waits] ELSE rd2
<1>2. /\ EndAccepted /\ SetReader(rd) /\ UNCHANGED <<archiveVars, record, sent>>
      /\ IF from = Unset
         THEN sl' = [sl EXCEPT !.state = "stream"] /\ UNCHANGED <<promised, amiss>>
         ELSE Prefetch(IF sl.station THEN Selected ELSE Streams, from, sl.end)
  BY DEF HandleEnd
<1>3. sl.start \in Nat \cup {Unset} /\ sl.end \in Nat \cup {Unset}
  BY <1>1 DEF SessionRecord
<1>4. from = Unset \/ from \in Nat
  BY <1>3
<1>5. Stands(rd)
  <2>1. Stands(rd1)
    BY <1>1, RingFinds, ReadersStand DEF ByPacketId
  <2> HIDE DEF rd1
  <2>2. Stands(rd2)
    BY <1>1, <2>1, RingFinds, ReadersStand
  <2> HIDE DEF rd2
  <2> QED
    BY <1>1, <2>2, ReadersStand
<1> HIDE DEF from, rd
<1>6. RingOK' /\ Rest
  BY <1>1, <1>2, <1>5, RingSet DEF Rest
<1>7. ~Streaming /\ sl.step = "loop" /\ Between
  BY <1>1, <1>2 DEF EndAccepted, Between
<1>8. sl.queue = <<>> /\ sent = Nothing /\ promised.rows = {} /\ sent' = Nothing
  BY <1>1, <1>2, <1>7 DEF SessionOK
<1>9. CASE from = Unset
  <2>1. /\ ArchiveOK' /\ RecordOK' /\ UNCHANGED <<db, record, writes>>
        /\ SessionRecord' = SessionRecord
    BY <1>1, <1>6, RestStays
  <2>2. /\ sl' \in SessionRecord /\ sl'.queue = <<>> /\ sl'.step = "loop" /\ sl'.state = "stream"
        /\ promised'.rows = {} /\ UNCHANGED <<promised, amiss>>
    BY <1>1, <1>2, <1>7, <1>8, <1>9 DEF SessionRecord
  <2>3. SessionOK'
    BY <1>1, <1>2, <2>1, <2>2 DEF SessionOK, Streaming
  <2>4. QueueInOrder' /\ PagesInOrder' /\ RingInOrder' /\ Complete'
    BY <1>8, <2>2, SentNothing
  <2> QED
    BY <1>6, <2>1, <2>3, <2>4 DEF HistoryInv, InOrder
<1>10. CASE from \in Nat /\ from # Unset
  <2>1. (IF sl.station THEN Selected ELSE Streams) \in SUBSET Streams
    BY HistoryAssumption DEF HistoryAssumption
  <2> QED
    BY <1>1, <1>2, <1>3, <1>6, <1>7, <1>8, <1>10, <2>1, StepPrefetch
<1> QED
  BY <1>4, <1>9, <1>10

LEMMA TailFacts ==
  ASSUME NEW T, NEW s \in Seq(T), s # <<>>
  PROVE  /\ Head(s) = s[1] /\ 1 \in DOMAIN s /\ Len(s) \in Nat \ {0}
         /\ Tail(s) \in Seq(T) /\ DOMAIN Tail(s) = 1 .. Len(s) - 1
         /\ Len(Tail(s)) = Len(s) - 1
         /\ \A j \in 1 .. Len(s) - 1 : Tail(s)[j] = s[j + 1] /\ j + 1 \in DOMAIN s
         /\ Tail(s) = <<>> <=> Len(s) = 1
<1>1. Len(s) \in Nat \ {0} /\ DOMAIN s = 1 .. Len(s) /\ Head(s) = s[1]
  BY EmptySeq
<1>2. Tail(s) \in Seq(T) /\ Len(Tail(s)) = Len(s) - 1
  BY HeadTailProperties
<1>3. \A j \in 1 .. Len(s) - 1 : Tail(s)[j] = s[j + 1]
  OBVIOUS
<1>4. Tail(s) = <<>> <=> Len(Tail(s)) = 0
  BY <1>2, EmptySeq
<1>5. DOMAIN Tail(s) = 1 .. Len(s) - 1
  BY <1>2
<1> QED
  BY <1>1, <1>2, <1>3, <1>4, <1>5

LEMMA StepSendRecord == HistoryInv /\ SendDbRecord => HistoryInv'
<1> SUFFICES ASSUME HistoryInv, SendDbRecord PROVE HistoryInv'
  OBVIOUS
<1>1. /\ ArchiveOK /\ RecordOK /\ SessionOK /\ sl \in SessionRecord
      /\ QueueInOrder /\ PagesInOrder /\ Complete
  BY DEF HistoryInv, SessionOK, InOrder
<1>2. PICK Q, R, i, t : Q = sl.queue /\ R = Tail(Q) /\ i = Head(Q) /\ t = RowStart(i)
  OBVIOUS
<1>3. /\ Streaming /\ sl.step = "loop" /\ Q # <<>>
      /\ UNCHANGED <<ringVars, archiveVars, record>> /\ UNCHANGED promised
  BY <1>2 DEF SendDbRecord
\* The record is sent, or its burst aborted.
<1>4. PICK step \in {"loop", "exhausted"} :
        /\ sl' = [sl EXCEPT !.queue = R, !.lastId = i, !.lastStart = t,
                            !.lastEnd = t + DataLength, !.step = step]
        /\ \/ /\ step = IF Len(Q) = 1 THEN "exhausted" ELSE "loop"
              /\ sent' = [sent EXCEPT !.rows = @ \cup {i}] /\ amiss' = amiss
           \/ /\ ~HasData(i) /\ step = "loop" /\ sent' = sent
              /\ amiss' = IF Len(Q) = 1 THEN amiss \cup {"burst"} ELSE amiss
  <2>1. Dequeued(i) = [sl EXCEPT !.queue = R, !.lastId = i, !.lastStart = t,
                                 !.lastEnd = t + DataLength]
    BY <1>2 DEF Dequeued, DataEnd, RowStart
  <2>2. CASE HasData(i)
    <3>1. sl' = [Dequeued(i) EXCEPT !.step = IF Len(Q) = 1 THEN "exhausted" ELSE "loop"]
      BY <1>2, <2>2 DEF SendDbRecord
    <3>2. sent' = [sent EXCEPT !.rows = @ \cup {i}] /\ amiss' = amiss
      BY <1>2, <2>2 DEF SendDbRecord
    <3> QED
      BY <1>1, <2>1, <3>1, <3>2
  <2>3. CASE ~HasData(i)
    <3>1. /\ sl' = Dequeued(i) /\ sent' = sent
          /\ amiss' = IF Len(Q) = 1 THEN amiss \cup {"burst"} ELSE amiss
      BY <1>2, <2>3 DEF SendDbRecord
    <3>2. sl' = [sl EXCEPT !.queue = R, !.lastId = i, !.lastStart = t,
                           !.lastEnd = t + DataLength, !.step = "loop"]
      BY <1>1, <1>3, <2>1, <3>1 DEF SessionRecord
    <3> QED
      BY <2>3, <3>1, <3>2
  <2> QED
    BY <2>2, <2>3
<1>5. /\ RingOK' /\ ArchiveOK' /\ RecordOK' /\ UNCHANGED <<db, record, writes, reader>>
      /\ SessionRecord' = SessionRecord
  BY <1>3, RingRests
<1>6. /\ Q \in Seq(DOMAIN db) /\ DOMAIN Q = 1 .. Len(Q) /\ Len(Q) \in Nat \ {0}
      /\ \A j \in DOMAIN Q : Q[j] \in DOMAIN db
      /\ i = Q[1] /\ 1 \in DOMAIN Q /\ i \in DOMAIN db /\ Len(Q) \in DOMAIN Q
  <2>1. /\ Q \in Seq(DOMAIN db) /\ DOMAIN Q = 1 .. Len(Q)
        /\ \A j \in DOMAIN Q : Q[j] \in DOMAIN db
    BY <1>1, <1>2, SessionFacts
  <2>2. i = Q[1] /\ 1 \in DOMAIN Q /\ Len(Q) \in Nat \ {0}
    BY <1>2, <1>3, <2>1, TailFacts
  <2> QED
    BY <2>1, <2>2
<1>7. /\ R \in Seq(DOMAIN db) /\ DOMAIN R = 1 .. Len(Q) - 1 /\ Len(R) = Len(Q) - 1
      /\ \A j \in 1 .. Len(Q) - 1 : R[j] = Q[j + 1] /\ j + 1 \in DOMAIN Q
      /\ R = <<>> <=> Len(Q) = 1
  BY <1>2, <1>3, <1>6, TailFacts
<1>8. t \in Nat /\ i \in Nat \ {0} /\ DataLength \in Nat /\ t + DataLength \in Nat
  BY <1>1, <1>2, <1>6, RowTimes, HistoryAssumption DEF HistoryAssumption
<1>9. /\ sl' \in SessionRecord /\ sl'.state = sl.state /\ sl'.queue = R /\ sl'.lastId = i
      /\ sl'.lastStart = t /\ sl'.lastEnd = t + DataLength /\ sl'.step = step
      /\ sl'.rows = sl.rows /\ sl'.queryEnd = sl.queryEnd
  BY <1>1, <1>4, <1>7, <1>8 DEF SessionRecord
<1>10. /\ step # "loop" => R = <<>>
       /\ R = <<>> /\ step = "loop" => amiss' = amiss \cup {"burst"}
       /\ amiss' = {} => amiss = {}
       /\ amiss' \in SUBSET {"query", "burst"}
  BY <1>1, <1>4, <1>7 DEF SessionOK
<1>11. /\ sent' \in [rows : SUBSET DOMAIN db, packets : SUBSET (1 .. writes)]
       /\ sent.rows \subseteq sent'.rows /\ sent'.rows \subseteq sent.rows \cup {i}
       /\ sent'.packets = sent.packets /\ (i \in sent'.rows \/ ~HasData(i))
  BY <1>1, <1>4, <1>6 DEF SessionOK
<1>12. SessionOK'
  <2>1. sl'.state = "stream" /\ Streaming'
    BY <1>3, <1>9 DEF Streaming
  <2>2. RowStart(i)' = t
    BY <1>2, <1>5 DEF RowStart
  <2> QED
    BY <1>1, <1>3, <1>5, <1>6, <1>9, <1>10, <1>11, <2>1, <2>2 DEF SessionOK, RowStart
<1>13. /\ \A x : RowStart(x)' = RowStart(x) /\ HasData(x)' = HasData(x)
       /\ \A x : TiedWithCut(x)' = TiedWithCut(x) /\ Repeated(x)' = Repeated(x)
       /\ \A x, y : Lex(x, y)' = Lex(x, y)
  <2>1. \A x : RowStart(x)' = RowStart(x) /\ HasData(x)' = HasData(x)
    BY <1>5 DEF RowStart, HasData
  <2> QED
    BY <1>3, <2>1 DEF TiedWithCut, Repeated, Lex
<1>14. InPages /\ PageEnd' = PageEnd /\ PageEnd = Q[Len(Q)]
  <2>1. PageEnd = Q[Len(Q)] /\ InPages
    BY <1>2, <1>3 DEF PageEnd, InPages
  <2>2. CASE R = <<>>
    BY <1>6, <1>7, <1>9, <2>1, <2>2 DEF PageEnd
  <2>3. CASE R # <<>>
    <3>1. Len(R) \in 1 .. Len(Q) - 1
      BY <1>6, <1>7, <2>3
    <3>2. R[Len(R)] = Q[Len(Q)]
      BY <1>6, <1>7, <3>1
    <3> QED
      BY <1>9, <2>1, <2>3, <3>2 DEF PageEnd
  <2> QED
    BY <2>1, <2>2, <2>3
<1>15. \A j \in DOMAIN R : R[j] = Q[j + 1] /\ j + 1 \in DOMAIN Q /\ j \in Nat /\ 1 < j + 1
  BY <1>6, <1>7
<1>16. /\ Queued = {Q[j] : j \in DOMAIN Q} /\ Queued' = {R[j] : j \in DOMAIN R}
       /\ Queued' \subseteq Queued /\ i \in Queued
       /\ \A x \in Queued : x = i \/ x \in Queued'
  <2>1. Queued = {Q[j] : j \in DOMAIN Q} /\ Queued' = {R[j] : j \in DOMAIN R}
    BY <1>2, <1>9 DEF Queued
  <2>2. ASSUME NEW j \in DOMAIN Q, j # 1 PROVE \E k \in DOMAIN R : R[k] = Q[j]
    <3>1. j - 1 \in DOMAIN R /\ R[j - 1] = Q[j]
      BY <1>6, <1>7, <2>2
    <3> QED
      BY <3>1
  <2> QED
    BY <1>6, <1>15, <2>1, <2>2
<1>17. QueueInOrder'
  <2>1. /\ \A j, k \in DOMAIN Q : j < k => RowStart(Q[j]) <= RowStart(Q[k]) /\ Q[j] # Q[k]
        /\ \A r \in sent.rows, j \in DOMAIN Q :
             RowStart(r) <= RowStart(Q[j]) /\ (r = Q[j] => Repeated(r))
    BY <1>1, <1>2 DEF QueueInOrder
  <2>2. \A j, k \in DOMAIN R : j < k => RowStart(R[j]) <= RowStart(R[k]) /\ R[j] # R[k]
    BY <1>15, <2>1
  <2>3. \A j \in DOMAIN R : RowStart(i) <= RowStart(R[j]) /\ i # R[j]
    BY <1>6, <1>15, <2>1
  <2>4. \A r \in sent.rows, j \in DOMAIN R :
          RowStart(r) <= RowStart(R[j]) /\ (r = R[j] => Repeated(r))
    BY <1>15, <2>1
  <2> QED
    BY <1>9, <1>11, <1>13, <2>2, <2>3, <2>4 DEF QueueInOrder
<1>18. /\ sent.packets = {}
       /\ \A x \in sent'.rows \cup Queued' :
            RowStart(x) <= RowStart(PageEnd) /\ (Lex(PageEnd, x) => Repeated(x))
  BY <1>1, <1>11, <1>14, <1>16 DEF PagesInOrder
<1>19. PagesInOrder'
  BY <1>11, <1>13, <1>14, <1>18 DEF PagesInOrder
<1>20. RingInOrder'
  <2>1. ~InPages' => R = <<>> /\ step = "loop"
    BY <1>9 DEF InPages
  <2> QED
    BY <1>10, <1>11, <1>18, <2>1 DEF RingInOrder
<1>21. Complete'
  <2> SUFFICES ASSUME amiss' = {}, NEW x \in promised.rows PROVE Done(x)' \/ ToCome(x)'
    BY <1>3 DEF Complete
  <2>1. Done(x) \/ ToCome(x)
    BY <1>1, <1>10 DEF Complete
  <2>2. CASE Done(x)
    BY <1>3, <1>9, <1>11, <1>13, <2>2 DEF Done
  <2>3. CASE x = i
    BY <1>11, <1>13, <2>3 DEF Done
  <2>4. CASE ToCome(x) /\ x # i
    <3>1. /\ record[db[x]].stream \in sl.rows /\ RowStart(x) <= sl.queryEnd
          /\ x \in Queued \/ Lex(PageEnd, x)
      BY <1>2, <1>3, <2>4 DEF ToCome
    <3>2. CASE R = <<>>
      <4>1. Queued' = {} /\ step = "exhausted"
        BY <1>7, <1>10, <1>16, <3>2
      <4>2. Lex(PageEnd, x)
        BY <1>16, <2>4, <3>1, <4>1
      <4> QED
        BY <1>5, <1>9, <1>13, <1>14, <3>1, <3>2, <4>1, <4>2 DEF ToCome
    <3>3. CASE R # <<>>
      BY <1>5, <1>9, <1>13, <1>14, <1>16, <2>4, <3>1, <3>3 DEF ToCome
    <3> QED
      BY <3>2, <3>3
  <2> QED
    BY <2>1, <2>2, <2>3, <2>4
<1> QED
  BY <1>5, <1>12, <1>17, <1>19, <1>20, <1>21 DEF HistoryInv, InOrder

\* A row that is still to come lies behind the cursor, and unless it starts when the
\* query ends another page is asked for.
LEMMA CursorExact ==
  ASSUME ArchiveOK, RecordOK, SessionOK, sl.step = "exhausted"
  PROVE  /\ \A x \in RowsBehind : Lex(sl.lastId, x)
         /\ \A x \in DOMAIN db : ToCome(x) =>
              x \in RowsBehind /\ (MoreExpected \/ RowStart(x) = sl.queryEnd)
<1>1. /\ sl \in SessionRecord /\ sl.queue = <<>> /\ sl.lastId \in DOMAIN db
      /\ sl.lastStart = RowStart(sl.lastId)
  BY DEF SessionOK
<1>2. \A i \in DOMAIN db : RowStart(i) \in Nat /\ i \in Nat \ {0}
  BY RowTimes
<1>3. ASSUME NEW x \in RowsBehind PROVE Lex(sl.lastId, x)
  BY <1>1, <1>2 DEF RowsBehind, RowsBetween, Cursor, Lex
<1>4. ASSUME NEW x \in DOMAIN db, ToCome(x)
      PROVE  x \in RowsBehind /\ (MoreExpected \/ RowStart(x) = sl.queryEnd)
  <2>1. /\ record[db[x]].stream \in sl.rows /\ RowStart(x) <= sl.queryEnd
        /\ Lex(sl.lastId, x)
    BY <1>1, <1>4 DEF ToCome, PageEnd
  <2>2. /\ Cursor(x) /\ sl.lastStart <= RowStart(x)
        /\ RowStart(x) \in Nat /\ sl.lastStart \in Nat
    BY <1>1, <1>2, <2>1 DEF Cursor, Lex
  <2>3. sl.queryEnd # Unset /\ sl.queryEnd \in Nat
    BY <1>1, <2>1, <2>2 DEF SessionRecord, Unset, Ring!Unset
  <2>4. x \in RowsBehind
    BY <2>1, <2>2 DEF RowsBehind, RowsBetween
  <2>5. MoreExpected \/ RowStart(x) = sl.queryEnd
    BY <1>1, <1>2, <2>1, <2>2, <2>3 DEF MoreExpected
  <2> QED
    BY <2>4, <2>5
<1> QED
  BY <1>3, <1>4

\* Start time, then id, is an order.
LEMMA LexFacts ==
  ASSUME ArchiveOK, RecordOK
  PROVE  \A x, y, z \in DOMAIN db :
           /\ Lex(x, y) => RowStart(x) <= RowStart(y) /\ ~Lex(y, x)
           /\ Lex(x, y) /\ Lex(y, z) => Lex(x, z)
<1>1. \A i \in DOMAIN db : RowStart(i) \in Nat /\ i \in Nat
  BY RowTimes
<1> QED
  BY <1>1 DEF Lex

LEMMA StepNextPage == HistoryInv /\ FetchNextPage => HistoryInv'
<1> SUFFICES ASSUME HistoryInv, FetchNextPage PROVE HistoryInv'
  OBVIOUS
<1>1. /\ ArchiveOK /\ RecordOK /\ SessionOK /\ sl \in SessionRecord
      /\ QueueInOrder /\ PagesInOrder /\ Complete /\ amiss \in SUBSET {"query", "burst"}
  BY DEF HistoryInv, SessionOK, InOrder
<1>2. /\ sl.step = "exhausted"
      /\ UNCHANGED <<ringVars, archiveVars, record>> /\ UNCHANGED <<sent, promised>>
  BY DEF FetchNextPage
<1>3. /\ RingOK' /\ ArchiveOK' /\ RecordOK' /\ UNCHANGED <<db, record, writes, reader>>
      /\ SessionRecord' = SessionRecord
  BY <1>2, RingRests
<1>4. /\ sl.queue = <<>> /\ sl.lastId \in DOMAIN db /\ Streaming
      /\ sl.lastStart = RowStart(sl.lastId) /\ sl.lastEnd = sl.lastStart + DataLength
  BY <1>1, <1>2 DEF SessionOK
<1>5. PICK q : /\ sl' = [sl EXCEPT !.queue = q, !.step = IF q = <<>> THEN "reposition" ELSE "loop"]
               /\ \/ q \in QueryByTimePagination /\ amiss' = amiss
                  \/ q = <<>> /\ amiss' = amiss \cup {"query"}
                  \/ q = <<>> /\ ~MoreExpected /\ amiss' = amiss
  <2>1. CASE \E q \in QueryByTimePagination :
               /\ sl' = [sl EXCEPT !.queue = q, !.step = IF q = <<>> THEN "reposition" ELSE "loop"]
               /\ amiss' = amiss
    BY <2>1
  <2>2. CASE /\ sl' = [sl EXCEPT !.step = "reposition"]
             /\ amiss' = amiss \cup {"query"} \/ (~MoreExpected /\ amiss' = amiss)
    <3>1. [sl EXCEPT !.step = "reposition"] = [sl EXCEPT !.queue = <<>>, !.step = "reposition"]
      BY <1>1, <1>4 DEF SessionRecord
    <3> QED
      BY <2>2, <3>1
  <2> QED
    BY <2>1, <2>2 DEF FetchNextPage
<1>6. RowsBehind \in SUBSET DOMAIN db
  BY DEF RowsBehind, RowsBetween
<1>7. q \in QueryByTimePagination =>
        /\ PageOf(RowsBehind, q) /\ ByCursor(RowsBehind, q)
        /\ \A i, j \in DOMAIN q : i < j => Lex(q[i], q[j]) /\ q[i] # q[j]
        /\ \A x \in RowsBehind : \/ \E j \in DOMAIN q : q[j] = x
                                 \/ q # <<>> /\ Lex(q[Len(q)], x)
  BY <1>1, <1>6, NextPages, LaterPage
<1>8. /\ q \in Seq(DOMAIN db) /\ \A j \in DOMAIN q : q[j] \in RowsBehind
      /\ \A i, j \in DOMAIN q : i < j => Lex(q[i], q[j]) /\ q[i] # q[j]
      /\ DOMAIN q = 1 .. Len(q) /\ Len(q) \in Nat /\ (q # <<>> => Len(q) \in DOMAIN q)
  <2>1. CASE q \in QueryByTimePagination
    <3>1. q \in Seq(DOMAIN db) /\ \A j \in DOMAIN q : q[j] \in RowsBehind
      BY <1>6, <1>7, <2>1, PageFacts
    <3> QED
      BY <1>7, <2>1, <3>1, SequenceFacts
  <2>2. CASE q = <<>>
    <3>1. q \in Seq(DOMAIN db) /\ DOMAIN q = {}
      BY <2>2, EmptySeq
    <3> QED
      BY <2>2, <3>1, SequenceFacts
  <2> QED
    BY <1>5, <2>1, <2>2
<1>9. /\ sl' \in SessionRecord /\ sl'.state = sl.state /\ sl'.queue = q
      /\ sl'.lastId = sl.lastId /\ sl'.lastStart = sl.lastStart /\ sl'.lastEnd = sl.lastEnd
      /\ sl'.step = (IF q = <<>> THEN "reposition" ELSE "loop")
      /\ sl'.rows = sl.rows /\ sl'.queryEnd = sl.queryEnd
  BY <1>1, <1>5, <1>8 DEF SessionRecord
<1>10. amiss' \in SUBSET {"query", "burst"} /\ (amiss' = {} => amiss = {})
  BY <1>1, <1>5
<1>11. SessionOK'
  <2>1. sl'.state = "stream" /\ Streaming'
    BY <1>4, <1>9 DEF Streaming
  <2>2. RowStart(sl.lastId)' = sl.lastStart
    BY <1>3, <1>4, <1>9 DEF RowStart
  <2> QED
    BY <1>1, <1>2, <1>3, <1>4, <1>9, <1>10, <2>1, <2>2 DEF SessionOK, RowStart
<1>12. /\ \A x : RowStart(x)' = RowStart(x) /\ HasData(x)' = HasData(x)
       /\ \A x : TiedWithCut(x)' = TiedWithCut(x) /\ Repeated(x)' = Repeated(x)
       /\ \A x, y : Lex(x, y)' = Lex(x, y)
  <2>1. \A x : RowStart(x)' = RowStart(x) /\ HasData(x)' = HasData(x)
    BY <1>3 DEF RowStart, HasData
  <2> QED
    BY <1>2, <2>1 DEF TiedWithCut, Repeated, Lex
<1>13. /\ \A x \in RowsBehind : Lex(sl.lastId, x)
       /\ \A x \in DOMAIN db : ToCome(x) =>
            x \in RowsBehind /\ (MoreExpected \/ RowStart(x) = sl.queryEnd)
  BY <1>1, <1>2, CursorExact
<1>14. /\ sent.packets = {} /\ sent.rows \subseteq DOMAIN db
       /\ \A r \in sent.rows :
            RowStart(r) <= RowStart(sl.lastId) /\ (Lex(sl.lastId, r) => Repeated(r))
  BY <1>1, <1>2, <1>4, SessionFacts DEF PagesInOrder, InPages, PageEnd
<1>15. \A i \in DOMAIN db : RowStart(i) \in Nat
  BY <1>1, RowTimes
<1>16. \A j \in DOMAIN q : q[j] \in DOMAIN db /\ Lex(sl.lastId, q[j])
  BY <1>6, <1>8, <1>13
<1>17. QueueInOrder'
  <2>1. \A i, j \in DOMAIN q : i < j => RowStart(q[i]) <= RowStart(q[j]) /\ q[i] # q[j]
    BY <1>1, <1>8, <1>16, LexFacts
  <2>2. ASSUME NEW r \in sent.rows, NEW j \in DOMAIN q
        PROVE  RowStart(r) <= RowStart(q[j]) /\ (r = q[j] => Repeated(r))
    <3>1. RowStart(sl.lastId) <= RowStart(q[j])
      BY <1>1, <1>4, <1>16, LexFacts
    <3>2. RowStart(r) <= RowStart(sl.lastId) /\ r \in DOMAIN db
      BY <1>14
    <3> QED
      BY <1>4, <1>14, <1>15, <1>16, <3>1, <3>2
  <2> QED
    BY <1>2, <1>9, <1>12, <2>1, <2>2 DEF QueueInOrder
<1>18. PagesInOrder'
  <2>1. CASE q = <<>>
    <3>1. PageEnd' = sl.lastId /\ Queued' = {}
      BY <1>8, <1>9, <2>1, EmptySeq DEF PageEnd, Queued
    <3> QED
      BY <1>2, <1>12, <1>14, <3>1 DEF PagesInOrder
  <2>2. CASE q # <<>>
    <3>1. PICK c : c = q[Len(q)]
      OBVIOUS
    <3>2. /\ PageEnd' = c /\ Queued' = {q[j] : j \in DOMAIN q}
          /\ c \in DOMAIN db /\ Lex(sl.lastId, c)
      BY <1>8, <1>9, <1>16, <2>2, <3>1 DEF PageEnd, Queued
    <3>3. ASSUME NEW x \in sent.rows
          PROVE  RowStart(x) <= RowStart(c) /\ (Lex(c, x) => Repeated(x))
      <4>1. RowStart(sl.lastId) <= RowStart(c) /\ x \in DOMAIN db
        BY <1>1, <1>4, <1>14, <3>2, LexFacts
      <4>2. RowStart(x) <= RowStart(c)
        BY <1>4, <1>14, <1>15, <3>2, <4>1
      <4>3. Lex(c, x) => Lex(sl.lastId, x)
        BY <1>1, <1>4, <3>2, <4>1, LexFacts
      <4> QED
        BY <1>14, <4>2, <4>3
    <3>4. ASSUME NEW j \in DOMAIN q
          PROVE  RowStart(q[j]) <= RowStart(c) /\ ~Lex(c, q[j])
      <4>1. CASE j = Len(q)
        BY <1>15, <3>1, <3>2, <4>1 DEF Lex
      <4>2. CASE j # Len(q)
        <5>1. j < Len(q)
          BY <1>8, <4>2
        <5>2. Lex(q[j], c) /\ q[j] \in DOMAIN db
          BY <1>8, <1>16, <2>2, <3>1, <5>1
        <5> QED
          BY <1>1, <3>2, <5>2, LexFacts
      <4> QED
        BY <4>1, <4>2
    <3> QED
      BY <1>2, <1>12, <1>14, <3>2, <3>3, <3>4 DEF PagesInOrder
  <2> QED
    BY <2>1, <2>2
<1>19. RingInOrder'
  BY <1>9 DEF RingInOrder, InPages
<1>20. Complete'
  <2> SUFFICES ASSUME amiss' = {}, NEW x \in promised.rows PROVE Done(x)' \/ ToCome(x)'
    BY <1>2 DEF Complete
  <2>1. (Done(x) \/ ToCome(x)) /\ x \in DOMAIN db
    BY <1>1, <1>10, SessionFacts DEF Complete
  <2>2. CASE Done(x)
    BY <1>2, <1>9, <1>12, <2>2 DEF Done
  <2>3. CASE ToCome(x)
    <3>1. /\ record[db[x]].stream \in sl.rows /\ RowStart(x) <= sl.queryEnd
          /\ x \in RowsBehind /\ (MoreExpected \/ RowStart(x) = sl.queryEnd)
      BY <1>13, <2>1, <2>3 DEF ToCome
    <3>2. CASE q \in QueryByTimePagination
      <4>1. \/ \E j \in DOMAIN q : q[j] = x
            \/ q # <<>> /\ Lex(q[Len(q)], x)
        BY <1>7, <3>1, <3>2
      <4>2. q # <<>>
        BY <1>8, <4>1, EmptySeq
      <4>3. PageEnd' = q[Len(q)] /\ Queued' = {q[j] : j \in DOMAIN q}
        BY <1>9, <4>2 DEF PageEnd, Queued
      <4>4. x \in Queued' \/ Lex(PageEnd, x)'
        BY <1>12, <4>1, <4>3 DEF Lex
      <4> QED
        BY <1>3, <1>9, <1>12, <3>1, <4>2, <4>4 DEF ToCome
    <3>3. CASE ~MoreExpected
      BY <1>9, <1>12, <3>1, <3>3 DEF Done
    <3>4. CASE amiss' = amiss \cup {"query"}
      BY <3>4
    <3> QED
      BY <1>5, <3>2, <3>3, <3>4
  <2> QED
    BY <2>1, <2>2, <2>3
<1> QED
  BY <1>3, <1>11, <1>17, <1>18, <1>19, <1>20 DEF HistoryInv, InOrder

LEMMA NoPlace ==
  ASSUME NEW rd \in RP!ReaderRecord
  PROVE  LET none == [rd EXCEPT !.off = -1, !.id = Waits, !.sn = 0]
         IN Stands(none) /\ none.off = -1 /\ none.id = Waits
<1> DEFINE none == [rd EXCEPT !.off = -1, !.id = Waits, !.sn = 0]
<1>1. Waits \in 0 .. RP!RingIdError /\ 0 \in 0 .. MaxWrites
  BY RingNames, HistoryAssumption DEF HistoryAssumption, RP!RingIdNext, RP!RingIdError
<1>2. none.off = -1 /\ none.id = Waits /\ none.sn = 0
  BY DEF RP!ReaderRecord
<1>3. none \in RP!ReaderRecord
  <2> DEFINE W == Waits
  <2> HIDE DEF W
  <2>1. [rd EXCEPT !.off = -1, !.id = W, !.sn = 0] \in RP!ReaderRecord
    BY <1>1 DEF RP!ReaderRecord, W
  <2> QED
    BY <2>1 DEF W
<1> QED
  BY <1>2, <1>3 DEF Stands

LEMMA StepGoToRing == HistoryInv /\ GoToRing => HistoryInv'
<1> SUFFICES ASSUME HistoryInv, GoToRing PROVE HistoryInv'
  OBVIOUS
<1>1. /\ RingOK /\ ArchiveOK /\ RecordOK /\ SessionOK /\ RP!TypeOK /\ sl \in SessionRecord
      /\ PagesInOrder
  BY DEF HistoryInv, RingOK, SessionOK, InOrder
<1>2. PICK o : o = Ring!AfterOffset(HandoverTime, 0)
  OBVIOUS
<1> DEFINE none == [reader[Client] EXCEPT !.off = -1, !.id = Waits, !.sn = 0]
           rd == PlacedOr(o, none)
<1>3. /\ sl.step = "reposition" /\ SetReader(rd) /\ sl' = [sl EXCEPT !.step = "loop"]
      /\ UNCHANGED <<archiveVars, record, sent>> /\ promised' = NoPromise /\ amiss' = {}
  BY <1>2 DEF GoToRing
<1>4. /\ sl.queue = <<>> /\ sl.lastId \in DOMAIN db /\ Streaming
      /\ sl.lastStart = RowStart(sl.lastId) /\ sl.lastEnd = sl.lastStart + DataLength
  BY <1>1, <1>3 DEF SessionOK
<1>5. o = -1 \/ (o \in RP!Offsets /\ slot[o].start >= sl.lastEnd /\ slot[o].sn > 0)
  BY <1>1, <1>2, RingFinds DEF HandoverTime
<1>6. Stands(rd) /\ (IF o = -1 THEN rd.off = -1 /\ rd.id = Waits
                              ELSE rd.off = o /\ rd.off >= 0 /\ rd.sn = slot[o].sn)
  <2>2. reader[Client] \in RP!ReaderRecord /\ RP!Offsets \subseteq Nat
    BY <1>1, ReaderTypes
  <2>3. Stands(none) /\ none.off = -1 /\ none.id = Waits
    BY <2>2, NoPlace
  <2> HIDE DEF none
  <2>4. CASE o = -1
    BY <2>3, <2>4 DEF PlacedOr
  <2>5. CASE o \in RP!Offsets
    <3>1. rd = RP!Placed(o) /\ o \in Nat /\ o # -1
      BY <2>2, <2>5, RingPlaces DEF PlacedOr
    <3> QED
      BY <1>1, <2>5, <3>1, PlacedStands
  <2> QED
    BY <1>5, <2>4, <2>5
<1> HIDE DEF rd, none
<1>7. RingOK' /\ reader'[Client] = rd /\ UNCHANGED <<slot, writes, latest>>
  BY <1>1, <1>3, <1>6, RingSet
<1>8. /\ ArchiveOK' /\ RecordOK' /\ UNCHANGED <<db, record, writes>>
      /\ SessionRecord' = SessionRecord
  BY <1>1, <1>3, <1>7, RestStays DEF Rest
<1>9. /\ sl' \in SessionRecord /\ sl'.state = sl.state /\ sl'.queue = <<>> /\ sl'.step = "loop"
  BY <1>1, <1>3, <1>4 DEF SessionRecord
<1>10. SessionOK'
  BY <1>1, <1>3, <1>4, <1>8, <1>9 DEF SessionOK, Streaming, NoPromise
<1>11. Complete' /\ QueueInOrder' /\ PagesInOrder'
  BY <1>3, <1>9 DEF Complete, NoPromise, QueueInOrder, PagesInOrder, InPages
<1>12. /\ sent.packets = {} /\ sent.rows \subseteq DOMAIN db
       /\ \A r \in sent.rows : RowStart(r) <= sl.lastStart
  BY <1>1, <1>3, <1>4, SessionFacts DEF PagesInOrder, InPages, PageEnd
<1>13. RingInOrder'
  <2>1. CASE o = -1
    BY <1>3, <1>6, <1>7, <1>12, <2>1 DEF RingInOrder, Waits, Ring!RingIdNext
  <2>2. CASE o # -1
    <3>1. PICK s : s = slot[o].sn
      OBVIOUS
    <3>2. /\ o \in RP!Offsets /\ s \in 1 .. writes /\ writes \in Nat
          /\ record[s].start >= sl.lastEnd /\ record[s].start \in Nat
      <4>1. /\ o \in RP!Offsets /\ slot[o].start >= sl.lastEnd /\ s > 0
            /\ s \in 0 .. writes /\ writes \in Nat
        BY <1>1, <1>5, <2>2, <3>1, RingEnds, RecordFacts
      <4>2. slot[o].start = record[s].start
        BY <1>1, <3>1, <4>1 DEF RecordOK
      <4> QED
        BY <1>1, <4>1, <4>2, RecordFacts
    <3>3. ASSUME NEW r \in sent.rows PROVE db[r] <= s \/ CameLate(db[r])'
      <4>1. PICK n : n = db[r]
        OBVIOUS
      <4>2. n \in 1 .. writes /\ RowStart(r) \in Nat /\ RowStart(r) = record[n].start
        BY <1>1, <1>12, <4>1, RowTimes DEF RowStart
      <4>3. DataEnd(n) <= sl.lastEnd
        <5>1. sl.lastStart \in Nat /\ DataLength \in Nat
          BY <1>1, <1>4, RowTimes, HistoryAssumption DEF HistoryAssumption
        <5> QED
          BY <1>4, <1>12, <4>2, <5>1 DEF DataEnd
      <4>4. ASSUME ~(n <= s) PROVE CameLate(n)'
        <5>1. s \in 1 .. n - 1
          BY <3>2, <4>2, <4>4
        <5>2. record[s].start >= DataEnd(n)
          <6>1. DataEnd(n) \in Nat /\ sl.lastEnd \in Nat
            BY <1>1, <1>4, <4>2, RowTimes, HistoryAssumption DEF HistoryAssumption, DataEnd
          <6> QED
            BY <3>2, <4>3, <6>1
        <5>3. CameLate(n)' <=> CameLate(n)
          BY <1>8 DEF CameLate, DataEnd
        <5> QED
          BY <5>1, <5>2, <5>3 DEF CameLate
      <4>5. CameLate(db[r])' <=> CameLate(n)'
        BY <1>8, <4>1 DEF CameLate, DataEnd
      <4> QED
        BY <4>1, <4>4, <4>5
    <3>4. ~(reader'[Client].off < 0) /\ reader'[Client].sn = s
      <4>1. o \in Nat
        BY <1>1, <3>2, ReaderTypes
      <4> QED
        BY <1>6, <1>7, <2>2, <3>1, <4>1
    <3>5. \A r \in sent'.rows : db'[r] <= reader'[Client].sn \/ CameLate(db[r])'
      BY <1>3, <1>8, <3>3, <3>4
    <3> QED
      BY <1>3, <1>12, <3>4, <3>5 DEF RingInOrder
  <2> QED
    BY <2>1, <2>2
<1> QED
  BY <1>7, <1>8, <1>10, <1>11, <1>13 DEF HistoryInv, InOrder

\* What a read of the ring does to the reader, and that what is sent then is the
\* packet that the reader comes to.
LEMMA ReadFacts ==
  ASSUME HistoryInv, SendPacket
  PROVE  /\ RingOK' /\ ArchiveOK' /\ RecordOK' /\ UNCHANGED <<db, record, writes>>
         /\ SessionRecord' = SessionRecord /\ ReadsOn
         /\ reader[Client].sn \in Nat /\ reader'[Client].sn \in Nat
         /\ reader[Client].off \in Int /\ reader'[Client].off \in Int
         /\ \A n : Sends(n) => /\ ~(last' = last) /\ n = reader'[Client].sn
                               /\ \/ ~(reader[Client].off < 0)
                                  \/ reader[Client].id # Waits
                               /\ reader[Client].sn > 0 => n > reader[Client].sn
<1>1. RingOK /\ ArchiveOK /\ RecordOK /\ SessionOK /\ RP!TypeOK /\ sl \in SessionRecord
  BY DEF HistoryInv, RingOK, SessionOK
<1>2. Ring!ReadNext(Client) /\ UNCHANGED <<archiveVars, record>>
  BY DEF SendPacket
<1>3. RingOK' /\ UNCHANGED <<slot, writes, latest>> /\ ReadsOn
  BY <1>1, <1>2, RingRead
<1>4. /\ ArchiveOK' /\ RecordOK' /\ UNCHANGED <<db, record, writes>>
      /\ SessionRecord' = SessionRecord
  BY <1>1, <1>2, <1>3, RestStays DEF Rest
<1>5. /\ reader[Client].sn \in Nat /\ reader'[Client].sn \in Nat
      /\ reader[Client].off \in Int /\ reader'[Client].off \in Int
  <2>1. MaxWrites \in Nat /\ MaxPackets \in Nat \ {0}
    BY HistoryAssumption DEF HistoryAssumption
  <2>2. reader[Client].sn \in Nat /\ reader[Client].off \in Int
    BY <1>1, <2>1, ReaderTypes DEF RP!ReaderRecord
  <2>3. reader' \in [{Client} -> RP!ReaderRecord]
    <3>1. RP!TypeOK'
      BY <1>3 DEF RingOK
    <3> QED
      BY <3>1 DEF RP!TypeOK, RP!ReaderRecord, RP!Offsets, RP!RingIdError, RP!Unset
  <2>4. reader'[Client] \in RP!ReaderRecord
    BY <2>3
  <2>5. reader'[Client].sn \in 0 .. MaxWrites /\ reader'[Client].off \in RP!Offsets \cup {-1}
    BY <2>4 DEF RP!ReaderRecord
  <2>6. reader'[Client].off \in Int
    BY <2>1, <2>5 DEF RP!Offsets
  <2> QED
    BY <2>1, <2>2, <2>5, <2>6
<1>6. ASSUME NEW n, Sends(n)
      PROVE  /\ ~(last' = last) /\ n = reader'[Client].sn
             /\ ~(reader[Client].off < 0) \/ reader[Client].id # Waits
             /\ reader[Client].sn > 0 => n > reader[Client].sn
  <2>1. last'[Client] # last[Client] /\ n = last'[Client]
    BY <1>6 DEF Sends, Ring!Delivered
  <2> QED
    BY <1>3, <1>5, <2>1 DEF ReadsOn
<1> QED
  BY <1>3, <1>4, <1>5, <1>6

LEMMA StepSendPacket == HistoryInv /\ SendPacket => HistoryInv'
<1> SUFFICES ASSUME HistoryInv, SendPacket PROVE HistoryInv'
  OBVIOUS
<1>1. /\ RingOK /\ ArchiveOK /\ RecordOK /\ SessionOK /\ sl \in SessionRecord
      /\ RingInOrder /\ Complete
  BY DEF HistoryInv, SessionOK, InOrder
<1>2. /\ Streaming /\ sl.step = "loop" /\ sl.queue = <<>>
      /\ sent' = [sent EXCEPT !.packets = @ \cup {n \in DOMAIN record : Sends(n)}]
      /\ UNCHANGED <<archiveVars, record, sl, promised, amiss>>
  BY DEF SendPacket
<1>3. /\ RingOK' /\ ArchiveOK' /\ RecordOK' /\ UNCHANGED <<db, record, writes>>
      /\ SessionRecord' = SessionRecord /\ ReadsOn
      /\ reader[Client].sn \in Nat /\ reader'[Client].sn \in Nat
      /\ reader[Client].off \in Int /\ reader'[Client].off \in Int
      /\ \A n : Sends(n) => ~(last' = last) /\ n = reader'[Client].sn
  BY ReadFacts
<1>4. PICK m, k, rows, new :
        /\ m = reader[Client].sn /\ k = reader'[Client].sn
        /\ rows = sent.rows /\ new = {n \in DOMAIN record : Sends(n)}
  OBVIOUS
<1>5. /\ sent'.rows = rows /\ sent'.packets = sent.packets \cup new
      /\ new \subseteq {k} /\ new \subseteq 1 .. writes /\ (last' = last => new = {})
      /\ rows \subseteq DOMAIN db /\ sent.packets \subseteq 1 .. writes /\ writes \in Nat
      /\ sent' \in [rows : SUBSET DOMAIN db, packets : SUBSET (1 .. writes)]
  <2>1. new \subseteq {k} /\ new \subseteq 1 .. writes /\ (last' = last => new = {})
    BY <1>1, <1>3, <1>4, RecordFacts
  <2> QED
    BY <1>1, <1>2, <1>4, <2>1, RecordFacts DEF SessionOK
<1>6. SessionOK'
  BY <1>1, <1>2, <1>3, <1>5 DEF SessionOK, Streaming, RowStart
<1>7. QueueInOrder' /\ PagesInOrder' /\ ~InPages'
  BY <1>2 DEF QueueInOrder, PagesInOrder, InPages
<1>8. Complete'
  <2>1. \A x : ~ToCome(x)
    BY <1>2 DEF ToCome
  <2>2. \A x : Done(x) => Done(x)'
    BY <1>2, <1>3, <1>4, <1>5 DEF Done, RowStart, HasData, TiedWithCut
  <2> QED
    BY <1>1, <1>2, <2>1, <2>2 DEF Complete
<1>9. /\ reader[Client].off < 0 =>
           /\ sent.packets = {}
           /\ "burst" \in amiss \/ rows = {} \/ reader[Client].id = Waits
      /\ ~(reader[Client].off < 0) =>
           /\ \A p \in sent.packets : p <= m
           /\ "burst" \in amiss \/ \A r \in rows : db[r] <= m \/ CameLate(db[r])
  BY <1>1, <1>2, <1>4 DEF RingInOrder, InPages
<1>10. \A r \in rows : db[r] \in 1 .. writes
  BY <1>1, <1>5, RowTimes
\* Where the reader stands then.
<1>11. ASSUME \/ /\ reader'[Client].off < 0 /\ sent'.packets = {}
                 /\ "burst" \in amiss \/ rows = {} \/ reader'[Client].id = Waits
              \/ /\ ~(reader'[Client].off < 0) /\ \A p \in sent'.packets : p <= k
                 /\ "burst" \in amiss \/ \A r \in rows : db[r] <= k \/ CameLate(db[r])
       PROVE  HistoryInv'
  <2>1. \A n : CameLate(n)' <=> CameLate(n)
    BY <1>3 DEF CameLate, DataEnd
  <2>2. Waits' = Waits
    BY DEF Waits, Ring!RingIdNext
  <2>3. RingInOrder'
    BY <1>2, <1>3, <1>4, <1>5, <1>11, <2>1, <2>2 DEF RingInOrder
  <2> QED
    BY <1>3, <1>6, <1>7, <1>8, <2>3 DEF HistoryInv, InOrder
<1>12. CASE writes = 0 /\ UNCHANGED last
  <2>1. rows = {} /\ sent'.packets = {}
    BY <1>5, <1>10, <1>12
  <2> QED
    BY <1>11, <2>1
<1>13. CASE /\ reader[Client].off < 0 /\ reader[Client].id = Waits
            /\ reader'[Client].off >= 0 /\ k = writes /\ UNCHANGED last
  <2>1. sent'.packets = {} /\ \A r \in rows : db[r] <= k
    BY <1>5, <1>9, <1>10, <1>13
  <2> QED
    BY <1>3, <1>11, <1>13, <2>1
<1>14. CASE reader' = reader /\ UNCHANGED last
  <2>1. sent'.packets = sent.packets /\ k = m
    BY <1>4, <1>5, <1>14
  <2> QED
    BY <1>9, <1>11, <1>14, <2>1
<1>15. CASE /\ reader[Client].off >= 0 \/ reader[Client].id # Waits
            /\ reader'[Client].off >= 0 /\ (m > 0 => k > m)
  <2>1. \A p \in sent.packets : p <= k
    BY <1>3, <1>4, <1>5, <1>9, <1>15
  <2>2. \A p \in sent'.packets : p <= k
    BY <1>3, <1>4, <1>5, <2>1
  <2>3. "burst" \in amiss \/ \A r \in rows : db[r] <= k \/ CameLate(db[r])
    <3>1. "burst" \in amiss \/ \A r \in rows : db[r] <= m \/ CameLate(db[r])
      BY <1>3, <1>9, <1>15
    <3> QED
      BY <1>3, <1>4, <1>5, <1>10, <1>15, <3>1
  <2> QED
    BY <1>3, <1>11, <1>15, <2>2, <2>3
<1> QED
  BY <1>3, <1>4, <1>12, <1>13, <1>14, <1>15 DEF ReadsOn

LEMMA StepSendFails == HistoryInv /\ SendFails => HistoryInv'
<1> SUFFICES ASSUME HistoryInv, SendFails PROVE HistoryInv'
  OBVIOUS
<1>1. RingOK /\ ArchiveOK /\ RecordOK /\ SessionOK /\ sl \in SessionRecord
  BY DEF HistoryInv, SessionOK
<1>2. /\ sl' = [NewSession EXCEPT !.state = "closed"] /\ SetReader(Ring!NewReader)
      /\ sent' = Nothing /\ promised' = NoPromise /\ amiss' = {}
      /\ UNCHANGED <<archiveVars, record>>
  BY DEF SendFails
<1>3. Stands(Ring!NewReader)
  <2>1. RP!RingIdNone \in 0 .. RP!RingIdError /\ 0 \in 0 .. MaxWrites
    BY HistoryAssumption DEF HistoryAssumption, RP!RingIdNone, RP!RingIdError
  <2>2. Ring!NewReader = [off |-> -1, id |-> RP!RingIdNone, time |-> RP!Unset, sn |-> 0]
    BY RingNames DEF Ring!NewReader, Unset
  <2> QED
    BY <2>1, <2>2 DEF Stands, RP!ReaderRecord
<1>4. RingOK' /\ Rest
  BY <1>1, <1>2, <1>3, RingSet DEF Rest
<1>5. /\ ArchiveOK' /\ RecordOK' /\ UNCHANGED <<db, record, writes>>
      /\ SessionRecord' = SessionRecord
  BY <1>1, <1>4, RestStays
<1>6. sl' \in SessionRecord /\ sl'.queue = <<>> /\ sl'.step = "loop"
  BY <1>2, EmptySeq DEF SessionRecord, NewSession
<1>7. SessionOK'
  BY <1>2, <1>5, <1>6 DEF SessionOK, Nothing, NoPromise
<1>8. QueueInOrder' /\ PagesInOrder' /\ RingInOrder' /\ Complete'
  BY <1>2, <1>6, SentNothing DEF NoPromise
<1> QED
  BY <1>4, <1>5, <1>7, <1>8 DEF HistoryInv, InOrder

LEMMA StepSettled ==
  ASSUME HistoryInv,
         \/ HandleStation
         \/ \E t \in RequestTimes, e \in EndTimes \cup {Unset} : HandleTimeStation(t, e)
         \/ UNCHANGED vars
  PROVE  HistoryInv'
<1>1. sl \in SessionRecord
  BY DEF HistoryInv, SessionOK
<1>2. sl.station \in BOOLEAN /\ sl.start \in Nat \cup {Unset} /\ sl.end \in Nat \cup {Unset}
  BY <1>1 DEF SessionRecord
<1>3. CASE HandleStation
  <2>1. sl' = [sl EXCEPT !.station = TRUE, !.start = sl.start, !.end = sl.end]
    BY <1>1, <1>3 DEF HandleStation, SessionRecord
  <2>2. UNCHANGED <<ringVars, archiveVars, record, sent, promised, amiss>>
    BY <1>3 DEF HandleStation
  <2>3. TRUE \in BOOLEAN
    OBVIOUS
  <2> QED
    BY <1>2, <2>1, <2>2, <2>3, StepSettings
<1>4. ASSUME NEW t \in RequestTimes, NEW e \in EndTimes \cup {Unset}, HandleTimeStation(t, e)
      PROVE  HistoryInv'
  <2>1. PICK s, end : /\ s = Earlier(t)
                      /\ end = IF e # Unset THEN e
                               ELSE IF sl.end # Unset /\ t > sl.end THEN Unset ELSE sl.end
    OBVIOUS
  <2>2. s \in Nat \cup {Unset} /\ end \in Nat \cup {Unset}
    BY <1>2, <2>1, HistoryAssumption DEF HistoryAssumption, Earlier
  <2>3. sl' = [sl EXCEPT !.station = sl.station, !.start = s, !.end = end]
    BY <1>1, <1>4, <2>1 DEF HandleTimeStation, SessionRecord
  <2>4. UNCHANGED <<ringVars, archiveVars, record, sent, promised, amiss>>
    BY <1>4 DEF HandleTimeStation
  <2> QED
    BY <1>2, <2>2, <2>3, <2>4, StepSettings
<1>5. CASE UNCHANGED vars
  <2>1. sl' = [sl EXCEPT !.station = sl.station, !.start = sl.start, !.end = sl.end]
    BY <1>1, <1>5 DEF vars, sessionVars, SessionRecord
  <2>2. UNCHANGED <<ringVars, archiveVars, record, sent, promised, amiss>>
    BY <1>5 DEF vars, sessionVars
  <2> QED
    BY <1>2, <2>1, <2>2, StepSettings
<1> QED
  BY <1>3, <1>4, <1>5

LEMMA HistoryInit == Init => HistoryInv
<1> SUFFICES ASSUME Init PROVE HistoryInv
  OBVIOUS
<1>1. RP!Init /\ AP!Init
  BY RingBegins, ArchiveBegins DEF Init
<1>2. RingOK /\ writes = 0 /\ \A o \in RP!Offsets : slot[o].start = 0
  BY <1>1, RingInit DEF Init, RP!Init, RP!Blank
<1>3. ArchiveOK
  BY <1>2, ArchiveInit DEF Init
<1>4. RecordOK
  BY <1>2, RecordInit DEF Init
<1>5. sl = NewSession /\ sent = Nothing /\ promised = NoPromise /\ amiss = {}
  BY DEF Init
<1>6. sl \in SessionRecord /\ sl.queue = <<>> /\ sl.step = "loop" /\ ~Streaming
  BY <1>5, EmptySeq DEF SessionRecord, NewSession, Streaming
<1>7. SessionOK
  BY <1>5, <1>6 DEF SessionOK, Nothing, NoPromise
<1>8. InOrder /\ Complete
  BY <1>5, <1>6 DEF InOrder, QueueInOrder, PagesInOrder, InPages, RingInOrder, Complete,
     Nothing, NoPromise
<1> QED
  BY <1>2, <1>3, <1>4, <1>7, <1>8 DEF HistoryInv

LEMMA HistoryStep == HistoryInv /\ [Next]_vars => HistoryInv'
BY StepBeneath, StepSettled, StepData, StepEnd, StepTimeAll, StepSendRecord, StepNextPage,
   StepGoToRing, StepSendPacket, StepSendFails
DEF Next, Command, StreamPackets, SendHistory

LEMMA HistorySafe == Spec => []HistoryInv
BY HistoryInit, HistoryStep, PTL DEF Spec

-----------------------------------------------------------------------------
(* Theorems                                                                *)

\* Ring, archive and session only hold what their types say: in particular only
\* packets that were written are sent, and only rows of the table are queued.
THEOREM TypeCorrect == Spec => []TypeOK
<1>1. HistoryInv => TypeOK
  <2> SUFFICES ASSUME HistoryInv PROVE TypeOK
    OBVIOUS
  <2>1. Ring!TypeOK /\ Archive!TypeOK
    BY RingTypes, ArchiveTypes DEF HistoryInv, RingOK, ArchiveOK, AP!QueueInv
  <2>2. sl \in SessionRecord /\ SessionOK /\ RecordOK
    BY DEF HistoryInv, SessionOK
  <2> QED
    BY <2>1, <2>2 DEF TypeOK, SessionOK, SessionRecord, RecordOK
<1> QED
  BY <1>1, HistorySafe, PTL

\* What a session sends comes in order and once, whatever times the packets have
\* and whoever writes them: rows of the archive in the order of their start times,
\* then packets of the ring in the order they were written.  A packet comes twice
\* only if it starts with the last row of the first page, came late, or the burst
\* was aborted at the end of a page.
THEOREM SentOrderIsKept == Spec => SentInOrder
<1> DEFINE Step ==
     /\ SendDbRecord /\ HasData(Head(sl.queue)) =>
          LET i == Head(sl.queue)
          IN /\ sent.packets = {}
             /\ \A r \in sent.rows : RowStart(r) <= RowStart(i)
             /\ i \in sent.rows => TiedWithCut(i) /\ i > promised.cut
     /\ \A n \in DOMAIN record : Sends(n) /\ SendPacket =>
          /\ \A p \in sent.packets : p < n
          /\ n \in {db[r] : r \in sent.rows} => CameLate(n) \/ "burst" \in amiss
<1>1. HistoryInv => Step
  <2> SUFFICES ASSUME HistoryInv PROVE Step
    OBVIOUS
  <2>1. /\ ArchiveOK /\ RecordOK /\ SessionOK /\ QueueInOrder /\ PagesInOrder /\ RingInOrder
    BY DEF HistoryInv, InOrder
  <2>2. ASSUME SendDbRecord
        PROVE  LET i == Head(sl.queue)
               IN /\ sent.packets = {}
                  /\ \A r \in sent.rows : RowStart(r) <= RowStart(i)
                  /\ i \in sent.rows => TiedWithCut(i) /\ i > promised.cut
    <3>1. sl.queue # <<>>
      BY <2>2 DEF SendDbRecord
    <3>2. Head(sl.queue) = sl.queue[1] /\ 1 \in DOMAIN sl.queue
      BY <2>1, <3>1, SessionFacts, TailFacts
    <3> QED
      BY <2>1, <3>1, <3>2 DEF QueueInOrder, PagesInOrder, InPages, Repeated
  <2>3. ASSUME NEW n \in DOMAIN record, Sends(n), SendPacket
        PROVE  /\ \A p \in sent.packets : p < n
               /\ n \in {db[r] : r \in sent.rows} => CameLate(n) \/ "burst" \in amiss
    <3>1. PICK m : m = reader[Client].sn
      OBVIOUS
    <3>2. /\ m \in Nat /\ reader[Client].off \in Int /\ n \in Nat /\ n > 0
          /\ ~(reader[Client].off < 0) \/ reader[Client].id # Waits
          /\ m > 0 => n > m
      BY <2>1, <2>3, <3>1, ReadFacts, RecordFacts
    <3>3. Streaming /\ ~InPages
      BY <2>3 DEF SendPacket, InPages
    <3>4. CASE reader[Client].off < 0
      BY <2>1, <3>2, <3>3, <3>4 DEF RingInOrder
    <3>5. CASE ~(reader[Client].off < 0)
      <4>1. /\ \A p \in sent.packets : p <= m /\ p \in Nat
            /\ \/ "burst" \in amiss
               \/ \A r \in sent.rows : db[r] <= m \/ CameLate(db[r])
        BY <2>1, <3>1, <3>3, <3>5, SessionFacts, RecordFacts DEF RingInOrder
      <4>2. n > m
        BY <3>2
      <4> QED
        BY <3>2, <4>1, <4>2
    <3> QED
      BY <3>4, <3>5
  <2> QED
    BY <2>2, <2>3
<1> QED
  BY <1>1, HistorySafe, PTL DEF SentInOrder

\* When a session goes over to the ring without anything amiss, it has sent every row
\* that its first query was to return, whatever times the rows have, but those
\* without data, those of the last instant asked for and those that the order of
\* the first page loses.
THEOREM HistoryIsComplete == Spec => HistoryComplete
<1> DEFINE Step ==
     GoToRing /\ amiss = {} =>
       \A i \in promised.rows :
         \/ i \in sent.rows
         \/ ~HasData(i)
         \/ RowStart(i) = sl.queryEnd
         \/ TiedWithCut(i) /\ i < promised.cut
<1>1. HistoryInv => Step
  <2> SUFFICES ASSUME HistoryInv, GoToRing, amiss = {}, NEW i \in promised.rows PROVE Done(i)
    BY DEF Done
  <2>1. ~ToCome(i)
    <3>1. sl.step = "reposition" /\ sl.queue = <<>>
      BY DEF GoToRing, HistoryInv, SessionOK
    <3> QED
      BY <3>1 DEF ToCome
  <2> QED
    BY <2>1 DEF HistoryInv, Complete
<1> QED
  BY <1>1, HistorySafe, PTL DEF HistoryComplete

=============================================================================
