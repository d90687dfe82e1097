----------------------------- MODULE RingBuffer -----------------------------
(***************************************************************************)
(* The packet ring of RS_CSharp (Ring/RingBuffer.cs): a fixed number of    *)
(* packet slots written in circular order, the stream index kept beside    *)
(* them, and the readers that walk the slots.                              *)
(*                                                                         *)
(* An offset is counted in packets instead of bytes.  Write runs under     *)
(* WriteLock and StreamLock and is one step.  The reader operations take   *)
(* no lock; here each of them is one step too, and module RingRace splits  *)
(* ReadNext into its memory accesses.                                      *)
(***************************************************************************)
EXTENDS Integers, FiniteSets

CONSTANTS
  MaxPackets,       \* slots of the ring
  Streams,          \* stream ids
  NoStream,         \* the empty stream id read from a slot never written
  Readers,          \* connected clients, one RingReader each
  Accepts,          \* Accepts[r]: stream ids that pass r's limit/match/reject
  DataTimes,        \* data start times of the packets
  UserIds,          \* packet ids a DataLink WRITE with flag I may bring
  RingIdMaximum,    \* largest packet id
  MaxWrites,        \* bound: packets written in a behaviour
  MaxClock,         \* bound: readings of the system clock are 1..MaxClock
  ClockMayStepBack  \* whether NSnow may return less than it did before

ASSUME RingAssumption ==
  /\ MaxPackets \in Nat /\ MaxPackets >= 2      \* Initialize refuses less
  /\ RingIdMaximum \in Nat \ {0}
  /\ UserIds \subseteq (0 .. RingIdMaximum + 5) \ {RingIdMaximum + 4}
  /\ NoStream \notin Streams
  /\ Accepts \in [Readers -> SUBSET (Streams \cup {NoStream})]
  /\ DataTimes \subseteq Nat
  /\ MaxWrites \in Nat
  /\ MaxClock \in Nat
  /\ ClockMayStepBack \in BOOLEAN

RingIdNext     == RingIdMaximum + 1
RingIdLatest   == RingIdMaximum + 2
RingIdEarliest == RingIdMaximum + 3
RingIdNone     == RingIdMaximum + 4
RingIdError    == RingIdMaximum + 5
Unset          == -1                            \* NsTime.Unset

VARIABLES
  slot,         \* slot[o]: the packet stored at offset o of DataBuffer
  earliest,     \* RingParams.Earliest*
  latest,       \* RingParams.Latest*
  streamIdx,    \* RingParams.StreamIdx: stream id -> RingStream
  streamCount,  \* RingParams.StreamCount
  clock,        \* the last reading of NSnow
  reader,       \* reader[r]: RingReader of client r
  writes,       \* history: number of packets written
  last          \* history: ordinal of the last packet ReadNext gave r, 0 if none

ringVars == <<slot, earliest, latest, streamIdx, streamCount, clock, writes>>
vars == <<slot, earliest, latest, streamIdx, streamCount, clock, reader,
          writes, last>>

-----------------------------------------------------------------------------
(* Packets, and the summary of a packet that RingParams and RingStream copy *)
(* (DataEnd travels with DataStart everywhere and is left out).  sn is a    *)
(* history field: the ordinal of the write that stored the packet.          *)

Offsets == 0 .. MaxPackets - 1

Packet == [sn : 0 .. MaxWrites, id : 0 .. RingIdError, time : 0 .. MaxClock,
           next : Offsets \cup {-1}, stream : Streams \cup {NoStream},
           start : DataTimes \cup {0}]
PacketSummary == [off : Offsets \cup {-1}, id : 0 .. RingIdError,
                  time : (0 .. MaxClock) \cup {Unset}, start : DataTimes \cup {0, Unset}]

StreamRecord == [earliest : PacketSummary, latest : PacketSummary]

ReaderRecord == [off : Offsets \cup {-1}, id : 0 .. RingIdError,
                 time : (0 .. MaxClock) \cup {Unset}, sn : 0 .. MaxWrites]

Blank == [sn |-> 0, id |-> 0, time |-> 0, next |-> 0, stream |-> NoStream,
          start |-> 0]

NoSummary == [off |-> -1, id |-> RingIdNone, time |-> Unset, start |-> Unset]

Summary(p, o) == [off |-> o, id |-> p.id, time |-> p.time, start |-> p.start]

NextOffset(o) == IF o + 1 > MaxPackets - 1 THEN 0 ELSE o + 1

\* The i-th offset met when walking forward from o, and the number of steps
\* such a walk makes before it meets e: none when it starts there.
At(o, i) == IF o + i > MaxPackets - 1 THEN o + i - MaxPackets ELSE o + i

Steps(o, e) == IF e >= o THEN e - o ELSE e - o + MaxPackets

\* The first offset of S that the walk from o to e meets, -1 if it meets none.
FirstFrom(o, e, S) ==
  LET hits == {i \in 0 .. Steps(o, e) - 1 : At(o, i) \in S}
  IN IF hits = {} THEN -1
     ELSE At(o, CHOOSE i \in hits : \A j \in hits : i <= j)

\* Mutation of EobOffset: the loop ends one packet too late.
EobOffsetLate == NextOffset(NextOffset(latest.off))

EobOffset == NextOffset(latest.off)

-----------------------------------------------------------------------------
(* Write                                                                   *)

NSnow == {t \in 1 .. MaxClock : ClockMayStepBack \/ t >= clock}

\* Mutation of NextId: ids grow past RingIdMaximum.
NextIdNoWrap == IF latest.off < 0 THEN 1 ELSE slot[latest.off].id + 1

\* One more than the latest id; the sum is a ulong, RingIdError its largest.
NextId ==
  IF latest.off < 0 THEN 1
  ELSE LET id == slot[latest.off].id + 1
       IN IF id > RingIdError THEN 0 ELSE IF id > RingIdMaximum THEN 1 ELSE id

WriteOffset == IF latest.off < 0 THEN 0 ELSE NextOffset(latest.off)

\* Mutation of IsFull: compares with the offset written last.
IsFullLate == earliest.off >= 0 /\ latest.off >= 0 /\ latest.off = earliest.off

\* The packet about to be written takes the place of the earliest one.
IsFull == earliest.off >= 0 /\ latest.off >= 0 /\ WriteOffset = earliest.off

\* Mutation of OnlyInStream: the stream's latest packet is not looked at.
OnlyInStreamEarliest(o) == streamIdx[slot[o].stream].earliest.off = o

OnlyInStream(o) ==
  LET e == streamIdx[slot[o].stream] IN e.earliest.off = o /\ e.latest.off = o

\* The stream index without the earliest packet.
EvictedIdx ==
  LET p == slot[earliest.off]
  IN IF ~IsFull \/ p.stream \notin DOMAIN streamIdx THEN streamIdx
     ELSE IF OnlyInStream(earliest.off)
     THEN [s \in DOMAIN streamIdx \ {p.stream} |-> streamIdx[s]]
     ELSE IF p.next >= 0
     THEN [streamIdx EXCEPT ![p.stream].earliest = Summary(slot[p.next], p.next)]
     ELSE streamIdx

\* A stream's entry once packet p has been stored at offset o.
StreamEntry(idx, p, o) ==
  [earliest |-> IF p.stream \in DOMAIN idx THEN idx[p.stream].earliest
                ELSE Summary(p, o),
   latest   |-> Summary(p, o)]

\* Mutation of StoredSlots: the previous packet of the stream is not linked.
StoredSlotsUnlinked(idx, p, o) == [slot EXCEPT ![o] = p]

\* The slots once p is stored at o and the previous packet of its stream
\* (the index entry's latest) is linked to it.
StoredSlots(idx, p, o) ==
  LET stored == [slot EXCEPT ![o] = p]
  IN IF p.stream \in DOMAIN idx
     THEN [stored EXCEPT ![idx[p.stream].latest.off].next = o]
     ELSE stored

Write(s, d, reqid) ==
  /\ writes < MaxWrites
  /\ \E t \in NSnow :
       LET o   == WriteOffset
           p   == [sn |-> writes + 1, time |-> t, next |-> -1, stream |-> s,
                   start |-> d, id |-> IF reqid = RingIdNone THEN NextId ELSE reqid]
           idx == EvictedIdx
           nxt == NextOffset(earliest.off)
       IN /\ slot' = StoredSlots(idx, p, o)
          /\ streamIdx' = [u \in DOMAIN idx \cup {s} |->
                             IF u = s THEN StreamEntry(idx, p, o) ELSE idx[u]]
          /\ streamCount' = streamCount
                            - (IF DOMAIN idx = DOMAIN streamIdx THEN 0 ELSE 1)
                            + (IF s \in DOMAIN idx THEN 0 ELSE 1)
          /\ earliest' = IF earliest.off < 0 THEN Summary(p, o)
                         ELSE IF IsFull THEN Summary(slot[nxt], nxt)
                         ELSE earliest
          /\ latest' = Summary(p, o)
          /\ clock' = t
          /\ writes' = writes + 1
  /\ UNCHANGED <<reader, last>>

-----------------------------------------------------------------------------
(* Readers                                                                 *)

NewReader == [off |-> -1, id |-> RingIdNone, time |-> Unset, sn |-> 0]

\* The reader placed on the packet at offset o (sn is history).
Placed(o) == [off |-> o, id |-> slot[o].id, time |-> slot[o].time,
              sn |-> slot[o].sn]

\* FindOffsetForID: linear scan from the earliest packet to the latest.
FindOffsetForID(id) ==
  IF earliest.off < 0 \/ latest.off < 0 THEN -1
  ELSE FirstFrom(earliest.off, EobOffset, {o \in Offsets : slot[o].id = id})

\* A repositioning operation found offset o (-1: found nothing, no change).
MoveTo(r, o) ==
  /\ reader' = IF o < 0 THEN reader ELSE [reader EXCEPT ![r] = Placed(o)]
  /\ last' = IF o < 0 THEN last ELSE [last EXCEPT ![r] = 0]
  /\ UNCHANGED ringVars

Read(r, id) == id <= RingIdMaximum /\ MoveTo(r, FindOffsetForID(id))

ResolvedId(id) == IF id = RingIdEarliest THEN earliest.id
                  ELSE IF id = RingIdLatest THEN latest.id ELSE id

PositionOffset(id, ptime) ==
  LET o == FindOffsetForID(ResolvedId(id))
  IN IF \/ ResolvedId(id) > RingIdMaximum
        \/ o >= 0 /\ ptime # Unset /\ slot[o].time # ptime
     THEN -1 ELSE o

Position(r, id, ptime) == MoveTo(r, PositionOffset(id, ptime))

AfterOffset(reftime, whence) ==
  IF latest.off < 0 THEN -1
  ELSE FirstFrom(IF whence = 0 /\ earliest.off >= 0 THEN earliest.off ELSE 0,
                 EobOffset, {o \in Offsets : slot[o].start >= reftime})

After(r, reftime, whence) == MoveTo(r, AfterOffset(reftime, whence))

\* AfterRev walks back from the latest packet over every slot; it places the
\* reader on each of the first pktlimit packets that start at or after reftime.
Back(i) == At(latest.off, IF i = 0 THEN 0 ELSE MaxPackets - i)

AfterRevOffset(reftime, pktlimit) ==
  LET match == {i \in Offsets : slot[Back(i)].start >= reftime}
      taken == {i \in match : Cardinality({j \in match : j <= i}) <= pktlimit}
  IN IF latest.off < 0 \/ taken = {} THEN -1
     ELSE Back(CHOOSE i \in taken : \A j \in taken : j <= i)

AfterRev(r, reftime, pktlimit) == MoveTo(r, AfterRevOffset(reftime, pktlimit))

\* The client asks for the stream: a reader without a position waits for the
\* next packet (DataLink STREAM, SeedLink DATA), or starts at the earliest one
\* (SeedLink STREAM and DATA ALL).
StartStream(r) ==
  /\ reader[r].off < 0 /\ reader[r].id = RingIdNone
  /\ \E id \in {RingIdNext, RingIdEarliest} : reader' = [reader EXCEPT ![r].id = id]
  /\ UNCHANGED <<ringVars, last>>

-----------------------------------------------------------------------------
(* ReadNext                                                                *)

\* "pktTime > latestPTime": the slot is taken for one outside the ring.
Ahead(o) == slot[o].time > latest.time
Stops(r) == {o \in Offsets : Ahead(o) \/ slot[o].stream \in Accepts[r]}

\* Mutation of FirstOffset: the walk starts one packet too far.
FirstOffsetFar(r) ==
  IF reader[r].off >= 0 THEN NextOffset(NextOffset(reader[r].off))
  ELSE IF reader[r].id = RingIdLatest THEN latest.off ELSE earliest.off

FirstOffset(r) ==
  IF reader[r].off >= 0 THEN NextOffset(reader[r].off)
  ELSE IF reader[r].id = RingIdLatest THEN latest.off ELSE earliest.off

\* The loop from offset o up to the end of the buffer stops at hit (-1: it met
\* no packet to stop at).
Hit(r, o) == FirstFrom(o, EobOffset, Stops(r))

\* The last offset a loop from o placed the reader on before it came to hit;
\* before (-1: the reader has not moved), if it met no packet the filter rejects.
LastPassed(o, hit, before) ==
  LET n == Steps(o, IF hit < 0 THEN EobOffset ELSE hit)
  IN IF n > 0 THEN At(o, n - 1) ELSE before

\* ReadNext returns: it delivers the packet at hit, or none.
Return(r, hit, passed) ==
  IF hit >= 0 /\ ~Ahead(hit)
  THEN /\ reader' = [reader EXCEPT ![r] = Placed(hit)]
       /\ last' = [last EXCEPT ![r] = slot[hit].sn]
  ELSE /\ reader' = IF passed < 0 THEN reader
                    ELSE [reader EXCEPT ![r] = Placed(passed)]
       /\ last' = last

ReadNextEmpty(r) ==
  /\ latest.off < 0
  /\ reader' = IF reader[r].off < 0 /\ reader[r].id = RingIdNext
               THEN [reader EXCEPT ![r].id = RingIdEarliest] ELSE reader
  /\ UNCHANGED <<ringVars, last>>

\* The first read of a reader that waits for the next packet only places it.
ReadNextPlace(r) ==
  /\ latest.off >= 0 /\ reader[r].off < 0 /\ reader[r].id = RingIdNext
  /\ reader' = [reader EXCEPT ![r] = Placed(latest.off)]
  /\ UNCHANGED <<ringVars, last>>

\* A loop that runs into a slot ahead of the latest packet starts again at the
\* earliest one.  If it runs into one again at once, a hundred times, ReadNext
\* gives up; if it first passes packets the filter rejects, "skipped" is reset
\* and ReadNext does not return (no step).
ReadNextScan(r) ==
  /\ latest.off >= 0
  /\ reader[r].off >= 0 \/ reader[r].id \in {RingIdLatest, RingIdEarliest}
  /\ \E hit \in {Hit(r, FirstOffset(r))}, again \in {Hit(r, earliest.off)} :
       LET passed == LastPassed(FirstOffset(r), hit, -1)
       IN IF hit < 0 \/ ~Ahead(hit) THEN Return(r, hit, passed)
          ELSE /\ ~(again >= 0 /\ again # earliest.off /\ Ahead(again))
               /\ Return(r, again, LastPassed(earliest.off, again, passed))
  /\ UNCHANGED ringVars

ReadNext(r) == ReadNextEmpty(r) \/ ReadNextPlace(r) \/ ReadNextScan(r)

-----------------------------------------------------------------------------
Init ==
  /\ slot = [o \in Offsets |-> Blank]
  /\ earliest = NoSummary /\ latest = NoSummary
  /\ streamIdx = [s \in {} |-> 0] /\ streamCount = 0
  /\ clock = 0
  /\ reader = [r \in Readers |-> NewReader]
  /\ writes = 0
  /\ last = [r \in Readers |-> 0]

WriteSome == \E s \in Streams, d \in DataTimes, i \in UserIds \cup {RingIdNone} :
               Write(s, d, i)

Reposition(r) ==
  \/ \E i \in 0 .. RingIdMaximum : Read(r, i)
  \/ \E i \in 0 .. RingIdError, t \in {Unset} \cup 1 .. MaxClock : Position(r, i, t)
  \/ \E d \in DataTimes \cup {0}, w \in {0, 1} : After(r, d, w)
  \/ \E d \in DataTimes \cup {0}, n \in 0 .. MaxPackets : AfterRev(r, d, n)

Next ==
  \/ WriteSome
  \/ \E r \in Readers : Reposition(r) \/ StartStream(r) \/ ReadNext(r)

Spec == Init /\ [][Next]_vars

-----------------------------------------------------------------------------
(* Properties                                                              *)

TypeOK ==
  /\ slot \in [Offsets -> Packet]
  /\ earliest \in PacketSummary /\ latest \in PacketSummary
  /\ DOMAIN streamIdx \subseteq Streams
  /\ streamIdx \in [DOMAIN streamIdx -> StreamRecord]
  /\ streamCount \in Int
  /\ clock \in 0 .. MaxClock
  /\ reader \in [Readers -> ReaderRecord]
  /\ writes \in 0 .. MaxWrites
  /\ last \in [Readers -> 0 .. MaxWrites]

\* The offsets that hold packets, and how many packets the ring holds.
Held == IF writes < MaxPackets THEN writes ELSE MaxPackets
Live == {o \in Offsets : slot[o].sn > 0}

\* The ring holds the packets of the last writes, in order from the earliest to
\* the latest offset, and RingParams describes its two ends (Write).
WindowExact ==
  IF writes = 0 THEN earliest = NoSummary /\ latest = NoSummary /\ Live = {}
  ELSE /\ earliest.off \in Offsets /\ latest.off \in Offsets
       /\ Steps(earliest.off, latest.off) = Held - 1
       /\ \A o \in Offsets :
            LET i == Steps(earliest.off, o)
            IN slot[o].sn = IF i < Held THEN writes - Held + 1 + i ELSE 0
       /\ earliest = Summary(slot[earliest.off], earliest.off)
       /\ latest = Summary(slot[latest.off], latest.off)

\* A stream has an index entry exactly while the ring holds packets of it; the
\* entry describes the first and the last of them, and StreamCount counts the
\* entries (the bookkeeping Write does when it evicts, inserts and links).
InStream(s) == {o \in Live : slot[o].stream = s}

StreamIndexExact ==
  /\ DOMAIN streamIdx = {s \in Streams : InStream(s) # {}}
  /\ \A s \in DOMAIN streamIdx :
       /\ \E o \in InStream(s) : /\ \A x \in InStream(s) : slot[o].sn <= slot[x].sn
                                 /\ streamIdx[s].earliest = Summary(slot[o], o)
       /\ \E o \in InStream(s) : /\ \A x \in InStream(s) : slot[o].sn >= slot[x].sn
                                 /\ streamIdx[s].latest = Summary(slot[o], o)
  /\ streamCount = Cardinality(DOMAIN streamIdx)

\* NextInStream of a packet in the ring leads to the next packet of the same
\* stream, and is -1 on the last one: eviction relies on it to find the packet
\* that becomes the stream's earliest.
ChainExact ==
  \A o \in Live :
    LET later == {x \in InStream(slot[o].stream) : slot[x].sn > slot[o].sn}
    IN IF later = {} THEN slot[o].next = -1
       ELSE slot[o].next \in later /\ \A x \in later : slot[slot[o].next].sn <= slot[x].sn

\* The slot a reader is placed on has been overwritten since.
Lapped(r) == reader[r].off >= 0 /\ slot[reader[r].off].sn # reader[r].sn

Delivered(r) == last'[r] # last[r] /\ last'[r] # 0

\* A reader whose packet is still in the ring is given the next packet that
\* passes its filter, never a later one, and moves past nothing it accepts.
NothingSkipped ==
  [][\A r \in Readers :
       /\ reader[r].sn > 0 /\ ~Lapped(r) /\ ReadNext(r)
       => \A o \in Live :
            slot[o].sn > reader[r].sn /\ slot[o].stream \in Accepts[r]
            => Delivered(r) /\ last'[r] <= slot[o].sn /\ reader'[r].sn = last'[r]]_vars

\* The ring implements the log that keeps the last MaxPackets packets.
Content(p) == [stream |-> p.stream, start |-> p.start]

Log == INSTANCE RingLog WITH
         Capacity <- MaxPackets,
         Packets  <- [stream : Streams, start : DataTimes],
         log      <- [i \in 1 .. Held |-> Content(slot[At(earliest.off, i - 1)])],
         written  <- writes,
         given    <- last

ImplementsLog == Log!Spec

\* As long as the ring has an empty slot, the packet lookups of READ, POSITION
\* and SeedLink's TIME find what is there and nothing outside the window:
\* FindOffsetForID the packet of every id in the ring, After the earliest packet
\* that starts at or after a time, and none only if there is none.
FoundUnlessFull ==
  writes < MaxPackets =>
    /\ \A o \in Live : LET f == FindOffsetForID(slot[o].id)
                        IN f \in Live /\ slot[f].id = slot[o].id
    /\ \A t \in DataTimes, w \in {0, 1} :
         LET f    == AfterOffset(t, w)
             from == {o \in Live : slot[o].start >= t}
         IN IF from = {} THEN f = -1
            ELSE f \in from /\ \A o \in from : slot[f].sn <= slot[o].sn

\* A packet that the ring holds is found by its id, full or not: Read and Position
\* "Returns packet ID on success, RINGID_NONE when not found" (RingBuffer.cs:600,
\* 840) from a "Linear scan from earliest to latest" (RingBuffer.cs:1093).
HeldIsFound ==
  \A o \in Live : LET f == FindOffsetForID(slot[o].id)
                  IN f \in Live /\ slot[f].id = slot[o].id
=============================================================================
