-------------------------- MODULE RingBufferProofs --------------------------
(***************************************************************************)
(* Theorems about RingBuffer, for every number of slots, streams, readers  *)
(* and writes; whether or not the clock steps back, where a theorem does   *)
(* not say otherwise.                                                      *)
(***************************************************************************)
EXTENDS RingBuffer, FiniteSetTheorems, SequenceTheorems, WellFoundedInduction,
        TLAPS

-----------------------------------------------------------------------------
(* Extreme elements                                                        *)

\* A set of naturals that is not empty has a least element.
LEMMA Least ==
  ASSUME NEW T \in SUBSET Nat, T # {}
  PROVE  \E x \in T : \A y \in T : x <= y
<1>1. \E x \in T : \A y \in T : ~ (<<y, x>> \in OpToRel(<, Nat))
  BY WFMin, NatLessThanWellFounded
<1>2. \A x \in T, y \in T : ~ (<<y, x>> \in OpToRel(<, Nat)) => x <= y
  BY DEF OpToRel
<1> QED
  BY <1>1, <1>2

\* A set of naturals that is bounded and not empty has a greatest element.
LEMMA Greatest ==
  ASSUME NEW n \in Nat, NEW T \in SUBSET (0 .. n), T # {}
  PROVE  \E x \in T : \A y \in T : y <= x
<1> DEFINE U == {n - x : x \in T}
<1>1. \A x \in T : x \in Nat /\ x <= n /\ n - x \in Nat
  OBVIOUS
<1>2. U \in SUBSET Nat
  BY <1>1
<1>3. U # {}
  OBVIOUS
<1>4. PICK u \in U : \A v \in U : u <= v
  BY <1>2, <1>3, Least
<1>5. PICK x \in T : u = n - x
  OBVIOUS
<1>6. ASSUME NEW y \in T PROVE y <= x
  <2>1. n - x <= n - y
    BY <1>4, <1>5
  <2> QED
    BY <1>1, <2>1
<1> QED
  BY <1>6

-----------------------------------------------------------------------------
(* Walking the offsets                                                     *)

\* NextOffset stays within the slots.
LEMMA NextOffsetType ==
  ASSUME NEW o \in Offsets
  PROVE  NextOffset(o) \in Offsets
BY RingAssumption DEF NextOffset, Offsets

\* A walk inside the ring stays within the slots.
LEMMA AtType ==
  ASSUME NEW o \in Offsets, NEW i \in 0 .. MaxPackets - 1
  PROVE  At(o, i) \in Offsets
BY RingAssumption DEF At, Offsets

\* A walk between two slots is shorter than the ring.
LEMMA StepsType ==
  ASSUME NEW o \in Offsets, NEW e \in Offsets
  PROVE  Steps(o, e) \in 0 .. MaxPackets - 1
BY RingAssumption DEF Steps, Offsets

\* A scan finds a slot of the set it looks for, or nothing.
LEMMA FirstFromType ==
  ASSUME NEW o \in Offsets, NEW e \in Offsets, NEW S
  PROVE  FirstFrom(o, e, S) \in Offsets \cup {-1}
<1> DEFINE hits == {i \in 0 .. Steps(o, e) - 1 : At(o, i) \in S}
<1> HIDE DEF hits
<1>1. CASE hits = {}
  BY <1>1 DEF FirstFrom, hits
<1>2. CASE hits # {}
  <2>1. hits \in SUBSET Nat /\ hits \subseteq 0 .. MaxPackets - 1
    BY StepsType, RingAssumption DEF hits
  <2>2. \E i \in hits : \A j \in hits : i <= j
    BY <1>2, <2>1, Least
  <2>3. (CHOOSE i \in hits : \A j \in hits : i <= j) \in 0 .. MaxPackets - 1
    BY <2>1, <2>2
  <2>4. FirstFrom(o, e, S) = At(o, CHOOSE i \in hits : \A j \in hits : i <= j)
    BY <1>2 DEF FirstFrom, hits
  <2> QED
    BY <2>3, <2>4, AtType
<1> QED
  BY <1>1, <1>2

\* The last slot that a loop passed is a slot, or what it was before.
LEMMA LastPassedType ==
  ASSUME NEW o \in Offsets, NEW hit \in Offsets \cup {-1},
         NEW before \in Offsets \cup {-1}, EobOffset \in Offsets
  PROVE  LastPassed(o, hit, before) \in Offsets \cup {-1}
<1> DEFINE e == IF hit < 0 THEN EobOffset ELSE hit
<1>1. e \in Offsets
  BY RingAssumption DEF Offsets
<1> HIDE DEF e
<1>2. Steps(o, e) \in 0 .. MaxPackets - 1
  BY <1>1, StepsType
<1>3. CASE Steps(o, e) > 0
  <2>1. Steps(o, e) - 1 \in 0 .. MaxPackets - 1
    BY <1>2, <1>3, RingAssumption
  <2>2. At(o, Steps(o, e) - 1) \in Offsets
    BY <2>1, AtType
  <2> QED
    BY <1>3, <2>2 DEF LastPassed, e
<1>4. CASE ~(Steps(o, e) > 0)
  BY <1>4 DEF LastPassed, e
<1> QED
  BY <1>3, <1>4

-----------------------------------------------------------------------------
(* Types                                                                   *)

\* RingParams has an earliest packet exactly while it has a latest one.
EndsTogether == earliest.off < 0 <=> latest.off < 0

\* The summary of a packet in a slot is well typed.
LEMMA SummaryType ==
  ASSUME NEW p \in Packet, NEW o \in Offsets
  PROVE  Summary(p, o) \in PacketSummary
BY RingAssumption DEF Summary, Packet, PacketSummary, Unset

\* A reader placed on a slot is well typed.
LEMMA PlacedType ==
  ASSUME TypeOK, NEW o \in Offsets
  PROVE  Placed(o) \in ReaderRecord
<1>1. slot[o] \in Packet
  BY DEF TypeOK
<1> QED
  BY <1>1 DEF Placed, ReaderRecord, Packet

\* The next packet id is a ulong.
LEMMA NextIdType ==
  ASSUME TypeOK
  PROVE  NextId \in 0 .. RingIdError
<1>1. CASE latest.off < 0
  BY <1>1, RingAssumption DEF NextId, RingIdError
<1>2. CASE ~(latest.off < 0)
  <2>1. latest.off \in Offsets
    BY <1>2, RingAssumption DEF TypeOK, PacketSummary, Offsets
  <2>2. slot[latest.off].id \in 0 .. RingIdError
    BY <2>1 DEF TypeOK, Packet
  <2> QED
    BY <1>2, <2>2, RingAssumption DEF NextId, RingIdError
<1> QED
  BY <1>1, <1>2

\* Write stores the packet in a slot.
LEMMA WriteOffsetType ==
  ASSUME TypeOK
  PROVE  WriteOffset \in Offsets
<1>1. latest.off \in Offsets \cup {-1}
  BY DEF TypeOK, PacketSummary
<1> QED
  BY <1>1, NextOffsetType, RingAssumption DEF WriteOffset, Offsets

\* Eviction removes at most the earliest packet's stream from the index.
LEMMA EvictedIdxType ==
  ASSUME TypeOK
  PROVE  /\ DOMAIN EvictedIdx \subseteq DOMAIN streamIdx
         /\ EvictedIdx \in [DOMAIN EvictedIdx -> StreamRecord]
<1> DEFINE p == slot[earliest.off]
<1>1. CASE ~IsFull \/ p.stream \notin DOMAIN streamIdx
  BY <1>1 DEF EvictedIdx, TypeOK
<1>2. CASE IsFull /\ p.stream \in DOMAIN streamIdx
  <2>1. earliest.off \in Offsets
    BY <1>2, WriteOffsetType DEF IsFull
  <2>2. p \in Packet
    BY <2>1 DEF TypeOK
  <2>3. CASE OnlyInStream(earliest.off)
    BY <1>2, <2>3 DEF EvictedIdx, TypeOK
  <2>4. CASE ~OnlyInStream(earliest.off) /\ p.next >= 0
    <3>1. p.next \in Offsets
      BY <2>2, <2>4, RingAssumption DEF Packet, Offsets
    <3>2. Summary(slot[p.next], p.next) \in PacketSummary
      BY <3>1, SummaryType DEF TypeOK
    <3>3. EvictedIdx = [streamIdx EXCEPT ![p.stream].earliest = Summary(slot[p.next], p.next)]
      BY <1>2, <2>4 DEF EvictedIdx
    <3> QED
      BY <3>2, <3>3 DEF TypeOK, StreamRecord
  <2>5. CASE ~OnlyInStream(earliest.off) /\ ~(p.next >= 0)
    BY <1>2, <2>5 DEF EvictedIdx, TypeOK
  <2> QED
    BY <2>3, <2>4, <2>5
<1> QED
  BY <1>1, <1>2

\* Write keeps the types.
LEMMA WriteType ==
  ASSUME TypeOK, NEW s \in Streams, NEW d \in DataTimes,
         NEW i \in UserIds \cup {RingIdNone}, Write(s, d, i)
  PROVE  TypeOK'
<1> DEFINE o   == WriteOffset
           idx == EvictedIdx
           nxt == NextOffset(earliest.off)
           pkt(t) == [sn |-> writes + 1, time |-> t, next |-> -1, stream |-> s,
                      start |-> d, id |-> IF i = RingIdNone THEN NextId ELSE i]
<1>1. PICK t \in NSnow :
        /\ slot' = StoredSlots(idx, pkt(t), o)
        /\ streamIdx' = [u \in DOMAIN idx \cup {s} |->
                           IF u = s THEN StreamEntry(idx, pkt(t), o) ELSE idx[u]]
        /\ streamCount' = streamCount
                          - (IF DOMAIN idx = DOMAIN streamIdx THEN 0 ELSE 1)
                          + (IF s \in DOMAIN idx THEN 0 ELSE 1)
        /\ earliest' = IF earliest.off < 0 THEN Summary(pkt(t), o)
                       ELSE IF IsFull THEN Summary(slot[nxt], nxt)
                       ELSE earliest
        /\ latest' = Summary(pkt(t), o)
        /\ clock' = t
        /\ writes' = writes + 1
  BY DEF Write
<1> DEFINE p == pkt(t)
<1>2. writes < MaxWrites /\ UNCHANGED <<reader, last>>
  BY DEF Write
<1>3. o \in Offsets
  BY WriteOffsetType
<1>4. DOMAIN idx \subseteq Streams /\ idx \in [DOMAIN idx -> StreamRecord]
  BY EvictedIdxType DEF TypeOK
<1>5. p \in Packet
  <2>1. p.id \in 0 .. RingIdError
    BY NextIdType, RingAssumption DEF RingIdError, RingIdNone
  <2>2. p.sn \in 0 .. MaxWrites
    BY <1>2, RingAssumption DEF TypeOK
  <2>3. p.time \in 0 .. MaxClock
    BY RingAssumption DEF NSnow
  <2> QED
    BY <2>1, <2>2, <2>3 DEF Packet
<1>6. Summary(p, o) \in PacketSummary
  BY <1>3, <1>5, SummaryType
<1>7. slot' \in [Offsets -> Packet]
  <2> DEFINE stored == [slot EXCEPT ![o] = p]
  <2>1. stored \in [Offsets -> Packet]
    BY <1>3, <1>5 DEF TypeOK
  <2>2. CASE s \notin DOMAIN idx
    BY <1>1, <2>1, <2>2 DEF StoredSlots
  <2>3. CASE s \in DOMAIN idx
    <3> DEFINE l == idx[s].latest.off
    <3>1. slot' = [stored EXCEPT ![l].next = o]
      BY <1>1, <2>3 DEF StoredSlots
    <3> HIDE DEF stored, l, p, o
    <3>2. ASSUME NEW x \in Offsets
          PROVE  [stored[x] EXCEPT !.next = o] \in Packet
      BY <2>1, <1>3, <3>2 DEF Packet
    <3> QED
      BY <2>1, <3>1, <3>2
  <2> QED
    BY <2>2, <2>3
<1>8. earliest' \in PacketSummary
  <2>1. CASE earliest.off < 0
    BY <1>1, <1>6, <2>1
  <2>2. CASE ~(earliest.off < 0) /\ IsFull
    <3>1. earliest.off \in Offsets
      BY <2>2, <1>3 DEF IsFull
    <3>2. nxt \in Offsets /\ slot[nxt] \in Packet
      BY <3>1, NextOffsetType DEF TypeOK
    <3> QED
      BY <1>1, <2>2, <3>2, SummaryType
  <2>3. CASE ~(earliest.off < 0) /\ ~IsFull
    BY <1>1, <2>3 DEF TypeOK
  <2> QED
    BY <2>1, <2>2, <2>3
<1>9. StreamEntry(idx, p, o) \in StreamRecord
  <2> HIDE DEF p, o, idx
  <2>1. CASE p.stream \in DOMAIN idx
    <3>1. idx[p.stream].earliest \in PacketSummary
      BY <1>4, <2>1 DEF StreamRecord
    <3> QED
      BY <1>6, <2>1, <3>1 DEF StreamEntry, StreamRecord
  <2>2. CASE p.stream \notin DOMAIN idx
    BY <1>6, <2>2 DEF StreamEntry, StreamRecord
  <2> QED
    BY <2>1, <2>2
<1>10. DOMAIN streamIdx' \subseteq Streams /\ streamIdx' \in [DOMAIN streamIdx' -> StreamRecord]
  <2>1. streamIdx' = [u \in DOMAIN idx \cup {s} |->
                        IF u = s THEN StreamEntry(idx, p, o) ELSE idx[u]]
    BY <1>1
  <2> HIDE DEF p, o, idx
  <2> QED
    BY <1>4, <1>9, <2>1
<1>11. streamCount' \in Int
  BY <1>1 DEF TypeOK
<1>12. clock' \in 0 .. MaxClock /\ writes' \in 0 .. MaxWrites
  BY <1>1, <1>2, RingAssumption DEF NSnow, TypeOK
<1> QED
  BY <1>1, <1>2, <1>6, <1>7, <1>8, <1>10, <1>11, <1>12 DEF TypeOK

\* Repositioning a reader on a slot keeps the types.
LEMMA MoveToType ==
  ASSUME TypeOK, NEW r \in Readers, NEW o \in Offsets \cup {-1}, MoveTo(r, o)
  PROVE  TypeOK'
<1>1. UNCHANGED ringVars
  BY DEF MoveTo
<1>2. reader' \in [Readers -> ReaderRecord]
  <2>1. CASE o < 0
    BY <2>1 DEF MoveTo, TypeOK
  <2>2. CASE ~(o < 0)
    <3>1. Placed(o) \in ReaderRecord
      BY <2>2, PlacedType
    <3> QED
      BY <2>2, <3>1 DEF MoveTo, TypeOK
  <2> QED
    BY <2>1, <2>2
<1>3. last' \in [Readers -> 0 .. MaxWrites]
  BY RingAssumption DEF MoveTo, TypeOK
<1> QED
  BY <1>1, <1>2, <1>3 DEF TypeOK, ringVars

\* The two ends of a scan are slots once a packet has been written.
LEMMA EndsType ==
  ASSUME TypeOK
  PROVE  /\ earliest.off \in Offsets \cup {-1}
         /\ latest.off \in Offsets \cup {-1}
         /\ EobOffset \in Offsets
<1>1. earliest.off \in Offsets \cup {-1} /\ latest.off \in Offsets \cup {-1}
  BY DEF TypeOK, PacketSummary
<1> QED
  BY <1>1, RingAssumption DEF EobOffset, NextOffset, Offsets

\* What the positioning operations look up is a slot, or nothing.
LEMMA LookupType ==
  ASSUME TypeOK
  PROVE  /\ \A id : FindOffsetForID(id) \in Offsets \cup {-1}
         /\ \A id, t : PositionOffset(id, t) \in Offsets \cup {-1}
         /\ \A d, w : AfterOffset(d, w) \in Offsets \cup {-1}
         /\ \A d, n : AfterRevOffset(d, n) \in Offsets \cup {-1}
<1>1. ASSUME NEW id PROVE FindOffsetForID(id) \in Offsets \cup {-1}
  BY EndsType, FirstFromType DEF FindOffsetForID, Offsets
<1>2. ASSUME NEW id, NEW t PROVE PositionOffset(id, t) \in Offsets \cup {-1}
  BY <1>1 DEF PositionOffset
<1>3. ASSUME NEW d, NEW w PROVE AfterOffset(d, w) \in Offsets \cup {-1}
  <2>1. 0 \in Offsets
    BY RingAssumption DEF Offsets
  <2> QED
    BY <2>1, EndsType, FirstFromType DEF AfterOffset, Offsets
<1>4. ASSUME NEW d, NEW n PROVE AfterRevOffset(d, n) \in Offsets \cup {-1}
  <2> DEFINE match == {i \in Offsets : slot[Back(i)].start >= d}
             taken == {i \in match : Cardinality({j \in match : j <= i}) <= n}
  <2>1. CASE latest.off < 0 \/ taken = {}
    BY <2>1 DEF AfterRevOffset
  <2>2. CASE ~(latest.off < 0 \/ taken = {})
    <3>1. \E x \in taken : \A y \in taken : y <= x
      <4>1. taken \in SUBSET (0 .. MaxPackets - 1) /\ MaxPackets - 1 \in Nat
        BY RingAssumption DEF Offsets
      <4> QED
        BY <2>2, <4>1, Greatest
    <3> DEFINE c == CHOOSE x \in taken : \A y \in taken : y <= x
    <3>2. c \in Offsets
      BY <3>1
    <3>3. Back(c) \in Offsets
      <4> HIDE DEF c
      <4>1. latest.off \in Offsets
        BY <2>2, EndsType, RingAssumption DEF Offsets
      <4>2. (IF c = 0 THEN 0 ELSE MaxPackets - c) \in 0 .. MaxPackets - 1
        BY <3>2, RingAssumption DEF Offsets
      <4> QED
        BY <4>1, <4>2, AtType DEF Back
    <3> QED
      BY <2>2, <3>3 DEF AfterRevOffset
  <2> QED
    BY <2>1, <2>2
<1> QED
  BY <1>1, <1>2, <1>3, <1>4
\* ReadNext keeps the types.
LEMMA ReadNextType ==
  ASSUME TypeOK, EndsTogether, NEW r \in Readers, ReadNext(r)
  PROVE  TypeOK'
<1>1. CASE ReadNextEmpty(r)
  <2>1. reader' \in [Readers -> ReaderRecord]
    BY <1>1, RingAssumption DEF ReadNextEmpty, TypeOK, ReaderRecord, RingIdEarliest, RingIdError
  <2> QED
    BY <1>1, <2>1 DEF ReadNextEmpty, TypeOK, ringVars
<1>2. CASE ReadNextPlace(r)
  <2>1. latest.off \in Offsets
    BY <1>2, EndsType, RingAssumption DEF ReadNextPlace, Offsets
  <2>2. reader' \in [Readers -> ReaderRecord]
    BY <1>2, <2>1, PlacedType DEF ReadNextPlace, TypeOK
  <2> QED
    BY <1>2, <2>2 DEF ReadNextPlace, TypeOK, ringVars
<1>3. CASE ReadNextScan(r)
  <2>1. latest.off \in Offsets /\ earliest.off \in Offsets /\ EobOffset \in Offsets
    BY <1>3, EndsType, RingAssumption DEF ReadNextScan, Offsets, EndsTogether
  <2>2. FirstOffset(r) \in Offsets
    <3>1. reader[r].off \in Offsets \cup {-1}
      BY DEF TypeOK, ReaderRecord
    <3> QED
      BY <2>1, <3>1, NextOffsetType, RingAssumption DEF FirstOffset, Offsets
  <2>3. \A o \in Offsets : Hit(r, o) \in Offsets \cup {-1}
    BY <2>1, FirstFromType DEF Hit
  <2>4. \A o \in Offsets, hit \in Offsets \cup {-1}, before \in Offsets \cup {-1} :
          LastPassed(o, hit, before) \in Offsets \cup {-1}
    BY <2>1, LastPassedType
  <2>5. reader[r].off \in Offsets \cup {-1}
    BY DEF TypeOK, ReaderRecord
  <2>6. PICK hit \in Offsets \cup {-1}, passed \in Offsets \cup {-1} : Return(r, hit, passed)
    <3> DEFINE h == Hit(r, FirstOffset(r))
               a == Hit(r, earliest.off)
               q == LastPassed(FirstOffset(r), h, -1)
    <3>1. h \in Offsets \cup {-1} /\ a \in Offsets \cup {-1}
      BY <2>1, <2>2, <2>3
    <3>2. q \in Offsets \cup {-1}
      BY <2>2, <2>4, <2>5, <3>1
    <3>3. LastPassed(earliest.off, a, q) \in Offsets \cup {-1}
      BY <2>1, <2>4, <3>1, <3>2
    <3>4. Return(r, h, q) \/ Return(r, a, LastPassed(earliest.off, a, q))
      BY <1>3 DEF ReadNextScan
    <3> HIDE DEF h, a, q
    <3> QED
      BY <3>1, <3>2, <3>3, <3>4
  <2>7. reader' \in [Readers -> ReaderRecord] /\ last' \in [Readers -> 0 .. MaxWrites]
    <3>1. CASE hit >= 0 /\ ~Ahead(hit)
      <4>1. hit \in Offsets
        BY <3>1, RingAssumption DEF Offsets
      <4>2. Placed(hit) \in ReaderRecord /\ slot[hit].sn \in 0 .. MaxWrites
        BY <4>1, PlacedType DEF TypeOK, Packet
      <4>3. /\ reader' = [reader EXCEPT ![r] = Placed(hit)]
            /\ last' = [last EXCEPT ![r] = slot[hit].sn]
        BY <2>6, <3>1 DEF Return
      <4> QED
        BY <4>2, <4>3 DEF TypeOK
    <3>2. CASE ~(hit >= 0 /\ ~Ahead(hit))
      <4>1. /\ reader' = IF passed < 0 THEN reader ELSE [reader EXCEPT ![r] = Placed(passed)]
            /\ last' = last
        BY <2>6, <3>2 DEF Return
      <4>2. passed < 0 \/ Placed(passed) \in ReaderRecord
        BY PlacedType, RingAssumption DEF Offsets
      <4> QED
        BY <4>1, <4>2 DEF TypeOK
    <3> QED
      BY <3>1, <3>2
  <2> QED
    BY <1>3, <2>7 DEF ReadNextScan, TypeOK, ringVars
<1> QED
  BY <1>1, <1>2, <1>3 DEF ReadNext

\* Every step keeps the types.
LEMMA NextType ==
  ASSUME TypeOK, EndsTogether, [Next]_vars
  PROVE  TypeOK'
<1>1. CASE WriteSome
  BY <1>1, WriteType DEF WriteSome
<1>2. ASSUME NEW r \in Readers, Reposition(r)
      PROVE  TypeOK'
  <2>1. PICK o \in Offsets \cup {-1} : MoveTo(r, o)
    <3>1. CASE \E i \in 0 .. RingIdMaximum : Read(r, i)
      BY <3>1, LookupType DEF Read
    <3>2. CASE \E i \in 0 .. RingIdError, t \in {Unset} \cup 1 .. MaxClock : Position(r, i, t)
      BY <3>2, LookupType DEF Position
    <3>3. CASE \E d \in DataTimes \cup {0}, w \in {0, 1} : After(r, d, w)
      BY <3>3, LookupType DEF After
    <3>4. CASE \E d \in DataTimes \cup {0}, n \in 0 .. MaxPackets : AfterRev(r, d, n)
      BY <3>4, LookupType DEF AfterRev
    <3> QED
      BY <1>2, <3>1, <3>2, <3>3, <3>4 DEF Reposition
  <2> QED
    BY <2>1, MoveToType
<1>3. ASSUME NEW r \in Readers, StartStream(r)
      PROVE  TypeOK'
  <2>1. reader' \in [Readers -> ReaderRecord]
    BY <1>3, RingAssumption
    DEF StartStream, TypeOK, ReaderRecord, RingIdNext, RingIdEarliest, RingIdError
  <2> QED
    BY <1>3, <2>1 DEF StartStream, TypeOK, ringVars
<1>4. CASE UNCHANGED vars
  BY <1>4 DEF TypeOK, vars
<1> QED
  BY <1>1, <1>2, <1>3, <1>4, ReadNextType DEF Next

\* The empty ring is well typed.
LEMMA InitType ==
  ASSUME Init
  PROVE  TypeOK
<1>1. Blank \in Packet
  BY RingAssumption DEF Blank, Packet, Offsets, RingIdError
<1>2. NoSummary \in PacketSummary
  BY RingAssumption DEF NoSummary, PacketSummary, RingIdNone, RingIdError
<1>3. NewReader \in ReaderRecord
  BY RingAssumption DEF NewReader, ReaderRecord, RingIdNone, RingIdError
<1> QED
  BY <1>1, <1>2, <1>3, RingAssumption DEF Init, TypeOK

-----------------------------------------------------------------------------
(* The window                                                              *)

\* Storing a packet changes, of the other slots, at most the link to the next
\* packet of the stream.
LEMMA StoredLink ==
  ASSUME TypeOK, NEW idx, NEW p \in Packet, NEW o \in Offsets, NEW x \in Offsets
  PROVE  StoredSlots(idx, p, o)[x]
           = IF p.stream \in DOMAIN idx /\ x = idx[p.stream].latest.off
             THEN [(IF x = o THEN p ELSE slot[x]) EXCEPT !.next = o]
             ELSE IF x = o THEN p ELSE slot[x]
<1> DEFINE stored == [slot EXCEPT ![o] = p]
           l == idx[p.stream].latest.off
<1>1. stored \in [Offsets -> Packet] /\ stored[x] = IF x = o THEN p ELSE slot[x]
  BY DEF TypeOK
<1>2. CASE p.stream \notin DOMAIN idx
  BY <1>1, <1>2 DEF StoredSlots
<1>3. CASE p.stream \in DOMAIN idx
  <2>1. StoredSlots(idx, p, o) = [stored EXCEPT ![l].next = o]
    BY <1>3 DEF StoredSlots
  <2> HIDE DEF stored, l
  <2>2. StoredSlots(idx, p, o)[x] = IF x = l THEN [stored[x] EXCEPT !.next = o] ELSE stored[x]
    BY <1>1, <2>1
  <2> QED
    BY <1>1, <1>3, <2>2 DEF l
<1> QED
  BY <1>2, <1>3

LEMMA StoredFields ==
  ASSUME TypeOK, NEW idx, NEW p \in Packet, NEW o \in Offsets, NEW x \in Offsets,
         NEW old, old = IF x = o THEN p ELSE slot[x],
         NEW new, new = StoredSlots(idx, p, o)[x]
  PROVE  /\ new.sn = old.sn /\ Summary(new, x) = Summary(old, x)
         /\ new.stream = old.stream
         /\ new.next = IF p.stream \in DOMAIN idx /\ x = idx[p.stream].latest.off
                       THEN o ELSE old.next
<1>1. old \in Packet
  BY DEF TypeOK
<1>2. new = IF p.stream \in DOMAIN idx /\ x = idx[p.stream].latest.off
            THEN [old EXCEPT !.next = o] ELSE old
  BY StoredLink
<1> QED
  BY <1>1, <1>2 DEF Packet, Summary

\* Write moves the window: it adds the packet after the latest one and, when
\* the ring is full, gives up the earliest.
LEMMA WriteWindow ==
  ASSUME TypeOK, WindowExact, NEW s \in Streams, NEW d \in DataTimes,
         NEW i \in UserIds \cup {RingIdNone}, Write(s, d, i)
  PROVE  WindowExact'
<1> DEFINE o == WriteOffset
           nxt == NextOffset(earliest.off)
<1>1. PICK p \in Packet :
        /\ p.sn = writes + 1
        /\ \A x \in Offsets :
             LET old == IF x = o THEN p ELSE slot[x]
             IN slot'[x].sn = old.sn /\ Summary(slot'[x], x) = Summary(old, x)
        /\ earliest' = IF earliest.off < 0 THEN Summary(p, o)
                       ELSE IF IsFull THEN Summary(slot[nxt], nxt)
                       ELSE earliest
        /\ latest' = Summary(p, o)
  <2>1. NextId \in 0 .. RingIdError
    BY NextIdType
  <2>2. PICK t \in NSnow :
          LET p == [sn |-> writes + 1, time |-> t, next |-> -1, stream |-> s,
                    start |-> d, id |-> IF i = RingIdNone THEN NextId ELSE i]
          IN /\ slot' = StoredSlots(EvictedIdx, p, o)
             /\ earliest' = IF earliest.off < 0 THEN Summary(p, o)
                            ELSE IF IsFull THEN Summary(slot[nxt], nxt)
                            ELSE earliest
             /\ latest' = Summary(p, o)
    BY DEF Write
  <2> DEFINE p == [sn |-> writes + 1, time |-> t, next |-> -1, stream |-> s,
                   start |-> d, id |-> IF i = RingIdNone THEN NextId ELSE i]
  <2>3. p \in Packet
    <3>1. writes < MaxWrites /\ t \in 1 .. MaxClock
      BY DEF Write, NSnow
    <3>2. p.id \in 0 .. RingIdError
      BY <2>1, RingAssumption DEF RingIdError, RingIdNone
    <3> QED
      BY <3>1, <3>2, RingAssumption DEF Packet, TypeOK
  <2>4. o \in Offsets /\ p.sn = writes + 1 /\ p.next = -1
    BY WriteOffsetType
  <2> HIDE DEF p, o
  <2>5. \A x \in Offsets :
          LET old == IF x = o THEN p ELSE slot[x]
          IN slot'[x].sn = old.sn /\ Summary(slot'[x], x) = Summary(old, x)
    <3> TAKE x \in Offsets
    <3> DEFINE old == IF x = o THEN p ELSE slot[x]
    <3>1. slot'[x] = StoredSlots(EvictedIdx, p, o)[x]
      BY <2>2 DEF p
    <3> HIDE DEF old
    <3>2. slot'[x].sn = old.sn /\ Summary(slot'[x], x) = Summary(old, x)
      BY <2>3, <2>4, <3>1, StoredFields DEF old
    <3> QED
      BY <3>2 DEF old
  <2> QED
    BY <2>2, <2>3, <2>4, <2>5 DEF p
<1>2. writes' = writes + 1 /\ writes \in Nat
  BY DEF Write, TypeOK
<1>3. o \in Offsets
  BY WriteOffsetType
<1>4. latest'.off = o /\ latest' = Summary(slot'[o], o)
  BY <1>1, <1>3 DEF Summary
<1>5. CASE writes = 0
  <2>1. earliest.off = -1 /\ latest.off = -1 /\ Live = {}
    BY <1>5 DEF WindowExact, NoSummary
  <2>2. o = 0 /\ earliest' = Summary(slot'[o], o) /\ earliest'.off = o
    BY <1>1, <1>3, <2>1 DEF WriteOffset, Summary
  <2>3. Held' = 1
    BY <1>2, <1>5, RingAssumption DEF Held
  <2>4. \A x \in Offsets : slot'[x].sn = IF x = 0 THEN 1 ELSE 0
    <3>1. \A x \in Offsets : slot[x].sn \in Nat /\ ~(slot[x].sn > 0)
      BY <2>1 DEF Live, TypeOK, Packet
    <3> QED
      BY <1>1, <1>5, <2>2, <3>1
  <2>5. \A x \in Offsets : Steps(0, x) = x
    BY RingAssumption DEF Steps, Offsets
  <2> QED
    BY <1>2, <1>3, <1>4, <1>5, <2>2, <2>3, <2>4, <2>5, RingAssumption DEF WindowExact, Offsets
<1>6. CASE writes > 0
  <2> DEFINE e == earliest.off
  <2>1. /\ e \in Offsets /\ latest.off \in Offsets
        /\ Steps(e, latest.off) = Held - 1
        /\ \A x \in Offsets :
             slot[x].sn = IF Steps(e, x) < Held THEN writes - Held + 1 + Steps(e, x) ELSE 0
        /\ earliest = Summary(slot[e], e)
    BY <1>6 DEF WindowExact
  <2>2. o = NextOffset(latest.off)
    BY <2>1, RingAssumption DEF WriteOffset, Offsets
  <2>3. CASE writes < MaxPackets
    <3>1. Held = writes /\ Held' = writes + 1
      BY <1>2, <2>3, RingAssumption DEF Held
    <3>2. o # e /\ Steps(e, o) = Held
      <4> DEFINE l == latest.off
      <4>1. l \in Offsets /\ e \in Offsets /\ Steps(e, l) = writes - 1 /\ o = NextOffset(l)
        BY <2>1, <2>2, <3>1
      <4> HIDE DEF l, e, o
      <4> QED
        BY <1>2, <1>6, <2>3, <3>1, <4>1, RingAssumption DEF Steps, NextOffset, Offsets
    <3>3. earliest' = earliest
      BY <1>1, <2>1, <3>2, RingAssumption DEF IsFull, Offsets
    <3>4. earliest' = Summary(slot'[e], e) /\ earliest'.off = e
      BY <1>1, <2>1, <3>2, <3>3
    <3>5. \A x \in Offsets : x # o => Steps(e, x) # Steps(e, o)
      BY <1>3, <2>1, RingAssumption DEF Steps, Offsets
    <3>6. \A x \in Offsets : Steps(e, x) \in Nat
      BY <2>1, StepsType, RingAssumption
    <3>7. \A x \in Offsets :
            slot'[x].sn = IF Steps(e, x) < Held' THEN writes' - Held' + 1 + Steps(e, x) ELSE 0
      <4> TAKE x \in Offsets
      <4> HIDE DEF o, e
      <4>1. CASE x = o
        BY <1>1, <1>2, <4>1, <3>1, <3>2
      <4>2. CASE x # o
        BY <1>1, <1>2, <4>2, <2>1, <3>1, <3>2, <3>5, <3>6
      <4> QED
        BY <4>1, <4>2
    <3> QED
      BY <1>2, <1>3, <1>4, <1>6, <2>1, <3>1, <3>2, <3>4, <3>7 DEF WindowExact
  <2>4. CASE writes >= MaxPackets
    <3>1. Held = MaxPackets /\ Held' = MaxPackets
      BY <1>2, <2>4, RingAssumption DEF Held
    <3>2. o = e
      BY <2>1, <2>2, <3>1, RingAssumption DEF Steps, NextOffset, Offsets
    <3>3. nxt \in Offsets /\ nxt # o
      BY <2>1, <3>2, RingAssumption DEF NextOffset, Offsets
    <3>4. earliest' = Summary(slot'[nxt], nxt) /\ earliest'.off = nxt
      BY <1>1, <2>1, <3>2, <3>3, RingAssumption DEF IsFull, Offsets, Summary
    <3>5. \A x \in Offsets :
            /\ Steps(nxt, x) = IF x = o THEN MaxPackets - 1 ELSE Steps(e, x) - 1
            /\ Steps(e, x) \in 0 .. MaxPackets - 1
      BY <2>1, <3>2, RingAssumption DEF Steps, NextOffset, Offsets
    <3>6. \A x \in Offsets :
            slot'[x].sn = IF Steps(nxt, x) < Held' THEN writes' - Held' + 1 + Steps(nxt, x) ELSE 0
      <4> TAKE x \in Offsets
      <4> HIDE DEF o, e, nxt
      <4>1. CASE x = o
        BY <1>1, <1>2, <4>1, <3>1, <3>5, RingAssumption
      <4>2. CASE x # o
        BY <1>1, <1>2, <4>2, <2>1, <3>1, <3>5, RingAssumption
      <4> QED
        BY <4>1, <4>2
    <3>7. Steps(nxt, o) = Held' - 1
      BY <1>3, <3>1, <3>5
    <3> QED
      BY <1>2, <1>3, <1>4, <1>6, <3>3, <3>4, <3>6, <3>7 DEF WindowExact
  <2> QED
    BY <1>2, <2>3, <2>4, RingAssumption
<1> QED
  BY <1>2, <1>5, <1>6

-----------------------------------------------------------------------------
(* Theorems                                                                *)

\* The window leaves RingParams with both ends or with neither.
LEMMA WindowEnds ==
  ASSUME TypeOK, WindowExact
  PROVE  EndsTogether
BY RingAssumption DEF WindowExact, EndsTogether, NoSummary, Offsets

\* The types and the window together are inductive.
RingInv == TypeOK /\ WindowExact

\* Every state of the ring satisfies RingInv.
LEMMA RingInvariant == Spec => []RingInv
<1>1. Init => RingInv
  <2> SUFFICES ASSUME Init PROVE WindowExact
    BY InitType DEF RingInv
  <2> QED
    BY DEF Init, WindowExact, Live, Blank
<1>2. RingInv /\ [Next]_vars => RingInv'
  <2> SUFFICES ASSUME RingInv, [Next]_vars PROVE WindowExact'
    BY NextType, WindowEnds DEF RingInv
  <2>1. CASE WriteSome
    BY <2>1, WriteWindow DEF WriteSome, RingInv
  <2>2. CASE UNCHANGED ringVars
    BY <2>2 DEF RingInv, WindowExact, ringVars, Held, Live
  <2> QED
    BY <2>1, <2>2 DEF Next, Reposition, Read, Position, After, AfterRev, MoveTo,
       StartStream, ReadNext, ReadNextEmpty, ReadNextPlace, ReadNextScan, vars, ringVars
<1> QED
  BY <1>1, <1>2, PTL DEF Spec

\* Every value the ring, its index and its readers hold has its type: in
\* particular no offset ever leaves the slots and no id leaves the ulongs.
THEOREM TypeCorrect == Spec => []TypeOK
BY RingInvariant, PTL DEF RingInv

\* Write keeps the window exact: the slots from earliest to latest hold the
\* packets of the last writes in order, and RingParams describes its two ends.
THEOREM WindowCorrect == Spec => []WindowExact
BY RingInvariant, PTL DEF RingInv

-----------------------------------------------------------------------------
(* The stream index and the chains of a set of slots                       *)

\* sl is a content of the slots, L the offsets that hold packets.
Members(sl, L, s) == {x \in L : sl[x].stream = s}

Later(sl, L, x) == {y \in L : sl[y].stream = sl[x].stream /\ sl[y].sn > sl[x].sn}

Oldest(sl, S, x) == x \in S /\ \A y \in S : sl[x].sn <= sl[y].sn
Newest(sl, S, x) == x \in S /\ \A y \in S : sl[x].sn >= sl[y].sn

EntryFits(entry, sl, S) ==
  /\ \E x \in S : Oldest(sl, S, x) /\ entry.earliest = Summary(sl[x], x)
  /\ \E x \in S : Newest(sl, S, x) /\ entry.latest = Summary(sl[x], x)

IndexFits(idx, sl, L) ==
  /\ DOMAIN idx = {s \in Streams : Members(sl, L, s) # {}}
  /\ \A s \in DOMAIN idx : EntryFits(idx[s], sl, Members(sl, L, s))

ChainFits(sl, L) ==
  \A x \in L : IF Later(sl, L, x) = {} THEN sl[x].next = -1
              ELSE Oldest(sl, Later(sl, L, x), sl[x].next)

\* new is the index idx once the packet at offset e of stream s is gone from it.
Evicts(idx, new, sl, e, s) ==
  IF idx[s].earliest.off = e /\ idx[s].latest.off = e
  THEN DOMAIN new = DOMAIN idx \ {s} /\ \A u \in DOMAIN new : new[u] = idx[u]
  ELSE IF sl[e].next >= 0
  THEN /\ DOMAIN new = DOMAIN idx /\ \A u \in DOMAIN new \ {s} : new[u] = idx[u]
       /\ new[s].earliest = Summary(sl[sl[e].next], sl[e].next)
       /\ new[s].latest = idx[s].latest
  ELSE new = idx

\* new is the index idx once it has taken in the packet p at offset o.
Inserts(idx, new, p, o) ==
  /\ DOMAIN new = DOMAIN idx \cup {p.stream}
  /\ \A u \in DOMAIN new \ {p.stream} : new[u] = idx[u]
  /\ new[p.stream].earliest = IF p.stream \in DOMAIN idx THEN idx[p.stream].earliest
                              ELSE Summary(p, o)
  /\ new[p.stream].latest = Summary(p, o)

\* The slots new are the slots sl of L with the packet at o linked to its stream.
Links(idx, sl, new, L, o) ==
  \A x \in L : /\ new[x].sn = sl[x].sn /\ new[x].stream = sl[x].stream
              /\ Summary(new[x], x) = Summary(sl[x], x)
              /\ new[x].next = IF new[o].stream \in DOMAIN idx
                                  /\ x = idx[new[o].stream].latest.off
                               THEN o ELSE sl[x].next

\* Write takes the oldest packet out of the index: the next of its stream follows it.
LEMMA EvictFits ==
  ASSUME NEW sl \in [Offsets -> Packet], NEW L \in SUBSET Offsets, NEW e, Oldest(sl, L, e),
         \A x, y \in L : sl[x].sn = sl[y].sn => x = y,
         \A x \in L : sl[x].stream \in Streams,
         NEW idx, IndexFits(idx, sl, L), ChainFits(sl, L),
         NEW new, Evicts(idx, new, sl, e, sl[e].stream)
  PROVE  IndexFits(new, sl, L \ {e}) /\ ChainFits(sl, L \ {e})
<1> DEFINE s0 == sl[e].stream
           M(s) == Members(sl, L, s)
           M1(s) == Members(sl, L \ {e}, s)
<1>1. /\ e \in M(s0) /\ s0 \in Streams /\ s0 \in DOMAIN idx
      /\ M1(s0) = M(s0) \ {e} /\ \A s \in Streams \ {s0} : M1(s) = M(s)
  BY DEF Oldest, Members, IndexFits
<1>2. \A x \in L : sl[x].sn \in Nat /\ sl[x].next \in Int /\ Summary(sl[x], x).off = x
  BY RingAssumption DEF Packet, Summary, Offsets
<1>3. idx[s0].earliest.off = e
  <2>1. PICK x \in M(s0) : Oldest(sl, M(s0), x) /\ idx[s0].earliest = Summary(sl[x], x)
    BY <1>1 DEF IndexFits, EntryFits
  <2>2. x \in L /\ sl[x].sn = sl[e].sn
    BY <1>1, <1>2, <2>1 DEF Oldest, Members
  <2> QED
    BY <1>2, <2>1, <2>2 DEF Oldest
<1>4. PICK z \in M(s0) : Newest(sl, M(s0), z) /\ idx[s0].latest = Summary(sl[z], z)
  BY <1>1 DEF IndexFits, EntryFits
<1>5. idx[s0].latest.off = z /\ z \in L
  BY <1>2, <1>4 DEF Members
<1>6. ASSUME NEW y \in M(s0), y # e PROVE sl[y].sn > sl[e].sn /\ y \in Later(sl, L, e)
  <2>1. y \in L /\ e \in L /\ sl[e].sn <= sl[y].sn /\ sl[y].sn # sl[e].sn
    BY <1>6 DEF Oldest, Members
  <2> QED
    BY <1>2, <1>6, <2>1 DEF Later, Members
<1>7. ChainFits(sl, L \ {e})
  <2> SUFFICES ASSUME NEW x \in L \ {e}
               PROVE  Later(sl, L \ {e}, x) = Later(sl, L, x)
    BY DEF ChainFits
  <2>1. ~(sl[e].sn > sl[x].sn)
    BY <1>2 DEF Oldest
  <2> QED
    BY <2>1 DEF Later
<1>8. CASE z = e
  <2>1. M(s0) = {e}
    <3>1. ASSUME NEW y \in M(s0), y # e PROVE FALSE
      <4>1. y \in L /\ sl[y].sn <= sl[e].sn
        BY <1>4, <1>8 DEF Newest, Members
      <4> QED
        BY <1>2, <1>5, <1>6, <1>8, <3>1, <4>1
    <3> QED
      BY <1>1, <3>1
  <2>2. DOMAIN new = DOMAIN idx \ {s0} /\ \A s \in DOMAIN new : new[s] = idx[s]
    BY <1>3, <1>5, <1>8 DEF Evicts
  <2>3. DOMAIN new = {s \in Streams : M1(s) # {}}
    BY <1>1, <2>1, <2>2 DEF IndexFits
  <2>4. \A s \in DOMAIN new : EntryFits(new[s], sl, M1(s))
    BY <1>1, <2>2 DEF IndexFits
  <2> HIDE DEF M1
  <2>5. IndexFits(new, sl, L \ {e})
    BY <2>3, <2>4 DEF IndexFits, M1
  <2> QED
    BY <1>1, <1>7, <2>2, <2>5
<1>9. CASE z # e
  <2> DEFINE n == sl[e].next
  <2>1. Later(sl, L, e) = M1(s0)
    BY <1>1, <1>2, <1>6 DEF Later, Members, Oldest
  <2>2. Oldest(sl, M1(s0), n) /\ n \in L /\ M1(s0) # {}
    BY <1>1, <1>9, <2>1 DEF ChainFits, Oldest, Members
  <2>3. n >= 0
    <3> HIDE DEF n
    <3> QED
      BY <2>2, RingAssumption DEF Offsets
  <2>5. /\ DOMAIN new = DOMAIN idx /\ \A s \in DOMAIN idx \ {s0} : new[s] = idx[s]
        /\ new[s0].earliest = Summary(sl[n], n) /\ new[s0].latest = idx[s0].latest
    BY <1>5, <1>9, <2>3 DEF Evicts
  <2>6. EntryFits(new[s0], sl, M1(s0))
    <3>1. Newest(sl, M1(s0), z)
      BY <1>1, <1>4, <1>9 DEF Newest
    <3> QED
      BY <1>4, <2>2, <2>5, <3>1 DEF EntryFits, Oldest, Newest
  <2>7. DOMAIN new = {s \in Streams : M1(s) # {}}
    BY <1>1, <2>2, <2>5 DEF IndexFits
  <2>8. \A s \in DOMAIN new : EntryFits(new[s], sl, M1(s))
    BY <1>1, <2>5, <2>6 DEF IndexFits
  <2> HIDE DEF M1
  <2>9. IndexFits(new, sl, L \ {e})
    BY <2>7, <2>8 DEF IndexFits, M1
  <2> QED
    BY <1>1, <1>7, <2>5, <2>9
<1> QED
  BY <1>8, <1>9

\* Write puts the newest packet into the index, behind the last one of its stream.
LEMMA StoreFits ==
  ASSUME NEW sl \in [Offsets -> Packet], NEW new \in [Offsets -> Packet],
         NEW L \in SUBSET Offsets, NEW o \in Offsets, o \notin L,
         \A x \in L : sl[x].stream \in Streams, new[o].stream \in Streams,
         NEW idx, IndexFits(idx, sl, L), ChainFits(sl, L),
         Links(idx, sl, new, L, o),
         \A x \in L : sl[x].sn < new[o].sn, new[o].next = -1,
         \A x, y \in L : sl[x].sn = sl[y].sn => x = y,
         NEW idx2, Inserts(idx, idx2, new[o], o)
  PROVE  IndexFits(idx2, new, L \cup {o}) /\ ChainFits(new, L \cup {o})
<1> DEFINE s == new[o].stream
           M(u) == Members(sl, L, u)
           M1(u) == Members(new, L \cup {o}, u)
<1> USE DEF Links, Inserts
<1>1. /\ M1(s) = M(s) \cup {o} /\ \A u \in Streams \ {s} : M1(u) = M(u)
  BY DEF Members
<1>2. /\ \A x \in L : sl[x].sn \in Nat /\ Summary(sl[x], x).off = x
      /\ new[o].sn \in Nat
  BY DEF Packet, Summary
<1>3. ASSUME NEW u \in DOMAIN idx PROVE M(u) \subseteq L /\ M(u) # {} /\ u \in Streams
  BY DEF IndexFits, Members
<1>4. IndexFits(idx2, new, L \cup {o})
  <2>1. DOMAIN idx2 = {u \in Streams : M1(u) # {}}
    BY <1>1 DEF IndexFits
  <2>2. ASSUME NEW u \in DOMAIN idx2 PROVE EntryFits(idx2[u], new, M1(u))
    <3>1. CASE u # s
      <4>1. u \in DOMAIN idx /\ idx2[u] = idx[u] /\ M1(u) = M(u)
        BY <1>1, <1>3, <2>2, <3>1
      <4>2. EntryFits(idx[u], sl, M(u)) /\ M(u) \subseteq L
        BY <1>3, <4>1 DEF IndexFits
      <4> HIDE DEF M, M1, s
      <4> QED
        BY <4>1, <4>2 DEF EntryFits, Oldest, Newest
    <3>2. CASE u = s
      <4>1. Newest(new, M1(s), o) /\ idx2[s].latest = Summary(new[o], o)
        BY <1>1, <1>2 DEF Newest, Members
      <4>2. \E x \in M1(s) : Oldest(new, M1(s), x) /\ idx2[s].earliest = Summary(new[x], x)
        <5>1. CASE s \in DOMAIN idx
          <6>1. PICK x \in M(s) : Oldest(sl, M(s), x) /\ idx[s].earliest = Summary(sl[x], x)
            BY <5>1 DEF IndexFits, EntryFits
          <6>2. x \in L /\ M(s) \subseteq L /\ idx2[s].earliest = idx[s].earliest
            BY <1>3, <5>1, <6>1
          <6>3. ASSUME NEW y \in M(s) \cup {o} PROVE new[x].sn <= new[y].sn
            <7>1. CASE y = o
              BY <1>2, <6>2, <7>1
            <7>2. CASE y # o
              BY <6>1, <6>2, <7>2 DEF Oldest
            <7> QED
              BY <7>1, <7>2
          <6>4. x \in M1(s) /\ Oldest(new, M1(s), x)
            BY <1>1, <6>1, <6>3 DEF Oldest
          <6> QED
            BY <6>1, <6>2, <6>4
        <5>2. CASE s \notin DOMAIN idx
          <6>1. M1(s) = {o} /\ idx2[s].earliest = Summary(new[o], o)
            BY <1>1, <5>2 DEF IndexFits
          <6>2. Oldest(new, {o}, o)
            BY <1>2 DEF Oldest
          <6> HIDE DEF M1, s
          <6>3. o \in M1(s) /\ Oldest(new, M1(s), o)
            BY <6>1, <6>2
          <6> QED
            BY <6>1, <6>3
        <5> QED
          BY <5>1, <5>2
      <4> HIDE DEF M, M1, s
      <4> QED
        BY <1>1, <3>2, <4>1, <4>2 DEF EntryFits
    <3> QED
      BY <3>1, <3>2
  <2> HIDE DEF M1
  <2> QED
    BY <2>1, <2>2 DEF IndexFits, M1
<1>5. ChainFits(new, L \cup {o})
  <2> SUFFICES ASSUME NEW x \in L \cup {o}
               PROVE  IF Later(new, L \cup {o}, x) = {} THEN new[x].next = -1
                      ELSE Oldest(new, Later(new, L \cup {o}, x), new[x].next)
    BY DEF ChainFits
  <2>1. CASE x = o
    <3>1. Later(new, L \cup {o}, o) = {}
      BY <1>2 DEF Later
    <3> QED
      BY <2>1, <3>1
  <2>2. CASE x \in L /\ sl[x].stream # s
    <3>1. Later(new, L \cup {o}, x) = Later(sl, L, x)
      BY <2>2 DEF Later
    <3>2. new[x].next = sl[x].next
      <4>1. CASE s \in DOMAIN idx
        <5>1. PICK z \in M(s) : idx[s].latest = Summary(sl[z], z)
          BY <4>1 DEF IndexFits, EntryFits
        <5>2. idx[s].latest.off = z /\ sl[z].stream = s
          BY <1>2, <5>1 DEF Members
        <5> QED
          BY <2>2, <5>2
      <4>2. CASE s \notin DOMAIN idx
        BY <2>2, <4>2
      <4> QED
        BY <4>1, <4>2
    <3> QED
      BY <2>2, <3>1, <3>2 DEF ChainFits, Oldest, Later
  <2>3. CASE x \in L /\ sl[x].stream = s
    <3>1. /\ Later(new, L \cup {o}, x) = Later(sl, L, x) \cup {o}
          /\ Later(sl, L, x) \subseteq M(s) /\ M(s) \subseteq L /\ x \in M(s)
      BY <2>3 DEF Later, Members
    <3>2. s \in DOMAIN idx
      BY <2>3, <3>1 DEF IndexFits
    <3>3. PICK z \in M(s) : Newest(sl, M(s), z) /\ idx[s].latest = Summary(sl[z], z)
      BY <3>2 DEF IndexFits, EntryFits
    <3>4. idx[s].latest.off = z /\ z \in L
      BY <1>2, <3>1, <3>3
    <3>5. CASE Later(sl, L, x) = {}
      <4>1. \A y \in M(s) : sl[y].sn <= sl[x].sn
        BY <1>2, <2>3, <3>5 DEF Later, Members
      <4>2. new[x].next \in {o, -1} /\ (x = z => new[x].next = o)
        BY <2>3, <3>2, <3>4, <3>5 DEF ChainFits
      <4> QED
        <5>1. sl[x].sn = sl[z].sn
          <6>1. sl[z].sn <= sl[x].sn /\ sl[x].sn <= sl[z].sn
            BY <3>1, <3>3, <4>1 DEF Newest
          <6> QED
            BY <1>2, <2>3, <3>4, <6>1
        <5>2. x = z
          BY <2>3, <3>4, <5>1
        <5>3. Later(new, L \cup {o}, x) = {o} /\ new[x].next = o
          BY <3>1, <3>5, <4>2, <5>2
        <5>4. Oldest(new, {o}, o)
          BY <1>2 DEF Oldest
        <5> QED
          BY <5>3, <5>4
    <3>6. CASE Later(sl, L, x) # {}
      <4>1. x # z
        BY <1>2, <3>1, <3>3, <3>4, <3>6 DEF Newest, Later
      <4>2. new[x].next = sl[x].next /\ Oldest(sl, Later(sl, L, x), sl[x].next)
        BY <2>3, <3>4, <3>6, <4>1 DEF ChainFits
      <4> DEFINE n == sl[x].next
      <4>3. n \in Later(sl, L, x) /\ n \in L /\ \A y \in Later(sl, L, x) : sl[n].sn <= sl[y].sn
        BY <4>2 DEF Oldest, Later
      <4> HIDE DEF n
      <4>4. ASSUME NEW y \in Later(sl, L, x) \cup {o} PROVE new[n].sn <= new[y].sn
        <5>1. CASE y = o
          BY <1>2, <4>3, <5>1
        <5>2. CASE y \in Later(sl, L, x)
          BY <4>3, <5>2 DEF Later
        <5> QED
          BY <5>1, <5>2
      <4>5. Oldest(new, Later(sl, L, x) \cup {o}, n)
        BY <4>3, <4>4 DEF Oldest
      <4> QED
        BY <3>1, <3>6, <4>2, <4>5 DEF n
    <3> QED
      BY <3>5, <3>6
  <2> QED
    BY <2>1, <2>2, <2>3
<1> QED
  BY <1>4, <1>5

-----------------------------------------------------------------------------
(* The stream index and the chains of the ring                             *)

\* The index and the chains describe the packets the ring holds.
IndexInv ==
  /\ \A o \in Live : slot[o].stream \in Streams /\ slot[o].start \in DataTimes
  /\ IndexFits(streamIdx, slot, Live)
  /\ ChainFits(slot, Live)
  /\ IsFiniteSet(DOMAIN streamIdx)
  /\ streamCount = Cardinality(DOMAIN streamIdx)

\* In a full ring Write takes the place of the oldest packet, otherwise an
\* empty slot.
LEMMA WindowFacts ==
  ASSUME TypeOK, WindowExact
  PROVE  /\ \A x \in Live : slot[x].sn <= writes
         /\ \A x, y \in Live : slot[x].sn = slot[y].sn => x = y
         /\ IsFull => Oldest(slot, Live, earliest.off) /\ earliest.off = WriteOffset
         /\ ~IsFull => WriteOffset \notin Live
<1>1. writes \in Nat
  BY DEF TypeOK
<1>2. CASE writes = 0
  BY <1>2 DEF WindowExact, IsFull, NoSummary
<1>3. CASE writes > 0
  <2> DEFINE e == earliest.off
             l == latest.off
  <2>1. /\ e \in Offsets /\ l \in Offsets /\ Steps(e, l) = Held - 1
        /\ \A x \in Offsets :
             slot[x].sn = IF Steps(e, x) < Held THEN writes - Held + 1 + Steps(e, x) ELSE 0
    BY <1>3 DEF WindowExact
  <2>2. Held \in 1 .. MaxPackets /\ Held <= writes
    BY <1>1, <1>3, RingAssumption DEF Held
  <2> HIDE DEF e, l
  <2>3. \A x, y \in Offsets : Steps(e, x) = Steps(e, y) => x = y
    BY <2>1, RingAssumption DEF Steps, Offsets
  <2>4. \A x \in Offsets : Steps(e, x) \in Nat
    BY <2>1, StepsType, RingAssumption
  <2>5. \A x \in Live : /\ x \in Offsets /\ Steps(e, x) < Held
                        /\ slot[x].sn = writes - Held + 1 + Steps(e, x)
    BY <2>1 DEF Live
  <2>6. \A x \in Live : slot[x].sn <= writes
    BY <1>1, <2>2, <2>4, <2>5
  <2>7. \A x, y \in Live : slot[x].sn = slot[y].sn => x = y
    BY <1>1, <2>2, <2>3, <2>4, <2>5
  <2>8. Steps(e, e) = 0
    BY <2>1, RingAssumption DEF Steps, Offsets
  <2>9. Oldest(slot, Live, e)
    <3>1. slot[e].sn = writes - Held + 1 /\ e \in Live
      BY <1>1, <2>1, <2>2, <2>8 DEF Live
    <3> QED
      BY <1>1, <2>2, <2>4, <2>5, <3>1 DEF Oldest
  <2>10. WriteOffset = NextOffset(l) /\ (IsFull <=> NextOffset(l) = e)
    BY <2>1, RingAssumption DEF WriteOffset, IsFull, Offsets, e, l
  <2>11. NextOffset(l) # e => NextOffset(l) \in Offsets /\ Steps(e, NextOffset(l)) = Held
    BY <2>1, <2>2, RingAssumption DEF Steps, NextOffset, Offsets
  <2>12. NextOffset(l) # e => NextOffset(l) \notin Live
    BY <2>2, <2>5, <2>11
  <2> QED
    BY <2>6, <2>7, <2>9, <2>10, <2>12 DEF e
<1> QED
  BY <1>1, <1>2, <1>3

\* Write brings the index and the chains in step with the window it moves.
LEMMA WriteIndex ==
  ASSUME TypeOK, TypeOK', WindowExact, IndexInv, NEW s \in Streams, NEW d \in DataTimes,
         NEW i \in UserIds \cup {RingIdNone}, Write(s, d, i)
  PROVE  IndexInv'
<1> DEFINE o == WriteOffset
           idx == EvictedIdx
           L1 == Live \ {o}
           D == DOMAIN streamIdx
<1>1. PICK p \in Packet :
        /\ p.sn = writes + 1 /\ p.stream = s /\ p.start = d /\ p.next = -1
        /\ slot' = StoredSlots(idx, p, o)
        /\ streamIdx' = [u \in DOMAIN idx \cup {s} |->
                           IF u = s THEN StreamEntry(idx, p, o) ELSE idx[u]]
        /\ streamCount' = streamCount - (IF DOMAIN idx = D THEN 0 ELSE 1)
                          + (IF s \in DOMAIN idx THEN 0 ELSE 1)
  <2>1. PICK t \in NSnow :
          LET p == [sn |-> writes + 1, time |-> t, next |-> -1, stream |-> s,
                    start |-> d, id |-> IF i = RingIdNone THEN NextId ELSE i]
          IN /\ slot' = StoredSlots(idx, p, o)
             /\ streamIdx' = [u \in DOMAIN idx \cup {s} |->
                                IF u = s THEN StreamEntry(idx, p, o) ELSE idx[u]]
             /\ streamCount' = streamCount - (IF DOMAIN idx = D THEN 0 ELSE 1)
                               + (IF s \in DOMAIN idx THEN 0 ELSE 1)
    BY DEF Write
  <2> DEFINE p == [sn |-> writes + 1, time |-> t, next |-> -1, stream |-> s,
                   start |-> d, id |-> IF i = RingIdNone THEN NextId ELSE i]
  <2>2. p \in Packet
    <3>1. writes < MaxWrites /\ t \in 1 .. MaxClock
      BY DEF Write, NSnow
    <3>2. p.id \in 0 .. RingIdError
      BY NextIdType, RingAssumption DEF RingIdError, RingIdNone
    <3> QED
      BY <3>1, <3>2, RingAssumption DEF Packet, TypeOK
  <2> HIDE DEF o, idx, D
  <2> QED
    BY <2>1, <2>2
<1>2. o \in Offsets /\ writes \in Nat /\ slot \in [Offsets -> Packet] /\ Live \subseteq Offsets
  BY WriteOffsetType DEF TypeOK, Live
<1>3. slot' \in [Offsets -> Packet]
  BY DEF TypeOK
<1>4. \A x \in Offsets :
        LET old == IF x = o THEN p ELSE slot[x]
        IN /\ slot'[x].sn = old.sn /\ Summary(slot'[x], x) = Summary(old, x)
           /\ slot'[x].stream = old.stream
           /\ slot'[x].next = IF s \in DOMAIN idx /\ x = idx[s].latest.off
                              THEN o ELSE old.next
  <2> TAKE x \in Offsets
  <2> DEFINE old == IF x = o THEN p ELSE slot[x]
  <2> HIDE DEF o, idx, old
  <2>1. slot'[x] = StoredSlots(idx, p, o)[x]
    BY <1>1
  <2>2. /\ slot'[x].sn = old.sn /\ Summary(slot'[x], x) = Summary(old, x)
        /\ slot'[x].stream = old.stream
        /\ slot'[x].next = IF p.stream \in DOMAIN idx /\ x = idx[p.stream].latest.off
                           THEN o ELSE old.next
    BY <1>2, <2>1, StoredFields DEF old
  <2> QED
    BY <1>1, <2>2 DEF old
<1>5. Live' = L1 \cup {o}
  <2>1. slot'[o].sn > 0 /\ \A x \in Offsets \ {o} : slot'[x].sn = slot[x].sn
    BY <1>1, <1>2, <1>4
  <2> QED
    BY <1>2, <2>1 DEF Live
<1>6. /\ IndexFits(idx, slot, L1) /\ ChainFits(slot, L1) /\ IsFiniteSet(D)
      /\ DOMAIN idx = D \/ \E u \in D : DOMAIN idx = D \ {u}
  <2>1. CASE IsFull
    <3> DEFINE e == earliest.off
    <3>1. Oldest(slot, Live, e) /\ e = o
      BY <2>1, WindowFacts
    <3>2. slot[e].stream \in D
      BY <3>1 DEF IndexInv, IndexFits, Members, Oldest
    <3>3. Evicts(streamIdx, idx, slot, e, slot[e].stream)
      <4> DEFINE u == slot[e].stream
                 n == slot[e].next
      <4>1. IF streamIdx[u].earliest.off = e /\ streamIdx[u].latest.off = e
            THEN idx = [v \in D \ {u} |-> streamIdx[v]]
            ELSE IF n >= 0
            THEN idx = [streamIdx EXCEPT ![u].earliest = Summary(slot[n], n)]
            ELSE idx = streamIdx
        BY <2>1, <3>2 DEF EvictedIdx, OnlyInStream
      <4>2. u \in D /\ streamIdx[u] \in StreamRecord /\ streamIdx = [v \in D |-> streamIdx[v]]
        BY <3>2 DEF TypeOK
      <4> HIDE DEF u, n, e, idx, o, L1
      <4>3. Evicts(streamIdx, idx, slot, e, u)
        BY <4>1, <4>2 DEF Evicts, StreamRecord, n, u
      <4> QED
        BY <4>3 DEF u
    <3>4. /\ \A x, y \in Live : slot[x].sn = slot[y].sn => x = y
          /\ \A x \in Live : slot[x].stream \in Streams
          /\ IndexFits(streamIdx, slot, Live) /\ ChainFits(slot, Live) /\ IsFiniteSet(D)
      BY WindowFacts DEF IndexInv
    <3> HIDE DEF e, o, idx
    <3> QED
      <4>1. e \in Live /\ L1 = Live \ {e}
        BY <3>1 DEF Oldest, L1
      <4>2. /\ IndexFits(idx, slot, Live \ {e}) /\ ChainFits(slot, Live \ {e})
            /\ DOMAIN idx = D \/ DOMAIN idx = D \ {slot[e].stream}
        <5>1. Live \in SUBSET Offsets /\ slot \in [Offsets -> Packet]
          BY <1>2
        <5> HIDE DEF D, L1
        <5>2. IndexFits(idx, slot, Live \ {e}) /\ ChainFits(slot, Live \ {e})
          BY ONLY <3>1, <3>3, <3>4, <5>1, EvictFits
        <5>3. DOMAIN idx = DOMAIN streamIdx \/ DOMAIN idx = DOMAIN streamIdx \ {slot[e].stream}
          BY ONLY <3>3 DEF Evicts
        <5> QED
          BY <5>2, <5>3 DEF D
      <4> QED
        BY <3>2, <3>4, <4>1, <4>2
  <2>2. CASE ~IsFull
    <3>1. idx = streamIdx /\ L1 = Live
      BY <2>2, WindowFacts DEF EvictedIdx
    <3> QED
      BY <3>1 DEF IndexInv
  <2> QED
    BY <2>1, <2>2
<1>7. /\ L1 \subseteq Offsets /\ o \notin L1 /\ \A x \in L1 : slot[x].stream \in Streams
      /\ \A x \in L1 : slot[x].sn < slot'[o].sn
      /\ \A x, y \in L1 : slot[x].sn = slot[y].sn => x = y
  <2>1. slot'[o].sn = writes + 1
    BY <1>1, <1>2, <1>4
  <2>2. \A x \in Live : slot[x].sn \in Nat /\ slot[x].sn <= writes
    BY <1>2, WindowFacts DEF Packet
  <2> QED
    BY <1>2, <2>1, <2>2, WindowFacts DEF IndexInv
<1>8. slot'[o].next = -1 /\ slot'[o].stream = s /\ Summary(slot'[o], o) = Summary(p, o)
  <2>1. s \in DOMAIN idx => idx[s].latest.off # o
    <3> SUFFICES ASSUME s \in DOMAIN idx PROVE idx[s].latest.off # o
      OBVIOUS
    <3> HIDE DEF idx, o, L1
    <3>1. PICK z \in Members(slot, L1, s) : idx[s].latest = Summary(slot[z], z)
      BY <1>6 DEF IndexFits, EntryFits
    <3> QED
      BY <1>7, <3>1 DEF Members, Summary
  <2> QED
    BY <1>1, <1>2, <1>4, <2>1
<1>9. Inserts(idx, streamIdx', slot'[o], o)
  <2> HIDE DEF idx, o
  <2> QED
    BY <1>1, <1>8 DEF StreamEntry, Inserts
<1>10. IndexFits(streamIdx', slot', L1 \cup {o}) /\ ChainFits(slot', L1 \cup {o})
  <2>1. Links(idx, slot, slot', L1, o)
    BY <1>4, <1>7, <1>8 DEF Links
  <2> DEFINE new == slot'
             idx2 == streamIdx'
  <2>2. /\ IndexFits(idx, slot, L1) /\ ChainFits(slot, L1) /\ new \in [Offsets -> Packet]
        /\ new[o].stream \in Streams
    BY <1>3, <1>6, <1>8
  <2> HIDE DEF new, idx2, idx, o, L1
  <2>3. IndexFits(idx2, new, L1 \cup {o}) /\ ChainFits(new, L1 \cup {o})
    BY <1>2, <1>7, <1>8, <1>9, <2>1, <2>2, StoreFits DEF new, idx2
  <2> QED
    BY <2>3 DEF new, idx2
<1>11. IndexFits(streamIdx, slot, Live)' /\ ChainFits(slot, Live)'
  BY <1>5, <1>10 DEF IndexFits, ChainFits, EntryFits, Members, Later, Oldest, Newest
<1>12. IsFiniteSet(DOMAIN streamIdx') /\ streamCount' = Cardinality(DOMAIN streamIdx')
  <2>1. IsFiniteSet(D) /\ streamCount = Cardinality(D)
    BY DEF IndexInv
  <2>2. DOMAIN streamIdx' = DOMAIN idx \cup {s}
    BY <1>1
  <2> HIDE DEF D, idx
  <2>3. /\ IsFiniteSet(DOMAIN idx)
        /\ Cardinality(DOMAIN idx) = Cardinality(D) - (IF DOMAIN idx = D THEN 0 ELSE 1)
        /\ Cardinality(D) \in Nat
    <3>1. Cardinality(D) \in Nat
      BY <2>1, FS_CardinalityType
    <3>2. CASE DOMAIN idx = D
      BY <2>1, <3>1, <3>2
    <3>3. CASE DOMAIN idx # D
      <4>1. PICK u \in D : DOMAIN idx = D \ {u}
        BY <1>6, <3>3
      <4>2. IsFiniteSet(D \ {u}) /\ Cardinality(D \ {u}) = Cardinality(D) - 1
        BY <2>1, FS_RemoveElement
      <4>3. Cardinality(DOMAIN idx) = Cardinality(D \ {u}) /\ IsFiniteSet(DOMAIN idx)
        BY <4>1, <4>2
      <4> QED
        BY <3>1, <3>3, <4>2, <4>3
    <3> QED
      BY <3>2, <3>3
  <2>4. /\ IsFiniteSet(DOMAIN idx \cup {s})
        /\ Cardinality(DOMAIN idx \cup {s})
             = IF s \in DOMAIN idx THEN Cardinality(DOMAIN idx) ELSE Cardinality(DOMAIN idx) + 1
    BY <2>3, FS_AddElement
  <2>5. Cardinality(DOMAIN streamIdx') = Cardinality(DOMAIN idx \cup {s})
    BY <2>2
  <2>6. streamCount' = streamCount - (IF DOMAIN idx = D THEN 0 ELSE 1)
                       + (IF s \in DOMAIN idx THEN 0 ELSE 1)
    BY <1>1
  <2> QED
    BY <2>1, <2>2, <2>3, <2>4, <2>5, <2>6
<1>13. \A x \in Live' : slot'[x].stream \in Streams /\ slot'[x].start \in DataTimes
  <2>1. \A x \in L1 : slot[x].stream \in Streams /\ slot[x].start \in DataTimes
    BY DEF IndexInv
  <2>2. slot'[o].start = d /\ \A x \in L1 : slot'[x].start = slot[x].start
    BY <1>1, <1>2, <1>4 DEF Summary
  <2>3. \A x \in L1 : slot'[x].stream = slot[x].stream
    BY <1>2, <1>4
  <2> QED
    BY <1>5, <1>8, <2>1, <2>2, <2>3
<1> QED
  BY <1>11, <1>12, <1>13 DEF IndexInv

\* Every state of the ring satisfies IndexInv.
LEMMA IndexInvariant == Spec => [](RingInv /\ IndexInv)
<1>1. Init => IndexInv
  <2> SUFFICES ASSUME Init PROVE IndexInv
    OBVIOUS
  <2>1. Live = {} /\ DOMAIN streamIdx = {} /\ streamCount = 0
    BY DEF Init, Live, Blank
  <2>2. IsFiniteSet({}) /\ Cardinality({}) = 0
    BY FS_EmptySet
  <2>3. IsFiniteSet(DOMAIN streamIdx) /\ streamCount = Cardinality(DOMAIN streamIdx)
    BY <2>1, <2>2
  <2> QED
    BY <2>1, <2>3 DEF IndexInv, IndexFits, ChainFits, Members
<1>2. RingInv /\ RingInv' /\ IndexInv /\ [Next]_vars => IndexInv'
  <2> SUFFICES ASSUME RingInv, RingInv', IndexInv, [Next]_vars PROVE IndexInv'
    OBVIOUS
  <2>1. CASE WriteSome
    BY <2>1, WriteIndex DEF WriteSome, RingInv
  <2>2. CASE UNCHANGED ringVars
    BY <2>2 DEF IndexInv, IndexFits, ChainFits, EntryFits, Members, Later, Oldest, Newest,
       ringVars, Live
  <2> QED
    BY <2>1, <2>2 DEF Next, Reposition, Read, Position, After, AfterRev, MoveTo,
       StartStream, ReadNext, ReadNextEmpty, ReadNextPlace, ReadNextScan, vars, ringVars
<1> QED
  BY <1>1, <1>2, RingInvariant, PTL DEF Spec

\* Write's bookkeeping keeps the stream index exact: an entry for each stream in
\* the ring and for no other, with the first and the last packet of it.
THEOREM IndexCorrect == Spec => []StreamIndexExact
<1>1. IndexInv => StreamIndexExact
  BY DEF IndexInv, StreamIndexExact, IndexFits, EntryFits, Members, Oldest, Newest, InStream
<1> QED
  BY <1>1, IndexInvariant, PTL

\* NextInStream of every packet in the ring leads to the next packet of its stream.
THEOREM ChainCorrect == Spec => []ChainExact
<1>1. IndexInv => ChainExact
  BY DEF IndexInv, ChainExact, ChainFits, Later, Oldest, InStream
<1> QED
  BY <1>1, IndexInvariant, PTL

-----------------------------------------------------------------------------
(* What a scan of the slots finds                                          *)

\* The walk from o comes to a slot x after Steps(o, x) steps and never earlier.
LEMMA StepsAt ==
  ASSUME NEW o \in Offsets
  PROVE  /\ \A i \in 0 .. MaxPackets - 1 : Steps(o, At(o, i)) = i
         /\ \A x \in Offsets : At(o, Steps(o, x)) = x
BY RingAssumption DEF Steps, At, Offsets

\* A scan finds the first slot of S that its walk meets, or the walk meets none.
LEMMA FirstFromFinds ==
  ASSUME NEW o \in Offsets, NEW e \in Offsets, NEW S, NEW f, f = FirstFrom(o, e, S)
  PROVE  \/ f = -1 /\ \A i \in 0 .. Steps(o, e) - 1 : At(o, i) \notin S
         \/ \E i \in 0 .. Steps(o, e) - 1 :
              f = At(o, i) /\ f \in S /\ \A j \in 0 .. i - 1 : At(o, j) \notin S
<1> DEFINE hits == {i \in 0 .. Steps(o, e) - 1 : At(o, i) \in S}
           c == CHOOSE i \in hits : \A j \in hits : i <= j
<1>1. Steps(o, e) \in Nat
  BY StepsType, RingAssumption
<1>2. f = IF hits = {} THEN -1 ELSE At(o, c)
  BY DEF FirstFrom
<1>3. CASE hits = {}
  BY <1>2, <1>3
<1>4. CASE hits # {}
  <2>1. hits \in SUBSET Nat
    BY <1>1
  <2> HIDE DEF hits
  <2>2. \E i \in hits : \A j \in hits : i <= j
    BY <1>4, <2>1, Least
  <2>3. c \in hits /\ \A j \in hits : c <= j
    BY <2>2
  <2> HIDE DEF c
  <2>4. c \in 0 .. Steps(o, e) - 1 /\ At(o, c) \in S
    BY <2>3 DEF hits
  <2>5. ASSUME NEW j \in 0 .. c - 1 PROVE At(o, j) \notin S
    <3>1. j \in 0 .. Steps(o, e) - 1 /\ j \notin hits
      BY <1>1, <2>3, <2>4
    <3> QED
      BY <3>1 DEF hits
  <2> QED
    BY <1>2, <1>4, <2>4, <2>5
<1> QED
  BY <1>3, <1>4

\* Until the ring wraps, the packets lie from slot 0 on in the order of the
\* writes, and a scan up to the end of the buffer visits all of them.
FirstAtZero == writes > 0 /\ writes <= MaxPackets => earliest.off = 0

\* A ring that is not full holds packet x + 1 in slot x.
LEMMA NotFullFacts ==
  ASSUME TypeOK, WindowExact, FirstAtZero, writes > 0, writes < MaxPackets
  PROVE  /\ earliest.off = 0 /\ latest.off \in Offsets /\ ~(latest.off < 0)
         /\ EobOffset = writes /\ writes \in Offsets /\ 0 \in Offsets
         /\ Steps(0, writes) = writes
         /\ \A i \in 0 .. writes - 1 : At(0, i) = i
         /\ Live = 0 .. writes - 1 /\ \A x \in Live : slot[x].sn = x + 1
<1>1. writes \in Nat /\ Held = writes /\ earliest.off = 0
  BY RingAssumption DEF TypeOK, Held, FirstAtZero
<1> DEFINE l == latest.off
<1>2. /\ l \in Offsets /\ Steps(0, l) = writes - 1
      /\ \A o \in Offsets : slot[o].sn = IF Steps(0, o) < writes THEN 1 + Steps(0, o) ELSE 0
  BY <1>1 DEF WindowExact
<1>3. \A o \in Offsets : Steps(0, o) = o
  BY RingAssumption DEF Steps, Offsets
<1> HIDE DEF l
<1>4. l = writes - 1
  BY <1>2, <1>3
<1>5. EobOffset = writes /\ latest.off \in Offsets /\ ~(latest.off < 0)
  BY <1>1, <1>2, <1>4, RingAssumption DEF EobOffset, NextOffset, l
<1>6. \A o \in Offsets : slot[o].sn = IF o < writes THEN o + 1 ELSE 0
  BY <1>1, <1>2, <1>3, RingAssumption DEF Offsets
<1>7. Live = 0 .. writes - 1 /\ \A x \in Live : slot[x].sn = x + 1
  BY <1>1, <1>6, RingAssumption DEF Live, Offsets
<1> QED
  BY <1>1, <1>3, <1>5, <1>7, RingAssumption DEF Offsets, At

\* A scan from slot 0 of a ring that is not full finds the first packet of S.
LEMMA ScanFinds ==
  ASSUME TypeOK, WindowExact, FirstAtZero, writes > 0, writes < MaxPackets,
         NEW S, NEW f, f = FirstFrom(0, EobOffset, S)
  PROVE  IF Live \cap S = {} THEN f = -1
         ELSE f \in Live \cap S /\ \A x \in Live \cap S : slot[f].sn <= slot[x].sn
<1>1. /\ EobOffset = writes /\ writes \in Offsets /\ 0 \in Offsets /\ Steps(0, writes) = writes
      /\ \A i \in 0 .. writes - 1 : At(0, i) = i
      /\ Live = 0 .. writes - 1 /\ \A x \in Live : slot[x].sn = x + 1
  BY NotFullFacts
<1>2. writes \in Nat
  BY DEF TypeOK
<1>3. CASE f = -1 /\ \A i \in 0 .. writes - 1 : At(0, i) \notin S
  BY <1>1, <1>3
<1>4. CASE \E i \in 0 .. writes - 1 :
             f = At(0, i) /\ f \in S /\ \A j \in 0 .. i - 1 : At(0, j) \notin S
  <2>1. f \in Live \cap S /\ \A j \in 0 .. f - 1 : j \notin S
    BY <1>1, <1>2, <1>4
  <2>2. \A x \in Live \cap S : f <= x
    BY <1>1, <1>2, <2>1
  <2> QED
    BY <1>1, <1>2, <2>1, <2>2
<1> QED
  BY <1>1, <1>3, <1>4, FirstFromFinds

\* The lookups on a ring with an empty slot.
LEMMA LookupsFind ==
  ASSUME TypeOK, WindowExact, IndexInv, FirstAtZero
  PROVE  FoundUnlessFull
<1>1. writes \in Nat
  BY DEF TypeOK
<1>2. CASE writes = 0
  <2>1. earliest.off = -1 /\ latest.off = -1 /\ Live = {} /\ writes < MaxPackets
    BY <1>2, RingAssumption DEF WindowExact, NoSummary
  <2> QED
    BY <2>1 DEF FoundUnlessFull, AfterOffset
<1>3. CASE writes > 0 /\ writes < MaxPackets
  <2>1. earliest.off = 0 /\ ~(latest.off < 0) /\ Live \subseteq Offsets
    BY <1>3, NotFullFacts DEF Live
  <2>2. ASSUME NEW o \in Live
        PROVE  LET f == FindOffsetForID(slot[o].id)
               IN f \in Live /\ slot[f].id = slot[o].id
    <3> DEFINE S == {x \in Offsets : slot[x].id = slot[o].id}
               f == FirstFrom(0, EobOffset, S)
    <3>1. FindOffsetForID(slot[o].id) = f
      BY <2>1 DEF FindOffsetForID
    <3>2. o \in Live \cap S
      BY <2>1
    <3> HIDE DEF S, f
    <3>3. f \in Live \cap S
      BY <1>3, <3>2, ScanFinds DEF f
    <3> QED
      BY <3>1, <3>3 DEF S
  <2>3. ASSUME NEW t \in DataTimes, NEW w \in {0, 1}
        PROVE  LET f    == AfterOffset(t, w)
                   from == {o \in Live : slot[o].start >= t}
               IN IF from = {} THEN f = -1
                  ELSE f \in from /\ \A o \in from : slot[f].sn <= slot[o].sn
    <3> DEFINE S == {x \in Offsets : slot[x].start >= t}
               f == FirstFrom(0, EobOffset, S)
               from == {o \in Live : slot[o].start >= t}
    <3>1. AfterOffset(t, w) = f
      BY <2>1 DEF AfterOffset
    <3>2. from = Live \cap S
      BY <2>1
    <3> HIDE DEF S, f, from
    <3>3. IF from = {} THEN f = -1
          ELSE f \in from /\ \A o \in from : slot[f].sn <= slot[o].sn
      BY <1>3, <3>2, ScanFinds DEF f
    <3> QED
      BY <3>1, <3>3 DEF from
  <2> QED
    BY <1>3, <2>2, <2>3 DEF FoundUnlessFull
<1>4. CASE writes >= MaxPackets
  BY <1>1, <1>4, RingAssumption DEF FoundUnlessFull
<1> QED
  BY <1>1, <1>2, <1>3, <1>4, RingAssumption

\* Only Write moves the earliest packet, and first when the ring is full.
LEMMA FirstStaysAtZero == RingInv /\ RingInv' /\ FirstAtZero /\ [Next]_vars => FirstAtZero'
<1> SUFFICES ASSUME RingInv, RingInv', FirstAtZero, [Next]_vars PROVE FirstAtZero'
  OBVIOUS
<1>1. ASSUME NEW s \in Streams, NEW d \in DataTimes, NEW i \in UserIds \cup {RingIdNone},
             Write(s, d, i)
      PROVE  FirstAtZero'
  <2>1. writes' = writes + 1 /\ writes \in Nat
    BY <1>1 DEF Write, RingInv, TypeOK
  <2>2. PICK p : earliest' = IF earliest.off < 0 THEN Summary(p, WriteOffset)
                             ELSE IF IsFull
                             THEN Summary(slot[NextOffset(earliest.off)], NextOffset(earliest.off))
                             ELSE earliest
    BY <1>1 DEF Write
  <2>3. CASE writes = 0
    BY <2>1, <2>2, <2>3 DEF FirstAtZero, RingInv, WindowExact, NoSummary, WriteOffset, Summary
  <2>4. CASE writes > 0 /\ writes < MaxPackets
    <3>1. earliest.off = 0 /\ EobOffset = writes /\ ~(latest.off < 0)
      BY <2>4, NotFullFacts DEF RingInv
    <3>2. ~IsFull
      BY <2>1, <2>4, <3>1 DEF IsFull, WriteOffset, EobOffset
    <3> QED
      BY <2>2, <3>1, <3>2 DEF FirstAtZero
  <2>5. CASE writes >= MaxPackets
    BY <2>1, <2>5, RingAssumption DEF FirstAtZero
  <2> QED
    BY <2>1, <2>3, <2>4, <2>5, RingAssumption
<1>2. CASE UNCHANGED ringVars
  BY <1>2 DEF FirstAtZero, ringVars
<1> QED
  BY <1>1, <1>2 DEF Next, WriteSome, Reposition, Read, Position, After, AfterRev, MoveTo,
     StartStream, ReadNext, ReadNextEmpty, ReadNextPlace, ReadNextScan, vars, ringVars

\* READ, POSITION and TIME find what the ring holds, until it is full.
THEOREM LookupsCorrect == Spec => []FoundUnlessFull
<1>1. Init => FirstAtZero
  BY DEF Init, FirstAtZero
<1>2. RingInv /\ IndexInv /\ FirstAtZero => FoundUnlessFull
  BY LookupsFind DEF RingInv
<1> QED
  BY <1>1, <1>2, FirstStaysAtZero, RingInvariant, IndexInvariant, PTL DEF Spec

-----------------------------------------------------------------------------
(* Readers of a ring whose clock does not step back                        *)

\* No packet in a slot was written later than the latest one.
ClockInv ==
  /\ \A o \in Offsets : slot[o].time <= clock
  /\ latest.off >= 0 => latest.time = clock

\* A reader stands on the packet it was placed on, or on one that took its place
\* when the ring had wrapped since; it was given none beyond that packet.
ReaderInv ==
  \A r \in Readers :
    /\ last[r] <= reader[r].sn
    /\ reader[r].sn > 0 =>
         LET o == reader[r].off
         IN /\ o \in Offsets
            /\ slot[o].sn = reader[r].sn \/ slot[o].sn >= reader[r].sn + MaxPackets

\* A packet in the ring is followed by those of the later writes, in order.
LEMMA WalkFacts ==
  ASSUME TypeOK, WindowExact, NEW x \in Live, NEW w, w = NextOffset(x)
  PROVE  /\ writes > 0 /\ w \in Offsets /\ latest.off \in Offsets
         /\ \A i \in 0 .. Steps(w, EobOffset) - 1 :
              At(w, i) \in Live /\ slot[At(w, i)].sn = slot[x].sn + 1 + i
         /\ \A o \in Live : slot[o].sn > slot[x].sn =>
              \E i \in 0 .. Steps(w, EobOffset) - 1 : o = At(w, i)
<1> DEFINE e == earliest.off
           l == latest.off
<1>1. writes \in Nat /\ x \in Offsets /\ slot[x].sn > 0
  BY DEF TypeOK, Live
<1>2. writes > 0
  BY <1>1 DEF WindowExact
<1>3. /\ e \in Offsets /\ l \in Offsets /\ Steps(e, l) = Held - 1 /\ EobOffset = NextOffset(l)
      /\ \A o \in Offsets :
           slot[o].sn = IF Steps(e, o) < Held THEN writes - Held + 1 + Steps(e, o) ELSE 0
  BY <1>2 DEF WindowExact, EobOffset
<1>4. Held \in 1 .. MaxPackets /\ Held <= writes
  BY <1>1, <1>2, RingAssumption DEF Held
<1> DEFINE k == Steps(e, x)
<1>5. w \in Offsets
  BY <1>1, NextOffsetType
<1> HIDE DEF e, l
<1>6. \A o \in Offsets : Steps(e, o) \in Nat
  BY <1>3, StepsType, RingAssumption
<1>7. \A o \in Live : o \in Offsets /\ Steps(e, o) < Held
                      /\ slot[o].sn = writes - Held + 1 + Steps(e, o)
  BY <1>3 DEF Live
<1> HIDE DEF k
<1>8. k \in Nat /\ k < Held /\ k = Steps(e, x) /\ slot[x].sn = writes - Held + 1 + k
  BY <1>6, <1>7 DEF k
<1>9. Steps(w, NextOffset(l)) = Held - 1 - k
  BY <1>1, <1>3, <1>4, <1>8, RingAssumption DEF Steps, NextOffset, Offsets
<1>10. \A i \in 0 .. Held - 2 - k : At(w, i) \in Offsets /\ Steps(e, At(w, i)) = k + 1 + i
  BY <1>1, <1>3, <1>4, <1>8, RingAssumption DEF Steps, NextOffset, At, Offsets
<1>11. \A i \in 0 .. Held - 2 - k :
         At(w, i) \in Live /\ slot[At(w, i)].sn = slot[x].sn + 1 + i
  <2> TAKE i \in 0 .. Held - 2 - k
  <2>1. i \in Nat /\ k + 1 + i < Held
    BY <1>4, <1>8
  <2>2. slot[At(w, i)].sn = writes - Held + 1 + (k + 1 + i)
    BY <1>3, <1>10, <2>1
  <2> QED
    BY <1>1, <1>4, <1>8, <1>10, <2>1, <2>2 DEF Live
<1>12. ASSUME NEW o \in Live, slot[o].sn > slot[x].sn
       PROVE  \E i \in 0 .. Held - 2 - k : o = At(w, i)
  <2> DEFINE j == Steps(e, o)
             i == j - k - 1
  <2>1. j \in Nat /\ j < Held /\ j > k /\ o \in Offsets
    BY <1>1, <1>4, <1>6, <1>7, <1>8, <1>12
  <2>2. o = At(w, i)
    BY <1>1, <1>3, <1>4, <1>8, <2>1, RingAssumption DEF Steps, NextOffset, At, Offsets
  <2>3. i \in 0 .. Held - 2 - k
    <3> HIDE DEF j
    <3> QED
      BY <1>4, <1>8, <2>1
  <2> QED
    BY <2>2, <2>3
<1>13. Steps(w, EobOffset) - 1 = Held - 2 - k
  BY <1>3, <1>4, <1>8, <1>9
<1> QED
  BY <1>2, <1>3, <1>5, <1>11, <1>12, <1>13 DEF l

\* A ring that has wrapped holds, in every slot, one of the last writes.
LEMMA WrapFacts ==
  ASSUME TypeOK, WindowExact, NEW x \in Offsets, slot[x].sn > MaxPackets
  PROVE  \A y \in Offsets : slot[y].sn > slot[x].sn - MaxPackets
<1> DEFINE e == earliest.off
<1>1. writes \in Nat /\ slot[x].sn \in Nat
  BY DEF TypeOK, Packet
<1>2. writes > 0
  BY <1>1, RingAssumption DEF WindowExact, Live
<1>3. /\ e \in Offsets
      /\ \A o \in Offsets :
           slot[o].sn = IF Steps(e, o) < Held THEN writes - Held + 1 + Steps(e, o) ELSE 0
  BY <1>2 DEF WindowExact
<1>4. \A o \in Offsets : Steps(e, o) \in 0 .. MaxPackets - 1
  BY <1>3, StepsType
<1> HIDE DEF e
<1>5. writes >= MaxPackets /\ Held = MaxPackets
  BY <1>1, <1>3, <1>4, RingAssumption DEF Held
<1> QED
  BY <1>1, <1>3, <1>4, <1>5, RingAssumption

\* Where a reader reads on there are only packets newer than its own.
LEMMA WalkNewer ==
  ASSUME TypeOK, WindowExact, ReaderInv, NEW r \in Readers, reader[r].sn > 0,
         NEW i \in 0 .. Steps(FirstOffset(r), EobOffset) - 1
  PROVE  slot[At(FirstOffset(r), i)].sn > reader[r].sn
<1> DEFINE o == reader[r].off
           w == FirstOffset(r)
<1>1. /\ o \in Offsets /\ reader[r].sn \in Nat
      /\ slot[o].sn = reader[r].sn \/ slot[o].sn >= reader[r].sn + MaxPackets
  BY DEF ReaderInv, TypeOK, ReaderRecord
<1>2. w = NextOffset(o)
  BY <1>1, RingAssumption DEF FirstOffset, Offsets
<1> HIDE DEF o, w
<1>3. CASE slot[o].sn = reader[r].sn
  <2>1. o \in Live
    BY <1>1, <1>3 DEF Live
  <2>2. slot[At(w, i)].sn = slot[o].sn + 1 + i
    BY <1>2, <2>1, WalkFacts DEF w
  <2> QED
    BY <1>1, <1>3, <2>2 DEF w
<1>4. CASE slot[o].sn >= reader[r].sn + MaxPackets
  <2>1. slot[o].sn > MaxPackets /\ slot[o].sn \in Nat
    BY <1>1, <1>4, RingAssumption DEF TypeOK, Packet
  <2>2. At(w, i) \in Offsets
    <3>1. w \in Offsets /\ EobOffset \in Offsets
      BY <1>1, <1>2, NextOffsetType, EndsType
    <3>2. i \in 0 .. MaxPackets - 1
      BY <3>1, StepsType, RingAssumption DEF w
    <3> QED
      BY <3>1, <3>2, AtType
  <2>3. slot[At(w, i)].sn > slot[o].sn - MaxPackets /\ slot[At(w, i)].sn \in Nat
    BY <1>1, <2>1, <2>2, WrapFacts DEF TypeOK, Packet
  <2> QED
    BY <1>1, <1>4, <2>1, <2>3, RingAssumption DEF w
<1> QED
  BY <1>1, <1>3, <1>4

\* The slots a walk of ReadNext meets.
Walk(r) == {At(FirstOffset(r), i) : i \in 0 .. Steps(FirstOffset(r), EobOffset) - 1}

\* What a scan of ReadNext ends with: the first packet of its walk that the filter
\* accepts is delivered, or there is none and the reader may have moved along.
Delivers(r, i) ==
  LET h == At(FirstOffset(r), i)
  IN /\ i \in 0 .. Steps(FirstOffset(r), EobOffset) - 1
     /\ slot[h].stream \in Accepts[r]
     /\ \A j \in 0 .. i - 1 : slot[At(FirstOffset(r), j)].stream \notin Accepts[r]
     /\ reader' = [reader EXCEPT ![r] = Placed(h)]
     /\ last' = [last EXCEPT ![r] = slot[h].sn]

MovesOn(r) ==
  /\ \A o \in Walk(r) : slot[o].stream \notin Accepts[r]
  /\ reader' = reader \/ \E o \in Walk(r) : reader' = [reader EXCEPT ![r] = Placed(o)]
  /\ last' = last

\* A walk of ReadNext stays within the slots.
LEMMA WalkType ==
  ASSUME TypeOK, WindowExact, NEW r \in Readers, latest.off >= 0
  PROVE  /\ latest.off \in Offsets /\ FirstOffset(r) \in Offsets
         /\ Steps(FirstOffset(r), EobOffset) \in 0 .. MaxPackets - 1
         /\ Walk(r) \subseteq Offsets
<1>1. latest.off \in Offsets /\ earliest.off \in Offsets
  BY RingAssumption DEF WindowExact, NoSummary, TypeOK
<1>2. FirstOffset(r) \in Offsets
  <2>1. reader[r].off \in Offsets \cup {-1}
    BY DEF TypeOK, ReaderRecord
  <2> QED
    BY <1>1, <2>1, NextOffsetType, RingAssumption DEF FirstOffset, Offsets
<1>3. Steps(FirstOffset(r), EobOffset) \in 0 .. MaxPackets - 1
  BY <1>2, EndsType, StepsType
<1> QED
  BY <1>1, <1>2, <1>3, AtType, RingAssumption DEF Walk

\* With a clock that does not step back, no slot ever looks ahead of the ring.
LEMMA ScanOutcome ==
  ASSUME TypeOK, WindowExact, ClockInv, NEW r \in Readers, ReadNextScan(r)
  PROVE  (\E i : Delivers(r, i)) \/ MovesOn(r)
<1> DEFINE w == FirstOffset(r)
           n == Steps(w, EobOffset)
           h == Hit(r, w)
           passed == LastPassed(w, h, -1)
<1>1. latest.off >= 0 /\ w \in Offsets /\ n \in 0 .. MaxPackets - 1 /\ EobOffset \in Offsets
  BY WalkType, EndsType DEF ReadNextScan
<1>2. \A o \in Offsets : ~Ahead(o)
  <2>1. \A o \in Offsets : slot[o].time \in Int /\ slot[o].time <= clock
    BY DEF ClockInv, TypeOK, Packet
  <2>2. latest.time = clock /\ clock \in Int
    BY <1>1 DEF ClockInv, TypeOK
  <2> QED
    BY <2>1, <2>2 DEF Ahead
<1>3. Stops(r) = {o \in Offsets : slot[o].stream \in Accepts[r]}
  BY <1>2 DEF Stops
<1> HIDE DEF w, n
<1>4. \A i \in 0 .. n - 1 : At(w, i) \in Offsets /\ Steps(w, At(w, i)) = i
  BY <1>1, AtType, StepsAt, RingAssumption
<1>5. \/ h = -1 /\ \A i \in 0 .. n - 1 : At(w, i) \notin Stops(r)
      \/ \E i \in 0 .. n - 1 :
           h = At(w, i) /\ h \in Stops(r) /\ \A j \in 0 .. i - 1 : At(w, j) \notin Stops(r)
  BY <1>1, FirstFromFinds DEF Hit, n
<1>6. Return(r, h, passed)
  <2>1. h < 0 \/ ~Ahead(h)
    BY <1>2, <1>4, <1>5
  <2> QED
    BY <2>1 DEF ReadNextScan, w
<1>7. CASE \E i \in 0 .. n - 1 :
             h = At(w, i) /\ h \in Stops(r) /\ \A j \in 0 .. i - 1 : At(w, j) \notin Stops(r)
  <2>1. PICK i \in 0 .. n - 1 :
          h = At(w, i) /\ h \in Stops(r) /\ \A j \in 0 .. i - 1 : At(w, j) \notin Stops(r)
    BY <1>7
  <2>2. h \in Offsets /\ h >= 0 /\ ~Ahead(h) /\ slot[h].stream \in Accepts[r]
    BY <1>2, <1>3, <1>4, <2>1, RingAssumption DEF Offsets
  <2>3. \A j \in 0 .. i - 1 : slot[At(w, j)].stream \notin Accepts[r]
    <3>1. \A j \in 0 .. i - 1 : At(w, j) \in Offsets
      BY <1>1, <1>4
    <3> QED
      BY <1>3, <2>1, <3>1
  <2>4. reader' = [reader EXCEPT ![r] = Placed(h)] /\ last' = [last EXCEPT ![r] = slot[h].sn]
    BY <1>6, <2>2 DEF Return
  <2> HIDE DEF h
  <2> QED
    BY <2>1, <2>2, <2>3, <2>4 DEF Delivers, w, n
<1>8. CASE h = -1 /\ \A i \in 0 .. n - 1 : At(w, i) \notin Stops(r)
  <2>1. \A i \in 0 .. n - 1 : slot[At(w, i)].stream \notin Accepts[r]
    BY <1>3, <1>4, <1>8
  <2>2. passed = IF n > 0 THEN At(w, n - 1) ELSE -1
    BY <1>8 DEF LastPassed, n
  <2> HIDE DEF h, passed
  <2>3. last' = last /\ reader' = IF passed < 0 THEN reader ELSE [reader EXCEPT ![r] = Placed(passed)]
    BY <1>6, <1>8 DEF Return
  <2>4. reader' = reader \/ \E i \in 0 .. n - 1 : reader' = [reader EXCEPT ![r] = Placed(At(w, i))]
    <3>1. CASE n > 0
      <4>1. n - 1 \in 0 .. n - 1 /\ passed = At(w, n - 1)
        BY <1>1, <2>2, <3>1
      <4> QED
        BY <2>3, <4>1
    <3>2. CASE ~(n > 0)
      BY <2>2, <2>3, <3>2
    <3> QED
      BY <3>1, <3>2
  <2> QED
    BY <2>1, <2>3, <2>4 DEF MovesOn, Walk, w, n
<1> QED
  BY <1>5, <1>7, <1>8

\* A reader placed on a slot stands on the packet it was placed on.
LEMMA PlacedInv ==
  ASSUME TypeOK, ReaderInv, NEW r \in Readers, NEW o \in Offsets, UNCHANGED slot,
         reader' = [reader EXCEPT ![r] = Placed(o)],
         NEW g, last' = [last EXCEPT ![r] = g], g <= slot[o].sn
  PROVE  ReaderInv'
<1>1. /\ reader'[r].off = o /\ reader'[r].sn = slot[o].sn /\ last'[r] = g
      /\ \A q \in Readers \ {r} : reader'[q] = reader[q] /\ last'[q] = last[q]
  BY DEF TypeOK, Placed
<1> QED
  BY <1>1 DEF ReaderInv

\* ReadNext and the repositioning operations keep the readers in step.
LEMMA ReadsKeepInv ==
  ASSUME TypeOK, WindowExact, ClockInv, ReaderInv, NEW r \in Readers,
         Reposition(r) \/ StartStream(r) \/ ReadNext(r)
  PROVE  ReaderInv'
<1>1. /\ reader \in [Readers -> ReaderRecord] /\ last \in [Readers -> 0 .. MaxWrites]
      /\ slot \in [Offsets -> Packet] /\ MaxWrites \in Nat
      /\ \A q \in Readers : reader[q].sn \in Nat /\ reader[q].off \in Offsets \cup {-1}
      /\ \A o \in Offsets : slot[o].sn \in Nat
  BY RingAssumption DEF TypeOK, ReaderRecord, Packet
<1>2. ASSUME NEW o \in Offsets \cup {-1}, MoveTo(r, o) PROVE ReaderInv'
  <2>1. CASE o = -1
    BY <1>2, <2>1 DEF MoveTo, ReaderInv, ringVars
  <2>2. CASE o \in Offsets
    <3>1. /\ reader' = [reader EXCEPT ![r] = Placed(o)] /\ last' = [last EXCEPT ![r] = 0]
          /\ UNCHANGED slot
      BY <1>2, <2>2, RingAssumption DEF MoveTo, Offsets, ringVars
    <3>2. 0 <= slot[o].sn
      BY <1>1, <2>2
    <3> QED
      BY <2>2, <3>1, <3>2, PlacedInv
  <2> QED
    BY <2>1, <2>2
<1>3. CASE Reposition(r)
  BY <1>2, <1>3, LookupType DEF Reposition, Read, Position, After, AfterRev
<1>4. ASSUME NEW id, reader' = [reader EXCEPT ![r].id = id], UNCHANGED <<ringVars, last>>
      PROVE  ReaderInv'
  <2>1. \A q \in Readers : reader'[q].off = reader[q].off /\ reader'[q].sn = reader[q].sn
    BY <1>1, <1>4 DEF ReaderRecord
  <2> QED
    BY <1>4, <2>1 DEF ReaderInv, ringVars
<1>5. CASE StartStream(r)
  BY <1>4, <1>5 DEF StartStream
<1>6. CASE ReadNextEmpty(r)
  <2>1. CASE reader' = reader
    BY <1>6, <2>1 DEF ReadNextEmpty, ReaderInv, ringVars
  <2> QED
    BY <1>4, <1>6, <2>1 DEF ReadNextEmpty
<1>7. CASE ReadNextPlace(r)
  <2>1. latest.off \in Offsets
    BY <1>7, WalkType DEF ReadNextPlace
  <2>2. reader[r].sn = 0 /\ last[r] = 0
    <3>1. reader[r].off \notin Offsets
      BY <1>7, RingAssumption DEF ReadNextPlace, Offsets
    <3>2. ~(reader[r].sn > 0) /\ last[r] <= reader[r].sn /\ last[r] \in Nat
      BY <1>1, <3>1 DEF ReaderInv
    <3> QED
      BY <1>1, <3>2
  <2>3. last' = [last EXCEPT ![r] = 0] /\ reader' = [reader EXCEPT ![r] = Placed(latest.off)]
    BY <1>1, <1>7, <2>2 DEF ReadNextPlace
  <2>4. UNCHANGED slot /\ 0 <= slot[latest.off].sn
    BY <1>1, <1>7, <2>1 DEF ReadNextPlace, ringVars
  <2> DEFINE l == latest.off
  <2> HIDE DEF l
  <2>5. l \in Offsets /\ 0 <= slot[l].sn /\ reader' = [reader EXCEPT ![r] = Placed(l)]
    BY <2>1, <2>3, <2>4 DEF l
  <2> QED
    BY <2>3, <2>4, <2>5, PlacedInv
<1>8. CASE ReadNextScan(r)
  <2>1. Walk(r) \subseteq Offsets /\ UNCHANGED slot
    BY <1>8, WalkType DEF ReadNextScan, ringVars
  <2>2. ASSUME NEW i, Delivers(r, i) PROVE ReaderInv'
    <3> DEFINE h == At(FirstOffset(r), i)
    <3>1. /\ h \in Offsets /\ reader' = [reader EXCEPT ![r] = Placed(h)]
          /\ last' = [last EXCEPT ![r] = slot[h].sn]
      BY <2>1, <2>2 DEF Delivers, Walk
    <3> HIDE DEF h
    <3>2. slot[h].sn <= slot[h].sn
      BY <1>1, <3>1
    <3> QED
      BY <2>1, <3>1, <3>2, PlacedInv
  <2>3. CASE MovesOn(r)
    <3>1. CASE reader' = reader
      BY <2>1, <2>3, <3>1 DEF MovesOn, ReaderInv
    <3>2. CASE \E o \in Walk(r) : reader' = [reader EXCEPT ![r] = Placed(o)]
      <4>1. PICK o \in Walk(r) : reader' = [reader EXCEPT ![r] = Placed(o)]
        BY <3>2
      <4>2. last' = [last EXCEPT ![r] = last[r]] /\ o \in Offsets
        BY <1>1, <2>1, <2>3, <4>1 DEF MovesOn
      <4>3. last[r] <= slot[o].sn
        <5>1. last[r] <= reader[r].sn /\ last[r] \in Nat /\ reader[r].sn \in Nat /\ slot[o].sn \in Nat
          BY <1>1, <4>2 DEF ReaderInv
        <5>2. reader[r].sn > 0 => slot[o].sn > reader[r].sn
          BY <4>1, WalkNewer DEF Walk
        <5> QED
          BY <5>1, <5>2
      <4> QED
        BY <2>1, <4>1, <4>2, <4>3, PlacedInv
    <3> QED
      BY <2>3, <3>1, <3>2 DEF MovesOn
  <2> QED
    BY <1>8, <2>2, <2>3, ScanOutcome
<1> QED
  BY <1>3, <1>5, <1>6, <1>7, <1>8 DEF ReadNext

\* The slots, the clock and the ends of the ring after a Write.
LEMMA WriteFacts ==
  ASSUME TypeOK, NEW s \in Streams, NEW d \in DataTimes,
         NEW i \in UserIds \cup {RingIdNone}, Write(s, d, i)
  PROVE  /\ WriteOffset \in Offsets /\ UNCHANGED <<reader, last>> /\ writes' = writes + 1
         /\ clock' \in NSnow /\ latest'.off = WriteOffset /\ latest'.time = clock'
         /\ slot'[WriteOffset].sn = writes + 1 /\ slot'[WriteOffset].time = clock'
         /\ slot'[WriteOffset].stream = s /\ slot'[WriteOffset].start = d
         /\ \A x \in Offsets \ {WriteOffset} :
              /\ slot'[x].sn = slot[x].sn /\ slot'[x].time = slot[x].time
              /\ slot'[x].stream = slot[x].stream /\ slot'[x].start = slot[x].start
<1> DEFINE o == WriteOffset
<1>1. PICK t \in NSnow :
        LET p == [sn |-> writes + 1, time |-> t, next |-> -1, stream |-> s,
                  start |-> d, id |-> IF i = RingIdNone THEN NextId ELSE i]
        IN /\ slot' = StoredSlots(EvictedIdx, p, o)
           /\ latest' = Summary(p, o) /\ clock' = t
  BY DEF Write
<1> DEFINE p == [sn |-> writes + 1, time |-> t, next |-> -1, stream |-> s,
                 start |-> d, id |-> IF i = RingIdNone THEN NextId ELSE i]
<1>2. p \in Packet
  <2>1. writes < MaxWrites /\ t \in 1 .. MaxClock
    BY DEF Write, NSnow
  <2>2. p.id \in 0 .. RingIdError
    BY NextIdType, RingAssumption DEF RingIdError, RingIdNone
  <2> QED
    BY <2>1, <2>2, RingAssumption DEF Packet, TypeOK
<1>3. /\ slot' = StoredSlots(EvictedIdx, p, o) /\ latest' = Summary(p, o) /\ clock' = t
      /\ p.sn = writes + 1 /\ p.time = t /\ p.stream = s /\ p.start = d
  BY <1>1
<1>4. o \in Offsets
  BY WriteOffsetType
<1> HIDE DEF p, o
<1>5. ASSUME NEW x \in Offsets, NEW old, old = IF x = o THEN p ELSE slot[x]
      PROVE  /\ slot'[x].sn = old.sn /\ slot'[x].time = old.time
             /\ slot'[x].stream = old.stream /\ slot'[x].start = old.start
  <2>1. /\ slot'[x].sn = old.sn /\ Summary(slot'[x], x) = Summary(old, x)
        /\ slot'[x].stream = old.stream
    <3> DEFINE idx == EvictedIdx
    <3>1. slot'[x] = StoredSlots(idx, p, o)[x]
      BY <1>3
    <3> HIDE DEF idx
    <3>2. /\ slot'[x].sn = old.sn /\ Summary(slot'[x], x) = Summary(old, x)
          /\ slot'[x].stream = old.stream
          /\ slot'[x].next = IF p.stream \in DOMAIN idx /\ x = idx[p.stream].latest.off
                             THEN o ELSE old.next
      BY <1>2, <1>4, <1>5, <3>1, StoredFields
    <3> QED
      BY <3>2
  <2> QED
    BY <2>1 DEF Summary
<1>6. \A x \in Offsets \ {o} :
        /\ slot'[x].sn = slot[x].sn /\ slot'[x].time = slot[x].time
        /\ slot'[x].stream = slot[x].stream /\ slot'[x].start = slot[x].start
  BY <1>5
<1>7. /\ slot'[o].sn = p.sn /\ slot'[o].time = p.time
      /\ slot'[o].stream = p.stream /\ slot'[o].start = p.start
  BY <1>4, <1>5
<1> QED
  BY <1>1, <1>3, <1>4, <1>6, <1>7 DEF Write, Summary, o

\* Write stamps the newest packet with the newest reading of the clock.
LEMMA WriteClock ==
  ASSUME TypeOK, ~ClockMayStepBack, ClockInv, NEW s \in Streams, NEW d \in DataTimes,
         NEW i \in UserIds \cup {RingIdNone}, Write(s, d, i)
  PROVE  ClockInv'
<1>1. clock' >= clock /\ clock \in Int /\ clock' \in Int
  BY WriteFacts DEF NSnow, TypeOK
<1>2. \A o \in Offsets : slot[o].time \in Int /\ slot[o].time <= clock
  BY DEF ClockInv, TypeOK, Packet
<1>3. /\ WriteOffset \in Offsets /\ latest'.time = clock' /\ slot'[WriteOffset].time = clock'
      /\ \A x \in Offsets \ {WriteOffset} : slot'[x].time = slot[x].time
  BY WriteFacts
<1>4. ASSUME NEW o \in Offsets PROVE slot'[o].time <= clock'
  <2>1. CASE o = WriteOffset
    BY <1>1, <1>3, <2>1
  <2>2. CASE o # WriteOffset
    BY <1>1, <1>2, <1>3, <2>2
  <2> QED
    BY <2>1, <2>2
<1> QED
  BY <1>3, <1>4 DEF ClockInv

\* A packet that Write overwrites is exactly a ring older than the new one.
LEMMA WriteReaders ==
  ASSUME TypeOK, WindowExact, ReaderInv, NEW s \in Streams, NEW d \in DataTimes,
         NEW i \in UserIds \cup {RingIdNone}, Write(s, d, i)
  PROVE  ReaderInv'
<1>1. /\ WriteOffset \in Offsets /\ UNCHANGED <<reader, last>>
      /\ slot'[WriteOffset].sn = writes + 1
      /\ \A x \in Offsets \ {WriteOffset} : slot'[x].sn = slot[x].sn
  BY WriteFacts
<1>2. slot[WriteOffset].sn = 0 \/ slot[WriteOffset].sn = writes - MaxPackets + 1
  <2> DEFINE e == earliest.off
  <2>1. CASE ~IsFull
    <3>1. WriteOffset \notin Live /\ slot[WriteOffset].sn \in Nat
      BY <1>1, <2>1, WindowFacts DEF TypeOK, Packet
    <3> QED
      BY <1>1, <3>1 DEF Live
  <2>2. CASE IsFull
    <3>1. writes \in Nat /\ writes > 0 /\ e = WriteOffset
      BY <2>2, WindowFacts DEF TypeOK, IsFull, WindowExact, NoSummary
    <3>2. /\ latest.off \in Offsets /\ Steps(e, latest.off) = Held - 1
          /\ slot[e].sn = IF Steps(e, e) < Held THEN writes - Held + 1 + Steps(e, e) ELSE 0
      BY <1>1, <3>1 DEF WindowExact
    <3>3. WriteOffset = NextOffset(latest.off) /\ Steps(e, e) = 0
      BY <1>1, <3>1, <3>2, RingAssumption DEF WriteOffset, Steps, Offsets
    <3>4. Held = MaxPackets
      <4> DEFINE l == latest.off
      <4>1. l \in Offsets /\ e \in Offsets /\ e = NextOffset(l) /\ Steps(e, l) = Held - 1
        BY <1>1, <3>1, <3>2, <3>3
      <4>2. Held \in Nat
        BY <3>1, RingAssumption DEF Held
      <4> HIDE DEF l, e
      <4> QED
        BY <4>1, <4>2, RingAssumption DEF NextOffset, Steps, Offsets
    <3> QED
      BY <3>1, <3>2, <3>3, <3>4, RingAssumption
  <2> QED
    BY <2>1, <2>2
<1>3. ASSUME NEW r \in Readers, reader[r].sn > 0
      PROVE  LET o == reader[r].off
             IN /\ o \in Offsets
                /\ slot'[o].sn = reader[r].sn \/ slot'[o].sn >= reader[r].sn + MaxPackets
  <2> DEFINE o == reader[r].off
  <2>1. /\ o \in Offsets /\ reader[r].sn \in Nat /\ slot[o].sn \in Nat /\ writes \in Nat
        /\ slot[o].sn = reader[r].sn \/ slot[o].sn >= reader[r].sn + MaxPackets
    BY <1>3 DEF ReaderInv, TypeOK, ReaderRecord, Packet
  <2> HIDE DEF o
  <2>2. CASE o # WriteOffset
    BY <1>1, <2>1, <2>2 DEF o
  <2>3. CASE o = WriteOffset
    <3>1. slot[o].sn > 0
      BY <1>3, <2>1, RingAssumption
    <3>2. slot[o].sn = writes - MaxPackets + 1 /\ slot'[o].sn = writes + 1
      BY <1>1, <1>2, <2>3, <3>1
    <3>3. slot'[o].sn >= reader[r].sn + MaxPackets
      BY <2>1, <3>2, RingAssumption
    <3> QED
      BY <2>1, <3>3 DEF o
  <2> QED
    BY <2>2, <2>3
<1> QED
  BY <1>1, <1>3 DEF ReaderInv

\* With a clock that does not step back, the readers stay in step with the ring.
LEMMA ReadersInvariant == Spec => [](ClockMayStepBack \/ (ClockInv /\ ReaderInv))
<1>1. Init => ClockInv /\ ReaderInv
  <2> SUFFICES ASSUME Init PROVE ClockInv /\ ReaderInv
    OBVIOUS
  <2>1. \A o \in Offsets : slot[o].time = 0
    BY DEF Init, Blank
  <2>2. \A r \in Readers : reader[r].sn = 0 /\ last[r] = 0
    BY DEF Init, NewReader
  <2> QED
    BY <2>1, <2>2 DEF ClockInv, ReaderInv, Init, NoSummary
<1>2. ASSUME RingInv, ClockMayStepBack \/ (ClockInv /\ ReaderInv), [Next]_vars
      PROVE  (ClockMayStepBack \/ (ClockInv /\ ReaderInv))'
  <2> SUFFICES ASSUME ~ClockMayStepBack PROVE ClockInv' /\ ReaderInv'
    OBVIOUS
  <2>1. TypeOK /\ WindowExact /\ ClockInv /\ ReaderInv
    BY <1>2 DEF RingInv
  <2>2. CASE WriteSome
    BY <2>1, <2>2, WriteClock, WriteReaders DEF WriteSome
  <2>3. ASSUME NEW r \in Readers, Reposition(r) \/ StartStream(r) \/ ReadNext(r)
        PROVE  ClockInv' /\ ReaderInv'
    <3>1. UNCHANGED ringVars
      BY <2>3 DEF Reposition, Read, Position, After, AfterRev, MoveTo, StartStream,
         ReadNext, ReadNextEmpty, ReadNextPlace, ReadNextScan
    <3> QED
      BY <2>1, <2>3, <3>1, ReadsKeepInv DEF ClockInv, ringVars
  <2>4. CASE UNCHANGED vars
    BY <2>1, <2>4 DEF ClockInv, ReaderInv, vars
  <2> QED
    BY <1>2, <2>2, <2>3, <2>4 DEF Next
<1> QED
  BY <1>1, <1>2, RingInvariant, PTL DEF Spec

\* A reader that is not lapped is given the next packet its filter accepts and
\* passes over nothing it accepts.
LEMMA ScanSkipsNothing ==
  ASSUME TypeOK, WindowExact, ClockInv, ReaderInv, NEW r \in Readers,
         reader[r].sn > 0, ~Lapped(r), ReadNext(r),
         NEW o \in Live, slot[o].sn > reader[r].sn, slot[o].stream \in Accepts[r]
  PROVE  Delivered(r) /\ last'[r] <= slot[o].sn /\ reader'[r].sn = last'[r]
<1> DEFINE x == reader[r].off
           w == FirstOffset(r)
           n == Steps(w, EobOffset)
<1>1. x \in Offsets /\ x >= 0 /\ slot[x].sn = reader[r].sn /\ x \in Live
  <2>1. x \in Offsets
    BY DEF ReaderInv
  <2> QED
    BY <2>1, RingAssumption DEF Lapped, Live, Offsets
<1>2. w = NextOffset(x)
  BY <1>1 DEF FirstOffset
<1> HIDE DEF x, w, n
<1>3. /\ writes > 0 /\ latest.off \in Offsets
      /\ \A i \in 0 .. n - 1 : At(w, i) \in Live /\ slot[At(w, i)].sn = slot[x].sn + 1 + i
      /\ \E i \in 0 .. n - 1 : o = At(w, i)
  BY <1>1, <1>2, WalkFacts DEF n
<1>4. PICK k \in 0 .. n - 1 : o = At(w, k)
  BY <1>3
<1>5. ReadNextScan(r)
  BY <1>1, <1>3, RingAssumption DEF ReadNext, ReadNextEmpty, ReadNextPlace, Offsets, x
<1>6. ~MovesOn(r)
  BY <1>4 DEF MovesOn, Walk, w, n
<1>7. PICK i : Delivers(r, i)
  BY <1>5, <1>6, ScanOutcome
<1> DEFINE h == At(w, i)
<1>8. /\ i \in 0 .. n - 1 /\ \A j \in 0 .. i - 1 : slot[At(w, j)].stream \notin Accepts[r]
      /\ reader' = [reader EXCEPT ![r] = Placed(h)] /\ last' = [last EXCEPT ![r] = slot[h].sn]
  BY <1>7 DEF Delivers, w, n
<1>9. slot[h].sn = slot[x].sn + 1 + i /\ slot[o].sn = slot[x].sn + 1 + k
  BY <1>3, <1>4, <1>8
<1>10. i <= k
  BY <1>4, <1>8
<1>11. slot[x].sn \in Nat /\ reader[r].sn \in Nat /\ last[r] \in Nat /\ last[r] <= reader[r].sn
  BY <1>1 DEF TypeOK, Packet, ReaderRecord, ReaderInv
<1>12. last'[r] = slot[h].sn /\ reader'[r].sn = slot[h].sn
  BY <1>8 DEF TypeOK, Placed
<1> HIDE DEF h
<1>13. slot[h].sn <= slot[o].sn /\ slot[h].sn > reader[r].sn
  BY <1>1, <1>4, <1>8, <1>9, <1>10, <1>11
<1> QED
  BY <1>11, <1>12, <1>13 DEF Delivered

\* ReadNext skips nothing: unless the clock steps back, a reader whose packet is
\* still in the ring gets the next packet that passes its filter.
THEOREM ReadNextSkipsNothing == ~ClockMayStepBack => (Spec => NothingSkipped)
<1> SUFFICES ASSUME ~ClockMayStepBack PROVE Spec => NothingSkipped
  OBVIOUS
<1> DEFINE Step == \A r \in Readers :
             /\ reader[r].sn > 0 /\ ~Lapped(r) /\ ReadNext(r)
             => \A o \in Live :
                  slot[o].sn > reader[r].sn /\ slot[o].stream \in Accepts[r]
                  => Delivered(r) /\ last'[r] <= slot[o].sn /\ reader'[r].sn = last'[r]
<1>1. RingInv /\ (ClockMayStepBack \/ (ClockInv /\ ReaderInv)) /\ [Next]_vars => Step
  BY ScanSkipsNothing DEF RingInv
<1> QED
  BY <1>1, RingInvariant, ReadersInvariant, PTL DEF Spec, NothingSkipped

-----------------------------------------------------------------------------
(* The ring implements RingLog                                             *)

\* What RingLog keeps of a packet, and the log the ring stands for.
Kept == [stream : Streams, start : DataTimes]
LogOf == [i \in 1 .. Held |-> Content(slot[At(earliest.off, i - 1)])]

\* lg lists, in order, the n packets in the slots that end with write number w.
Lists(lg, sl, n, w) ==
  /\ lg \in Seq(Kept) /\ Len(lg) = n
  /\ \A i \in 1 .. n : \E o \in Offsets : sl[o].sn = w - n + i /\ lg[i] = Content(sl[o])
  /\ \A o \in Offsets : sl[o].sn > 0 =>
       sl[o].sn - (w - n) \in 1 .. n /\ lg[sl[o].sn - (w - n)] = Content(sl[o])

\* The slots of the window, read from the earliest on, list its packets.
LEMMA WindowLists ==
  ASSUME NEW sl \in [Offsets -> Packet], NEW e \in Offsets, NEW n \in 1 .. MaxPackets,
         NEW w \in Nat, n <= w,
         \A o \in Offsets : sl[o].sn = IF Steps(e, o) < n THEN w - n + 1 + Steps(e, o) ELSE 0,
         \A o \in Offsets : sl[o].sn > 0 => Content(sl[o]) \in Kept,
         NEW lg, lg = [i \in 1 .. n |-> Content(sl[At(e, i - 1)])]
  PROVE  Lists(lg, sl, n, w)
<1>1. /\ \A o \in Offsets : Steps(e, o) \in 0 .. MaxPackets - 1 /\ At(e, Steps(e, o)) = o
      /\ \A i \in 0 .. MaxPackets - 1 : At(e, i) \in Offsets /\ Steps(e, At(e, i)) = i
  BY StepsType, StepsAt, AtType
<1>2. ASSUME NEW i \in 1 .. n
      PROVE  /\ At(e, i - 1) \in Offsets /\ sl[At(e, i - 1)].sn = w - n + i
             /\ lg[i] = Content(sl[At(e, i - 1)]) /\ lg[i] \in Kept
  <2>1. i - 1 \in 0 .. MaxPackets - 1 /\ i - 1 < n
    BY RingAssumption
  <2>2. At(e, i - 1) \in Offsets /\ Steps(e, At(e, i - 1)) = i - 1
    BY <1>1, <2>1
  <2>3. sl[At(e, i - 1)].sn = w - n + i
    BY <2>1, <2>2
  <2>4. w - n + i > 0
    OBVIOUS
  <2> QED
    BY <2>2, <2>3, <2>4
<1>3. lg \in Seq(Kept) /\ Len(lg) = n
  <2>1. lg \in [1 .. n -> Kept]
    <3>1. DOMAIN lg = 1 .. n /\ lg = [i \in 1 .. n |-> lg[i]]
      OBVIOUS
    <3> QED
      BY <1>2, <3>1
  <2> QED
    BY <2>1
<1>4. ASSUME NEW o \in Offsets, sl[o].sn > 0
      PROVE  sl[o].sn - (w - n) \in 1 .. n /\ lg[sl[o].sn - (w - n)] = Content(sl[o])
  <2> DEFINE k == Steps(e, o)
  <2>1. k \in Nat /\ k < n /\ sl[o].sn = w - n + 1 + k /\ At(e, k) = o
    BY <1>1, <1>4, RingAssumption
  <2> HIDE DEF k
  <2>2. sl[o].sn - (w - n) = k + 1 /\ k + 1 \in 1 .. n /\ (k + 1) - 1 = k
    BY <2>1
  <2> QED
    BY <1>2, <2>1, <2>2
<1> QED
  BY <1>2, <1>3, <1>4 DEF Lists

\* Once a packet has been written, the log lists the packets of the window.
LEMMA LogLists ==
  ASSUME TypeOK, WindowExact, IndexInv, writes > 0
  PROVE  Lists(LogOf, slot, Held, writes) /\ Held <= writes
<1>1. /\ earliest.off \in Offsets /\ slot \in [Offsets -> Packet] /\ writes \in Nat
      /\ \A o \in Offsets :
           slot[o].sn = IF Steps(earliest.off, o) < Held
                        THEN writes - Held + 1 + Steps(earliest.off, o) ELSE 0
  BY DEF TypeOK, WindowExact
<1>2. Held \in 1 .. MaxPackets /\ Held <= writes
  BY <1>1, RingAssumption DEF Held
<1>3. \A o \in Offsets : slot[o].sn > 0 => Content(slot[o]) \in Kept
  BY DEF IndexInv, Live, Content, Kept
<1> QED
  BY <1>1, <1>2, <1>3, WindowLists DEF LogOf

\* Write records the packet in the log.
LEMMA WriteRecords ==
  ASSUME TypeOK, TypeOK', WindowExact, WindowExact', IndexInv, IndexInv',
         NEW s \in Streams, NEW d \in DataTimes,
         NEW id \in UserIds \cup {RingIdNone}, Write(s, d, id)
  PROVE  \E p \in Kept : Log!Record(p)
<1> DEFINE o == WriteOffset
           c == [stream |-> s, start |-> d]
           lg == LogOf
           lg2 == LogOf'
<1>1. /\ o \in Offsets /\ writes \in Nat /\ writes' = writes + 1 /\ UNCHANGED last
      /\ slot'[o].sn = writes + 1 /\ Content(slot'[o]) = c
      /\ \A x \in Offsets \ {o} :
           slot'[x].sn = slot[x].sn /\ Content(slot'[x]) = Content(slot[x])
  BY WriteFacts DEF TypeOK, Content
<1>2. Held \in Nat /\ Held' = (IF Held < MaxPackets THEN Held + 1 ELSE Held)
      /\ Held' \in 1 .. MaxPackets /\ Held' <= writes'
  BY <1>1, RingAssumption DEF Held
<1>3. Lists(lg2, slot', Held', writes')
  <2>1. /\ earliest'.off \in Offsets /\ slot' \in [Offsets -> Packet] /\ writes' \in Nat
        /\ \A x \in Offsets :
             slot'[x].sn = IF Steps(earliest'.off, x) < Held'
                           THEN writes' - Held' + 1 + Steps(earliest'.off, x) ELSE 0
    BY <1>1 DEF TypeOK, WindowExact
  <2>2. \A x \in Offsets : slot'[x].sn > 0 => Content(slot'[x]) \in Kept
    BY DEF IndexInv, Live, Content, Kept
  <2>3. lg2 = [k \in 1 .. Held' |-> Content(slot'[At(earliest'.off, k - 1)])]
    BY DEF LogOf
  <2> DEFINE sl == slot'
             e == earliest'.off
             n == Held'
             w == writes'
  <2> HIDE DEF sl, e, n, w, lg2
  <2>4. /\ sl \in [Offsets -> Packet] /\ e \in Offsets /\ n \in 1 .. MaxPackets
        /\ w \in Nat /\ n <= w
        /\ \A x \in Offsets : sl[x].sn = IF Steps(e, x) < n THEN w - n + 1 + Steps(e, x) ELSE 0
        /\ \A x \in Offsets : sl[x].sn > 0 => Content(sl[x]) \in Kept
        /\ lg2 = [k \in 1 .. n |-> Content(sl[At(e, k - 1)])]
    BY <1>2, <2>1, <2>2, <2>3 DEF sl, e, n, w
  <2>5. Lists(lg2, sl, n, w)
    BY <2>4, WindowLists
  <2> QED
    BY <2>5 DEF sl, n, w
<1>4. lg2 = Append(IF Len(lg) < MaxPackets THEN lg ELSE Tail(lg), c)
  <2>1. CASE writes = 0
    <3>1. lg = <<>> /\ Held = 0 /\ Held' = 1
      BY <1>1, <1>2, <2>1, RingAssumption DEF LogOf, Held
    <3> HIDE DEF lg, lg2
    <3>2. lg2 \in Seq(Kept) /\ Len(lg2) = 1
      BY <1>3, <3>1 DEF Lists
    <3>3. lg2[1] = c
      <4>1. /\ slot'[o].sn > 0 /\ slot'[o].sn - (writes' - Held') = 1
        BY <1>1, <2>1, <3>1
      <4> QED
        BY <1>1, <1>3, <4>1 DEF Lists
    <3>4. lg2 = <<c>> /\ Append(lg, c) = <<c>>
      BY <3>1, <3>2, <3>3
    <3> QED
      BY <3>1, <3>4, RingAssumption
  <2>2. CASE writes > 0
    <3> DEFINE new == slot'
               n2 == Held'
               n == Held
               w == writes
               short == IF Len(lg) < MaxPackets THEN lg ELSE Tail(lg)
    <3>1. Lists(lg, slot, n, w) /\ n <= w /\ n > 0
      BY <2>2, LogLists, RingAssumption DEF Held
    <3>2. /\ n \in Nat /\ w \in Nat /\ o \in Offsets /\ new[o].sn = w + 1
          /\ n2 = (IF n < MaxPackets THEN n + 1 ELSE n) /\ n2 \in Nat /\ n2 > 0
          /\ \A x \in Offsets \ {o} : new[x].sn = slot[x].sn /\ Content(new[x]) = Content(slot[x])
          /\ c = Content(new[o])
      BY <1>1, <1>2
    <3>3. /\ lg2 \in Seq(Kept) /\ Len(lg2) = n2
          /\ \A j \in 1 .. n2 :
               \E x \in Offsets : new[x].sn = w + 1 - n2 + j /\ lg2[j] = Content(new[x])
          /\ \A x \in Offsets : new[x].sn > 0 =>
               new[x].sn - (w + 1 - n2) \in 1 .. n2 /\ lg2[new[x].sn - (w + 1 - n2)] = Content(new[x])
      BY <1>1, <1>3 DEF Lists
    <3>4. short = IF Len(lg) < MaxPackets THEN lg ELSE Tail(lg)
      OBVIOUS
    <3> HIDE DEF lg, lg2, new, n2, n, w, o, c, short
    <3>5. /\ lg \in Seq(Kept) /\ Len(lg) = n /\ lg # <<>>
          /\ \A x \in Offsets : slot[x].sn > 0 =>
               slot[x].sn - (w - n) \in 1 .. n /\ lg[slot[x].sn - (w - n)] = Content(slot[x])
      BY <3>1, <3>2 DEF Lists
    <3>6. /\ short \in Seq(Kept) /\ Len(short) = n2 - 1
          /\ \A i \in 1 .. n2 - 1 : short[i] = IF n < MaxPackets THEN lg[i] ELSE lg[i + 1]
      <4>1. CASE n < MaxPackets
        BY <3>2, <3>4, <3>5, <4>1
      <4>2. CASE ~(n < MaxPackets)
        BY <3>2, <3>4, <3>5, <4>2, HeadTailProperties
      <4> QED
        BY <4>1, <4>2
    <3>7. lg2[n2] = c /\ c \in Kept
      <4>1. new[o].sn > 0 /\ new[o].sn - (w + 1 - n2) = n2
        BY <3>2
      <4>2. lg2[n2] = c
        BY <3>2, <3>3, <4>1
      <4> QED
        BY <3>2, <3>3, <4>2
    <3>8. ASSUME NEW i \in 1 .. n2 - 1 PROVE lg2[i] = short[i]
      <4>1. i \in 1 .. n2
        BY <3>2
      <4>2. PICK x \in Offsets : new[x].sn = w + 1 - n2 + i /\ lg2[i] = Content(new[x])
        BY <3>3, <4>1
      <4>3. x # o /\ slot[x].sn = w + 1 - n2 + i /\ lg2[i] = Content(slot[x])
        BY <3>2, <4>2
      <4>4. slot[x].sn > 0 /\ slot[x].sn - (w - n) = IF n < MaxPackets THEN i ELSE i + 1
        BY <3>1, <3>2, <4>3
      <4>5. lg[slot[x].sn - (w - n)] = Content(slot[x])
        BY <3>5, <4>4
      <4> QED
        BY <3>6, <4>3, <4>4, <4>5
    <3>9. /\ Append(short, c) \in Seq(Kept) /\ Len(Append(short, c)) = n2
          /\ \A i \in 1 .. n2 - 1 : Append(short, c)[i] = short[i]
          /\ Append(short, c)[n2] = c
      <4>1. n2 - 1 \in Nat /\ (n2 - 1) + 1 = n2
        BY <3>2
      <4> QED
        BY <3>6, <3>7, <4>1, AppendProperties
    <3>10. \A i \in 1 .. n2 : lg2[i] = Append(short, c)[i]
      <4> TAKE i \in 1 .. n2
      <4>1. i = n2 \/ i \in 1 .. n2 - 1
        BY <3>2
      <4> QED
        BY <3>7, <3>8, <3>9, <4>1
    <3>11. lg2 = Append(short, c)
      BY <3>3, <3>9, <3>10, SeqEqual
    <3> QED
      BY <3>11 DEF short
  <2> QED
    BY <1>1, <2>1, <2>2
<1>5. c \in Kept
  BY DEF Kept
<1>6. Log!Record(c)
  BY <1>1, <1>4 DEF Log!Record, LogOf
<1> QED
  BY <1>5, <1>6

\* A step of a reader hands it a packet of the log that is newer than the last
\* one, starts it again, or is none of the log's business.
LEMMA ReadsHand ==
  ASSUME TypeOK, WindowExact, IndexInv, ClockInv, ReaderInv, NEW r \in Readers,
         Reposition(r) \/ StartStream(r) \/ ReadNext(r)
  PROVE  UNCHANGED ringVars /\ (Log!Hand(r) \/ Log!Restart(r) \/ UNCHANGED last)
<1>1. UNCHANGED ringVars
  BY DEF Reposition, Read, Position, After, AfterRev, MoveTo, StartStream,
     ReadNext, ReadNextEmpty, ReadNextPlace, ReadNextScan
<1>2. UNCHANGED <<LogOf, writes>>
  BY <1>1 DEF LogOf, Held, ringVars
<1>3. ASSUME last' = [last EXCEPT ![r] = 0] PROVE Log!Restart(r)
  BY <1>2, <1>3 DEF Log!Restart, LogOf
<1>4. CASE Reposition(r)
  BY <1>1, <1>3, <1>4 DEF Reposition, Read, Position, After, AfterRev, MoveTo
<1>5. CASE StartStream(r) \/ ReadNextEmpty(r) \/ ReadNextPlace(r)
  BY <1>1, <1>5 DEF StartStream, ReadNextEmpty, ReadNextPlace
<1>6. CASE ReadNextScan(r)
  <2>1. CASE MovesOn(r)
    BY <1>1, <2>1 DEF MovesOn
  <2>2. ASSUME NEW i, Delivers(r, i) PROVE Log!Hand(r) \/ Log!Restart(r)
    <3> DEFINE h == At(FirstOffset(r), i)
    <3>1. h \in Walk(r) /\ h \in Offsets /\ last' = [last EXCEPT ![r] = slot[h].sn]
      BY <1>6, <2>2, WalkType DEF ReadNextScan, Delivers, Walk
    <3>2. reader[r].sn > 0 => slot[h].sn > reader[r].sn
      BY <2>2, WalkNewer DEF Delivers
    <3> HIDE DEF h
    <3>3. /\ slot[h].sn \in Nat /\ last[r] \in Nat /\ reader[r].sn \in Nat
          /\ last[r] <= reader[r].sn /\ writes \in Nat
      BY <3>1 DEF TypeOK, Packet, ReaderRecord, ReaderInv
    <3>4. CASE slot[h].sn = 0
      BY <1>3, <3>1, <3>4
    <3>5. CASE slot[h].sn > 0
      <4>1. slot[h].sn > last[r]
        BY <3>2, <3>3, <3>5
      <4>2. writes > 0
        BY <3>1, <3>3, <3>5 DEF WindowExact, Live
      <4>3. Lists(LogOf, slot, Held, writes)
        BY <4>2, LogLists
      <4> DEFINE k == slot[h].sn - (writes - Held)
      <4>4. Len(LogOf) = Held /\ k \in 1 .. Held
        BY <3>1, <3>5, <4>3 DEF Lists
      <4>5. writes - Len(LogOf) + k = slot[h].sn
        <5>1. Held \in Nat
          BY <3>3, RingAssumption DEF Held
        <5> QED
          BY <3>3, <4>4, <5>1
      <4> HIDE DEF k
      <4>6. /\ k \in 1 .. Len(LogOf) /\ writes - Len(LogOf) + k > last[r]
            /\ last' = [last EXCEPT ![r] = writes - Len(LogOf) + k]
        BY <3>1, <4>1, <4>4, <4>5
      <4> QED
        BY <1>2, <4>6 DEF Log!Hand, Log!Ordinal, LogOf
    <3> QED
      BY <3>3, <3>4, <3>5
  <2> QED
    BY <1>1, <1>6, <2>1, <2>2, ScanOutcome
<1> QED
  BY <1>1, <1>4, <1>5, <1>6 DEF ReadNext

\* The ring implements the log that keeps the last MaxPackets packets, as long
\* as the clock does not step back.
THEOREM RingImplementsLog == ~ClockMayStepBack => (Spec => ImplementsLog)
<1> SUFFICES ASSUME ~ClockMayStepBack PROVE Spec => ImplementsLog
  OBVIOUS
<1>1. Init => Log!Init
  <2> SUFFICES ASSUME Init PROVE Log!Init
    OBVIOUS
  <2>1. writes = 0 /\ Held = 0 /\ last = [r \in Readers |-> 0]
    BY RingAssumption DEF Init, Held
  <2>2. LogOf = <<>>
    BY <2>1 DEF LogOf
  <2> QED
    BY <2>1, <2>2 DEF Log!Init, LogOf
<1>2. /\ RingInv /\ RingInv' /\ IndexInv /\ IndexInv'
      /\ (ClockMayStepBack \/ (ClockInv /\ ReaderInv)) /\ [Next]_vars
      => [Log!Next]_(Log!vars)
  <2> SUFFICES ASSUME RingInv, RingInv', IndexInv, IndexInv', ClockInv, ReaderInv, [Next]_vars
               PROVE  Log!Next \/ UNCHANGED Log!vars
    OBVIOUS
  <2>1. CASE WriteSome
    <3>1. \E p \in Kept : Log!Record(p)
      BY <2>1, WriteRecords DEF WriteSome, RingInv
    <3> QED
      BY <3>1 DEF Log!Next, Kept
  <2>2. ASSUME NEW r \in Readers, Reposition(r) \/ StartStream(r) \/ ReadNext(r)
        PROVE  Log!Next \/ UNCHANGED Log!vars
    <3>1. UNCHANGED ringVars /\ (Log!Hand(r) \/ Log!Restart(r) \/ UNCHANGED last)
      BY <2>2, ReadsHand DEF RingInv
    <3>2. CASE Log!Hand(r) \/ Log!Restart(r)
      BY <3>2 DEF Log!Next
    <3>3. CASE UNCHANGED last
      BY <3>1, <3>3 DEF Log!vars, ringVars, Held
    <3> QED
      BY <3>1, <3>2, <3>3
  <2>3. CASE UNCHANGED vars
    BY <2>3 DEF vars, Log!vars, Held
  <2> QED
    BY <2>1, <2>2, <2>3 DEF Next
<1> QED
  BY <1>1, <1>2, RingInvariant, IndexInvariant, ReadersInvariant, PTL
     DEF Spec, ImplementsLog, Log!Spec
=============================================================================
