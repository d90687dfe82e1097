--------------------------- MODULE RingRaceProofs ---------------------------
(***************************************************************************)
(* Theorems about RingRace, for every size of ring and any number of       *)
(* writes.  What ReadNext returns is whole, goes forward and leaves        *)
(* nothing out, as long as the clock tells two packets apart, a packet is  *)
(* copied from its header on, and writers do not go round the whole ring   *)
(* during one call.                                                        *)
(***************************************************************************)
EXTENDS RingRace, TLAPS

\* What ReadNext relies on to do without a lock.
Calm == ~ClockTies /\ ~DataFirst /\ MaxBurst + 1 < MaxPackets

-----------------------------------------------------------------------------
(* The invariant                                                           *)

\* The number of packets published, and whether the header or the data of the
\* one being written is in its slot already.
Storing   == wpc \in {"copy", "publish"}
Published == IF Storing THEN storing.sn - 1 ELSE storing.sn
HeaderIn  == Storing /\ "header" \notin left
DataIn    == Storing /\ "data" \notin left

\* How many packets before the latest offset l an offset is.
Behind(o, l) == IF l >= o THEN l - o ELSE l - o + MaxPackets
After(l) == IF l < 0 THEN 0 ELSE NextOffset(l)

\* The ordinals f in the slots, when w packets are published, the last at l, and
\* the next one is stored (new) or not.
Filled(f, w, l, new) ==
  \A o \in Offsets :
    f[o] = IF new /\ o = After(l) THEN w + 1
           ELSE IF w - Behind(o, l) > 0 THEN w - Behind(o, l) ELSE 0

Ordinals == [o \in Offsets |-> hdr[o].sn]

\* The oldest packet that has not been evicted.
Oldest == IF storing.sn <= MaxPackets THEN 1 ELSE storing.sn - MaxPackets + 1

\* The loop variables are in range where they are used.
TypeInv ==
  /\ TypeOK /\ burst \in 0 .. MaxBurst
  /\ rpc \notin {"idle", "earliest"} => lo \in Offsets
  /\ rpc \in {"resync", "copy", "check"} => offset \in Offsets
  /\ rpc \in {"loop", "resync"} => skipped < MaxSkipped

\* The writer: the time of a packet tells its ordinal, and the slots hold the
\* packets in order up to the one being stored.
WriteInv ==
  /\ clock = storing.sn /\ storing.time = storing.sn
  /\ \A o \in Offsets : hdr[o].time = hdr[o].sn
  /\ wpc = "copy" => left \in {{"data"}, {"header", "data"}}
  /\ wpc # "copy" => left = {}
  /\ Storing => storing.sn > 0
  /\ latestOffset < 0 <=> Published = 0
  /\ Filled(Ordinals, Published, latestOffset, HeaderIn)
  /\ Filled(data, Published, latestOffset, DataIn)
  /\ earliestOffset < 0 <=> Published = 0 \/ wpc = "first"
  /\ wpc = "first" => Published = 1
  /\ earliestOffset >= 0 => Behind(earliestOffset, latestOffset) = Published - Oldest

\* The packet that was the latest when the call began stays in its slot, and the
\* loop uses its time.
CallInv ==
  /\ rpc = "idle" => burst = 0
  /\ rpc # "idle" /\ lo >= 0 =>
       /\ 0 < hdr[lo].sn /\ hdr[lo].sn <= Published /\ storing.sn <= hdr[lo].sn + burst + 1
       /\ hdr[lo].sn + burst <= storing.sn /\ reader.sn <= hdr[lo].sn
  /\ rpc = "time" /\ eo >= 0 => hdr[eo].sn > 0
  /\ rpc \in {"loop", "resync", "copy", "check"} => lt = hdr[lo].sn

\* The slot the reader is on holds its packet, or one that went round the ring.
PlaceInv ==
  /\ reader.off < 0 => reader.sn = 0
  /\ reader.off >= 0 =>
       /\ 0 < reader.sn /\ reader.sn <= Published
       /\ hdr[reader.off].sn = reader.sn \/ hdr[reader.off].sn >= reader.sn + MaxPackets
  /\ given.sn <= reader.sn /\ given.data = given.sn

\* The loop is about to read a later packet than the reader's: in a call that began
\* in time the next one, one stored since the call began, or one before which
\* everything is evicted.
Follows(n, k) == n = k + 1 \/ n > hdr[lo].sn \/ n <= Oldest

LoopInv ==
  /\ rpc = "loop" /\ offset >= 0 /\ offset # NextOffset(lo) =>
       /\ hdr[offset].sn > reader.sn
       /\ hdr[offset].sn <= hdr[lo].sn \/ Oldest > reader.sn
       /\ InTime => Follows(hdr[offset].sn, reader.sn)
  /\ rpc = "resync" => earliestOffset >= 0 /\ Oldest > reader.sn
  /\ rpc \in {"copy", "check"} =>
       /\ offset = reader.off /\ pkt.sn = reader.sn /\ pkt.time = pkt.sn /\ given.sn < pkt.sn
  /\ rpc = "check" => copy = pkt.sn \/ hdr[offset].sn # pkt.sn

\* The reader has not passed a packet of the window that it accepts, but for the
\* one at hand.
GapInv ==
  InTime =>
    \A o \in Offsets :
      /\ given.sn < hdr[o].sn /\ Oldest <= hdr[o].sn
      /\ hdr[o].sn < reader.sn \/ (hdr[o].sn = reader.sn /\ rpc \notin {"copy", "check"})
      => ~hdr[o].accepted

RaceInv == TypeInv /\ WriteInv /\ CallInv /\ PlaceInv /\ LoopInv /\ GapInv

-----------------------------------------------------------------------------
(* The slots                                                               *)

LEMMA NextOffsetType ==
  ASSUME NEW o \in Offsets
  PROVE  NextOffset(o) \in Offsets /\ NextOffset(o) # o
BY RaceAssumption DEF NextOffset, Offsets

LEMMA WriteOffsetType ==
  ASSUME TypeOK
  PROVE  WriteOffset \in Offsets /\ WriteOffset = After(latestOffset)
BY RaceAssumption DEF TypeOK, WriteOffset, After, NextOffset, Offsets

\* The slots hold consecutive ordinals up to top, each in the slot after the one
\* before it.
LEMMA SlotFacts ==
  ASSUME NEW f, NEW w \in Nat, NEW l \in Offsets \cup {-1}, NEW new \in BOOLEAN,
         l < 0 <=> w = 0, Filled(f, w, l, new),
         NEW top, top = IF new THEN w + 1 ELSE w
  PROVE  /\ \A o \in Offsets : f[o] \in Nat /\ f[o] <= top /\ f[o] > top - MaxPackets
         /\ \A o, p \in Offsets : f[o] = f[p] /\ f[o] > 0 => o = p
         /\ w > 0 => f[l] = w
         /\ f[After(l)] = IF new THEN w + 1 ELSE IF w + 1 > MaxPackets THEN w + 1 - MaxPackets ELSE 0
         /\ \A o \in Offsets :
              f[o] > 0 => \/ f[NextOffset(o)] = f[o] + 1
                          \/ /\ f[o] = top
                             /\ f[NextOffset(o)] = IF top + 1 > MaxPackets
                                                   THEN top + 1 - MaxPackets ELSE 0
<1>1. MaxPackets \in Nat /\ MaxPackets >= 2 /\ Offsets = 0 .. MaxPackets - 1
  BY RaceAssumption DEF Offsets
<1>2. After(l) \in Offsets
  BY <1>1 DEF After, NextOffset
<1>3. \A o \in Offsets : Behind(o, l) \in 0 .. MaxPackets - 1
  BY <1>1 DEF Behind
<1>4. \A o, p \in Offsets : Behind(o, l) = Behind(p, l) => o = p
  BY <1>1 DEF Behind
<1>5. Behind(After(l), l) = MaxPackets - 1
  BY <1>1 DEF Behind, After, NextOffset
<1>6. \A o \in Offsets : o # After(l) => Behind(o, l) < MaxPackets - 1
  BY <1>1, <1>2, <1>3, <1>4, <1>5
<1>7. l >= 0 => Behind(l, l) = 0 /\ l # After(l)
  BY <1>1 DEF Behind, After, NextOffset
<1>8. \A o \in Offsets :
        Behind(NextOffset(o), l) = IF Behind(o, l) = 0 THEN MaxPackets - 1 ELSE Behind(o, l) - 1
  BY <1>1 DEF Behind, NextOffset
<1>9. \A o \in Offsets :
        f[o] = IF new /\ o = After(l) THEN w + 1
               ELSE IF w - Behind(o, l) > 0 THEN w - Behind(o, l) ELSE 0
  BY DEF Filled
<1>10. \A o \in Offsets : NextOffset(o) \in Offsets
  BY NextOffsetType
<1> DEFINE a == After(l)
           b(o) == Behind(o, l)
           n(o) == NextOffset(o)
<1> HIDE DEF a, b, n
<1>11. \A o \in Offsets : f[o] \in Nat /\ f[o] <= top /\ f[o] > top - MaxPackets
  <2> SUFFICES ASSUME NEW o \in Offsets
               PROVE  f[o] \in Nat /\ f[o] <= top /\ f[o] > top - MaxPackets
    OBVIOUS
  <2>1. CASE new /\ o = After(l)
    BY <1>1, <1>9, <2>1
  <2>2. CASE ~(new /\ o = After(l))
    <3>1. f[o] = IF w - Behind(o, l) > 0 THEN w - Behind(o, l) ELSE 0
      BY <1>9, <2>2
    <3>2. Behind(o, l) \in 0 .. MaxPackets - 1 /\ (new => Behind(o, l) < MaxPackets - 1)
      BY <1>3, <1>6, <2>2
    <3> QED
      BY <1>1, <3>1, <3>2
  <2> QED
    BY <2>1, <2>2
<1>12. ASSUME NEW o \in Offsets, NEW p \in Offsets, f[o] = f[p], f[o] > 0
       PROVE  o = p
  <2>1. ASSUME NEW x \in Offsets, f[x] > 0
        PROVE  \/ new /\ x = After(l) /\ f[x] = w + 1
               \/ ~(new /\ x = After(l)) /\ f[x] = w - Behind(x, l)
    BY <1>3, <1>9, <2>1
  <2>2. Behind(o, l) \in Nat /\ Behind(p, l) \in Nat
    BY <1>3
  <2>3. f[o] > 0 /\ f[p] > 0
    BY <1>12
  <2>4. CASE new /\ o = After(l)
    BY <2>1, <2>2, <2>3, <2>4, <1>12
  <2>5. CASE ~(new /\ o = After(l))
    <3>1. f[o] = w - Behind(o, l) /\ f[p] = w - Behind(p, l)
      BY <2>1, <2>2, <2>3, <2>5, <1>12
    <3>2. w - Behind(o, l) = w - Behind(p, l)
      BY <1>12, <3>1
    <3>3. \A x, y \in Nat : w - x = w - y => x = y
      OBVIOUS
    <3>4. Behind(o, l) = Behind(p, l)
      BY <2>2, <3>2, <3>3
    <3> QED
      BY <1>4, <3>4
  <2> QED
    BY <2>4, <2>5
<1>13. w > 0 => f[l] = w
  <2>1. w > 0 => l \in Offsets /\ l >= 0
    BY <1>1
  <2> QED
    BY <1>1, <1>7, <1>9, <2>1
<1>14. f[After(l)] = IF new THEN w + 1 ELSE IF w + 1 > MaxPackets THEN w + 1 - MaxPackets ELSE 0
  BY <1>1, <1>2, <1>5, <1>9
<1>15. ASSUME NEW o \in Offsets, f[o] > 0
       PROVE  \/ f[NextOffset(o)] = f[o] + 1
              \/ /\ f[o] = top
                 /\ f[NextOffset(o)] = IF top + 1 > MaxPackets
                                       THEN top + 1 - MaxPackets ELSE 0
  <2>1. CASE new /\ o = After(l)
    <3>1. f[o] = w + 1 /\ NextOffset(o) # After(l) /\ Behind(NextOffset(o), l) = MaxPackets - 2
      <4>1. f[o] = w + 1
        BY <1>9, <2>1
      <4>2. NextOffset(o) # o
        BY NextOffsetType
      <4>3. Behind(o, l) = MaxPackets - 1
        BY <1>5, <2>1
      <4> QED
        BY <1>1, <1>8, <2>1, <4>1, <4>2, <4>3
    <3>2. f[NextOffset(o)] = IF w - (MaxPackets - 2) > 0 THEN w - (MaxPackets - 2) ELSE 0
      BY <1>9, <1>10, <3>1
    <3> QED
      BY <1>1, <2>1, <3>1, <3>2
  <2>2. CASE ~(new /\ o = After(l))
    <3>1. f[o] = w - Behind(o, l)
      BY <1>1, <1>3, <1>9, <1>15, <2>2
    <3>2. CASE Behind(o, l) = 0
      <4>1. o = l /\ NextOffset(o) = After(l)
        BY <1>1, <1>15, <3>1, <3>2 DEF Behind, After
      <4> QED
        BY <1>1, <1>14, <3>1, <3>2, <4>1
    <3>3. CASE Behind(o, l) # 0
      <4>1. Behind(NextOffset(o), l) = Behind(o, l) - 1
        BY <1>8, <3>3
      <4>2. NextOffset(o) # After(l)
        BY <1>1, <1>3, <1>5, <4>1
      <4>3. f[NextOffset(o)] = w - Behind(NextOffset(o), l)
        <5>1. f[NextOffset(o)] = IF w - Behind(NextOffset(o), l) > 0
                                 THEN w - Behind(NextOffset(o), l) ELSE 0
          BY <1>9, <1>10, <4>2
        <5>2. w - Behind(o, l) > 0 /\ Behind(o, l) \in 0 .. MaxPackets - 1
          BY <1>3, <1>15, <3>1
        <5> QED
          BY <4>1, <5>1, <5>2
      <4> QED
        BY <1>1, <1>3, <3>1, <4>1, <4>3
    <3> QED
      BY <3>2, <3>3
  <2> QED
    BY <2>1, <2>2
<1> QED
  BY <1>11, <1>12, <1>13, <1>14, <1>15

\* Storing the header or the data of the next packet, and publishing it.
LEMMA StoreFills ==
  ASSUME NEW f, NEW w \in Nat, NEW l \in Offsets \cup {-1}, Filled(f, w, l, FALSE),
         NEW g, \A o \in Offsets : g[o] = IF o = After(l) THEN w + 1 ELSE f[o]
  PROVE  Filled(g, w, l, TRUE)
BY DEF Filled

LEMMA PublishFills ==
  ASSUME NEW f, NEW w \in Nat, NEW l \in Offsets \cup {-1}, l < 0 <=> w = 0,
         Filled(f, w, l, TRUE), NEW v, v = w + 1, NEW m, m = After(l)
  PROVE  Filled(f, v, m, FALSE)
<1>1. MaxPackets \in Nat /\ MaxPackets >= 2 /\ Offsets = 0 .. MaxPackets - 1
  BY RaceAssumption DEF Offsets
<1>2. m \in Offsets /\ Behind(m, m) = 0
  BY <1>1 DEF After, NextOffset, Behind
<1>3. \A o \in Offsets : o # m => Behind(o, m) = Behind(o, l) + 1
  BY <1>1 DEF After, NextOffset, Behind
<1>4. \A o \in Offsets : Behind(o, l) \in Nat
  BY <1>1 DEF Behind
<1>5. \A o \in Offsets :
        f[o] = IF o = m THEN v
               ELSE IF w - Behind(o, l) > 0 THEN w - Behind(o, l) ELSE 0
  BY DEF Filled
<1>6. ASSUME NEW o \in Offsets
      PROVE  f[o] = IF v - Behind(o, m) > 0 THEN v - Behind(o, m) ELSE 0
  BY <1>2, <1>3, <1>4, <1>5
<1> QED
  BY <1>6 DEF Filled

-----------------------------------------------------------------------------
(* The types                                                               *)

LEMMA InitTypes == Init => TypeInv
<1> SUFFICES ASSUME Init PROVE TypeInv
  OBVIOUS
<1>1. Blank \in Header
  BY DEF Blank, Header
<1> QED
  BY <1>1, RaceAssumption DEF Init, TypeInv, TypeOK

LEMMA WriterTypes ==
  ASSUME TypeInv, Writer
  PROVE  TypeInv'
<1>1. WriteOffset \in Offsets
  BY WriteOffsetType DEF TypeInv
<1>2. CASE BeginWrite
  <2>1. storing' \in Header /\ clock' \in Nat
    <3>1. PICK t \in NSnow, a \in BOOLEAN :
            storing' = [sn |-> storing.sn + 1, time |-> t, accepted |-> a] /\ clock' = t
      BY <1>2 DEF BeginWrite
    <3>2. t \in Nat
      BY DEF NSnow, TypeInv, TypeOK
    <3> QED
      BY <3>1, <3>2 DEF Header, TypeInv, TypeOK
  <2>2. earliestOffset' \in Offsets \cup {-1}
    <3>1. earliestOffset \in Offsets => NextOffset(earliestOffset) \in Offsets
      BY NextOffsetType
    <3>2. EvictedOffset \in Offsets \cup {-1}
      BY <1>1, <3>1 DEF EvictedOffset, TypeInv, TypeOK
    <3> QED
      BY <1>2, <3>2 DEF BeginWrite
  <2>3. burst' \in 0 .. MaxBurst
    BY <1>2, RaceAssumption DEF BeginWrite, TypeInv
  <2> QED
    BY <1>2, <2>1, <2>2, <2>3 DEF BeginWrite, WriteStep, readVars, localVars, TypeInv, TypeOK
<1>3. CASE StoreHeader
  BY <1>1, <1>3 DEF StoreHeader, WriteStep, readVars, localVars, TypeInv, TypeOK
<1>4. CASE StoreData
  <2>1. storing.sn \in Nat
    BY DEF TypeInv, TypeOK, Header
  <2> QED
    BY <1>1, <1>4, <2>1 DEF StoreData, WriteStep, readVars, localVars, TypeInv, TypeOK
<1>5. CASE PublishLatest
  BY <1>1, <1>5 DEF PublishLatest, WriteStep, readVars, localVars, TypeInv, TypeOK
<1>6. CASE PublishFirst
  BY <1>1, <1>6 DEF PublishFirst, WriteStep, readVars, localVars, TypeInv, TypeOK
<1> QED
  BY <1>2, <1>3, <1>4, <1>5, <1>6 DEF Writer

\* Placing the reader.
LEMMA AtType ==
  ASSUME TypeInv, NEW o \in Offsets, NEW h \in Header
  PROVE  /\ At(o, h) \in [off : Offsets \cup {-1}, id : {"next", "earliest"}, sn : Nat]
         /\ At(o, h).off = o /\ At(o, h).sn = h.sn
BY DEF At, TypeInv, TypeOK, Header

LEMMA ReaderTypes ==
  ASSUME TypeInv, ReadNext
  PROVE  TypeInv'
<1>1. CASE LoadLatest
  BY <1>1, RaceAssumption DEF LoadLatest, ReadStep, writeVars, localVars, TypeInv, TypeOK
<1>2. CASE LoadEarliest
  <2>1. reader' \in [off : Offsets \cup {-1}, id : {"next", "earliest"}, sn : Nat]
    BY <1>2 DEF LoadEarliest, TypeInv, TypeOK
  <2>2. rpc' \in {"idle", "time"} /\ (rpc' = "time" => ~(lo < 0)) /\ burst' \in 0 .. MaxBurst
    BY <1>2, RaceAssumption DEF LoadEarliest, ReadStep, TypeInv
  <2>3. ~(lo < 0) => lo \in Offsets
    BY RaceAssumption DEF TypeInv, TypeOK, Offsets
  <2> QED
    BY <1>2, <2>1, <2>2, <2>3 DEF LoadEarliest, ReadStep, writeVars, TypeInv, TypeOK
<1>3. CASE LoadLatestTime
  <2>1. lo \in Offsets /\ hdr[lo] \in Header /\ hdr[lo].time \in Nat
    BY <1>3 DEF LoadLatestTime, TypeInv, TypeOK, Header
  <2>2. FirstOffset \in Offsets \cup {-1}
    <3>1. reader.off \in Offsets \cup {-1} /\ eo \in Offsets \cup {-1}
      BY DEF TypeInv, TypeOK
    <3>2. ~(reader.off < 0) => reader.off \in Offsets
      BY <3>1
    <3> QED
      BY <3>1, <3>2, NextOffsetType DEF FirstOffset
  <2>3. reader' \in [off : Offsets \cup {-1}, id : {"next", "earliest"}, sn : Nat]
    BY <1>3, <2>1, AtType DEF LoadLatestTime, TypeInv, TypeOK
  <2>4. /\ offset' \in Offsets \cup {-1} /\ rpc' \in {"idle", "loop"} /\ burst' \in 0 .. MaxBurst
        /\ lt' \in Nat /\ skipped' = 0
    BY <1>3, <2>1, <2>2, RaceAssumption DEF LoadLatestTime, ReadStep, TypeInv, TypeOK
  <2>5. UNCHANGED <<writeVars, lo, eo, pkt, copy, given>>
    BY <1>3 DEF LoadLatestTime, ReadStep
  <2> QED
    BY <2>1, <2>3, <2>4, <2>5, RaceAssumption DEF writeVars, TypeInv, TypeOK
<1>4. CASE EndOfBuffer
  BY <1>4, RaceAssumption DEF EndOfBuffer, ReadStep, writeVars, localVars, TypeInv, TypeOK
<1>5. CASE LoadHeader
  <2>1. offset \in Offsets
    BY <1>5, RaceAssumption DEF LoadHeader, TypeInv, TypeOK, Offsets
  <2>2. hdr[offset] \in Header /\ NextOffset(offset) \in Offsets /\ pkt' = hdr[offset]
    BY <1>5, <2>1, NextOffsetType DEF LoadHeader, TypeInv, TypeOK
  <2>3. /\ reader' \in [off : Offsets \cup {-1}, id : {"next", "earliest"}, sn : Nat]
        /\ skipped' \in 0 .. MaxSkipped /\ skipped' < MaxSkipped
        /\ offset' \in Offsets /\ rpc' \in {"resync", "copy", "loop"} /\ burst' \in 0 .. MaxBurst
    BY <1>5, <2>1, <2>2, AtType, RaceAssumption DEF LoadHeader, ReadStep, TypeInv, TypeOK
  <2>4. UNCHANGED <<writeVars, lo, eo, lt, copy, given>> /\ rpc = "loop"
    BY <1>5 DEF LoadHeader, ReadStep
  <2> QED
    BY <2>2, <2>3, <2>4 DEF writeVars, TypeInv, TypeOK
<1>6. CASE Resync
  BY <1>6, RaceAssumption DEF Resync, ReadStep, writeVars, TypeInv, TypeOK
<1>7. CASE LoadData
  BY <1>7, RaceAssumption DEF LoadData, ReadStep, writeVars, TypeInv, TypeOK
<1>8. CASE Deliver
  <2>1. given' \in [sn : Nat, data : Nat]
    BY <1>8 DEF Deliver, TypeInv, TypeOK, Header
  <2> QED
    BY <1>8, <2>1, RaceAssumption DEF Deliver, ReadStep, writeVars, localVars, TypeInv, TypeOK
<1> QED
  BY <1>1, <1>2, <1>3, <1>4, <1>5, <1>6, <1>7, <1>8 DEF ReadNext

LEMMA StepTypes == TypeInv /\ [Next]_vars => TypeInv'
<1>1. TypeInv /\ UNCHANGED vars => TypeInv'
  BY DEF vars, writeVars, readVars, localVars, TypeInv, TypeOK
<1> QED
  BY <1>1, WriterTypes, ReaderTypes DEF Next

\* Every access of ReadNext and Write is to a slot of the ring, whatever the
\* order they run in.
THEOREM TypeCorrect == Spec => []TypeOK
<1>1. TypeInv => TypeOK
  BY DEF TypeInv
<1> QED
  BY <1>1, InitTypes, StepTypes, PTL DEF Spec

-----------------------------------------------------------------------------
(* The writer                                                              *)

\* What WriteInv says of the slots.
LEMMA HeaderFacts ==
  ASSUME TypeInv, WriteInv, NEW top, top = IF HeaderIn THEN storing.sn ELSE Published
  PROVE  /\ storing.sn \in Nat /\ Published \in Nat /\ top \in Nat /\ top <= storing.sn
         /\ Published <= top /\ storing.sn <= Published + 1
         /\ \A o \in Offsets :
              hdr[o].sn \in Nat /\ hdr[o].sn <= top /\ hdr[o].sn > top - MaxPackets
         /\ \A o, p \in Offsets : hdr[o].sn = hdr[p].sn /\ hdr[o].sn > 0 => o = p
         /\ Published > 0 => latestOffset \in Offsets /\ hdr[latestOffset].sn = Published
         /\ hdr[WriteOffset].sn = IF HeaderIn THEN storing.sn
                                  ELSE IF Published + 1 > MaxPackets
                                  THEN Published + 1 - MaxPackets ELSE 0
         /\ \A o \in Offsets :
              hdr[o].sn > 0 => \/ hdr[NextOffset(o)].sn = hdr[o].sn + 1
                               \/ /\ hdr[o].sn = top
                                  /\ hdr[NextOffset(o)].sn = IF top + 1 > MaxPackets
                                                             THEN top + 1 - MaxPackets ELSE 0
<1> DEFINE f == Ordinals
           w == Published
           l == latestOffset
           new == HeaderIn
<1>1. storing.sn \in Nat /\ (Storing => storing.sn > 0)
  BY DEF TypeInv, TypeOK, Header, WriteInv
<1>2. w \in Nat /\ (Storing => storing.sn = w + 1) /\ (~Storing => storing.sn = w)
  BY <1>1 DEF Published
<1>3. l \in Offsets \cup {-1} /\ new \in BOOLEAN /\ (l < 0 <=> w = 0) /\ Filled(f, w, l, new)
  BY DEF TypeInv, TypeOK, WriteInv, HeaderIn
<1>4. top = IF new THEN w + 1 ELSE w
  BY <1>2 DEF HeaderIn
<1>5. WriteOffset \in Offsets /\ WriteOffset = After(l)
  BY WriteOffsetType DEF TypeInv
<1>6. /\ \A o \in Offsets : f[o] = hdr[o].sn
      /\ \A o \in Offsets : NextOffset(o) \in Offsets
  BY NextOffsetType DEF Ordinals
<1>7. w > 0 => l \in Offsets
  BY <1>3, RaceAssumption DEF Offsets
<1>8. (new => storing.sn = w + 1) /\ w <= storing.sn
  BY <1>2 DEF HeaderIn
<1> HIDE DEF f, w, l, new
<1>9. /\ \A o \in Offsets : f[o] \in Nat /\ f[o] <= top /\ f[o] > top - MaxPackets
      /\ \A o, p \in Offsets : f[o] = f[p] /\ f[o] > 0 => o = p
      /\ w > 0 => f[l] = w
      /\ f[After(l)] = IF new THEN w + 1 ELSE IF w + 1 > MaxPackets THEN w + 1 - MaxPackets ELSE 0
      /\ \A o \in Offsets :
           f[o] > 0 => \/ f[NextOffset(o)] = f[o] + 1
                       \/ /\ f[o] = top
                          /\ f[NextOffset(o)] = IF top + 1 > MaxPackets
                                                THEN top + 1 - MaxPackets ELSE 0
  BY <1>2, <1>3, <1>4, SlotFacts
<1>10. storing.sn \in Nat /\ w \in Nat /\ top \in Nat /\ top <= storing.sn /\ w <= top /\ storing.sn <= w + 1
  BY <1>1, <1>2, <1>4, <1>8
<1>11. /\ \A o \in Offsets :
            hdr[o].sn \in Nat /\ hdr[o].sn <= top /\ hdr[o].sn > top - MaxPackets
       /\ \A o, p \in Offsets : hdr[o].sn = hdr[p].sn /\ hdr[o].sn > 0 => o = p
       /\ w > 0 => l \in Offsets /\ hdr[l].sn = w
  BY <1>6, <1>7, <1>9
<1>12. hdr[WriteOffset].sn = IF new THEN storing.sn
                             ELSE IF w + 1 > MaxPackets THEN w + 1 - MaxPackets ELSE 0
  BY <1>5, <1>6, <1>8, <1>9
<1>13. \A o \in Offsets :
         hdr[o].sn > 0 => \/ hdr[NextOffset(o)].sn = hdr[o].sn + 1
                          \/ /\ hdr[o].sn = top
                             /\ hdr[NextOffset(o)].sn = IF top + 1 > MaxPackets
                                                        THEN top + 1 - MaxPackets ELSE 0
  BY <1>6, <1>9
<1> QED
  BY <1>10, <1>11, <1>12, <1>13 DEF w, l, new

LEMMA InitWrites == Init => WriteInv
<1> SUFFICES ASSUME Init PROVE WriteInv
  OBVIOUS
<1>1. Storing = FALSE /\ Published = 0 /\ HeaderIn = FALSE /\ DataIn = FALSE
  BY DEF Init, Storing, Published, HeaderIn, DataIn, Blank
<1>2. \A o \in Offsets : Behind(o, -1) \in Nat
  BY RaceAssumption DEF Behind, Offsets
<1>3. \A o \in Offsets : Ordinals[o] = 0 /\ data[o] = 0 /\ hdr[o].time = 0 /\ hdr[o].sn = 0
  BY DEF Init, Ordinals, Blank
<1>4. Filled(Ordinals, 0, -1, FALSE) /\ Filled(data, 0, -1, FALSE)
  BY <1>2, <1>3 DEF Filled
<1>5. /\ Filled(Ordinals, Published, latestOffset, HeaderIn)
      /\ Filled(data, Published, latestOffset, DataIn)
  BY <1>1, <1>4 DEF Init
<1>6. /\ latestOffset < 0 /\ earliestOffset < 0 /\ ~(earliestOffset >= 0) /\ wpc = "idle" /\ left = {}
      /\ clock = 0 /\ storing.sn = 0 /\ storing.time = 0
  BY DEF Init, Blank
<1> QED
  BY <1>1, <1>3, <1>5, <1>6 DEF WriteInv

\* Reaching the slot of the packet about to be written means reaching the oldest.
LEMMA BehindFacts ==
  ASSUME NEW l \in Offsets, NEW e \in Offsets
  PROVE  /\ Behind(l, l) = 0 /\ Behind(e, l) \in 0 .. MaxPackets - 1
         /\ e = NextOffset(l) <=> Behind(e, l) = MaxPackets - 1
         /\ e = NextOffset(l) => Behind(NextOffset(e), l) = MaxPackets - 2
         /\ e # NextOffset(l) => Behind(e, NextOffset(l)) = Behind(e, l) + 1
BY RaceAssumption DEF Behind, NextOffset, Offsets

LEMMA BeginWriteInv ==
  ASSUME Calm, TypeInv, WriteInv, BeginWrite
  PROVE  WriteInv'
<1>1. /\ wpc = "idle" /\ wpc' = "copy" /\ left' = {"header", "data"}
      /\ UNCHANGED <<hdr, data, latestOffset>> /\ earliestOffset' = EvictedOffset
  BY DEF BeginWrite, WriteStep
<1>2. storing'.sn = storing.sn + 1 /\ storing'.time = storing.sn + 1 /\ clock' = storing.sn + 1
  BY DEF BeginWrite, NSnow, Calm, WriteInv
<1>3. storing.sn \in Nat /\ Published = storing.sn /\ Published' = storing.sn /\ ~HeaderIn /\ ~DataIn
  BY <1>1, <1>2 DEF Storing, Published, HeaderIn, DataIn, TypeInv, TypeOK, Header
<1>4. ~HeaderIn' /\ ~DataIn'
  BY <1>1 DEF HeaderIn, DataIn
<1>5. Filled(Ordinals, Published, latestOffset, FALSE) /\ Filled(data, Published, latestOffset, FALSE)
  <2>1. HeaderIn = FALSE /\ DataIn = FALSE
    BY <1>3 DEF HeaderIn, DataIn
  <2> QED
    BY <2>1 DEF WriteInv
<1>6. /\ Filled(Ordinals', Published', latestOffset', HeaderIn')
      /\ Filled(data', Published', latestOffset', DataIn')
  <2>1. HeaderIn' = FALSE /\ DataIn' = FALSE
    BY <1>4 DEF HeaderIn, DataIn
  <2>2. Ordinals' = Ordinals
    BY <1>1 DEF Ordinals
  <2> QED
    BY <1>1, <1>3, <1>5, <2>1, <2>2
<1>7. /\ earliestOffset' < 0 <=> Published' = 0
      /\ earliestOffset' >= 0 => Behind(earliestOffset', latestOffset) = Published' - Oldest'
  <2> DEFINE e == earliestOffset
             l == latestOffset
  <2>1. CASE storing.sn = 0
    <3>1. earliestOffset' = e /\ e < 0
      BY <1>1, <1>3, <2>1 DEF WriteInv, EvictedOffset, TypeInv, TypeOK, Offsets
    <3>2. ~(e >= 0)
      BY <3>1 DEF TypeInv, TypeOK, Offsets
    <3> QED
      BY <1>3, <2>1, <3>1, <3>2
  <2>2. CASE storing.sn > 0
    <3>1. e \in Offsets /\ l \in Offsets /\ e >= 0 /\ l >= 0
      BY <1>1, <1>3, <2>2, RaceAssumption DEF WriteInv, TypeInv, TypeOK, Offsets
    <3>2. Behind(e, l) = storing.sn - Oldest
      BY <1>3, <3>1 DEF WriteInv
    <3>3. WriteOffset = NextOffset(l)
      BY <3>1 DEF WriteOffset, Offsets
    <3>4. e = NextOffset(l) <=> storing.sn >= MaxPackets
      BY <1>3, <2>2, <3>1, <3>2, BehindFacts, RaceAssumption DEF Oldest
    <3>5. earliestOffset' = IF storing.sn >= MaxPackets THEN NextOffset(e) ELSE e
      BY <1>1, <3>1, <3>3, <3>4 DEF EvictedOffset
    <3>6. Behind(earliestOffset', l) = storing.sn - Oldest'
      <4>1. CASE storing.sn >= MaxPackets
        <5>1. Behind(earliestOffset', l) = MaxPackets - 2
          BY <3>1, <3>4, <3>5, <4>1, BehindFacts
        <5> QED
          BY <1>2, <1>3, <4>1, <5>1, RaceAssumption DEF Oldest
      <4>2. CASE ~(storing.sn >= MaxPackets)
        <5>1. Oldest = 1 /\ Oldest' = 1
          BY <1>2, <1>3, <4>2, RaceAssumption DEF Oldest
        <5> QED
          BY <3>2, <3>5, <4>2, <5>1
      <4> QED
        BY <4>1, <4>2
    <3>7. earliestOffset' \in Offsets
      BY <3>1, <3>5, NextOffsetType
    <3>8. ~(earliestOffset' < 0)
      BY <3>7, RaceAssumption DEF Offsets
    <3> QED
      BY <1>3, <2>2, <3>6, <3>8
  <2> QED
    BY <1>3, <2>1, <2>2
<1>8. Storing' /\ wpc' # "first"
  BY <1>1 DEF Storing
<1>9. \A o \in Offsets : hdr'[o].time = hdr'[o].sn
  BY <1>1 DEF WriteInv
<1>10. latestOffset' < 0 <=> Published' = 0
  BY <1>1, <1>3 DEF WriteInv
<1> QED
  BY <1>1, <1>2, <1>3, <1>6, <1>7, <1>8, <1>9, <1>10 DEF WriteInv

LEMMA StoreHeaderInv ==
  ASSUME Calm, TypeInv, WriteInv, StoreHeader
  PROVE  WriteInv' /\ Published' = Published /\ Oldest' = Oldest /\ ~HeaderIn /\ HeaderIn'
         /\ storing.sn = Published + 1
<1>1. /\ wpc = "copy" /\ "header" \in left /\ left' = left \ {"header"}
      /\ wpc' = IF left' = {} THEN "publish" ELSE "copy"
      /\ hdr' = [hdr EXCEPT ![WriteOffset] = storing]
      /\ UNCHANGED <<data, earliestOffset, latestOffset, clock, storing>>
  BY DEF StoreHeader, WriteStep
<1>2. left = {"header", "data"} /\ left' = {"data"} /\ wpc' = "copy"
  BY <1>1 DEF WriteInv
<1>3. /\ Published' = Published /\ Oldest' = Oldest /\ Storing /\ Storing'
      /\ HeaderIn = FALSE /\ HeaderIn' = TRUE /\ DataIn = FALSE /\ DataIn' = FALSE
  BY <1>1, <1>2 DEF Storing, Published, Oldest, HeaderIn, DataIn
<1>4. storing.sn \in Nat /\ storing.sn > 0 /\ Published \in Nat /\ storing.sn = Published + 1
  <2>1. storing.sn \in Nat /\ storing.sn > 0
    BY <1>3 DEF WriteInv, TypeInv, TypeOK, Header
  <2>2. Published = storing.sn - 1
    BY <1>3 DEF Published
  <2> QED
    BY <2>1, <2>2
<1>5. WriteOffset \in Offsets /\ WriteOffset = After(latestOffset)
  BY WriteOffsetType DEF TypeInv
<1>6. \A o \in Offsets : hdr'[o] = IF o = WriteOffset THEN storing ELSE hdr[o]
  BY <1>1, <1>5 DEF TypeInv, TypeOK
<1>7. Filled(Ordinals', Published', latestOffset', HeaderIn')
  <2>1. \A o \in Offsets : Ordinals'[o] = IF o = After(latestOffset) THEN Published + 1 ELSE Ordinals[o]
    BY <1>4, <1>5, <1>6 DEF Ordinals
  <2>2. Filled(Ordinals, Published, latestOffset, FALSE)
    BY <1>3 DEF WriteInv
  <2>3. latestOffset \in Offsets \cup {-1}
    BY DEF TypeInv, TypeOK
  <2>4. Filled(Ordinals', Published, latestOffset, TRUE)
    BY <1>4, <2>1, <2>2, <2>3, StoreFills
  <2> QED
    BY <1>1, <1>3, <2>4
<1>8. Filled(data', Published', latestOffset', DataIn')
  BY <1>1, <1>3 DEF WriteInv
<1>9. \A o \in Offsets : hdr'[o].time = hdr'[o].sn
  BY <1>6 DEF WriteInv
<1> QED
  BY <1>1, <1>2, <1>3, <1>4, <1>7, <1>8, <1>9 DEF WriteInv

LEMMA StoreDataInv ==
  ASSUME Calm, TypeInv, WriteInv, StoreData
  PROVE  WriteInv' /\ Published' = Published /\ Oldest' = Oldest
<1>1. /\ wpc = "copy" /\ "data" \in left /\ left' = left \ {"data"} /\ "header" \notin left
      /\ wpc' = IF left' = {} THEN "publish" ELSE "copy"
      /\ data' = [data EXCEPT ![WriteOffset] = storing.sn]
      /\ UNCHANGED <<hdr, earliestOffset, latestOffset, clock, storing>>
  BY DEF StoreData, WriteStep, Calm
<1>2. left = {"data"} /\ left' = {} /\ wpc' = "publish"
  BY <1>1 DEF WriteInv
<1>3. /\ Published' = Published /\ Oldest' = Oldest /\ Storing /\ Storing'
      /\ HeaderIn = TRUE /\ HeaderIn' = TRUE /\ DataIn = FALSE /\ DataIn' = TRUE
  BY <1>1, <1>2 DEF Storing, Published, Oldest, HeaderIn, DataIn
<1>4. storing.sn \in Nat /\ storing.sn > 0 /\ Published \in Nat /\ storing.sn = Published + 1
  <2>1. storing.sn \in Nat /\ storing.sn > 0
    BY <1>3 DEF WriteInv, TypeInv, TypeOK, Header
  <2>2. Published = storing.sn - 1
    BY <1>3 DEF Published
  <2> QED
    BY <2>1, <2>2
<1>5. WriteOffset \in Offsets /\ WriteOffset = After(latestOffset)
  BY WriteOffsetType DEF TypeInv
<1>6. Filled(data', Published', latestOffset', DataIn')
  <2>1. \A o \in Offsets : data'[o] = IF o = After(latestOffset) THEN Published + 1 ELSE data[o]
    BY <1>1, <1>4, <1>5 DEF TypeInv, TypeOK
  <2>2. Filled(data, Published, latestOffset, FALSE)
    BY <1>3 DEF WriteInv
  <2>3. latestOffset \in Offsets \cup {-1}
    BY DEF TypeInv, TypeOK
  <2>4. Filled(data', Published, latestOffset, TRUE)
    BY <1>4, <2>1, <2>2, <2>3, StoreFills
  <2> QED
    BY <1>1, <1>3, <2>4
<1>7. Ordinals' = Ordinals
  BY <1>1 DEF Ordinals
<1>8. Filled(Ordinals', Published', latestOffset', HeaderIn')
  BY <1>1, <1>3, <1>7 DEF WriteInv
<1> QED
  BY <1>1, <1>2, <1>3, <1>4, <1>6, <1>8 DEF WriteInv

LEMMA PublishInv ==
  ASSUME TypeInv, WriteInv, PublishLatest
  PROVE  WriteInv' /\ Published' = Published + 1 /\ Oldest' = Oldest
<1>1. /\ wpc = "publish" /\ wpc' = (IF earliestOffset < 0 THEN "first" ELSE "idle")
      /\ latestOffset' = WriteOffset /\ left = {} /\ left' = {}
      /\ UNCHANGED <<hdr, data, earliestOffset, clock, storing>>
  BY DEF PublishLatest, WriteStep, WriteInv
<1>2. storing.sn \in Nat /\ storing.sn > 0 /\ Published = storing.sn - 1 /\ Published \in Nat
      /\ Published' = Published + 1 /\ Oldest' = Oldest
      /\ HeaderIn = TRUE /\ DataIn = TRUE /\ HeaderIn' = FALSE /\ DataIn' = FALSE
  BY <1>1 DEF Published, Storing, HeaderIn, DataIn, Oldest, WriteInv, TypeInv, TypeOK, Header
<1>3. WriteOffset \in Offsets /\ WriteOffset = After(latestOffset) /\ latestOffset \in Offsets \cup {-1}
  BY WriteOffsetType DEF TypeInv, TypeOK
<1>4. latestOffset < 0 <=> Published = 0
  BY DEF WriteInv
<1>5. /\ Filled(Ordinals, Published, latestOffset, TRUE)
      /\ Filled(data, Published, latestOffset, TRUE)
  BY <1>2 DEF WriteInv
<1>6. /\ Filled(Ordinals, Published', latestOffset', FALSE)
      /\ Filled(data, Published', latestOffset', FALSE)
  BY <1>1, <1>2, <1>3, <1>4, <1>5, PublishFills
<1>7. Ordinals' = Ordinals
  BY <1>1 DEF Ordinals
<1>8. /\ Filled(Ordinals', Published', latestOffset', HeaderIn')
      /\ Filled(data', Published', latestOffset', DataIn')
  BY <1>1, <1>2, <1>6, <1>7
<1>9. ~(latestOffset' < 0) /\ Published' # 0
  BY <1>1, <1>2, <1>3, RaceAssumption DEF Offsets
<1>10. earliestOffset < 0 <=> Published = 0
  BY <1>1 DEF WriteInv
<1>11. wpc' = "first" => Published' = 1
  BY <1>1, <1>2, <1>10
<1>12. ASSUME earliestOffset >= 0
       PROVE  Behind(earliestOffset, latestOffset') = Published' - Oldest'
  <2>1. /\ earliestOffset \in Offsets /\ latestOffset \in Offsets
        /\ Behind(earliestOffset, latestOffset) = Published - Oldest
    BY <1>3, <1>4, <1>10, <1>12, RaceAssumption DEF Offsets, TypeInv, TypeOK, WriteInv
  <2>2. WriteOffset = NextOffset(latestOffset)
    BY <2>1 DEF WriteOffset, Offsets
  <2>3. Published - Oldest # MaxPackets - 1
    BY <1>2, RaceAssumption DEF Oldest
  <2>4. earliestOffset # NextOffset(latestOffset)
    BY <2>1, <2>3, BehindFacts
  <2>5. Behind(earliestOffset, latestOffset') = Published - Oldest + 1
    BY <1>1, <2>1, <2>2, <2>4, BehindFacts
  <2>6. Oldest \in Int
    BY <1>2, RaceAssumption DEF Oldest
  <2> QED
    BY <1>2, <2>5, <2>6
<1>13. /\ earliestOffset' < 0 <=> Published' = 0 \/ wpc' = "first"
       /\ earliestOffset' >= 0 => Behind(earliestOffset', latestOffset') = Published' - Oldest'
  BY <1>1, <1>9, <1>12
<1>14. \A o \in Offsets : hdr'[o].time = hdr'[o].sn
  BY <1>1 DEF WriteInv
<1>15. wpc' \in {"first", "idle"} /\ ~Storing'
  BY <1>1 DEF Storing
<1> QED
  BY <1>1, <1>2, <1>8, <1>9, <1>11, <1>13, <1>14, <1>15 DEF WriteInv

LEMMA PublishFirstInv ==
  ASSUME TypeInv, WriteInv, PublishFirst
  PROVE  WriteInv' /\ Published' = Published /\ Oldest' = Oldest
<1>1. /\ wpc = "first" /\ wpc' = "idle" /\ earliestOffset' = latestOffset /\ left = {} /\ left' = {}
      /\ UNCHANGED <<hdr, data, latestOffset, clock, storing>>
  BY DEF PublishFirst, WriteStep, WriteInv
<1>2. /\ storing.sn = 1 /\ Published = 1 /\ Published' = 1 /\ Oldest = 1 /\ Oldest' = 1
      /\ HeaderIn = FALSE /\ DataIn = FALSE /\ HeaderIn' = FALSE /\ DataIn' = FALSE
      /\ ~Storing /\ ~Storing'
  BY <1>1, RaceAssumption DEF Published, Storing, HeaderIn, DataIn, Oldest, WriteInv
<1>3. latestOffset \in Offsets /\ ~(latestOffset < 0) /\ Behind(latestOffset, latestOffset) = 0
  BY <1>2, BehindFacts, RaceAssumption DEF WriteInv, TypeInv, TypeOK, Offsets
<1>4. Ordinals' = Ordinals
  BY <1>1 DEF Ordinals
<1>5. /\ Filled(Ordinals', Published', latestOffset', HeaderIn')
      /\ Filled(data', Published', latestOffset', DataIn')
  BY <1>1, <1>2, <1>4 DEF WriteInv
<1> QED
  BY <1>1, <1>2, <1>3, <1>5 DEF WriteInv

\* What a step of the writer that stores no header means to the reader.
LEMMA WriterEffects ==
  ASSUME Calm, TypeInv, WriteInv, CallInv, Writer
  PROVE  /\ WriteInv' /\ UNCHANGED readVars
         /\ Published \in Nat /\ Published' \in Nat /\ Published' >= Published
         /\ Oldest \in Nat /\ Oldest' \in Nat /\ Oldest' >= Oldest
         /\ earliestOffset >= 0 => earliestOffset' >= 0
         /\ hdr' = hdr \/ StoreHeader
         /\ rpc = "idle" => burst' = 0
         /\ storing.sn \in Nat /\ burst \in Nat /\ burst' \in Nat
         /\ rpc # "idle" => storing'.sn = storing.sn + (burst' - burst)
         /\ InTime' => InTime
<1>1. UNCHANGED readVars
  BY DEF Writer, BeginWrite, StoreHeader, StoreData, PublishLatest, PublishFirst, WriteStep
<1>2. storing.sn \in Nat /\ Published \in Nat /\ Oldest \in Nat /\ burst \in Nat
  BY HeaderFacts, RaceAssumption DEF Oldest, TypeInv
<1>3. earliestOffset \in Offsets \cup {-1} /\ latestOffset \in Offsets \cup {-1}
  BY DEF TypeInv, TypeOK
<1>4. CASE BeginWrite
  <2>1. WriteInv'
    BY <1>4, BeginWriteInv
  <2>2. storing'.sn = storing.sn + 1 /\ burst' = (IF rpc = "idle" THEN 0 ELSE burst + 1) /\ hdr' = hdr
    BY <1>4 DEF BeginWrite
  <2>3. Published' = Published
    BY <1>4, <2>2, <1>2 DEF BeginWrite, WriteStep, Published, Storing
  <2>4. Oldest' \in Nat /\ Oldest' >= Oldest
    BY <1>2, <2>2, RaceAssumption DEF Oldest
  <2>5. earliestOffset >= 0 => earliestOffset' >= 0
    <3>1. earliestOffset >= 0 => earliestOffset \in Offsets
      BY <1>3, RaceAssumption DEF Offsets
    <3>2. earliestOffset >= 0 => NextOffset(earliestOffset) \in Offsets
      BY <3>1, NextOffsetType
    <3>3. earliestOffset' = EvictedOffset
      BY <1>4 DEF BeginWrite
    <3> QED
      BY <3>1, <3>2, <3>3, RaceAssumption DEF EvictedOffset, Offsets
  <2>6. InTime' => InTime
    BY <1>1, <1>2, <2>2, RaceAssumption DEF InTime, CallInv, TypeInv, TypeOK, readVars
  <2> QED
    BY <1>1, <1>2, <2>1, <2>2, <2>3, <2>4, <2>5, <2>6
<1>5. CASE StoreHeader
  <2>1. WriteInv' /\ Published' = Published /\ Oldest' = Oldest
    BY <1>5, StoreHeaderInv
  <2>2. storing' = storing /\ burst' = burst /\ earliestOffset' = earliestOffset
    BY <1>5 DEF StoreHeader
  <2> QED
    BY <1>1, <1>2, <1>5, <2>1, <2>2 DEF CallInv, InTime, readVars
<1>6. CASE StoreData
  <2>1. WriteInv' /\ Published' = Published /\ Oldest' = Oldest
    BY <1>6, StoreDataInv
  <2>2. storing' = storing /\ burst' = burst /\ earliestOffset' = earliestOffset /\ hdr' = hdr
    BY <1>6 DEF StoreData
  <2> QED
    BY <1>1, <1>2, <2>1, <2>2 DEF CallInv, InTime, readVars
<1>7. CASE PublishLatest
  <2>1. WriteInv' /\ Published' = Published + 1 /\ Oldest' = Oldest
    BY <1>7, PublishInv
  <2>2. storing' = storing /\ burst' = burst /\ earliestOffset' = earliestOffset /\ hdr' = hdr
    BY <1>7 DEF PublishLatest
  <2> QED
    BY <1>1, <1>2, <2>1, <2>2 DEF CallInv, InTime, readVars
<1>8. CASE PublishFirst
  <2>1. WriteInv' /\ Published' = Published /\ Oldest' = Oldest
    BY <1>8, PublishFirstInv
  <2>2. storing' = storing /\ burst' = burst /\ earliestOffset' = latestOffset /\ hdr' = hdr
    BY <1>8 DEF PublishFirst
  <2>3. latestOffset >= 0
    BY <1>3, <1>8, RaceAssumption DEF PublishFirst, WriteStep, WriteInv, Offsets
  <2> QED
    BY <1>1, <1>2, <2>1, <2>2, <2>3 DEF CallInv, InTime, readVars
<1> QED
  BY <1>4, <1>5, <1>6, <1>7, <1>8 DEF Writer

\* What storing a header means to the reader.
LEMMA StoreEffects ==
  ASSUME Calm, TypeInv, WriteInv, StoreHeader
  PROVE  /\ WriteOffset \in Offsets /\ storing.sn = Published + 1
         /\ \A o \in Offsets : o # WriteOffset => hdr'[o] = hdr[o]
         /\ hdr'[WriteOffset] = storing /\ hdr[WriteOffset].sn < storing.sn
         /\ hdr[WriteOffset].sn > 0 => storing.sn = hdr[WriteOffset].sn + MaxPackets
         /\ \A o \in Offsets : hdr'[o].sn \in Nat /\ hdr'[o].sn > storing.sn - MaxPackets
         /\ \A o \in Offsets : hdr'[o].sn >= hdr[o].sn
<1>1. ~HeaderIn /\ storing.sn = Published + 1
  BY StoreHeaderInv
<1>2. WriteOffset \in Offsets
  BY WriteOffsetType DEF TypeInv
<1>3. \A o \in Offsets : hdr'[o] = IF o = WriteOffset THEN storing ELSE hdr[o]
  BY <1>2 DEF StoreHeader, TypeInv, TypeOK
<1>4. /\ Published \in Nat /\ storing.sn \in Nat
      /\ \A o \in Offsets : hdr[o].sn \in Nat /\ hdr[o].sn <= Published /\ hdr[o].sn > Published - MaxPackets
      /\ \A o, p \in Offsets : hdr[o].sn = hdr[p].sn /\ hdr[o].sn > 0 => o = p
      /\ hdr[WriteOffset].sn = IF Published + 1 > MaxPackets THEN Published + 1 - MaxPackets ELSE 0
  BY <1>1, HeaderFacts
<1>5. \A o \in Offsets : hdr'[o].sn > storing.sn - MaxPackets
  <2> DEFINE f == Ordinals'
  <2>1. \A o \in Offsets : f[o] = hdr'[o].sn
    BY DEF Ordinals
  <2>2. Filled(f, Published, latestOffset, TRUE)
    <3>1. Filled(Ordinals', Published', latestOffset', HeaderIn')
      BY StoreHeaderInv DEF WriteInv
    <3>2. Published' = Published /\ latestOffset' = latestOffset /\ HeaderIn' = TRUE
      BY StoreHeaderInv DEF StoreHeader, HeaderIn
    <3> QED
      BY <3>1, <3>2
  <2>3. latestOffset \in Offsets \cup {-1} /\ (latestOffset < 0 <=> Published = 0)
    BY DEF TypeInv, TypeOK, WriteInv
  <2> HIDE DEF f
  <2>4. \A o \in Offsets : f[o] > storing.sn - MaxPackets
    BY <1>1, <1>4, <2>2, <2>3, SlotFacts
  <2> QED
    BY <2>1, <2>4
<1> QED
  BY <1>1, <1>2, <1>3, <1>4, <1>5, RaceAssumption

\* The reader's invariants survive every step of the writer.
LEMMA WriterKeeps ==
  ASSUME Calm, RaceInv, Writer
  PROVE  CallInv' /\ PlaceInv' /\ LoopInv' /\ GapInv'
<1>1. TypeInv /\ WriteInv /\ CallInv /\ PlaceInv /\ LoopInv /\ GapInv /\ TypeInv'
  BY WriterTypes DEF RaceInv
<1>2. /\ UNCHANGED <<reader, rpc, lo, eo, lt, offset, skipped, pkt, copy, given>>
      /\ Published \in Nat /\ Published' \in Nat /\ Published' >= Published
      /\ Oldest \in Nat /\ Oldest' \in Nat /\ Oldest' >= Oldest
      /\ earliestOffset >= 0 => earliestOffset' >= 0
      /\ hdr' = hdr \/ StoreHeader
      /\ rpc = "idle" => burst' = 0
      /\ storing.sn \in Nat /\ burst \in Nat /\ burst' \in Nat
      /\ rpc # "idle" => storing'.sn = storing.sn + (burst' - burst)
      /\ InTime' => InTime
  BY <1>1, WriterEffects DEF readVars, localVars
<1>3. /\ reader.sn \in Nat /\ given.sn \in Nat /\ reader.off \in Offsets \cup {-1}
      /\ offset \in Offsets \cup {-1} /\ lo \in Offsets \cup {-1} /\ eo \in Offsets \cup {-1}
      /\ \A o \in Offsets : hdr[o].sn \in Nat /\ hdr'[o].sn \in Nat
      /\ MaxPackets \in Nat /\ MaxBurst \in Nat /\ burst <= MaxBurst /\ MaxBurst + 1 < MaxPackets
  BY <1>1, RaceAssumption DEF TypeInv, TypeOK, Header, Calm
<1>4. \A o \in Offsets \cup {-1} : o >= 0 <=> o \in Offsets
  BY RaceAssumption DEF Offsets
<1>5. storing'.sn \in Nat
  BY <1>1 DEF TypeInv, TypeOK, Header
<1>6. CASE hdr' = hdr
  <2>1. CallInv'
    BY <1>1, <1>2, <1>3, <1>4, <1>5, <1>6 DEF CallInv
  <2>2. PlaceInv'
    BY <1>1, <1>2, <1>3, <1>6 DEF PlaceInv
  <2>4. LoopInv'
    <3>1. ASSUME rpc = "loop", offset >= 0, offset # NextOffset(lo)
          PROVE  /\ hdr[offset].sn > reader.sn
                 /\ hdr[offset].sn <= hdr[lo].sn \/ Oldest' > reader.sn
                 /\ InTime' => Follows(hdr[offset].sn, reader.sn)'
      <4>1. offset \in Offsets /\ lo \in Offsets
        BY <1>1, <1>3, <1>4, <3>1 DEF TypeInv
      <4>2. Follows(hdr[offset].sn, reader.sn) => Follows(hdr[offset].sn, reader.sn)'
        BY <1>2, <1>3, <1>6, <4>1 DEF Follows
      <4> QED
        BY <1>1, <1>2, <1>3, <3>1, <4>1, <4>2 DEF LoopInv
    <3>2. (rpc = "resync" => earliestOffset' >= 0 /\ Oldest' > reader.sn)
      BY <1>1, <1>2, <1>3 DEF LoopInv
    <3> QED
      BY <1>1, <1>2, <1>6, <3>1, <3>2 DEF LoopInv
  <2>5. GapInv'
    BY <1>1, <1>2, <1>3, <1>6 DEF GapInv
  <2> QED
    BY <2>1, <2>2, <2>4, <2>5
<1>7. CASE StoreHeader
  <2> DEFINE w == WriteOffset
  <2>1. /\ w \in Offsets /\ storing.sn = Published + 1
        /\ \A o \in Offsets : o # w => hdr'[o] = hdr[o]
        /\ hdr'[w] = storing /\ hdr[w].sn < storing.sn
        /\ hdr[w].sn > 0 => storing.sn = hdr[w].sn + MaxPackets
        /\ \A o \in Offsets : hdr'[o].sn > storing.sn - MaxPackets
        /\ \A o \in Offsets : hdr'[o].sn >= hdr[o].sn
    BY <1>1, <1>7, StoreEffects
  <2>2. Published' = Published /\ Oldest' = Oldest /\ storing' = storing
    BY <1>1, <1>7, StoreHeaderInv DEF StoreHeader
  <2> HIDE DEF w
  <2>3. CallInv'
    <3>1. ASSUME rpc # "idle", lo >= 0
          PROVE  lo \in Offsets /\ hdr'[lo] = hdr[lo]
      <4>1. lo \in Offsets
        BY <1>3, <1>4, <3>1
      <4>2. 0 < hdr[lo].sn /\ storing.sn <= hdr[lo].sn + burst + 1
        BY <1>1, <3>1 DEF CallInv
      <4>3. lo # w
        BY <1>2, <1>3, <2>1, <4>1, <4>2
      <4> QED
        BY <2>1, <4>1, <4>3
    <3>2. rpc # "idle" /\ lo >= 0 =>
            /\ 0 < hdr'[lo].sn /\ hdr'[lo].sn <= Published'
            /\ storing'.sn <= hdr'[lo].sn + burst' + 1 /\ reader.sn <= hdr'[lo].sn
            /\ hdr'[lo].sn + burst' <= storing'.sn
      BY <1>1, <1>2, <1>3, <2>2, <3>1 DEF CallInv
    <3>3. rpc = "time" /\ eo >= 0 => hdr'[eo].sn > 0
      <4>1. rpc = "time" /\ eo >= 0 => eo \in Offsets /\ hdr[eo].sn > 0
        BY <1>1, <1>3, <1>4 DEF CallInv
      <4> QED
        BY <1>3, <2>1, <4>1
    <3>4. rpc \in {"loop", "resync", "copy", "check"} => lt = hdr'[lo].sn
      <4>1. rpc \in {"loop", "resync", "copy", "check"} => rpc # "idle" /\ lo >= 0
        BY <1>1, <1>4 DEF TypeInv
      <4> QED
        BY <1>1, <3>1, <4>1 DEF CallInv
    <3> QED
      BY <1>2, <3>2, <3>3, <3>4 DEF CallInv
  <2>4. PlaceInv'
    <3>1. ASSUME reader.off >= 0
          PROVE  hdr'[reader.off].sn = reader.sn \/ hdr'[reader.off].sn >= reader.sn + MaxPackets
      <4>1. /\ reader.off \in Offsets /\ 0 < reader.sn
            /\ hdr[reader.off].sn = reader.sn \/ hdr[reader.off].sn >= reader.sn + MaxPackets
        BY <1>1, <1>3, <1>4, <3>1 DEF PlaceInv
      <4>2. CASE reader.off = w
        BY <1>2, <1>3, <2>1, <4>1, <4>2
      <4>3. CASE reader.off # w
        BY <2>1, <4>1, <4>3
      <4> QED
        BY <4>2, <4>3
    <3> QED
      BY <1>1, <1>2, <2>2, <3>1 DEF PlaceInv
  <2>5. rpc = "loop" => lo \in Offsets /\ hdr'[lo] = hdr[lo] /\ hdr[lo].sn <= Published
    <3> SUFFICES ASSUME rpc = "loop" PROVE lo \in Offsets /\ hdr'[lo] = hdr[lo] /\ hdr[lo].sn <= Published
      OBVIOUS
    <3>1. lo \in Offsets /\ lo >= 0
      BY <1>1, <1>4 DEF TypeInv
    <3>2. 0 < hdr[lo].sn /\ storing.sn <= hdr[lo].sn + burst + 1 /\ hdr[lo].sn <= Published
      BY <1>1, <3>1 DEF CallInv
    <3>3. lo # w
      BY <1>2, <1>3, <2>1, <3>1, <3>2
    <3> QED
      BY <2>1, <3>1, <3>2, <3>3
  <2>6. given.sn <= reader.sn /\ reader.sn <= Published
    BY <1>1, <1>2, <1>3, <1>4 DEF PlaceInv
  <2>7. LoopInv'
    <3>1. ASSUME rpc = "loop", offset >= 0, offset # NextOffset(lo)
          PROVE  /\ hdr'[offset].sn > reader.sn
                 /\ hdr'[offset].sn <= hdr'[lo].sn \/ Oldest > reader.sn
                 /\ InTime' => Follows(hdr[offset].sn, reader.sn)'
      <4>1. /\ offset \in Offsets /\ lo \in Offsets
            /\ hdr[offset].sn > reader.sn
            /\ hdr[offset].sn <= hdr[lo].sn \/ Oldest > reader.sn
            /\ InTime => Follows(hdr[offset].sn, reader.sn)
        BY <1>1, <1>3, <1>4, <3>1 DEF LoopInv, TypeInv
      <4>2. hdr'[lo].sn >= hdr[lo].sn
        BY <2>1, <4>1
      <4>3. CASE offset = w
        <5>1. storing.sn = hdr[w].sn + MaxPackets /\ hdr[w].sn > reader.sn
          BY <1>3, <2>1, <4>1, <4>3
        <5>2. hdr'[offset].sn > reader.sn
          BY <1>3, <2>1, <4>3, <5>1
        <5>3. Oldest > reader.sn
          BY <1>2, <1>3, <2>1, <5>1 DEF Oldest
        <5>4. Follows(hdr[offset].sn, reader.sn)'
          BY <1>2, <1>3, <2>1, <2>5, <3>1, <4>1, <4>3 DEF Follows
        <5> QED
          BY <5>2, <5>3, <5>4
      <4>4. CASE offset # w
        <5>1. Follows(hdr[offset].sn, reader.sn) => Follows(hdr[offset].sn, reader.sn)'
          BY <1>2, <2>1, <2>2, <2>5, <3>1, <4>1, <4>4 DEF Follows
        <5> QED
          BY <1>2, <1>3, <2>1, <4>1, <4>2, <4>4, <5>1
      <4> QED
        BY <4>3, <4>4
    <3>2. rpc = "check" => copy = pkt.sn \/ hdr'[offset].sn # pkt.sn
      <4> SUFFICES ASSUME rpc = "check" PROVE copy = pkt.sn \/ hdr'[offset].sn # pkt.sn
        OBVIOUS
      <4>1. /\ offset \in Offsets /\ pkt.sn = reader.sn
            /\ copy = pkt.sn \/ hdr[offset].sn # pkt.sn
        BY <1>1 DEF LoopInv, TypeInv
      <4>2. hdr'[w].sn # pkt.sn
        BY <1>2, <1>3, <2>1, <2>6, <4>1
      <4> QED
        BY <2>1, <4>1, <4>2
    <3>3. rpc = "resync" =>
            earliestOffset' >= 0 /\ Oldest > reader.sn
      BY <1>1, <1>2 DEF LoopInv
    <3>4. rpc \in {"copy", "check"} =>
            offset = reader.off /\ pkt.sn = reader.sn /\ pkt.time = pkt.sn /\ given.sn < pkt.sn
      BY <1>1 DEF LoopInv
    <3> QED
      BY <1>2, <2>2, <3>1, <3>2, <3>3, <3>4 DEF LoopInv
  <2>8. GapInv'
    <3> SUFFICES ASSUME InTime', NEW o \in Offsets, given.sn < hdr'[o].sn, Oldest <= hdr'[o].sn,
                        \/ hdr'[o].sn < reader.sn
                        \/ hdr'[o].sn = reader.sn /\ rpc \notin {"copy", "check"}
                 PROVE  ~hdr'[o].accepted
      BY <1>2, <2>2 DEF GapInv
    <3>1. o # w
      BY <1>2, <1>3, <2>1, <2>6
    <3>2. hdr'[o] = hdr[o] /\ InTime
      BY <1>2, <2>1, <3>1
    <3> QED
      BY <1>1, <3>2 DEF GapInv
  <2> QED
    BY <2>3, <2>4, <2>7, <2>8
<1> QED
  BY <1>2, <1>6, <1>7

-----------------------------------------------------------------------------
(* The reader                                                              *)

\* EarliestOffset leads to the oldest packet, or nowhere.
LEMMA EarliestHolds ==
  ASSUME TypeInv, WriteInv, earliestOffset >= 0
  PROVE  earliestOffset \in Offsets /\ hdr[earliestOffset].sn = Oldest
<1> DEFINE e == earliestOffset
           l == latestOffset
           w == Published
<1>1. e \in Offsets /\ w \in Nat /\ storing.sn \in Nat /\ w <= storing.sn /\ (HeaderIn => storing.sn = w + 1)
  BY HeaderFacts, RaceAssumption DEF TypeInv, TypeOK, Offsets, HeaderIn, Published
<1>2. w > 0 /\ l \in Offsets
  BY <1>1, HeaderFacts, RaceAssumption DEF WriteInv, Offsets
<1>3. Behind(e, l) = w - Oldest
  BY DEF WriteInv
<1>4. Oldest \in Nat /\ Oldest > 0 /\ (HeaderIn => w - Oldest < MaxPackets - 1)
  BY <1>1, RaceAssumption DEF Oldest
<1>5. After(l) = NextOffset(l)
  BY <1>2, RaceAssumption DEF After, Offsets
<1>6. HeaderIn => e # After(l)
  BY <1>1, <1>2, <1>3, <1>4, <1>5, BehindFacts
<1>7. Ordinals[e] = IF HeaderIn /\ e = After(l) THEN w + 1
                    ELSE IF w - Behind(e, l) > 0 THEN w - Behind(e, l) ELSE 0
  BY <1>1 DEF WriteInv, Filled
<1>8. w - Behind(e, l) = Oldest
  BY <1>1, <1>3, <1>4
<1>9. Ordinals[e] = Oldest
  BY <1>4, <1>6, <1>7, <1>8
<1> QED
  BY <1>1, <1>9 DEF Ordinals

\* The data of a published packet are in the slot with its header.
LEMMA DataHolds ==
  ASSUME TypeInv, WriteInv, NEW o \in Offsets, 0 < hdr[o].sn, hdr[o].sn <= Published
  PROVE  data[o] = hdr[o].sn
<1>1. Published \in Nat
  BY HeaderFacts
<1>2. DataIn => HeaderIn
  BY DEF DataIn, HeaderIn, Storing, WriteInv
<1>3. Ordinals[o] = IF HeaderIn /\ o = After(latestOffset) THEN Published + 1
                    ELSE IF Published - Behind(o, latestOffset) > 0
                    THEN Published - Behind(o, latestOffset) ELSE 0
  BY DEF WriteInv, Filled
<1>4. data[o] = IF DataIn /\ o = After(latestOffset) THEN Published + 1
                ELSE IF Published - Behind(o, latestOffset) > 0
                THEN Published - Behind(o, latestOffset) ELSE 0
  BY DEF WriteInv, Filled
<1>5. ~(HeaderIn /\ o = After(latestOffset))
  BY <1>1, <1>3 DEF Ordinals
<1> QED
  BY <1>2, <1>3, <1>4, <1>5 DEF Ordinals

\* From a slot that holds, or held, the packet k the loop comes to k + 1, or to a
\* packet that went round the ring.
LEMMA NextPlace ==
  ASSUME TypeInv, WriteInv, lo \in Offsets, 0 < hdr[lo].sn, hdr[lo].sn <= Published,
         hdr[lo].sn + burst <= storing.sn, NEW o \in Offsets, NEW k \in Nat, 0 < k, k <= hdr[lo].sn, given.sn <= k,
         hdr[o].sn = k \/ hdr[o].sn >= k + MaxPackets,
         NextOffset(o) # NextOffset(lo)
  PROVE  /\ hdr[NextOffset(o)].sn > k
         /\ hdr[NextOffset(o)].sn <= hdr[lo].sn \/ Oldest > k
         /\ InTime => Follows(hdr[NextOffset(o)].sn, k)
<1> DEFINE top == IF HeaderIn THEN storing.sn ELSE Published
           c == hdr[o].sn
           n == hdr[NextOffset(o)].sn
<1>1. /\ storing.sn \in Nat /\ Published \in Nat /\ top \in Nat /\ top <= storing.sn /\ Published <= top
      /\ \A x \in Offsets : hdr[x].sn \in Nat /\ hdr[x].sn <= top /\ hdr[x].sn > top - MaxPackets
      /\ \A x, y \in Offsets : hdr[x].sn = hdr[y].sn /\ hdr[x].sn > 0 => x = y
      /\ c > 0 => \/ n = c + 1
                  \/ c = top /\ n = IF top + 1 > MaxPackets THEN top + 1 - MaxPackets ELSE 0
  BY HeaderFacts
<1>2. o # lo /\ NextOffset(o) \in Offsets
  BY NextOffsetType
<1>3. given.sn \in Nat /\ MaxPackets \in Nat /\ MaxPackets >= 2 /\ burst \in Nat
  BY RaceAssumption DEF TypeInv, TypeOK
<1> HIDE DEF top
<1>4. c \in Nat /\ c > 0 /\ c <= top /\ n \in Nat /\ n <= top
  BY <1>1, <1>2, <1>3
<1>5. CASE c = k
  <2>1. c # hdr[lo].sn
    BY <1>1, <1>2, <1>4
  <2>2. c < hdr[lo].sn /\ c < top
    BY <1>1, <1>4, <1>5, <2>1
  <2>3. n = c + 1
    BY <1>1, <1>4, <2>2
  <2> QED
    BY <1>1, <1>5, <2>2, <2>3 DEF Follows
<1>6. CASE c >= k + MaxPackets
  <2>1. Oldest > k
    BY <1>1, <1>3, <1>4, <1>6 DEF Oldest
  <2>2. n > k
    BY <1>1, <1>3, <1>4, <1>6
  <2>3. CASE n = c + 1
    BY <1>1, <1>2, <1>3, <1>4, <1>6, <2>1, <2>2, <2>3 DEF InTime, Follows
  <2>4. CASE c = top /\ n = top + 1 - MaxPackets
    <3>1. n <= Oldest
      BY <1>1, <1>3, <2>4 DEF Oldest
    <3> QED
      BY <2>1, <2>2, <3>1 DEF Follows
  <2> QED
    BY <1>1, <1>3, <1>4, <1>6, <2>3, <2>4
<1> QED
  BY <1>5, <1>6

\* What a step of the reader leaves alone.
LEMMA ReaderFrame ==
  ASSUME ReadNext
  PROVE  /\ UNCHANGED <<hdr, data, earliestOffset, latestOffset, storing, wpc, left, clock>>
         /\ Published' = Published /\ Oldest' = Oldest /\ (WriteInv => WriteInv')
         /\ rpc' = "idle" => burst' = 0
         /\ rpc' # "idle" => burst' = burst
         /\ TypeInv /\ given' = given => (InTime' => InTime)
<1>1. /\ UNCHANGED <<hdr, data, earliestOffset, latestOffset, storing, wpc, left, clock>>
      /\ burst' = IF rpc' = "idle" THEN 0 ELSE burst
  BY DEF ReadNext, LoadLatest, LoadEarliest, LoadLatestTime, EndOfBuffer, LoadHeader, Resync,
     LoadData, Deliver, ReadStep, writeVars
<1>2. TypeInv /\ given' = given => (InTime' => InTime)
  BY <1>1, RaceAssumption DEF TypeInv, TypeOK, Header, InTime
<1> QED
  BY <1>1, <1>2 DEF Published, Oldest, Storing, WriteInv, HeaderIn, DataIn, Ordinals

\* The invariants of the reader, which its steps have to restore.
ReadInv == CallInv /\ PlaceInv /\ LoopInv /\ GapInv

LEMMA LoadLatestKeeps ==
  ASSUME RaceInv, LoadLatest
  PROVE  ReadInv'
<1>0. InTime' => InTime
  BY ReaderFrame DEF RaceInv, ReadNext, LoadLatest
<1>1. /\ rpc = "idle" /\ rpc' = "earliest" /\ lo' = latestOffset
      /\ UNCHANGED <<reader, eo, lt, offset, skipped, pkt, copy, given>>
      /\ hdr' = hdr /\ storing' = storing /\ Published' = Published /\ Oldest' = Oldest
      /\ burst' = burst
  BY ReaderFrame DEF LoadLatest, ReadStep, ReadNext
<1>2. TypeInv /\ WriteInv /\ CallInv /\ PlaceInv /\ LoopInv /\ GapInv
  BY DEF RaceInv
<1>3. /\ Published \in Nat /\ storing.sn \in Nat /\ storing.sn <= Published + 1
      /\ Published <= storing.sn
      /\ Published > 0 => hdr[latestOffset].sn = Published
  BY <1>2, HeaderFacts
<1>4. latestOffset >= 0 => Published > 0
  BY <1>2, <1>3, RaceAssumption DEF WriteInv, TypeInv, TypeOK, Offsets
<1>5. burst = 0 /\ reader.sn \in Nat /\ reader.sn <= Published
  BY <1>1, <1>2, <1>3, RaceAssumption DEF CallInv, PlaceInv, TypeInv, TypeOK, Offsets
<1>6. CallInv'
  BY <1>1, <1>3, <1>4, <1>5 DEF CallInv
<1>7. PlaceInv'
  BY <1>1, <1>2 DEF PlaceInv
<1>8. LoopInv'
  BY <1>1 DEF LoopInv
<1>9. GapInv'
  BY <1>0, <1>1, <1>2 DEF GapInv
<1> QED
  BY <1>6, <1>7, <1>8, <1>9 DEF ReadInv

LEMMA LoadEarliestKeeps ==
  ASSUME RaceInv, LoadEarliest
  PROVE  ReadInv'
<1>0. InTime' => InTime
  BY ReaderFrame DEF RaceInv, ReadNext, LoadEarliest
<1>1. /\ rpc = "earliest" /\ rpc' = (IF lo < 0 THEN "idle" ELSE "time") /\ eo' = earliestOffset
      /\ UNCHANGED <<lo, lt, offset, skipped, pkt, copy, given>>
      /\ hdr' = hdr /\ storing' = storing /\ Published' = Published /\ Oldest' = Oldest
      /\ (rpc' = "idle" => burst' = 0) /\ (rpc' # "idle" => burst' = burst)
  BY ReaderFrame DEF LoadEarliest, ReadStep, ReadNext
<1>2. TypeInv /\ WriteInv /\ CallInv /\ PlaceInv /\ LoopInv /\ GapInv
  BY DEF RaceInv
<1>3. reader'.off = reader.off /\ reader'.sn = reader.sn
  BY <1>2 DEF LoadEarliest, TypeInv, TypeOK
<1>4. earliestOffset >= 0 => hdr[earliestOffset].sn > 0
  BY <1>2, EarliestHolds, HeaderFacts, RaceAssumption DEF Oldest
<1>5. CallInv'
  BY <1>1, <1>2, <1>3, <1>4 DEF CallInv
<1>6. PlaceInv'
  BY <1>1, <1>2, <1>3 DEF PlaceInv
<1>7. LoopInv'
  BY <1>1 DEF LoopInv
<1>8. GapInv'
  BY <1>0, <1>1, <1>2, <1>3 DEF GapInv
<1> QED
  BY <1>5, <1>6, <1>7, <1>8 DEF ReadInv

LEMMA LoadLatestTimeKeeps ==
  ASSUME RaceInv, LoadLatestTime
  PROVE  ReadInv'
<1>0. InTime' => InTime
  BY ReaderFrame DEF RaceInv, ReadNext, LoadLatestTime
<1>1. /\ rpc = "time" /\ lt' = hdr[lo].time
      /\ UNCHANGED <<lo, eo, pkt, copy, given>>
      /\ hdr' = hdr /\ storing' = storing /\ Published' = Published /\ Oldest' = Oldest
      /\ (rpc' = "idle" => burst' = 0) /\ (rpc' # "idle" => burst' = burst)
  BY ReaderFrame DEF LoadLatestTime, ReadNext
<1>2. TypeInv /\ WriteInv /\ CallInv /\ PlaceInv /\ LoopInv /\ GapInv
  BY DEF RaceInv
<1>3. /\ lo \in Offsets /\ lo >= 0 /\ 0 < hdr[lo].sn /\ hdr[lo].sn <= Published
      /\ reader.sn <= hdr[lo].sn /\ storing.sn <= hdr[lo].sn + burst + 1
      /\ hdr[lo].sn + burst <= storing.sn
  BY <1>1, <1>2, RaceAssumption DEF TypeInv, CallInv, Offsets
<1>4. /\ hdr[lo] \in Header /\ hdr[lo].sn \in Nat /\ reader.sn \in Nat /\ given.sn \in Nat
      /\ reader.off \in Offsets \cup {-1} /\ eo \in Offsets \cup {-1} /\ given.sn <= reader.sn
      /\ given.data = given.sn
  BY <1>2, <1>3 DEF TypeInv, TypeOK, Header, PlaceInv
<1>5. CASE reader.off < 0 /\ reader.id = "next"
  <2>1. rpc' = "idle" /\ reader' = At(lo, hdr[lo])
    BY <1>5 DEF LoadLatestTime, ReadStep
  <2>2. reader'.off = lo /\ reader'.sn = hdr[lo].sn
    BY <1>2, <1>3, <1>4, <2>1, AtType
  <2>3. given.sn = 0 /\ given'.sn = 0
    BY <1>1, <1>2, <1>4, <1>5 DEF PlaceInv
  <2>4. CallInv' /\ LoopInv' /\ GapInv'
    BY <1>1, <2>1, <2>3 DEF CallInv, LoopInv, GapInv, InTime
  <2>5. PlaceInv'
    BY <1>1, <1>3, <1>4, <2>2, <2>3, RaceAssumption DEF PlaceInv, Offsets
  <2> QED
    BY <2>4, <2>5 DEF ReadInv
<1>6. CASE ~(reader.off < 0 /\ reader.id = "next")
  <2>1. rpc' = "loop" /\ reader' = reader /\ offset' = FirstOffset
    BY <1>6 DEF LoadLatestTime, ReadStep
  <2>2. lt' = hdr[lo].sn
    BY <1>1, <1>2, <1>3 DEF WriteInv
  <2>3. CallInv'
    BY <1>1, <1>3, <2>1, <2>2 DEF CallInv
  <2>4. PlaceInv'
    BY <1>1, <1>2, <2>1 DEF PlaceInv
  <2>6. GapInv'
    BY <1>0, <1>1, <1>2, <2>1 DEF GapInv
  <2>7. ASSUME offset' >= 0, offset' # NextOffset(lo)
        PROVE  /\ hdr[offset'].sn > reader.sn
               /\ hdr[offset'].sn <= hdr[lo].sn \/ Oldest > reader.sn
               /\ InTime => Follows(hdr[offset'].sn, reader.sn)
    <3>1. CASE reader.off < 0
      <4>1. offset' = eo /\ reader.sn = 0 /\ given.sn = 0
        BY <1>2, <1>4, <2>1, <3>1 DEF FirstOffset, PlaceInv
      <4>2. hdr[eo].sn > 0
        BY <1>1, <1>2, <2>7, <4>1 DEF CallInv
      <4>3. Oldest > 0
        BY <1>2, HeaderFacts, RaceAssumption DEF Oldest
      <4> QED
        BY <4>1, <4>2, <4>3 DEF InTime
    <3>2. CASE ~(reader.off < 0)
      <4>1. reader.off \in Offsets /\ reader.off >= 0
        BY <1>4, <3>2, RaceAssumption DEF Offsets
      <4>2. offset' = NextOffset(reader.off)
        BY <2>1, <3>2 DEF FirstOffset
      <4>3. /\ 0 < reader.sn
            /\ hdr[reader.off].sn = reader.sn \/ hdr[reader.off].sn >= reader.sn + MaxPackets
        BY <1>2, <4>1 DEF PlaceInv
      <4> QED
        BY <1>2, <1>3, <1>4, <2>7, <4>1, <4>2, <4>3, NextPlace
    <3> QED
      BY <3>1, <3>2
  <2>8. LoopInv'
    <3>1. Follows(hdr[offset'].sn, reader.sn) => Follows(hdr[offset].sn, reader.sn)'
      BY <1>1, <2>1 DEF Follows
    <3> QED
      BY <1>0, <1>1, <2>1, <2>7, <3>1 DEF LoopInv
  <2> QED
    BY <2>3, <2>4, <2>6, <2>8 DEF ReadInv
<1> QED
  BY <1>5, <1>6

\* The steps that end a call without a packet.
LEMMA EndOfBufferKeeps ==
  ASSUME RaceInv, EndOfBuffer
  PROVE  ReadInv'
<1>0. InTime' => InTime
  BY ReaderFrame DEF RaceInv, ReadNext, EndOfBuffer
<1>1. /\ rpc = "loop" /\ rpc' = "idle" /\ burst' = 0
      /\ UNCHANGED <<reader, given>> /\ hdr' = hdr /\ Published' = Published /\ Oldest' = Oldest
  BY ReaderFrame DEF EndOfBuffer, ReadStep, ReadNext
<1>2. PlaceInv /\ GapInv
  BY DEF RaceInv
<1>3. CallInv' /\ LoopInv'
  BY <1>1 DEF CallInv, LoopInv
<1> QED
  BY <1>0, <1>1, <1>2, <1>3 DEF ReadInv, PlaceInv, GapInv

LEMMA ResyncKeeps ==
  ASSUME RaceInv, Resync
  PROVE  ReadInv'
<1>1. /\ rpc = "resync" /\ rpc' \in {"idle", "loop"} /\ offset' = earliestOffset
      /\ UNCHANGED <<reader, lo, eo, lt, pkt, copy, given>>
      /\ hdr' = hdr /\ storing' = storing /\ Published' = Published /\ Oldest' = Oldest
      /\ (rpc' = "idle" => burst' = 0) /\ (rpc' # "idle" => burst' = burst)
  BY ReaderFrame DEF Resync, ReadStep, ReadNext
<1>2. TypeInv /\ WriteInv /\ CallInv /\ PlaceInv /\ LoopInv /\ GapInv
  BY DEF RaceInv
<1>3. InTime' => InTime
  BY ReaderFrame DEF RaceInv, ReadNext, Resync
<1>4. hdr[earliestOffset].sn > reader.sn /\ Oldest > reader.sn /\ hdr[earliestOffset].sn = Oldest
  BY <1>1, <1>2, EarliestHolds DEF LoopInv
<1>5. CallInv'
  BY <1>1, <1>2 DEF CallInv
<1>6. PlaceInv'
  BY <1>1, <1>2 DEF PlaceInv
<1>7. LoopInv'
  <2>1. rpc' = "loop" => Follows(hdr[offset].sn, reader.sn)'
    BY <1>1, <1>2, <1>4, HeaderFacts, RaceAssumption DEF Follows, Oldest
  <2> QED
    BY <1>1, <1>4, <2>1 DEF LoopInv
<1>8. GapInv'
  BY <1>1, <1>2, <1>3 DEF GapInv
<1> QED
  BY <1>5, <1>6, <1>7, <1>8 DEF ReadInv

\* The header of the next slot.
LEMMA LoadHeaderKeeps ==
  ASSUME Calm, RaceInv, LoadHeader
  PROVE  ReadInv'
<1>1. /\ rpc = "loop" /\ rpc' # "idle" /\ pkt' = hdr[offset]
      /\ offset # NextOffset(lo) /\ offset >= 0
      /\ UNCHANGED <<lo, eo, lt, copy, given>>
      /\ hdr' = hdr /\ storing' = storing /\ Published' = Published /\ Oldest' = Oldest
      /\ burst' = burst /\ earliestOffset' = earliestOffset
  <2>1. rpc = "loop" /\ rpc' # "idle"
    BY DEF LoadHeader, ReadStep
  <2> QED
    BY <2>1, ReaderFrame DEF LoadHeader, ReadNext
<1>2. TypeInv /\ WriteInv /\ CallInv /\ PlaceInv /\ LoopInv /\ GapInv
  BY DEF RaceInv
<1> DEFINE h == hdr[offset]
           L == hdr[lo].sn
<1>3. /\ lo \in Offsets /\ lo >= 0 /\ offset \in Offsets /\ 0 < L /\ L <= Published /\ lt = L
      /\ reader.sn <= L /\ storing.sn <= L + burst + 1 /\ L + burst <= storing.sn
  BY <1>1, <1>2, RaceAssumption DEF TypeInv, TypeOK, CallInv, Offsets
<1>4. /\ h \in Header /\ h.sn \in Nat /\ h.time = h.sn /\ L \in Nat /\ reader.sn \in Nat
      /\ given.sn \in Nat /\ given.sn <= reader.sn /\ given.data = given.sn
      /\ reader.off \in Offsets \cup {-1} /\ Published \in Nat
  BY <1>2, <1>3, HeaderFacts DEF TypeInv, TypeOK, Header, PlaceInv, WriteInv
<1>5. /\ h.sn > reader.sn
      /\ h.sn <= L \/ Oldest > reader.sn
      /\ InTime => Follows(h.sn, reader.sn)
  BY <1>1, <1>2 DEF LoopInv
<1>6. InTime' => InTime
  BY ReaderFrame DEF RaceInv, ReadNext, LoadHeader
<1>7. CASE Ahead(h)
  <2>1. rpc' = "resync" /\ UNCHANGED <<reader, offset>>
    BY <1>1, <1>7 DEF LoadHeader, ReadStep
  <2>2. h.sn > L
    BY <1>3, <1>4, <1>7 DEF Ahead
  <2>3. CallInv'
    BY <1>1, <1>2, <2>1 DEF CallInv
  <2>4. PlaceInv'
    BY <1>1, <1>2, <2>1 DEF PlaceInv
  <2>5. GapInv'
    BY <1>1, <1>2, <1>6, <2>1 DEF GapInv
  <2> DEFINE top == IF HeaderIn THEN storing.sn ELSE Published
  <2>6. /\ top \in Nat /\ top <= storing.sn /\ Published <= top /\ storing.sn \in Nat
        /\ h.sn <= top
        /\ \A x, y \in Offsets : hdr[x].sn = hdr[y].sn /\ hdr[x].sn > 0 => x = y
        /\ L > 0 => \/ hdr[NextOffset(lo)].sn = L + 1
                    \/ L = top
    BY <1>2, <1>3, HeaderFacts
  <2>7. earliestOffset >= 0
    <3>1. CASE wpc = "first"
      BY <1>2, <1>3, <1>4, <2>2, <2>6, <3>1 DEF WriteInv, HeaderIn, Storing
    <3>2. CASE wpc # "first"
      BY <1>2, <1>3, <1>4, <3>2, RaceAssumption DEF WriteInv, TypeInv, TypeOK, Offsets
    <3> QED
      BY <3>1, <3>2
  <2>9. LoopInv'
    BY <1>1, <1>3, <1>5, <1>4, <2>1, <2>2, <2>7 DEF LoopInv
  <2> QED
    BY <2>3, <2>4, <2>5, <2>9 DEF ReadInv
<1>8. CASE ~Ahead(h)
  <2>1. /\ rpc' = (IF h.accepted THEN "copy" ELSE "loop") /\ reader' = At(offset, h)
        /\ offset' = IF h.accepted THEN offset ELSE NextOffset(offset)
    BY <1>1, <1>8 DEF LoadHeader, ReadStep
  <2>2. h.sn <= L
    BY <1>3, <1>4, <1>8 DEF Ahead
  <2>3. reader'.off = offset /\ reader'.sn = h.sn
    BY <1>2, <1>3, <1>4, <2>1, AtType
  <2>4. CallInv'
    BY <1>1, <1>2, <1>3, <2>1, <2>2, <2>3 DEF CallInv
  <2>5. PlaceInv'
    BY <1>1, <1>3, <1>4, <1>5, <2>2, <2>3, RaceAssumption DEF PlaceInv, Offsets
  <2>6. \A x \in Offsets : hdr[x].sn = h.sn => x = offset
    BY <1>2, <1>3, <1>4, <1>5, HeaderFacts
  <2>7. GapInv'
    <3> SUFFICES ASSUME InTime, NEW o \in Offsets, given.sn < hdr[o].sn, Oldest <= hdr[o].sn,
                        \/ hdr[o].sn < h.sn
                        \/ hdr[o].sn = h.sn /\ rpc' \notin {"copy", "check"}
                 PROVE  ~hdr[o].accepted
      BY <1>1, <1>6, <2>3 DEF GapInv
    <3>1. hdr[o].sn \in Nat /\ Oldest \in Nat
      BY <1>2, HeaderFacts, RaceAssumption DEF Oldest
    <3>2. CASE hdr[o].sn < h.sn
      <4>1. h.sn = reader.sn + 1
        BY <1>4, <1>5, <2>2, <3>1, <3>2 DEF Follows
      <4>2. hdr[o].sn <= reader.sn
        BY <1>4, <3>1, <3>2, <4>1
      <4> QED
        BY <1>1, <1>2, <1>4, <3>1, <4>2 DEF GapInv
    <3>3. CASE hdr[o].sn = h.sn /\ rpc' \notin {"copy", "check"}
      BY <2>1, <2>6, <3>3
    <3> QED
      BY <3>2, <3>3
  <2>8. CASE h.accepted
    <3>1. LoopInv'
      BY <1>1, <1>4, <1>5, <2>1, <2>3, <2>8 DEF LoopInv
    <3> QED
      BY <2>4, <2>5, <2>7, <3>1 DEF ReadInv
  <2>9. CASE ~h.accepted
    <3>1. rpc' = "loop" /\ offset' = NextOffset(offset)
      BY <2>1, <2>9
    <3>2. offset' # NextOffset(lo) =>
            /\ hdr[offset'].sn > h.sn
            /\ hdr[offset'].sn <= L \/ Oldest > h.sn
            /\ InTime => Follows(hdr[offset'].sn, h.sn)
      BY <1>2, <1>3, <1>4, <1>5, <2>2, <3>1, NextPlace
    <3>3. LoopInv'
      <4>1. Follows(hdr[offset'].sn, h.sn) => Follows(hdr[offset].sn, reader.sn)'
        BY <1>1, <2>3 DEF Follows
      <4> QED
        BY <1>1, <1>6, <2>3, <3>1, <3>2, <4>1 DEF LoopInv
    <3> QED
      BY <2>4, <2>5, <2>7, <3>3 DEF ReadInv
  <2> QED
    BY <2>8, <2>9
<1> QED
  BY <1>7, <1>8

\* The data of the packet at hand: it is the packet's own, or the header has
\* been overwritten and tells so.
LEMMA LoadDataKeeps ==
  ASSUME RaceInv, LoadData
  PROVE  ReadInv'
<1>1. /\ rpc = "copy" /\ rpc' = "check" /\ copy' = data[offset]
      /\ UNCHANGED <<reader, lo, eo, lt, offset, skipped, pkt, given>>
      /\ hdr' = hdr /\ storing' = storing /\ Published' = Published /\ Oldest' = Oldest
      /\ burst' = burst
  BY ReaderFrame DEF LoadData, ReadStep, ReadNext
<1>2. TypeInv /\ WriteInv /\ CallInv /\ PlaceInv /\ LoopInv /\ GapInv
  BY DEF RaceInv
<1>3. /\ offset \in Offsets /\ offset = reader.off /\ pkt.sn = reader.sn /\ lo \in Offsets /\ lo >= 0
  BY <1>1, <1>2, RaceAssumption DEF TypeInv, LoopInv, Offsets
<1>4. 0 < reader.sn /\ reader.sn <= Published
  BY <1>2, <1>3, RaceAssumption DEF PlaceInv, Offsets
<1>5. copy' = pkt.sn \/ hdr[offset].sn # pkt.sn
  BY <1>1, <1>2, <1>3, <1>4, DataHolds
<1>6. InTime' => InTime
  BY ReaderFrame DEF RaceInv, ReadNext, LoadData
<1>7. CallInv'
  BY <1>1, <1>2 DEF CallInv
<1>8. PlaceInv'
  BY <1>1, <1>2 DEF PlaceInv
<1>9. LoopInv'
  BY <1>1, <1>2, <1>5 DEF LoopInv
<1>10. GapInv'
  BY <1>1, <1>2, <1>6 DEF GapInv
<1> QED
  BY <1>7, <1>8, <1>9, <1>10 DEF ReadInv

\* The second look at the header.
LEMMA DeliverKeeps ==
  ASSUME RaceInv, Deliver
  PROVE  /\ ReadInv'
         /\ Unchanged => /\ given' = [sn |-> pkt.sn, data |-> copy]
                         /\ pkt.sn = reader.sn /\ given.sn < pkt.sn
<1>1. /\ rpc = "check" /\ rpc' = "idle" /\ burst' = 0
      /\ given' = IF Unchanged THEN [sn |-> pkt.sn, data |-> copy] ELSE given
      /\ UNCHANGED <<reader, lo, eo, lt, offset, skipped, pkt, copy>>
      /\ hdr' = hdr /\ Published' = Published
  BY ReaderFrame DEF Deliver, ReadStep, ReadNext, localVars
<1>2. TypeInv /\ WriteInv /\ CallInv /\ PlaceInv /\ LoopInv /\ GapInv
  BY DEF RaceInv
<1>3. /\ offset \in Offsets /\ offset = reader.off /\ pkt.sn = reader.sn /\ pkt.time = pkt.sn
      /\ given.sn < pkt.sn /\ (copy = pkt.sn \/ hdr[offset].sn # pkt.sn)
      /\ reader.sn \in Nat /\ given.sn \in Nat /\ hdr[offset].sn \in Nat
  BY <1>1, <1>2 DEF TypeInv, TypeOK, Header, LoopInv
<1>4. Unchanged <=> hdr[offset].sn = pkt.sn
  BY <1>2, <1>3 DEF Unchanged, WriteInv
<1>5. CallInv' /\ LoopInv'
  BY <1>1 DEF CallInv, LoopInv
<1>6. CASE Unchanged
  <2>1. given' = [sn |-> pkt.sn, data |-> pkt.sn] /\ copy = pkt.sn
    BY <1>1, <1>3, <1>4, <1>6
  <2>2. PlaceInv'
    BY <1>1, <1>2, <1>3, <2>1 DEF PlaceInv
  <2>3. GapInv'
    BY <1>1, <1>2, <1>3, <2>1 DEF GapInv, TypeInv, TypeOK, Header
  <2> QED
    BY <1>3, <1>5, <2>1, <2>2, <2>3 DEF ReadInv
<1>7. CASE ~Unchanged
  <2>1. given' = given
    BY <1>1, <1>7
  <2>2. PlaceInv'
    BY <1>1, <1>2, <2>1 DEF PlaceInv
  <2>3. hdr[offset].sn >= reader.sn + MaxPackets
    BY <1>2, <1>3, <1>4, <1>7, RaceAssumption DEF PlaceInv, Offsets
  <2>4. \A o \in Offsets : hdr[o].sn \in Nat /\ hdr[o].sn > reader.sn
    <3> DEFINE top == IF HeaderIn THEN storing.sn ELSE Published
    <3>1. /\ top \in Nat
          /\ \A o \in Offsets : hdr[o].sn \in Nat /\ hdr[o].sn <= top /\ hdr[o].sn > top - MaxPackets
      BY <1>2, HeaderFacts
    <3> HIDE DEF top
    <3> QED
      BY <1>3, <2>3, <3>1, RaceAssumption
  <2>5. GapInv'
    BY <1>1, <1>3, <2>4 DEF GapInv
  <2> QED
    BY <1>5, <1>7, <2>1, <2>2, <2>5 DEF ReadInv
<1> QED
  BY <1>6, <1>7

-----------------------------------------------------------------------------
(* The theorems                                                            *)

LEMMA InitHolds == Init => RaceInv
<1> SUFFICES ASSUME Init PROVE RaceInv
  OBVIOUS
<1>1. TypeInv /\ WriteInv
  BY InitTypes, InitWrites
<1>2. rpc = "idle" /\ burst = 0 /\ reader.off = -1 /\ reader.sn = 0 /\ given.sn = 0 /\ given.data = 0
  BY DEF Init
<1> QED
  BY <1>1, <1>2 DEF RaceInv, CallInv, PlaceInv, LoopInv, GapInv, InTime

LEMMA StepHolds == Calm /\ RaceInv /\ [Next]_vars => RaceInv'
<1> SUFFICES ASSUME Calm, RaceInv, [Next]_vars PROVE RaceInv'
  OBVIOUS
<1>1. TypeInv'
  BY StepTypes DEF RaceInv
<1>2. CASE Writer
  BY <1>1, <1>2, WriterEffects, WriterKeeps DEF RaceInv
<1>3. CASE ReadNext
  <2>1. WriteInv'
    BY <1>3, ReaderFrame DEF RaceInv
  <2>2. ReadInv'
    BY <1>3, LoadLatestKeeps, LoadEarliestKeeps, LoadLatestTimeKeeps, EndOfBufferKeeps,
       LoadHeaderKeeps, ResyncKeeps, LoadDataKeeps, DeliverKeeps DEF ReadNext
  <2> QED
    BY <1>1, <2>1, <2>2 DEF RaceInv, ReadInv
<1>4. CASE UNCHANGED vars
  BY <1>4 DEF RaceInv, TypeInv, TypeOK, WriteInv, CallInv, PlaceInv, LoopInv, GapInv, InTime,
     Follows, Ordinals, Published, Oldest, Storing, HeaderIn, DataIn, vars, writeVars, readVars, localVars
<1> QED
  BY <1>2, <1>3, <1>4 DEF Next

LEMMA RaceInvariant == Calm => (Spec => []RaceInv)
<1> SUFFICES ASSUME Calm PROVE Spec => []RaceInv
  OBVIOUS
<1>1. RaceInv /\ [Next]_vars => RaceInv'
  BY StepHolds
<1> QED
  BY <1>1, InitHolds, PTL DEF Spec

\* A packet is given to the reader with its own data, whatever the writers stored
\* while ReadNext copied it: looking at PktTime again is enough.
THEOREM PacketsAreWhole == Calm => (Spec => []NotTorn)
<1> SUFFICES ASSUME Calm PROVE Spec => []NotTorn
  OBVIOUS
<1>1. RaceInv => NotTorn
  BY DEF RaceInv, PlaceInv, NotTorn
<1> QED
  BY <1>1, RaceInvariant, PTL

LEMMA Delivered ==
  ASSUME RaceInv, Delivers
  PROVE  given'.sn = reader.sn /\ given.sn < reader.sn /\ rpc = "check"
<1> QED
  BY DeliverKeeps DEF Delivers, Deliver, ReadStep

\* ReadNext goes forward: no packet is returned twice, and none after a later one,
\* also where the loop starts again at the earliest packet.
THEOREM ReadsGoForward == Calm => (Spec => ForwardOnly)
<1> SUFFICES ASSUME Calm PROVE Spec => ForwardOnly
  OBVIOUS
<1>1. RaceInv /\ [Next]_vars => [Delivers => given'.sn > given.sn]_vars
  <2> SUFFICES ASSUME RaceInv, [Next]_vars, Delivers PROVE given'.sn > given.sn
    OBVIOUS
  <2>1. given'.sn = reader.sn /\ given.sn < reader.sn /\ reader.sn \in Nat /\ given.sn \in Nat
    BY Delivered DEF RaceInv, TypeInv, TypeOK
  <2> QED
    BY <2>1
<1> QED
  BY <1>1, RaceInvariant, PTL DEF Spec, ForwardOnly

\* A call of ReadNext that begins before the next packet is evicted passes over no
\* packet of the window that the reader accepts.
THEOREM GapsAreEvictions == Calm => (Spec => GapOnlyIfEvicted)
<1> SUFFICES ASSUME Calm PROVE Spec => GapOnlyIfEvicted
  OBVIOUS
<1>1. RaceInv /\ [Next]_vars =>
        [Delivers /\ InTime =>
           \A o \in Offsets :
             given.sn < hdr[o].sn /\ hdr[o].sn < given'.sn /\ ~Evicted(hdr[o].sn)
             => ~hdr[o].accepted]_vars
  <2> SUFFICES ASSUME RaceInv, Delivers, InTime, NEW o \in Offsets, given.sn < hdr[o].sn,
                      hdr[o].sn < given'.sn, ~Evicted(hdr[o].sn)
               PROVE  ~hdr[o].accepted
    OBVIOUS
  <2>1. hdr[o].sn < reader.sn
    BY Delivered
  <2>2. Oldest <= hdr[o].sn
    BY RaceAssumption DEF Oldest, Evicted, InTime, RaceInv, TypeInv, TypeOK, Header
  <2> QED
    BY <2>1, <2>2 DEF RaceInv, GapInv
<1> QED
  BY <1>1, RaceInvariant, PTL DEF Spec, GapOnlyIfEvicted
=============================================================================
