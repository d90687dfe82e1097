--------------------------- MODULE RingFileProofs ---------------------------
(***************************************************************************)
(* Theorems about RingFile, for every size of ring, every set of streams   *)
(* and readers, and any number of starts, shutdowns, errors and crashes.   *)
(***************************************************************************)
EXTENDS RingFile, RingBufferProofs

-----------------------------------------------------------------------------
(* A ring, in memory or in the files                                       *)

\* The number of packets a ring holds after w writes, and the slots in use.
HeldOf(w) == IF w < MaxPackets THEN w ELSE MaxPackets
LiveOf(sl) == {o \in Offsets : sl[o].sn > 0}

\* The slots sl with the ends ea and la hold the last packets of w writes.
Exact(sl, ea, la, w) ==
  IF w = 0 THEN ea = NoSummary /\ la = NoSummary /\ LiveOf(sl) = {}
  ELSE /\ ea.off \in Offsets /\ la.off \in Offsets
       /\ Steps(ea.off, la.off) = HeldOf(w) - 1
       /\ \A o \in Offsets :
            LET i == Steps(ea.off, o)
            IN sl[o].sn = IF i < HeldOf(w) THEN w - HeldOf(w) + 1 + i ELSE 0
       /\ ea = Summary(sl[ea.off], ea.off)
       /\ la = Summary(sl[la.off], la.off)

\* The index idx and the links of the slots sl describe what the slots hold.
Indexed(idx, sl) ==
  /\ \A o \in LiveOf(sl) : sl[o].stream \in Streams /\ sl[o].start \in DataTimes
  /\ IndexFits(idx, sl, LiveOf(sl))
  /\ ChainFits(sl, LiveOf(sl))
  /\ IsFiniteSet(DOMAIN idx)

LEMMA ExactIsWindow ==
  /\ WindowExact <=> Exact(slot, earliest, latest, writes)
  /\ WindowExact' <=> Exact(slot', earliest', latest', writes')
BY DEF WindowExact, Exact, Held, HeldOf, Live, LiveOf

LEMMA IndexedIsInv ==
  /\ IndexInv <=> Indexed(streamIdx, slot) /\ streamCount = Cardinality(DOMAIN streamIdx)
  /\ IndexInv' <=> Indexed(streamIdx', slot') /\ streamCount' = Cardinality(DOMAIN streamIdx')
BY DEF IndexInv, Indexed, Live, LiveOf

\* The number of writes can be told from the ring itself.
WritesOf(sl, la) == IF la.off < 0 THEN 0 ELSE sl[la.off].sn

LEMMA WritesTold ==
  ASSUME NEW sl, NEW ea, NEW la, NEW w \in Nat, Exact(sl, ea, la, w)
  PROVE  WritesOf(sl, la) = w /\ (ea.off < 0 <=> w = 0) /\ (la.off < 0 <=> w = 0)
<1>1. CASE w = 0
  BY <1>1 DEF Exact, WritesOf, NoSummary
<1>2. CASE w # 0
  <2> DEFINE e == ea.off
             l == la.off
             n == HeldOf(w)
  <2>1. /\ e \in Offsets /\ l \in Offsets /\ Steps(e, l) = n - 1
        /\ sl[l].sn = IF Steps(e, l) < n THEN w - n + 1 + Steps(e, l) ELSE 0
    BY <1>2 DEF Exact
  <2>2. n \in Nat /\ n > 0 /\ ~(e < 0) /\ ~(l < 0)
    BY <1>2, <2>1, RingAssumption DEF HeldOf, Offsets
  <2> HIDE DEF n
  <2>3. sl[l].sn = w
    BY <2>1, <2>2
  <2> QED
    BY <1>2, <2>2, <2>3 DEF WritesOf
<1> QED
  BY <1>1, <1>2

\* A buffer of zeros is an empty ring.
LEMMA EmptyIsExact ==
  /\ Exact(NoSlots, NoSummary, NoSummary, 0) /\ Indexed(NoIndex, NoSlots)
  /\ Cardinality(DOMAIN NoIndex) = 0 /\ NoSlots \in [Offsets -> Packet]
  /\ NoSummary \in PacketSummary /\ NoSummary.off < 0
<1>1. LiveOf(NoSlots) = {} /\ DOMAIN NoIndex = {}
  BY DEF LiveOf, NoSlots, Blank, NoIndex
<1>2. IsFiniteSet({}) /\ Cardinality({}) = 0
  BY FS_EmptySet
<1>3. IsFiniteSet(DOMAIN NoIndex) /\ Cardinality(DOMAIN NoIndex) = 0
  BY <1>1, <1>2
<1>4. Indexed(NoIndex, NoSlots)
  BY <1>1, <1>3 DEF Indexed, IndexFits, ChainFits, Members
<1>5. Blank \in Packet
  BY RingAssumption DEF Blank, Packet, Offsets, RingIdError
<1>6. NoSummary \in PacketSummary /\ NoSummary.off < 0
  BY RingAssumption DEF NoSummary, PacketSummary, RingIdNone, RingIdError
<1> QED
  BY <1>1, <1>3, <1>4, <1>5, <1>6 DEF Exact, NoSlots

\* Only the empty index describes an empty ring.
LEMMA EmptyIndex ==
  ASSUME NEW idx, NEW sl, Indexed(idx, sl), LiveOf(sl) = {},
         idx \in [DOMAIN idx -> StreamRecord]
  PROVE  idx = NoIndex
<1>1. DOMAIN idx = {}
  BY DEF Indexed, IndexFits, Members
<1> QED
  BY <1>1 DEF NoIndex

-----------------------------------------------------------------------------
(* The invariant                                                           *)

Phases == {"down", "up", "index", "packets", "copy"}
Faults == {"packets", "index"}
Ends == [earliest : PacketSummary, latest : PacketSummary]

\* An end of the ring is named exactly when the other is.
Both(ends) == ends.earliest.off < 0 <=> ends.latest.off < 0

\* Memory and files are well typed, the ends of every ring come in pairs, and
\* the stream indexes are finite.
FileTypes ==
  /\ TypeOK /\ EndsTogether /\ IsFiniteSet(DOMAIN streamIdx)
  /\ phase \in Phases /\ amiss \subseteq Faults /\ faults \subseteq Faults
  /\ header \in Ends /\ Both(header)
  /\ packetbuf \in [whole : BOOLEAN, header : Ends, slot : [Offsets -> Packet]]
  /\ Both(packetbuf.header)
  /\ DOMAIN streamidx \subseteq Streams /\ streamidx \in [DOMAIN streamidx -> StreamRecord]
  /\ IsFiniteSet(DOMAIN streamidx)

\* The ring in memory is exact as long as nothing is amiss with it; once the
\* index has been saved, it is the file that describes the slots.
MemoryInv ==
  /\ phase # "down" /\ "packets" \notin amiss => WindowExact
  /\ phase \in {"up", "index"} /\ amiss = {} => IndexInv
  /\ phase \in {"packets", "copy"} /\ amiss = {} =>
       Indexed(streamidx, slot) /\ streamCount = Cardinality(DOMAIN streamidx)

\* What Shutdown is about to save is the ring as it found it.
SavingInv ==
  /\ phase \in {"index", "packets", "copy"} /\ "packets" \notin amiss => header = SavedHeader
  /\ phase \in {"index", "packets", "copy"} /\ amiss = {} =>
       saving = [Contents EXCEPT !.streamIdx = IF phase = "index" THEN streamIdx ELSE streamidx]

\* The files of a Shutdown that ran to its end hold the ring it found.
FilesInv ==
  packetbuf.whole =>
    LET sl == packetbuf.slot
        ea == packetbuf.header.earliest
        la == packetbuf.header.latest
    IN /\ "packets" \notin faults => Exact(sl, ea, la, WritesOf(sl, la))
       /\ faults = {} =>
            /\ Indexed(streamidx, sl)
            /\ saved = [slot |-> sl, earliest |-> ea, latest |-> la, streamIdx |-> streamidx,
                        streamCount |-> Cardinality(DOMAIN streamidx)]

FileInv == FileTypes /\ MemoryInv /\ SavingInv /\ FilesInv

-----------------------------------------------------------------------------
(* The steps                                                               *)

\* What Write does to the ends keeps them a pair.
LEMMA WriteEnds ==
  ASSUME TypeOK, EndsTogether, WriteSome
  PROVE  EndsTogether' /\ UNCHANGED <<reader, last>>
<1>1. PICK s \in Streams, d \in DataTimes, i \in UserIds \cup {RingIdNone} : Write(s, d, i)
  BY DEF WriteSome
<1>2. /\ WriteOffset \in Offsets /\ latest'.off = WriteOffset /\ UNCHANGED <<reader, last>>
  BY <1>1, WriteFacts
<1>3. PICK p : earliest' = IF earliest.off < 0 THEN Summary(p, WriteOffset)
                           ELSE IF IsFull
                           THEN Summary(slot[NextOffset(earliest.off)], NextOffset(earliest.off))
                           ELSE earliest
  BY <1>1 DEF Write
<1>4. earliest.off \in Offsets \cup {-1} /\ ~(latest'.off < 0)
  BY <1>2, EndsType, RingAssumption DEF Offsets
<1>5. ~(earliest'.off < 0)
  <2>1. CASE earliest.off < 0
    BY <1>2, <1>3, <2>1, RingAssumption DEF Summary, Offsets
  <2>2. CASE ~(earliest.off < 0)
    <3>1. earliest.off \in Offsets /\ NextOffset(earliest.off) \in Offsets
      BY <1>4, <2>2, NextOffsetType
    <3> QED
      BY <1>3, <2>2, <3>1, RingAssumption DEF Summary, Offsets
  <2> QED
    BY <2>1, <2>2
<1> QED
  BY <1>2, <1>4, <1>5 DEF EndsTogether

LEMMA InitHolds == FileInit => FileInv
<1> SUFFICES ASSUME FileInit PROVE FileInv
  OBVIOUS
<1>1. TypeOK /\ EndsTogether
  BY InitType DEF FileInit, Init, EndsTogether, NoSummary
<1>2. /\ NoHeader \in Ends /\ Both(NoHeader)
      /\ NoFile \in [whole : BOOLEAN, header : Ends, slot : [Offsets -> Packet]]
      /\ NoFile.header = NoHeader /\ ~NoFile.whole
  BY EmptyIsExact DEF NoHeader, Ends, Both, NoFile
<1>3. DOMAIN NoIndex = {} /\ NoIndex \in [DOMAIN NoIndex -> StreamRecord]
  BY DEF NoIndex
<1>4. IsFiniteSet(DOMAIN NoIndex)
  BY EmptyIsExact DEF Indexed
<1>5. streamIdx = NoIndex
  BY DEF FileInit, Init, NoIndex
<1>6. FileTypes
  BY <1>1, <1>2, <1>3, <1>4, <1>5 DEF FileInit, FileTypes, Phases
<1> QED
  BY <1>2, <1>6 DEF FileInit, FileInv, MemoryInv, SavingInv, FilesInv

\* The server starts with the ring of the files, or with an empty one.
LEMMA InitializeHolds ==
  ASSUME FileInv, Initialize
  PROVE  FileInv'
<1> DEFINE f == Takeover
           ea == f.header.earliest
           la == f.header.latest
           idx == RecoveredIndex
<1>1. /\ f \in [whole : BOOLEAN, header : Ends, slot : [Offsets -> Packet]] /\ Both(f.header)
      /\ DOMAIN idx \subseteq Streams /\ idx \in [DOMAIN idx -> StreamRecord]
  <2>1. /\ NoFile \in [whole : BOOLEAN, header : Ends, slot : [Offsets -> Packet]]
        /\ Both(NoFile.header)
    BY EmptyIsExact DEF NoFile, NoHeader, Ends, Both
  <2>2. DOMAIN NoIndex = {} /\ NoIndex \in [DOMAIN NoIndex -> StreamRecord]
    BY DEF NoIndex
  <2>3. f \in {packetbuf, NoFile} /\ idx \in {streamidx, NoIndex}
    BY DEF Takeover, RecoveredIndex
  <2> HIDE DEF f, idx
  <2> QED
    BY <2>1, <2>2, <2>3 DEF FileInv, FileTypes
<1>2. /\ slot' = f.slot /\ earliest' = ea /\ latest' = la /\ header' = f.header
      /\ streamIdx' = idx /\ streamCount' = Cardinality(DOMAIN idx)
      /\ writes' = WritesOf(f.slot, la) /\ amiss' = (IF packetbuf.whole THEN faults ELSE {})
      /\ phase' = "up" /\ UNCHANGED <<clock, reader, last, fileVars, saving>>
  BY DEF Initialize, WritesOf
<1>3. /\ f.slot \in [Offsets -> Packet] /\ ea \in PacketSummary /\ la \in PacketSummary
      /\ f.header \in Ends /\ (ea.off < 0 <=> la.off < 0)
  BY <1>1 DEF Ends, Both
<1> HIDE DEF f, ea, la, idx
<1>4. WritesOf(f.slot, la) \in 0 .. MaxWrites
  <2>1. la.off \in Offsets \cup {-1}
    BY <1>3 DEF PacketSummary
  <2>2. CASE la.off < 0
    BY <2>2, RingAssumption DEF WritesOf
  <2>3. CASE ~(la.off < 0)
    BY <1>3, <2>1, <2>3 DEF WritesOf, Packet
  <2> QED
    BY <2>2, <2>3
<1>5. IsFiniteSet(DOMAIN idx)
  <2>1. IsFiniteSet(DOMAIN NoIndex)
    BY EmptyIsExact DEF Indexed
  <2> QED
    BY <2>1 DEF RecoveredIndex, FileInv, FileTypes, idx
<1>6. FileTypes'
  <2>1. streamCount' \in Int
    BY <1>2, <1>5, FS_CardinalityType
  <2> QED
    BY <1>1, <1>2, <1>3, <1>4, <1>5, <2>1
    DEF FileInv, FileTypes, TypeOK, EndsTogether, Phases, Faults, fileVars
<1>7. "packets" \notin amiss' => Exact(f.slot, ea, la, WritesOf(f.slot, la))
  BY <1>2, EmptyIsExact DEF f, ea, la, Takeover, NoFile, NoHeader, WritesOf, FileInv, FilesInv
<1>8. amiss' = {} => Indexed(idx, f.slot)
  <2>1. CASE ~packetbuf.whole
    BY <2>1, EmptyIsExact DEF f, idx, Takeover, RecoveredIndex, NoFile, NoHeader, NoSummary
  <2>2. CASE packetbuf.whole
    <3> SUFFICES ASSUME amiss' = {} PROVE Indexed(idx, f.slot)
      OBVIOUS
    <3>1. f = packetbuf /\ Indexed(streamidx, f.slot)
      BY <1>2, <2>2 DEF f, Takeover, FileInv, FilesInv
    <3>2. CASE ea.off >= 0
      BY <3>1, <3>2 DEF ea, f, idx, RecoveredIndex
    <3>3. CASE ~(ea.off >= 0)
      <4>1. ea.off \in Offsets \cup {-1}
        BY <1>3 DEF PacketSummary
      <4>2. Exact(f.slot, ea, la, WritesOf(f.slot, la)) /\ WritesOf(f.slot, la) \in Nat
        BY <1>4, <1>7, RingAssumption
      <4>3. WritesOf(f.slot, la) = 0
        BY <3>3, <4>1, <4>2, WritesTold, RingAssumption DEF Offsets
      <4>4. LiveOf(f.slot) = {}
        BY <4>2, <4>3 DEF Exact
      <4>5. streamidx = NoIndex
        BY <3>1, <4>4, EmptyIndex DEF FileInv, FileTypes
      <4> QED
        BY <3>1, <4>5 DEF idx, RecoveredIndex
    <3> QED
      BY <3>2, <3>3
  <2> QED
    BY <2>1, <2>2
<1>9. MemoryInv'
  BY <1>2, <1>7, <1>8, ExactIsWindow, IndexedIsInv DEF MemoryInv
<1>10. SavingInv'
  BY <1>2 DEF SavingInv
<1>11. FilesInv'
  BY <1>2 DEF FileInv, FilesInv, fileVars
<1> QED
  BY <1>6, <1>9, <1>10, <1>11 DEF FileInv

\* A Write keeps the ring well typed, whatever is amiss with it.
LEMMA WriteTypes ==
  ASSUME FileTypes, WriteSome, UNCHANGED <<phase, header, fileVars>>, amiss' \subseteq Faults
  PROVE  FileTypes'
<1>1. PICK s \in Streams, d \in DataTimes, i \in UserIds \cup {RingIdNone} : Write(s, d, i)
  BY DEF WriteSome
<1>2. TypeOK'
  BY <1>1, WriteType DEF FileTypes
<1>3. EndsTogether'
  BY WriteEnds DEF FileTypes
<1>4. IsFiniteSet(DOMAIN streamIdx')
  <2> DEFINE D == DOMAIN EvictedIdx
  <2>1. D \subseteq DOMAIN streamIdx
    BY DEF EvictedIdx
  <2>2. IsFiniteSet(D)
    BY <2>1, FS_Subset DEF FileTypes
  <2>3. DOMAIN streamIdx' = D \cup {s}
    BY <1>1 DEF Write
  <2> HIDE DEF D
  <2> QED
    BY <2>2, <2>3, FS_AddElement
<1> QED
  BY <1>2, <1>3, <1>4 DEF FileTypes, fileVars

\* While the server runs, Write keeps the ring exact; the readers do not touch it.
LEMMA ServeHolds ==
  ASSUME FileInv, Serve
  PROVE  FileInv'
<1>1. /\ phase = "up" /\ phase' = "up" /\ header' = header /\ amiss' = amiss
      /\ saving' = saving /\ UNCHANGED fileVars /\ Next
  BY DEF Serve, saveVars
<1>2. TypeOK /\ EndsTogether /\ amiss' \subseteq Faults
  BY <1>1 DEF FileInv, FileTypes
<1>3. CASE WriteSome
  <2>1. FileTypes'
    BY <1>1, <1>2, <1>3, WriteTypes DEF FileInv
  <2>2. PICK s \in Streams, d \in DataTimes, i \in UserIds \cup {RingIdNone} : Write(s, d, i)
    BY <1>3 DEF WriteSome
  <2>3. "packets" \notin amiss => WindowExact'
    BY <1>1, <1>2, <2>2, WriteWindow DEF FileInv, MemoryInv
  <2>4. amiss = {} => IndexInv'
    BY <1>1, <1>2, <2>1, <2>2, WriteIndex DEF FileInv, MemoryInv, FileTypes
  <2> QED
    BY <1>1, <2>1, <2>3, <2>4 DEF FileInv, MemoryInv, SavingInv, FilesInv, fileVars
<1>4. CASE UNCHANGED ringVars
  <2>1. TypeOK'
    BY <1>1, <1>2, NextType
  <2>2. FileTypes'
    BY <1>1, <1>4, <2>1 DEF FileInv, FileTypes, EndsTogether, ringVars, fileVars
  <2>3. MemoryInv'
    BY <1>1, <1>4, ExactIsWindow, IndexedIsInv DEF FileInv, MemoryInv, ringVars
  <2> QED
    BY <1>1, <2>2, <2>3 DEF FileInv, SavingInv, FilesInv, fileVars
<1> QED
  BY <1>1, <1>3, <1>4 DEF Next, Reposition, Read, Position, After, AfterRev, MoveTo,
     StartStream, ReadNext, ReadNextEmpty, ReadNextPlace, ReadNextScan, ringVars

\* A Write during Shutdown leaves nothing promised of the ring it is saving.
LEMMA LateWriteHolds ==
  ASSUME FileInv, LateWrite
  PROVE  FileInv'
<1>1. /\ phase' = phase /\ phase \in {"index", "packets", "copy"} /\ header' = header
      /\ UNCHANGED fileVars /\ WriteSome /\ amiss' = {"packets", "index"}
  BY DEF LateWrite
<1>2. FileTypes'
  BY <1>1, WriteTypes DEF FileInv, Faults
<1> QED
  BY <1>1, <1>2 DEF FileInv, MemoryInv, SavingInv, FilesInv, fileVars

LEMMA SaveHeaderHolds ==
  ASSUME FileInv, SaveHeader
  PROVE  FileInv'
<1>1. /\ phase = "up" /\ phase' = "index" /\ header' = SavedHeader /\ saving' = Contents
      /\ UNCHANGED vars /\ UNCHANGED fileVars /\ amiss' = amiss
  BY DEF SaveHeader
<1>2. SavedHeader \in Ends /\ Both(SavedHeader)
  BY DEF SavedHeader, Ends, Both, FileInv, FileTypes, TypeOK, EndsTogether
<1>3. FileTypes'
  BY <1>1, <1>2 DEF FileInv, FileTypes, TypeOK, EndsTogether, Phases, vars, fileVars
<1>4. MemoryInv'
  BY <1>1, ExactIsWindow, IndexedIsInv DEF FileInv, MemoryInv, vars
<1>5. SavingInv'
  BY <1>1 DEF SavingInv, SavedHeader, Contents, vars
<1> QED
  BY <1>1, <1>3, <1>4, <1>5 DEF FileInv, FilesInv, fileVars

\* The index goes into its file; only a whole one counts as saved.
LEMMA SaveIndexHolds ==
  ASSUME FileInv, SaveIndex
  PROVE  FileInv'
<1>1. PICK kept \in SUBSET DOMAIN streamIdx :
        /\ streamidx' = [s \in kept |-> streamIdx[s]]
        /\ amiss' = amiss \cup (IF kept = DOMAIN streamIdx THEN {} ELSE {"index"})
  BY DEF SaveIndex
<1>2. /\ phase = "index" /\ phase' = "packets" /\ faults' = faults \cup {"index"}
      /\ streamIdx' = NoIndex
      /\ UNCHANGED <<slot, earliest, latest, streamCount, clock, reader, writes, last,
                     header, packetbuf, saving, saved>>
  BY DEF SaveIndex
<1>3. amiss' = {} => amiss = {} /\ streamidx' = streamIdx
  <2>1. amiss' = {} => amiss = {} /\ kept = DOMAIN streamIdx
    BY <1>1
  <2>2. streamIdx = [s \in DOMAIN streamIdx |-> streamIdx[s]]
    BY DEF FileInv, FileTypes, TypeOK
  <2> QED
    BY <1>1, <2>1, <2>2
<1>4. DOMAIN NoIndex = {} /\ NoIndex \in [DOMAIN NoIndex -> StreamRecord] /\ IsFiniteSet(DOMAIN NoIndex)
  BY EmptyIsExact DEF NoIndex, Indexed
<1>5. IsFiniteSet(kept)
  BY <1>1, FS_Subset DEF FileInv, FileTypes
<1>6. FileTypes'
  <2>1. /\ DOMAIN streamidx' = kept /\ kept \subseteq Streams
        /\ streamidx' \in [DOMAIN streamidx' -> StreamRecord]
    BY <1>1 DEF FileInv, FileTypes, TypeOK
  <2>2. amiss' \subseteq Faults /\ faults' \subseteq Faults
    BY <1>1, <1>2 DEF FileInv, FileTypes, Faults
  <2> QED
    BY <1>2, <1>4, <1>5, <2>1, <2>2 DEF FileInv, FileTypes, TypeOK, EndsTogether, Phases
<1>7. MemoryInv'
  <2>1. "packets" \notin amiss' => WindowExact'
    BY <1>1, <1>2, ExactIsWindow DEF FileInv, MemoryInv
  <2>2. amiss' = {} => Indexed(streamidx', slot') /\ streamCount' = Cardinality(DOMAIN streamidx')
    BY <1>2, <1>3, IndexedIsInv DEF FileInv, MemoryInv
  <2> QED
    BY <1>2, <2>1, <2>2 DEF MemoryInv
<1>8. SavingInv'
  <2>1. "packets" \notin amiss' => header' = SavedHeader'
    BY <1>1, <1>2 DEF FileInv, SavingInv, SavedHeader
  <2>2. amiss' = {} => saving' = [Contents' EXCEPT !.streamIdx = streamidx']
    BY <1>2, <1>3 DEF FileInv, SavingInv, Contents
  <2> QED
    BY <1>2, <2>1, <2>2 DEF SavingInv
<1>9. FilesInv'
  BY <1>2 DEF FileInv, FilesInv
<1> QED
  BY <1>6, <1>7, <1>8, <1>9 DEF FileInv

\* The packet buffer file is cut short before the copy.
LEMMA BeginPacketsHolds ==
  ASSUME FileInv, BeginPackets
  PROVE  FileInv'
<1>1. /\ phase = "packets" /\ phase' = "copy"
      /\ packetbuf' = [whole |-> FALSE, header |-> header, slot |-> NoSlots]
      /\ UNCHANGED <<vars, header, streamidx, saved, faults, saving, amiss>>
  BY DEF BeginPackets, saveVars
<1>2. /\ packetbuf' \in [whole : BOOLEAN, header : Ends, slot : [Offsets -> Packet]]
      /\ Both(packetbuf'.header)
  BY <1>1, EmptyIsExact DEF FileInv, FileTypes
<1>3. FileTypes'
  BY <1>1, <1>2 DEF FileInv, FileTypes, TypeOK, EndsTogether, Phases, vars
<1>4. MemoryInv'
  BY <1>1, ExactIsWindow DEF FileInv, MemoryInv, vars
<1>5. SavingInv'
  BY <1>1 DEF FileInv, SavingInv, SavedHeader, Contents, vars
<1> QED
  BY <1>1, <1>3, <1>4, <1>5 DEF FileInv, FilesInv

\* Once the process has ended there is no ring in memory to be exact.
LEMMA ForgetHolds ==
  ASSUME FileInv, Forget
  PROVE  /\ TypeOK' /\ EndsTogether' /\ IsFiniteSet(DOMAIN streamIdx') /\ MemoryInv' /\ SavingInv'
         /\ phase' \in Phases /\ amiss' \subseteq Faults /\ header' \in Ends /\ Both(header')
<1>1. NewReader \in ReaderRecord
  BY RingAssumption DEF NewReader, ReaderRecord, RingIdNone, RingIdError
<1>2. DOMAIN NoIndex = {} /\ NoIndex \in [DOMAIN NoIndex -> StreamRecord] /\ IsFiniteSet(DOMAIN NoIndex)
  BY EmptyIsExact DEF NoIndex, Indexed
<1>3. TypeOK'
  BY <1>1, <1>2, EmptyIsExact, RingAssumption DEF Forget, TypeOK, FileInv, FileTypes
<1>4. header' \in Ends /\ Both(header')
  BY EmptyIsExact DEF Forget, NoHeader, Ends, Both
<1> QED
  BY <1>2, <1>3, <1>4 DEF Forget, EndsTogether, MemoryInv, SavingInv, Phases

LEMMA SavePacketsHolds ==
  ASSUME FileInv, SavePackets
  PROVE  FileInv'
<1>1. /\ phase = "copy" /\ Forget /\ saved' = saving /\ faults' = amiss /\ streamidx' = streamidx
      /\ packetbuf' = [whole |-> TRUE, header |-> header, slot |-> slot]
  BY DEF SavePackets
<1>2. FileTypes'
  BY <1>1, ForgetHolds DEF FileInv, FileTypes, TypeOK
<1>3. "packets" \notin amiss =>
        /\ header.earliest = earliest /\ header.latest = latest
        /\ Exact(slot, earliest, latest, WritesOf(slot, latest))
  BY <1>1, ExactIsWindow, WritesTold, RingAssumption
  DEF FileInv, MemoryInv, SavingInv, SavedHeader, FileTypes, TypeOK
<1>4. amiss = {} =>
        /\ Indexed(streamidx, slot)
        /\ saving = [slot |-> slot, earliest |-> earliest, latest |-> latest,
                     streamIdx |-> streamidx, streamCount |-> Cardinality(DOMAIN streamidx)]
  BY <1>1 DEF FileInv, MemoryInv, SavingInv, Contents
<1>5. FilesInv'
  BY <1>1, <1>3, <1>4 DEF FilesInv
<1> QED
  BY <1>1, <1>2, <1>5, ForgetHolds DEF FileInv

LEMMA CrashHolds ==
  ASSUME FileInv, Crash
  PROVE  FileInv'
<1>1. Forget /\ UNCHANGED fileVars
  BY DEF Crash
<1> QED
  BY <1>1, ForgetHolds DEF FileInv, FileTypes, FilesInv, fileVars

-----------------------------------------------------------------------------
(* The theorems                                                            *)

\* Every reachable state satisfies the invariant.
LEMMA FileInvariant == FileSpec => []FileInv
<1>1. FileInv /\ [FileNext]_allVars => FileInv'
  <2> SUFFICES ASSUME FileInv, [FileNext]_allVars PROVE FileInv'
    OBVIOUS
  <2>1. CASE UNCHANGED allVars
    BY <2>1, ExactIsWindow, IndexedIsInv
    DEF FileInv, FileTypes, TypeOK, EndsTogether, MemoryInv, SavingInv, SavedHeader, Contents,
        FilesInv, allVars, vars, fileVars, saveVars
  <2> QED
    BY <2>1, InitializeHolds, ServeHolds, LateWriteHolds, SaveHeaderHolds, SaveIndexHolds,
       BeginPacketsHolds, SavePacketsHolds, CrashHolds DEF FileNext
<1> QED
  BY <1>1, InitHolds, PTL DEF FileSpec

\* A server that is up runs with a ring that holds the packets of consecutive
\* writes, unless a client wrote during the Shutdown that saved it.
THEOREM WindowIsRecovered == FileSpec => []WindowRecovered
<1>1. FileInv => WindowRecovered
  BY DEF FileInv, MemoryInv, WindowRecovered
<1> QED
  BY <1>1, FileInvariant, PTL

\* With the files of one Shutdown, the stream index that was read back and the
\* links between the packets describe the ring, and so they do after every Write.
THEOREM IndexIsRecovered == FileSpec => []IndexRecovered
<1>1. FileInv => IndexRecovered
  <2>1. IndexInv => StreamIndexExact
    BY DEF IndexInv, StreamIndexExact, IndexFits, EntryFits, Members, Oldest, Newest, InStream
  <2>2. IndexInv => ChainExact
    BY DEF IndexInv, ChainExact, ChainFits, Later, Oldest, InStream
  <2> QED
    BY <2>1, <2>2 DEF FileInv, MemoryInv, IndexRecovered
<1> QED
  BY <1>1, FileInvariant, PTL

\* Initialize takes over the ring that the last Shutdown to run to its end found,
\* or starts with an empty one.
LEMMA InitializeRestores ==
  ASSUME FileInv, Initialize
  PROVE  IF packetbuf.whole THEN faults = {} => Contents' = saved ELSE Contents' = EmptyContents
<1> DEFINE sl == packetbuf.slot
           ea == packetbuf.header.earliest
           la == packetbuf.header.latest
<1>1. CASE ~packetbuf.whole
  BY <1>1, EmptyIsExact
  DEF Initialize, Takeover, RecoveredIndex, NoFile, NoHeader, NoSummary, Contents, EmptyContents
<1>2. ASSUME packetbuf.whole, faults = {} PROVE Contents' = saved
  <2>1. /\ slot' = sl /\ earliest' = ea /\ latest' = la
        /\ streamIdx' = RecoveredIndex /\ streamCount' = Cardinality(DOMAIN RecoveredIndex)
    BY <1>2 DEF Initialize, Takeover
  <2>2. /\ Exact(sl, ea, la, WritesOf(sl, la)) /\ Indexed(streamidx, sl)
        /\ saved = [slot |-> sl, earliest |-> ea, latest |-> la, streamIdx |-> streamidx,
                    streamCount |-> Cardinality(DOMAIN streamidx)]
    BY <1>2 DEF FileInv, FilesInv
  <2>3. RecoveredIndex = streamidx
    <3>1. CASE ea.off >= 0
      BY <1>2, <3>1 DEF RecoveredIndex, Takeover
    <3>2. CASE ~(ea.off >= 0)
      <4>1. /\ ea.off \in Offsets \cup {-1} /\ la.off \in Offsets \cup {-1}
            /\ sl \in [Offsets -> Packet]
        BY DEF FileInv, FileTypes, Ends, PacketSummary
      <4>6. la.off \in Offsets => sl[la.off].sn \in Nat
        BY ONLY <4>1, RingAssumption DEF Packet, RingAssumption
      <4>2. WritesOf(sl, la) \in Nat
        BY ONLY <4>1, <4>6, RingAssumption DEF WritesOf, Offsets, RingAssumption
      <4>3. WritesOf(sl, la) = 0
        BY <2>2, <3>2, <4>1, <4>2, WritesTold, RingAssumption DEF Offsets
      <4>4. LiveOf(sl) = {}
        BY <2>2, <4>3 DEF Exact
      <4>5. streamidx = NoIndex
        BY <2>2, <4>4, EmptyIndex DEF FileInv, FileTypes
      <4> QED
        BY <1>2, <3>2, <4>5 DEF RecoveredIndex, Takeover
    <3> QED
      BY <3>1, <3>2
  <2> QED
    BY <2>1, <2>2, <2>3 DEF Contents
<1> QED
  BY <1>1, <1>2

\* A server starts with the ring as the last Shutdown that ran to its end found
\* it, whatever was lost since, or with an empty ring if the packet buffer file
\* was cut short.
THEOREM LastSaveIsRestored == FileSpec => RestoresLastSave
<1>1. FileInv /\ [FileNext]_allVars =>
        [phase = "down" /\ phase' = "up" =>
           IF packetbuf.whole THEN faults = {} => Contents' = saved
           ELSE Contents' = EmptyContents]_allVars
  <2> SUFFICES ASSUME FileInv, [FileNext]_allVars, phase = "down", phase' = "up"
               PROVE  IF packetbuf.whole THEN faults = {} => Contents' = saved
                      ELSE Contents' = EmptyContents
    OBVIOUS
  <2>1. Initialize
    BY DEF FileNext, Serve, LateWrite, SaveHeader, SaveIndex, BeginPackets, SavePackets, Crash,
       allVars
  <2> QED
    BY <2>1, InitializeRestores
<1> QED
  BY <1>1, FileInvariant, PTL DEF FileSpec, RestoresLastSave
=============================================================================
