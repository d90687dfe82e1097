------------------------------ MODULE RingRace ------------------------------
(***************************************************************************)
(* RingBuffer.ReadNext beside RingBuffer.Write, one access to the memory   *)
(* they share at a time.  Write holds WriteLock and StreamLock, ReadNext   *)
(* holds no lock: it reads LatestOffset, EarliestOffset and the slots      *)
(* while a writer may be anywhere in Write.                                *)
(*                                                                         *)
(* One writer is enough, since the locks let in one at a time, and one     *)
(* reader, since readers share nothing with each other.  The header of a   *)
(* slot (112 bytes) is accessed in one step, and so is its data.  Offsets  *)
(* are counted in packets.                                                 *)
(***************************************************************************)
EXTENDS Integers

CONSTANTS
  MaxPackets,  \* slots of the ring
  MaxSkipped,  \* restarts at the earliest packet before ReadNext gives up (100)
  ClockTies,   \* whether two packets may get the same PktTime
  DataFirst,   \* whether the copy of a packet may reach its data before its header
  MaxBurst,    \* packets that writers begin to store during one call of ReadNext
  MaxWrites    \* bound: packets written in a behaviour

ASSUME RaceAssumption ==
  /\ MaxPackets \in Nat /\ MaxPackets >= 2
  /\ MaxSkipped \in Nat \ {0} /\ MaxWrites \in Nat /\ MaxBurst \in Nat
  /\ ClockTies \in BOOLEAN /\ DataFirst \in BOOLEAN

VARIABLES
  hdr, data,       \* the slots: header, and the ordinal of the write the data is of
  earliestOffset,  \* RingParams.EarliestOffset
  latestOffset,    \* RingParams.LatestOffset
  clock,           \* the last reading of NSnow
  wpc,             \* where Write is
  storing, left,   \* the packet it stores, and what of it is still to be copied
  reader,          \* RingReader: position, the id it starts with, PktTime
  rpc,             \* where ReadNext is
  lo, eo, lt,      \* its latestOffset, earliestOffset, latestPTime
  offset, skipped, \* its loop variables
  pkt, copy,       \* its copies of the header and of the data
  given,           \* history: the last packet ReadNext returned
  burst            \* packets begun during this call

writeVars == <<hdr, data, earliestOffset, latestOffset, clock, wpc,
               storing, left>>
localVars == <<lo, eo, lt, offset, skipped, pkt, copy>>
readVars == <<reader, rpc, localVars, given>>
vars == <<writeVars, readVars, burst>>

Offsets == 0 .. MaxPackets - 1
Header == [sn : Nat, time : Nat, accepted : BOOLEAN]
Blank == [sn |-> 0, time |-> 0, accepted |-> FALSE]
\* Mutation of NextOffset: the comparison with MaxOffset is off by one.
NextOffsetLate(o) == IF o > MaxPackets - 1 THEN 0 ELSE o + 1

NextOffset(o) == IF o + 1 > MaxPackets - 1 THEN 0 ELSE o + 1

-----------------------------------------------------------------------------
(* Write                                                                   *)

WriteOffset == IF latestOffset < 0 THEN 0 ELSE NextOffset(latestOffset)

NSnow == {clock + 1} \cup (IF ClockTies THEN {clock} ELSE {})

WriteStep(from, to) == wpc = from /\ wpc' = to /\ UNCHANGED readVars

\* EarliestOffset once the earliest packet has made room.
EvictedOffset == IF earliestOffset >= 0 /\ WriteOffset = earliestOffset
                 THEN NextOffset(earliestOffset) ELSE earliestOffset

\* The packet gets its time; the earliest packet leaves the window if the ring is
\* full.  A packet is either one the reader's expressions accept or not.
BeginWrite ==
  /\ \E t \in NSnow, a \in BOOLEAN :
       LET n == storing.sn + 1
       IN /\ n <= MaxWrites
          /\ storing' = [sn |-> n, time |-> t, accepted |-> a]
          /\ clock' = t
  /\ left' = {"header", "data"}
  /\ WriteStep("idle", "copy")
  /\ rpc = "idle" \/ burst < MaxBurst
  /\ burst' = IF rpc = "idle" THEN 0 ELSE burst + 1
  /\ earliestOffset' = EvictedOffset
  /\ UNCHANGED <<hdr, data, latestOffset>>

\* The packet is copied into its slot, header and data in an order that is the
\* processor's and the runtime's choice.
StoreHeader ==
  /\ "header" \in left /\ left' = left \ {"header"}
  /\ WriteStep("copy", IF left' = {} THEN "publish" ELSE "copy")
  /\ hdr' = [hdr EXCEPT ![WriteOffset] = storing]
  /\ UNCHANGED <<data, earliestOffset, latestOffset, clock, storing, burst>>

StoreData ==
  /\ "data" \in left /\ left' = left \ {"data"}
  /\ "header" \notin left \/ DataFirst
  /\ WriteStep("copy", IF left' = {} THEN "publish" ELSE "copy")
  /\ data' = [data EXCEPT ![WriteOffset] = storing.sn]
  /\ UNCHANGED <<hdr, earliestOffset, latestOffset, clock, storing, burst>>

PublishLatest ==
  /\ WriteStep("publish", IF earliestOffset < 0 THEN "first" ELSE "idle")
  /\ latestOffset' = WriteOffset
  /\ UNCHANGED <<hdr, data, earliestOffset, clock, storing, left, burst>>

\* "Update earliest for initial packet".
PublishFirst ==
  /\ WriteStep("first", "idle")
  /\ earliestOffset' = latestOffset
  /\ UNCHANGED <<hdr, data, latestOffset, clock, storing, left, burst>>

Writer == BeginWrite \/ StoreHeader \/ StoreData \/ PublishLatest \/ PublishFirst

-----------------------------------------------------------------------------
(* ReadNext                                                                *)

ReadStep(from, to) ==
  /\ rpc = from /\ rpc' = to
  /\ burst' = IF to = "idle" THEN 0 ELSE burst
  /\ UNCHANGED writeVars

\* Mutation of At: a packet that is not accepted leaves the reader where it was.
AtUnmoved(o, h) == IF h.accepted \/ reader.off < 0
                   THEN [reader EXCEPT !.off = o, !.sn = h.sn] ELSE reader

\* The reader placed at offset o, where it found header h.
At(o, h) == [reader EXCEPT !.off = o, !.sn = h.sn]

LoadLatest ==
  /\ ReadStep("idle", "earliest")
  /\ lo' = latestOffset
  /\ UNCHANGED <<reader, eo, lt, offset, skipped, pkt, copy, given>>

\* An empty ring turns "next" into "earliest".
LoadEarliest ==
  /\ eo' = earliestOffset
  /\ ReadStep("earliest", IF lo < 0 THEN "idle" ELSE "time")
  /\ reader' = IF lo < 0 THEN [reader EXCEPT !.id = "earliest"] ELSE reader
  /\ UNCHANGED <<lo, lt, offset, skipped, pkt, copy, given>>

\* Mutation of FirstOffset: the loop starts one packet too far.
FirstOffsetFar == IF reader.off < 0 THEN eo ELSE NextOffset(NextOffset(reader.off))

FirstOffset == IF reader.off < 0 THEN eo ELSE NextOffset(reader.off)

\* The time of the latest packet is read from its slot.  A reader that waits for
\* the next packet is placed there; another one starts its loop.
LoadLatestTime ==
  /\ rpc = "time"
  /\ lt' = hdr[lo].time
  /\ skipped' = 0
  /\ IF reader.off < 0 /\ reader.id = "next"
     THEN /\ ReadStep("time", "idle")
          /\ reader' = At(lo, hdr[lo])
          /\ UNCHANGED offset
     ELSE /\ ReadStep("time", "loop")
          /\ offset' = FirstOffset
          /\ UNCHANGED reader
  /\ UNCHANGED <<lo, eo, pkt, copy, given>>

\* The end of the buffer, or no slot to read: RINGID_NONE.
EndOfBuffer ==
  /\ offset = NextOffset(lo) \/ offset < 0
  /\ ReadStep("loop", "idle")
  /\ UNCHANGED <<reader, localVars, given>>

\* Mutation of Ahead: a slot outside the window is not recognised.
AheadNever(h) == FALSE

Ahead(h) == h.time > lt

\* The header of the next slot is read: it is one outside the window, or the
\* reader is placed on it.
LoadHeader ==
  /\ rpc = "loop"
  /\ offset # NextOffset(lo) /\ offset >= 0
  /\ pkt' = hdr[offset]
  /\ IF Ahead(pkt')
     THEN /\ ReadStep("loop", "resync")
          /\ UNCHANGED <<reader, offset, skipped>>
     ELSE /\ ReadStep("loop", IF pkt'.accepted THEN "copy" ELSE "loop")
          /\ skipped' = 0
          /\ reader' = At(offset, pkt')
          /\ offset' = IF pkt'.accepted THEN offset ELSE NextOffset(offset)
  /\ UNCHANGED <<lo, eo, lt, copy, given>>

\* The search goes on at the earliest packet, MaxSkipped times.
Resync ==
  /\ offset' = earliestOffset
  /\ skipped' = skipped + 1
  /\ ReadStep("resync", IF skipped' >= MaxSkipped THEN "idle" ELSE "loop")
  /\ UNCHANGED <<reader, lo, eo, lt, pkt, copy, given>>

LoadData ==
  /\ ReadStep("copy", "check")
  /\ copy' = data[offset]
  /\ UNCHANGED <<reader, lo, eo, lt, offset, skipped, pkt, given>>

\* Mutation of Unchanged: the slot is not looked at again.
UnchangedAlways == TRUE

Unchanged == hdr[offset].time = pkt.time

\* The time in the slot is read again: the packet is returned if it is the same.
Deliver ==
  /\ ReadStep("check", "idle")
  /\ given' = IF Unchanged THEN [sn |-> pkt.sn, data |-> copy] ELSE given
  /\ UNCHANGED <<reader, localVars>>

ReadNext ==
  \/ LoadLatest \/ LoadEarliest \/ LoadLatestTime
  \/ EndOfBuffer \/ LoadHeader \/ Resync \/ LoadData \/ Deliver

-----------------------------------------------------------------------------
Init ==
  /\ hdr = [o \in Offsets |-> Blank] /\ data = [o \in Offsets |-> 0]
  /\ earliestOffset = -1 /\ latestOffset = -1
  /\ clock = 0
  /\ wpc = "idle" /\ storing = Blank /\ left = {}
  /\ \E id \in {"next", "earliest"} : reader = [off |-> -1, id |-> id, sn |-> 0]
  /\ rpc = "idle"
  /\ lo = -1 /\ eo = -1 /\ lt = 0 /\ offset = -1 /\ skipped = 0
  /\ pkt = Blank /\ copy = 0
  /\ given = [sn |-> 0, data |-> 0]
  /\ burst = 0

Next == Writer \/ ReadNext

(* The reader's thread calls ReadNext on every turn of its loop, and a       *)
(* writer that has begun ends its Write.                                     *)
Spec == Init /\ [][Next]_vars /\ WF_vars(ReadNext) /\ WF_vars(Writer /\ wpc # "idle")

-----------------------------------------------------------------------------
(* Properties                                                              *)

TypeOK ==
  /\ hdr \in [Offsets -> Header] /\ data \in [Offsets -> Nat]
  /\ earliestOffset \in Offsets \cup {-1} /\ latestOffset \in Offsets \cup {-1}
  /\ clock \in Nat /\ storing \in Header
  /\ wpc \in {"idle", "copy", "publish", "first"} /\ left \subseteq {"header", "data"}
  /\ reader \in [off : Offsets \cup {-1}, id : {"next", "earliest"}, sn : Nat]
  /\ rpc \in {"idle", "earliest", "time", "loop", "resync", "copy", "check"}
  /\ lo \in Offsets \cup {-1} /\ eo \in Offsets \cup {-1} /\ lt \in Nat
  /\ offset \in Offsets \cup {-1} /\ skipped \in 0 .. MaxSkipped
  /\ pkt \in Header /\ copy \in Nat
  /\ given \in [sn : Nat, data : Nat]

Delivers == Deliver /\ Unchanged

\* The packets ReadNext returns go forward in the order of the writes, and none
\* of them is returned twice.
ForwardOnly == [][Delivers => given'.sn > given.sn]_vars

\* A packet has left the window once the one MaxPackets later is begun (BeginWrite
\* moves EarliestOffset past it), and burst of the packets begun came during this
\* call of ReadNext: the packet after the last one returned was in the window when
\* the call began.
Evicted(n) == n <= storing.sn - MaxPackets
InTime == given.sn > 0 /\ given.sn + 1 > storing.sn - burst - MaxPackets

\* A call of ReadNext that begins in time leaves out a packet that it accepts only
\* if that packet is evicted before the call returns.  (A reader that comes too
\* late goes on in the middle of the window, and passes over packets of it.)
GapOnlyIfEvicted ==
  [][Delivers /\ InTime =>
       \A o \in Offsets :
         given.sn < hdr[o].sn /\ hdr[o].sn < given'.sn /\ ~Evicted(hdr[o].sn)
         => ~hdr[o].accepted]_vars

\* The writers are a whole number of rings ahead of the reader: its slot is the
\* latest one again, and ReadNext takes everything for read.
RingsAhead == reader.off >= 0 /\ reader.off = latestOffset /\ reader.sn # hdr[reader.off].sn

\* A reader that keeps calling ReadNext comes to the packet written last when the
\* writers leave it the time to, wherever they lapped it before, unless they have
\* stopped a whole number of rings ahead of it.
CatchesUp == <>[]~RingsAhead => (reader.off >= 0 ~> reader.sn = storing.sn)

\* A packet is returned with its own data: ReadNext re-reads PktTime "to detect
\* if the slot was overwritten during our processing" (RingBuffer.cs:814).
NotTorn == given.data = given.sn
=============================================================================
