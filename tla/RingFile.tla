------------------------------ MODULE RingFile ------------------------------
(***************************************************************************)
(* The life of a ring that is not volatile: RingBuffer.Initialize loads it *)
(* from the packet buffer file and the stream index file, Shutdown writes  *)
(* it back, and the process may stop at any step.  While the server runs   *)
(* the ring is the one of module RingBuffer, in memory only.               *)
(***************************************************************************)
EXTENDS RingBuffer

CONSTANT MaxStarts  \* bound: how often the server is started

VARIABLES
  phase,     \* "down", "up", and the steps of Shutdown
  header,    \* the header in DataBuffer: Earliest* and Latest*
  packetbuf, \* the packet buffer file; whole: it has the length of the ring
  streamidx, \* the stream index file
  saving,    \* history: the ring as Shutdown found it
  saved,     \* history: that ring, of the last Shutdown that ran to its end
  amiss,     \* history: what is wrong with the ring in memory or its saving
  faults,    \* history: what is wrong in the files
  starts     \* bound: number of starts so far

fileVars == <<packetbuf, streamidx, saved, faults>>
saveVars == <<saving, amiss>>
allVars == <<vars, phase, header, fileVars, saveVars, starts>>

NoIndex == [s \in {} |-> 0]
NoHeader == [earliest |-> NoSummary, latest |-> NoSummary]
NoSlots == [o \in Offsets |-> Blank]

NoFile == [whole |-> FALSE, header |-> NoHeader, slot |-> NoSlots]

\* What the ring consists of, apart from the readers.
Contents == [slot |-> slot, earliest |-> earliest, latest |-> latest,
             streamIdx |-> streamIdx, streamCount |-> streamCount]

EmptyContents == [slot |-> NoSlots, earliest |-> NoSummary, latest |-> NoSummary,
                  streamIdx |-> NoIndex, streamCount |-> 0]

\* Mutation of Takeover: the length of the file is not checked.
TakeoverAny == packetbuf

\* The file that Initialize takes over; any file of another length than the
\* ring's is replaced by a buffer of zeros, and the parameters are reset.
Takeover == IF packetbuf.whole THEN packetbuf ELSE NoFile

\* Mutation of RecoveredIndex: the stream index is not read back.
RecoveredIndexNone == NoIndex

\* The stream index is read only for a ring that holds packets.
RecoveredIndex == IF Takeover.header.earliest.off >= 0 THEN streamidx ELSE NoIndex

\* The process ends, and what was in memory is gone.
Forget ==
  /\ phase' = "down"
  /\ slot' = NoSlots /\ earliest' = NoSummary /\ latest' = NoSummary
  /\ streamIdx' = NoIndex /\ streamCount' = 0 /\ header' = NoHeader
  /\ writes' = 0 /\ last' = [r \in Readers |-> 0]
  /\ reader' = [r \in Readers |-> NewReader]
  /\ saving' = EmptyContents /\ amiss' = {}
  /\ UNCHANGED <<clock, starts>>

\* The server starts, with no client.
Initialize ==
  /\ phase = "down" /\ phase' = "up"
  /\ starts < MaxStarts /\ starts' = starts + 1
  /\ slot' = Takeover.slot
  /\ header' = Takeover.header
  /\ earliest' = Takeover.header.earliest /\ latest' = Takeover.header.latest
  /\ streamIdx' = RecoveredIndex
  /\ streamCount' = Cardinality(DOMAIN RecoveredIndex)
  /\ writes' = IF Takeover.header.latest.off < 0 THEN 0
               ELSE Takeover.slot[Takeover.header.latest.off].sn
  /\ amiss' = IF packetbuf.whole THEN faults ELSE {}
  /\ UNCHANGED <<clock, reader, last, fileVars, saving>>

Serve == phase = "up" /\ Next /\ UNCHANGED <<phase, header, starts, fileVars, saveVars>>

\* A client still writes: the watchdog gave up waiting for it (ShutdownSig 100)
\* or lost count of it, and nothing stops a Write once Shutdown has begun.
LateWrite ==
  /\ phase \in {"index", "packets", "copy"} /\ WriteSome
  /\ amiss' = {"packets", "index"}
  /\ UNCHANGED <<phase, header, starts, fileVars, saving>>

\* Mutation of SavedHeader: the header stays as Initialize read it.
SavedHeaderOld == header

SavedHeader == [earliest |-> earliest, latest |-> latest]

\* Shutdown writes the header into the buffer ...
SaveHeader ==
  /\ phase = "up" /\ phase' = "index"
  /\ header' = SavedHeader
  /\ saving' = Contents
  /\ UNCHANGED <<vars, starts, fileVars, amiss>>

\* ... the stream index into its file, which an error leaves short (it is
\* logged, and Shutdown goes on), and destroys the index in memory ...
SaveIndex ==
  /\ phase = "index" /\ phase' = "packets"
  /\ \E kept \in SUBSET DOMAIN streamIdx :
       /\ streamidx' = [s \in kept |-> streamIdx[s]]
       /\ amiss' = amiss \cup (IF kept = DOMAIN streamIdx THEN {} ELSE {"index"})
  /\ faults' = faults \cup {"index"}
  /\ streamIdx' = NoIndex
  /\ UNCHANGED <<slot, earliest, latest, streamCount, clock, reader, writes, last,
                 header, packetbuf, saving, saved, starts>>

\* ... truncates the packet buffer file, and copies the buffer into it, from
\* the header on.
BeginPackets ==
  /\ phase = "packets" /\ phase' = "copy"
  /\ packetbuf' = [whole |-> FALSE, header |-> header, slot |-> NoSlots]
  /\ UNCHANGED <<vars, header, streamidx, saved, faults, saveVars, starts>>

SavePackets ==
  /\ phase = "copy" /\ Forget
  /\ packetbuf' = [whole |-> TRUE, header |-> header, slot |-> slot]
  /\ saved' = saving /\ faults' = amiss
  /\ UNCHANGED streamidx

\* The process stops, or an error ends the copy: the files stay as they are.
Crash == phase # "down" /\ Forget /\ UNCHANGED fileVars

FileInit ==
  /\ Init
  /\ phase = "down"
  /\ header = NoHeader
  /\ packetbuf = NoFile /\ streamidx = NoIndex
  /\ saving = EmptyContents /\ saved = EmptyContents
  /\ amiss = {} /\ faults = {}
  /\ starts = 0

FileNext ==
  \/ Initialize \/ Serve \/ LateWrite
  \/ SaveHeader \/ SaveIndex \/ BeginPackets \/ SavePackets
  \/ Crash

FileSpec == FileInit /\ [][FileNext]_allVars

-----------------------------------------------------------------------------
(* Properties                                                              *)

\* Wherever a Shutdown stopped and however often the server was restarted, the
\* ring it runs with holds the packets of consecutive writes between the ends
\* that RingParams names - unless a client wrote during the Shutdown that saved
\* it, after the header had been put into the buffer.
WindowRecovered == phase = "up" /\ "packets" \notin amiss => WindowExact

\* With files of one and the same Shutdown the ring is exact: the stream index,
\* the links between the packets and, after them, every later write.
IndexRecovered == phase = "up" /\ amiss = {} => StreamIndexExact /\ ChainExact

\* A server starts with the ring as the last Shutdown that ran to its end found
\* it, whatever other servers did and lost since - or with an empty ring, if the
\* packet buffer file was cut short.
RestoresLastSave ==
  [][phase = "down" /\ phase' = "up" =>
       IF packetbuf.whole THEN faults = {} => Contents' = saved
       ELSE Contents' = EmptyContents]_allVars
=============================================================================
