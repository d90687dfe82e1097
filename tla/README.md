# RS_CSharp in TLA+

A verification project for RS_CSharp (`src/RS_CSharp`), the C# port of
ringserver: a server that takes time series packets from DataLink clients,
keeps the most recent ones in a ring buffer, archives them, and streams them to
DataLink, SeedLink, HTTP and WebSocket clients.  The repository also holds the C
program it is a port of (`src/ringserver-4`, with vendored libraries) and a
client (`src/slinktool`).  Of the C program the miniSEED scanner is modelled,
which the port has no counterpart of; the rest of it is the design the port
repeats, and its comments are used as documentation only.

Paths below are relative to `src/RS_CSharp`, those of the scanner to
`src/ringserver-4/src`.

## 1. Inventory

| Part | Source | State | Operations |
|---|---|---|---|
| Packet ring | `Ring/RingBuffer.cs`, `Ring/RingTypes.cs` | `DataBuffer` (slots), `RingParams.Earliest*`/`Latest*`, `StreamIdx`, `StreamCount`; one `RingReader` per client | `Write`, `Read`, `ReadNext`, `Position`, `After`, `AfterRev`, id lookup, `GetStreamsStack`, `UpdatePattern` |
| Ring files | `Ring/RingBuffer.cs`, `Program.cs` | `packetbuf` and `streamidx` files | `Initialize`, `Shutdown`, auto-recovery |
| Server threads | `Program.cs`, `Net/ListenServer.cs`, `Net/ClientHandler.cs`, `Config/ServerConfig.cs` | `ShutdownSig`, `Sthreads`, `Cthreads`, `ClientCount`, `ThreadData.State`, listening sockets | signal handlers, accept loop, client thread, watchdog loop |
| Receiving, framing | `Net/ClientHandler.cs`, `ClientInfo.cs` | `RecvBuffer`, `RecvLength`, `DlCommand`, `Type`, last exchange time | protocol detection, `RecvDLCommand`, `RecvLine`, consumption of lines; `RecvData` |
| Sending | `Net/SendData.cs` | socket | `SendBuffersToClient` |
| DataLink | `Protocols/DataLinkProtocol.cs` | streaming state, match/reject, reader position | `ID`, `POSITION`, `MATCH`, `REJECT`, `WRITE`, `READ`, `STREAM`, `ENDSTREAM`, `INFO` |
| SeedLink | `Protocols/SeedLinkProtocol.cs` | `SLExtInfo`: stations and selectors, time window, `DbRecords`, cursor | negotiation, `DATA`/`FETCH`/`TIME`/`END`, streaming from the database and then from the ring |
| HTTP, WebSocket | `Protocols/HttpProtocol.cs` | none of its own beyond the session's protocol | requests, upgrade |
| miniSEED archive | `Mseed/MseedArchive.cs`, `Mseed/DataStream.cs` | `_pendingWrites`, `_disposed`, partitions, the database | `Enqueue`, flush (timer or full batch), retention, `QueryByTime`, `QueryByTimePagination`, `Dispose` |
| miniSEED scanner (C) | `mseedscan.c`, and of `ringserver.c` and `config.c` what concerns its thread | `filetree`, `recurlevel`, `nextnew`, state file, thread state | `ScanFiles`, `ProcessFile`, `WriteRecord`, `PruneFiles`, `SaveState`, `RecoverState`, restart |
| Configuration | `Config/ServerConfig.cs` | parameters | parse, re-read |
| Logging, helpers | `Logging.cs`, `Generic.cs`, `Types/*` | transfer log, red-black tree, stack | |

**How they interact.**  `Program` initialises the ring, then loops as the
watchdog: it starts a thread per listening socket, removes client threads that
have closed, and on a signal closes everything and saves the ring.  A listener
thread accepts a connection and starts a client thread; the client thread owns
its session and its `RingReader` and calls the ring directly.  All threads share
the ring: writers exclude each other with `WriteLock` and `StreamLock`, readers
take no lock.  A DataLink `WRITE` also goes into the archive's queue; SeedLink
serves old data from the archive's database and then hands the client over to
the ring.  The scanner is a thread of the C server that writes into its ring
what files have grown by, and is started again by its watchdog.

**What is hard, and what makes each part correct.**

* *Packet ring.*  Eviction of the earliest packet while the new one is stored
  into its slot, the bookkeeping of several structures that describe the same
  packets, ids that wrap, a clock that may step back, readers that are lapped.
  Correct: the slots hold exactly the last packets in order; the index and the
  links describe them; a reader is handed what it accepts, in order, without
  gaps unless it was lapped; a packet comes with its own data.
* *Ring files.*  Saving takes three steps, goes on after an error and may be
  overtaken by clients that still write; the process may stop anywhere.
  Correct: what is loaded is what was saved, or nothing.
* *Server threads.*  Three kinds of thread write a client's state under two
  locks, a count is kept without any, sockets vanish under their users, a send
  or the receipt of a command's data may block for good.  Correct: no thread is forgotten, a request to close
  arrives, a signal ends the server, the limits hold, the ring is saved when
  nothing writes any more.
* *Receiving.*  Commands come in pieces or several at once, three protocols share
  a buffer, the protocol is guessed from two bytes, the data of a `WRITE` is
  partly in the buffer, and the connection may end right behind a command.
  Correct: every complete command is handled once, in order, as it was sent.
* *SeedLink.*  History is cut into pages by a cursor while rows are added; then
  the ring takes over by data time; clients repeat commands while they stream;
  sequence numbers have 24 bits of an id; packets of several stations have equal
  times and come late.  Correct: no packet lost or sent twice, and the history ends.
* *Archive.*  Several threads flush one queue without a lock; a batch may fail;
  `Enqueue` may run beside `Dispose`.  Correct: every record is stored once, or
  its loss is reported; none waits for ever.
* *Scanner.*  Files grow while they are read, the ring may refuse a record in the
  middle of a recursion, the state file is older than the work done.  Correct: no record
  is passed by, none is written twice without need, all are read in the end.

`PROJECT.json` lists the hazards one by one, each at its line.

## 2. Modules

| Module | What it is |
|---|---|
| `RingLog` | What the ring promises: the last `Capacity` packets of all that were written, and readers who are given a packet later than their last |
| `RingBuffer` | The ring, one operation per action |
| `RingRace` | `ReadNext` beside `Write`, one access to shared memory per action |
| `RingFile` | Starts, shutdowns and crashes around `RingBuffer` (which it EXTENDS) |
| `ServerThreads` | Listener threads, client threads, watchdog, signals |
| `MseedArchive` | The archive's queue and its flushes on several threads |
| `SeedLinkHistory` | A SeedLink session: composes `RingBuffer` and `MseedArchive` (INSTANCE) with the commands and the streaming of the session and the `WRITE` that fills both |
| `ClientSession` | From what a client sends to the commands its thread handles |
| `MSeedScan` | The scanner thread of the C program, its files, its state file, its restarts |
| `<Module>Proofs` | Theorems about `RingBuffer`, `RingRace`, `RingFile`, `ServerThreads`, `MseedArchive`, `SeedLinkHistory`, `ClientSession` and `MSeedScan`, each EXTENDS its module |
| `MC*` | Small instances for TLC |

### RingBuffer

`slot` is `DataBuffer`, indexed by offset, counted in packets and not in bytes;
`earliest` and `latest` are the `Earliest*` and `Latest*` fields of
`RingParams`; `streamIdx` maps a stream id to its `RingStream`; `reader[r]` is
the `RingReader` of a client.  `sn`, `writes` and `last` are history: the ordinal of the
write that stored a packet, and of the packet a reader got last.  A packet is
its id, time, stream, data start and link; its payload is of no concern here.

`Write` is the whole method: id, eviction with its three cases for the stream
entry, storing, `Latest*`, the first `Earliest*`, the link from the previous packet
of the stream, the stream entry.  `Read`, `Position`, `After` and `AfterRev`
compute an offset and place the reader there.  `ReadNext` is `ReadNextEmpty`,
`ReadNextPlace` (a reader that waits for the next packet) or `ReadNextScan`: the
loop as a function of where it starts and where it stops, with the restart at
the earliest packet when a slot is ahead of the latest time.  Where the loop of
the code does not return, the action has no step.  Loops are set expressions
over offsets (`Steps`, `At`, `FirstFrom`), so that no operator is recursive.
Match, reject and limit expressions are one set `Accepts[r]` per reader; a slot
never written has the empty stream id (`NoStream`), which an expression may
accept.

### RingRace

Writers exclude each other, readers share nothing with each other, so one of
each is enough.  `Write` is: eviction (`BeginWrite`), the copy of header and
data, `LatestOffset`, and `EarliestOffset` for the first packet.  `ReadNext` is:
its loads of `LatestOffset`, `EarliestOffset`, the time of the latest packet, a
header, the data, and the time again.  The parameters state what the environment does:

* `ClockTies`: whether two packets may get the same time.
* `DataFirst`: whether the copy of a packet may reach the data first.
* `MaxBurst`: packets that writers begin during one call of `ReadNext`.

### RingFile

`Initialize` takes a packet file over only if its length is the ring's;
the index is read only if the ring holds packets.  `Shutdown` is `SaveHeader`,
`SaveIndex` (which an error leaves short, without stopping it), `BeginPackets`
(the file is truncated) and `SavePackets`.  `LateWrite` is a client that still
writes: the watchdog may give up on clients (`ShutdownSig` at its safety valve)
or lose count of them (see the finding on `ClientCount`).  `Crash` may come at
any step, or is the I/O error that ends the copy.  `saving`, `saved`, `amiss` and
`faults` are history.

### ServerThreads

`lpc`, `cpc` and `wpc` say where each thread is; `state` and `serverState` are
`ThreadData.State`.  A pass over the clients holds `CthreadsLock`, which
`ListClient` and `Cleanup` wait for.  The decrement of `ClientCount` is a
load and a store, as compiled; the increment is atomic.  `CallAccept` on a socket that
has become null is the unhandled `NullReferenceException`, the end of the
process.  A client thread blocks in two places without a time limit: `Send`, and
`RecvData`, which waits for the data of a command; a peer in `Stalled` may leave it there
for good, and it then never looks at its `State` again.  Left out: the limit per address, the re-reading of the
configuration, and the contents of sessions (`ClientSession`, `SeedLinkHistory`).

### MseedArchive

`pending` is `_pendingWrites`; `phase[f]` and `batch[f]` are where a thread is in
`FlushPendingWrites` and the batch it has taken; `db` is the table, in the order
of its ids.  `Enqueue` is two steps, its test of `_disposed` and the addition to the queue
with what follows, since `Dispose` may come in between; a flush takes one record
per step.  A `COPY` stores a batch or throws: then the batch is logged and gone
(`lost`).  Any thread may be in a flush at any time, `Dispose` sets `_disposed`, flushes
and closes the data source.

### SeedLinkHistory

The session is `sl` (`ClientInfo.State` and `SLExtInfo`); its `RingReader` is
that of `RingBuffer`, its rows are those of `MseedArchive`.  A DataLink `WRITE`
adds to both (`HandleWrite`).  `HandleStation`, `HandleData`, `HandleTimeStation`,
`HandleTimeAll` and `HandleEnd` are the commands, read between two calls of
`StreamPackets`; that is `SendDbRecord` (one record of the prefetched queue),
`FetchNextPage` and `GoToRing` (the two halves of `HandleDbQueueExhausted`),
`SendPacket` (a `ReadNext`, whose packet is sent if it is miniSEED) and `SendFails` (an
error of the socket or of `ReadNext`: the connection is closed).  A query returns any result that its
`ORDER BY` and `LIMIT` allow, or fails.  A record without data aborts the burst
(`SeedLinkProtocol.cs:268-273`): the next call goes on behind it, and if it was the
last of its page `HandleDbQueueExhausted` is not called.  What a packet may be, its
stream, start time and payload (miniSEED, something else, nothing), is the constant `Packets`:
times may be equal and come in any order.  Ids are split at `SeqModulus` as
`HandleData` does with 24 bits.  `sent`, `promised` and `amiss` are history: what was
sent since the client last asked, the rows that were in the range it asked for,
and whether a query failed or a page ended with an aborted burst.

### ClientSession

A client sends units, the pieces of its commands that may arrive apart; they are
received as many at a time as have arrived and fit.  `Detect` is the guess of the protocol,
`RecvDLPart`/`RecvDLCommand`/`RecvData` the binary framing with the array
`DlCommand`, `RecvLine` the lines of SeedLink and HTTP together with their
consumption by `RunInner`, `RecvFin`, `Timeout` and `Leave` the ways out.  A
handler succeeds or ends the session (`Finish`).  `peer.reads` says whether the client
goes on reading what it is sent.

### MSeedScan

Offsets count halves of records, so that a file can end, and the scanner can
start, within a record.  `path` is the stack of directories that the recursion
of `ScanFiles` has open, `reading` is the call of `ProcessFile` under way, one
record per step (`WriteRecord`, `WriteFails`, `FileDone`, `ReadFails`), since files grow
and the server may be told to stop meanwhile.  A refused record empties `path` without
lowering `recurlevel`, as the code returns.  `SaveState` replaces the state file or leaves it;
`StartThread` is the watchdog, `Boot`, `ProcessEnds` and `Crash` the process.  `fate` and
`amiss` are history: what became of each record, and whether a fault happened
after which the code reads a file again.

## 3. Runs

| Run | Configuration | Result |
|---|---|---|
| `ring` | 3 slots, 2 streams, 1 reader that accepts one of them, 5 writes, 2 data times, ids up to 3, a client that brings id 8, a clock with ties | `TypeOK`, `WindowExact`, `StreamIndexExact`, `ChainExact`, `FoundUnlessFull`, `ImplementsLog`, `NothingSkipped` hold |
| `race` | 4 slots, 7 writes, 2 restarts, at most 2 writes begun during one call | `NotTorn`, `ForwardOnly`, `GapOnlyIfEvicted`, `CatchesUp` hold |
| `file` | 2 slots, 4 writes, 3 starts | `WindowRecovered`, `IndexRecovered`, `RestoresLastSave` hold |
| `threads` | 1 listener, 2 clients, one with a peer that may stall a send or a receive, limit 1, reserve 1 | `ThreadsTracked`, `StateAdvances`, `ShutdownEnds`, `ClosesOnRequest` hold |
| `archive` | 2 clients, a timer, `Dispose`, 4 records, batches of 2 | `InOnePlace`, `NothingLeftBehind`, `QueueBounded`, `Written` hold |
| `history` | a ring of 3, 3 writes: packets of a selected stream at two times, packets without data of another; pages of two rows | `HistoryComplete`, `SentInOrder`, `HistoryEnds` hold |
| `session` | ports of one, two and three protocols, 3 commands, bodies of 1 and 2 units, data of 0 and 2, three ways to end a line, a buffer of 7 units, clients that read and clients that stop | `CommandsInOrder`, `FinLosesNothing`, `EveryCommandHandled` hold |
| `scan` | a file of 3 records in a directory below the base, 2 records per scan, idle delay 2, 2 faults, depth 2 | `NothingPassedBy`, `WrittenOnce`, `EventuallyRead` hold |
| `lookup`, `no_threads`, `handover`, `command` | as `ring`, `threads`, `history`, `session`, smaller | one violated claim each, see section 6 |

Each property has a mutant of a mapped definition, a plausible slip in that
code, under which its run fails (`PROJECT.json`, "mutants").

**Bounds.**

* *3 slots and 5 writes* (4 and 7 in `race`) fill the ring and go on into its second
  round, so that slots are evicted, and an eviction happens with a stream of one packet, of several,
  and of none left.  Three is the least number of slots with a packet that is
  neither the earliest nor the latest.
* *Ids up to 3* (`RingIdMaximum`) make them wrap within those writes; the id 8
  is `RingIdError`, the largest `ulong`, the one value a client may bring after
  which the sum of the next id overflows.
* *Clock 1..2*: packets with equal times.  A clock that steps back is covered by the
  theorems on the window, the index and the links, which make no assumption on it;
  with a step back a reader's order does not hold.
* *2 slots in `file`*: the instance multiplies the ring's states by those
  of the files; two slots still wrap, evict and link, and three starts allow a
  save, a torn save, and a load of what both left.
* *`SafetyValve` 5* stands for 100 rounds: enough for every thread to finish, or
  to fail to.
* *2 restarts* stand for 100 (`MaxSkipped`).
* *4 records in batches of 2*: two full batches by two clients, or one and a
  rest for the timer or `Dispose`; a third client repeats the second.
* *Pages of two rows* (10000 in the code): of three rows a page may be cut before, between
  and behind rows of the same time, and its last row may be one without data.  The
  packets are three: two times of the selected stream, and a packet
  without data of the stream that is not, at the time of the second: ties, late
  packets, aborted bursts in the middle and at the end of a page, and a ring that is full when
  the session comes to it are all reached.  Each record is flushed by the thread that
  hands it in (`BatchSize` 1), so no timer is needed; `archive` is about flushes.  No `TIME`
  brings an end in this run: with one the instance is too large, and `HistoryComplete`'s
  exemption of the last instant is then met by the theorem only.
* *3 commands of `session`*: one that is handled, one that is in the buffer
  behind it and one that is on its way, cut anywhere; 7 units are less than two
  of the longest commands (6 units), so the buffer fills; 2 empty lines stand
  for 10.
* *One file of `scan`*: files are treated one after another and share only
  `recurlevel` and `nextnew`; two files were checked for the invariants with
  the same result.  Three records need two scans of two; an idle delay of two
  means a scan that skips the file.  Depth 2 stands for 256, so that the leak of
  `recurlevel` can reach it.

**The environment of `race`.**  The properties hold if (a) the clock never steps
back and ticks between two packets: its resolution is 100 ns, and a `Write` between two readings takes longer; (b) the
header is copied before the data; (c) the ring does not wrap within one call of
`ReadNext`: one packet may be in progress when the call begins and `MaxPackets - 2`
more begin during it, two in this run; (d) a header of
112 bytes is read and written in one step.  With ties, `NotTorn`, `ForwardOnly` and
`GapOnlyIfEvicted` fail; with the data first, `NotTorn` fails (`DataFirst`); with
a wrap all three fail.  So the check in
`ReadNext` that only looks at the time is as good as these four assumptions;
none of them is enforced by the code.

**Fairness.**  `race`: the reader's thread calls `ReadNext` on every turn of its
loop, and a writer that has begun ends, since a `Write` waits for nothing once it
holds its locks; nothing makes a writer begin.  `threads`: every thread runs
(weak fairness on what it does by itself); peers need do nothing, except that one
which is not in `Stalled` takes the data sent to it and sends the data of the command it has
begun (the code sets no time limit for either, `SendData.cs:92`, `DataLinkProtocol.cs:613-614`, so
nothing can be said of the threads of other peers; `ShutdownEnds` holds with them); strong fairness on the two
steps that wait for `CthreadsLock`, because the watchdog sleeps between rounds
without it and a waiting thread gets a free lock in the end.  `archive`: the timer is
periodic, a thread goes on with its flush, and the database answers or a timeout makes the
call throw.  `history`: the thread of a client that reads goes round its loop, of which only the sending of the
history need be fair; neither writers nor the client's commands are.  `session`: the thread keeps turning while its
client reads (`peer.reads`): a reply or a packet is sent without a time limit, and a client
that stops reading may leave commands that have arrived unhandled.  The client owes nothing else.
`scan`: the thread runs and the watchdog starts it; nobody has
to start the process, and files need not grow.

**Exemptions in the properties.**  They name what the code does not do, and each is
in section 6.

* `EveryCommandHandled` and `FinLosesNothing` speak of DataLink
  clients that wait for the effect of a command before they send the next (`ahead`), the
  first one only of clients that read what they are sent.
* `CommandsInOrder` allows a framing error for a client that was taken for one of
  another protocol (`Misread`).
* `CatchesUp` excepts writers that have stopped a whole number of rings ahead of
  the reader (`RingsAhead`); `GapOnlyIfEvicted` speaks of calls that begin before the reader is
  lapped (`InTime`).
* `ImplementsLog` takes a packet that a reader is handed again, by an id or after it has
  repositioned itself, for a stutter or a reposition of the log.
* `HistoryComplete` excepts rows without data, rows of the last instant asked for, and rows
  that start with the last row of the first page and have a smaller id; it is silent after a
  query that failed, and where a burst was aborted at the end of a page, since
  then no handover takes place.
* `SentInOrder` excepts rows that start with the last row of the first page and
  have a greater id (sent twice), packets of the ring that started before a packet written earlier had ended
  (`CameLate`), and packets of the ring after a burst aborted at the end of a page.
* `ClosesOnRequest` excepts clients whose peer has stalled, or the server ends first.
* `WindowRecovered` is silent about a ring that was saved while clients wrote, and
  `IndexRecovered` about an index of another `Shutdown` or a short one (`amiss`).
* `EventuallyRead` excepts ignored files and an
  exhausted `recurlevel`; `WrittenOnce` excepts faults that make the scanner forget
  (`amiss`); `NothingLeftBehind` excepts records that were on their way into the
  queue when `Dispose` began (`late`).

**Deadlock** is not checked: a ring at its bound of writes with no reader left
to move, a server that has ended, a session that is closed and a process that is
down are ends of a behaviour and no deadlock.  That nobody waits for ever is what
the liveness properties say.

## 4. What is proved

Every theorem is about all values of the constants that the assumption of its module
admits.  The assumptions say no more than the types of the constants, except where
noted.  Every invariant that a passing run of section 3 checks is proved, and so is every
action property; `HeldIsFound` and `NothingPassedOver`, which runs show violated, are findings.

Each proof is by induction over the steps: an invariant that is stronger than the
property, one lemma per action that it is kept, and the theorem from it.  The
stronger invariants were checked by TLC on the instances of section 3 first.

### RingBufferProofs

For every number of slots from two, every set of streams and readers, every
filter and every legal id a client may bring (`RingAssumption`).

* `TypeCorrect`, `WindowCorrect`: `RingInv == TypeOK /\ WindowExact` is inductive.
  The ring is full exactly when the slot after the latest is the earliest one; then
  the earliest moves on by one and every other packet keeps its distance to it less
  one, otherwise the window grows by one slot at its end.  Lemmas on `Steps`, `At`
  and `NextOffset` carry the arithmetic modulo the size.
* `IndexCorrect`, `ChainCorrect`: `StreamIndexExact` and `ChainExact` need each other,
  since eviction moves the start of a stream along the link of the packet that
  goes, and a `Write` sets the link of the packet the index calls the latest.  `IndexInv` is both,
  with the types of the packets held and `StreamCount` as the number of entries.
* `LookupsCorrect` adds `FirstAtZero`: until the ring wraps, packet `x + 1` lies in
  slot `x`.  It is about a ring that has not filled; on a full one lookups fail (section 6).
* `ReadNextSkipsNothing` and `RingImplementsLog` assume that the clock does not
  step back (`~ClockMayStepBack`), and need it: with a step back the loop restarts at the
  earliest packet in the middle of the window, and TLC finds both violated.  They add
  `ClockInv` (no slot is ahead of the latest packet) and `ReaderInv` (the slot of a reader
  holds its packet, or one a whole ring or more later).  The refinement maps `Write` to the log's
  write, a `ReadNext` that delivers to its delivery, and the rest to a stutter
  or a reposition.

### RingRaceProofs

`TypeCorrect` holds in every environment.  `PacketsAreWhole`, `ReadsGoForward` and
`GapsAreEvictions` hold for every size of ring under
`Calm == ~ClockTies /\ ~DataFirst /\ MaxBurst + 1 < MaxPackets`, which is what
section 3 calls the environment of `race`, and each part of which TLC shows to be
needed.  `RaceInv`: the slots hold the packets of the last writes in order up to
the one under way, whose header may be in place before its data (`WriteInv`); the
packet that was the latest when a call began stays in its slot throughout (`CallInv`);
the reader's slot holds its packet or one a ring later (`PlaceInv`); the loop is at the
packet after the reader's or that packet is lost (`LoopInv`); and nothing it
accepts lies between what it was given and where it stands, unless evicted, if the
call began in time (`GapInv`).  `GapsAreEvictions` says nothing of a reader that was
lapped before the call: it goes on in the middle of the window and passes over packets of it.

### RingFileProofs

`WindowIsRecovered`, `IndexIsRecovered`, `LastSaveIsRestored`, for any number of starts,
crashes, failed saves and late writes, from the ring's own lemmas.  `FileInv`: the ring in
memory is exact as long as nothing is amiss, and once the index file is written it
is the file that describes the slots (`MemoryInv`); what is being saved is the ring as
`Shutdown` found it (`SavingInv`); and a packet file that is whole holds that ring
unless a fault is recorded (`FilesInv`).

### ServerThreadsProofs

`TypeCorrect`, `ThreadsAreTracked`, `StateOnlyAdvances`, for every finite number of listeners
and clients.  `ThreadsInv` says which `State` a client's thread may find at each point
of its run, that a client is dispatched by one listener, and that only clients
with a thread are in the list.  That `ClientCount` stays a natural number needs
`CountBounded`: it never exceeds the clients dispatched, and what the
decrement has loaded is not zero, although it loses increments.

### MseedArchiveProofs

`TypeCorrect`, `QueueStaysBounded`, `NothingIsLeftBehind`, `EachInOnePlace`, for every
finite number of writers, any timers and every size of a batch.  `QueueInv`: every record in the queue
beyond a batch less one has a writer that is emptying it (`DrainBounded`); after
`Dispose` has emptied the queue only late records are in it (`FinalFlushDone`).
`PlaceInv`: hands, queue, batches, table and losses have no record in common and
none twice, and the records seen are `1 .. n`; so they add up to one place each.

### SeedLinkHistoryProofs

`TypeCorrect`, `SentOrderIsKept`, `HistoryIsComplete`, for every size of ring and page, every set of streams
and selection, any requested times and numbers.  The module takes an instance of `RingBufferProofs` and one of
`MseedArchiveProofs`, shows that their assumptions follow from `HistoryAssumption`, and
uses their step lemmas for every step of the ring and the archive.  `HistoryInv` is their invariants with

* `RecordOK`: the times in the ring are those recorded at each write, and have a bound;
* `SessionOK`: the queue holds rows of the table, the cursor behind a page is its
  last row, and before streaming nothing is queued, sent or promised;
* `QueueInOrder`: the queue is in the order of the times and behind what was sent;
* `PagesInOrder`: no row that was sent or is queued lies behind the last row of its page (by
  time and id, as the cursor sees it), but those tied with the last row of the first page
  (`Repeated`), so the next page starts where this one ends;
* `RingInOrder`: the reader stands behind the packets of the ring that were sent, and behind
  those of the rows that were, unless they came late or a burst was aborted;
* `Complete`: a row that was promised has been sent, or is one of the exempt ones, or is in the queue,
  or lies between the end of its page and the end of the query (`ToCome`).

The theorems make no assumption on the times of packets: ties and late packets
are in them, and what the code gets wrong about these is what the properties except.

### ClientSessionProofs

`TypeCorrect`, `CommandsAreInOrder`, `FinLosesNoCommand`, for every set of ports, every finite set
of lengths of a body (a byte in the code), every length of data, all line ends and every size of the buffer.
`SessionInv` is about `Stream`, the buffer, the wire and what is still to be sent, in this order.  The commands not yet
handled lie in it one behind the other (`Places`, `Begins`), the next one at a place
that follows from what the thread is doing (`NextAt`): at the front; before the front
by the header, the body and the data taken so far, while a handler waits in `RecvData`; or behind
the terminators left of the line before.  Receiving moves units within `Stream` and
consuming shifts all places, so each handler is shown to take exactly the units of
the next command.  `FinLosesNoCommand` needs besides that a client which waits has at
most one command under way, of which the buffer holds less than header and body
(`Waiting`): else the command would have been handled.

### MSeedScanProofs

`TypeCorrect`, `NothingIsPassedBy`, `WrittenOnlyOnce`, for every tree of directories, any
number of files, records and faults, every limit.  `SafeInv`: the call of
`ProcessFile` under way is on a file of the list, within its size, and has handed in
every record it has passed.  `OnceInv`, as long as no fault made the
scanner forget: a file of which a record was written is in the list, or in the state file while the thread is
down, with an offset behind that record (`Remembered`); and
every file visited in one scan is visited in the next, so `PruneFiles` drops none
(`Visits`, by the files that lie below each entry still to be read, at the level it is
read on, the leak of `recurlevel` included).

### Assumptions on constants

`ServerAssumption`, `ArchiveAssumption` and `SessionAssumption` take the sets of
threads, and of body lengths, for finite; without it counts of threads mean nothing.  `ScanAssumption`
says that "no state file" is not the contents of one.  `HistoryAssumption` is those of the ring and
the archive, and that an id whose low part is replaced (`SeqModulus`) is a `ulong` still.  The sets of streams, readers, packets and
files may be infinite, and the bounds of section 3 (`MaxWrites` and its like) are any
natural numbers.

### Only model-checked

* Liveness: `CatchesUp`, `ShutdownEnds`, `ClosesOnRequest`, `Written`, `HistoryEnds`,
  `EveryCommandHandled`, `EventuallyRead`.  They rest on fairness, whose ENABLED the prover does not handle.

No module declares a recursive operator; what the loops of the code compute is
stated as a set or a choice, so no induction over data is needed but one over
natural numbers (`ClientSessionProofs`, for the maximum of a finite set), which the
proof takes from the well-foundedness of the naturals.

## 5. What is not modelled

* Of the archive: the tables, partitions and retention, which are statements
  PostgreSQL executes; `WriteSync`, which nothing calls.
* Of SeedLink: `SELECT` (the selection is a constant), `INFO`, version 4 and
  authorization, the end of a time window in the ring, and sequence numbers on
  their way out.
* Of DataLink: `INFO`, and `MATCH` and `REJECT` beyond the data they receive; a
  reader's expressions are constants.
* Of HTTP: what a request returns, and the framing of a WebSocket.
* The auto-recovery of `Program.cs` after a failed `Initialize`, the
  limit of connections per address, re-reading the configuration.
* `Read`, `Position`, `After` and `AfterRev` interleaved with `Write`: they are
  atomic in `RingBuffer`.
* Parsing, logging, XML and text output; the red-black tree and the stack, which
  the models treat as a function and a set.
* The C program but for its scanner: its ring, threads and protocols are the
  design that is modelled here in the form of the port.  Its vendored libraries
  (libmseed, mbedtls, pcre2, miniz) and slinktool are the work of others; they
  are by far most of the lines of C in the repository.

## 6. Findings

1. *`lookup`* (code).  On a full ring, its normal state, no packet is found by its id,
   nor by a time and whence 0: the earliest offset and the end of the buffer are equal and the loop
   does not run (`RingBuffer.cs:1097`, `908`).  `Read` and `Position` answer that there is no such
   packet ("RINGID_NONE when not found", `RingBuffer.cs:600`, `840`).
2. *`no_threads`* (code).  `ClientCount--` beside an atomic increment loses a
   client; the shutdown is then taken for complete and the ring saved while that
   client writes.
3. *`handover`* (code).  After the history, `After` places the reader on the first
   packet that starts at the end of the last record or later, and `ReadNext` goes on behind it:
   one packet is passed over.  On a full ring `After` finds nothing, and all of
   the ring is passed over.
4. *`command`* (code).  A DataLink command that is shorter than an earlier one is
   read with the tail of that one; `STREAM` after a longer `ID` is an unknown
   command and ends the session.

Seen on the way, not the subject of a run:

*Ring and threads.*

* A reader that was lapped goes on at the slot after the one it remembers, in the
  middle of the window, and passes over packets that are still there.  If the writers are a whole
  number of rings ahead its slot is the latest one, and it is told there is no next
  packet while all of the ring is new until one more is written: not what
  "RINGID_NONE when no next packet" (`RingBuffer.cs:660`) says.  A comment of the C program (`ring.c:1016-1019`) speaks of a comparison with the
  remembered time, which neither program makes.
* A reader that asked for the earliest packet of an empty ring never starts once
  the ring has filled.
* With the data of a packet copied before its header, the re-check of `ReadNext`
  passes and returns an old header with new data (`DataFirst` of `RingRace`).
* A failed or half-done save of the stream index is not noticed by the next
  start; `IndexRecovered` speaks of files of one and the same shutdown.
* Two listeners admit a client each into the last place, of `MaxClients` as of
  the limit per address.
* `RecvData` makes the socket blocking and waits without a time limit
  (`DataLinkProtocol.cs:611-616`), as a send does: a peer that announces data and does not send it keeps
  its thread through every request to close.  The server ends without it.
* `ListenSocket!.Accept()` may meet a socket the watchdog has set to null, which
  ends the process without saving the ring (`ShutdownEnds` counts it as an end).
* A crash loses every packet since the start: the ring is never mapped to its file,
  `MemoryMapRing` or not.

*Sessions.*

* A DataLink client that sends a command before the one before it has been handled may find
  it lying in the buffer until more bytes arrive; if it closes instead, the
  command is lost.
* A command or line that does not fit into the receive buffer stops the session:
  nothing is received and nothing is handled.
* On a port of several protocols, SeedLink clients that begin with `STATION`,
  `CAT`, `END`, `BYE` or `ID` are taken for DataLink, and an HTTP request of which
  two bytes have arrived for SeedLink or DataLink.
* Header lines of an HTTP request are handled as requests of their own.

*SeedLink and archive.*

* `TIME` without `STATION` that finds nothing in the ring may leave the reader
  with an id that `ReadNext` refuses: the session is closed.  So does `DATA` with
  sequence number 1 before the first packet, whose predecessor is id 0.
* The first page is ordered by time alone, the next ones by time and id: of the rows that start
  with the last row of the first page, those with a smaller id that are not in it are never sent, and
  those with a greater id that are in it are sent again, although the
  comment says "NO record is ever skipped regardless of batch size" (`MseedArchive.cs:836-841`).
* A page that ends in the last instant of the query ends the history (`LastDbStartTime <
  DbQueryEndTime`, `SeedLinkProtocol.cs:456`): further rows of that instant are not fetched.
* A record without data aborts the burst; as the last of its page it ends the history
  there: no next page is fetched, and the reader stays where `END` or `TIME` placed it, so that
  the ring sends packets of the history again, or none of those between.
* A record that is not miniSEED is sent from the archive and skipped in the ring
  (`SeedLinkProtocol.cs:339-349`).
* The history for all stations is not filtered by the selection.
* A batch the database refuses is lost; so is a record handed in while `Dispose`
  runs.

*Scanner.*

* A record the ring refuses counts as read; the thread ends and is started again.
* The return with -2 skips `recurlevel--`: after enough such errors no directory
  is gone into until the process is restarted.
* "If no data has ever been read from this file" (`mseedscan.c:722`) looks at the
  offset at the start of the call: a file with whole records and the beginning of a header behind
  them is ignored for good at its first scan, its records written.
* A directory that cannot be read, or an entry whose `lstat` fails, makes
  `PruneFiles` forget the files: they are read again from the start.
* With `InitCurrentState` the size is taken as it is; within a record, nothing
  of that file is ever read.  The flag is reset after the first turn although
  the base directory could not be read.
* Without a state file each restart of the thread reads everything again; a crash
  repeats what was written since the last save.

## 7. Plan

Done: the ring, its files, its race, the threads, the archive, the SeedLink
session over both, the receiving side of every session, the scanner.

Proved: every safety and action property that a passing run checks.

To be proved next: that the session implements an abstract one, in which a client is
sent an increasing sequence of the packets written, and the archive a bag of records
each of which is in one place.

To be modelled if time remains: `UpdatePattern` as an operation of a reader;
auto-recovery in `RingFile`; retention beside the queries of the archive.
