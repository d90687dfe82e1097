------------------------------ MODULE MSeedScan ------------------------------
(***************************************************************************)
(* The miniSEED scanner of ringserver (src/mseedscan.c): a thread that     *)
(* goes through a directory again and again, reads what files have grown   *)
(* by, record by record, and writes it into the ring.  It remembers how    *)
(* far it has read in a list of files, which it saves in a state file, and *)
(* the watchdog (ringserver.c) starts it again when it has closed.         *)
(*                                                                         *)
(* Offsets count halves of records: a file of n records and a part of one  *)
(* more ends at 2n + 1.  Sizes only grow.  Left out: the match and reject  *)
(* expressions (Files are those that pass), quietsec and budlatency, which *)
(* nothing sets, and the rates.                                            *)
(***************************************************************************)
EXTENDS Integers, Sequences, FiniteSets

CONSTANTS
  Files, Dirs, Base,  \* files, directories, the base directory
  Listing,            \* the entries of a directory, sorted (EOpenDir)
  MaxRecords,         \* bound: records of a file
  FileMaxRecs,        \* records read from a file in one scan (100)
  IdleDelay,          \* scans from one look at an idle file to the next (60)
  MaxRecur,           \* levels below the base directory, -1: no limit
  MaxRecurDepth,      \* MSSCAN_MAXRECURDEPTH (256)
  InitCurrentState,   \* whether the first scan only takes note of the sizes
  MaxFaults,          \* bound: crashes, refused records, failed calls
  NoState, NoFile

ASSUME ScanAssumption ==
  /\ Base \in Dirs /\ Files \cap Dirs = {}
  /\ Listing \in [Dirs -> Seq(Files \cup Dirs)]
  /\ MaxRecords \in Nat /\ MaxRecur \in Int
  /\ FileMaxRecs \in Nat \ {0} /\ IdleDelay \in Nat /\ MaxRecurDepth \in Nat
  /\ \A known \in SUBSET Files : NoState \notin [known -> Int]

VARIABLES
  file,       \* file[f]: its whole records, and what follows them
  filetree,   \* FileNode of the files in the list
  statefile,  \* what the state file holds of them
  up,         \* whether the process runs
  thread,     \* "closed", at the top of its "loop", in a "scan", or at its "exit"
  path,       \* entries still to visit: of the directory being read, of its parent, ...
  reading,    \* ProcessFile under way: the file, its size, how far it got
  recurlevel, nextnew, shutdownsig,
  fate,       \* history: fate[f][n]: what became of the n-th record of f
  faults,     \* faults so far
  amiss       \* history: a crash, or a call that failed where it need not

vars == <<file, filetree, statefile, up, thread, path, reading, recurlevel,
          nextnew, shutdownsig, fate, faults, amiss>>

FileNode == [offset : -1 .. 2 * MaxRecords + 1, idledelay : 0 .. IdleDelay,
             scantime : {"never", "before", "now"}]

Size(f) == 2 * file[f].whole + (IF file[f].tail = "none" THEN 0 ELSE 1)

NotReading == [file |-> NoFile, size |-> 0, offset |-> 0, reccnt |-> 0]

Fault == faults < MaxFaults /\ faults' = faults + 1

-----------------------------------------------------------------------------
(* Programs that write the files: external.                                *)

\* The next record grows: a header too short to tell its length, a part whose
\* length can be told, the whole.
Grow(f) ==
  /\ file[f].whole < MaxRecords
  /\ file' = [file EXCEPT ![f] =
       IF @.tail = "part" THEN [whole |-> @.whole + 1, tail |-> "none"]
       ELSE [whole |-> @.whole, tail |-> IF @.tail = "none" THEN "head" ELSE "part"]]
  /\ UNCHANGED <<filetree, statefile, up, thread, path, reading, recurlevel,
                 nextnew, shutdownsig, fate, faults, amiss>>

-----------------------------------------------------------------------------
(* State file                                                              *)

\* SaveState: a temporary file takes the place of the old one, or an error
\* leaves the old one there.
SaveState(tree) ==
  \/ statefile' = [f \in DOMAIN tree |-> tree[f].offset] /\ UNCHANGED <<faults, amiss>>
  \/ Fault /\ amiss' = TRUE /\ UNCHANGED statefile

\* RecoverState.
Recovered ==
  IF statefile = NoState THEN <<>>
  ELSE [f \in DOMAIN statefile |->
          [offset |-> statefile[f], idledelay |-> 0, scantime |-> "never"]]

-----------------------------------------------------------------------------
(* MS_ScanThread                                                           *)

\* The watchdog starts the thread; mssinfo is that of the thread before.
StartThread ==
  /\ up /\ thread = "closed" /\ ~shutdownsig
  /\ thread' = "loop"
  /\ filetree' = Recovered
  /\ UNCHANGED <<file, statefile, up, path, reading, recurlevel, nextnew,
                 shutdownsig, fate, faults, amiss>>

\* A scan begins, in the same second as the one before or later.
BeginScan ==
  /\ thread = "loop" /\ ~shutdownsig
  /\ thread' = "scan"
  /\ filetree' \in {filetree,
                    [f \in DOMAIN filetree |-> [filetree[f] EXCEPT !.scantime =
                       IF @ = "never" THEN @ ELSE "before"]]}
  /\ \/ path' = <<Listing[Base]>> /\ UNCHANGED <<faults, amiss>>
     \/ Fault /\ amiss' = TRUE /\ path' = <<>>      \* no access
  /\ UNCHANGED <<file, statefile, up, reading, recurlevel, nextnew, shutdownsig, fate>>

\* The files PruneFiles leaves in the list.
Kept == {f \in DOMAIN filetree : filetree[f].scantime # "before"}

\* All directories are done, and no error was fatal.
EndScan ==
  /\ thread = "scan" /\ path = <<>> /\ ~shutdownsig
  /\ thread' = "loop"
  /\ filetree' = [f \in Kept |-> filetree[f]]
  /\ \/ SaveState(filetree')                        \* stateint has passed
     \/ UNCHANGED <<statefile, faults, amiss>>
  /\ nextnew' = FALSE
  /\ UNCHANGED <<file, up, path, reading, recurlevel, shutdownsig, fate>>

\* A shutdown ends the loop.
LeaveLoop ==
  /\ shutdownsig
  /\ thread = "loop" \/ (thread = "scan" /\ path = <<>>)
  /\ thread' = "exit"
  /\ UNCHANGED <<file, filetree, statefile, up, path, reading, recurlevel,
                 nextnew, shutdownsig, fate, faults, amiss>>

\* The end of the thread.
Exit ==
  /\ thread = "exit"
  /\ SaveState(filetree)
  /\ thread' = "closed"
  /\ UNCHANGED <<file, filetree, up, path, reading, recurlevel, nextnew,
                 shutdownsig, fate>>

-----------------------------------------------------------------------------
(* ScanFiles: one entry of the directory that is being read                *)

Known(f) == f \in DOMAIN filetree

SetNode(f, node) ==
  filetree' = [g \in DOMAIN filetree \cup {f} |-> IF g = f THEN node ELSE filetree[g]]

\* x is taken from the listing.
Take(x) ==
  /\ thread = "scan" /\ ~shutdownsig /\ reading = NotReading
  /\ path # <<>> /\ Head(path) # <<>> /\ x = Head(Head(path))

OneDone == <<Tail(Head(path))>> \o Tail(path)

\* Mutation of IdleNext: the delay is not counted down.
IdleNextSame(n) == n

IdleNext(n) == n - 1

\* Skipped for good, or not due for a look.
Skip(f) ==
  /\ Take(f) /\ Known(f) /\ (filetree[f].offset = -1 \/ filetree[f].idledelay > 0)
  /\ path' = OneDone
  /\ SetNode(f, [filetree[f] EXCEPT !.scantime = "now",
                   !.idledelay = IF filetree[f].offset = -1 THEN @ ELSE IdleNext(@)])
  /\ UNCHANGED <<file, statefile, up, thread, reading, recurlevel, nextnew,
                 shutdownsig, fate, faults, amiss>>

\* lstat fails: the entry is passed over, and its scan time is not set.
StatFails(f) ==
  /\ Take(f) /\ Fault /\ amiss' = TRUE
  /\ path' = OneDone
  /\ UNCHANGED <<file, filetree, statefile, up, thread, reading, recurlevel,
                 nextnew, shutdownsig, fate>>

\* A file that is regular and due: it is added, marked, and read if it has grown.
Check(f) ==
  /\ Take(f)
  /\ Known(f) => filetree[f].offset # -1 /\ filetree[f].idledelay = 0
  /\ \E idle \in BOOLEAN :          \* not modified for idlesec seconds
       LET old  == IF Known(f) THEN filetree[f]
                   ELSE [offset |-> 0, idledelay |-> 0, scantime |-> "never"]
           node == [old EXCEPT !.offset = IF nextnew THEN Size(f) ELSE @,
                               !.idledelay = IF idle /\ IdleDelay > 0 THEN IdleDelay - 1 ELSE @]
       IN IF node.offset < Size(f)
          THEN /\ SetNode(f, node)
               /\ reading' = [file |-> f, size |-> Size(f), offset |-> node.offset, reccnt |-> 0]
               /\ UNCHANGED path
          ELSE /\ SetNode(f, [node EXCEPT !.scantime = "now"])
               /\ path' = OneDone
               /\ UNCHANGED reading
  /\ fate' = IF nextnew
             THEN [fate EXCEPT ![f] = [n \in 1 .. MaxRecords |->
                     IF @[n] = "none" /\ 2 * n <= Size(f) + 1 THEN "passed" ELSE @[n]]]
             ELSE fate
  /\ UNCHANGED <<file, statefile, up, thread, recurlevel, nextnew, shutdownsig,
                 faults, amiss>>

\* A directory is gone into, unless it is too deep, or cannot be read.
Enter(d) ==
  /\ Take(d) /\ d \in Dirs
  /\ IF (MaxRecur < 0 \/ recurlevel < MaxRecur) /\ recurlevel < MaxRecurDepth
     THEN \/ /\ path' = <<Listing[d]>> \o OneDone
             /\ recurlevel' = recurlevel + 1
             /\ UNCHANGED <<faults, amiss>>
          \/ /\ Fault /\ amiss' = TRUE
             /\ path' = OneDone /\ UNCHANGED recurlevel
     ELSE path' = OneDone /\ UNCHANGED <<recurlevel, faults, amiss>>
  /\ UNCHANGED <<file, filetree, statefile, up, thread, reading, nextnew,
                 shutdownsig, fate>>

\* The directory is done, or the server is to shut down.
Leave ==
  /\ thread = "scan" /\ reading = NotReading /\ path # <<>>
  /\ Head(path) = <<>> \/ shutdownsig
  /\ path' = Tail(path)
  /\ recurlevel' = IF Tail(path) = <<>> THEN recurlevel ELSE recurlevel - 1
  /\ UNCHANGED <<file, filetree, statefile, up, thread, reading, nextnew,
                 shutdownsig, fate, faults, amiss>>

-----------------------------------------------------------------------------
(* ProcessFile, record by record                                           *)

\* ProcessFile returns the offset at which the next scan goes on, or -1.
Return(offset) ==
  /\ SetNode(reading.file, [filetree[reading.file] EXCEPT !.offset = offset,
                                                          !.scantime = "now"])
  /\ path' = OneDone
  /\ reading' = NotReading

Undetected ==
  \/ reading.offset % 2 = 1
  \/ reading.offset = 2 * file[reading.file].whole /\ file[reading.file].tail = "head"

\* Mutation of Stop: a part of a record counts as read.
StopAtEnd == IF Undetected /\ filetree[reading.file].offset = 0 THEN -1 ELSE reading.size

\* Where ProcessFile stops that has read all it can: no miniSEED at the first
\* offset of a file it had not begun when it was called makes it ignore the file.
Stop == IF Undetected /\ filetree[reading.file].offset = 0 THEN -1 ELSE reading.offset

MayRead == reading # NotReading /\ reading.offset < reading.size
           /\ reading.reccnt < FileMaxRecs

WholeRecord == MayRead /\ ~Undetected /\ reading.offset + 2 <= reading.size

\* At the end of the size seen, at filemaxrecs, or at data that is no record yet.
FileDone ==
  /\ reading # NotReading /\ ~WholeRecord
  /\ Return(IF MayRead THEN Stop ELSE reading.offset)
  /\ UNCHANGED <<file, statefile, up, thread, recurlevel, nextnew, shutdownsig,
                 fate, faults, amiss>>

\* open or pread fails, or a record is too long for a packet: the file is ignored.
ReadFails ==
  /\ reading # NotReading /\ Fault /\ amiss' = TRUE
  /\ Return(-1)
  /\ UNCHANGED <<file, statefile, up, thread, recurlevel, nextnew, shutdownsig, fate>>

Becomes(what) ==
  fate' = [fate EXCEPT ![reading.file][reading.offset \div 2 + 1] = what]

WriteRecord ==
  /\ WholeRecord
  /\ Becomes(IF fate[reading.file][reading.offset \div 2 + 1] \in {"written", "twice"}
             THEN "twice" ELSE "written")
  /\ reading' = [reading EXCEPT !.offset = @ + 2, !.reccnt = @ + 1]
  /\ UNCHANGED <<file, filetree, statefile, up, thread, path, recurlevel,
                 nextnew, shutdownsig, faults, amiss>>

\* Mutation of FatalOffset: the offset is that of the call.
FatalOffsetOld == filetree[reading.file].offset

\* Mutation of FatalOffset: it stays negated.
FatalOffsetNegated == -(reading.offset + 2)

\* A record that is refused counts as read.
FatalOffset == reading.offset + 2

\* The record cannot be parsed or the ring does not take it; a corrupt ring ends
\* the server.  All levels of ScanFiles return at once.
WriteFails ==
  /\ WholeRecord /\ Fault
  /\ Becomes(IF fate[reading.file][reading.offset \div 2 + 1] = "none" THEN "refused"
             ELSE fate[reading.file][reading.offset \div 2 + 1])
  /\ SetNode(reading.file, [filetree[reading.file] EXCEPT !.offset = FatalOffset])
  /\ thread' = "exit" /\ path' = <<>> /\ reading' = NotReading
  /\ shutdownsig' \in {shutdownsig, TRUE}
  /\ UNCHANGED <<file, statefile, up, recurlevel, nextnew, amiss>>

-----------------------------------------------------------------------------
(* The process                                                             *)

\* AddMSeedScanThread, with which a process begins.
Boot ==
  /\ ~up
  /\ up' = TRUE /\ shutdownsig' = FALSE /\ recurlevel' = 0
  /\ nextnew' = (InitCurrentState /\ statefile = NoState)
  /\ UNCHANGED <<file, filetree, statefile, thread, path, reading, fate, faults, amiss>>

Shutdown ==
  /\ up /\ ~shutdownsig
  /\ shutdownsig' = TRUE
  /\ UNCHANGED <<file, filetree, statefile, up, thread, path, reading, recurlevel,
                 nextnew, fate, faults, amiss>>

Down ==
  /\ up' = FALSE /\ thread' = "closed" /\ path' = <<>> /\ reading' = NotReading
  /\ filetree' = <<>>
  /\ UNCHANGED <<file, statefile, recurlevel, nextnew, shutdownsig, fate>>

ProcessEnds == up /\ shutdownsig /\ thread = "closed" /\ Down /\ UNCHANGED <<faults, amiss>>

Crash == up /\ Fault /\ amiss' = TRUE /\ Down

-----------------------------------------------------------------------------
Init ==
  /\ file = [f \in Files |-> [whole |-> 0, tail |-> "none"]]
  /\ filetree = <<>> /\ statefile = NoState
  /\ up = FALSE /\ thread = "closed" /\ path = <<>> /\ reading = NotReading
  /\ recurlevel = 0 /\ nextnew = FALSE /\ shutdownsig = FALSE
  /\ fate = [f \in Files |-> [n \in 1 .. MaxRecords |-> "none"]]
  /\ faults = 0 /\ amiss = FALSE

ScanFiles ==
  \/ \E f \in Files : Skip(f) \/ StatFails(f) \/ Check(f)
  \/ \E d \in Dirs : Enter(d)
  \/ Leave

ProcessFile == FileDone \/ ReadFails \/ WriteRecord \/ WriteFails

ScanThread == StartThread \/ BeginScan \/ EndScan \/ LeaveLoop \/ Exit
              \/ ScanFiles \/ ProcessFile

Next == (\E f \in Files : Grow(f)) \/ ScanThread \/ Boot \/ Shutdown \/ ProcessEnds \/ Crash

\* The thread runs, and the watchdog starts it; nobody has to start the process.
Spec == Init /\ [][Next]_vars /\ WF_vars(ScanThread)

-----------------------------------------------------------------------------
(* Properties                                                              *)

TypeOK ==
  /\ file \in [Files -> [whole : 0 .. MaxRecords, tail : {"none", "head", "part"}]]
  /\ DOMAIN filetree \subseteq Files /\ filetree \in [DOMAIN filetree -> FileNode]
  /\ statefile # NoState =>
       /\ DOMAIN statefile \subseteq Files
       /\ \A f \in DOMAIN statefile : statefile[f] \in -1 .. Size(f)
  /\ recurlevel \in 0 .. MaxRecurDepth
  /\ reading # NotReading => thread = "scan" /\ reading.file = Head(Head(path))
  /\ fate \in [Files -> [1 .. MaxRecords -> {"none", "written", "twice", "refused", "passed"}]]

Unread(f, offset) == \E n \in 1 .. MaxRecords : 2 * n <= offset /\ fate[f][n] = "none"

\* However the thread and the process end, and whatever a file looks like while it
\* grows, the scanner never goes on, now or from its state file, behind a record
\* that was neither written to the ring nor refused by it (newoffset, SaveState).
NothingPassedBy ==
  /\ \A f \in DOMAIN filetree : ~Unread(f, filetree[f].offset)
  /\ statefile # NoState => \A f \in DOMAIN statefile : ~Unread(f, statefile[f])

\* A record is written once, also if the thread ends in an error and is started
\* again or the server is shut down and started again, unless a crash, an
\* unsaved state or an unreadable entry made the scanner forget the file.
WrittenOnce ==
  ~amiss => \A f \in Files, n \in 1 .. MaxRecords : fate[f][n] # "twice"

\* A record that is whole is dealt with in the end, as long as the process lives,
\* its file is not ignored nor read from the middle of a record, and fatal errors
\* have not left recurlevel at its limit.
EventuallyRead ==
  \A f \in Files, n \in 1 .. MaxRecords :
    file[f].whole >= n ~>
      \/ fate[f][n] # "none"
      \/ ~up \/ shutdownsig
      \/ f \in DOMAIN filetree /\ (filetree[f].offset = -1 \/ filetree[f].offset % 2 = 1)
      \/ recurlevel = MaxRecurDepth /\ thread = "loop"
=============================================================================
