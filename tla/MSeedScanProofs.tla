--------------------------- MODULE MSeedScanProofs ---------------------------
(***************************************************************************)
(* Theorems about MSeedScan, for every tree of directories, every number   *)
(* of files, records and faults, and every limit of the scanner.           *)
(***************************************************************************)
EXTENDS MSeedScan, SequenceTheorems, TLAPS

-----------------------------------------------------------------------------
(* What the scanner is about to visit                                      *)

Entries == Files \cup Dirs

\* Whether ScanFiles goes into a directory that it finds on this level.
MayDescend(level) == (MaxRecur < 0 \/ level < MaxRecur) /\ level < MaxRecurDepth

\* s is a way down the tree that begins on a level.
Way(s, m, level) ==
  \A i \in 1 .. m - 1 : /\ s[i] \in Dirs /\ MayDescend(level + i - 1)
                        /\ \E j \in DOMAIN Listing[s[i]] : s[i + 1] = Listing[s[i]][j]

\* The files a scan comes to that finds the entry x on a level.
Below(x, level) ==
  {f \in Files : \E m \in Nat \ {0} : \E s \in [1 .. m -> Entries] :
                   s[1] = x /\ s[m] = f /\ Way(s, m, level)}

\* The files of a scan whose base directory is on a level.
Visible(level) == UNION {Below(Listing[Base][j], level) : j \in DOMAIN Listing[Base]}

\* The level of the i-th of the directories that are being read.
Level(i) == recurlevel - (i - 1)

BaseLevel == IF path = <<>> THEN recurlevel ELSE Level(Len(path))

\* The files the scan under way has still to come to.
Remaining ==
  UNION {UNION {Below(path[i][j], Level(i)) : j \in DOMAIN path[i]} : i \in DOMAIN path}

-----------------------------------------------------------------------------
(* The inductive invariant                                                 *)

\* Every level of ScanFiles is counted in recurlevel; levels that a fatal error
\* has left stay counted.
PathOK ==
  /\ thread \in {"closed", "loop", "scan", "exit"}
  /\ path \in Seq(Seq(Entries))
  /\ path # <<>> => thread = "scan" /\ recurlevel >= Len(path) - 1
  /\ ~up => thread = "closed"

\* A file is read that is in the list, and no further than it reached.
ReadingOK ==
  reading # NotReading =>
    /\ reading \in [file : Files, size : Nat, offset : Nat, reccnt : Nat]
    /\ path # <<>> /\ Head(path) # <<>>
    /\ reading.file \in DOMAIN filetree
    /\ reading.offset <= reading.size /\ reading.size <= Size(reading.file)
    /\ ~Unread(reading.file, reading.offset)

OffsetsOK == \A f \in DOMAIN filetree : filetree[f].offset <= Size(f)

SafeInv == TypeOK /\ PathOK /\ ReadingOK /\ OffsetsOK /\ NothingPassedBy

\* Where the scanner goes on in a file of its list.
Offset(f) ==
  IF reading # NotReading /\ reading.file = f THEN reading.offset ELSE filetree[f].offset

Behind(f, offset) ==
  offset = -1 \/ \A n \in 1 .. MaxRecords : fate[f][n] = "written" => 2 * n <= offset

Begun(f) == \E n \in 1 .. MaxRecords : fate[f][n] = "written"

\* No file of which a record was written is forgotten, and the scanner is behind
\* all records it has written.
Remembered ==
  \A f \in Files : Begun(f) =>
    IF thread = "closed"
    THEN statefile # NoState /\ f \in DOMAIN statefile /\ Behind(f, statefile[f])
    ELSE f \in DOMAIN filetree /\ Behind(f, Offset(f))

\* What was visited in one scan is visited in the next: PruneFiles finds nothing.
Visits ==
  /\ Remaining \subseteq Visible(BaseLevel)
  /\ thread \in {"loop", "scan"} =>
       \A f \in DOMAIN filetree : filetree[f].scantime # "never" => f \in Visible(BaseLevel)
  /\ thread = "scan" /\ ~shutdownsig =>
       \A f \in DOMAIN filetree : filetree[f].scantime = "before" => f \in Remaining

OnceInv == ~amiss => WrittenOnce /\ Remembered /\ Visits

-----------------------------------------------------------------------------
(* The path of directories                                                 *)

LEMMA Pushed ==
  ASSUME NEW S, NEW a \in S, NEW s \in Seq(S)
  PROVE  /\ <<a>> \o s \in Seq(S) /\ <<a>> \o s # <<>>
         /\ Len(<<a>> \o s) = Len(s) + 1
         /\ (<<a>> \o s)[1] = a
         /\ \A i \in 1 .. Len(s) : (<<a>> \o s)[i + 1] = s[i]
OBVIOUS

LEMMA Popped ==
  ASSUME NEW S, NEW s \in Seq(S), s # <<>>
  PROVE  /\ Head(s) \in S /\ Head(s) = s[1] /\ Tail(s) \in Seq(S)
         /\ Len(s) \in Nat \ {0} /\ Len(Tail(s)) = Len(s) - 1
         /\ \A i \in 1 .. Len(s) - 1 : Tail(s)[i] = s[i + 1]
OBVIOUS

LEMMA OneDoneIs ==
  ASSUME path \in Seq(Seq(Entries)), path # <<>>, Head(path) # <<>>
  PROVE  /\ OneDone \in Seq(Seq(Entries)) /\ OneDone # <<>> /\ Len(OneDone) = Len(path)
         /\ OneDone[1] = Tail(Head(path))
         /\ \A i \in 2 .. Len(path) : OneDone[i] = path[i]
<1>1. Head(path) \in Seq(Entries) /\ Tail(path) \in Seq(Seq(Entries)) /\ Tail(Head(path)) \in Seq(Entries)
  BY Popped
<1>2. /\ OneDone \in Seq(Seq(Entries)) /\ OneDone # <<>> /\ Len(OneDone) = Len(Tail(path)) + 1
      /\ OneDone[1] = Tail(Head(path))
      /\ \A i \in 1 .. Len(Tail(path)) : OneDone[i + 1] = Tail(path)[i]
  BY <1>1, Pushed DEF OneDone
<1>3. ASSUME NEW i \in 2 .. Len(path) PROVE OneDone[i] = path[i]
  <2>1. i - 1 \in 1 .. Len(path) - 1 /\ (i - 1) + 1 = i /\ Len(Tail(path)) = Len(path) - 1
    BY Popped
  <2>2. OneDone[(i - 1) + 1] = Tail(path)[i - 1]
    BY <1>2, <2>1
  <2>3. Tail(path)[i - 1] = path[(i - 1) + 1]
    BY <2>1, Popped
  <2> QED
    BY <2>1, <2>2, <2>3
<1> QED
  BY <1>2, <1>3, Popped

\* An entry that is taken is the first of the directory being read.
LEMMA Taken ==
  ASSUME PathOK, NEW x, Take(x)
  PROVE  /\ path # <<>> /\ Head(path) # <<>> /\ reading = NotReading /\ thread = "scan"
         /\ x = path[1][1] /\ 1 \in DOMAIN path /\ 1 \in DOMAIN path[1] /\ x \in Entries
BY Popped DEF PathOK, Take

-----------------------------------------------------------------------------
(* Sizes and the fate of records                                           *)

LEMMA SizeType ==
  ASSUME TypeOK, NEW f \in Files
  PROVE  /\ Size(f) \in 0 .. 2 * MaxRecords + 1
         /\ file[f].whole \in 0 .. MaxRecords
BY ScanAssumption DEF TypeOK, Size, ScanAssumption

\* Files only grow.
LEMMA Grown ==
  ASSUME TypeOK, NEW f \in Files, Next
  PROVE  /\ file' \in [Files -> [whole : 0 .. MaxRecords, tail : {"none", "head", "part"}]]
         /\ Size(f)' \in Nat /\ Size(f) \in Nat /\ Size(f) <= Size(f)'
<1>1. CASE UNCHANGED file
  BY <1>1, SizeType DEF Size, TypeOK
<1>2. ASSUME NEW g \in Files, Grow(g)
      PROVE  /\ file' \in [Files -> [whole : 0 .. MaxRecords, tail : {"none", "head", "part"}]]
             /\ Size(f)' \in Nat /\ Size(f) \in Nat /\ Size(f) <= Size(f)'
  <2> USE ScanAssumption DEF ScanAssumption, TypeOK
  <2> DEFINE Record == [whole : 0 .. MaxRecords, tail : {"none", "head", "part"}]
  <2>0. file[g] \in Record /\ file[g].whole + 1 \in 0 .. MaxRecords
    BY <1>2 DEF Grow
  <2>1. file' = [file EXCEPT ![g] = file'[g]]
        /\ \/ file'[g] = [whole |-> file[g].whole + 1, tail |-> "none"]
           \/ file'[g] \in {[whole |-> file[g].whole, tail |-> "head"],
                           [whole |-> file[g].whole, tail |-> "part"]}
    BY <1>2 DEF Grow
  <2>2. /\ file'[g] \in Record
        /\ \/ file'[g].whole = file[g].whole + 1
           \/ file'[g].whole = file[g].whole /\ file'[g].tail # "none"
    BY <2>0, <2>1
  <2>3. file' \in [Files -> Record]
    BY <2>1, <2>2
  <2>4. Size(f)' \in Nat /\ Size(f) <= Size(f)'
    <3>1. CASE f = g
      BY <2>0, <2>2, <3>1 DEF Size
    <3>2. CASE f # g
      BY <2>1, <3>2, SizeType DEF Size
    <3> QED
      BY <3>1, <3>2
  <2> QED
    BY <2>3, <2>4, SizeType
<1> QED
  BY <1>1, <1>2 DEF Next, ScanThread, StartThread, BeginScan, EndScan, LeaveLoop, Exit, ScanFiles,
     ProcessFile, Skip, StatFails, Check, Enter, Leave, FileDone, ReadFails, WriteRecord, WriteFails,
     Boot, Shutdown, ProcessEnds, Crash, Down

\* The number of the record at an offset.
Record(offset) == offset \div 2 + 1

\* A whole record that is read is one of the file, the first behind the offset.
LEMMA NextRecord ==
  ASSUME TypeOK, ReadingOK, WholeRecord
  PROVE  /\ reading \in [file : Files, size : Nat, offset : Nat, reccnt : Nat]
         /\ Record(reading.offset) \in 1 .. MaxRecords
         /\ 2 * Record(reading.offset) = reading.offset + 2
         /\ reading.offset + 2 <= Size(reading.file)
<1> USE DEF WholeRecord, MayRead
<1>1. /\ reading \in [file : Files, size : Nat, offset : Nat, reccnt : Nat]
      /\ reading.offset + 2 <= reading.size /\ reading.size <= Size(reading.file)
  BY DEF ReadingOK
<1>2. reading.offset \in Nat /\ reading.file \in Files /\ reading.offset % 2 = 0
  BY <1>1 DEF Undetected
<1>3. reading.offset + 2 <= Size(reading.file) /\ Size(reading.file) \in 0 .. 2 * MaxRecords + 1
  BY <1>1, <1>2, SizeType
<1>4. PICK h \in Nat : reading.offset = 2 * h /\ reading.offset \div 2 = h
  BY <1>2
<1> QED
  BY <1>1, <1>2, <1>3, <1>4, ScanAssumption DEF ScanAssumption, Record

\* Nothing undoes what became of a record.
LEMMA FateStep ==
  ASSUME TypeOK, ReadingOK, Next, NEW f \in Files
  PROVE  /\ fate' \in [Files -> [1 .. MaxRecords -> {"none", "written", "twice", "refused", "passed"}]]
         /\ \A n \in 1 .. MaxRecords : fate'[f][n] = "none" => fate[f][n] = "none"
<1> USE DEF TypeOK
<1>1. CASE UNCHANGED fate
  BY <1>1
<1>2. ASSUME NEW g \in Files, Check(g) 
      PROVE  /\ fate' \in [Files -> [1 .. MaxRecords -> {"none", "written", "twice", "refused", "passed"}]]
             /\ \A n \in 1 .. MaxRecords : fate'[f][n] = "none" => fate[f][n] = "none"
  BY <1>2 DEF Check
<1>3. CASE WriteRecord \/ WriteFails
  <2>1. PICK what \in {"written", "twice", "refused", "passed"} :
          fate' = [fate EXCEPT ![reading.file][Record(reading.offset)] = what]
    <3>1. fate[reading.file][Record(reading.offset)] \in {"none", "written", "twice", "refused", "passed"}
      BY <1>3, NextRecord DEF WriteRecord, WriteFails
    <3>2. CASE WriteRecord
      BY <3>2 DEF WriteRecord, Becomes, Record
    <3>3. CASE WriteFails
      BY <3>1, <3>3 DEF WriteFails, Becomes, Record
    <3> QED
      BY <1>3, <3>2, <3>3
  <2> QED
    BY <2>1
<1> QED
  BY <1>1, <1>2, <1>3 DEF Next, ScanThread, StartThread, BeginScan, EndScan, LeaveLoop, Exit, ScanFiles,
     ProcessFile, Skip, StatFails, Enter, Leave, FileDone, ReadFails, Grow,
     Boot, Shutdown, ProcessEnds, Crash, Down

\* After the step no record before the offset is unread.
NoneUnreadAfter(f, offset) ==
  \A n \in 1 .. MaxRecords : 2 * n <= offset => fate'[f][n] # "none"

LEMMA UnreadStep ==
  ASSUME TypeOK, ReadingOK, Next, NEW f \in Files, NEW offset, ~Unread(f, offset)
  PROVE  NoneUnreadAfter(f, offset)
BY FateStep DEF Unread, NoneUnreadAfter

-----------------------------------------------------------------------------
(* Where the scanner is                                                    *)

\* What a change of the list leaves to show when the offset of one node is set.
LEMMA SetNodeStep ==
  ASSUME SafeInv, Next, NEW f \in Files, NEW node \in FileNode, SetNode(f, node),
         node.offset <= Size(f), NoneUnreadAfter(f, node.offset)
  PROVE  /\ DOMAIN filetree' = DOMAIN filetree \cup {f}
         /\ DOMAIN filetree' \subseteq Files /\ filetree' \in [DOMAIN filetree' -> FileNode]
         /\ OffsetsOK' /\ \A g \in DOMAIN filetree' : ~Unread(g, filetree[g].offset)'
<1> USE DEF SafeInv, SetNode
<1>1. /\ DOMAIN filetree' = DOMAIN filetree \cup {f}
      /\ DOMAIN filetree' \subseteq Files /\ filetree' \in [DOMAIN filetree' -> FileNode]
  BY DEF TypeOK
<1>2. \A g \in DOMAIN filetree' : filetree'[g] = IF g = f THEN node ELSE filetree[g]
  OBVIOUS
<1>3. ASSUME NEW g \in DOMAIN filetree' PROVE filetree'[g].offset <= Size(g)
  BY <1>1, <1>2 DEF OffsetsOK
<1>4. ASSUME NEW g \in DOMAIN filetree' 
      PROVE  filetree'[g].offset <= Size(g)'
  <2>1. g \in Files /\ filetree'[g].offset \in Int
    BY <1>1 DEF FileNode
  <2> QED
    BY <1>3, <2>1, Grown
<1>5. ASSUME NEW g \in DOMAIN filetree' PROVE ~Unread(g, filetree[g].offset)'
  <2>1. CASE g = f
    BY <1>2, <2>1 DEF Unread, NoneUnreadAfter
  <2>2. CASE g # f
    <3>1. g \in Files /\ ~Unread(g, filetree[g].offset) /\ filetree'[g] = filetree[g]
      BY <1>1, <1>2, <2>2 DEF NothingPassedBy
    <3> QED
      BY <3>1, UnreadStep DEF Unread, NoneUnreadAfter
  <2> QED
    BY <2>1, <2>2
<1> QED
  BY <1>1, <1>4, <1>5 DEF OffsetsOK

\* ... and when none is.
LEMMA SameTreeStep ==
  ASSUME SafeInv, Next, DOMAIN filetree' \subseteq DOMAIN filetree,
         filetree' \in [DOMAIN filetree' -> FileNode],
         \A f \in DOMAIN filetree' : filetree'[f].offset = filetree[f].offset
  PROVE  OffsetsOK' /\ \A g \in DOMAIN filetree' : ~Unread(g, filetree[g].offset)'
<1> USE DEF SafeInv
<1>1. ASSUME NEW g \in DOMAIN filetree' PROVE filetree'[g].offset <= Size(g)'
  <2>1. g \in Files /\ filetree'[g].offset \in Int /\ filetree[g].offset <= Size(g)
    BY DEF FileNode, TypeOK, OffsetsOK
  <2> QED
    BY <2>1, Grown
<1>2. ASSUME NEW g \in DOMAIN filetree' PROVE ~Unread(g, filetree[g].offset)'
  <2>1. ~Unread(g, filetree[g].offset) /\ g \in Files
    BY DEF NothingPassedBy, TypeOK
  <2> QED
    BY <2>1, UnreadStep DEF Unread, NoneUnreadAfter
<1> QED
  BY <1>1, <1>2 DEF OffsetsOK

\* The list stays well-formed and the scanner in front of no record unread.
TreeOK ==
  /\ DOMAIN filetree \subseteq Files /\ filetree \in [DOMAIN filetree -> FileNode]
  /\ OffsetsOK
  /\ \A f \in DOMAIN filetree : ~Unread(f, filetree[f].offset)

StateFileOK ==
  statefile # NoState =>
    /\ DOMAIN statefile \subseteq Files
    /\ \A f \in DOMAIN statefile : statefile[f] \in -1 .. Size(f) /\ ~Unread(f, statefile[f])

LEMMA TreeStep ==
  ASSUME SafeInv, Next
  PROVE  TreeOK'
<1> USE ScanAssumption DEF SafeInv, ScanAssumption
<1>1. CASE UNCHANGED filetree
  BY <1>1, SameTreeStep DEF TreeOK, TypeOK
<1>2. ASSUME filetree' = <<>> PROVE TreeOK'
  BY <1>2 DEF TreeOK, OffsetsOK
<1>3. CASE StartThread
  <2>1. CASE statefile = NoState
    BY <1>2, <1>3, <2>1 DEF StartThread, Recovered
  <2>2. CASE statefile # NoState
    <3>1. /\ filetree' = [f \in DOMAIN statefile |->
                            [offset |-> statefile[f], idledelay |-> 0, scantime |-> "never"]]
          /\ UNCHANGED file /\ UNCHANGED fate
      BY <1>3, <2>2 DEF StartThread, Recovered
    <3>2. ASSUME NEW f \in DOMAIN statefile
          PROVE  /\ f \in Files /\ statefile[f] \in -1 .. 2 * MaxRecords + 1
                 /\ statefile[f] <= Size(f) /\ ~Unread(f, statefile[f])
      BY <2>2, SizeType, ScanAssumption DEF TypeOK, NothingPassedBy, ScanAssumption
    <3>3. DOMAIN filetree' = DOMAIN statefile /\ DOMAIN filetree' \subseteq Files
      BY <3>1, <3>2
    <3>4. filetree' \in [DOMAIN filetree' -> FileNode]
      BY <3>1, <3>2, ScanAssumption DEF FileNode, ScanAssumption
    <3>5. OffsetsOK' /\ \A f \in DOMAIN filetree' : ~Unread(f, filetree[f].offset)'
      BY <3>1, <3>2, <3>3 DEF OffsetsOK, Unread, Size
    <3> QED
      BY <3>3, <3>4, <3>5 DEF TreeOK
  <2> QED
    BY <2>1, <2>2
<1>4. CASE BeginScan
  <2>1. /\ DOMAIN filetree' = DOMAIN filetree
        /\ \A f \in DOMAIN filetree :
             filetree'[f] \in FileNode /\ filetree'[f].offset = filetree[f].offset
    <3>1. \A f \in DOMAIN filetree : filetree[f] \in FileNode
      BY DEF TypeOK
    <3>2. CASE filetree' = filetree
      BY <3>1, <3>2
    <3>3. CASE filetree' = [f \in DOMAIN filetree |-> [filetree[f] EXCEPT !.scantime =
                              IF @ = "never" THEN @ ELSE "before"]]
      BY <3>1, <3>3 DEF FileNode
    <3> QED
      BY <1>4, <3>2, <3>3 DEF BeginScan
  <2>2. filetree' \in [DOMAIN filetree' -> FileNode]
    BY <1>4, <2>1 DEF BeginScan, TypeOK
  <2> QED
    BY <2>1, <2>2, SameTreeStep DEF TreeOK, TypeOK
<1>5. CASE EndScan
  <2>1. filetree' = [f \in Kept |-> filetree[f]] /\ Kept \subseteq DOMAIN filetree
    BY <1>5 DEF EndScan, Kept
  <2>2. /\ DOMAIN filetree' \subseteq DOMAIN filetree /\ filetree' \in [DOMAIN filetree' -> FileNode]
        /\ \A f \in DOMAIN filetree' : filetree'[f].offset = filetree[f].offset
    BY <2>1 DEF TypeOK
  <2> QED
    BY <2>2, SameTreeStep DEF TreeOK, TypeOK
<1>6. ASSUME NEW f \in Files, Skip(f) PROVE TreeOK'
  <2>1. filetree[f] \in FileNode /\ filetree[f].offset <= Size(f) /\ ~Unread(f, filetree[f].offset)
    BY <1>6 DEF Skip, Known, TypeOK, OffsetsOK, NothingPassedBy
  <2> DEFINE node == [filetree[f] EXCEPT !.scantime = "now",
                        !.idledelay = IF filetree[f].offset = -1 THEN @ ELSE IdleNext(@)]
  <2>2. SetNode(f, node) /\ node.offset = filetree[f].offset
    BY <1>6, <2>1 DEF Skip, FileNode
  <2>3. filetree[f].offset # -1 => filetree[f].idledelay - 1 \in 0 .. IdleDelay
    BY <1>6, <2>1, ScanAssumption DEF Skip, FileNode, ScanAssumption
  <2>4. node \in FileNode
    BY <2>1, <2>3 DEF FileNode, IdleNext
  <2>5. NoneUnreadAfter(f, node.offset)
    BY <2>1, <2>2, UnreadStep
  <2> HIDE DEF node
  <2> QED
    BY <2>1, <2>2, <2>4, <2>5, SetNodeStep DEF TreeOK
<1>7. ASSUME NEW f \in Files, Check(f) PROVE TreeOK'
  <2>1. PICK idle \in BOOLEAN :
          LET old  == IF Known(f) THEN filetree[f]
                      ELSE [offset |-> 0, idledelay |-> 0, scantime |-> "never"]
              node == [old EXCEPT !.offset = IF nextnew THEN Size(f) ELSE @,
                                  !.idledelay = IF idle /\ IdleDelay > 0 THEN IdleDelay - 1 ELSE @]
          IN SetNode(f, node) \/ SetNode(f, [node EXCEPT !.scantime = "now"])
    BY <1>7 DEF Check
  <2> DEFINE old  == IF Known(f) THEN filetree[f]
                     ELSE [offset |-> 0, idledelay |-> 0, scantime |-> "never"]
             node == [old EXCEPT !.offset = IF nextnew THEN Size(f) ELSE @,
                                 !.idledelay = IF idle /\ IdleDelay > 0 THEN IdleDelay - 1 ELSE @]
  <2>2. old \in FileNode /\ old.offset <= Size(f) /\ ~Unread(f, old.offset)
    <3>1. CASE Known(f)
      BY <3>1 DEF Known, TypeOK, OffsetsOK, NothingPassedBy
    <3>2. CASE ~Known(f)
      BY <3>2, SizeType, ScanAssumption DEF FileNode, Unread, ScanAssumption
    <3> QED
      BY <3>1, <3>2
  <2> HIDE DEF old
  <2>3. /\ node \in FileNode /\ node.offset = IF nextnew THEN Size(f) ELSE old.offset
        /\ [node EXCEPT !.scantime = "now"] \in FileNode
        /\ [node EXCEPT !.scantime = "now"].offset = node.offset
    <3>1. Size(f) \in -1 .. 2 * MaxRecords + 1 /\ old.offset \in -1 .. 2 * MaxRecords + 1
          /\ old.idledelay \in 0 .. IdleDelay
          /\ old.scantime \in {"never", "before", "now"}
      BY <2>2, SizeType DEF FileNode
    <3>2. (IF idle /\ IdleDelay > 0 THEN IdleDelay - 1 ELSE old.idledelay) \in 0 .. IdleDelay
      BY <3>1, ScanAssumption DEF ScanAssumption
    <3> DEFINE o == IF nextnew THEN Size(f) ELSE old.offset
               d == IF idle /\ IdleDelay > 0 THEN IdleDelay - 1 ELSE old.idledelay
    <3>3. node = [old EXCEPT !.offset = o, !.idledelay = d]
      OBVIOUS
    <3>4. o \in -1 .. 2 * MaxRecords + 1 /\ d \in 0 .. IdleDelay
      BY <3>1, <3>2
    <3> HIDE DEF o, d, node
    <3>5. node \in FileNode /\ node.offset = o
      BY <2>2, <3>3, <3>4 DEF FileNode
    <3>6. [node EXCEPT !.scantime = "now"] \in FileNode
          /\ [node EXCEPT !.scantime = "now"].offset = o
      BY <3>5 DEF FileNode
    <3> QED
      BY <3>5, <3>6 DEF o
  <2>4. node.offset <= Size(f)
    BY <2>2, <2>3, SizeType
  <2>5. NoneUnreadAfter(f, node.offset)
    <3>1. CASE nextnew
      <4>1. \A n \in 1 .. MaxRecords : fate'[f][n] = "none" => ~(2 * n <= Size(f) + 1)
        BY <1>7, <3>1 DEF Check, TypeOK
      <4> QED
        BY <2>3, <3>1, <4>1, SizeType DEF NoneUnreadAfter
    <3>2. CASE ~nextnew
      BY <2>2, <2>3, <3>2, UnreadStep
    <3> QED
      BY <3>1, <3>2
  <2>6. SetNode(f, node) \/ SetNode(f, [node EXCEPT !.scantime = "now"])
    BY <2>1 DEF old
  <2> HIDE DEF node
  <2> QED
    BY <2>3, <2>4, <2>5, <2>6, SetNodeStep DEF TreeOK
<1>8. ASSUME reading # NotReading,
             \/ \E offset \in {-1, reading.offset} : Return(offset)
             \/ WriteFails
      PROVE  TreeOK'
  <2>1. /\ reading.file \in Files /\ reading.file \in DOMAIN filetree /\ reading.offset \in Nat
        /\ filetree[reading.file] \in FileNode
        /\ reading.offset <= Size(reading.file) /\ Size(reading.file) \in 0 .. 2 * MaxRecords + 1
        /\ ~Unread(reading.file, reading.offset) /\ ~Unread(reading.file, -1)
    BY <1>8, SizeType DEF ReadingOK, TypeOK, Unread
  <2>2. ASSUME NEW offset \in {-1, reading.offset}, Return(offset) PROVE TreeOK'
    <3>1. NoneUnreadAfter(reading.file, offset)
      BY <2>1, UnreadStep
    <3> DEFINE node == [filetree[reading.file] EXCEPT !.offset = offset, !.scantime = "now"]
    <3>2. node \in FileNode /\ node.offset = offset /\ SetNode(reading.file, node)
      <4>1. offset \in -1 .. 2 * MaxRecords + 1
        BY <2>1
      <4> QED
        BY <2>1, <2>2, <4>1 DEF Return, FileNode
    <3>3. node.offset <= Size(reading.file) /\ NoneUnreadAfter(reading.file, node.offset)
      BY <2>1, <3>1, <3>2
    <3> HIDE DEF node, SafeInv
    <3> QED
      BY <2>1, <3>2, <3>3, SetNodeStep DEF TreeOK
  <2>3. CASE WriteFails
    <3> DEFINE node == [filetree[reading.file] EXCEPT !.offset = FatalOffset]
    <3>1. /\ FatalOffset \in 0 .. 2 * MaxRecords + 1 /\ FatalOffset <= Size(reading.file)
          /\ Record(reading.offset) \in 1 .. MaxRecords
          /\ 2 * Record(reading.offset) = FatalOffset
      <4>1. WholeRecord
        BY <2>3 DEF WriteFails
      <4> HIDE DEF SafeInv
      <4>2. /\ Record(reading.offset) \in 1 .. MaxRecords
            /\ 2 * Record(reading.offset) = reading.offset + 2
            /\ reading.offset + 2 <= Size(reading.file)
        BY <4>1, NextRecord DEF SafeInv
      <4> QED
        BY <2>1, <4>2 DEF FatalOffset
    <3>2. node \in FileNode /\ node.offset = FatalOffset /\ SetNode(reading.file, node)
      <4>1. SetNode(reading.file, node)
        BY <2>3 DEF WriteFails
      <4>2. FatalOffset \in -1 .. 2 * MaxRecords + 1
        BY <3>1
      <4> HIDE DEF FatalOffset
      <4>3. node \in FileNode /\ node.offset = FatalOffset
        BY <2>1, <4>2 DEF FileNode
      <4> QED
        BY <4>1, <4>3
    <3>3. fate'[reading.file][Record(reading.offset)] # "none"
      BY <2>1, <2>3, <3>1 DEF WriteFails, Becomes, Record, TypeOK
    <3>4. ASSUME NEW n \in 1 .. MaxRecords, 2 * n <= node.offset
          PROVE  fate'[reading.file][n] # "none"
      <4>1. n = Record(reading.offset) \/ 2 * n <= reading.offset
        BY <2>1, <3>1, <3>2, <3>4 DEF FatalOffset
      <4> QED
        BY <2>1, <3>3, <4>1, FateStep DEF Unread
    <3>5. NoneUnreadAfter(reading.file, node.offset)
      BY <3>4 DEF NoneUnreadAfter
    <3> HIDE DEF node
    <3> QED
      BY <2>1, <3>1, <3>2, <3>5, SetNodeStep DEF TreeOK
  <2> QED
    BY <1>8, <2>2, <2>3
<1>9. CASE ProcessFile
  BY <1>1, <1>8, <1>9 DEF ProcessFile, FileDone, Stop, ReadFails, WriteRecord, WriteFails,
     WholeRecord, MayRead
<1> QED
  BY <1>1, <1>2, <1>3, <1>4, <1>5, <1>6, <1>7, <1>9
     DEF Next, ScanThread, LeaveLoop, Exit, ScanFiles, StatFails, Enter, Leave, Grow, Boot, Shutdown,
         ProcessEnds, Crash, Down

LEMMA StateFileStep ==
  ASSUME SafeInv, Next
  PROVE  StateFileOK'
<1> USE ScanAssumption DEF SafeInv, ScanAssumption
<1>1. CASE UNCHANGED statefile
  <2>1. ASSUME statefile # NoState, NEW f \in DOMAIN statefile
        PROVE  f \in Files /\ statefile[f] \in -1 .. Size(f)' /\ ~Unread(f, statefile[f])'
    <3>1. f \in Files /\ statefile[f] \in -1 .. Size(f) /\ ~Unread(f, statefile[f])
      BY <2>1 DEF TypeOK, NothingPassedBy
    <3>2. NoneUnreadAfter(f, statefile[f])
      BY <3>1, UnreadStep
    <3> QED
      BY <1>1, <3>1, <3>2, Grown DEF Unread, NoneUnreadAfter
  <2> QED
    BY <1>1, <2>1 DEF StateFileOK, TypeOK
<1>2. ASSUME NEW tree, SaveState(tree), tree = filetree'
      PROVE  StateFileOK'
  <2>1. CASE statefile' = [f \in DOMAIN tree |-> tree[f].offset]
    <3>1. ASSUME NEW f \in DOMAIN filetree'
          PROVE  f \in Files /\ filetree'[f].offset \in -1 .. Size(f)' /\ ~Unread(f, filetree[f].offset)'
      BY TreeStep DEF TreeOK, FileNode, OffsetsOK, Grown
    <3> QED
      BY <1>2, <2>1, <3>1 DEF StateFileOK, Unread
  <2> QED
    BY <1>1, <1>2, <2>1 DEF SaveState
<1>3. CASE EndScan \/ Exit
  BY <1>1, <1>2, <1>3 DEF EndScan, Exit
<1> QED
  BY <1>1, <1>3 DEF Next, ScanThread, StartThread, BeginScan, LeaveLoop, ScanFiles, ProcessFile, Skip,
     StatFails, Check, Enter, Leave, FileDone, ReadFails, WriteRecord, WriteFails, Grow, Boot,
     Shutdown, ProcessEnds, Crash, Down

LEMMA PathStep ==
  ASSUME SafeInv, Next
  PROVE  PathOK' /\ recurlevel' \in 0 .. MaxRecurDepth
<1> USE ScanAssumption DEF SafeInv, ScanAssumption, PathOK, TypeOK, Entries
<1>1. CASE UNCHANGED path /\ UNCHANGED recurlevel /\ thread' = "scan" /\ up' = up /\ thread = "scan"
  BY <1>1
<1>2. CASE path' = <<>> /\ recurlevel' \in {recurlevel, 0}
           /\ thread' \in {"closed", "loop", "scan", "exit"} /\ (~up' => thread' = "closed")
  BY <1>2
<1>3. CASE path' = <<Listing[Base]>> /\ UNCHANGED <<recurlevel, up>> /\ thread' = "scan" /\ thread = "loop"
  <2>1. <<Listing[Base]>> \in Seq(Seq(Entries)) /\ Len(<<Listing[Base]>>) = 1
    OBVIOUS
  <2> QED
    BY <1>3, <2>1
<1>4. ASSUME path # <<>>, Head(path) # <<>>, path' = OneDone, UNCHANGED <<recurlevel, up, thread>>
      PROVE  PathOK' /\ recurlevel' \in 0 .. MaxRecurDepth
  BY <1>4, OneDoneIs
<1>5. ASSUME NEW d \in Dirs, Enter(d)
      PROVE  PathOK' /\ recurlevel' \in 0 .. MaxRecurDepth
  <2>1. path # <<>> /\ Head(path) # <<>> /\ thread = "scan"
    BY <1>5 DEF Enter, Take
  <2>2. CASE path' = OneDone /\ UNCHANGED recurlevel
    BY <1>4, <1>5, <2>1, <2>2 DEF Enter
  <2>3. CASE path' = <<Listing[d]>> \o OneDone /\ recurlevel' = recurlevel + 1
             /\ recurlevel < MaxRecurDepth
    <3>1. Listing[d] \in Seq(Entries)
      OBVIOUS
    <3>2. OneDone \in Seq(Seq(Entries)) /\ Len(OneDone) = Len(path)
      BY <2>1, OneDoneIs
    <3>3. path' \in Seq(Seq(Entries)) /\ Len(path') = Len(OneDone) + 1
      BY ONLY <2>3, <3>1, <3>2, Pushed
    <3>4. path' \in Seq(Seq(Entries)) /\ Len(path') = Len(path) + 1
      BY ONLY <3>2, <3>3
    <3> QED
      BY <1>5, <2>1, <2>3, <3>4 DEF Enter
  <2> QED
    BY <1>5, <2>2, <2>3 DEF Enter
<1>6. CASE Leave
  <2>1. path # <<>> /\ thread = "scan" /\ path' = Tail(path) /\ UNCHANGED <<up, thread>>
    BY <1>6 DEF Leave
  <2>2. path' \in Seq(Seq(Entries)) /\ Len(path') = Len(path) - 1 /\ Len(path) \in Nat
    BY <2>1, Popped
  <2>3. CASE Tail(path) = <<>>
    BY <1>6, <2>1, <2>2, <2>3 DEF Leave
  <2>4. CASE Tail(path) # <<>>
    <3>0. Len(Tail(path)) \in Nat \ {0}
      BY <2>1, <2>2, <2>4, Popped
    <3>1. Len(path) >= 2
      BY <2>1, <2>2, <3>0
    <3>2. recurlevel' = recurlevel - 1
      BY <1>6, <2>4 DEF Leave
    <3> QED
      BY <2>1, <2>2, <2>4, <3>1, <3>2
  <2> QED
    BY <2>3, <2>4
<1>7. CASE UNCHANGED <<path, recurlevel, thread>> /\ (up' = up \/ up')
  BY <1>7
<1>8. CASE ScanFiles
  <2>1. ASSUME NEW f \in Files, Skip(f) \/ StatFails(f) \/ Check(f)
        PROVE  PathOK' /\ recurlevel' \in 0 .. MaxRecurDepth
    BY <1>4, <1>7, <2>1 DEF Skip, StatFails, Check, Take
  <2> QED
    BY <1>5, <1>6, <1>8, <2>1 DEF ScanFiles
<1>9. CASE ProcessFile
  BY <1>2, <1>4, <1>7, <1>9 DEF ProcessFile, FileDone, ReadFails, WriteRecord, WriteFails, ReadingOK,
     Return, WholeRecord, MayRead
<1>10. CASE StartThread \/ BeginScan \/ EndScan \/ LeaveLoop \/ Exit
  BY <1>2, <1>3, <1>10 DEF StartThread, BeginScan, EndScan, LeaveLoop, Exit
<1>11. CASE Boot \/ Shutdown \/ ProcessEnds \/ Crash \/ \E f \in Files : Grow(f)
  BY <1>2, <1>7, <1>11 DEF Boot, Shutdown, ProcessEnds, Crash, Down, Grow
<1> QED
  BY <1>8, <1>9, <1>10, <1>11 DEF Next, ScanThread

\* The file that is read is the entry at which the scan is.
AtEntry == reading # NotReading => thread = "scan" /\ reading.file = Head(Head(path))

LEMMA ReadingStep ==
  ASSUME SafeInv, Next
  PROVE  ReadingOK' /\ AtEntry'
<1> USE ScanAssumption DEF SafeInv, ScanAssumption
<1>1. CASE reading' = NotReading
  BY <1>1 DEF ReadingOK, AtEntry, NotReading
<1>2. ASSUME reading' = reading, reading # NotReading, UNCHANGED <<path, thread>>,
             DOMAIN filetree \subseteq DOMAIN filetree'
      PROVE  ReadingOK' /\ AtEntry'
  <2>1. /\ reading.file \in Files /\ reading.size \in Nat /\ reading.size <= Size(reading.file)
        /\ reading.file \in DOMAIN filetree'
        /\ ~Unread(reading.file, reading.offset)
    BY <1>2 DEF ReadingOK
  <2>2. reading.size <= Size(reading.file)'
    BY <1>2, <2>1, Grown DEF Size
  <2>3. ~Unread(reading.file, reading.offset)'
    BY <1>2, <2>1, UnreadStep DEF Unread, NoneUnreadAfter
  <2>4. AtEntry'
    BY <1>2 DEF AtEntry, TypeOK, NotReading
  <2>5. ReadingOK'
    BY <1>2, <2>1, <2>2, <2>3 DEF ReadingOK, NotReading
  <2> QED
    BY <2>4, <2>5
<1>3. ASSUME NEW f \in Files, Check(f), reading' # NotReading
      PROVE  ReadingOK' /\ AtEntry'
  <2>1. /\ path # <<>> /\ Head(path) # <<>> /\ thread = "scan" /\ f = Head(Head(path))
        /\ UNCHANGED <<path, thread, file>>
    BY <1>3, OneDoneIs DEF Check, Take
  <2>2. PICK idle \in BOOLEAN :
          LET old  == IF Known(f) THEN filetree[f]
                      ELSE [offset |-> 0, idledelay |-> 0, scantime |-> "never"]
              node == [old EXCEPT !.offset = IF nextnew THEN Size(f) ELSE @,
                                  !.idledelay = IF idle /\ IdleDelay > 0 THEN IdleDelay - 1 ELSE @]
          IN /\ SetNode(f, node) /\ node.offset < Size(f)
             /\ reading' = [file |-> f, size |-> Size(f), offset |-> node.offset, reccnt |-> 0]
    BY <1>3, <2>1 DEF Check, Take
  <2> DEFINE old  == IF Known(f) THEN filetree[f]
                     ELSE [offset |-> 0, idledelay |-> 0, scantime |-> "never"]
             node == [old EXCEPT !.offset = IF nextnew THEN Size(f) ELSE @,
                                 !.idledelay = IF idle /\ IdleDelay > 0 THEN IdleDelay - 1 ELSE @]
  <2>3. node.offset \in Nat
    <3>1. Size(f) \in Nat
      BY SizeType
    <3>2. old.offset \in Nat
      BY <1>3 DEF Check, Known, TypeOK, FileNode
    <3>3. node.offset = IF nextnew THEN Size(f) ELSE old.offset
      <4>1. old = [offset |-> old.offset, idledelay |-> old.idledelay, scantime |-> old.scantime]
        BY DEF Known, TypeOK, FileNode
      <4> QED
        BY <4>1
    <3> QED
      BY <3>1, <3>2, <3>3
  <2> HIDE DEF old, node
  <2>4. /\ SetNode(f, node) /\ node.offset < Size(f)
        /\ reading' = [file |-> f, size |-> Size(f), offset |-> node.offset, reccnt |-> 0]
    BY <2>2 DEF old, node
  <2>5. f \in DOMAIN filetree' /\ filetree'[f] = node
    BY <2>4 DEF SetNode
  <2>6. NoneUnreadAfter(f, node.offset)
    <3>1. ~Unread(f, filetree[f].offset)'
      BY <2>5, TreeStep DEF TreeOK
    <3> QED
      BY <2>5, <3>1 DEF Unread, NoneUnreadAfter
  <2>7. Size(f) \in Nat /\ Size(f)' = Size(f)
    BY <2>1, SizeType DEF Size
  <2>8. AtEntry'
    BY <2>1, <2>4 DEF AtEntry
  <2>9. reading' \in [file : Files, size : Nat, offset : Nat, reccnt : Nat]
    BY <2>3, <2>4, <2>7
  <2>10. ReadingOK'
    <3>1. reading'.file = f /\ reading'.offset = node.offset /\ reading'.size = Size(f)
      BY <2>4
    <3>2. Size(reading.file)' = Size(f)
      BY <2>7, <3>1 DEF Size
    <3>3. ~Unread(reading.file, reading.offset)'
      BY <2>6, <3>1 DEF Unread, NoneUnreadAfter
    <3> QED
      BY <2>1, <2>3, <2>4, <2>5, <2>7, <2>9, <3>1, <3>2, <3>3 DEF ReadingOK
  <2> QED
    BY <2>8, <2>10
<1>4. CASE WriteRecord
  <2>1. /\ reading # NotReading /\ UNCHANGED <<path, thread, file, filetree>>
        /\ reading' = [reading EXCEPT !.offset = @ + 2, !.reccnt = @ + 1]
        /\ WholeRecord /\ Becomes(IF fate[reading.file][reading.offset \div 2 + 1] \in {"written", "twice"}
             THEN "twice" ELSE "written")
    BY <1>4 DEF WriteRecord, WholeRecord, MayRead
  <2>2. /\ reading \in [file : Files, size : Nat, offset : Nat, reccnt : Nat]
        /\ path # <<>> /\ Head(path) # <<>> /\ reading.file \in DOMAIN filetree
        /\ reading.size <= Size(reading.file) /\ ~Unread(reading.file, reading.offset)
    BY <2>1 DEF ReadingOK
  <2>3. /\ reading' \in [file : Files, size : Nat, offset : Nat, reccnt : Nat]
        /\ reading'.file = reading.file /\ reading'.size = reading.size
        /\ reading'.offset = reading.offset + 2
    <3>1. reading.offset + 2 \in Nat /\ reading.reccnt + 1 \in Nat
      BY ONLY <2>2
    <3> QED
      BY ONLY <2>1, <2>2, <3>1
  <2>4. reading'.offset <= reading'.size
    BY <2>1, <2>3 DEF WholeRecord
  <2>5. NoneUnreadAfter(reading.file, reading.offset + 2)
    <3>1. fate'[reading.file][Record(reading.offset)] # "none"
      BY <2>1, NextRecord DEF Becomes, Record, TypeOK
    <3>2. ASSUME NEW n \in 1 .. MaxRecords, 2 * n <= reading.offset + 2
          PROVE  fate'[reading.file][n] # "none"
      <4>1. 2 * Record(reading.offset) = reading.offset + 2 /\ Record(reading.offset) \in 1 .. MaxRecords
        BY <2>1, NextRecord
      <4>2. n = Record(reading.offset) \/ 2 * n <= reading.offset
        BY <2>2, <3>2, <4>1
      <4> QED
        BY <2>2, <3>1, <4>2, FateStep DEF Unread
    <3> QED
      BY <3>2 DEF NoneUnreadAfter
  <2>6. Size(reading.file)' = Size(reading.file)
    BY <2>1, <2>3 DEF Size
  <2>7. AtEntry'
    BY <2>1, <2>3 DEF AtEntry, TypeOK
  <2>8. ReadingOK'
    BY <2>1, <2>2, <2>3, <2>4, <2>5, <2>6 DEF ReadingOK, Unread, NoneUnreadAfter
  <2> QED
    BY <2>7, <2>8
<1>5. ASSUME reading # NotReading PROVE thread = "scan" /\ path # <<>>
  BY <1>5 DEF ReadingOK, TypeOK
<1>6. CASE ScanThread
  <2>1. CASE StartThread \/ BeginScan \/ EndScan \/ LeaveLoop \/ Exit
    BY <1>1, <1>5, <2>1 DEF StartThread, BeginScan, EndScan, LeaveLoop, Exit
  <2>2. CASE ScanFiles
    BY <1>1, <1>3, <2>2 DEF ScanFiles, Skip, StatFails, Enter, Leave, Take
  <2>3. CASE ProcessFile
    BY <1>1, <1>4, <2>3 DEF ProcessFile, FileDone, ReadFails, Return, WriteFails
  <2> QED
    BY <1>6, <2>1, <2>2, <2>3 DEF ScanThread
<1>7. CASE Boot \/ Shutdown \/ ProcessEnds \/ Crash \/ \E f \in Files : Grow(f)
  BY <1>1, <1>2, <1>7 DEF Boot, Shutdown, ProcessEnds, Crash, Down, Grow
<1> QED
  BY <1>6, <1>7 DEF Next

-----------------------------------------------------------------------------
(* The scanner never goes on behind an unread record                       *)

LEMMA FateType ==
  ASSUME SafeInv, Next
  PROVE  fate' \in [Files -> [1 .. MaxRecords -> {"none", "written", "twice", "refused", "passed"}]]
         /\ file' \in [Files -> [whole : 0 .. MaxRecords, tail : {"none", "head", "part"}]]
<1>1. CASE Files = {}
  <2>1. ~(reading # NotReading)
    BY <1>1 DEF SafeInv, ReadingOK
  <2>2. UNCHANGED <<file, fate>>
    BY <1>1, <2>1 DEF Next, ScanThread, StartThread, BeginScan, EndScan, LeaveLoop, Exit, ScanFiles,
       ProcessFile, Enter, Leave, FileDone, ReadFails, WriteRecord, WriteFails, WholeRecord, MayRead,
       Boot, Shutdown, ProcessEnds, Crash, Down
  <2> QED
    BY <2>2 DEF SafeInv, TypeOK
<1>2. CASE Files # {}
  BY <1>2, FateStep, Grown DEF SafeInv
<1> QED
  BY <1>1, <1>2

LEMMA SafeInit == Init => SafeInv
<1> SUFFICES ASSUME Init PROVE SafeInv
  OBVIOUS
<1> USE ScanAssumption DEF Init, ScanAssumption
<1>1. TypeOK
  BY DEF TypeOK
<1>2. PathOK /\ ReadingOK /\ OffsetsOK /\ NothingPassedBy
  BY DEF PathOK, ReadingOK, OffsetsOK, NothingPassedBy
<1> QED
  BY <1>1, <1>2 DEF SafeInv

LEMMA SafeStep == SafeInv /\ [Next]_vars => SafeInv'
<1> SUFFICES ASSUME SafeInv, [Next]_vars PROVE SafeInv'
  OBVIOUS
<1>1. CASE Next
  <2>1. TypeOK'
    BY <1>1, FateType, TreeStep, StateFileStep, PathStep, ReadingStep
       DEF TypeOK, TreeOK, StateFileOK, AtEntry
  <2>2. NothingPassedBy'
    BY <1>1, TreeStep, StateFileStep DEF TreeOK, StateFileOK, NothingPassedBy
  <2> QED
    BY <1>1, <2>1, <2>2, TreeStep, PathStep, ReadingStep DEF SafeInv, TreeOK
<1>2. CASE UNCHANGED vars
  BY <1>2 DEF vars, SafeInv, TypeOK, PathOK, ReadingOK, OffsetsOK, NothingPassedBy, Unread, Size
<1> QED
  BY <1>1, <1>2

LEMMA Safety == Spec => []SafeInv
BY SafeInit, SafeStep, PTL DEF Spec

\* The list and the state file only ever hold offsets that their files have
\* reached, and recurlevel stays between the base directory and its limit.
THEOREM TypeCorrect == Spec => []TypeOK
<1>1. SafeInv => TypeOK
  BY DEF SafeInv
<1> QED
  BY <1>1, Safety, PTL

\* However threads and processes of the scanner end, it never goes on, now or
\* from its state file, behind a record it has neither written nor had refused.
THEOREM NothingIsPassedBy == Spec => []NothingPassedBy
<1>1. SafeInv => NothingPassedBy
  BY DEF SafeInv
<1> QED
  BY <1>1, Safety, PTL

-----------------------------------------------------------------------------
(* What a scan visits                                                      *)

LEMMA BelowFile ==
  ASSUME NEW f \in Files, NEW level \in Int
  PROVE  Below(f, level) = {f}
<1>1. f \in Below(f, level)
  <2> DEFINE s == [i \in 1 .. 1 |-> f]
  <2>1. s \in [1 .. 1 -> Entries] /\ s[1] = f /\ Way(s, 1, level)
    BY DEF Entries, Way
  <2> HIDE DEF s
  <2>2. \E m \in Nat \ {0} : \E r \in [1 .. m -> Entries] : r[1] = f /\ r[m] = f /\ Way(r, m, level)
    <3>1. 1 \in Nat \ {0}
      OBVIOUS
    <3> QED
      BY <2>1, <3>1
  <2> QED
    BY <2>2 DEF Below
<1>2. ASSUME NEW g \in Below(f, level) PROVE g = f
  <2>0. PICK m \in Nat \ {0} : \E s \in [1 .. m -> Entries] : s[1] = f /\ s[m] = g /\ Way(s, m, level)
    BY <1>2 DEF Below
  <2>1. PICK s \in [1 .. m -> Entries] : s[1] = f /\ s[m] = g /\ Way(s, m, level)
    BY <2>0
  <2>2. f \notin Dirs
    BY ScanAssumption DEF ScanAssumption
  <2>3. CASE m = 1
    BY <2>1, <2>3
  <2>4. CASE m # 1
    <3>1. 1 \in 1 .. m - 1
      BY <2>4
    <3> QED
      BY <2>1, <2>2, <3>1 DEF Way
  <2> QED
    BY <2>3, <2>4
<1> QED
  BY <1>1, <1>2

\* What is below a directory is below its entries, one level further down.
LEMMA BelowDir ==
  ASSUME NEW d \in Dirs, NEW level \in Int, NEW f
  PROVE  f \in Below(d, level) <=>
           MayDescend(level) /\ \E j \in DOMAIN Listing[d] : f \in Below(Listing[d][j], level + 1)
<1>1. ASSUME f \in Below(d, level)
      PROVE  MayDescend(level) /\ \E j \in DOMAIN Listing[d] : f \in Below(Listing[d][j], level + 1)
  <2>0. PICK m \in Nat \ {0} : \E s \in [1 .. m -> Entries] : s[1] = d /\ s[m] = f /\ Way(s, m, level)
    BY <1>1 DEF Below
  <2>1. PICK s \in [1 .. m -> Entries] : s[1] = d /\ s[m] = f /\ Way(s, m, level)
    BY <2>0
  <2>2. m # 1
    BY <1>1, <2>1, ScanAssumption DEF Below, ScanAssumption
  <2>3. 1 \in 1 .. m - 1 /\ m - 1 \in Nat \ {0}
    BY <2>2
  <2>4. PICK j \in DOMAIN Listing[d] : s[2] = Listing[d][j] /\ MayDescend(level)
    BY <2>1, <2>3 DEF Way
  <2> DEFINE t == [i \in 1 .. m - 1 |-> s[i + 1]]
  <2>5. t \in [1 .. m - 1 -> Entries] /\ t[1] = Listing[d][j] /\ t[m - 1] = f
    BY <2>1, <2>3, <2>4
  <2>6. Way(t, m - 1, level + 1)
    <3> SUFFICES ASSUME NEW i \in 1 .. (m - 1) - 1
                 PROVE  /\ t[i] \in Dirs /\ MayDescend((level + 1) + i - 1)
                        /\ \E k \in DOMAIN Listing[t[i]] : t[i + 1] = Listing[t[i]][k]
      BY DEF Way
    <3>1. i + 1 \in 1 .. m - 1 /\ t[i] = s[i + 1] /\ t[i + 1] = s[(i + 1) + 1]
          /\ level + (i + 1) - 1 = (level + 1) + i - 1
      OBVIOUS
    <3> QED
      BY <2>1, <3>1 DEF Way
  <2>7. f \in Files
    BY <1>1 DEF Below
  <2> HIDE DEF t
  <2> QED
    BY <2>3, <2>4, <2>5, <2>6, <2>7 DEF Below
<1>2. ASSUME MayDescend(level), NEW j \in DOMAIN Listing[d], f \in Below(Listing[d][j], level + 1)
      PROVE  f \in Below(d, level)
  <2>0. PICK m \in Nat \ {0} : \E s \in [1 .. m -> Entries] :
          s[1] = Listing[d][j] /\ s[m] = f /\ Way(s, m, level + 1)
    BY <1>2 DEF Below
  <2>1. PICK s \in [1 .. m -> Entries] : s[1] = Listing[d][j] /\ s[m] = f /\ Way(s, m, level + 1)
    BY <2>0
  <2> DEFINE t == [i \in 1 .. m + 1 |-> IF i = 1 THEN d ELSE s[i - 1]]
  <2>2. t \in [1 .. m + 1 -> Entries] /\ t[1] = d /\ t[m + 1] = f
    BY <2>1 DEF Entries
  <2>3. Way(t, m + 1, level)
    <3> SUFFICES ASSUME NEW i \in 1 .. (m + 1) - 1
                 PROVE  /\ t[i] \in Dirs /\ MayDescend(level + i - 1)
                        /\ \E k \in DOMAIN Listing[t[i]] : t[i + 1] = Listing[t[i]][k]
      BY DEF Way
    <3>1. CASE i = 1
      <4>1. t[1] = d /\ t[1 + 1] = s[1] /\ level + 1 - 1 = level
        OBVIOUS
      <4> QED
        BY <1>2, <2>1, <3>1, <4>1
    <3>2. CASE i # 1
      <4>1. i - 1 \in 1 .. m - 1 /\ t[i] = s[i - 1] /\ t[i + 1] = s[(i - 1) + 1]
            /\ (level + 1) + (i - 1) - 1 = level + i - 1
        BY <3>2
      <4> QED
        BY <2>1, <4>1 DEF Way
    <3> QED
      BY <3>1, <3>2
  <2>4. f \in Files
    BY <1>2 DEF Below
  <2> HIDE DEF t
  <2> QED
    BY <2>2, <2>3, <2>4 DEF Below
<1> QED
  BY <1>1, <1>2

\* What is left is what is below an entry that is left.
InRemaining(f) ==
  \E i \in DOMAIN path : \E j \in DOMAIN path[i] : f \in Below(path[i][j], Level(i))

LEMMA RemainingIs ==
  /\ \A f : f \in Remaining <=> f \in Files /\ InRemaining(f)
  /\ \A f : f \in Remaining' <=> f \in Files /\ InRemaining(f)'
<1>1. \A f : f \in Remaining <=> f \in Files /\ InRemaining(f)
  BY DEF Remaining, InRemaining, Below
<1>2. \A f : f \in Remaining' <=> f \in Files /\ InRemaining(f)'
  BY DEF Remaining, InRemaining, Below
<1> QED
  BY <1>1, <1>2

LEMMA RemainingTaken ==
  ASSUME PathOK, recurlevel \in Nat, path # <<>>, Head(path) # <<>>,
         NEW f \in Below(Head(Head(path)), recurlevel)
  PROVE  f \in Remaining
<1>1. Head(Head(path)) = path[1][1] /\ 1 \in DOMAIN path /\ 1 \in DOMAIN path[1]
  <2>1. Head(path) = path[1] /\ Head(path) \in Seq(Entries) /\ 1 \in DOMAIN path
    BY Popped DEF PathOK
  <2> QED
    BY <2>1, Popped
<1>2. Level(1) = recurlevel
  BY DEF Level
<1> QED
  BY <1>1, <1>2, RemainingIs DEF InRemaining, Below

\* Taking an entry off its directory takes what is below it, and nothing more.
LEMMA RemainingOneDone ==
  ASSUME PathOK, recurlevel \in Nat, NEW x, path # <<>>, Head(path) # <<>>, x = Head(Head(path)),
         path' = OneDone, recurlevel' = recurlevel
  PROVE  /\ Remaining' \subseteq Remaining
         /\ \A f \in Remaining : f \in Remaining' \/ f \in Below(x, recurlevel)
         /\ BaseLevel' = BaseLevel
<1> USE DEF PathOK
<1>1. /\ path' # <<>> /\ Len(path') = Len(path) /\ path'[1] = Tail(path[1]) /\ path' \in Seq(Seq(Entries))
      /\ \A i \in 2 .. Len(path) : path'[i] = path[i]
      /\ path[1] \in Seq(Entries) /\ path[1] # <<>> /\ x = path[1][1] /\ Len(path) \in Nat \ {0}
  <2>1. Head(path) = path[1] /\ path[1] \in Seq(Entries) /\ Len(path) \in Nat \ {0}
    BY Popped
  <2>2. Head(Head(path)) = path[1][1]
    BY <2>1, Popped
  <2> QED
    BY <2>1, <2>2, OneDoneIs
<1>2. /\ Len(path'[1]) = Len(path[1]) - 1 /\ Len(path[1]) \in Nat \ {0}
      /\ \A j \in 1 .. Len(path[1]) - 1 : path'[1][j] = path[1][j + 1]
  BY <1>1, Popped
<1>3. \A i : Level(i)' = Level(i)
  BY DEF Level
<1>4. BaseLevel' = BaseLevel
  BY <1>1 DEF BaseLevel, Level
<1>5. ASSUME NEW f \in Files, InRemaining(f)' PROVE InRemaining(f)
  <2>0. PICK i \in DOMAIN path' : \E j \in DOMAIN path'[i] : f \in Below(path'[i][j], Level(i))
    BY <1>3, <1>5 DEF InRemaining
  <2>1. PICK j \in DOMAIN path'[i] : f \in Below(path'[i][j], Level(i))
    BY <2>0
  <2>2. i \in DOMAIN path
    BY <1>1, <2>0
  <2>3. CASE i = 1
    <3>1. j + 1 \in DOMAIN path[1] /\ path'[1][j] = path[1][j + 1]
      BY <1>1, <1>2, <2>1, <2>3
    <3> QED
      BY <2>1, <2>2, <2>3, <3>1 DEF InRemaining
  <2>4. CASE i # 1
    <3>0. i \in 2 .. Len(path)
      BY <1>1, <2>2, <2>4
    <3>1. path'[i] = path[i]
      BY <1>1, <3>0
    <3> QED
      BY <2>1, <2>2, <3>1 DEF InRemaining
  <2> QED
    BY <2>3, <2>4
<1>6. ASSUME NEW f \in Files, InRemaining(f) PROVE InRemaining(f)' \/ f \in Below(x, recurlevel)
  <2>1. PICK i \in DOMAIN path : \E j \in DOMAIN path[i] : f \in Below(path[i][j], Level(i))
    BY <1>6 DEF InRemaining
  <2>2. PICK j \in DOMAIN path[i] : f \in Below(path[i][j], Level(i))
    BY <2>1
  <2>3. CASE i = 1
    <3>1. CASE j = 1
      BY <1>1, <2>2, <2>3, <3>1 DEF Level
    <3>2. CASE j # 1
      <4>1. j - 1 \in 1 .. Len(path[1]) - 1 /\ path'[1][j - 1] = path[1][(j - 1) + 1]
            /\ (j - 1) + 1 = j
        BY <1>1, <1>2, <2>2, <2>3, <3>2
      <4>2. 1 \in DOMAIN path' /\ j - 1 \in DOMAIN path'[1]
        BY <1>1, <1>2, <4>1
      <4> QED
        BY <1>3, <2>2, <2>3, <4>1, <4>2 DEF InRemaining
    <3> QED
      BY <3>1, <3>2
  <2>4. CASE i # 1
    <3>1. i \in 2 .. Len(path) /\ i \in DOMAIN path'
      BY <1>1, <2>1, <2>4
    <3> QED
      BY <1>1, <1>3, <2>2, <3>1 DEF InRemaining
  <2> QED
    BY <2>3, <2>4
<1> QED
  BY <1>4, <1>5, <1>6, RemainingIs

\* Going into a directory leaves the same files to come to.
LEMMA RemainingEnter ==
  ASSUME PathOK, recurlevel \in Nat, NEW d \in Dirs, path # <<>>, Head(path) # <<>>,
         d = Head(Head(path)), MayDescend(recurlevel),
         path' = <<Listing[d]>> \o OneDone, recurlevel' = recurlevel + 1
  PROVE  Remaining' = Remaining /\ BaseLevel' = BaseLevel
<1> USE DEF PathOK
<1>1. /\ path[1] \in Seq(Entries) /\ path[1] # <<>> /\ d = path[1][1] /\ Len(path) \in Nat \ {0}
      /\ 1 \in DOMAIN path /\ 1 \in DOMAIN path[1]
  <2>1. Head(path) = path[1] /\ path[1] \in Seq(Entries) /\ Len(path) \in Nat \ {0} /\ 1 \in DOMAIN path
    BY Popped
  <2>2. Head(Head(path)) = path[1][1] /\ 1 \in DOMAIN path[1]
    BY <2>1, Popped
  <2> QED
    BY <2>1, <2>2
<1>2. /\ Len(path[1]) \in Nat \ {0} /\ Tail(path[1]) \in Seq(Entries)
      /\ Len(Tail(path[1])) = Len(path[1]) - 1
      /\ \A j \in 1 .. Len(path[1]) - 1 : Tail(path[1])[j] = path[1][j + 1]
  BY <1>1, Popped
<1>0. DOMAIN path = 1 .. Len(path) /\ DOMAIN path[1] = 1 .. Len(path[1])
      /\ DOMAIN Tail(path[1]) = 1 .. Len(path[1]) - 1
  BY <1>1, <1>2
<1>3. Listing[d] \in Seq(Entries)
  BY ScanAssumption DEF ScanAssumption, Entries
<1>4. /\ path' \in Seq(Seq(Entries)) /\ path' # <<>> /\ Len(path') = Len(path) + 1
      /\ path'[1] = Listing[d] /\ path'[2] = Tail(path[1])
      /\ \A i \in 2 .. Len(path) : path'[i + 1] = path[i]
      /\ DOMAIN path' = 1 .. Len(path) + 1
  <2>0. Head(path) = path[1]
    BY <1>1
  <2>1. /\ OneDone \in Seq(Seq(Entries)) /\ Len(OneDone) = Len(path) /\ OneDone[1] = Tail(path[1])
        /\ \A i \in 2 .. Len(path) : OneDone[i] = path[i]
    BY <2>0, OneDoneIs
  <2>2. /\ path' \in Seq(Seq(Entries)) /\ path' # <<>> /\ Len(path') = Len(OneDone) + 1
        /\ path'[1] = Listing[d]
        /\ \A i \in 1 .. Len(OneDone) : path'[i + 1] = OneDone[i]
    BY <1>3, <2>1, Pushed
  <2>3. path'[1 + 1] = OneDone[1]
    BY ONLY <2>1, <2>2, Len(path) \in Nat \ {0}, <1>1
  <2> QED
    BY <1>1, <2>1, <2>2, <2>3
<1>5. \A i \in Nat : Level(i + 1)' = Level(i) /\ Level(1)' = recurlevel + 1 /\ Level(1) = recurlevel
  BY DEF Level
<1>6. BaseLevel' = BaseLevel
  <2>1. BaseLevel = recurlevel - (Len(path) - 1) /\ BaseLevel' = recurlevel' - (Len(path') - 1)
    BY <1>4 DEF BaseLevel, Level
  <2> QED
    BY ONLY <1>1, <1>4, <2>1, recurlevel \in Nat, recurlevel' = recurlevel + 1
<1>7. ASSUME NEW f \in Files, InRemaining(f)' PROVE InRemaining(f)
  <2>0. PICK i \in DOMAIN path' : \E j \in DOMAIN path'[i] : f \in Below(path'[i][j], recurlevel' - (i - 1))
    BY <1>7 DEF InRemaining, Level
  <2>1. PICK j \in DOMAIN path'[i] : f \in Below(path'[i][j], recurlevel' - (i - 1))
    BY <2>0
  <2>2. CASE i = 1
    <3>1. j \in DOMAIN Listing[d] /\ f \in Below(Listing[d][j], recurlevel + 1)
      BY <1>4, <2>1, <2>2
    <3>2. f \in Below(d, recurlevel)
      BY ONLY <3>1, BelowDir, recurlevel \in Int, d \in Dirs, MayDescend(recurlevel)
    <3> QED
      BY <1>1, <1>5, <3>2 DEF InRemaining
  <2>3. CASE i = 2
    <3>0. j \in 1 .. Len(path[1]) - 1
      BY <1>0, <1>4, <2>1, <2>3
    <3>1. j + 1 \in DOMAIN path[1] /\ path'[2][j] = path[1][j + 1] /\ recurlevel' - (2 - 1) = recurlevel
      BY <1>1, <1>2, <1>4, <3>0
    <3> QED
      BY <1>1, <1>5, <2>1, <2>3, <3>1 DEF InRemaining
  <2>4. CASE i \notin {1, 2}
    <3>1. i \in 3 .. Len(path) + 1
      BY <1>1, <1>4, <2>0, <2>4
    <3>2. i - 1 \in 2 .. Len(path) /\ (i - 1) + 1 = i
      BY <1>1, <3>1
    <3>3. path'[i] = path[i - 1] /\ i - 1 \in DOMAIN path
      <4>1. path'[(i - 1) + 1] = path[i - 1]
        BY ONLY <1>4, <3>2
      <4>2. i - 1 \in 1 .. Len(path)
        BY ONLY <3>1, <3>2
      <4> QED
        BY ONLY <1>0, <3>2, <4>1, <4>2
    <3>4. recurlevel' - (i - 1) = Level(i - 1)
      BY <3>1 DEF Level
    <3> QED
      BY <2>1, <3>3, <3>4 DEF InRemaining
  <2> QED
    BY <2>2, <2>3, <2>4
<1>8. ASSUME NEW f \in Files, InRemaining(f) PROVE InRemaining(f)'
  <2>0. PICK i \in DOMAIN path : \E j \in DOMAIN path[i] : f \in Below(path[i][j], Level(i))
    BY <1>8 DEF InRemaining
  <2>1. PICK j \in DOMAIN path[i] : f \in Below(path[i][j], Level(i))
    BY <2>0
  <2>2. ASSUME NEW k \in DOMAIN path', NEW l \in DOMAIN path'[k],
               f \in Below(path'[k][l], recurlevel' - (k - 1))
        PROVE  InRemaining(f)'
    BY <2>2 DEF InRemaining, Level
  <2>3. CASE i = 1 /\ j = 1
    <3>1. f \in Below(d, recurlevel)
      BY <1>1, <1>5, <2>1, <2>3
    <3>2. PICK l \in DOMAIN Listing[d] : f \in Below(Listing[d][l], recurlevel + 1)
      BY <3>1, BelowDir
    <3>3. 1 \in DOMAIN path' /\ recurlevel' - (1 - 1) = recurlevel + 1
      BY <1>1, <1>4
    <3> QED
      BY <1>4, <2>2, <3>2, <3>3
  <2>4. CASE i = 1 /\ j # 1
    <3>0. j \in 2 .. Len(path[1])
      BY <1>1, <1>2, <2>1, <2>4
    <3>4. j - 1 \in 1 .. Len(path[1]) - 1 /\ (j - 1) + 1 = j
      BY ONLY <1>2, <3>0
    <3>5. recurlevel' - (2 - 1) = recurlevel
      BY ONLY recurlevel \in Nat, recurlevel' = recurlevel + 1
    <3>6. 2 \in DOMAIN path'
      BY ONLY <1>1, <1>4
    <3>1. /\ j - 1 \in 1 .. Len(path[1]) - 1 /\ (j - 1) + 1 = j /\ recurlevel' - (2 - 1) = recurlevel
          /\ 2 \in DOMAIN path'
      BY ONLY <3>4, <3>5, <3>6
    <3>2. j - 1 \in DOMAIN path'[2] /\ path'[2][j - 1] = path[1][j]
      BY <1>0, <1>2, <1>4, <3>1
    <3> QED
      BY <1>5, <2>1, <2>2, <2>4, <3>1, <3>2
  <2>5. CASE i # 1
    <3>0. i \in 2 .. Len(path)
      BY <1>1, <2>0, <2>5
    <3>1. i + 1 \in DOMAIN path' /\ path'[i + 1] = path[i] /\ recurlevel' - ((i + 1) - 1) = Level(i)
      <4>1. i \in Int /\ i + 1 \in 1 .. Len(path) + 1
        BY <1>1, <3>0
      <4>2. path'[i + 1] = path[i] /\ i + 1 \in DOMAIN path'
        BY ONLY <1>4, <3>0, <4>1
      <4>3. recurlevel' - ((i + 1) - 1) = Level(i)
        BY <4>1 DEF Level
      <4> QED
        BY ONLY <4>2, <4>3
    <3> QED
      BY <2>1, <2>2, <3>1
  <2> QED
    BY <2>3, <2>4, <2>5
<1> QED
  BY <1>6, <1>7, <1>8, RemainingIs

\* So does coming back from one of which nothing is left.
LEMMA RemainingLeave ==
  ASSUME PathOK, recurlevel \in Nat, path # <<>>, path' = Tail(path),
         recurlevel' = IF Tail(path) = <<>> THEN recurlevel ELSE recurlevel - 1
  PROVE  /\ Remaining' \subseteq Remaining
         /\ Head(path) = <<>> => Remaining' = Remaining
         /\ BaseLevel' = BaseLevel
<1> USE DEF PathOK
<1>1. /\ path' \in Seq(Seq(Entries)) /\ Len(path) \in Nat \ {0} /\ Len(path') = Len(path) - 1
      /\ \A i \in 1 .. Len(path) - 1 : path'[i] = path[i + 1]
      /\ Head(path) = path[1]
  BY Popped
<1>2. path' # <<>> => recurlevel' = recurlevel - 1 /\ Len(path') \in Nat \ {0}
  BY <1>1, Popped
<1>3. path' = <<>> => recurlevel' = recurlevel /\ Len(path') = 0
  OBVIOUS
<1>4. BaseLevel' = BaseLevel
  <2>0. BaseLevel = recurlevel - (Len(path) - 1)
    BY DEF BaseLevel, Level
  <2>1. CASE path' = <<>>
    <3>1. BaseLevel' = recurlevel' /\ Len(path) = 1
      BY <1>1, <1>3, <2>1 DEF BaseLevel
    <3> QED
      BY <1>3, <2>0, <2>1, <3>1
  <2>2. CASE path' # <<>>
    <3>1. BaseLevel' = recurlevel' - (Len(path') - 1)
      BY <2>2 DEF BaseLevel, Level
    <3> QED
      BY ONLY <1>1, <1>2, <2>0, <2>2, <3>1, recurlevel \in Nat
  <2> QED
    BY <2>1, <2>2
<1>5. ASSUME NEW f \in Files, InRemaining(f)' PROVE InRemaining(f)
  <2>0. PICK i \in DOMAIN path' : \E j \in DOMAIN path'[i] : f \in Below(path'[i][j], recurlevel' - (i - 1))
    BY <1>5 DEF InRemaining, Level
  <2>1. PICK j \in DOMAIN path'[i] : f \in Below(path'[i][j], recurlevel' - (i - 1))
    BY <2>0
  <2>2. i \in 1 .. Len(path) - 1 /\ recurlevel' = recurlevel - 1
    BY <1>1, <1>2, <1>3, <2>0
  <2>3. i + 1 \in DOMAIN path /\ path'[i] = path[i + 1] /\ recurlevel' - (i - 1) = Level(i + 1)
    BY <1>1, <2>2 DEF Level
  <2> QED
    BY <2>1, <2>3 DEF InRemaining
<1>6. ASSUME Head(path) = <<>>, NEW f \in Files, InRemaining(f) PROVE InRemaining(f)'
  <2>0. PICK i \in DOMAIN path : \E j \in DOMAIN path[i] : f \in Below(path[i][j], Level(i))
    BY <1>6 DEF InRemaining
  <2>1. i \in 2 .. Len(path)
    BY <1>1, <1>6, <2>0
  <2>2. i - 1 \in DOMAIN path' /\ path'[i - 1] = path[i] /\ path' # <<>>
    <3>1. i - 1 \in 1 .. Len(path) - 1 /\ (i - 1) + 1 = i
      BY <2>1
    <3> QED
      BY <1>1, <3>1
  <2>3. recurlevel' - ((i - 1) - 1) = Level(i)
    <3>1. recurlevel' = recurlevel - 1 /\ i \in Nat
      BY <1>1, <1>2, <2>1, <2>2
    <3> QED
      BY <3>1 DEF Level
  <2> QED
    BY <2>0, <2>2, <2>3 DEF InRemaining, Level
<1> QED
  BY <1>4, <1>5, <1>6, RemainingIs

-----------------------------------------------------------------------------
(* PruneFiles has nothing to prune                                         *)

\* An entry is done: if it is a file, it is marked.
LEMMA VisitsOneDone ==
  ASSUME SafeInv, Visits, path # <<>>, Head(path) # <<>>, thread = "scan",
         path' = OneDone, UNCHANGED <<recurlevel, thread, shutdownsig>>,
         NEW S \in SUBSET Files, Below(Head(Head(path)), recurlevel) \subseteq S,
         S \subseteq Below(Head(Head(path)), recurlevel),
         DOMAIN filetree' = DOMAIN filetree \cup S,
         \A g \in DOMAIN filetree \ S : filetree'[g].scantime = filetree[g].scantime,
         \A g \in S : filetree'[g].scantime = "now"
  PROVE  Visits'
<1>1. /\ Remaining' \subseteq Remaining
      /\ \A f \in Remaining : f \in Remaining' \/ f \in Below(Head(Head(path)), recurlevel)
      /\ BaseLevel' = BaseLevel
  BY RemainingOneDone DEF SafeInv, TypeOK
<1>2. S \subseteq Remaining
  BY RemainingTaken DEF SafeInv, TypeOK
<1>3. Visible(BaseLevel)' = Visible(BaseLevel)
  BY <1>1
<1>4. Remaining' \subseteq Visible(BaseLevel)'
  BY <1>1, <1>3 DEF Visits
<1>5. \A g \in DOMAIN filetree' : filetree'[g].scantime # "never" => g \in Visible(BaseLevel)'
  BY <1>2, <1>3 DEF Visits
<1>6. ~shutdownsig' => \A g \in DOMAIN filetree' : filetree'[g].scantime = "before" => g \in Remaining'
  BY <1>1 DEF Visits
<1> QED
  BY <1>4, <1>5, <1>6 DEF Visits

LEMMA VisitsFileDone ==
  ASSUME SafeInv, Visits, NEW f \in Files, path # <<>>, Head(path) # <<>>, f = Head(Head(path)),
         thread = "scan", path' = OneDone, UNCHANGED <<recurlevel, thread, shutdownsig>>,
         NEW node, SetNode(f, node), node.scantime = "now"
  PROVE  Visits'
<1>1. Below(Head(Head(path)), recurlevel) = {f}
  BY BelowFile DEF SafeInv, TypeOK
<1>2. /\ DOMAIN filetree' = DOMAIN filetree \cup {f}
      /\ \A g \in DOMAIN filetree \ {f} : filetree'[g].scantime = filetree[g].scantime
      /\ \A g \in {f} : filetree'[g].scantime = "now"
  BY DEF SetNode
<1> QED
  BY <1>1, <1>2, VisitsOneDone

LEMMA VisitsEmpty == path = <<>> => Remaining = {}
BY DEF Remaining

LEMMA VisitsEmptyNext == path' = <<>> => Remaining' = {}
BY DEF Remaining

LEMMA VisitsSame ==
  ASSUME Visits, UNCHANGED <<path, recurlevel, thread, filetree>>, shutdownsig' = shutdownsig \/ shutdownsig'
  PROVE  Visits'
<1>1. Remaining' = Remaining /\ Visible(BaseLevel)' = Visible(BaseLevel)
  BY DEF Remaining, BaseLevel, Level
<1> QED
  BY <1>1 DEF Visits

LEMMA VisitsBegin ==
  ASSUME SafeInv, Visits, BeginScan, ~amiss'
  PROVE  Visits'
<1>1. /\ path' = <<Listing[Base]>> /\ recurlevel' = recurlevel /\ path = <<>> /\ thread = "loop"
      /\ thread' = "scan"
  BY DEF BeginScan, SafeInv, PathOK
<1>2. BaseLevel = recurlevel /\ BaseLevel' = recurlevel
  <2>1. Len(path') = 1 /\ path' # <<>>
    BY <1>1
  <2> QED
    BY <1>1, <2>1 DEF BaseLevel, Level, SafeInv, TypeOK
<1>3. Remaining' = Visible(recurlevel)
  <2>1. DOMAIN path' = {1} /\ path'[1] = Listing[Base] /\ Level(1)' = recurlevel
    BY <1>1 DEF Level, SafeInv, TypeOK
  <2> QED
    BY <2>1 DEF Remaining, Visible
<1>4. ASSUME NEW f \in DOMAIN filetree', filetree'[f].scantime # "never"
      PROVE  f \in Visible(recurlevel)
  <2>1. f \in DOMAIN filetree /\ filetree[f].scantime # "never"
    BY <1>4 DEF BeginScan, SafeInv, TypeOK, FileNode
  <2> QED
    BY <1>1, <1>2, <2>1 DEF Visits
<1> QED
  BY <1>1, <1>2, <1>3, <1>4 DEF Visits

LEMMA VisitsUnmarked ==
  ASSUME Visits, NEW f, NEW node, SetNode(f, node),
         node.scantime = IF f \in DOMAIN filetree THEN filetree[f].scantime ELSE "never",
         UNCHANGED <<path, recurlevel, thread, shutdownsig>>
  PROVE  Visits'
<1>1. Remaining' = Remaining /\ Visible(BaseLevel)' = Visible(BaseLevel)
  BY DEF Remaining, BaseLevel, Level
<1>2. ASSUME NEW g \in DOMAIN filetree', filetree'[g].scantime # "never"
      PROVE  g \in DOMAIN filetree /\ filetree'[g].scantime = filetree[g].scantime
  BY <1>2 DEF SetNode
<1> QED
  BY <1>1, <1>2 DEF Visits

\* A file that is taken is marked, or read first.
LEMMA VisitsFile ==
  ASSUME SafeInv, Visits, NEW f \in Files, Skip(f) \/ Check(f)
  PROVE  Visits'
<1> USE DEF SafeInv
<1>1. /\ path # <<>> /\ Head(path) # <<>> /\ f = Head(Head(path)) /\ thread = "scan"
      /\ UNCHANGED <<recurlevel, thread, shutdownsig>>
  BY DEF Skip, Check, Take
<1>2. CASE Skip(f)
  <2> DEFINE node == [filetree[f] EXCEPT !.scantime = "now",
                   !.idledelay = IF filetree[f].offset = -1 THEN @ ELSE IdleNext(@)]
  <2>1. filetree[f] \in FileNode
    BY <1>2 DEF Skip, Known, TypeOK
  <2>2. node.scantime = "now" /\ SetNode(f, node) /\ path' = OneDone
    BY <1>2, <2>1 DEF Skip, FileNode
  <2> HIDE DEF node
  <2> QED
    BY <1>1, <2>2, VisitsFileDone
<1>3. CASE Check(f)
  <2> DEFINE old == IF Known(f) THEN filetree[f]
                    ELSE [offset |-> 0, idledelay |-> 0, scantime |-> "never"]
             node(idle) == [old EXCEPT !.offset = IF nextnew THEN Size(f) ELSE @,
                              !.idledelay = IF idle /\ IdleDelay > 0 THEN IdleDelay - 1 ELSE @]
  <2>1. PICK idle \in BOOLEAN :
          IF node(idle).offset < Size(f)
          THEN SetNode(f, node(idle)) /\ UNCHANGED path
          ELSE SetNode(f, [node(idle) EXCEPT !.scantime = "now"]) /\ path' = OneDone
    BY <1>3 DEF Check
  <2>2. old = [offset |-> old.offset, idledelay |-> old.idledelay, scantime |-> old.scantime]
        /\ old.scantime = IF f \in DOMAIN filetree THEN filetree[f].scantime ELSE "never"
    BY DEF Known, TypeOK, FileNode
  <2>3. node(idle).scantime = old.scantime /\ [node(idle) EXCEPT !.scantime = "now"].scantime = "now"
    BY <2>2
  <2> DEFINE n == node(idle)
             marked == [node(idle) EXCEPT !.scantime = "now"]
  <2>4. \/ SetNode(f, n) /\ UNCHANGED path
        \/ SetNode(f, marked) /\ path' = OneDone
    BY <2>1
  <2>5. n.scantime = (IF f \in DOMAIN filetree THEN filetree[f].scantime ELSE "never")
        /\ marked.scantime = "now"
    BY <2>2, <2>3
  <2> HIDE DEF n, marked, node, old
  <2>6. CASE SetNode(f, n) /\ UNCHANGED path
    BY <1>1, <2>5, <2>6, VisitsUnmarked
  <2>7. CASE SetNode(f, marked) /\ path' = OneDone
    BY <1>1, <2>5, <2>7, VisitsFileDone
  <2> QED
    BY <2>4, <2>6, <2>7
<1> QED
  BY <1>2, <1>3

\* A directory is gone into or, if it is too deep, hides nothing that is visited.
LEMMA VisitsEnter ==
  ASSUME SafeInv, Visits, NEW d \in Dirs, Enter(d), ~amiss'
  PROVE  Visits'
<1>1. /\ path # <<>> /\ Head(path) # <<>> /\ d = Head(Head(path)) /\ thread = "scan"
      /\ UNCHANGED <<filetree, thread, shutdownsig>> /\ PathOK /\ recurlevel \in Nat
  BY DEF Enter, Take, SafeInv, TypeOK
<1>2. CASE MayDescend(recurlevel)
  <2>1. path' = <<Listing[d]>> \o OneDone /\ recurlevel' = recurlevel + 1
    BY <1>2 DEF Enter, MayDescend
  <2>2. Remaining' = Remaining /\ BaseLevel' = BaseLevel
    BY <1>1, <1>2, <2>1, RemainingEnter
  <2>3. Visible(BaseLevel)' = Visible(BaseLevel)
    BY <2>2
  <2> QED
    BY <1>1, <2>2, <2>3 DEF Visits
<1>3. CASE ~MayDescend(recurlevel)
  <2>1. path' = OneDone /\ recurlevel' = recurlevel
    BY <1>3 DEF Enter, MayDescend
  <2>2. Below(d, recurlevel) = {}
    BY <1>1, <1>3, BelowDir
  <2> DEFINE S == {}
  <2>3. /\ S \in SUBSET Files /\ DOMAIN filetree' = DOMAIN filetree \cup S
        /\ \A g \in DOMAIN filetree \ S : filetree'[g].scantime = filetree[g].scantime
        /\ \A g \in S : filetree'[g].scantime = "now"
    BY <1>1
  <2> QED
    BY <1>1, <2>1, <2>2, <2>3, VisitsOneDone
<1> QED
  BY <1>2, <1>3

LEMMA VisitsLeave ==
  ASSUME SafeInv, Visits, Leave
  PROVE  Visits'
<1>1. /\ path # <<>> /\ path' = Tail(path) /\ PathOK /\ recurlevel \in Nat
      /\ recurlevel' = (IF Tail(path) = <<>> THEN recurlevel ELSE recurlevel - 1)
      /\ UNCHANGED <<filetree, thread, shutdownsig>> /\ (Head(path) = <<>> \/ shutdownsig)
  BY DEF Leave, SafeInv, TypeOK
<1>2. /\ Remaining' \subseteq Remaining
      /\ Head(path) = <<>> => Remaining' = Remaining
      /\ BaseLevel' = BaseLevel
  BY <1>1, RemainingLeave
<1>3. Visible(BaseLevel)' = Visible(BaseLevel)
  BY <1>2
<1> QED
  BY <1>1, <1>2, <1>3 DEF Visits

\* The rest of the steps.
LEMMA VisitsStep ==
  ASSUME SafeInv, Visits, Next, ~amiss'
  PROVE  Visits'
<1>1. CASE thread' \notin {"loop", "scan"} /\ path' = <<>>
  BY <1>1, VisitsEmptyNext DEF Visits
<1>2. thread # "scan" => path = <<>>
  BY DEF SafeInv, PathOK
<1>3. CASE (\E f \in Files : Grow(f)) \/ WriteRecord \/ Shutdown
  BY <1>3, VisitsSame DEF Grow, WriteRecord, Shutdown
<1>4. CASE LeaveLoop \/ Exit \/ WriteFails \/ ProcessEnds \/ Crash \/ Boot
  BY <1>1, <1>2, <1>4 DEF LeaveLoop, Exit, WriteFails, ProcessEnds, Crash, Down, Boot, SafeInv, PathOK
<1>5. CASE StartThread
  <2>1. \A f \in DOMAIN filetree' : filetree'[f].scantime = "never"
    BY <1>5 DEF StartThread, Recovered
  <2>2. path' = <<>> /\ thread' = "loop"
    BY <1>2, <1>5 DEF StartThread
  <2> QED
    BY <2>1, <2>2, VisitsEmptyNext DEF Visits
<1>6. CASE EndScan
  <2>1. /\ path = <<>> /\ path' = <<>> /\ recurlevel' = recurlevel /\ thread' = "loop" /\ thread = "scan"
        /\ \A f \in DOMAIN filetree' : f \in DOMAIN filetree /\ filetree'[f] = filetree[f]
    BY <1>6 DEF EndScan, Kept
  <2>2. Visible(BaseLevel)' = Visible(BaseLevel)
    BY <2>1 DEF BaseLevel
  <2> QED
    BY <2>1, <2>2, VisitsEmptyNext DEF Visits
<1>7. CASE FileDone
  <2> DEFINE offset == IF MayRead THEN Stop ELSE reading.offset
             node == [filetree[reading.file] EXCEPT !.offset = offset, !.scantime = "now"]
  <2>1. /\ reading # NotReading /\ SetNode(reading.file, node) /\ path' = OneDone
        /\ UNCHANGED <<recurlevel, thread, shutdownsig>>
    BY <1>7 DEF FileDone, Return
  <2>2. /\ reading.file \in Files /\ path # <<>> /\ Head(path) # <<>>
        /\ reading.file = Head(Head(path)) /\ thread = "scan" /\ filetree[reading.file] \in FileNode
    BY <2>1 DEF SafeInv, TypeOK, ReadingOK
  <2>3. node.scantime = "now"
    BY <2>2 DEF FileNode
  <2> HIDE DEF node
  <2> QED
    BY <2>1, <2>2, <2>3, VisitsFileDone
<1>8. CASE ReadFails \/ \E f \in Files : StatFails(f)
  BY <1>8 DEF ReadFails, StatFails
<1> QED
  BY <1>3, <1>4, <1>5, <1>6, <1>7, <1>8, VisitsBegin, VisitsFile, VisitsEnter, VisitsLeave
     DEF Next, ScanThread, ScanFiles, ProcessFile

-----------------------------------------------------------------------------
(* No record is written twice                                              *)

NoneTwice == \A f \in Files, n \in 1 .. MaxRecords : fate[f][n] # "twice"

\* No record becomes written by the step, or written again.
FateKept ==
  \A f \in Files, n \in 1 .. MaxRecords :
    fate'[f][n] \in {"written", "twice"} => fate'[f][n] = fate[f][n]

LEMMA FateKeptStep ==
  ASSUME SafeInv, Next, ~WriteRecord
  PROVE  FateKept
<1> USE DEF SafeInv
<1>1. CASE UNCHANGED fate
  BY <1>1 DEF FateKept
<1>2. ASSUME NEW g \in Files, Check(g) PROVE FateKept
  BY <1>2 DEF Check, FateKept, TypeOK
<1>3. CASE WriteFails
  <2>1. /\ reading.file \in Files /\ Record(reading.offset) \in 1 .. MaxRecords
        /\ fate' = [fate EXCEPT ![reading.file][Record(reading.offset)] =
                     IF fate[reading.file][Record(reading.offset)] = "none" THEN "refused"
                     ELSE fate[reading.file][Record(reading.offset)]]
    BY <1>3, NextRecord DEF WriteFails, Becomes, Record
  <2> QED
    BY <2>1 DEF FateKept, TypeOK
<1> QED
  BY <1>1, <1>2, <1>3 DEF Next, ScanThread, StartThread, BeginScan, EndScan, LeaveLoop, Exit, ScanFiles,
     ProcessFile, Skip, StatFails, Enter, Leave, FileDone, ReadFails, Grow,
     Boot, Shutdown, ProcessEnds, Crash, Down

LEMMA NoneTwiceKept == ASSUME NoneTwice, FateKept PROVE NoneTwice'
BY DEF NoneTwice, FateKept

\* The scanner goes on where it was, or further, or has given up the file.
Further(f, old, new) == new = old \/ new = -1 \/ (old # -1 /\ old <= new)

\* After the step the scanner is behind all records written to a file.
BehindAfter(f, offset) ==
  offset = -1 \/ \A n \in 1 .. MaxRecords : fate'[f][n] = "written" => 2 * n <= offset

LEMMA BehindKept ==
  ASSUME FateKept, NEW f \in Files, NEW old \in Int, NEW new \in Int, Further(f, old, new),
         Behind(f, old)
  PROVE  BehindAfter(f, new)
BY DEF Further, Behind, BehindAfter, FateKept

LEMMA BegunKept ==
  ASSUME FateKept, NEW f \in Files, Begun(f)'
  PROVE  Begun(f)
BY DEF Begun, FateKept

\* A thread goes on, and with it every file of its list.
LEMMA RememberedOn ==
  ASSUME SafeInv, Remembered, FateKept, thread # "closed", thread' # "closed",
         \A f \in DOMAIN filetree :
           /\ f \in DOMAIN filetree' /\ Offset(f)' \in Int
           /\ Further(f, Offset(f), Offset(f)')
  PROVE  Remembered'
<1> SUFFICES ASSUME NEW f \in Files, Begun(f)'
             PROVE  f \in DOMAIN filetree' /\ Behind(f, Offset(f))'
  BY DEF Remembered
<1>1. f \in DOMAIN filetree /\ Behind(f, Offset(f))
  BY BegunKept DEF Remembered
<1>2. Offset(f) \in Int
  BY <1>1 DEF Offset, SafeInv, TypeOK, ReadingOK, FileNode
<1>3. BehindAfter(f, Offset(f)')
  BY <1>1, <1>2, BehindKept
<1> QED
  BY <1>1, <1>3 DEF BehindAfter, Behind

\* No thread runs, and the state file is left alone.
LEMMA RememberedOff ==
  ASSUME SafeInv, Remembered, FateKept, thread = "closed", thread' = "closed", UNCHANGED statefile
  PROVE  Remembered'
<1> SUFFICES ASSUME NEW f \in Files, Begun(f)'
             PROVE  statefile' # NoState /\ f \in DOMAIN statefile' /\ Behind(f, statefile[f])'
  BY DEF Remembered
<1>1. statefile # NoState /\ f \in DOMAIN statefile /\ Behind(f, statefile[f])
  BY BegunKept DEF Remembered
<1> QED
  BY <1>1 DEF Behind, FateKept

\* The state file takes over the list when the thread ends, and the list the state
\* file when it begins.
LEMMA RememberedClosing ==
  ASSUME SafeInv, Remembered, Exit, ~amiss', FateKept
  PROVE  Remembered'
<1> USE DEF SafeInv
<1>1. /\ thread = "exit" /\ thread' = "closed"
      /\ statefile' = [f \in DOMAIN filetree |-> filetree[f].offset]
  BY DEF Exit, SaveState
<1>2. reading = NotReading
  BY <1>1 DEF TypeOK
<1>3. statefile' # NoState
  <2>1. DOMAIN filetree \in SUBSET Files /\ statefile' \in [DOMAIN filetree -> Int]
    BY <1>1 DEF TypeOK, FileNode
  <2> QED
    BY <2>1, ScanAssumption DEF ScanAssumption
<1>4. ASSUME NEW f \in Files, Begun(f)'
      PROVE  f \in DOMAIN statefile' /\ Behind(f, statefile[f])'
  <2>1. f \in DOMAIN filetree /\ Behind(f, Offset(f))
    BY <1>1, <1>4, BegunKept DEF Remembered
  <2>2. Offset(f) = filetree[f].offset /\ filetree'[f] = filetree[f]
    BY <1>2 DEF Offset, Exit
  <2> QED
    BY <1>1, <2>1, <2>2 DEF Behind, FateKept
<1> QED
  BY <1>1, <1>3, <1>4 DEF Remembered

LEMMA RememberedStarting ==
  ASSUME SafeInv, Remembered, StartThread, FateKept
  PROVE  Remembered'
<1> SUFFICES ASSUME NEW f \in Files, Begun(f)'
             PROVE  f \in DOMAIN filetree' /\ Behind(f, Offset(f))'
  BY DEF Remembered, StartThread
<1>1. statefile # NoState /\ f \in DOMAIN statefile /\ Behind(f, statefile[f])
  BY BegunKept DEF Remembered, StartThread
<1>2. f \in DOMAIN filetree' /\ filetree'[f].offset = statefile[f]
  BY <1>1 DEF StartThread, Recovered
<1>3. reading' = NotReading
  BY DEF StartThread, SafeInv, TypeOK
<1> QED
  BY <1>1, <1>2, <1>3 DEF Offset, Behind, FateKept

\* A scan ends, and nothing is pruned.
LEMMA NothingPruned ==
  ASSUME Visits, EndScan
  PROVE  filetree' = [f \in DOMAIN filetree |-> filetree[f]]
<1>1. \A f \in DOMAIN filetree : filetree[f].scantime # "before"
  BY VisitsEmpty DEF Visits, EndScan
<1> QED
  BY <1>1 DEF EndScan, Kept

\* The offset of one node is set, and no file is being read after the step.
LEMMA OffsetsSet ==
  ASSUME SafeInv, Remembered, FateKept, thread # "closed", thread' # "closed",
         NEW f \in Files, NEW node, SetNode(f, node), reading' = NotReading,
         node.offset \in Int, reading # NotReading => reading.file = f,
         f \in DOMAIN filetree => Further(f, Offset(f), node.offset)
  PROVE  Remembered'
<1>1. ASSUME NEW g \in DOMAIN filetree
      PROVE  /\ g \in DOMAIN filetree' /\ Offset(g)' \in Int
             /\ Further(g, Offset(g), Offset(g)')
  <2>1. g \in DOMAIN filetree' /\ Offset(g)' = filetree'[g].offset
        /\ filetree'[g] = IF g = f THEN node ELSE filetree[g]
    BY DEF SetNode, Offset
  <2>2. CASE g = f
    BY <2>1, <2>2 DEF Further
  <2>3. CASE g # f
    <3>1. Offset(g) = filetree[g].offset /\ filetree[g].offset \in Int
      BY <2>3 DEF Offset, SafeInv, TypeOK, FileNode
    <3> QED
      BY <2>1, <2>3, <3>1 DEF Further
  <2> QED
    BY <2>2, <2>3
<1> QED
  BY <1>1, RememberedOn

LEMMA RememberedFile ==
  ASSUME SafeInv, Remembered, FateKept, NEW f \in Files, Skip(f) \/ Check(f)
  PROVE  Remembered'
<1> USE DEF SafeInv
<1>1. /\ thread = "scan" /\ thread' = "scan" /\ reading = NotReading
      /\ f \in DOMAIN filetree => filetree[f] \in FileNode /\ Offset(f) = filetree[f].offset
  BY DEF Skip, Check, Take, TypeOK, Offset
<1>2. CASE Skip(f)
  <2> DEFINE node == [filetree[f] EXCEPT !.scantime = "now",
                   !.idledelay = IF filetree[f].offset = -1 THEN @ ELSE IdleNext(@)]
  <2>1. f \in DOMAIN filetree /\ SetNode(f, node) /\ node.offset = filetree[f].offset
        /\ reading' = NotReading
    BY <1>1, <1>2 DEF Skip, Known, FileNode
  <2> HIDE DEF node
  <2>2. node.offset \in Int /\ Further(f, Offset(f), node.offset)
    BY <1>1, <2>1 DEF FileNode, Further
  <2> QED
    BY <1>1, <2>1, <2>2, OffsetsSet
<1>3. CASE Check(f)
  <2> DEFINE old == IF Known(f) THEN filetree[f]
                    ELSE [offset |-> 0, idledelay |-> 0, scantime |-> "never"]
             node(idle) == [old EXCEPT !.offset = IF nextnew THEN Size(f) ELSE @,
                              !.idledelay = IF idle /\ IdleDelay > 0 THEN IdleDelay - 1 ELSE @]
  <2>1. PICK idle \in BOOLEAN :
          IF node(idle).offset < Size(f)
          THEN /\ SetNode(f, node(idle))
               /\ reading' = [file |-> f, size |-> Size(f), offset |-> node(idle).offset, reccnt |-> 0]
          ELSE SetNode(f, [node(idle) EXCEPT !.scantime = "now"]) /\ UNCHANGED reading
    BY <1>3 DEF Check
  <2> DEFINE n == node(idle)
             marked == [node(idle) EXCEPT !.scantime = "now"]
  <2>2. \/ /\ SetNode(f, n)
           /\ reading' = [file |-> f, size |-> Size(f), offset |-> n.offset, reccnt |-> 0]
        \/ SetNode(f, marked) /\ UNCHANGED reading
    BY <2>1
  <2>3. old = [offset |-> old.offset, idledelay |-> old.idledelay, scantime |-> old.scantime]
        /\ old.offset = (IF f \in DOMAIN filetree THEN filetree[f].offset ELSE 0)
    BY DEF Known, TypeOK, FileNode
  <2>4. n.offset = (IF nextnew THEN Size(f) ELSE old.offset) /\ marked.offset = n.offset
    BY <2>3
  <2> HIDE DEF n, marked, node
  <2>5. n.offset \in Int /\ (f \in DOMAIN filetree => Further(f, Offset(f), n.offset))
    <3>1. Size(f) \in Nat
      BY SizeType
    <3>2. CASE f \notin DOMAIN filetree
      BY <2>3, <2>4, <3>1, <3>2
    <3>3. CASE f \in DOMAIN filetree
      <4>1. filetree[f].offset # -1
        BY <1>3, <3>3 DEF Check, Known
      <4>2. filetree[f].offset \in Int /\ filetree[f].offset <= Size(f)
        BY <1>1, <3>3 DEF OffsetsOK, FileNode
      <4> QED
        BY <1>1, <2>3, <2>4, <3>1, <3>3, <4>1, <4>2 DEF Further
    <3> QED
      BY <3>2, <3>3
  <2>6. CASE SetNode(f, marked) /\ UNCHANGED reading
    BY <1>1, <2>4, <2>5, <2>6, OffsetsSet
  <2>7. CASE /\ SetNode(f, n)
             /\ reading' = [file |-> f, size |-> Size(f), offset |-> n.offset, reccnt |-> 0]
    <3>1. ASSUME NEW g \in DOMAIN filetree
          PROVE  /\ g \in DOMAIN filetree' /\ Offset(g)' \in Int
                 /\ Further(g, Offset(g), Offset(g)')
      <4>1. g \in DOMAIN filetree' /\ filetree'[g] = (IF g = f THEN n ELSE filetree[g])
            /\ Offset(g) = filetree[g].offset /\ filetree[g].offset \in Int
        BY <1>1, <2>7 DEF SetNode, Offset, TypeOK, FileNode
      <4>2. CASE g = f
        <5>1. Offset(g)' = n.offset
          BY <2>7, <4>1, <4>2 DEF Offset
        <5> QED
          BY <2>5, <4>1, <4>2, <5>1
      <4>3. CASE g # f
        BY <2>7, <4>1, <4>3 DEF Offset, Further
      <4> QED
        BY <4>2, <4>3
    <3> QED
      BY <1>1, <3>1, RememberedOn
  <2> QED
    BY <2>2, <2>6, <2>7
<1> QED
  BY <1>2, <1>3

\* ProcessFile returns no offset before the one it has reached.
LEMMA RememberedReturn ==
  ASSUME SafeInv, Remembered, FateKept, FileDone \/ WriteFails
  PROVE  Remembered'
<1> USE DEF SafeInv
<1>1. /\ reading # NotReading /\ reading' = NotReading
      /\ thread = "scan" /\ thread' \in {"scan", "exit"}
      /\ reading \in [file : Files, size : Nat, offset : Nat, reccnt : Nat]
      /\ filetree[reading.file] \in FileNode /\ Offset(reading.file) = reading.offset
  BY DEF FileDone, WriteFails, Return, WholeRecord, MayRead, TypeOK, ReadingOK, Offset
<1> DEFINE offset == IF FileDone THEN IF MayRead THEN Stop ELSE reading.offset ELSE FatalOffset
           done == [filetree[reading.file] EXCEPT !.offset = offset, !.scantime = "now"]
           failed == [filetree[reading.file] EXCEPT !.offset = offset]
<1>2. SetNode(reading.file, done) \/ SetNode(reading.file, failed)
  <2>1. CASE FileDone
    BY <2>1 DEF FileDone, Return
  <2>2. CASE ~FileDone
    BY <2>2 DEF WriteFails
  <2> QED
    BY <2>1, <2>2
<1>3. done.offset = offset /\ failed.offset = offset
  BY <1>1 DEF FileNode
<1>4. offset \in Int /\ Further(reading.file, reading.offset, offset)
  BY <1>1 DEF Stop, FatalOffset, Further
<1> HIDE DEF offset, done, failed
<1> QED
  BY <1>1, <1>2, <1>3, <1>4, OffsetsSet

\* The record that is written is behind all that were.
LEMMA OnceWritten ==
  ASSUME SafeInv, NoneTwice, Remembered, WriteRecord
  PROVE  NoneTwice' /\ Remembered'
<1> USE DEF SafeInv
<1> DEFINE r == Record(reading.offset)
           g == reading.file
<1>1. /\ reading # NotReading /\ thread = "scan" /\ UNCHANGED <<thread, filetree>>
      /\ reading \in [file : Files, size : Nat, offset : Nat, reccnt : Nat]
      /\ reading' = [reading EXCEPT !.offset = @ + 2, !.reccnt = @ + 1]
      /\ g \in DOMAIN filetree /\ reading.offset \in Nat /\ g \in Files
  BY DEF WriteRecord, WholeRecord, MayRead, TypeOK, ReadingOK
<1>2. r \in 1 .. MaxRecords /\ 2 * r = reading.offset + 2
  BY NextRecord DEF WriteRecord
<1>3. fate[g][r] \notin {"written", "twice"}
  <2>1. CASE fate[g][r] = "written"
    <3>1. Behind(g, reading.offset)
      BY <1>1, <1>2, <2>1 DEF Remembered, Begun, Offset
    <3> QED
      BY <1>1, <1>2, <2>1, <3>1 DEF Behind
  <2>2. fate[g][r] # "twice"
    BY <1>1, <1>2 DEF NoneTwice
  <2> QED
    BY <2>1, <2>2
<1>4. fate' = [fate EXCEPT ![g][r] = "written"]
  BY <1>3 DEF WriteRecord, Becomes, Record
<1> HIDE DEF r, g
<1>5. \A f \in Files, n \in 1 .. MaxRecords :
        fate'[f][n] = IF f = g /\ n = r THEN "written" ELSE fate[f][n]
  BY <1>1, <1>2, <1>4 DEF TypeOK
<1>6. reading' # NotReading /\ reading'.file = g /\ reading'.offset = reading.offset + 2
  <2>1. reading'.file = g /\ reading'.offset = reading.offset + 2
    BY <1>1 DEF g
  <2>2. reading'.offset # 0
    BY <1>1, <2>1
  <2> QED
    BY <2>1, <2>2 DEF NotReading
<1>7. ASSUME NEW f \in Files, Begun(f)'
      PROVE  f \in DOMAIN filetree' /\ Behind(f, Offset(f))'
  <2>1. CASE f = g
    <3>1. Offset(f) = reading.offset /\ Offset(f)' = reading.offset + 2
      BY <1>1, <1>6, <2>1 DEF Offset, g
    <3>2. ASSUME NEW n \in 1 .. MaxRecords, fate'[f][n] = "written"
          PROVE  2 * n <= reading.offset + 2
      <4>1. CASE n = r
        BY <1>1, <1>2, <4>1
      <4>2. CASE n # r
        <5>1. fate[f][n] = "written"
          BY <1>5, <3>2, <4>2
        <5>2. Behind(f, reading.offset)
          BY <1>1, <3>1, <5>1 DEF Remembered, Begun
        <5> QED
          BY <1>1, <5>1, <5>2 DEF Behind
      <4> QED
        BY <4>1, <4>2
    <3> QED
      BY <1>1, <2>1, <3>1, <3>2 DEF Behind
  <2>2. CASE f # g
    <3>1. Begun(f)
      BY <1>5, <1>7, <2>2 DEF Begun
    <3>2. Offset(f)' = Offset(f)
      BY <1>1, <1>6, <2>2 DEF Offset, g
    <3>3. f \in DOMAIN filetree /\ Behind(f, Offset(f))
      BY <1>1, <3>1 DEF Remembered
    <3> QED
      BY <1>1, <1>5, <2>2, <3>2, <3>3 DEF Behind
  <2> QED
    BY <2>1, <2>2
<1> QED
  BY <1>1, <1>5, <1>7 DEF NoneTwice, Remembered

LEMMA RememberedStep ==
  ASSUME SafeInv, Visits, Remembered, Next, ~WriteRecord, ~amiss'
  PROVE  Remembered'
<1> USE FateKeptStep DEF SafeInv
<1>1. ASSUME thread # "closed", thread' # "closed", UNCHANGED reading,
             \A f \in DOMAIN filetree : f \in DOMAIN filetree' /\ filetree'[f].offset = filetree[f].offset
      PROVE  Remembered'
  <2>1. ASSUME NEW f \in DOMAIN filetree
        PROVE  Offset(f)' = Offset(f) /\ Offset(f) \in Int
    BY <1>1 DEF Offset, TypeOK, ReadingOK, FileNode
  <2> QED
    BY <1>1, <2>1, RememberedOn DEF Further
<1>2. CASE (\E f \in Files : Grow(f)) \/ Shutdown
  <2>1. UNCHANGED <<filetree, statefile, thread, reading>>
    BY <1>2 DEF Grow, Shutdown
  <2> QED
    BY <1>1, <2>1, RememberedOff
<1>3. CASE Boot \/ ProcessEnds
  BY <1>3, RememberedOff DEF Boot, ProcessEnds, Down, PathOK
<1>4. CASE BeginScan
  <2>1. /\ DOMAIN filetree' = DOMAIN filetree /\ UNCHANGED reading
        /\ thread = "loop" /\ thread' = "scan"
        /\ \A f \in DOMAIN filetree : filetree'[f].offset = filetree[f].offset
    BY <1>4 DEF BeginScan, TypeOK, FileNode
  <2> QED
    BY <1>1, <2>1
<1>5. CASE EndScan
  <2>1. UNCHANGED reading /\ thread = "scan" /\ thread' = "loop"
    BY <1>5 DEF EndScan
  <2> QED
    BY <1>1, <1>5, <2>1, NothingPruned
<1>6. CASE LeaveLoop \/ Leave \/ \E d \in Dirs : Enter(d)
  <2>1. /\ UNCHANGED <<filetree, reading>> /\ thread # "closed" /\ thread' # "closed"
    BY <1>6 DEF LeaveLoop, Leave, Enter, Take
  <2> QED
    BY <1>1, <2>1
<1>7. CASE ReadFails \/ Crash \/ \E f \in Files : StatFails(f)
  BY <1>7 DEF ReadFails, Crash, StatFails
<1> QED
  BY <1>2, <1>3, <1>4, <1>5, <1>6, <1>7, RememberedStarting, RememberedClosing,
     RememberedFile, RememberedReturn
     DEF Next, ScanThread, ScanFiles, ProcessFile

LEMMA OnceInit == Init => OnceInv
<1> SUFFICES ASSUME Init PROVE OnceInv
  OBVIOUS
<1>1. WrittenOnce /\ Remembered
  BY DEF Init, WrittenOnce, Remembered, Begun
<1>2. Visits
  BY VisitsEmpty DEF Init, Visits
<1> QED
  BY <1>1, <1>2 DEF OnceInv

LEMMA OnceStep == SafeInv /\ OnceInv /\ [Next]_vars => OnceInv'
<1> SUFFICES ASSUME SafeInv, OnceInv, [Next]_vars, ~amiss'
             PROVE  WrittenOnce' /\ Remembered' /\ Visits'
  BY DEF OnceInv
<1>1. CASE UNCHANGED vars
  <2>1. NoneTwice' /\ Remembered' /\ Visits'
    BY <1>1 DEF vars, OnceInv, WrittenOnce, NoneTwice, Remembered, Begun, Behind, Offset, Visits,
       Remaining, BaseLevel, Level
  <2> QED
    BY <2>1 DEF WrittenOnce, NoneTwice
<1>2. CASE Next
  <2>1. ~amiss
    BY <1>2 DEF Next, ScanThread, StartThread, BeginScan, EndScan, LeaveLoop, Exit, SaveState, ScanFiles,
       ProcessFile, Skip, StatFails, Check, Enter, Leave, FileDone, ReadFails, WriteRecord, WriteFails,
       Grow, Boot, Shutdown, ProcessEnds, Crash, Down
  <2>2. NoneTwice /\ Remembered /\ Visits
    BY <2>1 DEF OnceInv, WrittenOnce, NoneTwice
  <2>3. NoneTwice' /\ Remembered'
    <3>1. CASE WriteRecord
      BY <2>2, <3>1, OnceWritten
    <3>2. CASE ~WriteRecord
      BY <1>2, <2>2, <3>2, FateKeptStep, NoneTwiceKept, RememberedStep
    <3> QED
      BY <3>1, <3>2
  <2>4. Visits'
    BY <1>2, <2>2, VisitsStep
  <2> QED
    BY <2>3, <2>4 DEF WrittenOnce, NoneTwice
<1> QED
  BY <1>1, <1>2

\* As long as nothing went amiss, no record is written into the ring twice, whatever
\* errors end the thread and however often it and the process are started again.
THEOREM WrittenOnlyOnce == Spec => []WrittenOnce
<1>1. OnceInv => WrittenOnce
  BY DEF OnceInv, WrittenOnce
<1> QED
  BY <1>1, Safety, OnceInit, OnceStep, PTL DEF Spec
=============================================================================
