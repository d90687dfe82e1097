SPECIFICATION Spec
CONSTANTS
  Files = {"f"}
  Dirs = {"base", "sub"}
  Base = "base"
  Listing <- Tree
  MaxRecords = 3
  FileMaxRecs = 2
  IdleDelay = 2
  MaxRecur <- NoLimit
  MaxRecurDepth = 2
  InitCurrentState = TRUE
  MaxFaults = 2
  NoState = NoState
  NoFile = NoFile
INVARIANTS TypeOK NothingPassedBy WrittenOnce
PROPERTY EventuallyRead
CHECK_DEADLOCK FALSE
