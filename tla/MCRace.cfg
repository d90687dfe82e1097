SPECIFICATION Spec
CONSTANTS
  MaxPackets = 4
  MaxSkipped = 2
  ClockTies = FALSE
  DataFirst = FALSE
  MaxBurst = 2
  MaxWrites = 7
INVARIANTS TypeOK NotTorn
PROPERTIES ForwardOnly GapOnlyIfEvicted CatchesUp
CHECK_DEADLOCK FALSE
