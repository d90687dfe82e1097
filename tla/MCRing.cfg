SPECIFICATION Spec
CONSTANTS
  s1 = s1
  s2 = s2
  r1 = r1
  NoStream = NoStream
  MaxPackets = 3
  Streams = {s1, s2}
  Readers = {r1}
  Accepts <- OneReader
  DataTimes <- Times
  UserIds = {8}
  RingIdMaximum = 3
  MaxWrites = 5
  MaxClock = 2
  ClockMayStepBack = FALSE
INVARIANTS TypeOK WindowExact StreamIndexExact ChainExact FoundUnlessFull
PROPERTIES ImplementsLog NothingSkipped
CHECK_DEADLOCK FALSE
