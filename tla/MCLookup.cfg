SPECIFICATION Spec
CONSTANTS
  s1 = s1
  s2 = s2
  r1 = r1
  NoStream = NoStream
  MaxPackets = 3
  Streams = {s1, s2}
  Readers = {}
  Accepts <- NoReaders
  DataTimes <- Times
  UserIds = {}
  RingIdMaximum = 4
  MaxWrites = 4
  MaxClock = 2
  ClockMayStepBack = FALSE
INVARIANT HeldIsFound
CHECK_DEADLOCK FALSE
