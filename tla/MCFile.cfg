SPECIFICATION FileSpec
CONSTANTS
  s1 = s1
  s2 = s2
  NoStream = NoStream
  MaxPackets = 2
  Streams = {s1, s2}
  Readers = {}
  Accepts <- NoReaders
  DataTimes = {1}
  UserIds = {}
  RingIdMaximum = 4
  MaxWrites = 4
  MaxClock = 1
  MaxStarts = 3
  ClockMayStepBack = FALSE
INVARIANTS WindowRecovered IndexRecovered
PROPERTIES RestoresLastSave
CHECK_DEADLOCK FALSE
