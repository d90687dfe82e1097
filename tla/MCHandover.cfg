SPECIFICATION Spec
CONSTANTS
  MaxPackets = 3
  Streams = {"a", "b"}
  NoStream = "none"
  RingIdMaximum = 12
  MaxWrites = 3
  Writers = {"w"}
  Timers = {}
  Closer = "closer"
  BatchSize = 1
  NoRecord = NoRecord
  Client = "c"
  Selected = {"a"}
  DataLength = 1
  Packets <- Kinds
  RequestTimes = {2}
  EndTimes = {}
  SeqNumbers = {2}
  SeqModulus = 4
  Limit = 2
PROPERTY NothingPassedOver
CHECK_DEADLOCK FALSE
