SPECIFICATION Spec
CONSTANTS
  Ports = {{"datalink"}}
  MaxCommands = 2
  BodyLengths = {1, 3}
  DataLengths = {0}
  Terminations <- Endings
  MaxEmptyLines = 2
  RecvBufferSize = 7
INVARIANT HandledAsSent
CHECK_DEADLOCK FALSE
