SPECIFICATION Spec
CONSTANTS
  Ports <- AllPorts
  MaxCommands = 3
  BodyLengths = {1, 2}
  DataLengths = {0, 2}
  Terminations <- Endings
  MaxEmptyLines = 2
  RecvBufferSize = 7
INVARIANTS TypeOK CommandsInOrder FinLosesNothing
PROPERTY EveryCommandHandled
CHECK_DEADLOCK FALSE
