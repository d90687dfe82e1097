SPECIFICATION Spec
CONSTANTS
  MaxRecords = 4
  Writers = {w1, w2}
  Timers = {t1}
  Closer = closer
  BatchSize = 2
  NoRecord = NoRecord
INVARIANTS TypeOK InOnePlace NothingLeftBehind QueueBounded
PROPERTY Written
CHECK_DEADLOCK FALSE
