SPECIFICATION Spec
CONSTANTS
  l1 = l1
  l2 = l2
  c1 = c1
  c2 = c2
  NoClient = NoClient
  Listeners = {l1}
  Clients = {c1, c2}
  WriteIps = {}
  Stalled = {c1}
  MaxClients = 0
  Reserve = 1
  SafetyValve = 5
  MaxSignals = 1
INVARIANTS NoThreadsLeft
CHECK_DEADLOCK FALSE
