\* An agent that hangs up while its question is being opened.
SPECIFICATION GateSpec
CONSTANTS
  NoCall = NoCall  Other = Other
  c1 = c1  c2 = c2  c3 = c3
  Calls = {c1, c2}
  MaxConnections = 2
  QueueSize = 2
  MaxOthers = 0
  MaxWindows = 0
INVARIANTS
  DialogClosesWithItsCall
