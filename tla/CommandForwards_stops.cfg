\* A command that is stopped, dropped while it is stopped, and found by the sweeps.
SPECIFICATION FairSpec
CONSTANTS
  None = None
  p1 = p1  p2 = p2
  Pids = {p1, p2}
  MaxLate = 2
INVARIANTS
  TypeOK
  NoCommandIsLost
PROPERTIES
  SignalsReachTheirGroup
  DroppedCommandEnds
