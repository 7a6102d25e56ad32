\* Three connections to two API servers, with and without a stored key.
SPECIFICATION FairSpec
CONSTANTS
  None = None
  c1 = c1  c2 = c2  c3 = c3  t1 = t1  t2 = t2
  Conns <- MCConns
  Targets <- MCTargets
  TargetOf <- MCTargetOf
  Forwards = {f1, f2, f3}
INVARIANTS
  TypeOK
  ForwardsAreShared
  KeyGoesWithItsTunnels
PROPERTIES
  ForwardComesUp
  ImplementsSharedForward
