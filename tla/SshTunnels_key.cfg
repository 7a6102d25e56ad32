\* A redundant acquire, or the end of another forward, removes the key.
SPECIFICATION Spec
CONSTANTS
  None = None
  c1 = c1  c2 = c2  c3 = c3  t1 = t1  t2 = t2
  Conns <- MCConns
  Targets <- MCTargets
  TargetOf <- MCTargetOf
  Forwards = {f1, f2}
SYMMETRY Symmetry
INVARIANTS
  KeyStaysWithItsTunnels
