\* Two copies of the app renew the tokens of two users of one kubeconfig.
SPECIFICATION FairSpec
CONSTANTS
  None = None
  p1 = p1  p2 = p2  u1 = u1  u2 = u2  t1 = t1  t2 = t2  t3 = t3
  Tasks = {t1, t2, t3}
  Procs = {p1, p2}
  Users = {u1, u2}
  ProcOf <- MCProcOf
  UserOf <- MCUserOf
  MaxIssued <- MCMaxIssued
INVARIANTS
  TypeOK
  AsksWithTheValidToken
  NewestIsKept
PROPERTIES
  RenewalEnds
