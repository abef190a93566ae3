CONSTANTS
  Sessions = {s1, s2}
  Paths = {p1, p2}
  NoPath = NoPath
  ip1 = ip1
  IPs <- MCIPs
  remoteIPs <- MCRemoteIPs
  gMaxSessionCount = 2
  NoClient = NoClient
  MaxDead = 1
SPECIFICATION PooledSpec
INVARIANTS SuccessJudged FailureJudged FirstDeadStarves
CHECK_DEADLOCK FALSE
SYMMETRY MCSymmetry
