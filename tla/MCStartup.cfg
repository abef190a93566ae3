CONSTANTS
  ip1 = ip1
  ip2 = ip2
  IPs <- MCIPs
  remoteIPs <- MCRemoteIPs
  gMaxSessionCount = 3
  Callers = {g1, g2, g3, g4, g5}
  NoClient = NoClient
  a = a
  b = b
  t1 = t1
  t2 = t2
  Sources <- MCSources
  Targets <- MCTargets
  Jobs <- MCJobs
  MaxStarts = 3
SPECIFICATION StartSpec
INVARIANTS Conservation SpreadBound NoMissing FilesAtRun FirstJobWins
CHECK_DEADLOCK FALSE
SYMMETRY MCSymmetry
