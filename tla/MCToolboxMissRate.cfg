CONSTANTS
  Programs = {"dummy-adds"}
  Conns = {c1, c2}
  Handlers = {h1, h2, h3}
  Lookups = {x1, x2, x3, x4}
  Order <- MCOrder
  Rates = {50}
  MaxRuns = 3
  MissRates = {20, 40}
  Width = 16
  HitNames = 5
  MissNames = 3
  MaxRequests = 12
  AmocFiles = {"f"}
  WithDB = TRUE
  userN = 2
  ContentNs = {1, 5}
  loop = 5
  retryCnt = 2
  ChunkCounts <- MCChunkCounts
  MaxLines = 5
  Confs <- MCConfs
  HttpRequests <- MCRequests
  AlignSize = 2
  MaxSize = 4
  workerN = 2
  MaxStarts = 3
  Datagrams <- MCDatagrams
  SeqSpace = 2
  Senders = 2
  ChanCap = 1
  MaxReceived = 5
  Ts = 4
  Wide = 7
  Header = 2
  Small = 3
  MaxStream = 16
  MaxOffset = 8
  MaxRounds = 1
  BufSize = 2
  MaxInput = 5
  Offsets <- MCRange
  Lengths <- MCRange
SPECIFICATION ToolSpec
INVARIANT RateIsPercent
CHECK_DEADLOCK FALSE
