CONSTANTS
  Datagrams <- MCDatagrams
  SeqSpace = 2
  Senders = 1
  ChanCap = 1
  MaxReceived = 3
  FileBlocks = 2
  MaxSent = 4
  MaxRounds = 1
  MaxInFlight = 2
SPECIFICATION StreamSpec
INVARIANTS MismatchExplained LossNoticed
CHECK_DEADLOCK FALSE
