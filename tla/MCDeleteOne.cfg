CONSTANTS
  Contents = {a, b}
  Unknown = Unknown
  Loop = Loop
  Manual = Manual
  Nodes = {n}
  MaxNow = 1
  MaxBreaks = 1
SPECIFICATION DelSpec
INVARIANTS RemovedForReal LeftoverExplained
CHECK_DEADLOCK FALSE
SYMMETRY ContentsSymmetry
