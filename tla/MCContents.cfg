CONSTANTS
  Center = {c}
  Frozen = {}
  Locals = {l}
  hotQueue <- MCHotQueue
  HBDelay = 1
  NoFile = NoFile
  MaxNow = 1
  MaxCrashes = 1
SPECIFICATION Spec
INVARIANTS RowBacked OrphanExplained
PROPERTIES DeletedEverywhere TableImplemented
CHECK_DEADLOCK FALSE
