CONSTANTS
  Servers = {s1, s2}
  Flavors = {"buffered", "direct", "noread", "gofuse", "cppdirect", "cppbuffered"}
  FileSize = 3
  ContentSize = 1
  MaxLen = 2
SPECIFICATION Spec
INVARIANT WrongExplained
PROPERTY ReadsArePositional
CHECK_DEADLOCK FALSE
