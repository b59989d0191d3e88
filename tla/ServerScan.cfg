SPECIFICATION Spec
CONSTANTS
  NULL = NULL
  Listener = listener
  Conns = {c1, c2}
  Limits = {0, 1}
  CountWidth = 1
  Tokens = {"q", "j", "nl"}
  MaxLine = 2
  MaxSent = 2
SYMMETRY Symmetry
INVARIANTS
  TypeOK
  NothingLost
  BuffersEmptyAtSelect
  FirstReadReady
  ScanPointersLinked
  ClientCount
CHECK_DEADLOCK FALSE
