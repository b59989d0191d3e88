SPECIFICATION PoliteSpec
CONSTANTS
  NULL = NULL
  Listener = listener
  Conns = {c1, c2}
  Limits = {0}
  CountWidth = 2
  Tokens = {"q", "nl"}
  MaxLine = 2
  MaxSent = 2
PROPERTIES
  Answered
  ShutdownStops
CHECK_DEADLOCK FALSE
