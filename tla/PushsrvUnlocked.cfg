SPECIFICATION HeapSpec
CONSTANTS
  NULL = NULL
  ServerThread = server
  Conns = {c1, c2}
  Sockets = {f1, f2}
  Services = {s1}
  Nodes = {n1, n2}
  Requests = {"subscribe", "unsubscribe"}
  Resubscribe = FALSE
  Races = TRUE
SYMMETRY Symmetry
CHECK_DEADLOCK FALSE
INVARIANT PassPointersListed
