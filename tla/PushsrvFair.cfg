SPECIFICATION FairSpec
CONSTANTS
  NULL = NULL
  Conns = {c1, c2}
  Sockets = {f1, f2}
  Services = {s1}
  Nodes = {n1, n2}
  Requests = {"subscribe", "unsubscribe"}
  Resubscribe = FALSE
PROPERTIES
  GoneAreClosed
  SubscribersServed
