SPECIFICATION Spec
CONSTANTS
  NULL = NULL
  Conns = {c1, c2}
  Sockets = {f1, f2}
  Services = {s1, s2}
  Nodes = {n1, n2, n3, n4}
  Requests = {"subscribe"}
  Resubscribe = FALSE
SYMMETRY Symmetry
INVARIANTS
  TypeOK
  PassPointersListed
  SubscribersConnected
PROPERTIES
  NoForeignPush
  IsPubSub
