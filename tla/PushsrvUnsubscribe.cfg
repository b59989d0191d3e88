SPECIFICATION HeapSpec
CONSTANTS
  NULL = NULL
  ServerThread = server
  Conns = {c1, c2, c3}
  Sockets = {f1, f2}
  Services = {s1}
  Nodes = {n1, n2}
  Requests = {"subscribe", "unsubscribe"}
  Resubscribe = FALSE
  Races = FALSE
SYMMETRY Symmetry
CHECK_DEADLOCK FALSE
INVARIANTS
  ListsLinked
  PassPointersListed
  SubscribersConnected
  AnswerTruthful
PROPERTIES
  IsSequences
  IsPubSub
