CONSTANTS
  Services = {s1, s2}
  Names = {m1, m2}
  Nodes = {n1, n2}
  Threads = {t1, t2}
  Addresses = 2
  MaxSockets = 0
  Main = main
  DestroyBusy = FALSE
  StartTwice = FALSE
  NULL = NULL
SPECIFICATION FairSpec
INVARIANTS TypeOK NoUseAfterFree StopIsFinal NothingLeft
PROPERTIES StopReturns DestroyReturns
CHECK_DEADLOCK FALSE
