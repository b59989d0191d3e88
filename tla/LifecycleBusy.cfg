CONSTANTS
  Services = {s1, s2}
  Names = {m1, m2}
  Nodes = {n1, n2}
  Threads = {t1, t2}
  Addresses = 1
  MaxSockets = 0
  Main = main
  DestroyBusy = TRUE
  StartTwice = FALSE
  NULL = NULL
SPECIFICATION Spec
INVARIANTS NoUseAfterFree
CHECK_DEADLOCK FALSE
