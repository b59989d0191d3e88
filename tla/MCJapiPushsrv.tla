--------------------------- MODULE MCJapiPushsrv ---------------------------
(* JapiPushsrv for TLC. The cfg gives the sets as model values; all four     *)
(* sets are symmetric, which runs without a liveness property exploit.       *)
EXTENDS JapiPushsrv, TLC

Symmetry ==
  Permutations(Conns) \cup Permutations(Sockets)
    \cup Permutations(Services) \cup Permutations(Nodes)
=============================================================================
