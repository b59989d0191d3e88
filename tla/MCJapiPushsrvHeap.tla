-------------------------- MODULE MCJapiPushsrvHeap --------------------------
(* JapiPushsrvHeap for TLC. The cfg gives the sets as model values; all four *)
(* sets are symmetric, the thread of the server apart.                       *)
EXTENDS JapiPushsrvHeap, TLC

Symmetry ==
  Permutations(Conns) \cup Permutations(Sockets)
    \cup Permutations(Services) \cup Permutations(Nodes)
=============================================================================
