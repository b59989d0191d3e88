----------------------------- MODULE MCJapiServer -----------------------------
(* JapiServer for TLC: the cfg gives the connections as model values and the *)
(* bounds as numbers.                                                        *)
EXTENDS JapiServer, TLC

Symmetry == Permutations(Conns)
=============================================================================
