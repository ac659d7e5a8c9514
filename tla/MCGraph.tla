------------------------------ MODULE MCGraph -------------------------------
(* A model-checking instance of Graph.                                     *)
EXTENDS Graph, TLC

Symmetry == Permutations(Nodes) \cup Permutations(Names)
=============================================================================
