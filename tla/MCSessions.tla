----------------------------- MODULE MCSessions -----------------------------
(* Model-checking instances of Sessions.                                   *)
EXTENDS Sessions, TLC

\* Session keys are interchangeable in the safety properties, and so are workers.
Symmetry == Permutations(Ids) \cup Permutations(Workers)
=============================================================================
