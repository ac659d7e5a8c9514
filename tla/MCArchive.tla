----------------------------- MODULE MCArchive ------------------------------
(* Inputs for Archive: texts of up to two groups, arrays of up to a line   *)
(* and a bit.                                                              *)
EXTENDS Archive

Longer(n) == [k \in 1..n |-> 1 + ((37 * k) % 127)]
Wider(n)  == [k \in 1..n |-> 1 + ((57 * k) % 255)]

MCTexts == UNION {[1..n -> {1, 85, 127}] : n \in 0..4} \cup {Longer(n) : n \in 5..17}

MCArrays == UNION {[1..n -> {0, 64, 255, 256}] : n \in 0..4}
              \cup {Wider(n) : n \in {5, 6, 47, 48, 49, 52, 96, 97}}
=============================================================================
