---------------------------- MODULE MCDocuments -----------------------------
(* A model-checking instance of Documents.                                 *)
EXTENDS Documents, TLC

\* The collection's name as the document endpoints must be given it.
MCGiven == {CollectionTable(w) : w \in Words}

\* One document with a null, one that replaces it, and patches that overlap
\* in one member, that set another, and that remove one.
MCContents == {[f \in Fields |-> IF f = "a" THEN "value" ELSE Null]}
MCPatches  == {[f \in Fields |-> IF f = "a" THEN "other" ELSE Missing],
               [f \in Fields |-> IF f = "a" THEN Null ELSE "value"]}

\* Sessions are alike.
Symmetry == Permutations(Sessions)
=============================================================================
