------------------------------ MODULE MCHashMap ------------------------------
(* Small instances of HashMap for TLC. *)
EXTENDS HashMap, TLC

\* The elements that are never deletable, and the keys, are interchangeable.
Symmetry == Permutations(Keys) \cup Permutations(Values \ Deletable)
=============================================================================
