--------------------------- MODULE MCProperties ---------------------------
(* Instances of Properties for TLC; the threads are interchangeable.       *)
EXTENDS Properties, TLC

Symmetry == Permutations(Threads)
=============================================================================
