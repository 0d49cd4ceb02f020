------------------------------ MODULE MCDataFiles ------------------------------
(* Two threads, two directories; the states change twice.                   *)
EXTENDS DataFiles, TLC

MCMaxVersion == [k \in Kinds |-> IF k = "states" THEN 2 ELSE 1]
Symmetry == Permutations(Threads)
=============================================================================
