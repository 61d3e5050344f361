--------------------------- MODULE MCBoundedChannel ---------------------------
(* Instances of BoundedChannel for TLC: the tasks are interchangeable.      *)
EXTENDS BoundedChannel, TLC

Symmetry == Permutations(Tasks)
=============================================================================
