--------------------------- MODULE MCSemaphoreImpl ---------------------------
(* Instances of SemaphoreImpl for TLC.                                     *)
EXTENDS SemaphoreImpl, TLC

Symmetry == Permutations(Clients)
=============================================================================
