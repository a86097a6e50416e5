----------------------------- MODULE MCHandles -----------------------------
(* Handles on small instances. *)
EXTENDS Handles, TLC

Symmetry == Permutations(Threads)
=============================================================================
