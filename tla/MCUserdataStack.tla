-------------------------- MODULE MCUserdataStack --------------------------
(* Instances of UserdataStack for TLC. *)
EXTENDS UserdataStack, TLC

\* Threads, connections and the non-null pointers are interchangeable.
Symmetry ==
    Permutations(Threads) \cup Permutations(Conns) \cup Permutations(Ptrs \ {NULL})
=============================================================================
