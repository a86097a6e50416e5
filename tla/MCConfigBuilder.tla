-------------------------- MODULE MCConfigBuilder --------------------------
(* ConfigBuilder with two roots. *)
EXTENDS ConfigBuilder, TLC

Symmetry == Permutations(Roots)
=============================================================================
