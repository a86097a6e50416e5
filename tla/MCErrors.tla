------------------------------ MODULE MCErrors ------------------------------
(* Errors with every result, some foreign numbers and several sizes of buffer. *)
EXTENDS Errors
=============================================================================
