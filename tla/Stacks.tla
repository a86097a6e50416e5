------------------------------- MODULE Stacks -------------------------------
(***************************************************************************)
(* A sequence used as a stack, its top last.  The modules with proofs take *)
(* these three operators from here: SequencesExt has them too, but every   *)
(* proof obligation would then carry the modules that SequencesExt extends.*)
(***************************************************************************)
EXTENDS Naturals, Sequences

Last(s) == s[Len(s)]
Front(s) == SubSeq(s, 1, Len(s) - 1)
ReplaceLast(s, e) == [s EXCEPT ![Len(s)] = e]
=============================================================================
