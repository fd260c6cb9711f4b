---------------------------- MODULE MCFinishSetup ----------------------------
(* FinishSetup, with pages that TLC may take for each other. *)
EXTENDS FinishSetup, TLC

Symmetry == Permutations(Pages)
=============================================================================
