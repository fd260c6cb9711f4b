--------------------------- MODULE MCRebuildService ---------------------------
(***************************************************************************)
(* Instances of RebuildService for TLC.  Config and input versions are     *)
(* only compared for equality, so they may be permuted in safety runs.     *)
(***************************************************************************)
EXTENDS RebuildService, TLC

Symmetry == Permutations(Configs) \cup Permutations(Inputs)
=============================================================================
