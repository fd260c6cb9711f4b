------------------------------ MODULE MCStoragePool ------------------------------
(***************************************************************************)
(* Instances of StoragePool for TLC.                                       *)
(***************************************************************************)
EXTENDS StoragePool, TLC

Symmetry == Permutations(Disks) \cup Permutations(Names)
=============================================================================
