----------------------------- MODULE MCBackupJobs -----------------------------
(***************************************************************************)
(* Instances of BackupJobs for TLC.  Jobs and repositories are only        *)
(* compared for equality, so they may be permuted in safety runs.          *)
(***************************************************************************)
EXTENDS BackupJobs, TLC

Symmetry == Permutations(Jobs) \cup Permutations(Repos)
=============================================================================
