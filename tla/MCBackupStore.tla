--------------------------- MODULE MCBackupStore ---------------------------
(* BackupStore for TLC: workers are interchangeable. *)
EXTENDS BackupStore, TLC

Symmetry == Permutations(Worker)
=============================================================================
