---------------------------- MODULE MCJobJournal ----------------------------
(* JobJournal for TLC: processes and jobs are interchangeable. *)
EXTENDS JobJournal, TLC

Symmetry == Permutations(Process) \cup Permutations(Job)
=============================================================================
