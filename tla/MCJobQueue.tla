----------------------------- MODULE MCJobQueue -----------------------------
(* JobQueue for TLC: tasks are interchangeable, and so are databases. *)
EXTENDS JobQueue, TLC

Symmetry == Permutations(Task) \cup Permutations(Database)
=============================================================================
