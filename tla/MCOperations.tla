---------------------------- MODULE MCOperations ----------------------------
(* Operations for TLC: operations and processes are interchangeable, and a *)
(* few sets of requests over the databases a and b.                        *)
EXTENDS Operations, TLC

CONSTANTS a, b

Symmetry == Permutations(Operation) \cup Permutations(Process)

Ask(kind, on, from) == [kind |-> kind, on |-> on, from |-> from]
OneDatabase == {Ask("backup", a, a), Ask("restore", a, a)}
Clones == {Ask("backup", a, a), Ask("clone", b, a)}
Everything == OneDatabase \cup Clones \cup {Ask("backup", b, b), Ask("restore", b, a)}
=============================================================================
