----------------------------- MODULE Catalogue -----------------------------
(***************************************************************************)
(* What the backups of one database are to the operations that use them    *)
(* (the comments of Writer and Begin in writer.go and of Plan in           *)
(* retention.go): a set of archives, each named by the moment at which it  *)
(* was begun.  An archive appears complete, never changes, and goes only   *)
(* when retention may take it: when KeepLast newer ones are there at that  *)
(* very moment, or when it is older than KeepDays.  A name that two        *)
(* processes give in the same second is disputed, and promises nothing.    *)
(*                                                                         *)
(* BackupStore shows that the files, the plans made from old listings and  *)
(* the deaths implement this; Operations is built on it.                   *)
(***************************************************************************)
EXTENDS Integers, FiniteSets

CONSTANTS
  Sound,     \* what a backup may hold
  Spoilt,    \* what may be found under a disputed name
  KeepLast,
  KeepDays

VARIABLES
  now,
  held,      \* the backups: records [name, content]
  disputed   \* names given twice

vars == <<now, held, disputed>>

Names == {b.name : b \in held}
Newer(n) == {m \in Names : m > n}
Expired == {n \in Names : \/ KeepLast > 0 /\ Cardinality(Newer(n)) >= KeepLast
                          \/ KeepDays > 0 /\ now - n > KeepDays}

Without(names) == {b \in held : b.name \notin names}

Init == /\ \A b \in held : b.name <= now /\ b.content \in Sound
        /\ \A b, c \in held : b.name = c.name => b = c
        /\ disputed = {}

\* A backup is complete.  (Names and contents are not enumerated: the new backup is
\* the one that the next state holds.)
Commit == /\ \E b \in held' : /\ b.name \notin Names /\ b.name <= now
                              /\ b.content \in Sound
                              /\ held' = held \cup {b}
          /\ UNCHANGED <<now, disputed>>

Retain == /\ \E doomed \in SUBSET Expired : held' = Without(doomed)
          /\ UNCHANGED <<now, disputed>>

\* Two backups are given the name of this second, which no archive has.
Dispute == /\ now \notin Names
           /\ disputed' = disputed \cup {now}
           /\ UNCHANGED <<now, held>>

\* One of them overwrites the other.
Clobber == /\ \E b \in held' : /\ b.name \in disputed
                               /\ b.content \in Spoilt
                               /\ held' = Without({b.name}) \cup {b}
           /\ UNCHANGED <<now, disputed>>

Pass == /\ now' > now
        /\ UNCHANGED <<held, disputed>>

Next == Commit \/ Retain \/ Dispute \/ Clobber \/ Pass

Spec == Init /\ [][Next]_vars
=============================================================================
