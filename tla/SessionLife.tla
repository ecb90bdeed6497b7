---------------------------- MODULE SessionLife ----------------------------
(***************************************************************************)
(* What internal/auth promises of a session (the comments of Session,      *)
(* Logout and newSession): it is opened once, and it ends once, by logout, *)
(* by the passing of its time or with the process.  What has ended never   *)
(* lives again.  Module Sessions implements this, and WebServer builds on  *)
(* it.                                                                     *)
(***************************************************************************)
CONSTANT Session  \* identifiers that randomToken may return

VARIABLE session  \* the life of each: "unborn", "alive" or "dead"

Alive(s) == session[s] = "alive"

LifeInit == session = [s \in Session |-> "unborn"]

\* A slow login may open a session whose time has passed.
Open(s) == /\ session[s] = "unborn"
           /\ \E life \in {"alive", "dead"} : session' = [session EXCEPT ![s] = life]

End(S) == session' = [s \in Session |-> IF s \in S /\ Alive(s) THEN "dead" ELSE session[s]]

LifeNext == (\E s \in Session : Open(s)) \/ (\E S \in SUBSET Session : End(S))

LifeSpec == LifeInit /\ [][LifeNext]_session
=============================================================================
