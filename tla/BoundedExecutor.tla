--------------------------- MODULE BoundedExecutor ---------------------------
(***************************************************************************)
(* What the job queue promises its callers (package comment of            *)
(* internal/jobs/job.go): a call waits, is admitted, works and leaves; at  *)
(* most Parallel calls work at once and at most PerDB of them on one       *)
(* database.  A waiting call may also leave without having worked (its     *)
(* context was cancelled), and a death of the process takes them all.      *)
(* Admission is one atomic step here; JobQueue shows that two semaphores   *)
(* taken one after the other implement it, and Operations is built on it.  *)
(***************************************************************************)
EXTENDS Integers, FiniteSets

CONSTANTS Task,        \* calls that may be made concurrently
          Database,
          NoDatabase,  \* "works on nothing": the call is outside the executor
          Parallel,
          PerDB

VARIABLES phase,       \* [Task -> {"out", "waiting", "running"}]
          on           \* the database a call inside the executor works on

vars == <<phase, on>>

Running == {t \in Task : phase[t] = "running"}
RunningOn(d) == {t \in Running : on[t] = d}

Init == /\ phase = [t \in Task |-> "out"]
        /\ on = [t \in Task |-> NoDatabase]

Arrive(t, d) == /\ phase[t] = "out"
                /\ phase' = [phase EXCEPT ![t] = "waiting"]
                /\ on' = [on EXCEPT ![t] = d]

Admit(t) == /\ phase[t] = "waiting"
            /\ Cardinality(Running) < Parallel
            /\ Cardinality(RunningOn(on[t])) < PerDB
            /\ phase' = [phase EXCEPT ![t] = "running"]
            /\ UNCHANGED on

Leave(t) == /\ phase[t] \in {"waiting", "running"}
            /\ phase' = [phase EXCEPT ![t] = "out"]
            /\ on' = [on EXCEPT ![t] = NoDatabase]

\* The process dies.
Stop == Init'

Next == \/ \E t \in Task : \/ \E d \in Database : Arrive(t, d)
                           \/ Admit(t)
                           \/ Leave(t)
        \/ Stop

Spec == Init /\ [][Next]_vars
=============================================================================
