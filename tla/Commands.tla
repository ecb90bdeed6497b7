------------------------------ MODULE Commands ------------------------------
(***************************************************************************)
(* One run of the sqlbrc command line: cmd/sqlbrc and the loops of Prune   *)
(* and ManagedDatabases in internal/backup.                                *)
(*                                                                         *)
(* A command checks its flags, loads the configuration, lists the          *)
(* databases it is for, carries the operation out on one after the other,  *)
(* and ends with an exit code.  An operation is what module Operations     *)
(* shows it to be: refused before it began, failed, or done.  Databases    *)
(* come and go meanwhile, and a signal cancels what is still to be done.   *)
(* doctor and serve are modules of their own.                              *)
(***************************************************************************)
EXTENDS Integers, FiniteSets

CONSTANTS Stand,      \* names that databases.pattern allows and that are not protected
          Protected,  \* names that it allows, of databases.protected
          Foreign     \* names that it does not allow

ASSUME StandAssumption ==
  /\ IsFiniteSet(Stand)
  /\ Stand \cap Protected = {} /\ Stand \cap Foreign = {} /\ Protected \cap Foreign = {}

Named == Stand \cup Protected \cup Foreign

VARIABLES command,  \* the command, how far it is, its exit code; the operation in progress,
                    \* and whether the signal had come when it began
          readOnly, \* server.read_only: "yes" or "no"
          there,    \* databases of the cluster; for a prune, directories of the store
          left,     \* databases still to be dealt with
          outcome,  \* of those that were: "done", "failed" or "rejected"
          touched,  \* history: databases of which something was changed
          signal    \* SIGINT or SIGTERM has come: "yes" or "no"

cmdVars == <<command, readOnly, there, left, outcome, touched, signal>>

ForOne == {"backup", "restore", "clone", "prune"}
ForAll == {"backupAll", "pruneAll"}
Reading == {"backupsList", "jobs", "pruneDryRun"}

Proceeds(place) == command' = [command EXCEPT !.at = place]
Exits(code) == command' = [command EXCEPT !.at = "exited", !.code = code]
With(result) == {d \in DOMAIN outcome : outcome[d] = result}
ExitOK == 0
ExitError == 1
ExitRejected == 2

CmdInit ==
  /\ command \in [name : ForOne \cup ForAll \cup Reading, at : {"flags"}, code : {-1},
                 on : {{}}, late : {"no"}]
  /\ readOnly \in {"yes", "no"}
  /\ there \in SUBSET Named
  /\ left = {} /\ outcome = [d \in {} |-> "done"] /\ touched = {} /\ signal = "no"
-----------------------------------------------------------------------------
\* validateFlags, requireDatabase, the flags of which only one may be given.
ParseFlags ==
  /\ command.at = "flags"
  /\ Proceeds("loading") \/ Exits(ExitError)
  /\ UNCHANGED <<readOnly, there, left, outcome, touched, signal>>

\* service: the configuration is loaded and checked, the parts are put together.
LoadService ==
  /\ command.at = "loading"
  /\ Proceeds("listing") \/ Exits(ExitError)
  /\ UNCHANGED <<readOnly, there, left, outcome, touched, signal>>

\* The database of the flags, whatever it is.
NameOne ==
  /\ command.at = "listing" /\ command.name \in ForOne
  /\ \E d \in Named : left' = {d}
  /\ Proceeds("operating")
  /\ UNCHANGED <<readOnly, there, outcome, touched, signal>>

\* The list of the cluster's databases, without those that are not allowed.  None
\* is a message and success.
ManagedDatabases ==
  /\ command.at = "listing" /\ command.name = "backupAll"
  /\ \/ /\ left' = there \cap Stand
        /\ IF left' = {} THEN Exits(ExitOK) ELSE Proceeds("operating")
     \/ Exits(ExitError) /\ UNCHANGED left
  /\ UNCHANGED <<readOnly, there, outcome, touched, signal>>

\* Without a name the store is asked for its directories.  It goes by the pattern, and of
\* checkOperation only the mode is looked at: a protected database is pruned with the others.
PruneTargets ==
  /\ command.at = "listing" /\ command.name = "pruneAll"
  /\ IF readOnly = "yes" THEN Exits(ExitRejected) /\ UNCHANGED left
     ELSE \/ left' = there \ Foreign /\ Proceeds("operating")
          \/ Exits(ExitError) /\ UNCHANGED left
  /\ UNCHANGED <<readOnly, there, outcome, touched, signal>>

\* The backups or the journal are read and printed; a dry run is refused as the
\* prune is.
Read ==
  /\ command.at = "listing" /\ command.name \in Reading
  /\ \/ Exits(ExitOK) \/ Exits(ExitError)
     \/ command.name = "pruneDryRun" /\ Exits(ExitRejected)
  /\ UNCHANGED <<readOnly, there, left, outcome, touched, signal>>

\* checkOperation, which a prune of all does without.
Refusable(d) == command.name # "pruneAll" /\ (readOnly = "yes" \/ d \notin Stand)

\* Mutant: the first database that cannot be backed up ends the run.
GoneThroughFirstError == left = {} \/ With("failed") \cup With("rejected") # {}

\* backupAll goes through its list to the end; Prune stops at the first error.
GoneThrough ==
  left = {} \/ (command.name = "pruneAll" /\ With("failed") \cup With("rejected") # {})

Begin(d) ==
  /\ command.at = "operating" /\ command.on = {} /\ ~GoneThrough
  /\ command' = [command EXCEPT !.on = {d}, !.late = signal]
  /\ UNCHANGED <<readOnly, there, left, outcome, touched, signal>>

Deal(d, result) ==
  /\ command.on = {d}
  /\ command' = [command EXCEPT !.on = {}]
  /\ outcome' = [e \in DOMAIN outcome \cup {d} |-> IF e = d THEN result ELSE outcome[e]]
  /\ left' = left \ {d}

\* An operation is refused: by the mode or the name, by a full disk or a missing backup.  A
\* restore may have made its safety copy by then.
Reject(d) ==
  /\ command.name # "pruneAll"
  /\ ~Refusable(d) => command.name # "prune"
  /\ Deal(d, "rejected")
  /\ touched' = IF command.name = "restore" /\ ~Refusable(d) THEN touched \cup {d} ELSE touched
  /\ UNCHANGED <<readOnly, there, signal>>

\* It begins and fails, the database that has gone meanwhile included, or its
\* context is cancelled before it begins.
Fail(d) ==
  /\ ~Refusable(d)
  /\ Deal(d, "failed")
  /\ touched' \in {touched, touched \cup {d}}
  /\ UNCHANGED <<readOnly, there, signal>>

\* An operation in progress may still succeed when the signal comes.  After it no tool is
\* started any more (PgClient); only a prune needs none.
Succeed(d) ==
  /\ ~Refusable(d)
  /\ command.late = "yes" => command.name \in {"prune", "pruneAll"}
  /\ command.name \in {"backup", "backupAll"} => d \in there
  /\ Deal(d, "done")
  /\ touched' = touched \cup {d}
  /\ UNCHANGED <<readOnly, there, signal>>

\* Mutant: one refusal is enough for the code of a refusal.
ExitCodeFirst == IF With("rejected") # {} THEN ExitRejected
                 ELSE IF With("failed") # {} THEN ExitError ELSE ExitOK

\* run and backupAll: a failure is 1 whatever else has happened; only refusals are 2.
ExitCode == IF With("failed") # {} THEN ExitError
            ELSE IF With("rejected") = DOMAIN outcome /\ DOMAIN outcome # {} THEN ExitRejected
            ELSE ExitOK

\* The result of a single operation that cannot be printed is an error too.
End ==
  /\ command.at = "operating" /\ command.on = {} /\ GoneThrough
  /\ \/ Exits(ExitCode)
     \/ command.name # "backupAll" /\ ExitCode = ExitOK /\ Exits(ExitError)
  /\ UNCHANGED <<readOnly, there, left, outcome, touched, signal>>

Signal ==
  /\ command.at # "exited" /\ signal = "no"
  /\ signal' = "yes"
  /\ UNCHANGED <<command, readOnly, there, left, outcome, touched>>

DatabaseComesOrGoes ==
  /\ command.at \in {"listing", "operating"}
  /\ \E d \in Named : there' = IF d \in there THEN there \ {d} ELSE there \cup {d}
  /\ UNCHANGED <<command, readOnly, left, outcome, touched, signal>>

CmdNext == \/ ParseFlags \/ LoadService \/ NameOne \/ ManagedDatabases \/ PruneTargets \/ Read
           \/ \E d \in left : Begin(d) \/ Reject(d) \/ Fail(d) \/ Succeed(d)
           \/ End \/ Signal \/ DatabaseComesOrGoes

CmdSpec == CmdInit /\ [][CmdNext]_cmdVars
-----------------------------------------------------------------------------
CmdTypeOK ==
  /\ command.name \in ForOne \cup ForAll \cup Reading
  /\ command.at \in {"flags", "loading", "listing", "operating", "exited"}
  /\ command.code \in {-1, 0, 1, 2} /\ (command.code = -1 <=> command.at # "exited")
  /\ command.on \subseteq left /\ left \cap DOMAIN outcome = {}
  /\ outcome \in [DOMAIN outcome -> {"done", "failed", "rejected"}]

Serviced == IF command.name = "pruneAll" THEN Stand \cup Protected ELSE Stand

\* What a script may conclude from the exit code (main.go:63-70, README.md:151-153).  0: no
\* operation failed, and not all were refused.  2: nothing was begun; of a restore, which may
\* have made its safety copy, no more than that.  A run that has backed up one database and
\* failed on another is an error.  Nothing is done to a database that is not the service's:
\* none that is protected either (README.md:29), but for a prune of all, which removes old
\* backups of a protected database too.
ExitCodeIsTrue ==
  command.at = "exited" =>
    /\ command.code = ExitOK => /\ With("failed") = {}
                                /\ DOMAIN outcome # {} => With("done") # {}
    /\ command.code = ExitRejected => /\ With("done") \cup With("failed") = {}
                                      /\ command.name # "restore" => touched = {}
    /\ With("failed") # {} => command.code = ExitError
    /\ touched \subseteq Serviced

\* One database that cannot be backed up does not keep backup --all from the others,
\* whatever comes and goes meanwhile (backup.go:71-74).
EveryDatabaseTried ==
  (command.at = "exited" /\ command.name = "backupAll") => left = {}
=============================================================================
