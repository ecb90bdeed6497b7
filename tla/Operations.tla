----------------------------- MODULE Operations -----------------------------
(***************************************************************************)
(* Backup, Restore and Clone of internal/backup, run by several processes  *)
(* (the web service, CLI commands, the timer) against one PostgreSQL       *)
(* cluster, one catalogue of backups and a job queue per process.          *)
(*                                                                         *)
(* Every system call, PostgreSQL command and wait of an operation is a     *)
(* step of its own, because other operations, other processes and users of *)
(* the cluster act between any two of them.  The queue is what JobQueue    *)
(* shows it to be: a job is admitted while its database and its process    *)
(* have a place (QueuesSpec).  A dump, which takes its snapshot when it    *)
(* begins, reaches the catalogue in one step, and so does the retention    *)
(* after it: BackupStore shows that files come to this (CataloguesSpec).   *)
(***************************************************************************)
EXTENDS Integers, FiniteSets

CONSTANTS
  Operation,    \* calls of the service, each made at most once
  Process,
  Database,
  Request,      \* what may be asked for: records [kind, on, from]
  Parallel,     \* jobs.max_parallel
  PerDB,        \* jobs.max_per_db
  KeepLast,     \* storage.keep_last
  AutoBackup,   \* databases.auto_backup_before_restore
  None

ASSUME RequestAssumption ==
  Request \subseteq [kind : {"backup", "restore", "clone"}, on : Database, from : Database]
ASSUME LimitsAssumption == Parallel \in Nat \ {0} /\ PerDB \in Nat \ {0} /\ KeepLast \in Nat \ {0}
ASSUME AutoBackupAssumption == AutoBackup \in BOOLEAN

\* What a database is: not there, as its users have made it, or as a pg_restore in
\* progress, failed or killed has left it.
State == {"absent", "whole", "broken"}

Archive == [db : Database, began : Nat, holds : State]

VARIABLES
  db,         \* the cluster
  archives,   \* the catalogue: archives of every database, ordered by began,
              \* 0 for one made in earlier times
  dumps,      \* dumps begun so far
  op          \* the operations

vars == <<db, archives, dumps, op>>

Location == {"new", "resolve", "verify", "check", "space", "queued", "dumping", "retention",
             "space2", "queued2", "prepare", "create", "open", "restoring", "owner", "ended"}

\* kind, on, from: the request; backup: the archive to restore; dump: the one in the
\* making; existed: what autoBackupBeforeRestore saw; created: whether the operation
\* created its target; called: dumps begun before the call; changed: the last of
\* the catalogue and the databases that the operation has changed (history).  Of an
\* operation that has ended only its result and changed are kept.
NewOp == [at |-> "new", kind |-> "backup", on |-> None, from |-> None, host |-> None,
          backup |-> None, dump |-> None, existed |-> "unknown", created |-> "no",
          called |-> 0, changed |-> "no", result |-> "none"]

-----------------------------------------------------------------------------
Init ==
  /\ db \in [Database -> {"absent", "whole"}]
  /\ archives \in SUBSET {[db |-> d, began |-> 0, holds |-> "whole"] : d \in Database}
  /\ dumps = 0
  /\ op = [o \in Operation |-> NewOp]

Goto(o, location) == op' = [op EXCEPT ![o].at = location]
Ended(o, result) == [NewOp EXCEPT !.at = "ended", !.changed = op[o].changed, !.result = result]
End(o, result) == op' = [op EXCEPT ![o] = Ended(o, result)]
unchangedData == <<db, archives, dumps>>

\* checkOperation has let the request through; one it refuses never begins.
Call(o, p, r) ==
  /\ op[o].at = "new"
  /\ op' = [op EXCEPT ![o].at = IF r.kind = "backup" THEN "space" ELSE "resolve",
                      ![o].kind = r.kind, ![o].on = r.on, ![o].from = r.from,
                      ![o].host = p, ![o].called = dumps]
  /\ UNCHANGED unchangedData

\* Mutant: without archives the request goes on with no archive.
ResolveBackupAnyway(o) ==
  /\ op[o].at = "resolve"
  /\ \E b \in archives \cup {None} : op' = [op EXCEPT ![o].at = "verify", ![o].backup = b]
  /\ UNCHANGED unchangedData

\* resolveBackup: the archive named in the request, or the newest.
ResolveBackup(o) ==
  /\ op[o].at = "resolve"
  /\ \/ \E b \in archives : /\ b.db = op[o].from
                            /\ op' = [op EXCEPT ![o].at = "verify", ![o].backup = b]
     \/ End(o, "rejected")
  /\ UNCHANGED unchangedData

\* verifyArchive: reads the archive, which retention may have removed meanwhile.
VerifyArchive(o) ==
  /\ op[o].at = "verify"
  /\ IF op[o].backup \in archives
     THEN Goto(o, "check") \/ End(o, "rejected")
     ELSE End(o, "failed")
  /\ UNCHANGED unchangedData

\* DatabaseExists: a clone refuses an existing target, a restore backs it up.
CheckTarget(o) ==
  LET exists == db[op[o].on] # "absent"
  IN  /\ op[o].at = "check"
      /\ \/ /\ op[o].kind = "clone"
            /\ IF exists THEN End(o, "rejected") ELSE Goto(o, "space2")
         \/ /\ op[o].kind = "restore"
            /\ op' = [op EXCEPT ![o].at = IF AutoBackup /\ exists THEN "space" ELSE "space2",
                                ![o].existed = IF exists THEN "yes" ELSE "no"]
         \/ End(o, "failed")
      /\ UNCHANGED unchangedData

\* ensureSpace, called by Backup and again by Restore and Clone, always for a need of 0:
\* the threshold is kept, or there is none, or the system cannot tell; too little is free;
\* or the call fails.
EnsureSpace(o) ==
  /\ op[o].at \in {"space", "space2"}
  /\ \/ Goto(o, IF op[o].at = "space" THEN "queued" ELSE "queued2")
     \/ End(o, "rejected") \/ End(o, "failed")
  /\ UNCHANGED unchangedData

\* Mutant: a restore keeps its place while it waits for the next one.
HoldsPlaceThroughout == {"dumping", "retention", "space2", "queued2",
                         "prepare", "create", "open", "restoring", "owner"}

\* A job holds its places from the admission to the end of its function.  It is
\* queued under the database it backs up, or under that of the archive.
HoldsPlace == {"dumping", "retention", "prepare", "create", "open", "restoring", "owner"}
JobDatabase(o) == IF op[o].at \in {"queued", "dumping", "retention"}
                  THEN op[o].on ELSE op[o].backup.db
AtWork(p) == {o \in Operation : op[o].host = p /\ op[o].at \in HoldsPlace}

\* Mutant: the places of the database are not counted.
AdmittedToAnyDatabase(o) == Cardinality(AtWork(op[o].host)) < Parallel

Admitted(o) ==
  LET working == AtWork(op[o].host)
  IN  /\ Cardinality(working) < Parallel
      /\ Cardinality({x \in working : JobDatabase(x) = JobDatabase(o)}) < PerDB

\* Submit admits a backup job; pg_dump begins and fixes what it will read.
BeginDump(o) ==
  /\ op[o].at = "queued"
  /\ Admitted(o)
  /\ dumps' = dumps + 1
  /\ op' = [op EXCEPT ![o].at = "dumping",
                      ![o].dump = [db |-> op[o].on, began |-> dumps', holds |-> db[op[o].on]]]
  /\ UNCHANGED <<db, archives>>

\* Submit admits a restore or clone job.
BeginRestore(o) ==
  /\ op[o].at = "queued2"
  /\ Admitted(o)
  /\ Goto(o, "prepare")
  /\ UNCHANGED unchangedData

\* Mutant: a safety copy that was not made does not stop the restore.
LeaveQueueIgnored(o) ==
  /\ op[o].at \in {"queued", "queued2"}
  /\ IF op[o].at = "queued" /\ op[o].kind = "restore" THEN Goto(o, "space2") ELSE End(o, "failed")
  /\ UNCHANGED unchangedData

\* The caller's context is cancelled while the job waits.
LeaveQueue(o) ==
  /\ op[o].at \in {"queued", "queued2"}
  /\ End(o, "failed")
  /\ UNCHANGED unchangedData

\* Commit: the archive is there, with its metadata or, failing that, with an error
\* that ends the operation without retention.
CommitDump(o) ==
  /\ op[o].at = "dumping"
  /\ op[o].dump.holds # "absent"
  /\ archives' = archives \cup {op[o].dump}
  /\ op' \in {[op EXCEPT ![o].at = "retention", ![o].changed = "catalogue"],
               [op EXCEPT ![o] = [Ended(o, "failed") EXCEPT !.changed = "catalogue"]]}
  /\ UNCHANGED <<db, dumps>>

FailDump(o) ==
  /\ op[o].at = "dumping"
  /\ End(o, "failed")
  /\ UNCHANGED unchangedData

\* Mutant: a backup counts itself among the newer ones.
ExpiredCountsItself(d) ==
  {b \in archives : /\ b.db = d
                    /\ Cardinality({n \in archives : n.db = d /\ n.began >= b.began})
                         >= KeepLast}

\* ApplyRetention after the dump: all but the KeepLast newest of the database go.
\* What cannot be removed stays, and the job is a success either way.
Expired(d) == {b \in archives : /\ b.db = d
                                /\ Cardinality({n \in archives : n.db = d /\ n.began > b.began})
                                     >= KeepLast}

EndBackup(o) ==
  /\ op[o].at = "retention"
  /\ \E removed \in SUBSET Expired(op[o].on) : archives' = archives \ removed
  /\ IF op[o].kind = "backup" THEN End(o, "done") ELSE Goto(o, "space2")
  /\ UNCHANGED <<db, dumps>>

\* restoreInto: looks whether the target exists, again.
Prepare(o) ==
  /\ op[o].at = "prepare"
  /\ \/ Goto(o, IF db[op[o].on] = "absent" THEN "create" ELSE "open")
     \/ End(o, "failed")
  /\ UNCHANGED unchangedData

\* CREATE DATABASE fails if the target has appeared meanwhile.
CreateDatabase(o) ==
  /\ op[o].at = "create"
  /\ \/ /\ db[op[o].on] = "absent"
        /\ db' = [db EXCEPT ![op[o].on] = "whole"]
        /\ op' = [op EXCEPT ![o].at = "open", ![o].created = "yes", ![o].changed = "database"]
     \/ End(o, "failed") /\ UNCHANGED db
  /\ UNCHANGED <<archives, dumps>>

\* Mutant: an archive that cannot be opened is reported as a rejection.
OpenArchiveRejects(o) ==
  /\ op[o].at = "open"
  /\ \/ /\ op[o].backup \in archives
        /\ db[op[o].on] # "absent"
        /\ db' = [db EXCEPT ![op[o].on] = "broken"]
        /\ op' = [op EXCEPT ![o].at = "restoring", ![o].changed = "database"]
     \/ End(o, "rejected") /\ UNCHANGED db
  /\ UNCHANGED <<archives, dumps>>

\* runRestore: opens the archive and starts pg_restore --clean on the target.
OpenArchive(o) ==
  /\ op[o].at = "open"
  /\ \/ /\ op[o].backup \in archives
        /\ db[op[o].on] # "absent"
        /\ db' = [db EXCEPT ![op[o].on] = "broken"]
        /\ op' = [op EXCEPT ![o].at = "restoring", ![o].changed = "database"]
     \/ End(o, "failed") /\ UNCHANGED db
  /\ UNCHANGED <<archives, dumps>>

\* pg_restore ends: the target holds what the archive holds, or a part of it.
RestoreEnds(o) ==
  /\ op[o].at = "restoring"
  /\ \/ /\ db[op[o].on] # "absent"
        /\ db' = [db EXCEPT ![op[o].on] = op[o].backup.holds]
        /\ Goto(o, "owner")
     \/ End(o, "failed") /\ UNCHANGED db
  /\ UNCHANGED <<archives, dumps>>

\* AlterDatabaseOwner of a target that existed; its failure fails the job.
SetOwner(o) ==
  /\ op[o].at = "owner"
  /\ \/ End(o, "done")
     \/ op[o].created = "no" /\ End(o, "failed")
  /\ UNCHANGED unchangedData

\* A process dies with all its operations; what they began stays as it is.
Running(o) == op[o].at \notin {"new", "ended"}
Die(p) ==
  /\ \E o \in Operation : op[o].host = p /\ Running(o)
  /\ op' = [o \in Operation |-> IF op[o].host = p /\ Running(o)
                                THEN Ended(o, "died") ELSE op[o]]
  /\ UNCHANGED unchangedData

\* A prune of any process, or a retention that still has some of its list before it,
\* takes an archive at any time.  (The place that a prune takes in the queue is left
\* out: it could only make the operations wait longer.)
Prune(d) ==
  /\ \E b \in Expired(d) : archives' = archives \ {b}
  /\ UNCHANGED <<db, dumps, op>>

\* Users of the cluster, who know nothing of sqlbrc, create, change and drop.
UserWrites(d) ==
  /\ db' = [db EXCEPT ![d] = "whole"]
  /\ UNCHANGED <<archives, dumps, op>>

UserDrops(d) ==
  /\ db[d] # "absent"
  /\ db' = [db EXCEPT ![d] = "absent"]
  /\ UNCHANGED <<archives, dumps, op>>

\* What the service does by itself, and what waits for the end of a PostgreSQL tool.
ServiceStep(o) == \/ ResolveBackup(o) \/ VerifyArchive(o) \/ EnsureSpace(o) \/ EndBackup(o)
                  \/ OpenArchive(o)
ToolStep(o) == \/ CheckTarget(o) \/ CommitDump(o) \/ FailDump(o)
               \/ Prepare(o) \/ CreateDatabase(o) \/ RestoreEnds(o) \/ SetOwner(o)
Work(o) == ServiceStep(o) \/ ToolStep(o)
Admit(o) == BeginDump(o) \/ BeginRestore(o)

Next == \/ \E o \in Operation : \/ \E p \in Process, r \in Request : Call(o, p, r)
                                \/ Work(o) \/ Admit(o) \/ LeaveQueue(o)
        \/ \E p \in Process : Die(p)
        \/ \E d \in Database : Prune(d) \/ UserWrites(d) \/ UserDrops(d)

Spec == Init /\ [][Next]_vars

\* The goroutine of an operation runs, but nothing makes a PostgreSQL tool end: its
\* deadline does not, in mode sudo (PgClient).  JobQueue!EveryCallReturns justifies that
\* an operation which waits is admitted, as long as places come free again and again.
FairSpec == Spec /\ \A o \in Operation : WF_vars(ServiceStep(o)) /\ SF_vars(Admit(o))

-----------------------------------------------------------------------------
OpRecord == [at : Location, kind : {"backup", "restore", "clone"},
             on : Database \cup {None}, from : Database \cup {None}, host : Process \cup {None},
             backup : Archive \cup {None}, dump : Archive \cup {None},
             existed : {"unknown", "yes", "no"}, created : {"yes", "no"}, called : Nat,
             changed : {"no", "catalogue", "database"},
             result : {"none", "done", "failed", "rejected", "died"}]

\* Type invariant; past its resolution a restore or clone always has an archive, and
\* only a restore or clone comes to the second half.
TypeOK ==
  /\ db \in [Database -> State]
  /\ dumps \in Nat
  /\ archives \in SUBSET Archive
  /\ op \in [Operation -> OpRecord]
  /\ \A o \in Operation :
       /\ op[o].at \notin {"new", "ended"} => op[o].on \in Database
       /\ op[o].kind # "backup" /\ op[o].at \notin {"new", "resolve", "ended"} =>
            op[o].backup \in Archive
       /\ op[o].at \in {"resolve", "verify", "check", "space2", "queued2", "prepare", "create",
                        "open", "restoring", "owner"} => op[o].kind # "backup"

HasSafetyCopy(o) == \E b \in archives : b.db = op[o].on /\ b.began > op[o].called

\* A restore that saw its database cleans it only when the catalogue holds a copy
\* dumped since the restore was called, whatever other backups, their retention and
\* other processes have done between the safety copy and the restore.
SafetyCopy ==
  \A o \in Operation :
    op[o].at = "restoring" /\ op[o].kind = "restore" /\ op[o].existed = "yes" /\ AutoBackup
      => HasSafetyCopy(o)

\* README.md: restore takes a safety copy and unrolls the archive.  The archive it
\* has found and verified is still there when it comes to open it.
SourceSurvives ==
  \A o \in Operation : op[o].at = "open" => op[o].backup \in archives

\* clone.go, Clone: an existing target is never overwritten.
CloneNeverOverwrites ==
  \A o \in Operation : op[o].at = "restoring" /\ op[o].kind = "clone" => op[o].created = "yes"

\* service.go, RejectedError: a rejected operation has changed no database, though a
\* restore rejected late leaves its safety copy behind.
RejectedLeavesDatabases ==
  \A o \in Operation : op[o].result = "rejected" => op[o].changed # "database"

\* The catalogue of each database is one that the files and their retention keep
\* (BackupStore!CatalogueSpec), with the number of a dump for the second in which it began:
\* a dump appears under a number that no other has, and goes only when expired.
BackupsOf(d) == {[name |-> b.began, content |-> b.holds] : b \in {a \in archives : a.db = d}}
Kept(d) == INSTANCE Catalogue WITH
             now <- dumps,
             held <- BackupsOf(d),
             disputed <- {},
             Sound <- {"whole", "broken"},
             Spoilt <- {},
             KeepDays <- 0
CataloguesSpec ==
  /\ \A d \in Database : Kept(d)!Init
  /\ [][\A d \in Database : [Kept(d)!Next]_(Kept(d)!vars)]_vars

\* To the queue of its process, which JobQueue shows to be a BoundedExecutor, an operation
\* is a call that comes, waits, works under one database and leaves: a backup or a clone
\* once, a restore twice, for its safety copy and for itself, perhaps under two databases.
QueuePhase(o, p) ==
  IF o \in AtWork(p) THEN "running"
  ELSE IF op[o].host = p /\ op[o].at \in {"queued", "queued2"} THEN "waiting" ELSE "out"
Queue(p) == INSTANCE BoundedExecutor WITH
              Task <- Operation,
              NoDatabase <- None,
              phase <- [o \in Operation |-> QueuePhase(o, p)],
              on <- [o \in Operation |-> IF QueuePhase(o, p) = "out" THEN None
                                         ELSE JobDatabase(o)]
QueuesSpec ==
  /\ \A p \in Process : Queue(p)!Init
  /\ [][\A p \in Process : [Queue(p)!Next]_(Queue(p)!vars)]_vars

\* Every operation that calls a tool is answered by it some time.
AtTool(o) == op[o].at \in {"check", "dumping", "prepare", "create", "restoring", "owner"}
ToolsEnd == \A o \in Operation : []<>~AtTool(o)

\* Every operation ends, if the tools do.  A restore takes places in the queue twice, for
\* its safety copy and for itself, and never waits for a place while it holds one.
EveryOperationEnds == ToolsEnd => \A o \in Operation : op[o].at # "new" ~> op[o].at = "ended"
=============================================================================
