---------------------------- MODULE BackupStore ----------------------------
(***************************************************************************)
(* The directory <storage.dir>/<database> of one database: internal/store, *)
(* as Service.Backup and Service.Prune of internal/backup drive it.        *)
(*                                                                         *)
(* A worker is a place in the database's queue of one process: max_per_db  *)
(* of them in the web service, as many in each CLI command and in the      *)
(* nightly timer.  Their steps interleave at every system call, any of     *)
(* which may fail, and a worker may die between two of them.               *)
(*                                                                         *)
(* A backup is named by the second in which it begins, so names are        *)
(* seconds and their order is the order of age.  The three files of a name *)
(* are <name>.dump.part, <name>.dump and <name>.json.  What pg_dump        *)
(* produces is the number of the dump; a file holds it "cut" until the     *)
(* last byte is written.  Every archive here comes from the service; what  *)
(* Plan does with names it cannot parse is left out.                       *)
(***************************************************************************)
EXTENDS Integers, FiniteSets

CONSTANTS
  Worker,
  MaxTime,    \* bound: seconds of a behaviour
  MaxDumps,   \* bound: dumps begun in a behaviour
  KeepLast,   \* storage.keep_last, 0 for no limit
  KeepDays,   \* storage.keep_days in the unit of the clock, 0 for no limit
  Grace,      \* partialGrace in the unit of the clock
  None

ASSUME BoundsAssumption == MaxTime \in Nat \ {0} /\ MaxDumps \in Nat
ASSUME PolicyAssumption == KeepLast \in Nat /\ KeepDays \in Nat /\ Grace \in Nat

Name == 1 .. MaxTime
Dump == 1 .. MaxDumps
Content == [dump : Dump, is : {"cut", "whole"}]
ASSUME NoneAssumption == None \notin 0 .. MaxTime /\ None \notin 0 .. MaxDumps /\ None \notin Content
File == Name \X {"archive", "metadata"}
Unreadable == 0   \* what readMetadata makes of a file written in part

VARIABLES
  clock,      \* the wall clock
  dumps,      \* dumps begun so far
  job,        \* where each worker is, its backup's name, its dump, what it still has to remove
  part,       \* <name>.dump.part: its content and modification time, or None
  archive,    \* <name>.dump: its content, or None
  metadata,   \* <name>.json: the dump whose sha256 it holds, Unreadable, or None
  committed,  \* history: names that have ever been archives
  contended   \* history: names begun while another worker's backup of that name went on

history == <<committed, contended>>
vars == <<clock, dumps, job, part, archive, metadata, history>>

Location == {"idle", "create", "dumping", "rename", "metadata", "fill",
             "retain", "removing", "sweep"}
Idle == [at |-> "idle", name |-> 0, dump |-> 0, due |-> {}]

Present == {n \in Name : archive[n] # None}

-----------------------------------------------------------------------------
Init ==
  /\ clock = 1
  /\ dumps = 0
  /\ job = [w \in Worker |-> Idle]
  /\ part = [n \in Name |-> None]
  /\ archive = [n \in Name |-> None]
  /\ metadata = [n \in Name |-> None]
  /\ committed = {}
  /\ contended = {}

Goto(w, location) == job' = [job EXCEPT ![w].at = location]
Leave(w) == job' = [job EXCEPT ![w] = Idle]
Unlinked(n) == [part EXCEPT ![n] = None]

Contended(w) == contended \cup {n \in {clock} : \E v \in Worker \ {w} : job[v].name = n}

\* Mutant: Begin does not look whether the archive exists.
StartBackupBlind(w) ==
  /\ job[w].at = "idle"
  /\ dumps < MaxDumps
  /\ contended' = Contended(w)
  /\ dumps' = dumps + 1
  /\ job' = [job EXCEPT ![w] = [at |-> "create", name |-> clock, dump |-> dumps', due |-> {}]]
  /\ UNCHANGED <<clock, part, archive, metadata, committed>>

\* Mutant: Begin leaves the name out of the Writer it returns, and Go makes it zero.
StartBackupUnnamed(w) ==
  /\ job[w].at = "idle"
  /\ dumps < MaxDumps
  /\ contended' = Contended(w)
  /\ archive[clock] = None
  /\ dumps' = dumps + 1
  /\ job' = [job EXCEPT ![w] = [at |-> "create", name |-> 0, dump |-> dumps', due |-> {}]]
  /\ UNCHANGED <<clock, part, archive, metadata, committed>>

\* Begin: the name of this second, refused when such an archive exists.
StartBackup(w) ==
  /\ job[w].at = "idle"
  /\ dumps < MaxDumps
  /\ contended' = Contended(w)
  /\ archive[clock] = None
  /\ dumps' = dumps + 1
  /\ job' = [job EXCEPT ![w] = [at |-> "create", name |-> clock, dump |-> dumps', due |-> {}]]
  /\ UNCHANGED <<clock, part, archive, metadata, committed>>

\* Begin: O_EXCL refuses a .part that exists; anything else may go wrong too.
CreatePart(w) ==
  LET n == job[w].name
  IN  /\ job[w].at = "create"
      /\ \/ /\ part[n] = None
            /\ part' = [part EXCEPT ![n] =
                 [dump |-> job[w].dump, is |-> "cut", mtime |-> clock]]
            /\ Goto(w, "dumping")
         \/ /\ Leave(w)
            /\ UNCHANGED part
      /\ UNCHANGED <<clock, dumps, archive, metadata, history>>

\* pg_dump writes through the open file.  If its name is gone, or names a file of
\* another dump, nothing that has a name changes.
Written(w, is) ==
  LET n == job[w].name
  IN  part' = IF part[n] # None /\ part[n].dump = job[w].dump
              THEN [part EXCEPT ![n] = [@ EXCEPT !.is = is, !.mtime = clock]]
              ELSE part

DumpSome(w) ==
  /\ job[w].at = "dumping"
  /\ Written(w, "cut")
  /\ UNCHANGED <<clock, dumps, job, archive, metadata, history>>

DumpEnds(w) ==
  /\ job[w].at = "dumping"
  /\ Written(w, "whole")
  /\ Goto(w, "rename")
  /\ UNCHANGED <<clock, dumps, archive, metadata, history>>

\* Mutant: an error of pg_dump goes unnoticed and the writer commits.
AbortDumpCommits(w) ==
  /\ job[w].at = "dumping"
  /\ Goto(w, "rename")
  /\ UNCHANGED <<clock, dumps, part, archive, metadata, history>>

\* pg_dump fails and Abort removes the .part, if it can.
AbortDump(w) ==
  /\ job[w].at = "dumping"
  /\ part' \in {part, Unlinked(job[w].name)}
  /\ Leave(w)
  /\ UNCHANGED <<clock, dumps, archive, metadata, history>>

\* Commit: the .part, whatever it is by now, gets the name of the archive.
RenamePart(w) ==
  LET n == job[w].name
  IN  /\ job[w].at = "rename"
      /\ part[n] # None
      /\ archive' = [archive EXCEPT ![n] = [dump |-> part[n].dump, is |-> part[n].is]]
      /\ part' = Unlinked(n)
      /\ committed' = committed \cup {n}
      /\ Goto(w, "metadata")
      /\ UNCHANGED <<clock, dumps, metadata, contended>>

\* Commit: the file cannot be closed or renamed; it is removed, if possible.
FailCommit(w) ==
  /\ job[w].at = "rename"
  /\ part' \in {part, Unlinked(job[w].name)}
  /\ Leave(w)
  /\ UNCHANGED <<clock, dumps, archive, metadata, history>>

\* writeMetadata: O_EXCL again.  A failure leaves the archive, is reported, and
\* the job ends without retention.
CreateMetadata(w) ==
  LET n == job[w].name
  IN  /\ job[w].at = "metadata"
      /\ \/ /\ metadata[n] = None
            /\ metadata' = [metadata EXCEPT ![n] = Unreadable]
            /\ Goto(w, "fill")
         \/ /\ Leave(w)
            /\ UNCHANGED metadata
      /\ UNCHANGED <<clock, dumps, part, archive, history>>

FillMetadata(w) ==
  LET n == job[w].name
  IN  /\ job[w].at = "fill"
      /\ \/ /\ metadata' = IF metadata[n] = None THEN metadata
                           ELSE [metadata EXCEPT ![n] = job[w].dump]
            /\ Goto(w, "retain")
         \/ /\ metadata' \in {metadata, [metadata EXCEPT ![n] = None]}
            /\ Leave(w)
      /\ UNCHANGED <<clock, dumps, part, archive, history>>

\* Service.Prune reaches retention without a backup of its own.
StartPrune(w) ==
  /\ job[w].at = "idle"
  /\ Goto(w, "retain")
  /\ UNCHANGED <<clock, dumps, part, archive, metadata, history>>

\* Plan: with the newest first, a backup goes when KeepLast others precede it or
\* when it is older than KeepDays; without limits nothing goes.
Newer(n, names) == {m \in names : m > n}
Expired(names, now) ==
  {n \in names : \/ KeepLast > 0 /\ Cardinality(Newer(n, names)) >= KeepLast
                 \/ KeepDays > 0 /\ now - n > KeepDays}

\* Files: the archive, and the metadata if describe could read it.
FilesOf(names) == {f \in names \X {"archive", "metadata"} :
                     f[2] = "metadata" => metadata[f[1]] \in Dump}

\* Mutant: the backups are counted from the oldest.
PlanRetentionOldestFirst(w) ==
  /\ job[w].at = "retain"
  /\ job' = [job EXCEPT ![w].at = "removing",
                        ![w].due = FilesOf({n \in Present :
                           KeepLast > 0 /\ Cardinality({m \in Present : m < n}) >= KeepLast})]
  /\ UNCHANGED <<clock, dumps, part, archive, metadata, history>>

\* Mutant: the listing takes unfinished dumps for backups.
PlanRetentionCountsParts(w) ==
  /\ job[w].at = "retain"
  /\ job' = [job EXCEPT ![w].at = "removing",
                        ![w].due = FilesOf(Expired(Present \cup {n \in Name : part[n] # None},
                                                   clock))]
  /\ UNCHANGED <<clock, dumps, part, archive, metadata, history>>

\* ApplyRetention: List, describe and Plan.
PlanRetention(w) ==
  /\ job[w].at = "retain"
  /\ job' = [job EXCEPT ![w].at = "removing",
                        ![w].due = FilesOf(Expired(Present, clock))]
  /\ UNCHANGED <<clock, dumps, part, archive, metadata, history>>

\* The newest of the doomed first, and of its files the archive.
Before(f, g) == f[1] > g[1] \/ (f[1] = g[1] /\ f[2] = "archive")

\* A file that cannot be removed, or is gone already, is passed over.
RemoveFile(w) ==
  /\ job[w].at = "removing"
  /\ \E f \in job[w].due :
       /\ \A g \in job[w].due \ {f} : Before(f, g)
       /\ \/ UNCHANGED <<archive, metadata>>
          \/ f[2] = "archive" /\ archive' = [archive EXCEPT ![f[1]] = None] /\ UNCHANGED metadata
          \/ f[2] = "metadata" /\ metadata' = [metadata EXCEPT ![f[1]] = None] /\ UNCHANGED archive
       /\ job' = [job EXCEPT ![w].due = @ \ {f}]
  /\ UNCHANGED <<clock, dumps, part, history>>

EndRetention(w) ==
  /\ job[w].at = "removing"
  /\ job[w].due = {}
  /\ Goto(w, "sweep")
  /\ UNCHANGED <<clock, dumps, part, archive, metadata, history>>

\* SweepPartials: a .part not modified for Grace goes, whoever writes it.
SweepPart(w) ==
  /\ job[w].at = "sweep"
  /\ \E n \in Name : /\ part[n] # None
                     /\ clock - part[n].mtime >= Grace
                     /\ part' = Unlinked(n)
  /\ UNCHANGED <<clock, dumps, job, archive, metadata, history>>

EndSweep(w) ==
  /\ job[w].at = "sweep"
  /\ Leave(w)
  /\ UNCHANGED <<clock, dumps, part, archive, metadata, history>>

\* The process dies; its files stay as they are.
Die(w) ==
  /\ job[w].at # "idle"
  /\ Leave(w)
  /\ UNCHANGED <<clock, dumps, part, archive, metadata, history>>

Tick ==
  /\ clock < MaxTime
  /\ clock' = clock + 1
  /\ UNCHANGED <<dumps, job, part, archive, metadata, history>>

Step(w) == \/ StartBackup(w) \/ CreatePart(w) \/ DumpSome(w) \/ DumpEnds(w) \/ AbortDump(w)
           \/ RenamePart(w) \/ FailCommit(w) \/ CreateMetadata(w) \/ FillMetadata(w)
           \/ StartPrune(w) \/ PlanRetention(w) \/ RemoveFile(w) \/ EndRetention(w)
           \/ SweepPart(w) \/ EndSweep(w) \/ Die(w)

Next == Tick \/ \E w \in Worker : Step(w)

Spec == Init /\ [][Next]_vars

-----------------------------------------------------------------------------
\* Type invariant; only names given to a backup by the clock occur.
TypeOK ==
  /\ clock \in 1 .. MaxTime
  /\ dumps \in 0 .. MaxDumps
  /\ job \in [Worker -> [at : Location, name : 0 .. MaxTime, dump : 0 .. MaxDumps,
                         due : SUBSET File]]
  /\ \A w \in Worker :
       job[w].at \in {"create", "dumping", "rename", "metadata", "fill"} =>
         job[w].name \in Name /\ job[w].dump \in Dump
  /\ part \in [Name -> {None} \cup [dump : Dump, is : {"cut", "whole"}, mtime : Name]]
  /\ archive \in [Name -> {None} \cup Content]
  /\ metadata \in [Name -> {None, Unreadable} \cup Dump]
  /\ committed \in SUBSET Name
  /\ contended \in SUBSET Name

Protected(n) == n \notin Expired(committed, clock)

\* Retention never takes a backup that the policy protects.  Of all backups ever
\* committed, one that is among the KeepLast newest and not older than KeepDays
\* is in the directory: whichever processes plan at once, from whatever old
\* listings they remove, and wherever they die.
KeepsNewest == \A n \in committed : Protected(n) => archive[n] # None

\* A dump that was interrupted, or whose process died, never looks like a backup, unless
\* two processes gave the name in the same second: a third may sweep the file of one before
\* its rename, which then takes the unfinished file of the other.
ArchivesAreWhole == \A n \in Present \ contended : archive[n].is = "whole"

\* verifyArchive can be relied on: readable metadata beside an archive holds the
\* sum of that archive and of no other dump of the same name, unless two backups
\* of that name went on at once.
ChecksumsMatch ==
  \A n \in Present \ contended : metadata[n] \in Dump => metadata[n] = archive[n].dump

\* writer.go, Begin: an existing backup of the same name is not overwritten.  That
\* holds of every name but those which two processes give in the same second.  (It follows
\* from CatalogueSpec, below, where only Clobber changes a backup.)
NeverOverwritten ==
  [][\A n \in Present \ contended : archive'[n] \in {archive[n], None}]_vars

\* The directory as its users see it.  A removal, though planned from a listing that is
\* old by now, takes only what the policy gives up at the moment of the removal; an
\* archive appears whole under a name that is free, and does not change.
Kept == INSTANCE Catalogue WITH
          now <- clock,
          held <- {[name |-> n, content |-> archive[n]] : n \in Present},
          disputed <- contended,
          Sound <- [dump : Dump, is : {"whole"}],
          Spoilt <- Content
CatalogueSpec == Kept!Spec

\* partials.go, SweepPartials: cleaning up must not take the file away from a
\* pg_dump at work.
PartBelongsToDump ==
  \A w \in Worker : job[w].at = "dumping" =>
    part[job[w].name] # None /\ part[job[w].name].dump = job[w].dump
=============================================================================
