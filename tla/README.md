# sqlbrc and cio: a TLA+ development

The repository holds two programs.

* **sqlbrc** (`SQL backup restore clone/`, Go, about 9 000 lines without tests) backs up, restores and
  clones PostgreSQL databases. The same service layer is driven by a web interface, by CLI commands and
  by a nightly timer, which are separate processes that share a directory of backups, a job journal and a
  PostgreSQL cluster.
* **cio** (`Container image optimizer/`, about 1 800 lines) inspects a container image and prints a report.

Almost everything that is hard here lies in sqlbrc: jobs limited by semaphores, files that several
processes create, rename and remove, long external commands, restarts in the middle of all that. cio is a
sequential, read-only program whose logic is a few rules.

Paths below are relative to `src/SQL backup restore clone/` unless they say otherwise.

## 1. Inventory

| Component | State | Operations | What is hard, and what makes it correct |
|---|---|---|---|
| Job queue, `internal/jobs/queue.go`, `job.go` | two levels of semaphores (buffered channels), made lazily per database; the job's record | `NewQueue`, `Acquire`, `Submit`, the deferred release | two semaphores per call, cancellation at any point, a journal that may fail. No place leaks; the limits hold; no deadlock; every return is accounted for |
| Job journal, `internal/jobs/log.go` | `jobs.jsonl`, `jobs.jsonl.tmp`; a mutex per process | `FileLog.Write` (read, append, cut, rewrite, rename), `List`, `MemoryLog` | deaths in mid-write, failed writes, other processes on the same file. The journal is the newest accepted records |
| Backup store, `internal/store` | `<name>.dump.part`, `<name>.dump`, `<name>.json` per backup | `Begin`, `Write`, `Commit`, `Abort`, `List`, `ApplyRetention`, `SweepPartials`, `Remove`, `EnsureSpace` | several system calls per operation, names that repeat within a second, plans from old listings. What the policy protects stays; an interrupted dump is never a backup; checksums belong to their archive |
| Operations, `internal/backup` | none of its own: the catalogue, the cluster, the queue | `Backup`, `Restore`, `Clone`, `Prune`, the checks before them | a restore is two jobs with waits between its checks and its effects. A database is cleaned only with a copy at hand; a rejected operation leaves every database alone; every operation ends |
| PostgreSQL client, `internal/pg` | none | `DumpDatabase`, `RestoreDatabase`, look-ups and statements through `psql`, each with a deadline; waits for readiness | a tool that hangs, is killed or belongs to another user; a statement that is carried out after its tool is gone. What a call answers is true; a call whose time is up returns, as far as its tool can be killed |
| Names and arguments, `internal/pg/dbname.go`, `argv.go`, `parse.go` | none | validation of names and identifiers, argument vectors, parsing of output | two patterns for one name. What is listed can be restored |
| Login and sessions, `internal/auth`, `internal/passwd` | sessions, failure counters and locks under a mutex; API tokens, read once | `Login`, `Session`, `Logout`, `Sessions` | bcrypt runs outside the mutex between a check and an update, and the clock is read before both. Guesses are bounded; a session lives once, and for its time |
| Web interface and API, `internal/web`, `cmd/sqlbrc/serve.go` | requests in progress; the sessions; `readOnly` | pages, forms and API calls that run operations in the context of the request; shutdown | a client that leaves, a panic, a logout or SIGTERM with operations in progress, one place in the queue for all. Work is done only for those allowed to; every request is answered; the process ends |
| Commands, `cmd/sqlbrc` | the outcome for each database so far | one command per operation, `backup --all`, `prune`, exit codes 0, 1, 2 | partial failure of a run over several databases, databases that come and go, signals. The exit code is true; one failure does not keep the rest from being tried |
| Configuration, `internal/config`, `internal/bytesize` | the settings, read twice by `serve` | defaults, file, environment, `--listen`, `Validate`; then `NewQueue`, `auth.New`, `NewClient` | layers over each other, values at their bounds, a file that changes between the two readings. What is accepted is taken as it is |
| Doctor, `internal/doctor` | the report so far | twelve checks of the host, one after the other | one defect hides another, the host changes between two checks. The exit code that monitoring reads is right |
| Deployment, `deploy/` | - | unit files, a cron file, an entry point | the reason why several processes share the directories |
| Image optimizer, `src/Container image optimizer/` | the report | `analyze`: history, rules on layers, a Trivy scan and its fallback, the report file, `--fail-on` | a scan that fails must not look like a scan that found nothing; the threshold and the report are true |

How they interact: a web request or a command calls `backup.Service`; the service checks its arguments,
the cluster and free space, then hands a closure to `Queue.Submit`; the closure runs PostgreSQL's tools
through the client and writes through the store; the queue writes two records per job to the journal. A
restore submits two jobs, one after the other: its safety copy and itself. All of this happens in the
context of the caller. Each process has its own queue and its own mutexes; between processes there is only
the file system and PostgreSQL.

## 2. Modules

| Module | Models | Correspondence |
|---|---|---|
| `BoundedExecutor` | what the package comment of `internal/jobs/job.go` promises | abstract: arrive, be admitted in one step, leave; the process may die |
| `JobQueue` | `internal/jobs/queue.go` | one control location per blocking point of `Acquire`/`Submit`; `slots` and `dbSlots[d]` are the lengths of the channels, `DOMAIN dbSlots` is the map made lazily by `databaseSlot`; each `select` branch is an action |
| `RetainedLog` | `MemoryLog`, and what any journal is to its readers | abstract: append and keep the newest |
| `JobJournal` | `FileLog` with the part of `Submit` that calls it | names and descriptors of inodes; `writer[p]` is a `Write` in progress under the mutex of process `p`; one action per system call; `FailWrite` and `Die` at each of them |
| `Catalogue` | what the backups of one database are to those who use them (comments of `Writer`, `Begin` and `Plan`) | abstract: a backup appears whole in one step, never changes, and goes only when it has expired at that moment; a name given twice is disputed and promises nothing |
| `BackupStore` | `internal/store` for one database, as `Service.dump`, `finishBackup` and `Prune` drive it | `job[w]` is where a worker is; one action per system call; the clock gives names; modification times drive the sweep |
| `Operations` | `internal/backup`: `Backup`, `Restore`, `Clone` with the queue, the catalogue and the cluster | `op[o].at` is the next call of the operation; every call of PostgreSQL or the store is an action with its failure; deaths of processes, prunes and other users of the cluster are actions |
| `SessionLife` | what `internal/auth` promises of one session | abstract: a session is opened once and ends once |
| `Sessions` | `internal/auth`, `internal/passwd` | `attempt[c]` is where a goroutine is in `Login`; one action per critical section and one for bcrypt between them; `failures` and `sessions` are the two maps |
| `WebServer` | `internal/web`, the shutdown in `cmd/sqlbrc/serve.go` | `req[c]` is one request from its arrival to its answer, with what it carries, its client and its job, before which a restore has the wait and the job of its safety copy; sessions are those of `SessionLife`; SIGTERM, the ten seconds of `Shutdown`, the exit, death and restart are actions |
| `PgClient` | one call of a method of `internal/pg` | `call` is the method and where it is; the tool, sudo, the server and the network are external and have their own steps; the deadline and the caller's cancellation are one flag that the steps of `exec.CommandContext` read; a `pg_restore` that is killed may leave workers ("orphaned"), which hold the pipes of the call |
| `Commands` | `cmd/sqlbrc` and the loops of `Prune` and `ManagedDatabases` | `command.at` goes from the flags to the exit code; `left` and `outcome` are the loop; databases come and go, a signal may come |
| `Configuration` | `internal/config`, `internal/bytesize`, the start of `serve`, the patterns of `internal/pg/dbname.go` | a configuration is a function of settings; `Problems` has one clause per check of `validate.go`; `web` and `service` are the two readings; `limits` and `client` are what the queue and the PostgreSQL client make of the second |
| `Doctor` | `internal/doctor` | `host` is the set of what is wrong; one action per check; `report` is its lines in order |
| `ImageReport` | `cio analyze` | `cio.at` follows `runAnalyze`; a layer is its size and the kinds of commands in it; the rules are sets of findings |
| `MC*` | instances for TLC: symmetry, sets of requests and of configurations | `MCPrograms` puts the sequential components and `JobJournal` side by side; they share no state, so each behaviour is one of them |
| `*Proofs` | the theorems of section 5 | |

How they build on each other. Two abstract modules stand between the components and those who use them, and
each is implemented from both sides:

* `BoundedExecutor`: `JobQueue` implements it with two channels (`ExecutorSpec`); and the operations of each
  process go through their queue only as it allows (`QueuesSpec` of `Operations`): a backup or a clone once, a
  restore twice, for its safety copy and for itself, and perhaps under two different databases.
* `Catalogue`: `BackupStore` implements it with files, plans made from old listings, failures and deaths
  (`CatalogueSpec`); and the backups of each database change only as it allows in `Operations` (`CataloguesSpec`).

So what is proved of `Operations` in single steps does not depend on a step that the files or the channels could
not make. Two differences are deliberate. `Operations` knows no disputed names: two dumps of one database begun in
one second are outside it. And it has no clock, so `keep_days` is left out: a safety copy could age out only under
a restore that waits for longer than `keep_days`. A place that a prune takes in the queue is left out too.

`WebServer` and `Commands` take an operation to be what `Operations` shows:
rejected before it has touched a database, failed, or done. `WebServer` EXTENDS `SessionLife`, which
`Sessions` implements. `Operations` takes the answers of the client as true, which is `AnswersAreTrue`.

Abstractions worth knowing when reading them:

* A dump is a number; a file holds it "cut" or "whole". A backup's name is the second in which it begins,
  because `FormatArchiveName` prints a time to the second, and names therefore collide within it. Tags, and
  archives that some other program put into the directory, are left out.
* `Plan` is applied to the names of archives: their order is the order of age. `KeepDays` counts in ticks.
* In `Operations` a database is absent, whole or broken; what it holds is not told apart. Archives are
  numbered in the order in which their dumps begin, 0 standing for one made in earlier times.
* The final record of `Submit` is written with `context.WithoutCancel`, so cancellation does not reach it.
* In `Sessions` time is in ticks and passes at most `Slowest` of them while one `Login` works; the cost of
  bcrypt is far below a lockout. Whether a password is right is a free choice.
* In `Configuration` sizes and durations are small numbers; an
  address is one of "local", "lan" or a malformed one; names of databases stand for the classes that the
  patterns tell apart.
* In `Doctor` and `ImageReport` what the tools print is reduced to what the checks and rules ask of it.
* Definitions named in a comment "Mutant" are deliberately wrong variants of the definition that follows
  them, kept to show that the properties notice; no specification uses them.

## 3. Runs

Every run takes less than three minutes with two workers. `CHECK_DEADLOCK FALSE` stands where behaviours end
because a bound is reached, a program exits or every operation has been made.

| Run | Instance | Question and answer |
|---|---|---|
| `queue` | 4 callers, 3 databases, `max_parallel` 2, `max_per_db` 0, which `NewQueue` corrects to 1 | No place leaks on any path, limits hold, the journal never shows more open jobs of a database than may run, every return is accounted for, and the two channels implement `BoundedExecutor`. With 4 callers on 3 databases both limits are reached and a caller waits at each of them: two jobs work, a third call holds its database's place and waits for the common one, the fourth waits behind a call on its own database. 101 782 states |
| `queue_liveness` | 3 callers, 2 databases, both limits 1 | `EveryCallReturns` if jobs end; `CancelledWaitEnds` even if none does. Limits of 1 are the tightest case: a place held while waiting for the other one would lock everybody out. 38 694 states |
| `journal_emptied` | 2 processes, 2 jobs | **Violation**, see findings |
| `store` | 3 workers, 3 seconds, 3 dumps, `keep_last` 1, `keep_days` 1, grace 1 | The policy's protected backups stay, archives are whole, checksums match and nothing is overwritten, except under a name that two processes give in the same second (`contended`). Three workers are two that share a name and one that sweeps; three seconds let age and number both expire a backup, a `.part` outlive the grace period, and two backups begin in one second. `CatalogueSpec`: all of it implements `Catalogue`, of which `NeverOverwritten` is a consequence. 2 017 524 states |
| `store_sweep` | 2 workers, 3 seconds | **Violation**, see findings |
| `operations` | 2 operations of one process out of backups, restores and clones on 2 databases, `max_parallel` 2, `max_per_db` 1, `keep_last` 1 | `SafetyCopy`, `RejectedLeavesDatabases`; `EveryOperationEnds` if the tools of PostgreSQL end; `CataloguesSpec` and `QueuesSpec`, the use of `Catalogue` and `BoundedExecutor`. The catalogue may already hold an archive of each database, so that two restores can meet; `keep_last` 1 is where retention bites most; the theorems of section 5 cover every other number. 275 736 states |
| `operations_source`, `operations_clone` | 2 operations on one database; 3 on two | **Violations**, see findings |
| `service` | 2 clients, 1 session, an API token, 1 place in the queue | `WorkIsLawful`; `EveryRequestAnswered` if jobs end; `ServerEnds` even if they do not. One place and two clients make every operation wait behind the other, a restore twice; one session makes requests meet the logout of their own session. One client more, or a second session, multiplies the states and adds no step that two cannot interleave with; safety is proved for any number. 60 952 states |
| `programs` | login: 2 goroutines, 1 login, 4 ticks, 2 attempts, lockout 4, session 3; journal: 1 process, 3 jobs, 4 records retained; a call in mode "tcp"; commands: 2 databases of the service, a protected and a foreign one; doctor: 2 defects and 1 change of the host; configurations: one or two settings of a section changed; images of up to 2 layers, answers of up to 2 vulnerabilities | The fifteen properties of the components that share no state. Two goroutines are what it takes for both to pass the lock before either fails; six records against four retained make the cut happen; two databases let one fail and the other succeed; two defects are a pair of which one hides the other; a lock and a session both begin and end within the ticks. 767 366 states |
| `client_timeout` | one call, mode "sudo" | **Violation**, see findings |
| `find_listed` | the configurations of `programs` | **Violation**, see findings |

What the properties of `programs` say: `GuessesBounded` (attempts that fail within the time of a lock are at
most `MaxLoginAttempts` and the ones that were past the check already), `SessionsLiveOnce` and
`SessionLasts` (`Sessions` implements `SessionLife`, and a session lasts `SessionTTL` from its login, no longer
and, but for a logout and the time of the login, no shorter), `AnswersAreTrue` and `CutOffCallReturns` (a call of
the PostgreSQL client), `ExitCodeIsTrue` and `EveryDatabaseTried` (a command), `DoctorIsRight` (the report against
what was wrong with the host all the time or at no moment), `AcceptedIsTaken` (the configuration and the parts
that are given it), `ThresholdIsTrue` and `ReportIsTrue` (cio), `KeepsAccepted`, `RecordsInOrder` and `LogSpec`
(the journal of one process, which implements `RetainedLog`).

### Fairness

* `JobQueue`: weak fairness of every step a goroutine can take, because the Go scheduler runs what can run;
  strong fairness of the two sends, because a channel hands a freed place to the sender that has waited
  longest. That jobs end (`JobsEnd`) is the hypothesis of `EveryCallReturns` and not of the specification.
  Nothing forces a call to be made or to be cancelled.
* `Operations`: weak fairness of what the service does by itself and strong fairness of its admission, which
  `EveryCallReturns` justifies. A step that waits for a tool of PostgreSQL is not fair: the deadline of a tool does
  not always end it. That tools end (`ToolsEnd`) is the hypothesis of `EveryOperationEnds`. Deaths, failures and
  users are never fair.
* `PgClient`: weak fairness of the code's own steps and of the delivery of a signal, strong fairness of giving up
  in `WaitForReady`, where `select` may take the pause instead, but not for ever. Nothing is assumed of the tool or
  the server: they may hang. `HungCallReturns` is what `client.go` promises, and holds in neither mode: in mode
  "sudo" the kill is refused (`client_timeout`), and in mode "tcp" the workers of a `pg_restore --jobs` that was
  killed hold the pipes for which `Run` waits. `CutOffCallReturns` is what is left in mode "tcp": every call but a
  restore returns after its time is up, and a restore does when its workers have ended (`WorkersEnd`).
* `WebServer`: weak fairness of a handler's steps and of noticing that the client has left, strong fairness
  of each admission to the queue (as above; a restore has two), and weak fairness of `Shutdown` and its ten
  seconds. Nothing makes a job end, not even that its client has left; that jobs end (`JobsEnd`) is the hypothesis
  of `EveryRequestAnswered`. SIGTERM, logouts, panics and deaths are never fair.

## 4. Findings

Each is a run whose property quotes the repository and is violated by what the code does.

* `journal_emptied`: all processes rewrite the journal through the same `jobs.jsonl.tmp`, opened with
  `O_TRUNC` under a mutex that only their own goroutines see. One process can rename the file that another
  has just truncated; the journal is then empty, although `log.go` promises that an interrupted write
  leaves no half of a journal. (By the same sharing a rewrite from an old reading drops records of another
  process.)
* `store_sweep`: `SweepPartials` takes a `.part` not modified for an hour to be abandoned, though `pg_dump`
  may be silent for up to `postgres.timeout`, two hours by default, and the comment says that cleaning must
  not take the file from a `pg_dump` at work. The dump then fails at its end.
* `operations_source`: `Restore` resolves and verifies its archive, then takes a safety copy whose retention
  removes that archive if it is the oldest of `keep_last`. With `keep_last` 1 every restore with a safety
  copy fails that way, and the backup it was asked to restore is gone.
* `operations_clone`: `Clone` refuses an existing target, but before it waits in the queue; a target that
  appears meanwhile is cleaned and overwritten.
* `client_timeout`: in mode "sudo", the default, the process that `exec.CommandContext` kills at the deadline
  is sudo's and belongs to root. The signal is refused, `Wait` goes on as long as the tool hangs, and with it
  the job and its places in the queue, although `client.go` says that a hanging command must not hold a task
  for ever.
* `find_listed`: `SplitBackupID` validates the database's name with the default pattern, not with
  `databases.pattern`; what `backups list` prints is then not accepted by `restore` and `clone`.

Further departures from the documents that the models reach, described here without a run of their own.

*Store and operations.* Two processes that begin a backup in the same second can both pass the check in
`Begin`; the slower one renames over the archive of the faster (`writer.go:63` promises otherwise), and if a
third process sweeps between them, the unfinished file of one may be renamed by the other (why
`ArchivesAreWhole`, `ChecksumsMatch` and `NeverOverwritten` exclude `contended` names). An archive removed
without its metadata leaves metadata that `List` never sees again (`backup.go:84`). A restore that saw no
database cleans one that has appeared since without a copy (why `SafetyCopy` speaks of restores that saw
one). A restore is queued under the database of its archive, and any archive may be named: two restores of one
target, from archives of two databases, run together, although `README.md:452-454` says that `max_per_db` keeps
them apart. A restore that is rejected by the second check of free space has made a safety copy, yet
exits with 2, of which `README.md:151-153` and `service.go:179-181` say that nothing was touched (why
`ExitCodeIsTrue` and `RejectedLeavesDatabases` allow it).
A `prune` without a name goes by the directories that match `databases.pattern` (`store.go:154-171`) and does not
ask whether a database is protected (`prune.go:60-65`): it removes old backups of a protected database, which
`config.go:157` and `README.md:29` say is never touched (why `ExitCodeIsTrue` excepts it by name). A threshold of
free space is all that is asked for: the size of what is to be written is never given (`service.go:242` passes 0),
although `store.go:217-219` has a place for it.

*Journal.* A final record that the journal refuses, and a panic in a handler, leave the job open in it, and
`jobs` prints such a record as one whose process stopped (`cmd/sqlbrc/jobs.go:105-107`). Every `Write`
rewrites the whole journal, not only one that is over the limit (`log.go:79-81`).

*Service.* Shutdown cuts operations after ten seconds, though `serve.go:42-44` says that queued ones go on. A
restart forgets sessions and lockouts. A slow attempt may move the end of a lock back, since the pause is
counted from its call (`auth.go:356`; why `GuessesBounded` subtracts `Slowest`). A success that ends late erases
the failures that others have had meanwhile (`auth.go:238-240`; why `GuessesBounded` counts from the last success),
and the first failure after a lockout locks again (`auth.go:353`). A dry prune writes no job,
though the notice of `handlers.go:57` says that its plan is in the journal (`prune.go:76-79`).

*Commands and doctor.* `backup --all` exits with 0 when some databases were rejected and others backed up. The
results of databases already pruned are not printed when a later one fails. A single command whose result
cannot be printed exits with 1 although the work is done. `--log-level` and `--log-format` are not applied by
the commands that build the service. Without a mode, which `Validate` lets pass, `doctor` does not notice
archives that postgres cannot read. `Allowed` and `ValidateDBName` differ on names that the configured pattern
allows and the default one does not.

*Configuration.* `Validate` looks at `postgres.timeout` and `postgres.jobs` after `WithDefaults` has replaced what
is zero or less (`client.go:55-93`). A timeout of zero is then the default of two hours. The number of jobs is
checked as 4 but used as written (`restore.go:166`): zero restores from a stream, in one process, and below zero
every restore is refused by `RestoreArgv` (`argv.go:292`), after its safety copy was made and the sessions of its
target were ended, and not at the start, as `config.go:1-5` has it (why `AcceptedIsTaken` excepts the two).

*PostgreSQL client.* The statement of a `psql` that was killed may still be carried out: a call that failed has
not necessarily changed nothing. In mode "tcp" a restore with several processes may outlive its timeout too: the
kill reaches the first process of `pg_restore`, its workers keep the pipes open, and no `WaitDelay` ends the wait
(`runner.go:69-81`).

*cio* (paths in `src/Container image optimizer/`). Misconfigurations in the scanner's answer and layers without a
command do not count against `--fail-on`. A failed scan does not either: under a threshold an image that nobody has
scanned ends with 0 (`cmd/cio/analyze.go:192-206`), although `README.md:446-448` says that after a failed scan the
code stays 0 if `--fail-on` is not given. `ThresholdIsTrue` leaves the code of a failed scan open. What a scanner
wrote before it ended with another status than 0 is thrown away (`internal/trivy/trivy.go:211-216`), so that
`--trivy-arg --exit-code=1` turns its findings into a failed scan. `Parse` (`internal/trivy/parse.go:46-58`) takes
every JSON object without `Results`, and `null`, for a report without vulnerabilities: with another `--format` in
`--trivy-arg` a scan that nobody could read is shown as clean. `ReportIsTrue` and `ThresholdIsTrue` speak of
reports in trivy's own format.

## 5. Theorems

Proved with TLAPS for every value of the constants that meets the assumptions of the modules (finitely many
tasks or clients, limits that are integers in the ranges the code ensures, `None` outside the data; files and
environments whose numeric settings are integers, as the types in `config.go` make them; histories and answers
of the scanner that are sequences). The modules hold no other assumption, and each of them is evaluated by a
run.

* **`JobQueueProofs`**. The inductive invariant is `TypeOK /\ NoPlaceLeaks`. The bounds on the channels in
  `TypeOK` are not inductive alone: that a release does not drive a counter below zero needs the fact that
  the counter equals the number of tasks holding a place. The lemmas say how one task's move changes the
  sets of holders; `StepInv` has one case per action. From it: `QueueInvariant`, `QueueBounded`
  (`ParallelismBounded`), `JournalBounded` and `ReturnAccounted` (with a second invariant, `RecordInv`, that
  ties a job's record and message to its place in `Submit`), and `QueueImplementsExecutor`, the refinement of
  `BoundedExecutor`: a task is running from its second place to the return of that place, `TakeSlot` is the
  admission, and the guards of the abstract admission follow from the counting.
* **`JobJournalProofs`**. For one process (`Process = {p}`) and enough files: `JournalIsComplete`
  (`KeepsAccepted` and `RecordsInOrder`) and `FileLogImplementsLog` (`LogSpec`), for any number of jobs and
  any retention. `FilesInv` says that a write in progress knows the whole journal and fills a file that is
  not the journal; with a second process exactly this is lost. `OrderInv` ties the records of a job to its
  phase. The lemma about data is `NewestAgain`: to cut, append and cut again is to append and cut.
  `JournalTypes` (`JournalTypeOK`) holds for any number of processes.
* **`BackupStoreProofs`**. `StoreTypes` (`TypeOK`), then `StoreKeepsNewest` (`KeepsNewest`) for any number of
  workers, any policy and any grace period. `KeepsNewest` alone is not inductive: a worker removes files it
  planned to remove earlier. `DueIsExpired` says that every archive in any worker's plan has expired now,
  and `PresentWasCommitted` that listings hold only committed names. Both are kept because expiry is for
  ever: more commits and a later clock only add to it (`ExpiredGrows`, by cardinalities of subsets).
  `ArchivesCanBeTrusted` (`ArchivesAreWhole`, `ChecksumsMatch`) and `ArchivesStay` (`NeverOverwritten`) need a
  second invariant: `NamesKnown` says that a name is shared only when contended and that a name of this
  second which has been an archive is one still (nothing of this second has expired, `ExpiredIsOld`), so
  that `Begin`'s look at the directory is as good as a look at history; `OwnsFiles` says that a worker whose
  name nobody shares finds its own dump under it at every later step.
  `StoreIsCatalogue` (`CatalogueSpec`) is the refinement of `Catalogue`. A rename is `Commit`, or `Clobber` under a
  disputed name (`RenameIsCommit`). A removal is `Retain` (`RemovalIsRetention`), which is harder than it looks: the
  plan was made from an old listing, and the newer backups that it counted may have been removed by others since,
  while the catalogue allows the removal only if `KeepLast` newer ones are there now. `ExpiredAmongPresent` closes
  the gap: take the greatest name that is missing among those newer than the victim. It was removed because it had
  expired, so `KeepLast` names are newer than it, and all of these are there.
  `CatalogueCanBeTrusted` shows that the abstraction has lost nothing that its users rely on: `CatalogueSpec` alone
  implies `ArchivesAreWhole` and `NeverOverwritten`.
* **`OperationsProofs`**. `RestoreHasSafetyCopy` (`TypeOK` and `SafetyCopy`) for any numbers of operations,
  processes and databases, and any limits. `Sound` carries the promise from the commit of the safety copy to
  the end of the restore, across the waits in between, and the numbers of dumps from a call to the dump that
  follows it. The heart is `RetentionKeepsACopy`: the newest archive of a database is never expired, so a
  catalogue that holds a copy newer than a given dump still does after any retention (the newest exists by
  the well-foundedness of `<` on the naturals). `RejectionChangesNoDatabase` (`RejectedLeavesDatabases`): an
  operation that has changed a database is past every rejection (`Lawful`).
  `CataloguesAreKept` (`CataloguesSpec`): the backups of each database go through steps of `Catalogue`. Retention
  counts archives and the catalogue counts names; the two agree because no two archives have one number, which
  is `NumbersInv`: the archives of a database are identified by their numbers, every number in use is at most
  `dumps`, and a dump in the making has a number of its own.
  `QueuesAreExecutors` (`QueuesSpec`): for each process every step is an arrival, an admission, a departure, the
  death of the whole queue, or none of its business. That a job keeps the database under which it waits until it
  leaves, though `JobDatabase` is computed from where the operation is, is part of it.
* **`SessionsProofs`**. `SessionsImplementLife` (`SessionsLiveOnce`), for any number of clients and any
  durations. The refinement mapping `lifeOf` reads the clock, so the passing of time is a step of the
  abstract module. What makes `NewSession` a birth and nothing else is that its time is in the past
  (`LoginInv`): it drops only sessions that have ended.
  `SessionsLastTheirTime` (`SessionLasts`): what the map holds of a session that nobody has closed is the time of its
  opening and `SessionTTL`, less what its login took, at most `Slowest`; and what a login or a count removes by an
  earlier clock has ended by the present one.
  `LockoutHolds` (`SessionsTypeOK`, `GuessesBounded`), for any number of logins, clients and attempts. The heart
  is `FewRacing`, for each failure from the allowed number on: the failures after it that fall within its lock,
  and the requests past the check that may become such, are together at most one for each other client, because
  nobody gets past the check any more and a request that fails moves from the second kind to the first. The
  loop of `registerFailure` is a recursive function: that it exists and gives numbers is proved by the least
  number for which it would not (`LeastNumber`), since the induction theorems cannot be used.
* **`WebServerProofs`**. `ServerWorksLawfully` (`WebTypeOK`, `WorkIsLawful`) for any number of clients and
  sessions. `Good` says of a request at each place what it had to show on the way there.
* **`CommandsProofs`**, the programs that the administrator starts.
  *Commands*: `CommandsTellTheTruth` (`ExitCodeIsTrue`, `EveryDatabaseTried`) for any sets of databases.
  `DealtWith` says for which databases a command's operations are, and what was changed by them; those of a prune of
  all may be protected.
  *Configuration*: `ConfigurationIsTaken` (`ConfigTypeOK`, `AcceptedIsTaken`) for any set of files and environments.
  `Valid` is what `Validate` makes certain of, and the invariant keeps the two loads apart: the web interface has
  settings that were valid when it read them (`WebIsValid`), the service has those of the file as it is now
  (`ServiceIsLoaded`), and the file may change between the two; only if it has not do they agree.
  *Doctor*: `DoctorTellsTheTruth` (`DoctorTypeOK`, `DoctorIsRight`) for any number of defects and of changes
  while it runs. `Reported` is a table of the checks that each defect cannot get past, and `EveryDefectReported`
  says that it leaves none out; `ToldSoFar` is the invariant: whatever was wrong all the time is told by its
  check or stands behind an error of an earlier one, since a check is left out only after an error
  (`WithoutServer`). The other direction is that every error was blamed on something that was wrong at some
  moment (`Blamed`).
* **`ToolProofs`**, the programs that run another one and read its output.
  *PgClient*: `ClientAnswersAreTrue` (`AnswersAreTrue`), in both modes. `ServedRequest` ties what the tool and the
  server have done to what was asked and to how the cluster has been since the call.
  *ImageReport*: `ReportTellsTheTruth` (`ImageTypeOK`, `ThresholdIsTrue`, `ReportIsTrue`) for every history and
  whatever the scanner finds, writes and ends with. `ImageInv` says at each step of the command what has been read
  and what has been made of it. The lemmas are about the two lists that are cut: the first n of a strict order are a set that nothing
  outside precedes (`ForemostLeads`) and that is not empty when n and the whole are not (`ForemostExists`), from the
  cardinalities of the sets of predecessors; hence the worst vulnerability is among those shown, and what
  `exceedsThreshold` reads there decides. That the counts by level add up is `AllAreCounted`, a sum over six
  disjoint parts of the domain.

Only model-checked: liveness under fairness (`EveryCallReturns`, `CancelledWaitEnds`, `EveryOperationEnds`,
`EveryRequestAnswered`, `ServerEnds`, `CutOffCallReturns`), which the prover does not do, and
`ProgramsTypeOK`, the conjunction of seven type invariants of which each is proved with the theorem of its
component.

## 6. Not modelled

* Text: argument vectors, parsing of tool output, pages, cookies, tables, JSON; the rendering of reports.
* `deploy/`: unit files, a cron file and an entry point that only starts the program. They are why several
  processes share the directories, and `Restart=on-failure` is why a process that died is started again.
* What no code calls: `WaitForReady`, `DropDatabase` and `RequireOwnedDatabase` of the client are in
  `PgClient` as far as every call is alike; `Store.Remove` is not modelled; `--pg-dump-arg` cannot be reached
  from the command line.
* `NewID` (random), permissions and ownership of files, `fsync`.
* Clocks that go backwards, archives that are corrupted after they were written (verification may fail for
  no reason in `Operations`, which covers its effect), `--no-clean`, the termination of sessions before a
  restore (whether it worked is not visible to the properties).
* The random order in which Go's `select` picks between ready branches is modelled as free choice.

## 7. Plan

Done: the queue, the journal, the store and the operations; the sessions and the web service; the
PostgreSQL client, the commands, doctor, the configuration and cio; the theorems above. What is left, in
order of importance:

1. `Plan` with archives of other programs whose names do not parse, and `Store.Remove` once it has a caller.
2. The queue of several processes on one journal, once its writes are made safe across processes.
3. `keep_days` and disputed names in `Operations`, so that it uses all that `Catalogue` says.
4. A restore's target that appears while it waits, and the database under which it is queued, as properties of their
   own, once the documents say what is meant.
