----------------------------- MODULE JobJournal -----------------------------
(***************************************************************************)
(* The job journal on disk: FileLog of internal/jobs/log.go, written by    *)
(* Queue.Submit of one or several processes (the web service, a CLI        *)
(* command, the nightly timer), each of which may die at any moment.       *)
(*                                                                         *)
(* FileLog.Write holds the mutex of its own process only.  It reads the    *)
(* whole file, appends, cuts to the newest Retain records, writes the list *)
(* to <path>.tmp and renames it.  Files are inodes: path and temp are the  *)
(* names, and an open descriptor keeps writing to its inode after another  *)
(* process has renamed it.  The records of one rewrite reach the file in   *)
(* one step unless the process dies in the middle of it.                   *)
(***************************************************************************)
EXTENDS Integers, Sequences

CONSTANTS
  Process,   \* processes that share storage.state_dir
  Job,       \* jobs, each run once
  Retain,    \* jobs.retain
  Inode,     \* enough files for every name and every descriptor
  None       \* no file, no job, no process

ASSUME RetainAssumption == Retain \in Int
ASSUME NoneAssumption == None \notin Process \cup Job \cup Inode

Record == [job : Job, status : {"running", "done", "failed"}]

VARIABLES
  phase,     \* how far Submit of each job has come
  home,      \* the process that runs the job
  writer,    \* FileLog.Write in progress in each process
  path,      \* inode named jobs.jsonl, or None
  temp,      \* inode named jobs.jsonl.tmp, or None
  content,   \* the readable records of each inode
  accepted   \* history: records whose Write has returned without an error

journalVars == <<phase, home, writer, path, temp, content, accepted>>
files == <<path, temp, content>>

Phase == {"new", "starting", "working", "done", "failed", "closed", "dead"}
NoWriter == [at |-> "free", job |-> None, status |-> "running", lines |-> <<>>, fd |-> None]

\* read: no file is an empty journal.
Lines == IF path = None THEN <<>> ELSE content[path]

Log == INSTANCE RetainedLog WITH log <- Lines

\* Mutant: the journal is cut one record too short.
NewestButOne(s) == IF Retain > 0 /\ Len(s) >= Retain THEN SubSeq(s, Len(s) - Retain + 2, Len(s)) ELSE s

Newest(s) == Log!Newest(s)

-----------------------------------------------------------------------------
JournalInit ==
  /\ phase = [j \in Job |-> "new"]
  /\ home = [j \in Job |-> None]
  /\ writer = [p \in Process |-> NoWriter]
  /\ path = None
  /\ temp = None
  /\ content = [i \in Inode |-> <<>>]
  /\ accepted = <<>>

\* Submit has its places in the queue and is about to write the start record.
Admit(p, j) ==
  /\ phase[j] = "new"
  /\ phase' = [phase EXCEPT ![j] = "starting"]
  /\ home' = [home EXCEPT ![j] = p]
  /\ UNCHANGED <<writer, files, accepted>>

\* The job's function returns; SetResult has set the outcome.
Finish(j) ==
  /\ phase[j] = "working"
  /\ \E outcome \in {"done", "failed"} : phase' = [phase EXCEPT ![j] = outcome]
  /\ UNCHANGED <<home, writer, files, accepted>>

\* The record a job's Submit has to write next.
Pending(j) == phase[j] \in {"starting", "done", "failed"}
StatusOf(j) == IF phase[j] = "starting" THEN "running" ELSE phase[j]

\* After Write has returned, with or without an error, Submit goes on.
Proceed(j) == phase' = [phase EXCEPT ![j] = IF @ = "starting" THEN "working" ELSE "closed"]

\* Write: lock the process's mutex, read the journal, append and cut.
ReadJournal(p, j) ==
  /\ writer[p].at = "free"
  /\ home[j] = p /\ Pending(j)
  /\ LET r == [job |-> j, status |-> StatusOf(j)]
     IN  writer' = [writer EXCEPT ![p] =
           [at |-> "open", job |-> j, status |-> r.status,
            lines |-> Newest(Append(Lines, r)), fd |-> None]]
  /\ UNCHANGED <<phase, home, files, accepted>>

\* Inodes that a name or a descriptor refers to.
InUse == {path, temp} \cup {writer[p].fd : p \in Process}

\* Mutant: the journal itself is truncated and written.
OpenTempInPlace(p) ==
  /\ writer[p].at = "open"
  /\ LET i == IF path # None THEN path ELSE CHOOSE n \in Inode : n \notin InUse
     IN  /\ temp' = i
         /\ content' = [content EXCEPT ![i] = <<>>]
         /\ writer' = [writer EXCEPT ![p].at = "write", ![p].fd = i]
  /\ UNCHANGED <<phase, home, path, accepted>>

\* rewrite: open jobs.jsonl.tmp with O_CREATE|O_TRUNC.
OpenTemp(p) ==
  /\ writer[p].at = "open"
  /\ LET i == IF temp # None THEN temp ELSE CHOOSE n \in Inode : n \notin InUse
     IN  /\ temp' = i
         /\ content' = [content EXCEPT ![i] = <<>>]
         /\ writer' = [writer EXCEPT ![p].at = "write", ![p].fd = i]
  /\ UNCHANGED <<phase, home, path, accepted>>

\* New records overwrite the file from its beginning; what lies beyond them stays,
\* its first line perhaps cut in two and then unreadable.
Overwrite(old, new) ==
  LET rest == SubSeq(old, Len(new) + 1, Len(old))
  IN  {new \o rest, new \o (IF rest = <<>> THEN rest ELSE Tail(rest))}

WriteTemp(p) ==
  /\ writer[p].at = "write"
  /\ \E after \in Overwrite(content[writer[p].fd], writer[p].lines) :
       content' = [content EXCEPT ![writer[p].fd] = after]
  /\ writer' = [writer EXCEPT ![p].at = "rename"]
  /\ UNCHANGED <<phase, home, path, temp, accepted>>

\* Mutant: the job's record is written again after it has been accepted.
RenameTempAgain(p) ==
  /\ writer[p].at = "rename"
  /\ temp # None
  /\ path' = temp
  /\ temp' = None
  /\ accepted' = Append(accepted, [job |-> writer[p].job, status |-> writer[p].status])
  /\ UNCHANGED phase \/ Proceed(writer[p].job)
  /\ writer' = [writer EXCEPT ![p] = NoWriter]
  /\ UNCHANGED <<home, content>>

\* Rename moves whatever jobs.jsonl.tmp names now.
RenameTemp(p) ==
  /\ writer[p].at = "rename"
  /\ temp # None
  /\ path' = temp
  /\ temp' = None
  /\ accepted' = Append(accepted, [job |-> writer[p].job, status |-> writer[p].status])
  /\ Proceed(writer[p].job)
  /\ writer' = [writer EXCEPT ![p] = NoWriter]
  /\ UNCHANGED <<home, content>>

\* What a rewrite leaves that stops early: some of its records.
PartWritten(p) ==
  IF writer[p].at = "write"
  THEN \E n \in 0 .. Len(writer[p].lines) :
         \E after \in Overwrite(content[writer[p].fd], SubSeq(writer[p].lines, 1, n)) :
           content' = [content EXCEPT ![writer[p].fd] = after]
  ELSE UNCHANGED content

\* Any step of Write may fail (a full disk, a lost mount, jobs.jsonl.tmp gone).
\* Once the temporary file is open its name is removed, whoever made it; Submit
\* ignores the error of a start record and reports that of a final one.
FailWrite(p) ==
  /\ writer[p].at # "free"
  /\ PartWritten(p)
  /\ temp' = IF writer[p].at \in {"write", "rename"} THEN None ELSE temp
  /\ Proceed(writer[p].job)
  /\ writer' = [writer EXCEPT ![p] = NoWriter]
  /\ UNCHANGED <<home, path, accepted>>

\* A process dies and its jobs never finish.  The service manager may start it
\* again at once.
Die(p) ==
  /\ \E j \in Job : home[j] = p /\ phase[j] \notin {"closed", "dead"}
  /\ phase' = [j \in Job |-> IF home[j] = p /\ phase[j] # "closed" THEN "dead" ELSE phase[j]]
  /\ PartWritten(p)
  /\ writer' = [writer EXCEPT ![p] = NoWriter]
  /\ UNCHANGED <<home, path, temp, accepted>>

JournalNext ==
  \/ \E j \in Job : Finish(j) \/ \E p \in Process : Admit(p, j) \/ ReadJournal(p, j)
  \/ \E p \in Process : OpenTemp(p) \/ WriteTemp(p) \/ RenameTemp(p)
                        \/ FailWrite(p) \/ Die(p)

JournalSpec == JournalInit /\ [][JournalNext]_journalVars

-----------------------------------------------------------------------------
\* Type invariant; a record in a file is always one that a job can write.
JournalTypeOK ==
  /\ phase \in [Job -> Phase]
  /\ home \in [Job -> Process \cup {None}]
  /\ writer \in [Process -> [at : {"free", "open", "write", "rename"},
                             job : Job \cup {None},
                             status : {"running", "done", "failed"},
                             lines : Seq(Record), fd : Inode \cup {None}]]
  /\ path \in Inode \cup {None} /\ temp \in Inode \cup {None}
  /\ content \in [Inode -> Seq(Record)]
  /\ accepted \in Seq(Record)

\* With one process FileLog is the retained log: a crash, a failed write and any
\* interleaving of goroutines leave the journal as it was or with one record more.
LogSpec == Log!Spec

\* With one process the journal is exactly the newest accepted records: none is
\* lost, and nothing whose Write failed is there.
KeepsAccepted == Lines = Newest(accepted)

\* With one process the records of one job stay in order whichever writes fail and
\* whenever it dies: a job never appears open after its final record, and no
\* record appears twice.
RecordsInOrder ==
  \A a, b \in 1 .. Len(Lines) :
    a < b /\ Lines[a].job = Lines[b].job =>
      Lines[a].status = "running" /\ Lines[b].status # "running"

\* log.go, rewrite: an interrupted write leaves no half of a journal behind.  Once
\* a record has been accepted the journal is not empty.
NeverEmptied == accepted # <<>> => Lines # <<>>
=============================================================================
