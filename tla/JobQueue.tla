------------------------------ MODULE JobQueue ------------------------------
(***************************************************************************)
(* The job queue of sqlbrc: internal/jobs/queue.go.                        *)
(*                                                                         *)
(* A task is a goroutine that calls Queue.Submit again and again (a web    *)
(* request, a step of the CLI).  Submit takes a place in the database's    *)
(* channel, then one in the common channel, writes the start record, runs  *)
(* the job, writes the final record and gives both places back in the      *)
(* opposite order.  A buffered Go channel of struct{} is the number of its *)
(* elements.  Each blocking point of the code is a control location, so    *)
(* the calls of several tasks interleave between any two channel           *)
(* operations.                                                             *)
(***************************************************************************)
EXTENDS Integers, FiniteSets

CONSTANTS Task,               \* concurrent callers of Submit
          Database,           \* names of databases
          NoDatabase,         \* the task is not inside Submit
          ConfigMaxParallel,  \* jobs.max_parallel as given to NewQueue
          ConfigMaxPerDB      \* jobs.max_per_db as given to NewQueue

ASSUME TaskAssumption == IsFiniteSet(Task)
ASSUME NoDatabaseAssumption == NoDatabase \notin Database
ASSUME ConfigAssumption == ConfigMaxParallel \in Int /\ ConfigMaxPerDB \in Int

DefaultMaxParallel == 2
DefaultMaxPerDB == 1

\* NewQueue: values below one give way to the defaults, and the limit per
\* database is brought down to the common one.
AtLeastOne(configured, default) == IF configured < 1 THEN default ELSE configured
maxParallel == AtLeastOne(ConfigMaxParallel, DefaultMaxParallel)
maxPerDB == LET wanted == AtLeastOne(ConfigMaxPerDB, DefaultMaxPerDB)
            IN  IF wanted > maxParallel THEN maxParallel ELSE wanted

VARIABLES
  pc,       \* where each task is inside Submit
  db,       \* job.Database of the call in progress
  ctx,      \* the caller's context: "live" or "cancelled"
  slots,    \* len(q.slots)
  dbSlots,  \* len of each channel in q.dbSlots; its domain grows on first use
  result,   \* job.Status that SetResult has set: "none", "done" or "failed"
  record,   \* status of the job's last record that the journal has accepted
  message   \* job.Message: "noted" once it says the journal was unavailable

vars == <<pc, db, ctx, slots, dbSlots, result, record, message>>
jobVars == <<result, record, message>>

Location == {"idle", "dbWait", "slotWait", "undo", "starting", "working",
             "ending", "releasing", "releasingDb"}

\* Locations at which a task's element is in q.slots, and in its database's
\* channel.
HasSlot == {"starting", "working", "ending", "releasing"}
HasDbSlot == HasSlot \cup {"slotWait", "undo", "releasingDb"}
SlotHolders == {t \in Task : pc[t] \in HasSlot}
DbSlotHolders(d) == {t \in Task : pc[t] \in HasDbSlot /\ db[t] = d}

-----------------------------------------------------------------------------
Init ==
  /\ pc = [t \in Task |-> "idle"]
  /\ db = [t \in Task |-> NoDatabase]
  /\ ctx = [t \in Task |-> "live"]
  /\ slots = 0
  /\ dbSlots = [d \in {} |-> 0]
  /\ result = [t \in Task |-> "none"]
  /\ record = [t \in Task |-> "none"]
  /\ message = [t \in Task |-> "plain"]

\* Mutant: a new channel for every call.
WithChannelAfresh(d) == [e \in DOMAIN dbSlots \cup {d} |-> IF e = d THEN 0 ELSE dbSlots[e]]

\* databaseSlot: looks the channel up under q.mu and makes it on first use.
WithChannel(d) == [e \in DOMAIN dbSlots \cup {d} |->
                     IF e \in DOMAIN dbSlots THEN dbSlots[e] ELSE 0]

Goto(t, location) == pc' = [pc EXCEPT ![t] = location]

\* Leaving Submit: the job goes to the caller, and the next call of this task
\* brings a job and a context of its own.
Return(t) == /\ Goto(t, "idle")
             /\ db' = [db EXCEPT ![t] = NoDatabase]
             /\ ctx' = [ctx EXCEPT ![t] = "live"]
             /\ result' = [result EXCEPT ![t] = "none"]
             /\ record' = [record EXCEPT ![t] = "none"]
             /\ message' = [message EXCEPT ![t] = "plain"]

\* Submit is called for a job on database d and looks its channel up.
Submit(t, d) ==
  /\ pc[t] = "idle"
  /\ Goto(t, "dbWait")
  /\ db' = [db EXCEPT ![t] = d]
  /\ dbSlots' = WithChannel(d)
  /\ UNCHANGED <<ctx, slots, jobVars>>

\* The client disconnects, the operator interrupts the command, or a timeout of
\* the caller expires: at any moment, before the first select too.
Cancel(t) ==
  /\ pc[t] # "idle"
  /\ ctx[t] = "live"
  /\ ctx' = [ctx EXCEPT ![t] = "cancelled"]
  /\ UNCHANGED <<pc, db, slots, dbSlots, jobVars>>

\* The first select.  With both branches ready Go picks either, so a cancelled
\* context does not disable the send.
TakeDbSlot(t) ==
  /\ pc[t] = "dbWait"
  /\ dbSlots[db[t]] < maxPerDB
  /\ dbSlots' = [dbSlots EXCEPT ![db[t]] = @ + 1]
  /\ Goto(t, "slotWait")
  /\ UNCHANGED <<db, ctx, slots, jobVars>>

\* Mutant: the context is looked at only when a place is free.
LeaveDbWaitLate(t) ==
  /\ pc[t] = "dbWait"
  /\ ctx[t] = "cancelled"
  /\ dbSlots[db[t]] < maxPerDB
  /\ Return(t)
  /\ UNCHANGED <<slots, dbSlots>>

\* A cancelled wait for the database's place.
LeaveDbWait(t) ==
  /\ pc[t] = "dbWait"
  /\ ctx[t] = "cancelled"
  /\ Return(t)
  /\ UNCHANGED <<slots, dbSlots>>

\* Mutant: the common channel has no capacity.
TakeSlotUnbounded(t) ==
  /\ pc[t] = "slotWait"
  /\ slots' = slots + 1
  /\ Goto(t, "starting")
  /\ UNCHANGED <<db, ctx, dbSlots, jobVars>>

\* The second select, with the database's place already taken.
TakeSlot(t) ==
  /\ pc[t] = "slotWait"
  /\ slots < maxParallel
  /\ slots' = slots + 1
  /\ Goto(t, "starting")
  /\ UNCHANGED <<db, ctx, dbSlots, jobVars>>

\* Mutant: the job runs although Acquire has returned an error.
LeaveSlotWaitRuns(t) ==
  /\ pc[t] = "slotWait"
  /\ ctx[t] = "cancelled"
  /\ Goto(t, "starting")
  /\ UNCHANGED <<db, ctx, slots, dbSlots, jobVars>>

\* A cancelled wait for the common place.
LeaveSlotWait(t) ==
  /\ pc[t] = "slotWait"
  /\ ctx[t] = "cancelled"
  /\ Goto(t, "undo")
  /\ UNCHANGED <<db, ctx, slots, dbSlots, jobVars>>

\* Mutant: the database's place stays taken when the second wait is given up.
UndoDbSlotForgets(t) ==
  /\ pc[t] = "undo"
  /\ Return(t)
  /\ UNCHANGED <<slots, dbSlots>>

\* A cancelled wait for the common place gives the database's place back.
UndoDbSlot(t) ==
  /\ pc[t] = "undo"
  /\ dbSlots' = [dbSlots EXCEPT ![db[t]] = @ - 1]
  /\ Return(t)
  /\ UNCHANGED slots

\* The start record; an error of the journal is ignored.
WriteStart(t) ==
  /\ pc[t] = "starting"
  /\ Goto(t, "working")
  /\ record' \in {record, [record EXCEPT ![t] = "running"]}
  /\ UNCHANGED <<db, ctx, slots, dbSlots, result, message>>

\* Mutant: the database's place is given back before the final record.
FinishWorkReleases(t) ==
  /\ pc[t] = "working"
  /\ Goto(t, "ending")
  /\ dbSlots' = [dbSlots EXCEPT ![db[t]] = @ - 1]
  /\ \E outcome \in {"done", "failed"} : result' = [result EXCEPT ![t] = outcome]
  /\ UNCHANGED <<db, ctx, slots, record, message>>

\* fn returns and SetResult fills the outcome in.
FinishWork(t) ==
  /\ pc[t] = "working"
  /\ Goto(t, "ending")
  /\ \E outcome \in {"done", "failed"} : result' = [result EXCEPT ![t] = outcome]
  /\ UNCHANGED <<db, ctx, slots, dbSlots, record, message>>

\* Mutant: an error of the journal is dropped.
WriteFinalSilent(t) ==
  /\ pc[t] = "ending"
  /\ Goto(t, "releasing")
  /\ record' \in {record, [record EXCEPT ![t] = result[t]]}
  /\ UNCHANGED <<db, ctx, slots, dbSlots, result, message>>

\* The final record; an error of the journal goes into the job's message.
WriteFinal(t) ==
  /\ pc[t] = "ending"
  /\ Goto(t, "releasing")
  /\ \/ /\ record' = [record EXCEPT ![t] = result[t]]
        /\ UNCHANGED message
     \/ /\ message' = [message EXCEPT ![t] = "noted"]
        /\ UNCHANGED record
  /\ UNCHANGED <<db, ctx, slots, dbSlots, result>>

\* The deferred release: the common place first, then the database's.
ReleaseSlot(t) ==
  /\ pc[t] = "releasing"
  /\ slots' = slots - 1
  /\ Goto(t, "releasingDb")
  /\ UNCHANGED <<db, ctx, dbSlots, jobVars>>

ReleaseDbSlot(t) ==
  /\ pc[t] = "releasingDb"
  /\ dbSlots' = [dbSlots EXCEPT ![db[t]] = @ - 1]
  /\ Return(t)
  /\ UNCHANGED slots

\* What a task does on its own once it is inside Submit.
Step(t) == \/ TakeDbSlot(t)
           \/ LeaveDbWait(t)
           \/ TakeSlot(t)
           \/ LeaveSlotWait(t)
           \/ UndoDbSlot(t)
           \/ WriteStart(t)
           \/ FinishWork(t)
           \/ WriteFinal(t)
           \/ ReleaseSlot(t)
           \/ ReleaseDbSlot(t)

Next == \E t \in Task : \/ \E d \in Database : Submit(t, d)
                        \/ Cancel(t)
                        \/ Step(t)

Spec == Init /\ [][Next]_vars

(***************************************************************************)
(* Fairness.  A goroutine that can run is run (weak fairness of its        *)
(* steps).  A Go channel hands a freed place to the sender that has waited *)
(* longest, so a task that waits for a channel that is emptied again and   *)
(* again is served: strong fairness of the two sends.  No call is obliged  *)
(* to be made or cancelled, and no job to end: JobsEnd is a hypothesis of  *)
(* the properties that need it, as the deadline of an external command     *)
(* does not always end it (PgClient).                                      *)
(***************************************************************************)
SchedulerFairness ==
  \A t \in Task : /\ WF_vars(LeaveDbWait(t) \/ LeaveSlotWait(t))
                  /\ WF_vars(UndoDbSlot(t))
                  /\ WF_vars(WriteStart(t) \/ WriteFinal(t))
                  /\ WF_vars(ReleaseSlot(t) \/ ReleaseDbSlot(t))

QueueFairness ==
  \A t \in Task : SF_vars(TakeDbSlot(t)) /\ SF_vars(TakeSlot(t))

FairSpec == Spec /\ SchedulerFairness /\ QueueFairness

JobsEnd == \A t \in Task : WF_vars(FinishWork(t))
-----------------------------------------------------------------------------
\* Type invariant: every channel stays within its capacity, and only channels
\* that databaseSlot has made exist.
TypeOK ==
  /\ pc \in [Task -> Location]
  /\ db \in [Task -> Database \cup {NoDatabase}]
  /\ ctx \in [Task -> {"live", "cancelled"}]
  /\ slots \in 0 .. maxParallel
  /\ DOMAIN dbSlots \subseteq Database
  /\ dbSlots \in [DOMAIN dbSlots -> 0 .. maxPerDB]
  /\ result \in [Task -> {"none", "done", "failed"}]
  /\ record \in [Task -> {"none", "running", "done", "failed"}]
  /\ message \in [Task -> {"plain", "noted"}]

\* A task inside Submit works with a channel that exists.
Placed == \A t \in Task : IF pc[t] = "idle" THEN db[t] = NoDatabase
                                            ELSE db[t] \in DOMAIN dbSlots

\* No place leaks and none is given back twice: at every moment, on every path
\* through Acquire, cancellation and release, the common channel holds one
\* element for each task that has taken a place and not returned it, and each
\* database's channel one for each of that database's tasks.
NoPlaceLeaks ==
  /\ Placed
  /\ slots = Cardinality(SlotHolders)
  /\ \A d \in DOMAIN dbSlots : dbSlots[d] = Cardinality(DbSlotHolders(d))

Working(t) == pc[t] \in {"starting", "working", "ending"}

\* The purpose of the queue: jobs at work never exceed max_parallel, nor
\* max_per_db on one database.
ParallelismBounded ==
  /\ Cardinality({t \in Task : Working(t)}) <= maxParallel
  /\ \A d \in Database :
       Cardinality({t \in Task : Working(t) /\ db[t] = d}) <= maxPerDB

\* The journal agrees with the queue: leaving aside jobs whose lost final record
\* was reported to the caller, no more than max_per_db jobs of one database are
\* open (running) in the journal.  The final record must therefore reach the
\* journal before the places are given back.
JournalWithinLimits ==
  \A d \in Database :
    Cardinality({t \in Task : db[t] = d /\ record[t] = "running" /\ message[t] = "plain"})
      <= maxPerDB

\* A call that returns is accounted for.  Either the job ran, and then the journal
\* holds its true outcome or the message given to the caller says that it does
\* not; or the wait was given up, and then the caller had cancelled it and the
\* journal knows nothing of the job.
ReturnIsAccountedFor ==
  [][\A t \in Task : pc[t] # "idle" /\ pc'[t] = "idle" =>
       \/ result[t] # "none" /\ (record[t] = result[t] \/ message[t] = "noted")
       \/ result[t] = "none" /\ record[t] = "none" /\ ctx[t] = "cancelled"]_vars

\* Every call of Submit returns when jobs end: the two semaphores never lock each
\* other out, and no task is passed over for ever.
EveryCallReturns == JobsEnd => \A t \in Task : pc[t] = "dbWait" ~> pc[t] = "idle"

\* A cancelled wait ends whether or not the jobs ahead of it ever do: the caller
\* of a cancelled Submit waits for nobody.
CancelledWaitEnds ==
  \A t \in Task : (pc[t] \in {"dbWait", "slotWait"} /\ ctx[t] = "cancelled")
                    ~> pc[t] \in {"idle", "working"}

-----------------------------------------------------------------------------
(***************************************************************************)
(* The queue implements BoundedExecutor.  A call is admitted when it takes *)
(* its second place and leaves when it gives that place back or gives up.  *)
(***************************************************************************)
PhaseOf(location) ==
  CASE location \in {"dbWait", "slotWait"} -> "waiting"
    [] location \in HasSlot -> "running"
    [] OTHER -> "out"

Executor == INSTANCE BoundedExecutor WITH
              phase <- [t \in Task |-> PhaseOf(pc[t])],
              on <- [t \in Task |-> IF PhaseOf(pc[t]) = "out" THEN NoDatabase
                                                              ELSE db[t]],
              Parallel <- maxParallel,
              PerDB <- maxPerDB
ExecutorSpec == Executor!Spec
=============================================================================
