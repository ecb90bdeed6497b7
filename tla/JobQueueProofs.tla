--------------------------- MODULE JobQueueProofs ---------------------------
(***************************************************************************)
(* Proofs about JobQueue, for every finite set of tasks, every set of      *)
(* databases and every pair of configured limits.                          *)
(***************************************************************************)
EXTENDS JobQueue, FiniteSetTheorems, TLAPS

\* The inductive invariant: the types bound the channels only because each
\* channel counts exactly the tasks that hold a place in it.
QueueInv == TypeOK /\ NoPlaceLeaks

\* NewQueue always ends up with usable limits.
LEMMA Limits == /\ maxParallel \in Nat \ {0}
                /\ maxPerDB \in Nat \ {0}
                /\ maxPerDB <= maxParallel
  BY ConfigAssumption
     DEF maxParallel, maxPerDB, AtLeastOne, DefaultMaxParallel, DefaultMaxPerDB

\* However many tasks there are, those that hold a place are finitely many.
LEMMA HoldersFinite ==
  /\ IsFiniteSet(SlotHolders) /\ Cardinality(SlotHolders) \in Nat
  /\ \A d : /\ IsFiniteSet(DbSlotHolders(d))
            /\ Cardinality(DbSlotHolders(d)) \in Nat
<1>1. SlotHolders \subseteq Task /\ \A d : DbSlotHolders(d) \subseteq Task
  BY DEF SlotHolders, DbSlotHolders
<1>2. QED
  BY <1>1, TaskAssumption, FS_Subset, FS_CardinalityType

-----------------------------------------------------------------------------
(* How a move of one task changes the sets of holders. *)

\* A move between places of one kind leaves the holders of the common channel alone.
LEMMA SlotKept ==
  ASSUME TypeOK, NEW t \in Task, NEW l \in Location, Goto(t, l),
         pc[t] \in HasSlot <=> l \in HasSlot
  PROVE  SlotHolders' = SlotHolders
  BY DEF TypeOK, Goto, SlotHolders

\* Taking a common place adds one holder.
LEMMA SlotTaken ==
  ASSUME TypeOK, NEW t \in Task, NEW l \in HasSlot, Goto(t, l), pc[t] \notin HasSlot
  PROVE  Cardinality(SlotHolders') = Cardinality(SlotHolders) + 1
<1>1. SlotHolders' = SlotHolders \cup {t} /\ t \notin SlotHolders
  BY DEF TypeOK, Goto, SlotHolders
<1>2. QED
  BY <1>1, HoldersFinite, FS_AddElement

\* Giving a common place back takes one holder away.
LEMMA SlotReturned ==
  ASSUME TypeOK, NEW t \in Task, NEW l \in Location \ HasSlot, Goto(t, l),
         pc[t] \in HasSlot
  PROVE  Cardinality(SlotHolders') = Cardinality(SlotHolders) - 1
<1>1. SlotHolders' = SlotHolders \ {t} /\ t \in SlotHolders
  BY DEF TypeOK, Goto, SlotHolders
<1>2. QED
  BY <1>1, HoldersFinite, FS_RemoveElement

\* The same for the databases' channels: a move that neither takes nor returns.
LEMMA DbSlotsKept ==
  ASSUME TypeOK, NEW t \in Task, NEW l \in Location, Goto(t, l), db' = db,
         pc[t] \in HasDbSlot <=> l \in HasDbSlot
  PROVE  \A d : DbSlotHolders(d)' = DbSlotHolders(d)
  BY DEF TypeOK, Goto, DbSlotHolders

\* Taking a database's place adds one holder there and none elsewhere.
LEMMA DbSlotTaken ==
  ASSUME TypeOK, NEW t \in Task, NEW l \in HasDbSlot, Goto(t, l), db' = db,
         pc[t] \notin HasDbSlot, NEW d
  PROVE  Cardinality(DbSlotHolders(d)') =
           Cardinality(DbSlotHolders(d)) + (IF d = db[t] THEN 1 ELSE 0)
<1>1. CASE d = db[t]
  <2>1. DbSlotHolders(d)' = DbSlotHolders(d) \cup {t} /\ t \notin DbSlotHolders(d)
    BY <1>1 DEF TypeOK, Goto, DbSlotHolders
  <2>2. QED
    BY <1>1, <2>1, HoldersFinite, FS_AddElement
<1>2. CASE d # db[t]
  <2>1. DbSlotHolders(d)' = DbSlotHolders(d)
    BY <1>2 DEF TypeOK, Goto, DbSlotHolders
  <2>2. QED
    BY <1>2, <2>1, HoldersFinite
<1>3. QED
  BY <1>1, <1>2

\* A return from Submit takes one holder away, on its own database only.
LEMMA DbSlotReturned ==
  ASSUME TypeOK, NEW t \in Task, Return(t), pc[t] \in HasDbSlot,
         NEW d \in Database
  PROVE  Cardinality(DbSlotHolders(d)') =
           Cardinality(DbSlotHolders(d)) - (IF d = db[t] THEN 1 ELSE 0)
<1>0. "idle" \notin HasDbSlot
  BY DEF HasDbSlot, HasSlot
<1>1. CASE d = db[t]
  <2>1. DbSlotHolders(d)' = DbSlotHolders(d) \ {t} /\ t \in DbSlotHolders(d)
    BY <1>0, <1>1 DEF TypeOK, Return, Goto, DbSlotHolders
  <2>2. QED
    BY <1>1, <2>1, HoldersFinite, FS_RemoveElement
<1>2. CASE d # db[t]
  <2>1. DbSlotHolders(d)' = DbSlotHolders(d)
    BY <1>0, <1>2 DEF TypeOK, Return, Goto, DbSlotHolders
  <2>2. QED
    BY <1>2, <2>1, HoldersFinite
<1>3. QED
  BY <1>1, <1>2

\* A call that begins, or ends without a place, changes no database's holders.
LEMMA DbSlotUntouched ==
  ASSUME TypeOK, NEW t \in Task, pc[t] \notin HasDbSlot, NEW l \in Location, 
         l \notin HasDbSlot, Goto(t, l), NEW v, db' = [db EXCEPT ![t] = v], NEW d
  PROVE  DbSlotHolders(d)' = DbSlotHolders(d)
  BY DEF TypeOK, Goto, DbSlotHolders

-----------------------------------------------------------------------------
(* The inductive invariant. *)

\* Nobody holds a place when the queue is made.
LEMMA InitInv == Init => QueueInv
<1>1. SUFFICES ASSUME Init PROVE QueueInv
  OBVIOUS
<1>2. SlotHolders = {} /\ \A d : DbSlotHolders(d) = {}
  BY <1>1 DEF Init, SlotHolders, DbSlotHolders, HasDbSlot, HasSlot
<1>3. TypeOK
  BY <1>1, Limits DEF Init, TypeOK, Location
<1>4. NoPlaceLeaks
  BY <1>1, <1>2, FS_EmptySet DEF Init, NoPlaceLeaks, Placed
<1>5. QED
  BY <1>3, <1>4 DEF QueueInv

\* A task that holds a place is one of those its channel counts.
LEMMA SlotHolderCounted ==
  ASSUME NEW t \in Task, pc[t] \in HasSlot
  PROVE  Cardinality(SlotHolders) \in Nat \ {0}
  BY HoldersFinite, FS_EmptySet DEF SlotHolders

LEMMA DbSlotHolderCounted ==
  ASSUME NEW t \in Task, pc[t] \in HasDbSlot
  PROVE  Cardinality(DbSlotHolders(db[t])) \in Nat \ {0}
  BY HoldersFinite, FS_EmptySet DEF DbSlotHolders

\* The last step of a call that gives its database's place back.
LEMMA DbPlaceGivenBack ==
  ASSUME QueueInv, NEW t \in Task, pc[t] \in HasDbSlot, Return(t),
         dbSlots' = [dbSlots EXCEPT ![db[t]] = @ - 1],
         UNCHANGED slots, SlotHolders' = SlotHolders
  PROVE  QueueInv'
<1> USE DEF QueueInv
<1>1. db[t] \in DOMAIN dbSlots /\ dbSlots[db[t]] \in 0 .. maxPerDB
  BY DEF TypeOK, NoPlaceLeaks, Placed, HasDbSlot, HasSlot
<1>2. \A e \in Database : Cardinality(DbSlotHolders(e)') =
               Cardinality(DbSlotHolders(e)) - (IF e = db[t] THEN 1 ELSE 0)
  BY DbSlotReturned
<1>3. dbSlots[db[t]] # 0
  BY <1>1, DbSlotHolderCounted DEF NoPlaceLeaks
<1>4. TypeOK'
  BY <1>1, <1>3, Limits DEF TypeOK, Return, Goto, Location
<1>5. Placed'
  BY DEF TypeOK, NoPlaceLeaks, Placed, Return, Goto
<1>6. NoPlaceLeaks'
  BY <1>1, <1>2, <1>5, HoldersFinite DEF TypeOK, NoPlaceLeaks
<1>7. QED
  BY <1>4, <1>6

\* The inductive step: one case for each action, and in it what happens to the holders.
LEMMA StepInv == QueueInv /\ [Next]_vars => QueueInv'
<1> SUFFICES ASSUME QueueInv, [Next]_vars PROVE QueueInv'
  OBVIOUS
<1> USE DEF QueueInv
<1>1. ASSUME NEW t \in Task, NEW d \in Database, Submit(t, d) PROVE QueueInv'
  <2>1. SlotHolders' = SlotHolders
    BY <1>1, SlotKept DEF Submit, HasSlot, Location
  <2>2. \A e : DbSlotHolders(e)' = DbSlotHolders(e)
    BY <1>1, DbSlotUntouched DEF Submit, HasDbSlot, HasSlot, Location
  <2>3. d \notin DOMAIN dbSlots => Cardinality(DbSlotHolders(d)) = 0
    <3>1. d \notin DOMAIN dbSlots => DbSlotHolders(d) = {}
      BY NoDatabaseAssumption DEF NoPlaceLeaks, Placed, DbSlotHolders, HasDbSlot, HasSlot
    <3>2. QED
      BY <3>1, FS_EmptySet
  <2>4. TypeOK'
    BY <1>1, Limits DEF TypeOK, Submit, WithChannel, Goto, Location, jobVars
  <2>5. Placed'
    BY <1>1 DEF TypeOK, NoPlaceLeaks, Placed, Submit, WithChannel, Goto
  <2>6. NoPlaceLeaks'
    BY <1>1, <2>1, <2>2, <2>3, <2>5 DEF NoPlaceLeaks, Submit, WithChannel
  <2>7. QED
    BY <2>4, <2>6
<1>2. ASSUME NEW t \in Task, Cancel(t) PROVE QueueInv'
  <2>1. SlotHolders' = SlotHolders /\ \A e : DbSlotHolders(e)' = DbSlotHolders(e)
    BY <1>2 DEF Cancel, SlotHolders, DbSlotHolders
  <2>2. QED
    BY <1>2, <2>1 DEF Cancel, TypeOK, NoPlaceLeaks, Placed, jobVars
<1>3. ASSUME NEW t \in Task, TakeDbSlot(t) PROVE QueueInv'
  <2>1. SlotHolders' = SlotHolders
    BY <1>3, SlotKept DEF TakeDbSlot, HasSlot, Location
  <2>2. \A e : Cardinality(DbSlotHolders(e)') =
                 Cardinality(DbSlotHolders(e)) + (IF e = db[t] THEN 1 ELSE 0)
    BY <1>3, DbSlotTaken DEF TakeDbSlot, HasDbSlot, HasSlot
  <2>3. db[t] \in DOMAIN dbSlots /\ dbSlots[db[t]] \in 0 .. maxPerDB
    BY <1>3 DEF TakeDbSlot, TypeOK, NoPlaceLeaks, Placed
  <2>4. TypeOK'
    BY <1>3, <2>3, Limits DEF TypeOK, TakeDbSlot, Goto, Location, jobVars
  <2>5. Placed'
    BY <1>3 DEF TypeOK, NoPlaceLeaks, Placed, TakeDbSlot, Goto
  <2>6. NoPlaceLeaks'
    BY <1>3, <2>1, <2>2, <2>3, <2>5, HoldersFinite
       DEF TypeOK, NoPlaceLeaks, TakeDbSlot
  <2>7. QED
    BY <2>4, <2>6
<1>4. ASSUME NEW t \in Task, LeaveDbWait(t) PROVE QueueInv'
  <2>1. SlotHolders' = SlotHolders
    BY <1>4, SlotKept DEF LeaveDbWait, Return, HasSlot, Location
  <2>2. \A e : DbSlotHolders(e)' = DbSlotHolders(e)
    BY <1>4, DbSlotUntouched DEF LeaveDbWait, Return, HasDbSlot, HasSlot, Location
  <2>3. QED
    BY <1>4, <2>1, <2>2
       DEF LeaveDbWait, Return, Goto, TypeOK, NoPlaceLeaks, Placed, Location
<1>5. ASSUME NEW t \in Task, TakeSlot(t) PROVE QueueInv'
  <2>1. Cardinality(SlotHolders') = Cardinality(SlotHolders) + 1
    BY <1>5, SlotTaken DEF TakeSlot, HasSlot
  <2>2. \A e : DbSlotHolders(e)' = DbSlotHolders(e)
    BY <1>5, DbSlotsKept DEF TakeSlot, HasDbSlot, HasSlot, Location
  <2>3. QED
    BY <1>5, <2>1, <2>2, Limits
       DEF TakeSlot, Goto, TypeOK, NoPlaceLeaks, Placed, Location, jobVars
<1>6. ASSUME NEW t \in Task, LeaveSlotWait(t) PROVE QueueInv'
  <2>1. SlotHolders' = SlotHolders
    BY <1>6, SlotKept DEF LeaveSlotWait, HasSlot, Location
  <2>2. \A e : DbSlotHolders(e)' = DbSlotHolders(e)
    BY <1>6, DbSlotsKept DEF LeaveSlotWait, HasDbSlot, HasSlot, Location
  <2>3. QED
    BY <1>6, <2>1, <2>2
       DEF LeaveSlotWait, Goto, TypeOK, NoPlaceLeaks, Placed, Location, jobVars
<1>7. ASSUME NEW t \in Task, UndoDbSlot(t) PROVE QueueInv'
  <2>1. SlotHolders' = SlotHolders
    BY <1>7, SlotKept DEF UndoDbSlot, Return, HasSlot, Location
  <2>2. pc[t] \in HasDbSlot /\ Return(t)
    BY <1>7 DEF UndoDbSlot, HasDbSlot
  <2>3. QED
    BY <1>7, <2>1, <2>2, DbPlaceGivenBack DEF UndoDbSlot
<1>8. ASSUME NEW t \in Task, WriteStart(t) \/ FinishWork(t) \/ WriteFinal(t)
      PROVE  QueueInv'
  <2>1. SlotHolders' = SlotHolders
    BY <1>8, SlotKept DEF WriteStart, FinishWork, WriteFinal, HasSlot, Location
  <2>2. \A e : DbSlotHolders(e)' = DbSlotHolders(e)
    BY <1>8, DbSlotsKept
       DEF WriteStart, FinishWork, WriteFinal, HasDbSlot, HasSlot, Location
  <2>3. TypeOK'
    BY <1>8 DEF WriteStart, FinishWork, WriteFinal, Goto, TypeOK, Location
  <2>4. NoPlaceLeaks'
    BY <1>8, <2>1, <2>2
       DEF WriteStart, FinishWork, WriteFinal, Goto, TypeOK, NoPlaceLeaks, Placed
  <2>5. QED
    BY <2>3, <2>4
<1>9. ASSUME NEW t \in Task, ReleaseSlot(t) PROVE QueueInv'
  <2>1. Cardinality(SlotHolders') = Cardinality(SlotHolders) - 1
    BY <1>9, SlotReturned DEF ReleaseSlot, HasSlot, Location
  <2>2. \A e : DbSlotHolders(e)' = DbSlotHolders(e)
    BY <1>9, DbSlotsKept DEF ReleaseSlot, HasDbSlot, HasSlot, Location
  <2>3. Cardinality(SlotHolders') \in Nat
    BY <2>1, <1>9, SlotHolderCounted DEF ReleaseSlot, HasSlot
  <2>4. QED
    BY <1>9, <2>1, <2>2, <2>3, Limits
       DEF ReleaseSlot, Goto, TypeOK, NoPlaceLeaks, Placed, Location, jobVars
<1>10. ASSUME NEW t \in Task, ReleaseDbSlot(t) PROVE QueueInv'
  <2>1. SlotHolders' = SlotHolders
    BY <1>10, SlotKept DEF ReleaseDbSlot, Return, HasSlot, Location
  <2>2. pc[t] \in HasDbSlot /\ Return(t)
    BY <1>10 DEF ReleaseDbSlot, HasDbSlot
  <2>3. QED
    BY <1>10, <2>1, <2>2, DbPlaceGivenBack DEF ReleaseDbSlot
<1>11. CASE UNCHANGED vars
  BY <1>11 DEF vars, TypeOK, NoPlaceLeaks, Placed, SlotHolders, DbSlotHolders
<1>12. QED
  BY <1>1, <1>2, <1>3, <1>4, <1>5, <1>6, <1>7, <1>8, <1>9, <1>10, <1>11
     DEF Next, Step

\* The channels hold exactly the places of the tasks inside the queue.
THEOREM QueueInvariant == Spec => [](TypeOK /\ NoPlaceLeaks)
<1>1. Spec => []QueueInv
  BY InitInv, StepInv, PTL DEF Spec
<1>2. QueueInv => TypeOK /\ NoPlaceLeaks
  BY DEF QueueInv
<1>3. QED
  BY <1>1, <1>2, PTL

\* A channel bounds every set of tasks that hold places in it.
LEMMA SlotLimit ==
  ASSUME TypeOK, NoPlaceLeaks, NEW S \in SUBSET SlotHolders
  PROVE  Cardinality(S) \in Nat /\ Cardinality(S) <= maxParallel
<1>1. /\ Cardinality(S) \in Nat
      /\ Cardinality(S) <= Cardinality(SlotHolders)
  BY HoldersFinite, FS_Subset, FS_CardinalityType
<1>2. QED
  BY <1>1, Limits DEF TypeOK, NoPlaceLeaks

\* A database's channel bounds every set of tasks that hold places in it.
LEMMA DbSlotLimit ==
  ASSUME TypeOK, NoPlaceLeaks, NEW d \in Database, NEW S \in SUBSET DbSlotHolders(d)
  PROVE  Cardinality(S) \in Nat /\ Cardinality(S) <= maxPerDB
<1>1. CASE d \in DOMAIN dbSlots
  <2>1. /\ Cardinality(S) \in Nat
        /\ Cardinality(S) <= Cardinality(DbSlotHolders(d))
    BY HoldersFinite, FS_Subset, FS_CardinalityType
  <2>2. Cardinality(DbSlotHolders(d)) \in 0 .. maxPerDB
    BY <1>1 DEF TypeOK, NoPlaceLeaks
  <2>3. QED
    BY <2>1, <2>2, Limits
<1>2. CASE d \notin DOMAIN dbSlots
  <2>1. DbSlotHolders(d) = {}
    BY <1>2, NoDatabaseAssumption
       DEF NoPlaceLeaks, Placed, DbSlotHolders, HasDbSlot, HasSlot
  <2>2. S = {}
    BY <2>1
  <2>3. QED
    BY <2>2, FS_EmptySet, Limits
<1>3. QED
  BY <1>1, <1>2

\* No more than max_parallel jobs work at once, and no more than max_per_db of
\* them on one database.
THEOREM QueueBounded == Spec => []ParallelismBounded
<1>1. TypeOK /\ NoPlaceLeaks => ParallelismBounded
  <2> SUFFICES ASSUME TypeOK, NoPlaceLeaks PROVE ParallelismBounded
    OBVIOUS
  <2>1. Cardinality({t \in Task : Working(t)}) <= maxParallel
    <3>1. {t \in Task : Working(t)} \subseteq SlotHolders
      BY DEF Working, SlotHolders, HasSlot
    <3>2. QED
      BY <3>1, SlotLimit
  <2>2. ASSUME NEW d \in Database
        PROVE  Cardinality({t \in Task : Working(t) /\ db[t] = d}) <= maxPerDB
    <3>1. {t \in Task : Working(t) /\ db[t] = d} \subseteq DbSlotHolders(d)
      BY DEF Working, DbSlotHolders, HasDbSlot, HasSlot
    <3>2. QED
      BY <3>1, DbSlotLimit
  <2>3. QED
    BY <2>1, <2>2 DEF ParallelismBounded
<1>2. QED
  BY <1>1, QueueInvariant, PTL

-----------------------------------------------------------------------------
(* The records of a job against its place in the queue. *)

\* Which outcome, record and context a task has at each point of Submit.
RecordInv ==
  \A t \in Task :
    /\ pc[t] \in {"dbWait", "slotWait", "undo", "starting"} =>
         result[t] = "none" /\ record[t] = "none"
    /\ pc[t] = "undo" => ctx[t] = "cancelled"
    /\ pc[t] = "ending" => result[t] # "none"
    /\ pc[t] \in {"releasing", "releasingDb"} =>
         result[t] # "none" /\ (record[t] = result[t] \/ message[t] = "noted")
    /\ pc[t] = "idle" => result[t] = "none" /\ record[t] = "none"

\* What a record and a message say of a job follows its place in Submit.
LEMMA RecordStep == TypeOK /\ RecordInv /\ [Next]_vars => RecordInv'
<1> SUFFICES ASSUME TypeOK, RecordInv, [Next]_vars PROVE RecordInv'
  OBVIOUS
<1> USE DEF TypeOK, RecordInv, Goto, jobVars
<1>1. ASSUME NEW t \in Task, NEW d \in Database, Submit(t, d) PROVE RecordInv'
  BY <1>1 DEF Submit
<1>2. ASSUME NEW t \in Task, Cancel(t) PROVE RecordInv'
  BY <1>2 DEF Cancel
<1>3. ASSUME NEW t \in Task,
             TakeDbSlot(t) \/ TakeSlot(t) \/ LeaveSlotWait(t)
      PROVE  RecordInv'
  BY <1>3 DEF TakeDbSlot, TakeSlot, LeaveSlotWait
<1>4. ASSUME NEW t \in Task,
             LeaveDbWait(t) \/ UndoDbSlot(t) \/ ReleaseDbSlot(t)
      PROVE  RecordInv'
  <2>1. Return(t)
    BY <1>4 DEF LeaveDbWait, UndoDbSlot, ReleaseDbSlot
  <2>2. QED
    BY <2>1 DEF Return
<1>5. ASSUME NEW t \in Task, WriteStart(t) PROVE RecordInv'
  BY <1>5 DEF WriteStart
<1>6. ASSUME NEW t \in Task, FinishWork(t) PROVE RecordInv'
  BY <1>6 DEF FinishWork
<1>7. ASSUME NEW t \in Task, WriteFinal(t) PROVE RecordInv'
  BY <1>7 DEF WriteFinal
<1>8. ASSUME NEW t \in Task, ReleaseSlot(t) PROVE RecordInv'
  BY <1>8 DEF ReleaseSlot
<1>9. CASE UNCHANGED vars
  BY <1>9 DEF vars
<1>10. QED
  BY <1>1, <1>2, <1>3, <1>4, <1>5, <1>6, <1>7, <1>8, <1>9 DEF Next, Step

\* The invariant about records, joined to the one about places.
LEMMA RecordInvariant == Spec => [](TypeOK /\ NoPlaceLeaks /\ RecordInv)
<1>1. Init => RecordInv
  BY DEF Init, RecordInv
<1>2. QED
  BY <1>1, RecordStep, QueueInvariant, PTL DEF Spec

\* A call that returns has either run and been accounted for, in the journal or
\* in its message, or was cancelled while waiting and left no record.
THEOREM ReturnAccounted == Spec => ReturnIsAccountedFor
<1> DEFINE Accounted ==
      \A t \in Task : pc[t] # "idle" /\ pc'[t] = "idle" =>
        \/ result[t] # "none" /\ (record[t] = result[t] \/ message[t] = "noted")
        \/ result[t] = "none" /\ record[t] = "none" /\ ctx[t] = "cancelled"
<1>1. TypeOK /\ RecordInv /\ [Next]_vars => [Accounted]_vars
  <2> SUFFICES ASSUME TypeOK, RecordInv, Next,
                      NEW t \in Task, pc[t] # "idle", pc'[t] = "idle"
               PROVE  \/ result[t] # "none" /\ (record[t] = result[t] \/ message[t] = "noted")
                      \/ result[t] = "none" /\ record[t] = "none" /\ ctx[t] = "cancelled"
    OBVIOUS
  <2>1. PICK u \in Task : (\E d \in Database : Submit(u, d)) \/ Cancel(u) \/ Step(u)
    BY DEF Next
  <2>2. u = t /\ (LeaveDbWait(t) \/ UndoDbSlot(t) \/ ReleaseDbSlot(t))
    BY <2>1 DEF TypeOK, Submit, Cancel, Step, TakeDbSlot, LeaveDbWait, TakeSlot,
                LeaveSlotWait, UndoDbSlot, WriteStart, FinishWork, WriteFinal,
                ReleaseSlot, ReleaseDbSlot, Return, Goto
  <2>3. QED
    BY <2>2 DEF RecordInv, LeaveDbWait, UndoDbSlot, ReleaseDbSlot
<1>2. QED
  BY <1>1, RecordInvariant, PTL DEF Spec, ReturnIsAccountedFor

\* The journal never shows more jobs of a database open than may run on it, final
\* records whose loss the caller was told of aside.
THEOREM JournalBounded == Spec => []JournalWithinLimits
<1>1. TypeOK /\ NoPlaceLeaks /\ RecordInv => JournalWithinLimits
  <2> SUFFICES ASSUME TypeOK, NoPlaceLeaks, RecordInv, NEW d \in Database
               PROVE  Cardinality({t \in Task : db[t] = d /\ record[t] = "running"
                                                /\ message[t] = "plain"}) <= maxPerDB
    BY DEF JournalWithinLimits
  <2>1. ASSUME NEW t \in Task, record[t] = "running", message[t] = "plain"
        PROVE  pc[t] \in {"working", "ending"}
    BY <2>1 DEF TypeOK, Location, RecordInv
  <2>2. {t \in Task : db[t] = d /\ record[t] = "running" /\ message[t] = "plain"}
          \subseteq DbSlotHolders(d)
    BY <2>1 DEF DbSlotHolders, HasDbSlot, HasSlot
  <2>3. QED
    BY <2>2, DbSlotLimit
<1>2. QED
  BY <1>1, RecordInvariant, PTL

-----------------------------------------------------------------------------
(* Refinement: two semaphores taken in turn admit a job as one step would. *)

\* The executor counts as the queue does.
LEMMA SameCount == \A S : Executor!Cardinality(S) = Cardinality(S)
  BY DEF Cardinality, Executor!Cardinality

\* Every step of the queue is a step of the executor or changes nothing it sees.
LEMMA ExecutorStep == TypeOK /\ NoPlaceLeaks /\ [Next]_vars => [Executor!Next]_(Executor!vars)
<1> SUFFICES ASSUME TypeOK, NoPlaceLeaks, [Next]_vars
             PROVE  Executor!Next \/ UNCHANGED Executor!vars
  OBVIOUS
<1> USE DEF TypeOK, Goto, PhaseOf, HasSlot
<1>1. ASSUME NEW t \in Task, NEW d \in Database, Submit(t, d)
      PROVE  Executor!Arrive(t, d)
  BY <1>1 DEF Submit, Executor!Arrive
<1>2. ASSUME NEW t \in Task,
             Cancel(t) \/ TakeDbSlot(t) \/ WriteStart(t) \/ FinishWork(t) \/ WriteFinal(t)
      PROVE  UNCHANGED Executor!vars
  BY <1>2 DEF Cancel, TakeDbSlot, WriteStart, FinishWork, WriteFinal, Executor!vars
<1>3. ASSUME NEW t \in Task, UndoDbSlot(t) \/ ReleaseDbSlot(t)
      PROVE  UNCHANGED Executor!vars
  BY <1>3 DEF UndoDbSlot, ReleaseDbSlot, Return, Executor!vars
<1>4. ASSUME NEW t \in Task,
             LeaveDbWait(t) \/ LeaveSlotWait(t) \/ ReleaseSlot(t)
      PROVE  Executor!Leave(t)
  BY <1>4 DEF LeaveDbWait, LeaveSlotWait, ReleaseSlot, Return, Executor!Leave
<1>5. ASSUME NEW t \in Task, TakeSlot(t) PROVE Executor!Admit(t)
  <2>1. Executor!Running = SlotHolders
    BY DEF Executor!Running, SlotHolders
  <2>2. db[t] \in Database /\ db[t] \in DOMAIN dbSlots
    BY <1>5 DEF TakeSlot, NoPlaceLeaks, Placed
  <2>3. Cardinality(Executor!RunningOn(db[t])) < maxPerDB
    <3> DEFINE R == Executor!RunningOn(db[t])
    <3>1. R \subseteq DbSlotHolders(db[t]) \ {t} /\ t \in DbSlotHolders(db[t])
      BY <1>5 DEF TakeSlot, Executor!RunningOn, Executor!Running, DbSlotHolders, HasDbSlot
    <3>2. /\ t \notin R
          /\ R \cup {t} \in SUBSET DbSlotHolders(db[t])
          /\ R \in SUBSET DbSlotHolders(db[t])
      BY <3>1
    <3>3. Cardinality(R \cup {t}) <= maxPerDB
      BY <2>2, <3>2, DbSlotLimit
    <3>4. IsFiniteSet(R)
      BY <3>2, HoldersFinite, FS_Subset
    <3>5. Cardinality(R \cup {t}) = Cardinality(R) + 1 /\ Cardinality(R) \in Nat
      BY <3>2, <3>4, FS_AddElement, FS_CardinalityType
    <3>6. QED
      BY <3>3, <3>5, Limits
  <2>4. Cardinality(Executor!Running) < maxParallel
    BY <1>5, <2>1 DEF TakeSlot, NoPlaceLeaks
  <2>5. /\ [u \in Task |-> PhaseOf(pc[u])][t] = "waiting"
        /\ [u \in Task |-> IF PhaseOf(pc[u]) = "out" THEN NoDatabase ELSE db[u]][t] = db[t]
    BY <1>5 DEF TakeSlot
  <2>6. [u \in Task |-> PhaseOf(pc'[u])] =
          [[u \in Task |-> PhaseOf(pc[u])] EXCEPT ![t] = "running"]
    BY <1>5 DEF TakeSlot
  <2>7. [u \in Task |-> IF PhaseOf(pc'[u]) = "out" THEN NoDatabase ELSE db'[u]] =
          [u \in Task |-> IF PhaseOf(pc[u]) = "out" THEN NoDatabase ELSE db[u]]
    BY <1>5 DEF TakeSlot
  <2>8. QED
    BY <2>3, <2>4, <2>5, <2>6, <2>7, SameCount DEF Executor!Admit
<1>6. CASE UNCHANGED vars
  BY <1>6 DEF vars, Executor!vars
<1>7. QED
  BY <1>1, <1>2, <1>3, <1>4, <1>5, <1>6 DEF Next, Step, Executor!Next

\* The queue implements the bounded executor.
THEOREM QueueImplementsExecutor == Spec => ExecutorSpec
<1>1. Init => Executor!Init
  BY DEF Init, Executor!Init, PhaseOf, HasSlot
<1>2. QED
  BY <1>1, ExecutorStep, QueueInvariant, PTL DEF Spec, ExecutorSpec, Executor!Spec
=============================================================================
