------------------------ MODULE BackupStoreProofs ------------------------
(***************************************************************************)
(* Retention removes what the policy has given up and nothing else, for    *)
(* every number of workers, every policy and every length of behaviour.    *)
(***************************************************************************)
EXTENDS BackupStore, FiniteSetTheorems, WellFoundedInduction, TLAPS

USE BoundsAssumption, PolicyAssumption

\* What a worker still has to remove, it may remove: the listing it was planned
\* from is old, but expiry never ends.
DueIsExpired ==
  \A w \in Worker : \A f \in job[w].due :
    f[2] = "archive" => f[1] \in Expired(committed, clock)

PresentWasCommitted == Present \subseteq committed

StoreInv == TypeOK /\ PresentWasCommitted /\ DueIsExpired /\ KeepsNewest

-----------------------------------------------------------------------------
\* A set of names is finite, and so is the part of it newer than a name.
LEMMA NewerFinite ==
  ASSUME NEW S \in SUBSET Name, NEW n
  PROVE  IsFiniteSet(Newer(n, S)) /\ Cardinality(Newer(n, S)) \in Nat
<1>1. IsFiniteSet(Name)
  BY FS_Interval DEF Name
<1>2. Newer(n, S) \subseteq Name
  BY DEF Newer
<1>3. IsFiniteSet(Newer(n, S))
  BY <1>1, <1>2, FS_Subset
<1> QED
  BY <1>3, FS_CardinalityType

\* A name expired in a directory stays so as backups are added to it and time passes.
LEMMA ExpiredGrows ==
  ASSUME NEW S \in SUBSET Name, NEW T \in SUBSET Name, S \subseteq T,
         NEW t \in Nat, NEW u \in Nat, t <= u
  PROVE  Expired(S, t) \subseteq Expired(T, u)
<1> SUFFICES ASSUME NEW n \in Expired(S, t)
             PROVE  n \in Expired(T, u)
  OBVIOUS
<1>1. n \in T /\ n \in Nat
  BY DEF Expired, Name
<1>2. CASE KeepLast > 0 /\ Cardinality(Newer(n, S)) >= KeepLast
  <2>1. Newer(n, S) \subseteq Newer(n, T)
    BY DEF Newer
  <2>2. /\ IsFiniteSet(Newer(n, T))
        /\ Cardinality(Newer(n, T)) \in Nat /\ Cardinality(Newer(n, S)) \in Nat
    BY NewerFinite
  <2>3. Cardinality(Newer(n, S)) <= Cardinality(Newer(n, T))
    BY <2>1, <2>2, FS_Subset
  <2> QED
    BY <1>1, <1>2, <2>2, <2>3 DEF Expired
<1>3. CASE KeepDays > 0 /\ t - n > KeepDays
  BY <1>1, <1>3 DEF Expired
<1> QED
  BY <1>2, <1>3 DEF Expired

-----------------------------------------------------------------------------
\* The part of TypeOK about the workers.
Named == {"create", "dumping", "rename", "metadata", "fill"}
JobTypes ==
  /\ job \in [Worker -> [at : Location, name : 0 .. MaxTime, dump : 0 .. MaxDumps,
                         due : SUBSET File]]
  /\ \A w \in Worker : job[w].at \in Named => job[w].name \in Name /\ job[w].dump \in Dump

\* A worker moves on; a location that needs a name is reached from one that had it.
LEMMA GotoTypes ==
  ASSUME JobTypes, NEW w \in Worker, NEW l \in Location, Goto(w, l),
         l \in Named => job[w].at \in Named
  PROVE  JobTypes'
  BY DEF JobTypes, Goto, Location, Named

\* A worker that leaves is idle.
LEMMA LeaveTypes ==
  ASSUME JobTypes, NEW w \in Worker, Leave(w)
  PROVE  JobTypes'
<1>1. Idle \in [at : Location, name : 0 .. MaxTime, dump : 0 .. MaxDumps, due : SUBSET File]
  BY DEF Idle, Location
<1>2. Idle.at \notin Named
  BY DEF Idle, Named
<1> QED
  BY <1>1, <1>2 DEF JobTypes, Leave

\* A worker begins with a name and a dump.
LEMMA StartTypes ==
  ASSUME JobTypes, NEW w \in Worker, NEW n \in Name, NEW d \in Dump,
         job' = [job EXCEPT ![w] = [at |-> "create", name |-> n, dump |-> d, due |-> {}]]
  PROVE  JobTypes'
<1>1. [at |-> "create", name |-> n, dump |-> d, due |-> {}]
        \in [at : Location, name : 0 .. MaxTime, dump : 0 .. MaxDumps, due : SUBSET File]
  BY DEF Location, Name, Dump
<1> QED
  BY <1>1 DEF JobTypes

\* Every variable keeps its type: in particular a name and a dump that a worker
\* carries from one step to the next are always ones the clock has given out.
THEOREM StoreTypes == Spec => []TypeOK
<1>1. Init => TypeOK
  BY DEF Init, TypeOK, Idle, Location, Name, Dump
<1>2. TypeOK /\ [Next]_vars => TypeOK'
  <2> SUFFICES ASSUME TypeOK, [Next]_vars
               PROVE  TypeOK'
    OBVIOUS
  <2> USE DEF Name, Dump, history
  <2>a. JobTypes
    BY DEF TypeOK, JobTypes, Named
  <2>b. ASSUME JobTypes',
               clock' \in 1 .. MaxTime, dumps' \in 0 .. MaxDumps,
               part' \in [Name -> {None} \cup [dump : Dump, is : {"cut", "whole"}, mtime : Name]],
               archive' \in [Name -> {None} \cup Content],
               metadata' \in [Name -> {None, Unreadable} \cup Dump],
               committed' \in SUBSET Name, contended' \in SUBSET Name
        PROVE  TypeOK'
    BY <2>b DEF TypeOK, JobTypes, Named
  <2>1. CASE Tick
    BY <2>1 DEF Tick, TypeOK
  <2>2. ASSUME NEW w \in Worker, Step(w)
        PROVE  TypeOK'
    <3>l. Leave(w) => JobTypes'
      BY <2>a, LeaveTypes
    <3>g. \A l \in Location : Goto(w, l) /\ (l \in Named => job[w].at \in Named) => JobTypes'
      BY <2>a, GotoTypes
    <3> USE DEF Location, Named
    <3>1. CASE StartBackup(w)
      <4>1. dumps' \in Dump /\ clock \in Name
        BY <3>1 DEF StartBackup, TypeOK
      <4>4. contended' \in SUBSET Name
        <5>1. Contended(w) \subseteq contended \cup {clock}
          BY DEF Contended
        <5> QED
          BY <3>1, <4>1, <5>1 DEF StartBackup, TypeOK
      <4>2. job' = [job EXCEPT ![w] =
                      [at |-> "create", name |-> clock, dump |-> dumps', due |-> {}]]
        BY <3>1 DEF StartBackup
      <4>3. JobTypes'
        BY <4>1, <4>2, <2>a, StartTypes
      <4> QED
        BY <3>1, <4>1, <4>3, <4>4, <2>b DEF StartBackup, TypeOK
    <3>2. CASE CreatePart(w)
      <4>1. JobTypes'
        BY <3>2, <3>l, <3>g DEF CreatePart
      <4>2. job[w].name \in Name /\ job[w].dump \in Dump
        BY <3>2, <2>a DEF CreatePart, JobTypes
      <4>3. part' \in [Name -> {None} \cup [dump : Dump, is : {"cut", "whole"}, mtime : Name]]
        BY <3>2, <4>2 DEF CreatePart, TypeOK
      <4> QED
        BY <3>2, <4>1, <4>3, <2>b DEF CreatePart, TypeOK
    <3>3. CASE DumpSome(w)
      BY <3>3 DEF DumpSome, Written, TypeOK
    <3>4. CASE DumpEnds(w)
      <4>1. JobTypes'
        BY <3>4, <3>g DEF DumpEnds
      <4> QED
        BY <3>4, <4>1, <2>b DEF DumpEnds, Written, TypeOK
    <3>5. CASE AbortDump(w) \/ FailCommit(w)
      <4>1. JobTypes'
        BY <3>5, <3>l DEF AbortDump, FailCommit
      <4>2. part' \in {part, Unlinked(job[w].name)}
        BY <3>5 DEF AbortDump, FailCommit
      <4>3. part' \in [Name -> {None} \cup [dump : Dump, is : {"cut", "whole"}, mtime : Name]]
        BY <4>2 DEF Unlinked, TypeOK
      <4> QED
        BY <3>5, <4>1, <4>3, <2>b DEF AbortDump, FailCommit, TypeOK
    <3>6. CASE RenamePart(w)
      <4>1. JobTypes'
        BY <3>6, <3>g DEF RenamePart
      <4> QED
        BY <3>6, <4>1, <2>b DEF RenamePart, Unlinked, Content, TypeOK
    <3>7. CASE CreateMetadata(w)
      <4>1. JobTypes'
        BY <3>7, <3>l, <3>g DEF CreateMetadata
      <4> QED
        BY <3>7, <4>1, <2>b DEF CreateMetadata, TypeOK
    <3>8. CASE FillMetadata(w)
      <4>1. JobTypes'
        BY <3>8, <3>l, <3>g DEF FillMetadata
      <4>2. job[w].dump \in Dump
        BY <3>8, <2>a DEF FillMetadata, JobTypes
      <4>3. metadata' \in [Name -> {None, Unreadable} \cup Dump]
        BY <3>8, <4>2 DEF FillMetadata, TypeOK
      <4> QED
        BY <3>8, <4>1, <4>3, <2>b DEF FillMetadata, TypeOK
    <3>9. CASE StartPrune(w) \/ EndRetention(w)
      <4>1. JobTypes'
        BY <3>9, <3>g DEF StartPrune, EndRetention
      <4> QED
        BY <3>9, <4>1, <2>b DEF StartPrune, EndRetention, TypeOK
    <3>10. CASE PlanRetention(w)
      <4>1. FilesOf(Expired(Present, clock)) \in SUBSET File
        BY DEF FilesOf, Expired, Present, File
      <4>2. JobTypes'
        BY <3>10, <4>1, <2>a DEF PlanRetention, JobTypes
      <4> QED
        BY <3>10, <4>2, <2>b DEF PlanRetention, TypeOK
    <3>11. CASE RemoveFile(w)
      <4>1. PICK f \in job[w].due : RemoveFile(w)!2!(f)
        BY <3>11 DEF RemoveFile
      <4>2. JobTypes'
        BY <4>1, <2>a DEF JobTypes
      <4> QED
        BY <3>11, <4>1, <4>2, <2>b DEF RemoveFile, TypeOK
    <3>12. CASE SweepPart(w)
      <4>1. PICK n \in Name : part' = Unlinked(n)
        BY <3>12 DEF SweepPart
      <4>2. part' \in [Name -> {None} \cup [dump : Dump, is : {"cut", "whole"}, mtime : Name]]
        BY <4>1 DEF Unlinked, TypeOK
      <4>3. UNCHANGED <<clock, dumps, job, archive, metadata, committed, contended>>
        BY <3>12 DEF SweepPart
      <4> QED
        BY <4>2, <4>3 DEF TypeOK
    <3>13. CASE EndSweep(w) \/ Die(w)
      <4>1. JobTypes'
        BY <3>13, <3>l DEF EndSweep, Die
      <4> QED
        BY <3>13, <4>1, <2>b DEF EndSweep, Die, TypeOK
    <3> QED
      BY <2>2, <3>1, <3>2, <3>3, <3>4, <3>5, <3>6, <3>7, <3>8, <3>9, <3>10, <3>11,
         <3>12, <3>13 DEF Step
  <2>3. CASE UNCHANGED vars
    BY <2>3 DEF vars, TypeOK
  <2> QED
    BY <2>1, <2>2, <2>3 DEF Next
<1> QED
  BY <1>1, <1>2, PTL DEF Spec

-----------------------------------------------------------------------------
\* A step that adds no name to the plans keeps DueIsExpired.
LEMMA DueStays ==
  ASSUME TypeOK, TypeOK', DueIsExpired, committed \subseteq committed', clock <= clock',
         \A w \in Worker : job'[w].due \subseteq job[w].due
  PROVE  DueIsExpired'
<1>1. Expired(committed, clock) \subseteq Expired(committed', clock')
  BY ExpiredGrows DEF TypeOK
<1>2. DueIsExpired' = \A w \in Worker : \A f \in job'[w].due :
                        f[2] = "archive" => f[1] \in Expired(committed', clock')
  BY DEF DueIsExpired, Expired, Newer
<1> QED
  BY <1>1, <1>2 DEF DueIsExpired

\* A step keeps KeepsNewest if the archives it takes away were expired.
LEMMA NewestStay ==
  ASSUME TypeOK, TypeOK', KeepsNewest, committed \subseteq committed', clock <= clock',
         \A n \in committed' : archive'[n] = None =>
           (n \in committed /\ archive[n] = None) \/ n \in Expired(committed, clock)
  PROVE  KeepsNewest'
<1>1. Expired(committed, clock) \subseteq Expired(committed', clock')
  BY ExpiredGrows DEF TypeOK
<1>2. KeepsNewest' = \A n \in committed' : n \notin Expired(committed', clock') => archive'[n] # None
  BY DEF KeepsNewest, Protected, Expired, Newer
<1> QED
  BY <1>1, <1>2 DEF KeepsNewest, Protected

\* A step that leaves time, archives and history alone and makes no plan.
LEMMA Unrelated ==
  ASSUME StoreInv, TypeOK', UNCHANGED <<clock, archive, committed>>,
         \A w \in Worker : job'[w].due \subseteq job[w].due
  PROVE  StoreInv'
<1>1. DueIsExpired'
  BY DueStays DEF StoreInv, TypeOK
<1>2. KeepsNewest'
  BY NewestStay DEF StoreInv, TypeOK
<1>3. PresentWasCommitted'
  BY DEF StoreInv, PresentWasCommitted, Present
<1> QED
  BY <1>1, <1>2, <1>3 DEF StoreInv

\* Plans stay lawful, and what is protected stays.
LEMMA StoreInvariant == Spec => []StoreInv
<1>1. Init /\ TypeOK => StoreInv
  BY DEF Init, Idle, StoreInv, PresentWasCommitted, Present, DueIsExpired, KeepsNewest
<1>2. StoreInv /\ TypeOK' /\ [Next]_vars => StoreInv'
  <2> SUFFICES ASSUME StoreInv, TypeOK', [Next]_vars
               PROVE  StoreInv'
    OBVIOUS
  <2> USE DEF history
  <2>t. TypeOK
    BY DEF StoreInv
  <2>1. CASE Tick
    <3>1. committed' = committed /\ archive' = archive /\ job' = job /\ clock <= clock'
      BY <2>1, <2>t DEF Tick, TypeOK
    <3>2. DueIsExpired'
      BY <3>1, DueStays DEF StoreInv
    <3>3. KeepsNewest'
      BY <3>1, NewestStay DEF StoreInv
    <3> QED
      BY <3>1, <3>2, <3>3 DEF StoreInv, PresentWasCommitted, Present
  <2>2. ASSUME NEW w \in Worker, Step(w)
        PROVE  StoreInv'
    <3>a. ASSUME NEW v \in Worker
          PROVE  /\ \A l : Goto(w, l) => job'[v].due = job[v].due
                 /\ Leave(w) => job'[v].due \subseteq job[v].due
      BY <2>t DEF Goto, Leave, Idle, TypeOK
    <3>1. CASE StartBackup(w)
      <4>1. \A v \in Worker : job'[v].due \subseteq job[v].due
        BY <3>1, <2>t DEF StartBackup, TypeOK
      <4> QED
        BY <3>1, <4>1, Unrelated DEF StartBackup
    <3>2. CASE RenamePart(w)
      <4> DEFINE n == job[w].name
                 kept == [dump |-> part[n].dump, is |-> part[n].is]
      <4>1. n \in Name /\ kept \in Content
        BY <3>2, <2>t DEF RenamePart, TypeOK, Content
      <4>2. archive' = [archive EXCEPT ![n] = kept] /\ committed' = committed \cup {n}
        BY <3>2 DEF RenamePart
      <4>3. archive'[n] # None
        BY <4>1, <4>2, <2>t, NoneAssumption DEF TypeOK
      <4>4. \A m \in Name : m # n => archive'[m] = archive[m]
        BY <4>1, <4>2, <2>t DEF TypeOK
      <4> HIDE DEF n, kept
      <4>5. DueIsExpired'
        BY <3>2, <3>a, <4>2, <2>t, DueStays DEF RenamePart, StoreInv, TypeOK
      <4>6. KeepsNewest'
        BY <3>2, <4>2, <4>3, <4>4, <2>t, NewestStay DEF RenamePart, StoreInv, TypeOK
      <4>7. PresentWasCommitted'
        BY <4>1, <4>2, <4>4 DEF StoreInv, PresentWasCommitted, Present
      <4> QED
        BY <4>5, <4>6, <4>7 DEF StoreInv
    <3>3. CASE PlanRetention(w)
      <4>1. clock' = clock /\ archive' = archive /\ committed' = committed
        BY <3>3 DEF PlanRetention
      <4>2. Expired(Present, clock) \subseteq Expired(committed, clock)
        BY <2>t, ExpiredGrows DEF StoreInv, PresentWasCommitted, TypeOK, Present
      <4>3. \A f \in FilesOf(Expired(Present, clock)) : f[1] \in Expired(committed, clock)
        BY <4>2 DEF FilesOf
      <4>4. \A v \in Worker : job'[v].due = IF v = w THEN FilesOf(Expired(Present, clock))
                                                     ELSE job[v].due
        BY <3>3, <2>t DEF PlanRetention, TypeOK
      <4>5. DueIsExpired'
        BY <4>1, <4>3, <4>4 DEF StoreInv, DueIsExpired, Expired, Newer
      <4>6. KeepsNewest'
        BY <4>1, <2>t, NewestStay DEF StoreInv, TypeOK
      <4> QED
        BY <4>1, <4>5, <4>6 DEF StoreInv, PresentWasCommitted, Present
    <3>4. CASE RemoveFile(w)
      <4>1. PICK f \in job[w].due :
              /\ \/ archive' = archive
                 \/ f[2] = "archive" /\ archive' = [archive EXCEPT ![f[1]] = None]
              /\ job' = [job EXCEPT ![w].due = @ \ {f}]
        BY <3>4 DEF RemoveFile
      <4>2. clock' = clock /\ committed' = committed
        BY <3>4 DEF RemoveFile
      <4>3. \A v \in Worker : job'[v].due \subseteq job[v].due
        BY <4>1, <2>t DEF TypeOK
      <4>4. \A n \in Name : archive'[n] # archive[n] =>
              n \in Expired(committed, clock) /\ archive'[n] = None
        BY <4>1, <2>t DEF StoreInv, DueIsExpired, TypeOK
      <4>5. DueIsExpired'
        BY <4>2, <4>3, <2>t, DueStays DEF StoreInv, TypeOK
      <4>6. KeepsNewest'
        BY <4>2, <4>4, <2>t, NewestStay DEF StoreInv, TypeOK
      <4>7. PresentWasCommitted'
        BY <4>2, <4>4 DEF StoreInv, PresentWasCommitted, Present
      <4> QED
        BY <4>5, <4>6, <4>7 DEF StoreInv
    <3>5. CASE \/ CreatePart(w) \/ DumpSome(w) \/ DumpEnds(w) \/ AbortDump(w) \/ FailCommit(w)
               \/ CreateMetadata(w) \/ FillMetadata(w) \/ StartPrune(w) \/ EndRetention(w)
               \/ SweepPart(w) \/ EndSweep(w) \/ Die(w)
      <4>1. UNCHANGED <<clock, archive, committed>>
        BY <3>5 DEF CreatePart, DumpSome, DumpEnds, AbortDump, FailCommit, CreateMetadata,
                    FillMetadata, StartPrune, EndRetention, SweepPart, EndSweep, Die
      <4>2. (\E l : Goto(w, l)) \/ Leave(w) \/ job' = job
        BY <3>5 DEF CreatePart, DumpSome, DumpEnds, AbortDump, FailCommit, CreateMetadata,
                    FillMetadata, StartPrune, EndRetention, SweepPart, EndSweep, Die
      <4>3. \A v \in Worker : job'[v].due \subseteq job[v].due
        BY <4>2, <3>a
      <4> QED
        BY <4>1, <4>3, Unrelated
    <3> QED
      BY <2>2, <3>1, <3>2, <3>3, <3>4, <3>5 DEF Step
  <2>3. CASE UNCHANGED vars
    BY <2>3, Unrelated DEF vars
  <2> QED
    BY <2>1, <2>2, <2>3 DEF Next
<1> QED
  BY <1>1, <1>2, StoreTypes, PTL DEF Spec

\* Of all backups ever committed, those the policy protects are in the directory:
\* no interleaving of dumps, plans made from old listings, removals and deaths
\* takes one of them away.
THEOREM StoreKeepsNewest == Spec => []KeepsNewest
<1>1. StoreInv => KeepsNewest
  BY DEF StoreInv
<1> QED
  BY <1>1, StoreInvariant, PTL

-----------------------------------------------------------------------------
(* What a name stands for. *)

\* The names: given out by the clock, shared only when contended, and given to a new
\* backup only if there has never been one.
NamesKnown ==
  /\ \A n \in committed : n <= clock
  /\ \A w \in Worker : job[w].name <= clock
  /\ \A n \in Name : metadata[n] # None => n \in committed
  /\ \A w \in Worker : job[w].at \in {"metadata", "fill"} => job[w].name \in committed
  /\ clock \in committed => archive[clock] # None
  /\ \A v, w \in Worker : v # w /\ job[v].name = job[w].name /\ job[v].name # 0 =>
                          job[v].name \in contended

\* A worker whose name nobody shares: its files are of its own dump.
OwnsFiles(w) ==
  LET n == job[w].name IN
  n \notin contended =>
    /\ job[w].at \in {"create", "dumping", "rename"} => n \notin committed
    /\ job[w].at \in {"dumping", "rename"} /\ part[n] # None => part[n].dump = job[w].dump
    /\ job[w].at = "rename" /\ part[n] # None => part[n].is = "whole"
    /\ job[w].at \in {"metadata", "fill"} /\ archive[n] # None => archive[n].dump = job[w].dump

NamesInv == NamesKnown /\ (\A w \in Worker : OwnsFiles(w)) /\ ArchivesAreWhole /\ ChecksumsMatch

\* What retention removes was begun before this second.
LEMMA ExpiredIsOld ==
  ASSUME StoreInv, NamesInv, NEW n \in Expired(committed, clock)
  PROVE  n < clock
<1>1. n \in Nat /\ n <= clock /\ clock \in Nat
  BY DEF Expired, StoreInv, TypeOK, NamesInv, NamesKnown, Name
<1>2. CASE KeepLast > 0 /\ Cardinality(Newer(n, committed)) >= KeepLast
  <2>1. Newer(n, committed) # {}
    BY <1>2, FS_EmptySet
  <2>2. PICK m \in committed : m > n
    BY <2>1 DEF Newer
  <2> QED
    BY <1>1, <2>2 DEF NamesInv, NamesKnown, StoreInv, TypeOK, Name
<1>3. CASE KeepDays > 0 /\ clock - n > KeepDays
  BY <1>1, <1>3
<1> QED
  BY <1>2, <1>3 DEF Expired

\* A step by which files go, none of this second's archives among them, and workers move on
\* to where the name no longer matters.
LEMMA NamesStay ==
  ASSUME StoreInv, TypeOK', NamesInv, UNCHANGED <<clock, history>>, archive'[clock] = archive[clock],
         \A n \in Name : /\ part'[n] \in {part[n], None}
                         /\ archive'[n] \in {archive[n], None}
                         /\ metadata'[n] \in {metadata[n], None},
         \A v \in Worker : \/ job'[v] = job[v]
                           \/ job'[v] = Idle
                           \/ job'[v].name = job[v].name /\ job'[v].at \notin Named
  PROVE  NamesInv'
<1>1. NamesKnown'
  BY DEF history, NamesInv, NamesKnown, Idle, StoreInv, TypeOK, Named
<1>2. ASSUME NEW v \in Worker
      PROVE  OwnsFiles(v)'
  BY <1>2 DEF history, NamesInv, OwnsFiles, Idle, StoreInv, TypeOK, Named
<1>3. ArchivesAreWhole' /\ ChecksumsMatch'
  BY NoneAssumption DEF history, NamesInv, ArchivesAreWhole, ChecksumsMatch, Present, Dump, StoreInv,
     TypeOK
<1> QED
  BY <1>1, <1>2, <1>3 DEF NamesInv

\* A step of a worker that changes its own .part only, and keeps its name.
LEMMA PartChanges ==
  ASSUME StoreInv, TypeOK', NamesInv, UNCHANGED <<clock, archive, metadata, history>>,
         NEW w \in Worker, job[w].at \in Named,
         \A n \in Name : n # job[w].name => part'[n] = part[n],
         \A v \in Worker : v # w => job'[v] = job[v],
         job'[w].name = job[w].name, job'[w].at \notin {"metadata", "fill"}, OwnsFiles(w)'
  PROVE  NamesInv'
<1>1. job[w].name \in Name /\ 0 \notin Name
  BY DEF StoreInv, TypeOK, Named, Name
<1>2. NamesKnown'
  BY DEF history, NamesInv, NamesKnown
<1>3. ASSUME NEW v \in Worker, v # w
      PROVE  OwnsFiles(v)'
  <2>1. CASE job[v].name = job[w].name
    BY <1>1, <1>3, <2>1 DEF history, NamesInv, NamesKnown, OwnsFiles
  <2>2. CASE job[v].name # job[w].name
    BY <1>3, <2>2 DEF history, NamesInv, OwnsFiles, StoreInv, TypeOK
  <2> QED
    BY <2>1, <2>2
<1>4. ArchivesAreWhole' /\ ChecksumsMatch'
  BY DEF history, NamesInv, ArchivesAreWhole, ChecksumsMatch, Present
<1> QED
  BY <1>2, <1>3, <1>4 DEF NamesInv

LEMMA BackupStarts ==
  ASSUME StoreInv, TypeOK', NamesInv, NEW w \in Worker, StartBackup(w)
  PROVE  NamesInv'
<1>1. /\ UNCHANGED <<clock, part, archive, metadata, committed>> /\ contended' = Contended(w)
      /\ job'[w].name = clock /\ job'[w].at = "create"
      /\ \A v \in Worker : v # w => job'[v] = job[v]
      /\ archive[clock] = None /\ clock \in Nat
  BY DEF StartBackup, StoreInv, TypeOK
<1>2. clock \notin committed
  BY <1>1 DEF NamesInv, NamesKnown
<1>3. contended \subseteq contended' /\ \A v \in Worker : v # w /\ job[v].name = clock => clock \in contended'
  BY <1>1 DEF Contended
<1>4. NamesKnown'
  BY <1>1, <1>2, <1>3 DEF NamesInv, NamesKnown
<1>5. ASSUME NEW v \in Worker
      PROVE  OwnsFiles(v)'
  <2>1. CASE v = w
    BY <1>1, <1>2, <2>1 DEF OwnsFiles
  <2>2. CASE v # w
    BY <1>1, <1>3, <2>2 DEF NamesInv, OwnsFiles
  <2> QED
    BY <2>1, <2>2
<1>6. ArchivesAreWhole' /\ ChecksumsMatch'
  BY <1>1, <1>3 DEF NamesInv, ArchivesAreWhole, ChecksumsMatch, Present
<1> QED
  BY <1>4, <1>5, <1>6 DEF NamesInv

LEMMA DumpGoesOn ==
  ASSUME StoreInv, TypeOK', NamesInv, NEW w \in Worker, DumpSome(w) \/ DumpEnds(w)
  PROVE  NamesInv'
<1> DEFINE n == job[w].name
<1>1. n \in Name /\ job[w].at = "dumping" /\ UNCHANGED <<clock, archive, metadata, history>>
  BY DEF DumpSome, DumpEnds, StoreInv, TypeOK
<1>2. /\ job'[w].name = n /\ job'[w].dump = job[w].dump /\ job'[w].at \in {"dumping", "rename"}
      /\ \A v \in Worker : v # w => job'[v] = job[v]
  BY DEF DumpSome, DumpEnds, Goto, StoreInv, TypeOK
<1>3. PICK is \in {"cut", "whole"} : Written(w, is) /\ (job'[w].at = "rename" => is = "whole")
  BY <1>1 DEF DumpSome, DumpEnds, Goto, StoreInv, TypeOK
<1>4. \A m \in Name : m # n => part'[m] = part[m]
  BY <1>3 DEF Written, StoreInv, TypeOK
<1>5. ASSUME n \notin contended
      PROVE  /\ n \notin committed
             /\ part'[n] # None => part'[n].dump = job[w].dump /\ part'[n].is = is
  <2>1. n \notin committed /\ (part[n] # None => part[n].dump = job[w].dump)
    BY <1>1, <1>5 DEF NamesInv, OwnsFiles
  <2>2. CASE part[n] = None
    BY <1>3, <2>1, <2>2 DEF Written
  <2>3. CASE part[n] # None
    <3>1. part' = [part EXCEPT ![n] = [part[n] EXCEPT !.is = is, !.mtime = clock]]
      BY <1>3, <2>1, <2>3 DEF Written
    <3>2. part[n] \in [dump : Dump, is : {"cut", "whole"}, mtime : Name] /\ n \in DOMAIN part
      BY <1>1, <2>3 DEF StoreInv, TypeOK
    <3> QED
      BY <2>1, <2>3, <3>1, <3>2
  <2> QED
    BY <2>2, <2>3
<1>6. OwnsFiles(w)'
  BY <1>1, <1>2, <1>3, <1>5 DEF OwnsFiles, history
<1> QED
  BY <1>1, <1>2, <1>4, <1>6, PartChanges DEF Named

LEMMA PartIsCreated ==
  ASSUME StoreInv, TypeOK', NamesInv, NEW w \in Worker, CreatePart(w)
  PROVE  NamesInv'
<1> DEFINE n == job[w].name
<1>1. n \in Name /\ job[w].at = "create" /\ UNCHANGED <<clock, archive, metadata, history>>
  BY DEF CreatePart, StoreInv, TypeOK
<1>2. CASE Leave(w) /\ UNCHANGED part
  BY <1>1, <1>2, NamesStay DEF Leave, StoreInv, TypeOK
<1>3. CASE /\ part' = [part EXCEPT ![n] = [dump |-> job[w].dump, is |-> "cut", mtime |-> clock]]
           /\ Goto(w, "dumping")
  <2>1. /\ job'[w].name = n /\ job'[w].dump = job[w].dump /\ job'[w].at = "dumping"
        /\ \A v \in Worker : v # w => job'[v] = job[v]
    BY <1>3 DEF Goto, StoreInv, TypeOK
  <2>2. part'[n].dump = job[w].dump /\ \A m \in Name : m # n => part'[m] = part[m]
    BY <1>1, <1>3 DEF StoreInv, TypeOK
  <2>3. n \notin contended => n \notin committed
    BY <1>1 DEF NamesInv, OwnsFiles
  <2>4. OwnsFiles(w)'
    BY <1>1, <2>1, <2>2, <2>3 DEF OwnsFiles, history
  <2> QED
    BY <1>1, <2>1, <2>2, <2>4, PartChanges DEF Named
<1> QED
  BY <1>2, <1>3 DEF CreatePart

\* The name has never been an archive, so nothing is overwritten, and what gets the name is
\* the worker's own dump.
LEMMA PartIsRenamed ==
  ASSUME StoreInv, TypeOK', NamesInv, NEW w \in Worker, RenamePart(w)
  PROVE  NamesInv'
<1> DEFINE n == job[w].name
           kept == [dump |-> part[n].dump, is |-> part[n].is]
<1>1. /\ n \in Name /\ job[w].at = "rename" /\ part[n] # None
      /\ UNCHANGED <<clock, dumps, metadata, contended>>
      /\ archive' = [archive EXCEPT ![n] = kept] /\ committed' = committed \cup {n}
      /\ part' = [part EXCEPT ![n] = None]
  BY DEF RenamePart, Unlinked, StoreInv, TypeOK
<1>2. /\ job'[w].name = n /\ job'[w].dump = job[w].dump /\ job'[w].at = "metadata"
      /\ \A v \in Worker : v # w => job'[v] = job[v]
  BY DEF RenamePart, Goto, StoreInv, TypeOK
<1>3. /\ archive'[n] = kept /\ kept \in Content
      /\ \A m \in Name : m # n => archive'[m] = archive[m] /\ part'[m] = part[m]
  BY <1>1 DEF StoreInv, TypeOK, Content
<1>4. n \notin contended => /\ kept.is = "whole" /\ kept.dump = job[w].dump
                            /\ metadata[n] = None
  BY <1>1 DEF NamesInv, NamesKnown, OwnsFiles
<1>5. kept # None
  BY <1>3, NoneAssumption
<1> HIDE DEF kept
<1>6. NamesKnown'
  BY <1>1, <1>2, <1>3, <1>5 DEF NamesInv, NamesKnown
<1>7. ASSUME NEW v \in Worker
      PROVE  OwnsFiles(v)'
  <2>1. CASE v = w
    BY <1>1, <1>2, <1>3, <1>4, <2>1 DEF OwnsFiles
  <2>2. CASE v # w /\ job[v].name = n
    BY <1>1, <1>2, <2>2 DEF NamesInv, NamesKnown, OwnsFiles, Name
  <2>3. CASE v # w /\ job[v].name # n
    BY <1>1, <1>2, <1>3, <2>3 DEF NamesInv, OwnsFiles, StoreInv, TypeOK, Named
  <2> QED
    BY <2>1, <2>2, <2>3
<1>8. ArchivesAreWhole' /\ ChecksumsMatch'
  BY <1>1, <1>3, <1>4, NoneAssumption DEF NamesInv, ArchivesAreWhole, ChecksumsMatch, Present, Dump
<1> QED
  BY <1>6, <1>7, <1>8 DEF NamesInv

\* The metadata of a worker's own archive.
LEMMA MetadataWritten ==
  ASSUME StoreInv, TypeOK', NamesInv, NEW w \in Worker, CreateMetadata(w) \/ FillMetadata(w)
  PROVE  NamesInv'
<1> DEFINE n == job[w].name
<1>1. n \in Name /\ job[w].at \in {"metadata", "fill"} /\ UNCHANGED <<clock, part, archive, history>>
  BY DEF CreateMetadata, FillMetadata, StoreInv, TypeOK
<1>2. CASE Leave(w)
  <2>1. \A v \in Worker : job'[v] = job[v] \/ job'[v] = Idle
    BY <1>2 DEF Leave, StoreInv, TypeOK
  <2>2. \A m \in Name : metadata'[m] \in {metadata[m], None}
    BY <1>1, <1>2 DEF CreateMetadata, FillMetadata, Leave, Goto, Idle, StoreInv, TypeOK
  <2> QED
    BY <1>1, <2>1, <2>2, NamesStay
<1>3. CASE Goto(w, "fill") \/ Goto(w, "retain")
  <2>1. /\ job'[w].name = n /\ job'[w].dump = job[w].dump /\ job'[w].at \in {"fill", "retain"}
        /\ \A v \in Worker : v # w => job'[v] = job[v]
    BY <1>3 DEF Goto, StoreInv, TypeOK
  <2>2. CASE metadata' = metadata
    <3>1. NamesKnown'
      BY <1>1, <2>1, <2>2 DEF history, NamesInv, NamesKnown
    <3>2. ASSUME NEW v \in Worker
          PROVE  OwnsFiles(v)'
      BY <1>1, <2>1 DEF history, NamesInv, OwnsFiles
    <3> QED
      BY <1>1, <2>2, <3>1, <3>2 DEF history, NamesInv, ArchivesAreWhole, ChecksumsMatch, Present
  <2>3. CASE metadata' # metadata
    <3>1. /\ metadata' \in {[metadata EXCEPT ![n] = Unreadable], [metadata EXCEPT ![n] = job[w].dump]}
          /\ metadata'[n] \in {Unreadable, job[w].dump}
          /\ \A m \in Name : m # n => metadata'[m] = metadata[m]
      BY <1>1, <1>2, <2>1, <2>3 DEF CreateMetadata, FillMetadata, Leave, Idle, StoreInv, TypeOK
    <3>2. n \in committed
      BY <1>1 DEF NamesInv, NamesKnown
    <3>3. NamesKnown'
      BY <1>1, <2>1, <3>1, <3>2 DEF history, NamesInv, NamesKnown
    <3>4. ASSUME NEW v \in Worker
          PROVE  OwnsFiles(v)'
      BY <1>1, <2>1 DEF history, NamesInv, OwnsFiles
    <3>5. n \in Present \ contended => archive[n].dump = job[w].dump
      BY <1>1 DEF NamesInv, OwnsFiles, Present
    <3>6. ArchivesAreWhole' /\ ChecksumsMatch'
      BY <1>1, <3>1, <3>5 DEF history, NamesInv, ArchivesAreWhole, ChecksumsMatch, Present,
         Unreadable, Dump
    <3> QED
      BY <3>3, <3>4, <3>6 DEF NamesInv
  <2> QED
    BY <2>2, <2>3
<1> QED
  BY <1>2, <1>3 DEF CreateMetadata, FillMetadata

LEMMA NamesStep == StoreInv /\ TypeOK' /\ NamesInv /\ [Next]_vars => NamesInv'
<1> SUFFICES ASSUME StoreInv, TypeOK', NamesInv, [Next]_vars
             PROVE  NamesInv'
  OBVIOUS
<1>1. CASE Tick
  <2>1. clock' = clock + 1 /\ UNCHANGED <<dumps, job, part, archive, metadata, history>> /\ clock \in Nat
    BY <1>1 DEF Tick, StoreInv, TypeOK
  <2>2. NamesKnown'
    BY <2>1 DEF history, NamesInv, NamesKnown, StoreInv, TypeOK, Name
  <2>3. ASSUME NEW v \in Worker
        PROVE  OwnsFiles(v)'
    BY <2>1 DEF history, NamesInv, OwnsFiles
  <2> QED
    BY <2>1, <2>2, <2>3 DEF history, NamesInv, ArchivesAreWhole, ChecksumsMatch, Present
<1>2. ASSUME NEW w \in Worker, Step(w)
      PROVE  NamesInv'
  <2>1. CASE StartBackup(w)
    BY <2>1, BackupStarts
  <2>2. CASE CreatePart(w)
    BY <2>2, PartIsCreated
  <2>3. CASE DumpSome(w) \/ DumpEnds(w)
    BY <2>3, DumpGoesOn
  <2>4. CASE RenamePart(w)
    BY <2>4, PartIsRenamed
  <2>5. CASE CreateMetadata(w) \/ FillMetadata(w)
    BY <2>5, MetadataWritten
  <2>6. CASE AbortDump(w) \/ FailCommit(w) \/ SweepPart(w)
    <3>1. /\ UNCHANGED <<clock, archive, metadata, history>>
          /\ \A n \in Name : part'[n] \in {part[n], None}
          /\ \A v \in Worker : job'[v] = job[v] \/ job'[v] = Idle
      BY <2>6 DEF AbortDump, FailCommit, SweepPart, Unlinked, Leave, StoreInv, TypeOK
    <3> QED
      BY <3>1, NamesStay
  <2>7. CASE StartPrune(w) \/ PlanRetention(w) \/ EndRetention(w) \/ EndSweep(w) \/ Die(w)
    <3>1. UNCHANGED <<clock, part, archive, metadata, history>>
      BY <2>7 DEF StartPrune, PlanRetention, EndRetention, EndSweep, Die
    <3>2. \A v \in Worker : \/ job'[v] = job[v]
                            \/ job'[v] = Idle
                            \/ job'[v].name = job[v].name /\ job'[v].at \notin Named
      BY <2>7 DEF StartPrune, PlanRetention, EndRetention, EndSweep, Die, Goto, Leave, StoreInv,
         TypeOK, Named
    <3> QED
      BY <3>1, <3>2, NamesStay
  <2>8. CASE RemoveFile(w)
    <3>1. PICK f \in job[w].due : RemoveFile(w)!2!(f)
      BY <2>8 DEF RemoveFile
    <3>2. UNCHANGED <<clock, part, history>> /\ job[w].at = "removing" /\ f \in File
      BY <2>8 DEF RemoveFile, StoreInv, TypeOK
    <3>3. f[2] = "archive" => f[1] < clock
      BY ExpiredIsOld DEF StoreInv, DueIsExpired
    <3>4. \A n \in Name : /\ archive'[n] \in {archive[n], None}
                          /\ metadata'[n] \in {metadata[n], None}
      BY <3>1, <3>2 DEF StoreInv, TypeOK
    <3>5. archive'[clock] = archive[clock]
      BY <3>1, <3>2, <3>3 DEF StoreInv, TypeOK, Name
    <3>6. \A v \in Worker : \/ job'[v] = job[v]
                            \/ job'[v].name = job[v].name /\ job'[v].at \notin Named
      BY <3>1, <3>2 DEF StoreInv, TypeOK, Named
    <3> QED
      BY <3>2, <3>4, <3>5, <3>6, NamesStay
  <2> QED
    BY <1>2, <2>1, <2>2, <2>3, <2>4, <2>5, <2>6, <2>7, <2>8 DEF Step
<1>3. CASE UNCHANGED vars
  BY <1>3, NamesStay DEF vars
<1> QED
  BY <1>1, <1>2, <1>3 DEF Next

LEMMA NamesInvariant == Spec => [](StoreInv /\ NamesInv)
<1>1. Init => NamesInv
  BY DEF Init, Idle, NamesInv, NamesKnown, OwnsFiles, ArchivesAreWhole, ChecksumsMatch, Present, Name
<1>2. StoreInv => TypeOK
  BY DEF StoreInv
<1> QED
  BY <1>1, <1>2, NamesStep, StoreInvariant, PTL DEF Spec

\* A name that no two backups had at the same time stands for one dump, complete, with the
\* checksum of that dump: whatever fails and dies, and whatever is swept (ArchivesAreWhole).
THEOREM ArchivesCanBeTrusted == Spec => [](ArchivesAreWhole /\ ChecksumsMatch)
<1>1. NamesInv => ArchivesAreWhole /\ ChecksumsMatch
  BY DEF NamesInv
<1> QED
  BY <1>1, NamesInvariant, PTL

\* Begin's promise that a backup is not overwritten, kept by a look at the directory that is
\* old when the file is renamed: such a name is not given a second time (NeverOverwritten).
THEOREM ArchivesStay == Spec => NeverOverwritten
<1>1. StoreInv /\ NamesInv /\ [Next]_vars =>
        \A n \in Present \ contended : archive'[n] \in {archive[n], None}
  <2> SUFFICES ASSUME StoreInv, NamesInv, [Next]_vars, NEW n \in Present \ contended
               PROVE  archive'[n] \in {archive[n], None}
    OBVIOUS
  <2>1. ASSUME NEW w \in Worker, RenamePart(w)
        PROVE  archive'[n] = archive[n]
    <3>1. n \in Name /\ n \in committed
      BY DEF StoreInv, PresentWasCommitted, Present
    <3>2. job[w].name # n
      BY <2>1, <3>1 DEF RenamePart, NamesInv, OwnsFiles
    <3> QED
      BY <2>1, <3>1, <3>2 DEF RenamePart, StoreInv, TypeOK
  <2>2. ASSUME NEW w \in Worker, RemoveFile(w)
        PROVE  archive'[n] \in {archive[n], None}
    BY <2>2 DEF RemoveFile, StoreInv, TypeOK, Present
  <2>3. CASE UNCHANGED archive
    BY <2>3
  <2> QED
    BY <2>1, <2>2, <2>3
       DEF Next, vars, Step, Tick, StartBackup, CreatePart, DumpSome, DumpEnds, AbortDump,
           FailCommit, CreateMetadata, FillMetadata, StartPrune, PlanRetention, EndRetention,
           SweepPart, EndSweep, Die
<1> QED
  BY <1>1, NamesInvariant, PTL DEF Spec, NeverOverwritten

-----------------------------------------------------------------------------
(* The directory is a catalogue. *)

\* The catalogue counts as the directory does.
LEMMA SameCount == \A S : Kept!Cardinality(S) = Cardinality(S)
  BY DEF Cardinality, Kept!Cardinality

\* What the catalogue holds, name by name.
Held == {[name |-> n, content |-> archive[n]] : n \in Present}

LEMMA KeptNames ==
  /\ Kept!Names = Present
  /\ \A n : Kept!Newer(n) = Newer(n, Present)
  /\ Kept!Expired = Expired(Present, clock)
<1>1. Kept!Names = Present
  <2>1. \A n \in Present : [name |-> n, content |-> archive[n]] \in Held
    BY DEF Held
  <2>2. \A b \in Held : b.name \in Present
    BY DEF Held
  <2>3. \A n \in Present : \E b \in Held : b.name = n
    BY <2>1
  <2>4. Kept!Names = {b.name : b \in Held}
    BY DEF Kept!Names, Held
  <2> QED
    BY <2>2, <2>3, <2>4
<1>2. \A n : Kept!Newer(n) = Newer(n, Present)
  BY <1>1 DEF Kept!Newer, Newer
<1>3. Kept!Expired = Expired(Present, clock)
  BY <1>1, <1>2, SameCount, Zenon DEF Kept!Expired, Expired
<1> QED
  BY <1>1, <1>2, <1>3

\* A set of names that is not empty has a greatest member.
LEMMA GreatestName ==
  ASSUME NEW S \in SUBSET Name, S # {}
  PROVE  \E g \in S : \A m \in S : m <= g
<1> DEFINE Distance == {MaxTime - m : m \in S}
<1>1. Distance \in SUBSET Nat /\ Distance # {}
  <2>1. \A m \in S : MaxTime - m \in Nat
    BY DEF Name
  <2> QED
    BY <2>1
<1>2. PICK x \in Distance : \A y \in Distance : <<y, x>> \notin OpToRel(<, Nat)
  BY <1>1, WFMin, NatLessThanWellFounded, Zenon
<1>3. PICK g \in S : x = MaxTime - g
  BY <1>2
<1>4. \A m \in S : MaxTime - m \in Distance
  OBVIOUS
<1>5. \A m \in S : ~ (MaxTime - m < MaxTime - g)
  BY <1>1, <1>2, <1>3, <1>4 DEF OpToRel
<1> QED
  BY <1>5 DEF Name

\* The heart of the matter.  What is given up counting every backup that there has ever
\* been is given up counting only those that are left: the newest ones missing would
\* themselves have been given up, so KeepLast that are newer still are left.
LEMMA ExpiredAmongPresent ==
  ASSUME StoreInv, NEW n \in Present, n \in Expired(committed, clock)
  PROVE  n \in Expired(Present, clock)
<1>t. Present \in SUBSET Name /\ committed \in SUBSET Name /\ clock \in Nat /\ n \in Nat
  BY DEF StoreInv, TypeOK, Present, Name
<1>1. CASE KeepDays > 0 /\ clock - n > KeepDays
  BY <1>1 DEF Expired
<1>2. CASE KeepLast > 0 /\ Cardinality(Newer(n, committed)) >= KeepLast
           /\ ~ (KeepDays > 0 /\ clock - n > KeepDays)
  <2> DEFINE Missing == Newer(n, committed) \ Present
  <2>1. CASE Missing = {}
    <3>1. Newer(n, committed) \subseteq Newer(n, Present)
      BY <2>1 DEF Newer
    <3>2. Cardinality(Newer(n, committed)) <= Cardinality(Newer(n, Present))
      BY <1>t, <3>1, NewerFinite, FS_Subset
    <3> QED
      BY <1>t, <1>2, <3>2, NewerFinite DEF Expired
  <2>2. CASE Missing # {}
    <3>1. Missing \in SUBSET Name
      BY <1>t DEF Newer
    <3>2. PICK g \in Missing : \A m \in Missing : m <= g
      BY <2>2, <3>1, GreatestName
    <3>3. g \in committed /\ g > n /\ g \notin Present /\ g \in Name /\ g \in Nat
      BY <3>1 DEF Newer, Name
    <3>4. g \in Expired(committed, clock)
      BY <3>3 DEF StoreInv, KeepsNewest, Protected, Present
    <3>5. ~ (KeepDays > 0 /\ clock - g > KeepDays)
      BY <1>t, <1>2, <3>3
    <3>6. Cardinality(Newer(g, committed)) >= KeepLast
      BY <3>4, <3>5 DEF Expired
    <3>7. Newer(g, committed) \subseteq Newer(n, Present)
      <4> SUFFICES ASSUME NEW m \in committed, m > g
                   PROVE  m \in Present /\ m > n
        BY DEF Newer
      <4>1. m \in Nat
        BY <1>t DEF Name
      <4>2. m > n
        BY <1>t, <3>3, <4>1
      <4>3. m \notin Missing
        BY <3>2, <3>3, <4>1
      <4> QED
        BY <4>2, <4>3 DEF Newer
    <3>8. Cardinality(Newer(g, committed)) <= Cardinality(Newer(n, Present))
      BY <1>t, <3>7, NewerFinite, FS_Subset
    <3>9. Cardinality(Newer(n, Present)) >= KeepLast
      BY <1>t, <3>6, <3>8, NewerFinite
    <3> QED
      BY <1>2, <3>9 DEF Expired
  <2> QED
    BY <2>1, <2>2
<1> QED
  BY <1>1, <1>2 DEF Expired

LEMMA RenameIsCommit ==
  ASSUME StoreInv, TypeOK', NamesInv, NEW w \in Worker, RenamePart(w)
  PROVE  Kept!Next
<1> DEFINE n == job[w].name
           kept == [dump |-> part[n].dump, is |-> part[n].is]
           new == [name |-> n, content |-> kept]
<1>1. /\ n \in Name /\ part[n] # None /\ archive' = [archive EXCEPT ![n] = kept]
      /\ clock' = clock /\ contended' = contended /\ job[w].at = "rename" /\ n <= clock
  BY DEF RenamePart, StoreInv, TypeOK, NamesInv, NamesKnown
<1>2. kept \in Content /\ kept # None
  BY <1>1, NoneAssumption DEF StoreInv, TypeOK, Content
<1> HIDE DEF kept
<1>3. /\ archive'[n] = kept
      /\ \A m \in Name : m # n => archive'[m] = archive[m]
  BY <1>1 DEF StoreInv, TypeOK
<1>4. Present' = Present \cup {n}
  BY <1>1, <1>2, <1>3 DEF Present
<1>5. Held' = {b \in Held : b.name # n} \cup {new}
  <2>1. ASSUME NEW b, b \in Held'
        PROVE  (b \in Held /\ b.name # n) \/ b = new
    <3>1. PICK m \in Present' : b = [name |-> m, content |-> archive'[m]]
      BY <2>1 DEF Held
    <3> QED
      BY <1>3, <1>4, <3>1 DEF Held, Present
  <2>2. ASSUME NEW b, (b \in Held /\ b.name # n) \/ b = new
        PROVE  b \in Held'
    <3>1. PICK m \in Present' : b = [name |-> m, content |-> archive'[m]]
      BY <1>3, <1>4, <2>2 DEF Held, Present
    <3> QED
      BY <3>1 DEF Held
  <2> QED
    BY <2>1, <2>2
<1>6. CASE n \in contended
  BY <1>1, <1>2, <1>5, <1>6 DEF Held, Kept!Next, Kept!Clobber, Kept!Without
<1>7. CASE n \notin contended
  <2>1. n \notin committed /\ kept.is = "whole"
    BY <1>1, <1>7 DEF NamesInv, OwnsFiles, kept
  <2>2. n \notin Present /\ kept \in [dump : Dump, is : {"whole"}]
    BY <1>2, <2>1 DEF StoreInv, PresentWasCommitted, Content
  <2>3. Held' = Held \cup {new}
    BY <1>5, <2>2 DEF Held
  <2> QED
    BY <1>1, <2>2, <2>3, KeptNames DEF Held, Kept!Next, Kept!Commit
<1> QED
  BY <1>6, <1>7

LEMMA RemovalIsRetention ==
  ASSUME StoreInv, TypeOK', NEW w \in Worker, RemoveFile(w)
  PROVE  [Kept!Next]_(Kept!vars)
<1>1. PICK f \in job[w].due :
        archive' = archive \/ (f[2] = "archive" /\ archive' = [archive EXCEPT ![f[1]] = None])
  BY DEF RemoveFile
<1>2. clock' = clock /\ contended' = contended
  BY DEF RemoveFile, history
<1>3. CASE archive' = archive
  BY <1>2, <1>3 DEF Kept!vars, Present
<1>4. CASE f[2] = "archive" /\ archive' = [archive EXCEPT ![f[1]] = None]
  <2> DEFINE n == f[1]
  <2>1. n \in Name /\ n \in Expired(committed, clock)
    BY <1>4 DEF StoreInv, TypeOK, File, DueIsExpired
  <2>2. CASE n \notin Present
    BY <1>2, <1>4, <2>1, <2>2 DEF StoreInv, TypeOK, Present, Kept!vars
  <2>3. CASE n \in Present
    <3>1. n \in Kept!Expired
      BY <2>1, <2>3, ExpiredAmongPresent, KeptNames
    <3>2. /\ Present' = Present \ {n}
          /\ \A m \in Present' : archive'[m] = archive[m]
      BY <1>4, <2>1 DEF StoreInv, TypeOK, Present
    <3>3. Held' = {b \in Held : b.name \notin {n}}
      <4>1. ASSUME NEW b, b \in Held'
            PROVE  b \in Held /\ b.name \notin {n}
        <5>1. PICK m \in Present' : b = [name |-> m, content |-> archive'[m]]
          BY <4>1 DEF Held
        <5> QED
          BY <3>2, <5>1 DEF Held
      <4>2. ASSUME NEW b, b \in Held /\ b.name \notin {n}
            PROVE  b \in Held'
        <5>1. PICK m \in Present' : b = [name |-> m, content |-> archive'[m]]
          BY <3>2, <4>2 DEF Held
        <5> QED
          BY <5>1 DEF Held
      <4> QED
        BY <4>1, <4>2
    <3>4. Held' = Kept!Without({n}) /\ {n} \in SUBSET Kept!Expired
      BY <3>1, <3>3 DEF Held, Kept!Without
    <3> QED
      BY <1>2, <3>4 DEF Held, Kept!Next, Kept!Retain
  <2> QED
    BY <2>2, <2>3
<1> QED
  BY <1>1, <1>3, <1>4

LEMMA CatalogueStep ==
  StoreInv /\ NamesInv /\ TypeOK' /\ [Next]_vars => [Kept!Next]_(Kept!vars)
<1> SUFFICES ASSUME StoreInv, NamesInv, TypeOK', [Next]_vars
             PROVE  [Kept!Next]_(Kept!vars)
  OBVIOUS
<1>1. CASE Tick
  <2>1. clock' > clock /\ Held' = Held /\ contended' = contended
    BY <1>1 DEF Tick, history, StoreInv, TypeOK, Held, Present
  <2> QED
    BY <2>1 DEF Held, Kept!Next, Kept!Pass
<1>2. ASSUME NEW w \in Worker, StartBackup(w)
      PROVE  [Kept!Next]_(Kept!vars)
  <2>1. /\ clock' = clock /\ Held' = Held /\ clock \notin Kept!Names
        /\ contended' \in {contended, contended \cup {clock}}
    <3>1. contended' \in {contended, contended \cup {clock}}
      BY <1>2 DEF StartBackup, Contended
    <3> QED
      BY <1>2, <3>1, KeptNames DEF StartBackup, Held, Present
  <2> QED
    BY <2>1 DEF Held, Kept!Next, Kept!Dispute, Kept!vars
<1>3. ASSUME NEW w \in Worker, RenamePart(w)
      PROVE  [Kept!Next]_(Kept!vars)
  BY <1>3, RenameIsCommit
<1>4. ASSUME NEW w \in Worker, RemoveFile(w)
      PROVE  [Kept!Next]_(Kept!vars)
  BY <1>4, RemovalIsRetention
<1>5. CASE UNCHANGED <<clock, archive, contended>>
  BY <1>5 DEF Kept!vars, Present
<1> QED
  BY <1>1, <1>2, <1>3, <1>4, <1>5
     DEF Next, vars, history, Step, CreatePart, DumpSome, DumpEnds, AbortDump, FailCommit,
         CreateMetadata, FillMetadata, StartPrune, PlanRetention, EndRetention, SweepPart,
         EndSweep, Die

\* However many processes back up, plan from listings that grow old, remove, fail and die, the
\* directory is to its users a catalogue of whole archives: each removal is one that the
\* policy allows counting only what is there at that moment (CatalogueSpec).
THEOREM StoreIsCatalogue == Spec => CatalogueSpec
<1>1. Init => Kept!Init
  <2> SUFFICES ASSUME Init
               PROVE  Kept!Init
    OBVIOUS
  <2>1. Present = {}
    BY DEF Init, Present
  <2>2. Held = {} /\ contended = {}
    BY <2>1 DEF Held, Init
  <2> QED
    BY <2>2 DEF Held, Kept!Init
<1>2. StoreInv => TypeOK
  BY DEF StoreInv
<1> QED
  BY <1>1, <1>2, CatalogueStep, NamesInvariant, PTL DEF Spec, CatalogueSpec, Kept!Spec

\* What the catalogue says of a name that is not disputed, whatever step it takes.
LEMMA HeldUnderName ==
  ASSUME [Kept!Next]_(Kept!vars), NEW n \in Present', n \notin contended
  PROVE  \/ n \in Present /\ archive'[n] = archive[n]
         \/ n \notin Present /\ archive'[n] \in [dump : Dump, is : {"whole"}]
<1> DEFINE c == [name |-> n, content |-> archive'[n]]
<1>1. c \in Held'
  BY DEF Held
<1>2. \A b \in Held : b.name \in Present /\ b.content = archive[b.name]
  BY DEF Held
<1>3. CASE c \in Held
  BY <1>2, <1>3
<1>4. CASE Kept!Commit /\ c \notin Held
  <2>1. c.name \notin Present /\ c.content \in [dump : Dump, is : {"whole"}]
    BY <1>1, <1>4, KeptNames DEF Kept!Commit, Held
  <2> QED
    BY <2>1
<1>5. CASE Kept!Retain
  BY <1>1, <1>3, <1>5 DEF Kept!Retain, Kept!Without, Held
<1>6. CASE Kept!Clobber /\ c \notin Held
  BY <1>1, <1>6 DEF Kept!Clobber, Kept!Without, Held
<1>7. CASE Held' = Held
  BY <1>1, <1>3, <1>7
<1> QED
  BY <1>3, <1>4, <1>5, <1>6, <1>7 DEF Kept!Next, Kept!vars, Kept!Dispute, Kept!Pass, Held

\* The catalogue leaves nothing out that its users rely on: whatever implements it holds
\* whole dumps only and overwrites none, under names that no two backups share.
THEOREM CatalogueCanBeTrusted == CatalogueSpec => []ArchivesAreWhole /\ NeverOverwritten
<1>1. Kept!Init => ArchivesAreWhole
  <2>1. \A n \in Present : [name |-> n, content |-> archive[n]] \in Held
    BY DEF Held
  <2>2. Kept!Init => \A b \in Held : b.content.is = "whole"
    BY DEF Kept!Init, Held
  <2> QED
    BY <2>1, <2>2 DEF ArchivesAreWhole
<1>2. ArchivesAreWhole /\ [Kept!Next]_(Kept!vars) => ArchivesAreWhole'
  <2> SUFFICES ASSUME ArchivesAreWhole, [Kept!Next]_(Kept!vars),
                      NEW n \in Present', n \notin contended'
               PROVE  archive'[n].is = "whole"
    BY DEF ArchivesAreWhole
  <2>1. contended \subseteq contended'
    BY DEF Kept!Next, Kept!vars, Kept!Commit, Kept!Retain, Kept!Dispute, Kept!Clobber, Kept!Pass
  <2> QED
    BY <2>1, HeldUnderName DEF ArchivesAreWhole
<1>3. [Kept!Next]_(Kept!vars) =>
        [\A n \in Present \ contended : archive'[n] \in {archive[n], None}]_vars
  <2> SUFFICES ASSUME [Kept!Next]_(Kept!vars), NEW n \in Present \ contended
               PROVE  archive'[n] \in {archive[n], None}
    OBVIOUS
  <2>1. CASE n \in Present'
    BY <2>1, HeldUnderName
  <2>2. CASE n \notin Present'
    BY <2>2 DEF Present, Name
  <2> QED
    BY <2>1, <2>2
<1> QED
  BY <1>1, <1>2, <1>3, PTL DEF CatalogueSpec, Kept!Spec, NeverOverwritten
=============================================================================
