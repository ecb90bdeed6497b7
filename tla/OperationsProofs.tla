------------------------- MODULE OperationsProofs -------------------------
(***************************************************************************)
(* A restore that saw its database cleans it only while a copy made since  *)
(* it was called is in the catalogue: for any number of operations,        *)
(* processes and databases, any requests and any limits.                   *)
(***************************************************************************)
EXTENDS Operations, FiniteSetTheorems, WellFoundedInduction, TLAPS

OnlyRestores == {"resolve", "verify", "check", "space2", "queued2", "prepare", "create",
                 "open", "restoring", "owner"}

\* The part of TypeOK about one operation.
WellFormed(r) ==
  /\ r \in OpRecord
  /\ r.at \notin {"new", "ended"} => r.on \in Database
  /\ r.kind # "backup" /\ r.at \notin {"new", "resolve", "ended"} => r.backup \in Archive
  /\ r.at \in OnlyRestores => r.kind # "backup"

\* The catalogue A holds an archive of database d begun after dump number c.
Copied(A, d, c) == \E b \in A : b.db = d /\ b.began > c

\* Where an operation has its safety copy behind it.
AfterCopy == {"retention", "space2", "queued2", "prepare", "create", "open", "restoring", "owner"}

\* What makes SafetyCopy inductive: dumps are numbered in the order in which they
\* begin, so the dump of an operation is later than its call, and the copy that it
\* becomes is needed from the commit on, not only when the target is cleaned.
Sound(r, A, n) ==
  /\ r.called <= n
  /\ r.at = "dumping" => /\ r.dump \in Archive /\ r.dump.db = r.on
                         /\ r.dump.began > r.called /\ r.dump.began <= n
  /\ r.kind = "restore" /\ r.existed = "yes" /\ AutoBackup /\ r.at \in AfterCopy =>
       Copied(A, r.on, r.called)

Good(r, A, n) == WellFormed(r) /\ Sound(r, A, n)

OperationInv ==
  /\ TypeOK
  /\ \A b \in archives : b.began <= dumps
  /\ \A o \in Operation : Good(op[o], archives, dumps)

\* Whoever had a copy in A has one in B.
NoneLost(A, B) == \A d \in Database, c \in Nat : Copied(A, d, c) => Copied(B, d, c)

-----------------------------------------------------------------------------
(* The catalogue. *)

\* A set of natural numbers that is not empty has a least member.
LEMMA LeastNatural ==
  ASSUME NEW T \in SUBSET Nat, T # {}
  PROVE  \E x \in T : \A y \in T : x <= y
<1>1. PICK x \in T : \A y \in T : <<y, x>> \notin OpToRel(<, Nat)
  BY WFMin, NatLessThanWellFounded, Zenon
<1>2. \A y \in T : ~ (y < x)
  BY <1>1 DEF OpToRel
<1> QED
  BY <1>2

\* Retention spares the newest archive of a database, so a copy newer than a given
\* dump is there after it if there was one before.
LEMMA RetentionKeepsACopy ==
  ASSUME OperationInv, NEW e \in Database, NEW removed \in SUBSET Expired(e)
  PROVE  NoneLost(archives, archives \ removed)
<1> SUFFICES ASSUME NEW d \in Database, NEW c \in Nat, NEW b \in archives,
                    b.db = d, b.began > c
             PROVE  Copied(archives \ removed, d, c)
  BY DEF NoneLost, Copied
<1>t. dumps \in Nat /\ \A x \in archives : x.began \in Nat /\ x.began <= dumps
  BY DEF OperationInv, TypeOK, Archive
<1>1. CASE d # e
  BY <1>1 DEF Expired, Copied
<1>2. CASE d = e
  <2> DEFINE Ages == {dumps - x.began : x \in {y \in archives : y.db = d}}
  <2>0. \A x \in archives : x.db = d => dumps - x.began \in Ages
    OBVIOUS
  <2>1. Ages \in SUBSET Nat
    BY <1>t
  <2>2. PICK age \in Ages : \A y \in Ages : age <= y
    BY <2>1, <2>0, <1>2, LeastNatural
  <2>3. PICK a \in archives : a.db = d /\ age = dumps - a.began
    BY <2>2
  <2>4. \A x \in archives : x.db = d => ~ (x.began > a.began)
    <3> HIDE DEF Ages
    <3> SUFFICES ASSUME NEW x \in archives, x.db = d
                 PROVE  ~ (x.began > a.began)
      OBVIOUS
    <3>1. dumps - a.began <= dumps - x.began
      BY <2>2, <2>3, <2>0
    <3> QED
      BY <3>1, <1>t
  <2>5. Cardinality({x \in archives : x.db = d /\ x.began > a.began}) = 0
    <3>1. {x \in archives : x.db = d /\ x.began > a.began} = {}
      BY <2>4
    <3> QED
      BY <3>1, FS_EmptySet
  <2>6. a \notin Expired(d)
    BY <2>5, LimitsAssumption DEF Expired
  <2>7. a.began > c
    BY <2>4, <2>3, <1>t
  <2> QED
    BY <1>2, <2>3, <2>6, <2>7 DEF Copied
<1> QED
  BY <1>1, <1>2

-----------------------------------------------------------------------------
(* One operation. *)

\* An operation stays good in a catalogue that loses none of its copies.
LEMMA StaysGood ==
  ASSUME NEW r, NEW A, NEW B, NEW m \in Nat, NEW n \in Nat,
         Good(r, A, m), NoneLost(A, B), m <= n
  PROVE  Good(r, B, n)
<1>1. r.called \in Nat /\ r.called <= n
  BY DEF Good, WellFormed, Sound, OpRecord
<1>2. r.at = "dumping" => r.dump.began <= n
  BY DEF Good, Sound, Archive
<1>3. r.at \in AfterCopy => r.on \in Database
  BY DEF Good, WellFormed, AfterCopy
<1> QED
  BY <1>1, <1>2, <1>3 DEF Good, Sound, NoneLost

\* A move that neither begins a dump nor passes the safety copy by.
LEMMA MovedGood ==
  ASSUME NEW r, NEW A, NEW n, Good(r, A, n), NEW l \in Location,
         r.at \notin {"new", "ended", "resolve"}, l \notin {"new", "ended", "dumping"},
         l \in OnlyRestores => r.kind # "backup",
         l \in AfterCopy =>
           r.at \in AfterCopy \/ r.kind # "restore" \/ r.existed # "yes" \/ ~ AutoBackup
  PROVE  Good([r EXCEPT !.at = l], A, n)
<1>1. WellFormed([r EXCEPT !.at = l])
  BY DEF Good, WellFormed, OpRecord
<1>2. Sound([r EXCEPT !.at = l], A, n)
  BY DEF Good, WellFormed, OpRecord, Sound
<1> QED
  BY <1>1, <1>2 DEF Good

\* Of an operation that has ended nothing more is asked.
LEMMA EndedGood ==
  ASSUME TypeOK, NEW o \in Operation, NEW result \in {"done", "failed", "rejected", "died"},
         NEW A, NEW n \in Nat
  PROVE  Good(Ended(o, result), A, n) /\ Ended(o, result).at = "ended"
<1>1. op[o].changed \in {"no", "catalogue", "database"}
  BY DEF TypeOK, OpRecord
<1>2. WellFormed(Ended(o, result))
  BY <1>1 DEF WellFormed, OpRecord, Ended, NewOp, OnlyRestores, Location
<1>3. Sound(Ended(o, result), A, n) /\ Ended(o, result).at = "ended"
  BY DEF Sound, Ended, NewOp, AfterCopy
<1> QED
  BY <1>2, <1>3 DEF Good

LEMMA CalledGood ==
  ASSUME NEW r, NEW A, NEW n \in Nat, Good(r, A, n), r.at = "new", NEW p \in Process,
         NEW k \in {"backup", "restore", "clone"}, NEW d \in Database, NEW f \in Database
  PROVE  Good([r EXCEPT !.at = IF k = "backup" THEN "space" ELSE "resolve",
                        !.kind = k, !.on = d, !.from = f, !.host = p, !.called = n], A, n)
<1> DEFINE l == IF k = "backup" THEN "space" ELSE "resolve"
           u == [r EXCEPT !.at = l, !.kind = k, !.on = d, !.from = f, !.host = p, !.called = n]
<1>1. /\ l \in Location /\ l \notin {"new", "ended", "dumping"} /\ l \notin AfterCopy
      /\ k # "backup" => l = "resolve"
      /\ l \in OnlyRestores => k # "backup"
  BY DEF Location, OnlyRestores, AfterCopy
<1> HIDE DEF l
<1>2. u \in OpRecord
  BY <1>1 DEF Good, WellFormed, OpRecord
<1>3. u.at = l /\ u.kind = k /\ u.on = d /\ u.called = n
  BY DEF Good, WellFormed, OpRecord
<1> HIDE DEF u
<1>4. Good(u, A, n)
  BY <1>1, <1>2, <1>3 DEF Good, WellFormed, Sound
<1> QED
  BY <1>4 DEF u, l

LEMMA ResolvedGood ==
  ASSUME NEW r, NEW A, NEW n, Good(r, A, n), r.at = "resolve", NEW b \in Archive
  PROVE  Good([r EXCEPT !.at = "verify", !.backup = b], A, n)
<1> DEFINE u == [r EXCEPT !.at = "verify", !.backup = b]
<1>1. WellFormed(u)
  BY DEF Good, WellFormed, OpRecord, OnlyRestores, Location
<1>2. Sound(u, A, n)
  BY DEF Good, WellFormed, OpRecord, Sound, AfterCopy
<1> QED
  BY <1>1, <1>2 DEF Good

\* A restore that saw its target goes on to the safety copy if it is to take one.
LEMMA CheckedGood ==
  ASSUME NEW r, NEW A, NEW n, Good(r, A, n), r.at = "check", r.kind = "restore",
         NEW e \in {"yes", "no"}, NEW l \in {"space", "space2"},
         l = "space2" => ~ AutoBackup \/ e = "no"
  PROVE  Good([r EXCEPT !.at = l, !.existed = e], A, n)
<1> DEFINE u == [r EXCEPT !.at = l, !.existed = e]
<1>1. /\ u.at = l /\ u.existed = e /\ u.kind = r.kind /\ u.on = r.on
      /\ u.called = r.called /\ u.backup = r.backup
  BY DEF Good, WellFormed, OpRecord
<1>2. u \in OpRecord
  BY DEF Good, WellFormed, OpRecord, Location
<1> HIDE DEF u
<1>3. WellFormed(u)
  BY <1>1, <1>2 DEF Good, WellFormed, OnlyRestores
<1>4. Sound(u, A, n)
  BY <1>1 DEF Good, Sound, AfterCopy
<1>5. Good(u, A, n)
  BY <1>3, <1>4 DEF Good
<1> QED
  BY <1>5 DEF u

LEMMA DumpingGood ==
  ASSUME NEW r, NEW A, NEW n \in Nat, Good(r, A, n), r.at = "queued", NEW s \in State
  PROVE  Good([r EXCEPT !.at = "dumping", !.dump = [db |-> r.on, began |-> n + 1, holds |-> s]],
              A, n + 1)
<1> DEFINE b == [db |-> r.on, began |-> n + 1, holds |-> s]
           u == [r EXCEPT !.at = "dumping", !.dump = b]
<1>1. b \in Archive /\ b.db = r.on /\ b.began = n + 1
  BY DEF Good, WellFormed, Archive
<1> HIDE DEF b
<1>2. /\ u \in OpRecord /\ u.at = "dumping" /\ u.dump = b
      /\ u.on = r.on /\ u.called = r.called /\ u.kind = r.kind /\ u.backup = r.backup
  BY <1>1 DEF Good, WellFormed, OpRecord, Location
<1>3. r.called \in Nat /\ r.called <= n
  BY DEF Good, WellFormed, Sound, OpRecord
<1> HIDE DEF u
<1>4. Good(u, A, n + 1)
  BY <1>1, <1>2, <1>3 DEF Good, WellFormed, Sound, OnlyRestores, AfterCopy
<1> QED
  BY <1>4 DEF u, b

\* The dump that has been committed is the copy.
LEMMA CommittedGood ==
  ASSUME NEW r, NEW A, NEW n, Good(r, A, n), r.at = "dumping"
  PROVE  Good([r EXCEPT !.at = "retention", !.changed = "catalogue"], A \cup {r.dump}, n)
<1> DEFINE u == [r EXCEPT !.at = "retention", !.changed = "catalogue"]
<1>1. /\ u \in OpRecord /\ u.at = "retention"
      /\ u.on = r.on /\ u.called = r.called /\ u.kind = r.kind /\ u.backup = r.backup
  BY DEF Good, WellFormed, OpRecord, Location
<1>2. Copied(A \cup {r.dump}, r.on, r.called)
  BY DEF Good, Sound, Copied
<1> HIDE DEF u
<1>3. Good(u, A \cup {r.dump}, n)
  BY <1>1, <1>2 DEF Good, WellFormed, Sound, OnlyRestores
<1> QED
  BY <1>3 DEF u

LEMMA ChangedGood ==
  ASSUME NEW r, NEW A, NEW n, Good(r, A, n), r.at = "ended"
  PROVE  Good([r EXCEPT !.changed = "catalogue"], A, n)
<1> DEFINE u == [r EXCEPT !.changed = "catalogue"]
<1>1. WellFormed(u)
  BY DEF Good, WellFormed, OpRecord, OnlyRestores, Location
<1>2. Sound(u, A, n)
  BY DEF Good, WellFormed, OpRecord, Sound, AfterCopy
<1> QED
  BY <1>1, <1>2 DEF Good

\* The two steps by which an operation changes its target.
LEMMA CreatedGood ==
  ASSUME NEW r, NEW A, NEW n, Good(r, A, n), r.at = "create"
  PROVE  Good([r EXCEPT !.at = "open", !.created = "yes", !.changed = "database"], A, n)
<1> DEFINE u == [r EXCEPT !.at = "open", !.created = "yes", !.changed = "database"]
<1>1. /\ u.at = "open" /\ u.on = r.on /\ u.called = r.called
      /\ u.kind = r.kind /\ u.backup = r.backup /\ u.existed = r.existed
  BY DEF Good, WellFormed, OpRecord
<1>2. u \in OpRecord
  BY DEF Good, WellFormed, OpRecord, Location
<1> HIDE DEF u
<1>3. Good(u, A, n)
  BY <1>1, <1>2 DEF Good, WellFormed, Sound, OnlyRestores, AfterCopy
<1> QED
  BY <1>3 DEF u

LEMMA CleanedGood ==
  ASSUME NEW r, NEW A, NEW n, Good(r, A, n), r.at = "open"
  PROVE  Good([r EXCEPT !.at = "restoring", !.changed = "database"], A, n)
<1> DEFINE u == [r EXCEPT !.at = "restoring", !.changed = "database"]
<1>1. /\ u.at = "restoring" /\ u.on = r.on /\ u.called = r.called
      /\ u.kind = r.kind /\ u.backup = r.backup /\ u.existed = r.existed
  BY DEF Good, WellFormed, OpRecord
<1>2. u \in OpRecord
  BY DEF Good, WellFormed, OpRecord, Location
<1> HIDE DEF u
<1>3. Good(u, A, n)
  BY <1>1, <1>2 DEF Good, WellFormed, Sound, OnlyRestores, AfterCopy
<1> QED
  BY <1>3 DEF u

-----------------------------------------------------------------------------
(* The system. *)

\* A step of one operation that leaves it good, and every copy in the catalogue.
LEMMA StepKeeps ==
  ASSUME OperationInv, NEW o \in Operation, NEW r, op' = [op EXCEPT ![o] = r],
         Good(r, archives', dumps'), NoneLost(archives, archives'),
         db' \in [Database -> State], dumps' \in Nat, dumps <= dumps',
         archives' \in SUBSET Archive, \A b \in archives' : b.began <= dumps'
  PROVE  OperationInv'
<1>1. op' \in [Operation -> OpRecord]
  BY DEF OperationInv, TypeOK, Good, WellFormed
<1>2. \A x \in Operation : Good(op'[x], archives', dumps')
  <2> SUFFICES ASSUME NEW x \in Operation
               PROVE  Good(op'[x], archives', dumps')
    OBVIOUS
  <2>1. Good(op[x], archives', dumps')
    BY StaysGood DEF OperationInv, TypeOK
  <2>2. op'[x] = IF x = o THEN r ELSE op[x]
    BY DEF OperationInv, TypeOK
  <2> QED
    BY <2>1, <2>2
<1>3. TypeOK'
  BY <1>1, <1>2 DEF TypeOK, Good, WellFormed, OnlyRestores
<1> QED
  BY <1>2, <1>3 DEF OperationInv, Good, WellFormed, Sound, Copied

\* A step of one operation that leaves the catalogue alone.
LEMMA QuietStepKeeps ==
  ASSUME OperationInv, NEW o \in Operation, NEW r, op' = [op EXCEPT ![o] = r],
         Good(r, archives, dumps), UNCHANGED <<archives, dumps>>,
         db' \in [Database -> State]
  PROVE  OperationInv'
<1>1. NoneLost(archives, archives') /\ Good(r, archives', dumps')
  BY DEF NoneLost
<1>2. /\ dumps' \in Nat /\ dumps <= dumps'
      /\ archives' \in SUBSET Archive /\ \A b \in archives' : b.began <= dumps'
  BY DEF OperationInv, TypeOK
<1> QED
  BY <1>1, <1>2, StepKeeps

\* The two commonest steps.
LEMMA MoveKeeps ==
  ASSUME OperationInv, NEW o \in Operation, NEW l \in Location, Goto(o, l),
         UNCHANGED <<archives, dumps>>, db' \in [Database -> State],
         op[o].at \notin {"new", "ended", "resolve"}, l \notin {"new", "ended", "dumping"},
         l \in OnlyRestores => op[o].kind # "backup",
         l \in AfterCopy => op[o].at \in AfterCopy \/ op[o].kind # "restore"
                            \/ op[o].existed # "yes" \/ ~ AutoBackup
  PROVE  OperationInv'
<1> DEFINE r == [op[o] EXCEPT !.at = l]
<1>1. Good(r, archives, dumps)
  BY MovedGood DEF OperationInv
<1>2. op' = [op EXCEPT ![o] = r]
  BY DEF Goto, OperationInv, TypeOK
<1> HIDE DEF r
<1> QED
  BY <1>1, <1>2, QuietStepKeeps

LEMMA EndKeeps ==
  ASSUME OperationInv, NEW o \in Operation, NEW result \in {"done", "failed", "rejected", "died"},
         End(o, result), UNCHANGED <<archives, dumps>>, db' \in [Database -> State]
  PROVE  OperationInv'
<1>1. Good(Ended(o, result), archives, dumps)
  BY EndedGood DEF OperationInv, TypeOK
<1> QED
  BY <1>1, QuietStepKeeps DEF End

\* No step of the system takes a good operation out of the invariant.
LEMMA OperationStep == OperationInv /\ [Next]_vars => OperationInv'
<1> SUFFICES ASSUME OperationInv, [Next]_vars
             PROVE  OperationInv'
  OBVIOUS
<1>t. /\ db \in [Database -> State] /\ dumps \in Nat /\ archives \in SUBSET Archive
      /\ op \in [Operation -> OpRecord]
      /\ \A o \in Operation : Good(op[o], archives, dumps) /\ WellFormed(op[o])
  BY DEF OperationInv, TypeOK, Good
<1>1. ASSUME NEW o \in Operation, NEW p \in Process, NEW r \in Request, Call(o, p, r)
      PROVE  OperationInv'
  <2> DEFINE l == IF r.kind = "backup" THEN "space" ELSE "resolve"
             u == [op[o] EXCEPT !.at = l, !.kind = r.kind, !.on = r.on, !.from = r.from,
                                !.host = p, !.called = dumps]
  <2>1. r.kind \in {"backup", "restore", "clone"} /\ r.on \in Database /\ r.from \in Database
    BY RequestAssumption
  <2>2. Good(u, archives, dumps)
    BY <1>1, <1>t, <2>1, CalledGood DEF Call
  <2>3. op' = [op EXCEPT ![o] = u] /\ UNCHANGED unchangedData
    BY <1>1, <1>t DEF Call
  <2> HIDE DEF u
  <2> QED
    BY <1>t, <2>2, <2>3, QuietStepKeeps DEF unchangedData
<1>2. ASSUME NEW o \in Operation, Work(o) \/ Admit(o) \/ LeaveQueue(o)
      PROVE  OperationInv'
  <2> USE DEF unchangedData
  <2>e. ASSUME NEW result \in {"done", "failed", "rejected", "died"}, End(o, result),
               UNCHANGED <<archives, dumps>>, db' \in [Database -> State]
        PROVE  OperationInv'
    BY <2>e, EndKeeps
  <2>k. op[o].at \in OnlyRestores => op[o].kind # "backup"
    BY <1>t DEF WellFormed
  <2>1. CASE ResolveBackup(o)
    <3>1. CASE End(o, "rejected")
      BY <1>t, <2>1, <2>e, <3>1 DEF ResolveBackup
    <3>2. ASSUME NEW b \in archives, op' = [op EXCEPT ![o].at = "verify", ![o].backup = b]
          PROVE  OperationInv'
      <4> DEFINE u == [op[o] EXCEPT !.at = "verify", !.backup = b]
      <4>1. Good(u, archives, dumps)
        BY <1>t, <2>1, ResolvedGood DEF ResolveBackup
      <4>2. op' = [op EXCEPT ![o] = u]
        BY <1>t, <3>2
      <4> HIDE DEF u
      <4> QED
        BY <1>t, <2>1, <4>1, <4>2, QuietStepKeeps DEF ResolveBackup
    <3> QED
      BY <2>1, <3>1, <3>2 DEF ResolveBackup
  <2>2. CASE VerifyArchive(o)
    <3>1. CASE Goto(o, "check")
      BY <1>t, <2>2, <2>k, <3>1, MoveKeeps DEF VerifyArchive, Location, OnlyRestores, AfterCopy
    <3> QED
      BY <1>t, <2>2, <2>e, <3>1 DEF VerifyArchive
  <2>3. CASE CheckTarget(o)
    <3> DEFINE exists == db[op[o].on] # "absent"
    <3>1. CASE op[o].kind = "clone" /\ Goto(o, "space2")
      BY <1>t, <2>3, <2>k, <3>1, MoveKeeps DEF CheckTarget, Location, OnlyRestores, AfterCopy
    <3>2. CASE op[o].kind = "restore"
               /\ op' = [op EXCEPT ![o].at = IF AutoBackup /\ exists THEN "space" ELSE "space2",
                                   ![o].existed = IF exists THEN "yes" ELSE "no"]
      <4> DEFINE l == IF AutoBackup /\ exists THEN "space" ELSE "space2"
                 e == IF exists THEN "yes" ELSE "no"
                 u == [op[o] EXCEPT !.at = l, !.existed = e]
      <4>1. /\ l \in {"space", "space2"} /\ e \in {"yes", "no"}
            /\ l = "space2" => ~ AutoBackup \/ e = "no"
        BY AutoBackupAssumption
      <4>2. op' = [op EXCEPT ![o] = u]
        BY <1>t, <3>2
      <4> HIDE DEF l, e
      <4>3. Good(u, archives, dumps)
        BY <1>t, <2>3, <3>2, <4>1, CheckedGood DEF CheckTarget
      <4> HIDE DEF u
      <4> QED
        BY <1>t, <2>3, <4>2, <4>3, QuietStepKeeps DEF CheckTarget
    <3> QED
      BY <1>t, <2>3, <2>e, <3>1, <3>2 DEF CheckTarget
  <2>4. CASE EnsureSpace(o)
    <3>1. CASE Goto(o, IF op[o].at = "space" THEN "queued" ELSE "queued2")
      BY <1>t, <2>4, <2>k, <3>1, MoveKeeps
         DEF EnsureSpace, Location, OnlyRestores, AfterCopy
    <3> QED
      BY <1>t, <2>4, <2>e, <3>1 DEF EnsureSpace
  <2>5. CASE BeginDump(o)
    <3> DEFINE b == [db |-> op[o].on, began |-> dumps + 1, holds |-> db[op[o].on]]
               u == [op[o] EXCEPT !.at = "dumping", !.dump = b]
    <3>1. db[op[o].on] \in State
      BY <1>t, <2>5 DEF BeginDump, WellFormed
    <3>2. Good(u, archives, dumps + 1)
      BY <1>t, <2>5, <3>1, DumpingGood DEF BeginDump
    <3>3. op' = [op EXCEPT ![o] = u] /\ dumps' = dumps + 1 /\ archives' = archives /\ db' = db
      BY <1>t, <2>5 DEF BeginDump
    <3>4. /\ NoneLost(archives, archives') /\ dumps' \in Nat /\ dumps <= dumps'
          /\ \A x \in archives' : x.began <= dumps'
      BY <1>t, <3>3 DEF NoneLost, OperationInv, Archive
    <3> HIDE DEF u
    <3> QED
      BY <1>t, <3>2, <3>3, <3>4, StepKeeps
  <2>6. CASE BeginRestore(o)
    BY <1>t, <2>6, <2>k, MoveKeeps DEF BeginRestore, Location, OnlyRestores, AfterCopy
  <2>7. CASE LeaveQueue(o)
    BY <1>t, <2>7, <2>e DEF LeaveQueue
  <2>8. CASE CommitDump(o)
    <3> DEFINE u == [op[o] EXCEPT !.at = "retention", !.changed = "catalogue"]
               v == [Ended(o, "failed") EXCEPT !.changed = "catalogue"]
    <3>1. /\ archives' = archives \cup {op[o].dump} /\ dumps' = dumps /\ db' = db
          /\ op[o].dump \in Archive /\ op[o].dump.began <= dumps
      BY <1>t, <2>8 DEF CommitDump, Good, Sound
    <3>2. Good(u, archives', dumps')
      <4>1. op[o].at = "dumping" /\ Good(op[o], archives, dumps)
        BY <1>t, <2>8 DEF CommitDump
      <4>2. Good(u, archives \cup {op[o].dump}, dumps)
        BY <4>1, CommittedGood
      <4> HIDE DEF u
      <4> QED
        BY <3>1, <4>2
    <3>3. Good(v, archives', dumps')
      BY <1>t, <3>1, EndedGood, ChangedGood DEF OperationInv
    <3>4. op' = [op EXCEPT ![o] = u] \/ op' = [op EXCEPT ![o] = v]
      BY <1>t, <2>8 DEF CommitDump
    <3>5. /\ NoneLost(archives, archives') /\ archives' \in SUBSET Archive
          /\ \A x \in archives' : x.began <= dumps'
          /\ dumps' \in Nat /\ dumps <= dumps' /\ db' \in [Database -> State]
      BY <1>t, <3>1 DEF NoneLost, Copied, OperationInv
    <3> HIDE DEF u, v
    <3> QED
      BY <3>2, <3>3, <3>4, <3>5, StepKeeps
  <2>9. CASE FailDump(o)
    BY <1>t, <2>9, <2>e DEF FailDump
  <2>10. CASE EndBackup(o)
    <3>1. PICK removed \in SUBSET Expired(op[o].on) : archives' = archives \ removed
      BY <2>10 DEF EndBackup
    <3>2. op[o].on \in Database
      BY <1>t, <2>10 DEF EndBackup, WellFormed
    <3>3. /\ NoneLost(archives, archives') /\ archives' \in SUBSET Archive
          /\ \A x \in archives' : x.began <= dumps'
          /\ dumps' \in Nat /\ dumps <= dumps' /\ db' \in [Database -> State]
      BY <1>t, <2>10, <3>1, <3>2, RetentionKeepsACopy DEF EndBackup, OperationInv
    <3>4. CASE op[o].kind = "backup" /\ End(o, "done")
      <4>1. Good(Ended(o, "done"), archives', dumps')
        BY <3>3, EndedGood DEF OperationInv
      <4> QED
        BY <3>3, <3>4, <4>1, StepKeeps DEF End
    <3>5. CASE op[o].kind # "backup" /\ Goto(o, "space2")
      <4> DEFINE u == [op[o] EXCEPT !.at = "space2"]
      <4>1. Good(u, archives, dumps)
        BY <1>t, <2>10, <3>5, MovedGood DEF EndBackup, Location, OnlyRestores, AfterCopy
      <4>2. op' = [op EXCEPT ![o] = u]
        BY <1>t, <3>5 DEF Goto
      <4> HIDE DEF u
      <4>3. Good(u, archives', dumps')
        BY <1>t, <3>3, <4>1, StaysGood
      <4> QED
        BY <3>3, <4>2, <4>3, StepKeeps
    <3> QED
      BY <2>10, <3>4, <3>5 DEF EndBackup
  <2>11. CASE Prepare(o)
    <3>1. CASE Goto(o, IF db[op[o].on] = "absent" THEN "create" ELSE "open")
      BY <1>t, <2>11, <2>k, <3>1, MoveKeeps DEF Prepare, Location, OnlyRestores, AfterCopy
    <3> QED
      BY <1>t, <2>11, <2>e, <3>1 DEF Prepare
  <2>12. CASE CreateDatabase(o)
    <3>0. db' \in [Database -> State]
      BY <1>t, <2>12 DEF CreateDatabase, State
    <3>1. CASE End(o, "failed")
      BY <2>12, <2>e, <3>0, <3>1 DEF CreateDatabase
    <3>2. CASE op' = [op EXCEPT ![o].at = "open", ![o].created = "yes", ![o].changed = "database"]
      <4> DEFINE u == [op[o] EXCEPT !.at = "open", !.created = "yes", !.changed = "database"]
      <4>1. Good(u, archives, dumps)
        BY <1>t, <2>12, CreatedGood DEF CreateDatabase
      <4>2. op' = [op EXCEPT ![o] = u]
        BY <1>t, <3>2
      <4> HIDE DEF u
      <4> QED
        BY <2>12, <3>0, <4>1, <4>2, QuietStepKeeps DEF CreateDatabase
    <3> QED
      BY <2>12, <3>1, <3>2 DEF CreateDatabase
  <2>13. CASE OpenArchive(o)
    <3>0. db' \in [Database -> State]
      BY <1>t, <2>13 DEF OpenArchive, State
    <3>1. CASE End(o, "failed")
      BY <2>13, <2>e, <3>0, <3>1 DEF OpenArchive
    <3>2. CASE op' = [op EXCEPT ![o].at = "restoring", ![o].changed = "database"]
      <4> DEFINE u == [op[o] EXCEPT !.at = "restoring", !.changed = "database"]
      <4>1. Good(u, archives, dumps)
        BY <1>t, <2>13, CleanedGood DEF OpenArchive
      <4>2. op' = [op EXCEPT ![o] = u]
        BY <1>t, <3>2
      <4> HIDE DEF u
      <4> QED
        BY <2>13, <3>0, <4>1, <4>2, QuietStepKeeps DEF OpenArchive
    <3> QED
      BY <2>13, <3>1, <3>2 DEF OpenArchive
  <2>14. CASE RestoreEnds(o)
    <3>1. op[o].backup \in Archive
      BY <1>t, <2>14 DEF RestoreEnds, WellFormed, OnlyRestores
    <3>2. db' \in [Database -> State]
      BY <1>t, <2>14, <3>1 DEF RestoreEnds, Archive
    <3>3. CASE Goto(o, "owner")
      BY <2>14, <2>k, <3>2, <3>3, MoveKeeps DEF RestoreEnds, Location, OnlyRestores, AfterCopy
    <3> QED
      BY <2>14, <2>e, <3>2, <3>3 DEF RestoreEnds
  <2>15. CASE SetOwner(o)
    BY <1>t, <2>15, <2>e DEF SetOwner
  <2> QED
    BY <1>2, <2>1, <2>2, <2>3, <2>4, <2>5, <2>6, <2>7, <2>8, <2>9, <2>10, <2>11, <2>12,
       <2>13, <2>14, <2>15 DEF Work, ServiceStep, ToolStep, Admit
<1>3. ASSUME NEW p \in Process, Die(p)
      PROVE  OperationInv'
  <2>1. UNCHANGED unchangedData
    BY <1>3 DEF Die
  <2>2. \A o \in Operation : Good(Ended(o, "died"), archives, dumps)
    BY <1>t, EndedGood DEF OperationInv
  <2>3. op' = [o \in Operation |-> IF op[o].host = p /\ Running(o) THEN Ended(o, "died") ELSE op[o]]
    BY <1>3 DEF Die
  <2>4. \A o \in Operation : Good(op'[o], archives, dumps)
    BY <1>t, <2>2, <2>3
  <2>5. op' \in [Operation -> OpRecord]
    BY <2>3, <2>4 DEF Good, WellFormed
  <2>6. TypeOK'
    BY <1>t, <2>1, <2>4, <2>5 DEF TypeOK, unchangedData, Good, WellFormed, OnlyRestores
  <2> QED
    BY <2>1, <2>4, <2>6 DEF OperationInv, unchangedData, Good, WellFormed, Sound, Copied
<1>4. ASSUME NEW d \in Database, UserWrites(d) \/ UserDrops(d)
      PROVE  OperationInv'
  <2>1. db' \in [Database -> State] /\ UNCHANGED <<archives, dumps, op>>
    BY <1>4, <1>t DEF UserWrites, UserDrops, State
  <2> QED
    BY <2>1 DEF OperationInv, TypeOK, Good, WellFormed, Sound, Copied
<1>5. ASSUME NEW d \in Database, Prune(d)
      PROVE  OperationInv'
  <2>1. PICK removed \in SUBSET Expired(d) : archives' = archives \ removed
    <3>1. PICK b \in Expired(d) : archives' = archives \ {b}
      BY <1>5 DEF Prune
    <3> QED
      BY <3>1
  <2>2. UNCHANGED <<db, dumps, op>>
    BY <1>5 DEF Prune
  <2>3. NoneLost(archives, archives')
    BY <2>1, RetentionKeepsACopy
  <2>4. \A o \in Operation : Good(op'[o], archives', dumps')
    BY <1>t, <2>2, <2>3, StaysGood
  <2>5. TypeOK' /\ \A b \in archives' : b.began <= dumps'
    BY <2>1, <2>2 DEF OperationInv, TypeOK
  <2> QED
    BY <2>4, <2>5 DEF OperationInv, Good, WellFormed, Sound, Copied
<1>6. CASE UNCHANGED vars
  BY <1>6 DEF vars, OperationInv, TypeOK, Good, WellFormed, Sound, Copied
<1> QED
  BY <1>1, <1>2, <1>3, <1>4, <1>5, <1>6 DEF Next

\* Every operation stays good.
LEMMA OperationInvariant == Spec => []OperationInv
<1>1. Init => OperationInv
  <2> SUFFICES ASSUME Init
               PROVE  OperationInv
    OBVIOUS
  <2>1. /\ db \in [Database -> State] /\ dumps = 0
        /\ archives \in SUBSET Archive /\ \A b \in archives : b.began <= dumps
    BY DEF Init, Archive, State
  <2>2. Good(NewOp, archives, dumps)
    BY <2>1 DEF Good, WellFormed, Sound, NewOp, OpRecord, OnlyRestores, AfterCopy, Location
  <2>3. op = [o \in Operation |-> NewOp]
    BY DEF Init
  <2>4. TypeOK
    BY <2>1, <2>2, <2>3 DEF TypeOK, Good, WellFormed, OnlyRestores
  <2> QED
    BY <2>1, <2>2, <2>3, <2>4 DEF OperationInv
<1> QED
  BY <1>1, OperationStep, PTL DEF Spec

\* Whatever other operations, their retention, other processes, deaths and users of
\* the cluster do, a restore that saw its database cleans it only when a copy made
\* since it was called is in the catalogue; every variable keeps its type.
THEOREM RestoreHasSafetyCopy == Spec => [](TypeOK /\ SafetyCopy)
<1>1. OperationInv => TypeOK /\ SafetyCopy
  BY DEF OperationInv, Good, Sound, Copied, AfterCopy, SafetyCopy, HasSafetyCopy
<1> QED
  BY <1>1, OperationInvariant, PTL

-----------------------------------------------------------------------------
(* A rejection. *)

\* Where an operation may be that has changed a database: all rejections come earlier.
Late == {"open", "restoring", "owner", "ended"}
Lawful(r) == /\ r.changed = "database" => r.at \in Late /\ r.result # "rejected"
             /\ r.at # "ended" => r.result = "none"
LawfulInv == \A o \in Operation : Lawful(op[o])

\* An operation ends.
LEMMA EndLawful ==
  ASSUME TypeOK, LawfulInv, NEW o \in Operation, NEW result, End(o, result),
         result = "rejected" => op[o].at \notin Late
  PROVE  LawfulInv'
<1>1. Lawful(op[o]) /\ op[o] \in OpRecord
  BY DEF LawfulInv, TypeOK
<1>2. /\ Ended(o, result).at = "ended" /\ Ended(o, result).changed = op[o].changed
      /\ Ended(o, result).result = result
  BY DEF Ended, NewOp
<1>3. Lawful(Ended(o, result))
  BY <1>1, <1>2 DEF Lawful, Late
<1>4. \A x \in Operation : op'[x] = IF x = o THEN Ended(o, result) ELSE op[x]
  BY DEF End, TypeOK
<1> QED
  BY <1>3, <1>4 DEF LawfulInv

\* An operation goes on.
LEMMA MoveLawful ==
  ASSUME LawfulInv, NEW o \in Operation,
         \A x \in Operation : x # o => op'[x] = op[x],
         op[o].at # "ended", op'[o].result = op[o].result,
         op'[o].at # "ended", op'[o].changed = "database" => op'[o].at \in Late
  PROVE  LawfulInv'
<1>1. Lawful(op[o])
  BY DEF LawfulInv
<1>2. Lawful(op'[o])
  BY <1>1 DEF Lawful
<1> QED
  BY <1>2 DEF LawfulInv, Lawful

\* One that only changes place does not do so with a changed database, unless it is late.
LEMMA GotoLawful ==
  ASSUME TypeOK, LawfulInv, NEW o \in Operation, NEW l, Goto(o, l), op[o].at # "ended", l # "ended",
         op[o].at \in Late => l \in Late
  PROVE  LawfulInv'
<1>1. /\ \A x \in Operation : x # o => op'[x] = op[x]
      /\ op'[o].result = op[o].result /\ op'[o].at = l /\ op'[o].changed = op[o].changed
  BY DEF Goto, TypeOK, OpRecord
<1>2. op[o].changed = "database" => l \in Late
  BY DEF LawfulInv, Lawful
<1> QED
  BY <1>1, <1>2, MoveLawful

LEMMA LawfulStep == TypeOK /\ LawfulInv /\ [Next]_vars => LawfulInv'
<1> SUFFICES ASSUME TypeOK, LawfulInv, [Next]_vars
             PROVE  LawfulInv'
  OBVIOUS
<1> USE DEF Late
<1>t. op \in [Operation -> OpRecord]
  BY DEF TypeOK
<1>1. ASSUME NEW o \in Operation, NEW p \in Process, NEW r \in Request, Call(o, p, r)
      PROVE  LawfulInv'
  <2>1. /\ \A x \in Operation : x # o => op'[x] = op[x]
        /\ op'[o].result = op[o].result /\ op'[o].at # "ended"
        /\ op'[o].changed = op[o].changed /\ op[o].at = "new"
    BY <1>1, <1>t DEF Call, OpRecord
  <2>2. op'[o].changed # "database"
    BY <2>1 DEF LawfulInv, Lawful
  <2> QED
    BY <2>1, <2>2, MoveLawful
<1>2. ASSUME NEW o \in Operation, Work(o) \/ Admit(o) \/ LeaveQueue(o)
      PROVE  LawfulInv'
  <2>1. CASE \/ \E l \in Location \ {"ended"} : /\ Goto(o, l) /\ op[o].at # "ended"
                                                /\ op[o].at \in Late => l \in Late
             \/ \E result : End(o, result) /\ (result = "rejected" => op[o].at \notin Late)
    BY <2>1, GotoLawful, EndLawful
  <2>2. ASSUME op[o].at \in {"resolve", "check", "queued"},
               \A x \in Operation : x # o => op'[x] = op[x],
               op'[o].result = op[o].result, op'[o].changed = op[o].changed,
               op'[o].at # "ended"
        PROVE  LawfulInv'
    <3>1. op'[o].changed # "database"
      BY <2>2 DEF LawfulInv, Lawful
    <3> QED
      BY <2>2, <3>1, MoveLawful
  <2>3. CASE ResolveBackup(o)
    BY <2>1, <2>2, <2>3, <1>t DEF ResolveBackup, OpRecord
  <2>4. CASE VerifyArchive(o)
    BY <2>1, <2>4 DEF VerifyArchive, Location
  <2>5. CASE CheckTarget(o)
    BY <2>1, <2>2, <2>5, <1>t DEF CheckTarget, Location, OpRecord
  <2>6. CASE EnsureSpace(o)
    BY <2>1, <2>6 DEF EnsureSpace, Location
  <2>7. CASE BeginDump(o)
    BY <2>2, <2>7, <1>t DEF BeginDump, OpRecord
  <2>8. CASE BeginRestore(o) \/ LeaveQueue(o)
    BY <2>1, <2>8 DEF BeginRestore, LeaveQueue, Location
  <2>9. CASE CommitDump(o)
    <3>1. CASE op' = [op EXCEPT ![o].at = "retention", ![o].changed = "catalogue"]
      <4>1. /\ \A x \in Operation : x # o => op'[x] = op[x]
            /\ op'[o].result = op[o].result /\ op'[o].changed = "catalogue" /\ op'[o].at = "retention"
        BY <3>1, <1>t DEF OpRecord
      <4> QED
        BY <2>9, <4>1, MoveLawful DEF CommitDump
    <3>2. CASE op' = [op EXCEPT ![o] = [Ended(o, "failed") EXCEPT !.changed = "catalogue"]]
      <4>1. \A x \in Operation : op'[x] = IF x = o THEN [Ended(o, "failed") EXCEPT !.changed = "catalogue"] ELSE op[x]
        BY <3>2, <1>t
      <4>2. Lawful([Ended(o, "failed") EXCEPT !.changed = "catalogue"])
        BY DEF Lawful, Ended, NewOp
      <4> QED
        BY <4>1, <4>2 DEF LawfulInv
    <3> QED
      BY <2>9, <3>1, <3>2 DEF CommitDump
  <2>10. CASE FailDump(o) \/ EndBackup(o) \/ Prepare(o) \/ RestoreEnds(o) \/ SetOwner(o)
    BY <2>1, <2>10 DEF FailDump, EndBackup, Prepare, RestoreEnds, SetOwner, Location
  <2>11. CASE CreateDatabase(o) \/ OpenArchive(o)
    <3>1. \/ End(o, "failed")
          \/ /\ \A x \in Operation : x # o => op'[x] = op[x]
             /\ op'[o].result = op[o].result /\ op'[o].at \in Late \ {"ended"}
      BY <2>11, <1>t DEF CreateDatabase, OpenArchive, OpRecord
    <3>2. op[o].at # "ended"
      BY <2>11 DEF CreateDatabase, OpenArchive
    <3> QED
      BY <2>1, <3>1, <3>2, MoveLawful
  <2> QED
    BY <1>2, <2>3, <2>4, <2>5, <2>6, <2>7, <2>8, <2>9, <2>10, <2>11 DEF Work, ServiceStep, ToolStep, Admit
<1>3. ASSUME NEW p \in Process, Die(p)
      PROVE  LawfulInv'
  <2>1. \A x \in Operation : op'[x] \in {op[x], Ended(x, "died")}
    BY <1>3 DEF Die
  <2>2. \A x \in Operation : Lawful(Ended(x, "died"))
    BY DEF Lawful, Ended, NewOp
  <2> QED
    BY <2>1, <2>2 DEF LawfulInv
<1>4. CASE UNCHANGED op
  BY <1>4 DEF LawfulInv, Lawful
<1> QED
  BY <1>1, <1>2, <1>3, <1>4 DEF Next, Prune, UserWrites, UserDrops, vars

\* RejectedError promises that no database has been touched: an operation is rejected only
\* while it has done no more than make its safety copy (RejectedLeavesDatabases).
THEOREM RejectionChangesNoDatabase == Spec => []RejectedLeavesDatabases
<1>1. Init => LawfulInv
  BY DEF Init, LawfulInv, Lawful, NewOp
<1>2. LawfulInv => RejectedLeavesDatabases
  BY DEF LawfulInv, Lawful, RejectedLeavesDatabases
<1>3. Spec => []TypeOK
  BY RestoreHasSafetyCopy, PTL
<1> QED
  BY <1>1, <1>2, <1>3, LawfulStep, PTL DEF Spec

-----------------------------------------------------------------------------
(* The catalogue of each database. *)

\* Dumps are numbered as they begin, so no two archives of a database share a number,
\* and no dump in the making has the number of an archive or of another dump.
Making(o) == op[o].at = "dumping"
NumbersInv ==
  /\ \A b, c \in archives : b.db = c.db /\ b.began = c.began => b = c
  /\ \A b \in archives : b.holds # "absent"
  /\ \A o \in Operation : Making(o) => \A b \in archives : b.began # op[o].dump.began
  /\ \A o, x \in Operation : Making(o) /\ Making(x) /\ o # x =>
                             op[o].dump.began # op[x].dump.began

\* A step by which no dump begins and none becomes an archive.
LEMMA NumbersStay ==
  ASSUME NumbersInv, archives' \subseteq archives,
         \A o \in Operation : op'[o].at = "dumping" => op'[o] = op[o]
  PROVE  NumbersInv'
  BY DEF NumbersInv, Making

LEMMA NumbersStep == OperationInv /\ NumbersInv /\ [Next]_vars => NumbersInv'
<1> SUFFICES ASSUME OperationInv, NumbersInv, [Next]_vars
             PROVE  NumbersInv'
  OBVIOUS
<1>t. /\ op \in [Operation -> OpRecord] /\ dumps \in Nat
      /\ \A o \in Operation : Sound(op[o], archives, dumps)
      /\ \A b \in archives : b.began \in Nat /\ b.began <= dumps
  BY DEF OperationInv, TypeOK, Good, Archive
<1>1. ASSUME NEW o \in Operation, NEW p \in Process, NEW r \in Request, Call(o, p, r)
      PROVE  NumbersInv'
  BY <1>1, <1>t, NumbersStay DEF Call, unchangedData, OpRecord
<1>2. ASSUME NEW o \in Operation, Work(o) \/ Admit(o) \/ LeaveQueue(o)
      PROVE  NumbersInv'
  <2>1. ASSUME archives' \subseteq archives, op'[o].at # "dumping",
               \A x \in Operation : x # o => op'[x] = op[x]
        PROVE  NumbersInv'
    BY <2>1, NumbersStay
  <2>2. ASSUME archives' \subseteq archives,
               (\E l \in Location \ {"dumping"} : Goto(o, l)) \/ (\E result : End(o, result))
        PROVE  NumbersInv'
    <3>1. Ended(o, "done").at # "dumping" /\ \A result : Ended(o, result).at # "dumping"
      BY DEF Ended, NewOp
    <3> QED
      BY <1>t, <2>1, <2>2, <3>1 DEF Goto, End, OpRecord
  <2>3. CASE ResolveBackup(o) \/ CheckTarget(o) \/ CreateDatabase(o) \/ OpenArchive(o)
    <3>1. archives' = archives
      BY <2>3 DEF ResolveBackup, CheckTarget, CreateDatabase, OpenArchive, unchangedData
    <3>2. CASE \E result : End(o, result)
      BY <2>2, <3>1, <3>2
    <3>3. CASE ~ \E result : End(o, result)
      BY <1>t, <2>1, <2>2, <2>3, <3>1, <3>3
         DEF ResolveBackup, CheckTarget, CreateDatabase, OpenArchive, OpRecord, Location
    <3> QED
      BY <3>2, <3>3
  <2>4. CASE \/ VerifyArchive(o) \/ EnsureSpace(o) \/ BeginRestore(o) \/ LeaveQueue(o)
             \/ FailDump(o) \/ Prepare(o) \/ RestoreEnds(o) \/ SetOwner(o)
    BY <2>2, <2>4 DEF VerifyArchive, EnsureSpace, BeginRestore, LeaveQueue, FailDump, Prepare,
                      RestoreEnds, SetOwner, unchangedData, Location
  <2>5. CASE EndBackup(o)
    BY <2>2, <2>5 DEF EndBackup, Location
  <2>6. CASE BeginDump(o)
    <3>1. /\ archives' = archives /\ op[o].at = "queued"
          /\ op'[o].dump.began = dumps + 1 /\ \A x \in Operation : x # o => op'[x] = op[x]
      BY <1>t, <2>6 DEF BeginDump, OpRecord
    <3>2. \A x \in Operation : Making(x) => op[x].dump.began \in Nat /\ op[x].dump.began <= dumps
      BY <1>t DEF Making, Sound, Archive
    <3> QED
      BY <1>t, <3>1, <3>2 DEF NumbersInv, Making
  <2>7. CASE CommitDump(o)
    <3>1. /\ archives' = archives \cup {op[o].dump} /\ op[o].dump.holds # "absent"
          /\ Making(o)
      BY <2>7 DEF CommitDump, Making
    <3>2. op'[o].at # "dumping" /\ \A x \in Operation : x # o => op'[x] = op[x]
      <4> DEFINE ended == [Ended(o, "failed") EXCEPT !.changed = "catalogue"]
      <4>1. ended.at = "ended"
        BY DEF Ended, NewOp
      <4> HIDE DEF ended
      <4>2. \/ op' = [op EXCEPT ![o].at = "retention", ![o].changed = "catalogue"]
            \/ op' = [op EXCEPT ![o] = ended]
        BY <2>7 DEF CommitDump, ended
      <4> QED
        BY <1>t, <4>1, <4>2 DEF OpRecord
    <3> QED
      BY <3>1, <3>2 DEF NumbersInv, Making
  <2> QED
    BY <1>2, <2>3, <2>4, <2>5, <2>6, <2>7 DEF Work, ServiceStep, ToolStep, Admit
<1>3. ASSUME NEW p \in Process, Die(p)
      PROVE  NumbersInv'
  <2>1. \A o \in Operation : op'[o] = op[o] \/ op'[o].at = "ended"
    BY <1>3 DEF Die, Ended, NewOp
  <2> QED
    BY <1>3, <2>1, NumbersStay DEF Die, unchangedData
<1>4. CASE archives' \subseteq archives /\ op' = op
  BY <1>4, NumbersStay
<1> QED
  BY <1>1, <1>2, <1>3, <1>4 DEF Next, Prune, UserWrites, UserDrops, vars

\* The catalogues count as the operations do.
LEMMA SameCount == \A d, S : Kept(d)!Cardinality(S) = Cardinality(S)
  BY DEF Cardinality, Kept!Cardinality

LEMMA BackupNames ==
  ASSUME NEW d
  PROVE  \A n : n \in Kept(d)!Names <=> \E a \in archives : a.db = d /\ a.began = n
<1>1. ASSUME NEW a \in archives, a.db = d
      PROVE  [name |-> a.began, content |-> a.holds] \in BackupsOf(d)
  BY <1>1 DEF BackupsOf
<1>2. ASSUME NEW a \in archives, a.db = d
      PROVE  \E b \in BackupsOf(d) : b.name = a.began
  BY <1>1, <1>2
<1>3. ASSUME NEW b \in BackupsOf(d)
      PROVE  \E a \in archives : a.db = d /\ a.began = b.name
  BY <1>3 DEF BackupsOf
<1> QED
  BY <1>2, <1>3 DEF Kept!Names

\* What retention may take by the count of archives it may take by the count of numbers.
LEMMA ExpiredInCatalogue ==
  ASSUME OperationInv, NumbersInv, NEW d \in Database, NEW b \in Expired(d)
  PROVE  b.began \in Kept(d)!Expired
<1>t. dumps \in Nat /\ \A a \in archives : a.began \in Nat /\ a.began <= dumps
  BY DEF OperationInv, TypeOK, Archive
<1> DEFINE Later == {n \in archives : n.db = d /\ n.began > b.began}
           Numbers == Kept(d)!Newer(b.began)
           f == [a \in Later |-> a.began]
<1>1. b \in archives /\ b.db = d /\ Cardinality(Later) >= KeepLast
  BY DEF Expired
<1>2. \A n \in Later : n.began \in Numbers
  BY BackupNames DEF Kept!Newer
<1>3. Numbers \subseteq 0 .. dumps
  BY <1>t, BackupNames DEF Kept!Newer
<1>4. IsFiniteSet(Numbers)
  <2>1. IsFiniteSet(0 .. dumps)
    BY <1>t, FS_Interval
  <2> HIDE DEF Numbers
  <2> QED
    BY <1>3, <2>1, FS_Subset
<1>5. f \in Injection(Later, Numbers)
  BY <1>2 DEF NumbersInv, Injection, IsInjective
<1>6. Cardinality(Later) <= Cardinality(Numbers)
  <2> HIDE DEF Later, Numbers, f
  <2> QED
    BY <1>4, <1>5, FS_Injection
<1>7. Cardinality(Numbers) \in Nat /\ KeepLast \in Nat /\ KeepLast > 0
  BY <1>4, FS_CardinalityType, LimitsAssumption
<1>8. Cardinality(Numbers) >= KeepLast
  <2> HIDE DEF Numbers
  <2>1. Cardinality(Later) \in Nat \/ Cardinality(Later) \in Int
    BY <1>4, <1>5, FS_Injection, FS_CardinalityType
  <2> QED
    BY <1>1, <1>6, <1>7, <2>1
<1> QED
  BY <1>1, <1>7, <1>8, SameCount, BackupNames DEF Kept!Expired

\* A catalogue of which nothing has changed.
LEMMA CatalogueRests ==
  ASSUME NEW d \in Database, dumps' = dumps,
         \A a : a \in archives' /\ a.db = d <=> a \in archives /\ a.db = d
  PROVE  [Kept(d)!Next]_(Kept(d)!vars)
<1>1. {a \in archives' : a.db = d} = {a \in archives : a.db = d}
  OBVIOUS
<1>2. BackupsOf(d)' = BackupsOf(d)
  BY <1>1, Zenon DEF BackupsOf
<1> QED
  BY <1>2 DEF Kept!vars

LEMMA CatalogueRetains ==
  ASSUME OperationInv, NumbersInv, NEW d \in Database, NEW e \in Database,
         NEW removed \in SUBSET Expired(e), archives' = archives \ removed, dumps' = dumps
  PROVE  [Kept(d)!Next]_(Kept(d)!vars)
<1>1. CASE d # e
  BY <1>1, CatalogueRests DEF Expired
<1>2. CASE d = e
  <2> DEFINE doomed == {b.began : b \in removed}
  <2>1. \A b \in removed : b \in archives /\ b.db = d /\ b.began \in Kept(d)!Expired
    BY <1>2, ExpiredInCatalogue DEF Expired
  <2>2. doomed \in SUBSET Kept(d)!Expired
    BY <2>1
  <2>3. \A a \in archives : a.db = d => (a \in removed <=> a.began \in doomed)
    BY <2>1 DEF NumbersInv
  <2> HIDE DEF doomed
  <2>4. BackupsOf(d)' = Kept(d)!Without(doomed)
    <3>1. ASSUME NEW h, h \in BackupsOf(d)'
          PROVE  h \in BackupsOf(d) /\ h.name \notin doomed
      <4>1. PICK a \in archives' : a.db = d /\ h = [name |-> a.began, content |-> a.holds]
        BY <3>1 DEF BackupsOf
      <4> QED
        BY <2>3, <4>1 DEF BackupsOf
    <3>2. ASSUME NEW h, h \in BackupsOf(d), h.name \notin doomed
          PROVE  h \in BackupsOf(d)'
      <4>1. PICK a \in archives : a.db = d /\ h = [name |-> a.began, content |-> a.holds]
        BY <3>2 DEF BackupsOf
      <4>2. a \in archives'
        BY <2>3, <3>2, <4>1
      <4> QED
        BY <4>1, <4>2 DEF BackupsOf
    <3> QED
      BY <3>1, <3>2 DEF Kept!Without
  <2> QED
    BY <2>2, <2>4 DEF Kept!Next, Kept!Retain
<1> QED
  BY <1>1, <1>2

LEMMA CatalogueCommits ==
  ASSUME OperationInv, NumbersInv, NEW d \in Database, NEW o \in Operation, CommitDump(o)
  PROVE  [Kept(d)!Next]_(Kept(d)!vars)
<1> DEFINE b == op[o].dump
           new == [name |-> b.began, content |-> b.holds]
<1>1. /\ archives' = archives \cup {b} /\ dumps' = dumps
      /\ b \in Archive /\ b.began <= dumps /\ b.holds # "absent"
      /\ \A a \in archives : a.began # b.began
  BY DEF CommitDump, OperationInv, Good, Sound, NumbersInv, Making
<1> HIDE DEF b
<1>2. CASE b.db # d
  BY <1>1, <1>2, CatalogueRests
<1>3. CASE b.db = d
  <2>1. BackupsOf(d)' = BackupsOf(d) \cup {new}
    <3>1. ASSUME NEW h, h \in BackupsOf(d)'
          PROVE  h \in BackupsOf(d) \/ h = new
      <4>1. PICK a \in archives' : a.db = d /\ h = [name |-> a.began, content |-> a.holds]
        BY <3>1 DEF BackupsOf
      <4> QED
        BY <1>1, <4>1 DEF BackupsOf
    <3>2. ASSUME NEW h, h \in BackupsOf(d) \/ h = new
          PROVE  h \in BackupsOf(d)'
      <4>1. PICK a \in archives' : a.db = d /\ h = [name |-> a.began, content |-> a.holds]
        BY <1>1, <1>3, <3>2 DEF BackupsOf
      <4> QED
        BY <4>1 DEF BackupsOf
    <3> QED
      BY <3>1, <3>2
  <2>2. b.holds \in {"whole", "broken"}
    BY <1>1 DEF Archive, State
  <2>3. b.began \notin Kept(d)!Names
    BY <1>1, BackupNames
  <2> QED
    BY <1>1, <2>1, <2>2, <2>3 DEF Kept!Next, Kept!Commit
<1> QED
  BY <1>2, <1>3

LEMMA CatalogueStep ==
  ASSUME OperationInv, NumbersInv, [Next]_vars, NEW d \in Database
  PROVE  [Kept(d)!Next]_(Kept(d)!vars)
<1>1. CASE UNCHANGED <<archives, dumps>>
  BY <1>1, CatalogueRests
<1>2. ASSUME NEW o \in Operation, BeginDump(o)
      PROVE  [Kept(d)!Next]_(Kept(d)!vars)
  <2>1. archives' = archives /\ dumps' = dumps + 1 /\ dumps \in Nat
    BY <1>2 DEF BeginDump, OperationInv, TypeOK
  <2>2. BackupsOf(d)' = BackupsOf(d) /\ dumps' > dumps
    BY <2>1 DEF BackupsOf
  <2> QED
    BY <2>2 DEF Kept!Next, Kept!Pass
<1>3. ASSUME NEW o \in Operation, CommitDump(o)
      PROVE  [Kept(d)!Next]_(Kept(d)!vars)
  BY <1>3, CatalogueCommits
<1>4. ASSUME NEW o \in Operation, EndBackup(o)
      PROVE  [Kept(d)!Next]_(Kept(d)!vars)
  <2>1. op[o].on \in Database /\ dumps' = dumps
    BY <1>4 DEF EndBackup, OperationInv, Good, WellFormed
  <2>2. PICK removed \in SUBSET Expired(op[o].on) : archives' = archives \ removed
    BY <1>4 DEF EndBackup
  <2> QED
    BY <2>1, <2>2, CatalogueRetains
<1>5. ASSUME NEW e \in Database, Prune(e)
      PROVE  [Kept(d)!Next]_(Kept(d)!vars)
  <2>1. PICK b \in Expired(e) : archives' = archives \ {b}
    BY <1>5 DEF Prune
  <2>2. {b} \in SUBSET Expired(e) /\ dumps' = dumps
    BY <1>5 DEF Prune
  <2> QED
    BY <2>1, <2>2, CatalogueRetains
<1>6. ASSUME NEW o \in Operation, Work(o) \/ Admit(o) \/ LeaveQueue(o)
      PROVE  [Kept(d)!Next]_(Kept(d)!vars)
  BY <1>1, <1>2, <1>3, <1>4, <1>6
     DEF Work, ServiceStep, ToolStep, Admit, ResolveBackup, VerifyArchive, CheckTarget, EnsureSpace, BeginRestore,
         LeaveQueue, FailDump, Prepare, CreateDatabase, OpenArchive, RestoreEnds, SetOwner,
         unchangedData
<1>7. ASSUME NEW o \in Operation, NEW p \in Process, NEW r \in Request, Call(o, p, r)
      PROVE  [Kept(d)!Next]_(Kept(d)!vars)
  BY <1>1, <1>7 DEF Call, unchangedData
<1>8. ASSUME NEW p \in Process, Die(p)
      PROVE  [Kept(d)!Next]_(Kept(d)!vars)
  BY <1>1, <1>8 DEF Die, unchangedData
<1>9. ASSUME NEW e \in Database, UserWrites(e) \/ UserDrops(e)
      PROVE  [Kept(d)!Next]_(Kept(d)!vars)
  BY <1>1, <1>9 DEF UserWrites, UserDrops
<1>10. CASE UNCHANGED vars
  BY <1>1, <1>10 DEF vars
<1> QED
  BY <1>5, <1>6, <1>7, <1>8, <1>9, <1>10 DEF Next

\* The operations see the catalogue that the directory of BackupStore implements: whatever
\* backups, restores, clones, prunes and deaths there are, in each database's catalogue
\* sound archives appear under fresh numbers and go only when expired (CataloguesSpec).
THEOREM CataloguesAreKept == Spec => CataloguesSpec
<1>1. Init => NumbersInv /\ \A d \in Database : Kept(d)!Init
  <2> SUFFICES ASSUME Init
               PROVE  NumbersInv /\ \A d \in Database : Kept(d)!Init
    OBVIOUS
  <2>1. \A a \in archives : a.began = 0 /\ a.holds = "whole" /\ a = [db |-> a.db, began |-> 0, holds |-> "whole"]
    BY DEF Init
  <2>2. NumbersInv
    BY <2>1 DEF Init, NumbersInv, Making, NewOp
  <2>3. ASSUME NEW d \in Database
        PROVE  Kept(d)!Init
    <3>1. \A h \in BackupsOf(d) : h = [name |-> 0, content |-> "whole"]
      BY <2>1 DEF BackupsOf
    <3> QED
      BY <3>1 DEF Init, Kept!Init
  <2> QED
    BY <2>2, <2>3
<1>2. OperationInv /\ NumbersInv /\ [Next]_vars =>
        \A d \in Database : [Kept(d)!Next]_(Kept(d)!vars)
  BY CatalogueStep
<1>3. Spec => []OperationInv
  BY OperationInvariant
<1> QED
  BY <1>1, <1>2, <1>3, NumbersStep, PTL DEF Spec, CataloguesSpec

-----------------------------------------------------------------------------
(* The queue of each process. *)

LEMMA SameCountInQueue == \A p, S : Queue(p)!Cardinality(S) = Cardinality(S)
  BY DEF Cardinality, Queue!Cardinality

\* The executor's calls at work are the operations that hold places.
LEMMA QueueRunning ==
  ASSUME NEW p
  PROVE  /\ Queue(p)!Running = AtWork(p)
         /\ \A o \in Operation : QueuePhase(o, p) # "out" =>
              Queue(p)!RunningOn(JobDatabase(o)) =
                {x \in AtWork(p) : JobDatabase(x) = JobDatabase(o)}
<1>1. \A x \in Operation : QueuePhase(x, p) = "running" <=> x \in AtWork(p)
  BY DEF QueuePhase
<1>2. Queue(p)!Running = AtWork(p)
  BY <1>1 DEF Queue!Running, AtWork
<1>3. \A x \in AtWork(p) : x \in Operation /\ QueuePhase(x, p) = "running"
  BY <1>1 DEF AtWork
<1> QED
  BY <1>2, <1>3 DEF Queue!RunningOn

\* What an operation may do as a call of the queue of process p.
Rests(o, p) == /\ QueuePhase(o, p)' = QueuePhase(o, p)
               /\ QueuePhase(o, p) # "out" => JobDatabase(o)' = JobDatabase(o)
Comes(o, p) == /\ QueuePhase(o, p) = "out" /\ QueuePhase(o, p)' = "waiting"
               /\ JobDatabase(o)' \in Database
Begins(o, p) == /\ QueuePhase(o, p) = "waiting" /\ QueuePhase(o, p)' = "running"
                /\ op[o].host = p /\ Admitted(o) /\ JobDatabase(o)' = JobDatabase(o)
Goes(o, p) == QueuePhase(o, p) # "out" /\ QueuePhase(o, p)' = "out"

LEMMA CallMoves ==
  ASSUME NEW p \in Process, NEW o \in Operation, \A x \in Operation : x # o => op'[x] = op[x],
         Rests(o, p) \/ Comes(o, p) \/ Begins(o, p) \/ Goes(o, p)
  PROVE  [Queue(p)!Next]_(Queue(p)!vars)
<1> DEFINE ph == [x \in Operation |-> QueuePhase(x, p)]
           on == [x \in Operation |-> IF QueuePhase(x, p) = "out" THEN None ELSE JobDatabase(x)]
<1>1. \A x \in Operation : x # o => /\ QueuePhase(x, p)' = QueuePhase(x, p)
                                    /\ JobDatabase(x)' = JobDatabase(x)
  BY DEF QueuePhase, AtWork, JobDatabase
<1>2. QueuePhase(o, p) \in {"out", "waiting", "running"}
  BY DEF QueuePhase
<1>3. CASE Rests(o, p)
  <2>1. ph' = ph /\ on' = on
    BY <1>1, <1>3 DEF Rests
  <2> QED
    BY <2>1 DEF Queue!vars
<1>4. CASE Comes(o, p)
  <2>1. /\ ph[o] = "out" /\ ph' = [ph EXCEPT ![o] = "waiting"]
        /\ on' = [on EXCEPT ![o] = JobDatabase(o)']
    BY <1>1, <1>4 DEF Comes
  <2> QED
    BY <1>4, <2>1 DEF Comes, Queue!Next, Queue!Arrive
<1>5. CASE Goes(o, p)
  <2>1. /\ ph[o] \in {"waiting", "running"} /\ ph' = [ph EXCEPT ![o] = "out"]
        /\ on' = [on EXCEPT ![o] = None]
    BY <1>1, <1>2, <1>5 DEF Goes
  <2> QED
    BY <2>1 DEF Queue!Next, Queue!Leave
<1>6. CASE Begins(o, p)
  <2>1. /\ ph[o] = "waiting" /\ ph' = [ph EXCEPT ![o] = "running"]
        /\ on' = on /\ on[o] = JobDatabase(o)
    BY <1>1, <1>6 DEF Begins
  <2>2. /\ Cardinality(Queue(p)!Running) < Parallel
        /\ Cardinality(Queue(p)!RunningOn(on[o])) < PerDB
    BY <1>6, <2>1, QueueRunning DEF Begins, Admitted
  <2> QED
    BY <2>1, <2>2, SameCountInQueue DEF Queue!Next, Queue!Admit
<1> QED
  BY <1>3, <1>4, <1>5, <1>6

\* Where an operation has no call in a queue.
Outside == {"new", "resolve", "verify", "check", "space", "space2", "ended"}

\* An operation that comes to be outside, and one that goes on with its job.
LEMMA OutsideMoves ==
  ASSUME NEW p \in Process, NEW o \in Operation, op'[o].at \in Outside
  PROVE  Rests(o, p) \/ Goes(o, p)
<1>1. QueuePhase(o, p)' = "out"
  BY DEF QueuePhase, AtWork, HoldsPlace, Outside
<1> QED
  BY <1>1 DEF Rests, Goes

LEMMA WorkMoves ==
  ASSUME NEW p \in Process, NEW o \in Operation,
         op[o].at \in HoldsPlace, op'[o].at \in HoldsPlace,
         op'[o].host = op[o].host, JobDatabase(o)' = JobDatabase(o)
  PROVE  Rests(o, p)
BY DEF Rests, QueuePhase, AtWork, HoldsPlace

LEMMA AdmitMoves ==
  ASSUME NEW p \in Process, NEW o \in Operation, Admitted(o),
         op[o].at \in {"queued", "queued2"}, op'[o].at \in HoldsPlace,
         op'[o].host = op[o].host, JobDatabase(o)' = JobDatabase(o)
  PROVE  Rests(o, p) \/ Begins(o, p)
BY DEF Rests, Begins, QueuePhase, AtWork, HoldsPlace

LEMMA ArrivalMoves ==
  ASSUME NEW p \in Process, NEW o \in Operation,
         op[o].at \in Outside, op'[o].at \in {"queued", "queued2"},
         op'[o].host = op[o].host, JobDatabase(o)' \in Database
  PROVE  Rests(o, p) \/ Comes(o, p)
BY DEF Rests, Comes, QueuePhase, AtWork, HoldsPlace, Outside

LEMMA QueueStep ==
  ASSUME OperationInv, [Next]_vars, NEW p \in Process
  PROVE  [Queue(p)!Next]_(Queue(p)!vars)
<1>t. /\ op \in [Operation -> OpRecord]
      /\ \A o \in Operation : WellFormed(op[o])
  BY DEF OperationInv, TypeOK, Good
<1>e. \A o \in Operation : \A result : Ended(o, result).at = "ended"
  BY DEF Ended, NewOp
<1>1. ASSUME NEW o \in Operation, NEW q \in Process, NEW r \in Request, Call(o, q, r)
      PROVE  [Queue(p)!Next]_(Queue(p)!vars)
  <2>1. op'[o].at \in Outside /\ \A x \in Operation : x # o => op'[x] = op[x]
    BY <1>1, <1>t DEF Call, Outside, OpRecord
  <2> QED
    BY <2>1, OutsideMoves, CallMoves
<1>2. ASSUME NEW o \in Operation, Work(o) \/ Admit(o) \/ LeaveQueue(o)
      PROVE  [Queue(p)!Next]_(Queue(p)!vars)
  <2>1. ASSUME \A x \in Operation : x # o => op'[x] = op[x], op'[o].at \in Outside
        PROVE  [Queue(p)!Next]_(Queue(p)!vars)
    BY <2>1, OutsideMoves, CallMoves
  <2>2. ASSUME NEW result, End(o, result)
        PROVE  [Queue(p)!Next]_(Queue(p)!vars)
    BY <1>e, <1>t, <2>1, <2>2 DEF End, Outside
  <2>3. ASSUME NEW l, Goto(o, l)
        PROVE  /\ \A x \in Operation : x # o => op'[x] = op[x]
               /\ op'[o].at = l /\ op'[o].host = op[o].host
               /\ op'[o].on = op[o].on /\ op'[o].backup = op[o].backup
    BY <1>t, <2>3 DEF Goto, OpRecord
  <2>4. CASE ResolveBackup(o)
    BY <1>t, <2>1, <2>2, <2>4 DEF ResolveBackup, Outside, OpRecord
  <2>5. CASE VerifyArchive(o)
    BY <2>1, <2>2, <2>3, <2>5 DEF VerifyArchive, Outside
  <2>6. CASE CheckTarget(o)
    <3>1. CASE op' = [op EXCEPT ![o].at = IF AutoBackup /\ db[op[o].on] # "absent"
                                          THEN "space" ELSE "space2",
                                ![o].existed = IF db[op[o].on] # "absent" THEN "yes" ELSE "no"]
      BY <1>t, <2>1, <3>1 DEF Outside, OpRecord
    <3> QED
      BY <2>1, <2>2, <2>3, <2>6, <3>1 DEF CheckTarget, Outside
  <2>7. CASE EnsureSpace(o)
    <3>1. CASE Goto(o, IF op[o].at = "space" THEN "queued" ELSE "queued2")
      <4>1. JobDatabase(o)' \in Database
        BY <1>t, <2>3, <2>7, <3>1 DEF EnsureSpace, WellFormed, OnlyRestores, JobDatabase, Archive
      <4> QED
        BY <2>3, <2>7, <3>1, <4>1, ArrivalMoves, CallMoves DEF EnsureSpace, Outside
    <3> QED
      BY <2>2, <2>7, <3>1 DEF EnsureSpace
  <2>8. CASE BeginDump(o)
    <3>1. /\ \A x \in Operation : x # o => op'[x] = op[x]
          /\ op'[o].at = "dumping" /\ op'[o].host = op[o].host /\ op'[o].on = op[o].on
      BY <1>t, <2>8 DEF BeginDump, OpRecord
    <3>2. JobDatabase(o)' = JobDatabase(o)
      BY <2>8, <3>1 DEF BeginDump, JobDatabase
    <3> QED
      BY <2>8, <3>1, <3>2, AdmitMoves, CallMoves DEF BeginDump, HoldsPlace
  <2>9. CASE BeginRestore(o)
    <3>1. JobDatabase(o)' = JobDatabase(o)
      BY <2>3, <2>9 DEF BeginRestore, JobDatabase
    <3> QED
      BY <2>3, <2>9, <3>1, AdmitMoves, CallMoves DEF BeginRestore, HoldsPlace
  <2>10. CASE LeaveQueue(o) \/ FailDump(o) \/ SetOwner(o)
    BY <2>2, <2>10 DEF LeaveQueue, FailDump, SetOwner
  <2>11. CASE CommitDump(o)
    <3>1. CASE op' = [op EXCEPT ![o].at = "retention", ![o].changed = "catalogue"]
      <4>1. /\ \A x \in Operation : x # o => op'[x] = op[x]
            /\ op'[o].at = "retention" /\ op'[o].host = op[o].host /\ op'[o].on = op[o].on
        BY <1>t, <3>1 DEF OpRecord
      <4>2. JobDatabase(o)' = JobDatabase(o)
        BY <2>11, <4>1 DEF CommitDump, JobDatabase
      <4> QED
        BY <2>11, <4>1, <4>2, WorkMoves, CallMoves DEF CommitDump, HoldsPlace
    <3>2. CASE op' = [op EXCEPT ![o] = [Ended(o, "failed") EXCEPT !.changed = "catalogue"]]
      <4> DEFINE ended == [Ended(o, "failed") EXCEPT !.changed = "catalogue"]
      <4>1. ended.at = "ended"
        BY DEF Ended, NewOp
      <4> HIDE DEF ended
      <4>2. op' = [op EXCEPT ![o] = ended]
        BY <3>2 DEF ended
      <4> QED
        BY <1>t, <2>1, <4>1, <4>2 DEF Outside
    <3> QED
      BY <2>11, <3>1, <3>2 DEF CommitDump
  <2>12. CASE EndBackup(o)
    BY <2>1, <2>2, <2>3, <2>12 DEF EndBackup, Outside
  <2>13. CASE Prepare(o) \/ CreateDatabase(o) \/ OpenArchive(o) \/ RestoreEnds(o)
    <3>1. CASE \E result : End(o, result)
      BY <2>2, <3>1
    <3>2. CASE ~ \E result : End(o, result)
      <4>1. /\ \A x \in Operation : x # o => op'[x] = op[x]
            /\ op[o].at \in {"prepare", "create", "open", "restoring"}
            /\ op'[o].at \in {"create", "open", "restoring", "owner"}
            /\ op'[o].host = op[o].host /\ op'[o].backup = op[o].backup
        BY <1>t, <2>3, <2>13, <3>2
           DEF Prepare, CreateDatabase, OpenArchive, RestoreEnds, OpRecord
      <4>2. JobDatabase(o)' = JobDatabase(o)
        BY <4>1 DEF JobDatabase
      <4> QED
        BY <4>1, <4>2, WorkMoves, CallMoves DEF HoldsPlace
    <3> QED
      BY <3>1, <3>2
  <2> QED
    BY <1>2, <2>4, <2>5, <2>6, <2>7, <2>8, <2>9, <2>10, <2>11, <2>12, <2>13 DEF Work, ServiceStep, ToolStep, Admit
<1>3. ASSUME NEW q \in Process, Die(q)
      PROVE  [Queue(p)!Next]_(Queue(p)!vars)
  <2>1. \A o \in Operation : op'[o] = IF op[o].host = q /\ Running(o) THEN Ended(o, "died") ELSE op[o]
    BY <1>3 DEF Die
  <2>2. CASE q = p
    <3>1. \A o \in Operation : QueuePhase(o, p)' = "out"
      BY <1>e, <2>1, <2>2 DEF QueuePhase, AtWork, HoldsPlace, Running
    <3> QED
      BY <3>1 DEF Queue!Next, Queue!Stop, Queue!Init
  <2>3. CASE q # p
    <3>1. \A o \in Operation : QueuePhase(o, p)' = QueuePhase(o, p)
      BY <1>e, <2>1, <2>3 DEF QueuePhase, AtWork, HoldsPlace, Running, Ended, NewOp
    <3>2. \A o \in Operation : QueuePhase(o, p) # "out" => JobDatabase(o)' = JobDatabase(o)
      BY <2>1, <2>3 DEF QueuePhase, AtWork, JobDatabase
    <3> QED
      BY <3>1, <3>2 DEF Queue!vars
  <2> QED
    BY <2>2, <2>3
<1>4. CASE op' = op
  BY <1>4 DEF Queue!vars, QueuePhase, AtWork, JobDatabase
<1> QED
  BY <1>1, <1>2, <1>3, <1>4 DEF Next, Prune, UserWrites, UserDrops, vars

\* The operations use the queue of their process as its callers may: each is a call at a
\* time, under one database, and is admitted as the abstract executor admits (QueuesSpec).
THEOREM QueuesAreExecutors == Spec => QueuesSpec
<1>1. Init => \A p \in Process : Queue(p)!Init
  BY DEF Init, NewOp, Queue!Init, QueuePhase, AtWork, HoldsPlace
<1>2. OperationInv /\ [Next]_vars => \A p \in Process : [Queue(p)!Next]_(Queue(p)!vars)
  BY QueueStep
<1> QED
  BY <1>1, <1>2, OperationInvariant, PTL DEF Spec, QueuesSpec
=============================================================================
