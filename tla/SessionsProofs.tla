-------------------------- MODULE SessionsProofs ----------------------------
(***************************************************************************)
(* Proofs about Sessions, for any number of clients, logins and sessions,  *)
(* and every choice of the durations that New accepts.                     *)
(***************************************************************************)
EXTENDS Sessions, FiniteSetTheorems, WellFoundedInduction, TLAPS

Where == {"outside", "called", "verifying", "failed", "passed", "issuing"}

\* The inductive invariant: the map holds identifiers that were given out, and an attempt was
\* called in the past.  Were it called in the future, NewSession would drop sessions that
\* are alive.
LoginInv ==
  /\ clock \in Nat
  /\ used \subseteq Session
  /\ DOMAIN sessions \subseteq used
  /\ sessions \in [DOMAIN sessions -> Nat]
  /\ attempt \in [Client -> [at : Where, login : Login \cup {"none"}, now : Nat]]
  /\ \A c \in Client : attempt[c].now <= clock

LEMMA LoginInitInv == SessionsInit => LoginInv
  BY DEF SessionsInit, LoginInv, Outside, Where

\* Login moves, and leaves the sessions alone.
LEMMA AttemptMoves ==
  ASSUME LoginInv, NEW c \in Client,
         LeavesLogin(c) \/ \E place \in Where : Goes(c, place),
         UNCHANGED <<clock, used, sessions>>
  PROVE  LoginInv'
  BY DEF LoginInv, LeavesLogin, Goes, Outside, Where

\* Sessions leave the map.
LEMMA MapShrinks ==
  ASSUME LoginInv, NEW S, Remove(S), UNCHANGED <<clock, used, attempt>>
  PROVE  LoginInv'
  BY DEF LoginInv, Remove

LEMMA LoginStepInv == LoginInv /\ [SessionsNext]_sessionVars => LoginInv'
<1> SUFFICES ASSUME LoginInv, [SessionsNext]_sessionVars
             PROVE  LoginInv'
  OBVIOUS
<1>1. ASSUME NEW c \in Client, NEW l \in Login, CallLogin(c, l)
      PROVE  LoginInv'
  BY <1>1 DEF CallLogin, LoginInv, Where
<1>2. ASSUME NEW c \in Client, LoginStep(c)
      PROVE  LoginInv'
  <2>1. CASE CheckLock(c)
    BY <2>1, AttemptMoves DEF CheckLock, Where
  <2>2. CASE VerifyPassword(c)
    BY <2>2, AttemptMoves DEF VerifyPassword, Where
  <2>3. CASE RegisterFailure(c)
    BY <2>3, AttemptMoves DEF RegisterFailure, Where
  <2>4. CASE ForgetFailures(c)
    BY <2>4, AttemptMoves DEF ForgetFailures, Where
  <2>5. ASSUME NEW s \in Session, NewSession(c, s)
        PROVE  LoginInv'
    BY <2>5, AuthAssumption DEF NewSession, LeavesLogin, Outside, LoginInv, Where
  <2>6. CASE NoRandomness(c)
    BY <2>6, AttemptMoves DEF NoRandomness, Where
  <2>7. QED
    BY <1>2, <2>1, <2>2, <2>3, <2>4, <2>5, <2>6 DEF LoginStep
<1>3. ASSUME NEW s \in used, FindSession(s) \/ Logout(s)
      PROVE  LoginInv'
  BY <1>3, MapShrinks DEF FindSession, Logout
<1>4. CASE CountSessions
  BY <1>4, MapShrinks DEF CountSessions
<1>5. CASE Tick
  BY <1>5 DEF Tick, LoginInv
<1>6. CASE UNCHANGED sessionVars
  BY <1>6 DEF sessionVars, LoginInv
<1>7. QED
  BY <1>1, <1>2, <1>3, <1>4, <1>5, <1>6 DEF SessionsNext

-----------------------------------------------------------------------------
(* The refinement. *)

\* A step that lets sessions leave the map or time pass ends some of them.
LEMMA SomeEnd ==
  ASSUME LoginInv, used' = used, clock' \in Nat, clock <= clock',
         DOMAIN sessions' \subseteq DOMAIN sessions,
         \A s \in DOMAIN sessions' : sessions'[s] = sessions[s]
  PROVE  \E S \in SUBSET Session : Life!End(S)
<1> DEFINE S == {s \in Session : lifeOf[s] # lifeOf'[s]}
<1>1. ASSUME NEW s \in S
      PROVE  lifeOf[s] = "alive" /\ lifeOf'[s] = "dead"
  BY <1>1 DEF lifeOf, LoginInv, Valid
<1>2. Life!End(S)
  BY <1>1 DEF lifeOf, Life!End, Life!Alive
<1>3. S \in SUBSET Session
  OBVIOUS
<1> HIDE DEF S
<1>4. QED
  BY <1>2, <1>3

\* A new session is born; it drops only sessions that are not alive any more, for
\* the time of its login has passed.
LEMMA OneOpens ==
  ASSUME LoginInv, NEW c \in Client, NEW s \in Session, NewSession(c, s)
  PROVE  Life!Open(s)
<1>1. attempt[c].now \in Nat /\ attempt[c].now <= clock /\ clock \in Nat
  BY DEF LoginInv
<1>2. lifeOf[s] = "unborn" /\ lifeOf'[s] \in {"alive", "dead"}
  BY DEF NewSession, lifeOf
<1>3. ASSUME NEW e \in Session, e # s
      PROVE  lifeOf'[e] = lifeOf[e]
  BY <1>1, <1>3 DEF NewSession, lifeOf, LoginInv, Valid
<1>4. lifeOf' = [lifeOf EXCEPT ![s] = lifeOf'[s]]
  BY <1>3 DEF lifeOf
<1>5. QED
  BY <1>2, <1>4 DEF lifeOf, Life!Open

LEMMA LifeStep == LoginInv /\ LoginInv' /\ [SessionsNext]_sessionVars => Life!LifeNext \/ lifeOf' = lifeOf
<1> SUFFICES ASSUME LoginInv, LoginInv', [SessionsNext]_sessionVars
             PROVE  Life!LifeNext \/ lifeOf' = lifeOf
  OBVIOUS
<1>1. CASE UNCHANGED <<clock, used, sessions>>
  BY <1>1 DEF lifeOf, Valid
<1>2. ASSUME NEW c \in Client, NEW s \in Session, NewSession(c, s)
      PROVE  Life!LifeNext
  BY <1>2, OneOpens DEF Life!LifeNext
<1>3. ASSUME NEW S, Remove(S), UNCHANGED <<clock, used>>
      PROVE  Life!LifeNext
  BY <1>3, SomeEnd DEF Remove, LoginInv, Life!LifeNext
<1>4. CASE Tick
  BY <1>4, SomeEnd DEF Tick, LoginInv, Life!LifeNext
<1>5. QED
  BY <1>1, <1>2, <1>3, <1>4
     DEF SessionsNext, LoginStep, CallLogin, CheckLock, VerifyPassword, RegisterFailure,
         ForgetFailures, NoRandomness, FindSession, Logout, CountSessions, sessionVars

\* The sessions of the web interface implement SessionLife: a session that was closed or has
\* passed its time never lives again, in whatever order logins, uses, logouts and counts
\* take the mutex, and however slow a login is (SessionsLiveOnce).
THEOREM SessionsImplementLife == SessionsSpec => SessionsLiveOnce
<1>1. SessionsInit => Life!LifeInit
  BY DEF SessionsInit, Life!LifeInit, lifeOf
<1>2. LoginInv /\ LoginInv' /\ [SessionsNext]_sessionVars => [Life!LifeNext]_lifeOf
  BY LifeStep
<1>3. SessionsSpec => []LoginInv
  BY LoginInitInv, LoginStepInv, PTL DEF SessionsSpec
<1>4. QED
  BY <1>1, <1>2, <1>3, PTL DEF SessionsSpec, SessionsLiveOnce, Life!LifeSpec
-----------------------------------------------------------------------------
(* The pause after a failure, a recursive function of the number of failures. *)

\* A set of natural numbers that is not empty has a least member.
LEMMA LeastNumber ==
  ASSUME NEW T \in SUBSET Nat, T # {}
  PROVE  \E x \in T : \A y \in T : x <= y
<1>1. PICK x \in T : \A y \in T : <<y, x>> \notin OpToRel(<, Nat)
  BY WFMin, NatLessThanWellFounded, Zenon
<1>2. \A y \in T : ~(y < x)
  BY <1>1 DEF OpToRel
<1> QED
  BY <1>2

\* One round of the loop in registerFailure.
Doubling(g, n) == IF n <= 1 THEN LoginBackoff
                  ELSE IF g[n-1] < MaxBackoff THEN 2 * g[n-1] ELSE g[n-1]

\* The loop up to n.
Doubled(n) == {h \in [0 .. n -> Nat] : \A i \in 0 .. n : h[i] = Doubling(h, i)}

LEMMA DoubledExists == \A n \in Nat : Doubled(n) # {}
<1> DEFINE Bad == {n \in Nat : Doubled(n) = {}}
<1> SUFFICES ASSUME Bad # {} PROVE FALSE
  OBVIOUS
<1>1. PICK m \in Bad : \A y \in Bad : m <= y
  BY LeastNumber
<1>2. CASE m = 0
  <2>1. [i \in 0 .. 0 |-> LoginBackoff] \in Doubled(0)
    BY AuthAssumption DEF Doubled, Doubling
  <2>2. QED
    BY <1>2, <2>1
<1>3. CASE m # 0
  <2>1. m - 1 \in Nat /\ m - 1 \notin Bad
    BY <1>1, <1>3
  <2>2. PICK h \in [0 .. m-1 -> Nat] : \A i \in 0 .. m-1 : h[i] = Doubling(h, i)
    BY <2>1 DEF Doubled
  <2> DEFINE g == [i \in 0 .. m |-> IF i = m THEN Doubling(h, m) ELSE h[i]]
  <2>3. Doubling(h, m) \in Nat
    BY <2>1, <2>2, AuthAssumption DEF Doubling
  <2>4. g \in [0 .. m -> Nat]
    BY <2>2, <2>3
  <2>5. \A i \in 0 .. m : Doubling(g, i) = Doubling(h, i)
    BY <2>1 DEF Doubling
  <2>6. \A i \in 0 .. m : g[i] = Doubling(g, i)
    BY <2>2, <2>5
  <2>7. g \in Doubled(m)
    BY <2>4, <2>6 DEF Doubled
  <2>8. QED
    BY <2>7
<1>4. QED
  BY <1>2, <1>3

LEMMA DoubledAgree ==
  ASSUME NEW m \in Nat, NEW n \in Nat, NEW g \in Doubled(m), NEW h \in Doubled(n),
         NEW i \in Nat, i <= m, i <= n
  PROVE  g[i] = h[i]
<1> DEFINE Bad == {j \in Nat : j <= m /\ j <= n /\ g[j] # h[j]}
<1> SUFFICES ASSUME Bad # {} PROVE FALSE
  OBVIOUS
<1>1. PICK j \in Bad : \A y \in Bad : j <= y
  BY LeastNumber
<1>2. g[j] = Doubling(g, j) /\ h[j] = Doubling(h, j)
  BY DEF Doubled
<1>3. j > 1 => g[j-1] = h[j-1]
  BY <1>1
<1>4. QED
  BY <1>2, <1>3 DEF Doubling

\* The recursive function of Pause exists and gives numbers.
LEMMA DoublingType ==
  ASSUME NEW d, d = CHOOSE f : f = [n \in Nat |-> Doubling(f, n)]
  PROVE  d \in [Nat -> Nat]
<1> DEFINE F == [n \in Nat |-> (CHOOSE h : h \in Doubled(n))[n]]
<1>1. \A n \in Nat : (CHOOSE h : h \in Doubled(n)) \in Doubled(n)
  BY DoubledExists
<1>2. ASSUME NEW n \in Nat PROVE F[n] = Doubling(F, n)
  <2> DEFINE h == CHOOSE g : g \in Doubled(n)
  <2>1. h \in Doubled(n) /\ F[n] = h[n]
    BY <1>1
  <2> HIDE DEF h
  <2>2. F[n] = Doubling(h, n)
    BY <2>1 DEF Doubled
  <2>3. CASE n <= 1
    BY <2>2, <2>3 DEF Doubling
  <2>4. CASE n > 1
    <3>1. n - 1 \in Nat
      BY <2>4
    <3> DEFINE p == CHOOSE g : g \in Doubled(n - 1)
    <3>2. p \in Doubled(n - 1)
      BY <1>1, <3>1
    <3>3. p[n-1] = h[n-1]
      BY <2>1, <3>1, <3>2, DoubledAgree
    <3>4. F[n-1] = p[n-1]
      BY <3>1
    <3> HIDE DEF p
    <3>5. Doubling(F, n) = Doubling(h, n)
      BY <2>4, <3>3, <3>4 DEF Doubling
    <3>6. QED
      BY <2>2, <3>5
  <2>5. QED
    BY <2>3, <2>4
<1>3. F = [n \in Nat |-> Doubling(F, n)]
  BY <1>2
<1> HIDE DEF F
<1>4. d = [n \in Nat |-> Doubling(d, n)]
  BY <1>3, Zenon
<1>5. ASSUME {n \in Nat : d[n] \notin Nat} # {} PROVE FALSE
  <2>1. PICK m \in {n \in Nat : d[n] \notin Nat} : \A y \in {n \in Nat : d[n] \notin Nat} : m <= y
    BY <1>5, LeastNumber
  <2>2. m > 1 => d[m-1] \in Nat
    BY <2>1
  <2>3. d[m] = Doubling(d, m)
    BY <1>4
  <2>4. QED
    BY <2>2, <2>3, AuthAssumption DEF Doubling
<1>6. QED
  BY <1>4, <1>5

LEMMA PauseType ==
  ASSUME NEW count \in Nat
  PROVE  Pause(count) \in Nat
<1> DEFINE d == CHOOSE f : f = [n \in Nat |-> Doubling(f, n)]
<1>1. d \in [Nat -> Nat]
  BY DoublingType
<1>2. Pause(count) = IF count >= MaxLoginAttempts THEN LockoutDuration
                     ELSE IF d[count] > MaxBackoff THEN MaxBackoff ELSE d[count]
  BY Zenon DEF Pause, Doubling
<1> HIDE DEF d
<1>3. QED
  BY <1>1, <1>2, AuthAssumption
-----------------------------------------------------------------------------
(* The number of guesses. *)

\* How many failures of a login have been counted since its last success.
Count(l) == failures[l].count

\* What is known of the failures: each is counted, and the order in which they are counted
\* is nearly that of their calls, since nobody stays in Login for more than Slowest.
TriesCounted == tries \in [Login -> Seq(Nat)] /\ \A l \in Login : Len(tries[l]) = Count(l)
AttemptsRecent ==
  /\ clock \in 0 .. MaxTime
  /\ \A c \in Client : \/ attempt[c] = Outside
                       \/ /\ attempt[c].at # "outside" /\ attempt[c].login \in Login
                          /\ clock - attempt[c].now <= Slowest
FailuresInOrder ==
  /\ failures \in [Login -> [count : Nat, next : Nat]]
  /\ \A l \in Login : \A k \in 1 .. Count(l) :
       /\ tries[l][k] \in Nat /\ tries[l][k] <= clock
       /\ \A j \in 1 .. Count(l) : k <= j => tries[l][k] <= tries[l][j] + Slowest

\* From the last allowed attempt on, the last failure has locked the login.
LockHolds ==
  \A l \in Login : Count(l) >= MaxLoginAttempts =>
    failures[l].next = tries[l][Count(l)] + LockoutDuration

\* Called before the lock that failure k has set is over, as far as one can rely on it.
Near(l, k, time) == time < tries[l][k] + LockoutDuration - Slowest

\* The failures after k that were, and the attempts past the check that may become such.
Late(l, k) == {j \in k + 1 .. Count(l) : Near(l, k, tries[l][j])}
Racing(l, k) == {c \in Client : /\ attempt[c].at \in {"verifying", "failed"}
                                /\ attempt[c].login = l /\ Near(l, k, attempt[c].now)}

\* The heart of the matter: once failure k has locked the login, only the requests that were
\* past the check at that moment can add to the failures near it, and there are at
\* most as many of them as there are other clients.
RaceBounded(l, k) ==
  Cardinality(Late(l, k)) + Cardinality(Racing(l, k)) <= Cardinality(Client) - 1
FewRacing == \A l \in Login : \A k \in MaxLoginAttempts .. Count(l) : RaceBounded(l, k)

GuessInv == /\ LoginInv /\ TriesCounted /\ AttemptsRecent
            /\ FailuresInOrder /\ LockHolds /\ FewRacing

LEMMA CountsAreNumbers ==
  ASSUME NEW l, NEW k \in Nat, Count(l) \in Nat
  PROVE  /\ IsFiniteSet(Late(l, k)) /\ Cardinality(Late(l, k)) \in Nat
         /\ IsFiniteSet(Racing(l, k)) /\ Cardinality(Racing(l, k)) \in Nat
         /\ Cardinality(Client) \in Nat
<1>1. Late(l, k) \in SUBSET (k + 1 .. Count(l)) /\ Racing(l, k) \in SUBSET Client
  BY DEF Late, Racing
<1>2. IsFiniteSet(k + 1 .. Count(l))
  BY FS_Interval
<1>3. QED
  BY <1>1, <1>2, LoginAssumption, FS_Subset, FS_CardinalityType

\* A step that counts no failure of l keeps its bounds, if nobody joins the race.
LEMMA NobodyJoins ==
  ASSUME NEW l, Count(l) \in Nat, tries'[l] = tries[l], failures'[l] = failures[l],
         NEW k \in Nat, RaceBounded(l, k), Racing(l, k)' \subseteq Racing(l, k)
  PROVE  RaceBounded(l, k)'
<1>1. Late(l, k)' = Late(l, k)
  BY DEF Late, Near, Count
<1>2. Cardinality(Racing(l, k)') <= Cardinality(Racing(l, k)) /\ Cardinality(Racing(l, k)') \in Nat
  BY CountsAreNumbers, FS_Subset, FS_CardinalityType
<1>3. QED
  BY <1>1, <1>2, CountsAreNumbers DEF RaceBounded

\* A client in Login as it is after one of its moves.
LEMMA ClientMoves ==
  ASSUME LoginInv, NEW c \in Client
  PROVE  /\ \A place : Goes(c, place) =>
              /\ attempt'[c] = [at |-> place, login |-> attempt[c].login, now |-> attempt[c].now]
              /\ \A other \in Client \ {c} : attempt'[other] = attempt[other]
         /\ LeavesLogin(c) =>
              /\ attempt'[c] = Outside
              /\ \A other \in Client \ {c} : attempt'[other] = attempt[other]
  BY DEF LoginInv, Goes, LeavesLogin

\* A move that counts no failure keeps all the rest, unless somebody joins the race.
LEMMA NoFailureCounted ==
  ASSUME GuessInv, LoginInv', UNCHANGED <<failures, tries>>, clock' \in clock .. MaxTime,
         AttemptsRecent',
         \A l \in Login : \A k \in MaxLoginAttempts .. Count(l) : Racing(l, k)' \subseteq Racing(l, k)
  PROVE  GuessInv'
<1>1. TriesCounted' /\ LockHolds'
  BY DEF GuessInv, TriesCounted, LockHolds, Count
<1>2. FailuresInOrder'
  <2>1. clock \in Nat /\ clock' \in Nat /\ clock <= clock'
    BY DEF GuessInv, AttemptsRecent
  <2>2. QED
    BY <2>1 DEF GuessInv, FailuresInOrder, Count
<1>3. FewRacing'
  <2> SUFFICES ASSUME NEW l \in Login, NEW k \in MaxLoginAttempts .. Count(l)'
               PROVE  RaceBounded(l, k)'
    BY DEF FewRacing
  <2>1. Count(l)' = Count(l) /\ Count(l) \in Nat
    BY DEF Count, GuessInv, FailuresInOrder
  <2>2. k \in MaxLoginAttempts .. Count(l) /\ k \in Nat
    BY <2>1, AuthAssumption
  <2>3. QED
    BY <2>1, <2>2, NobodyJoins DEF GuessInv, FewRacing
<1>4. QED
  BY <1>1, <1>2, <1>3 DEF GuessInv

\* checkLock lets nobody join who was called near a failure that has locked the login: the
\* lock runs from the last failure, which was not called much before that one.
LEMMA LockKeepsOut ==
  ASSUME GuessInv, NEW c \in Client, NEW l \in Login, attempt[c].login = l,
         attempt[c].now \in Nat, ~Locked(l, attempt[c].now),
         NEW k \in MaxLoginAttempts .. Count(l)
  PROVE  ~Near(l, k, attempt[c].now)
<1>1. Count(l) \in Nat /\ failures[l].next \in Nat
  BY DEF GuessInv, FailuresInOrder, Count
<1>2. /\ k \in Nat /\ k \in 1 .. Count(l) /\ Count(l) \in 1 .. Count(l) /\ Count(l) >= MaxLoginAttempts
      /\ k <= Count(l)
  BY <1>1, AuthAssumption
<1>3. failures[l].next = tries[l][Count(l)] + LockoutDuration
  BY <1>2 DEF GuessInv, LockHolds
<1>4. tries[l][k] \in Nat /\ tries[l][Count(l)] \in Nat /\ tries[l][k] <= tries[l][Count(l)] + Slowest
  BY <1>2 DEF GuessInv, FailuresInOrder
<1>5. attempt[c].now >= failures[l].next
  BY <1>1, <1>2 DEF Locked, Count
<1>6. QED
  BY <1>3, <1>4, <1>5, AuthAssumption DEF Near
LEMMA CheckLockKeeps ==
  ASSUME GuessInv, LoginInv', NEW c \in Client, CheckLock(c)
  PROVE  GuessInv'
<1>1. PICK l \in Login : attempt[c].login = l
  BY DEF GuessInv, AttemptsRecent, CheckLock, Outside
<1>2. /\ LoginInv /\ AttemptsRecent /\ attempt[c].now \in Nat /\ clock - attempt[c].now <= Slowest
      /\ attempt[c].at = "called" /\ UNCHANGED <<clock, failures, tries>>
  BY DEF GuessInv, LoginInv, CheckLock, AttemptsRecent, Outside
<1>3. \/ LeavesLogin(c)
      \/ ~Locked(l, attempt[c].now) /\ \E place \in {"verifying", "failed"} : Goes(c, place)
  BY <1>1 DEF CheckLock
<1>4. \/ attempt'[c] = Outside
      \/ /\ ~Locked(l, attempt[c].now)
         /\ attempt'[c].at \in {"verifying", "failed"}
         /\ attempt'[c].login = l /\ attempt'[c].now = attempt[c].now
  <2>1. CASE LeavesLogin(c)
    BY <1>2, <2>1, ClientMoves
  <2>2. ASSUME NEW place \in {"verifying", "failed"}, Goes(c, place)
        PROVE  attempt'[c].at = place /\ attempt'[c].login = l /\ attempt'[c].now = attempt[c].now
    <3>1. attempt'[c] = [at |-> place, login |-> attempt[c].login, now |-> attempt[c].now]
      BY <1>2, <2>2, ClientMoves
    <3>2. QED
      BY <1>1, <3>1
  <2>3. QED
    BY <1>3, <2>1, <2>2
<1>5. \A other \in Client \ {c} : attempt'[other] = attempt[other]
  BY <1>2, <1>3, ClientMoves
<1>6. ASSUME NEW m \in Login, NEW k \in MaxLoginAttempts .. Count(m)
      PROVE  Racing(m, k)' \subseteq Racing(m, k)
  <2>1. c \notin Racing(m, k)'
    <3>1. CASE m = l
      <4>1. ~Locked(l, attempt[c].now) => ~Near(l, k, attempt[c].now)
        BY <1>1, <1>2, <1>6, <3>1, LockKeepsOut
      <4>2. QED
        BY <1>2, <1>4, <3>1, <4>1 DEF Racing, Near, Outside
    <3>2. CASE m # l
      BY <1>4, <3>2 DEF Racing, Outside
    <3>3. QED
      BY <3>1, <3>2
  <2>2. QED
    BY <1>2, <1>5, <2>1 DEF Racing, Near
<1>7. AttemptsRecent'
  BY <1>2, <1>4, <1>5 DEF AttemptsRecent
<1>8. clock' \in clock .. MaxTime
  BY <1>2 DEF AttemptsRecent
<1>9. QED
  BY <1>2, <1>6, <1>7, <1>8, NoFailureCounted

\* registerFailure: the client leaves the race, and its failure is late for every failure that
\* it was racing with.
LEMMA FailureIsCounted ==
  ASSUME GuessInv, LoginInv', NEW c \in Client, RegisterFailure(c)
  PROVE  GuessInv'
<1>1. PICK l \in Login, now \in Nat, n \in Nat :
        attempt[c].login = l /\ attempt[c].now = now /\ Count(l) = n
  BY DEF GuessInv, AttemptsRecent, FailuresInOrder, RegisterFailure, LoginInv, Count, Outside
<1>2. /\ LoginInv /\ AttemptsRecent /\ FailuresInOrder /\ LockHolds /\ FewRacing
      /\ clock - now <= Slowest /\ now <= clock /\ clock \in Nat /\ clock' = clock
      /\ attempt[c].at = "failed"
  <2>1. attempt[c].at = "failed" /\ attempt[c] # Outside /\ clock' = clock
    BY DEF RegisterFailure, Outside
  <2>2. clock \in Nat /\ now <= clock
    BY <1>1 DEF GuessInv, LoginInv
  <2>3. clock - now <= Slowest
    BY <1>1, <2>1 DEF GuessInv, AttemptsRecent
  <2>4. QED
    BY <2>1, <2>2, <2>3 DEF GuessInv
<1>3. /\ failures'[l] = [count |-> n + 1, next |-> now + Pause(n + 1)]
      /\ tries'[l] = Append(tries[l], now)
      /\ \A m \in Login \ {l} : failures'[m] = failures[m] /\ tries'[m] = tries[m]
  BY <1>1 DEF RegisterFailure, GuessInv, FailuresInOrder, TriesCounted, Count
<1>4. tries[l] \in Seq(Nat) /\ Len(tries[l]) = n
  BY <1>1 DEF GuessInv, TriesCounted
<1>5. /\ tries'[l] \in Seq(Nat) /\ Len(tries'[l]) = n + 1
      /\ tries'[l][n + 1] = now /\ \A k \in 1 .. n : tries'[l][k] = tries[l][k]
  BY <1>3, <1>4
<1>6. Count(l)' = n + 1 /\ \A m \in Login \ {l} : Count(m)' = Count(m)
  BY <1>3 DEF Count
<1>7. Pause(n + 1) \in Nat /\ (n + 1 >= MaxLoginAttempts => Pause(n + 1) = LockoutDuration)
  BY PauseType DEF Pause
<1>8. attempt'[c] = Outside /\ \A other \in Client \ {c} : attempt'[other] = attempt[other]
  BY <1>2, ClientMoves DEF RegisterFailure
<1>9. AttemptsRecent' /\ TriesCounted'
  <2>1. AttemptsRecent'
    BY <1>2, <1>8 DEF AttemptsRecent
  <2>2. tries' \in [Login -> Seq(Nat)]
    BY <1>3, <1>5 DEF RegisterFailure, GuessInv, TriesCounted
  <2>3. \A m \in Login : Len(tries'[m]) = Count(m)'
    BY <1>3, <1>5, <1>6 DEF GuessInv, TriesCounted
  <2>4. QED
    BY <2>1, <2>2, <2>3 DEF TriesCounted
<1>10. FailuresInOrder'
  <2>1. failures' \in [Login -> [count : Nat, next : Nat]]
    BY <1>1, <1>2, <1>3, <1>7 DEF RegisterFailure, FailuresInOrder
  <2>2. ASSUME NEW k \in 1 .. n + 1
        PROVE  tries'[l][k] \in Nat /\ tries'[l][k] <= clock
    <3>1. CASE k = n + 1
      BY <1>2, <1>5, <3>1
    <3>2. CASE k \in 1 .. n
      BY <1>1, <1>2, <1>5, <3>2 DEF FailuresInOrder
    <3>3. QED
      BY <3>1, <3>2
  <2>3. ASSUME NEW k \in 1 .. n + 1, NEW j \in 1 .. n + 1, k <= j
        PROVE  tries'[l][k] <= tries'[l][j] + Slowest
    <3>1. CASE j = n + 1
      BY <1>2, <1>5, <2>2, <3>1, AuthAssumption
    <3>2. CASE j \in 1 .. n
      <4>1. k \in 1 .. n
        BY <2>3, <3>2
      <4>2. QED
        BY <1>1, <1>2, <1>5, <2>3, <3>2, <4>1 DEF FailuresInOrder
    <3>3. QED
      BY <3>1, <3>2
  <2>4. ASSUME NEW m \in Login \ {l}, NEW k \in 1 .. Count(m)'
        PROVE  /\ tries'[m][k] \in Nat /\ tries'[m][k] <= clock'
               /\ \A j \in 1 .. Count(m)' : k <= j => tries'[m][k] <= tries'[m][j] + Slowest
    BY <1>2, <1>3, <1>6, <2>4 DEF FailuresInOrder
  <2>5. QED
    BY <1>2, <1>6, <2>1, <2>2, <2>3, <2>4 DEF FailuresInOrder
<1>11. LockHolds'
  <2>1. n + 1 >= MaxLoginAttempts => failures'[l].next = tries'[l][n + 1] + LockoutDuration
    BY <1>3, <1>5, <1>7
  <2>2. QED
    BY <1>2, <1>3, <1>6, <2>1 DEF LockHolds
<1>12. ASSUME NEW m \in Login, NEW k \in MaxLoginAttempts .. Count(m)
       PROVE  RaceBounded(m, k) /\ k \in Nat /\ k \in 1 .. Count(m) /\ Count(m) \in Nat
  BY <1>2, AuthAssumption DEF FewRacing, FailuresInOrder, Count
<1>13. ASSUME NEW m \in Login \ {l}, NEW k \in MaxLoginAttempts .. Count(m)
       PROVE  RaceBounded(m, k)'
  <2>1. Racing(m, k)' \subseteq Racing(m, k)
    BY <1>3, <1>8, <1>13 DEF Racing, Near, Outside
  <2>2. QED
    BY <1>3, <1>12, <1>13, <2>1, NobodyJoins
<1>14. ASSUME NEW k \in MaxLoginAttempts .. n
       PROVE  RaceBounded(l, k)'
  <2>1. k \in Nat /\ k \in 1 .. n /\ RaceBounded(l, k)
    BY <1>1, <1>12
  <2>2. \A time : Near(l, k, time)' <=> Near(l, k, time)
    BY <1>5, <2>1 DEF Near
  <2>3. Racing(l, k)' \subseteq Racing(l, k) \ {c}
    BY <1>8, <2>2 DEF Racing, Outside, Near
  <2>4. Cardinality(Racing(l, k) \ {c}) \in Nat
        /\ Cardinality(Racing(l, k)') \in Nat
        /\ Cardinality(Racing(l, k)') <= Cardinality(Racing(l, k) \ {c})
    BY <1>1, <2>1, <2>3, CountsAreNumbers, FS_RemoveElement, FS_Subset, FS_CardinalityType
  <2>5. Cardinality(Racing(l, k) \ {c}) = IF c \in Racing(l, k) THEN Cardinality(Racing(l, k)) - 1
                                                                ELSE Cardinality(Racing(l, k))
    BY <1>1, <2>1, CountsAreNumbers, FS_RemoveElement
  <2>6. CASE Near(l, k, now)
    <3>1. Late(l, k)' = Late(l, k) \cup {n + 1}
      <4>1. \A j : j \in k + 1 .. n + 1 <=> j \in k + 1 .. n \/ j = n + 1
        BY <2>1
      <4>2. ASSUME NEW j \in k + 1 .. n
            PROVE  Near(l, k, tries[l][j])' <=> Near(l, k, tries[l][j])
        <5>1. tries'[l][j] = tries[l][j] /\ tries'[l][k] = tries[l][k]
          BY <1>5, <2>1
        <5>2. QED
          BY <5>1 DEF Near
      <4>3. Near(l, k, tries[l][n + 1])'
        BY <1>5, <2>2, <2>6 DEF Near
      <4>4. QED
        BY <1>1, <1>6, <4>1, <4>2, <4>3 DEF Late, Near
    <3>2. n + 1 \notin Late(l, k)
      BY <1>1 DEF Late
    <3>3. Cardinality(Late(l, k)') = Cardinality(Late(l, k)) + 1
      BY <1>1, <2>1, <3>1, <3>2, CountsAreNumbers, FS_AddElement
    <3>4. c \in Racing(l, k)
      BY <1>1, <1>2, <2>6 DEF Racing
    <3>5. QED
      BY <1>1, <2>1, <2>4, <2>5, <3>3, <3>4, CountsAreNumbers DEF RaceBounded
  <2>7. CASE ~Near(l, k, now)
    <3>1. Late(l, k)' = Late(l, k)
      <4>1. \A j : j \in k + 1 .. n + 1 <=> j \in k + 1 .. n \/ j = n + 1
        BY <2>1
      <4>2. ASSUME NEW j \in k + 1 .. n
            PROVE  Near(l, k, tries[l][j])' <=> Near(l, k, tries[l][j])
        <5>1. tries'[l][j] = tries[l][j] /\ tries'[l][k] = tries[l][k]
          BY <1>5, <2>1
        <5>2. QED
          BY <5>1 DEF Near
      <4>3. ~Near(l, k, tries[l][n + 1])'
        BY <1>5, <2>2, <2>7 DEF Near
      <4>4. QED
        BY <1>1, <1>6, <4>1, <4>2, <4>3 DEF Late, Near
    <3>2. QED
      BY <1>1, <2>1, <2>4, <2>5, <3>1, CountsAreNumbers DEF RaceBounded
  <2>8. QED
    BY <2>6, <2>7
<1>15. RaceBounded(l, n + 1)'
  <2>1. Late(l, n + 1)' = {}
    BY <1>6 DEF Late
  <2>2. Racing(l, n + 1)' \subseteq Client \ {c}
    BY <1>8 DEF Racing, Outside
  <2>3. IsFiniteSet(Client \ {c}) /\ Cardinality(Client \ {c}) = Cardinality(Client) - 1
    BY LoginAssumption, FS_RemoveElement
  <2>4. Cardinality(Racing(l, n + 1)') <= Cardinality(Client \ {c}) /\ Cardinality(Racing(l, n + 1)') \in Nat
    BY <2>2, <2>3, FS_Subset, FS_CardinalityType
  <2>5. Cardinality(Late(l, n + 1)') = 0 /\ Cardinality(Client) \in Nat
    BY <2>1, FS_EmptySet, LoginAssumption, FS_CardinalityType
  <2>6. QED
    BY <2>3, <2>4, <2>5 DEF RaceBounded
<1>16. FewRacing'
  <2> SUFFICES ASSUME NEW m \in Login, NEW k \in MaxLoginAttempts .. Count(m)'
               PROVE  RaceBounded(m, k)'
    BY DEF FewRacing
  <2>1. CASE m # l
    BY <1>6, <1>13, <2>1
  <2>2. CASE m = l /\ k # n + 1
    BY <1>6, <1>14, <2>2, AuthAssumption
  <2>3. CASE m = l /\ k = n + 1
    BY <1>15, <2>3
  <2>4. QED
    BY <2>1, <2>2, <2>3
<1>17. QED
  BY <1>2, <1>9, <1>10, <1>11, <1>16 DEF GuessInv
\* The other moves of an attempt.
LEMMA AttemptGoesOn ==
  ASSUME GuessInv, LoginInv', NEW c \in Client, attempt[c] # Outside,
         UNCHANGED <<clock, failures, tries>>,
         \/ LeavesLogin(c)
         \/ Goes(c, "issuing")
         \/ attempt[c].at = "verifying" /\ \E place \in {"failed", "passed"} : Goes(c, place)
  PROVE  GuessInv'
<1>1. LoginInv /\ AttemptsRecent
  BY DEF GuessInv
<1>2. \A other \in Client \ {c} : attempt'[other] = attempt[other]
  BY <1>1, ClientMoves
<1>3. \/ attempt'[c] = Outside
      \/ /\ attempt'[c].at \in {"failed", "passed", "issuing"}
         /\ attempt'[c].at = "failed" => attempt[c].at = "verifying"
         /\ attempt'[c].login = attempt[c].login /\ attempt'[c].now = attempt[c].now
  <2>1. CASE LeavesLogin(c)
    BY <1>1, <2>1, ClientMoves
  <2>2. ASSUME NEW place, Goes(c, place)
        PROVE  attempt'[c].at = place /\ attempt'[c].login = attempt[c].login
               /\ attempt'[c].now = attempt[c].now
    <3>1. attempt'[c] = [at |-> place, login |-> attempt[c].login, now |-> attempt[c].now]
      BY <1>1, <2>2, ClientMoves
    <3>2. QED
      BY <3>1
  <2>3. QED
    BY <2>1, <2>2
<1>4. AttemptsRecent'
  BY <1>1, <1>2, <1>3 DEF AttemptsRecent
<1>5. ASSUME NEW l \in Login, NEW k \in MaxLoginAttempts .. Count(l)
      PROVE  Racing(l, k)' \subseteq Racing(l, k)
  BY <1>2, <1>3 DEF Racing, Near, Outside
<1>6. clock' \in clock .. MaxTime
  BY <1>1 DEF AttemptsRecent
<1>7. QED
  BY <1>4, <1>5, <1>6, NoFailureCounted

\* A success forgets the failures of its login.
LEMMA SuccessForgets ==
  ASSUME GuessInv, LoginInv', NEW c \in Client, ForgetFailures(c)
  PROVE  GuessInv'
<1>1. PICK l \in Login : attempt[c].login = l
  BY DEF GuessInv, AttemptsRecent, ForgetFailures, Outside
<1>2. /\ LoginInv /\ AttemptsRecent /\ attempt[c].now \in Nat /\ clock - attempt[c].now <= Slowest
      /\ clock' = clock
  BY DEF GuessInv, LoginInv, ForgetFailures, AttemptsRecent, Outside
<1>3. failures'[l] = NoFailure /\ tries'[l] = <<>>
  BY <1>1 DEF ForgetFailures, GuessInv, FailuresInOrder, TriesCounted
<1>4. \A m \in Login \ {l} : failures'[m] = failures[m] /\ tries'[m] = tries[m]
  BY <1>1 DEF ForgetFailures, GuessInv, FailuresInOrder, TriesCounted
<1>5. /\ attempt'[c] = [at |-> "issuing", login |-> l, now |-> attempt[c].now]
      /\ \A other \in Client \ {c} : attempt'[other] = attempt[other]
  BY <1>1, <1>2, ClientMoves DEF ForgetFailures
<1>6. Count(l)' = 0 /\ \A m \in Login \ {l} : Count(m)' = Count(m)
  BY <1>3, <1>4 DEF Count, NoFailure
<1>7. AttemptsRecent'
  BY <1>2, <1>5 DEF AttemptsRecent
<1>8. TriesCounted'
  <2>1. tries' \in [Login -> Seq(Nat)]
    <3>1. <<>> \in Seq(Nat)
      OBVIOUS
    <3>2. QED
      BY <1>1, <3>1 DEF GuessInv, TriesCounted, ForgetFailures
  <2>2. Len(tries'[l]) = 0
    BY <1>3
  <2>3. QED
    BY <1>4, <1>6, <2>1, <2>2 DEF GuessInv, TriesCounted
<1>9. FailuresInOrder'
  <2>1. failures' \in [Login -> [count : Nat, next : Nat]]
    BY DEF GuessInv, FailuresInOrder, ForgetFailures, NoFailure
  <2>2. QED
    BY <1>2, <1>4, <1>6, <2>1 DEF GuessInv, FailuresInOrder
<1>10. LockHolds'
  BY <1>4, <1>6, AuthAssumption DEF GuessInv, LockHolds
<1>11. FewRacing'
  <2> SUFFICES ASSUME NEW m \in Login, NEW k \in MaxLoginAttempts .. Count(m)'
               PROVE  RaceBounded(m, k)'
    BY DEF FewRacing
  <2>1. m # l
    BY <1>6, AuthAssumption
  <2>2. Racing(m, k)' \subseteq Racing(m, k)
    BY <1>4, <1>5, <2>1 DEF Racing, Near
  <2>3. k \in MaxLoginAttempts .. Count(m) /\ k \in Nat /\ Count(m) \in Nat
    BY <1>6, <2>1, AuthAssumption DEF GuessInv, FailuresInOrder, Count
  <2>4. QED
    BY <1>4, <2>1, <2>2, <2>3, NobodyJoins DEF GuessInv, FewRacing
<1>12. QED
  BY <1>7, <1>8, <1>9, <1>10, <1>11 DEF GuessInv

\* The clock ticks, requests come, and the sessions change: no failure is counted.
LEMMA OthersCountNothing ==
  ASSUME GuessInv, LoginInv', UNCHANGED <<failures, tries>>,
         \/ UNCHANGED <<clock, attempt>>
         \/ Tick
         \/ \E c \in Client, l \in Login : CallLogin(c, l)
  PROVE  GuessInv'
<1>1. /\ clock \in Nat /\ clock' \in clock .. MaxTime
      /\ \A c \in Client : attempt[c].now \in Nat
  <2>1. clock \in Nat /\ clock <= MaxTime /\ \A c \in Client : attempt[c].now \in Nat
    BY AuthAssumption DEF GuessInv, AttemptsRecent, LoginInv
  <2>2. clock' = clock \/ (clock < MaxTime /\ clock' = clock + 1)
    BY DEF Tick, CallLogin
  <2>3. QED
    BY <2>1, <2>2, AuthAssumption
<1>2. AttemptsRecent'
  <2>1. CASE Tick
    <3>1. clock' \in 0 .. MaxTime /\ clock' = clock + 1 /\ attempt' = attempt
      BY <1>1, <2>1, AuthAssumption DEF Tick
    <3>2. \A c \in Client : attempt[c].at # "outside" => clock' - attempt[c].now <= Slowest
      BY <1>1, <2>1, <3>1, AuthAssumption DEF Tick
    <3>3. QED
      BY <3>1, <3>2 DEF GuessInv, AttemptsRecent
  <2>2. ASSUME NEW c \in Client, NEW l \in Login, CallLogin(c, l)
        PROVE  AttemptsRecent'
    <3>1. /\ attempt'[c] = [at |-> "called", login |-> l, now |-> clock]
          /\ \A other \in Client \ {c} : attempt'[other] = attempt[other]
      BY <2>2 DEF CallLogin, GuessInv, LoginInv
    <3>2. QED
      BY <1>1, <2>2, <3>1, AuthAssumption DEF CallLogin, GuessInv, AttemptsRecent
  <2>3. QED
    BY <2>1, <2>2 DEF GuessInv, AttemptsRecent
<1>3. ASSUME NEW l \in Login, NEW k \in MaxLoginAttempts .. Count(l)
      PROVE  Racing(l, k)' \subseteq Racing(l, k)
  <2>1. \A c \in Client : attempt'[c] = attempt[c] \/ attempt'[c].at = "called"
    BY DEF Tick, CallLogin, GuessInv, LoginInv
  <2>2. QED
    BY <2>1 DEF Racing, Near
<1>4. QED
  BY <1>1, <1>2, <1>3, NoFailureCounted

LEMMA GuessInitInv == SessionsInit => GuessInv
<1> SUFFICES ASSUME SessionsInit PROVE GuessInv
  OBVIOUS
<1>1. \A l \in Login : Count(l) = 0
  BY DEF SessionsInit, Count, NoFailure
<1>2. TriesCounted
  BY <1>1 DEF SessionsInit, TriesCounted
<1>3. AttemptsRecent
  BY AuthAssumption DEF SessionsInit, AttemptsRecent
<1>4. FailuresInOrder
  BY <1>1 DEF SessionsInit, FailuresInOrder, NoFailure
<1>5. LockHolds /\ FewRacing
  BY <1>1, AuthAssumption DEF LockHolds, FewRacing
<1>6. QED
  BY <1>2, <1>3, <1>4, <1>5, LoginInitInv DEF GuessInv

LEMMA GuessStepInv == GuessInv /\ [SessionsNext]_sessionVars => GuessInv'
<1> SUFFICES ASSUME GuessInv, [SessionsNext]_sessionVars
             PROVE  GuessInv'
  OBVIOUS
<1>1. LoginInv'
  BY LoginStepInv DEF GuessInv
<1>2. ASSUME NEW c \in Client, LoginStep(c)
      PROVE  GuessInv'
  <2>1. CASE CheckLock(c)
    BY <1>1, <2>1, CheckLockKeeps
  <2>2. CASE VerifyPassword(c)
    BY <1>1, <2>2, AttemptGoesOn DEF VerifyPassword, Outside
  <2>3. CASE RegisterFailure(c)
    BY <1>1, <2>3, FailureIsCounted
  <2>4. CASE ForgetFailures(c)
    BY <1>1, <2>4, SuccessForgets
  <2>5. ASSUME NEW s \in Session, NewSession(c, s)
        PROVE  GuessInv'
    BY <1>1, <2>5, AttemptGoesOn DEF NewSession, Outside
  <2>6. CASE NoRandomness(c)
    BY <1>1, <2>6, AttemptGoesOn DEF NoRandomness, Outside
  <2>7. QED
    BY <1>2, <2>1, <2>2, <2>3, <2>4, <2>5, <2>6 DEF LoginStep
<1>3. ASSUME NEW c \in Client, NEW l \in Login, CallLogin(c, l)
      PROVE  GuessInv'
  BY <1>1, <1>3, OthersCountNothing DEF CallLogin
<1>4. ASSUME NEW s \in used, FindSession(s) \/ Logout(s)
      PROVE  GuessInv'
  BY <1>1, <1>4, OthersCountNothing DEF FindSession, Logout
<1>5. CASE CountSessions
  BY <1>1, <1>5, OthersCountNothing DEF CountSessions
<1>6. CASE Tick
  BY <1>1, <1>6, OthersCountNothing DEF Tick
<1>7. CASE UNCHANGED sessionVars
  BY <1>1, <1>7, OthersCountNothing DEF sessionVars
<1>8. QED
  BY <1>2, <1>3, <1>4, <1>5, <1>6, <1>7 DEF SessionsNext

\* FewRacing bounds the failures of any span shorter than a lock: those before the last
\* allowed attempt, the first failure in the span that locked the login, and the ones near it.
LEMMA FewGuesses == GuessInv => GuessesBounded
<1> SUFFICES ASSUME GuessInv, NEW l \in Login, NEW from \in 0 .. MaxTime
             PROVE  Cardinality({k \in DOMAIN tries[l] :
                                   tries[l][k] \in from .. from + LockoutDuration - Slowest - 1})
                      <= MaxLoginAttempts + Cardinality(Client) - 1
  BY DEF GuessesBounded
<1> DEFINE Span == from .. from + LockoutDuration - Slowest - 1
           Guesses == {k \in DOMAIN tries[l] : tries[l][k] \in Span}
           Early == 1 .. MaxLoginAttempts - 1
           Locking == {k \in Guesses : k >= MaxLoginAttempts}
<1>1. PICK n \in Nat : Count(l) = n
  BY DEF GuessInv, FailuresInOrder, Count
<1>2. DOMAIN tries[l] = 1 .. n
  <2>1. tries[l] \in Seq(Nat) /\ Len(tries[l]) = n
    BY <1>1 DEF GuessInv, TriesCounted
  <2>2. QED
    BY <2>1
<1>3. \A k \in 1 .. n : tries[l][k] \in Nat
  BY <1>1 DEF GuessInv, FailuresInOrder
<1>4. IsFiniteSet(Early) /\ Cardinality(Early) = MaxLoginAttempts - 1
  BY FS_Interval, AuthAssumption
<1>5. Cardinality(Client) \in Nat
  BY LoginAssumption, FS_CardinalityType
<1>6. CASE Locking = {}
  <2>1. Guesses \in SUBSET Early
    BY <1>2, <1>6, AuthAssumption
  <2>2. Cardinality(Guesses) <= MaxLoginAttempts - 1 /\ Cardinality(Guesses) \in Nat
    BY <1>4, <2>1, FS_Subset, FS_CardinalityType
  <2> HIDE DEF Guesses, Span
  <2>3. QED
    BY <1>5, <2>2, AuthAssumption DEF Guesses, Span
<1>7. CASE Locking # {}
  <2>1. Locking \in SUBSET Nat
    BY <1>2
  <2>2. PICK k \in Locking : \A j \in Locking : k <= j
    BY <1>7, <2>1, LeastNumber
  <2>3. k \in MaxLoginAttempts .. n /\ k \in Nat /\ k \in 1 .. n /\ tries[l][k] \in Span
    BY <1>2, <2>2, AuthAssumption
  <2>4. Guesses \subseteq (Early \cup {k}) \cup Late(l, k)
    <3> SUFFICES ASSUME NEW j \in Guesses, j \notin Early, j # k
                 PROVE  j \in Late(l, k)
      OBVIOUS
    <3>1. j \in 1 .. n /\ j \in Locking
      BY <1>2, AuthAssumption
    <3>2. j \in k + 1 .. n
      BY <2>2, <2>3, <3>1
    <3>3. Near(l, k, tries[l][j])
      BY <1>3, <2>3, <3>1, AuthAssumption DEF Near
    <3>4. QED
      BY <1>1, <3>2, <3>3 DEF Late
  <2>5. IsFiniteSet(Early \cup {k}) /\ Cardinality(Early \cup {k}) = MaxLoginAttempts
    <3>1. k \notin Early
      BY <2>3, AuthAssumption
    <3> HIDE DEF Early
    <3>2. /\ IsFiniteSet(Early \cup {k})
          /\ Cardinality(Early \cup {k}) = Cardinality(Early) + 1
      BY <1>4, <3>1, FS_AddElement
    <3>3. QED
      BY <1>4, <3>2, AuthAssumption
  <2>6. /\ IsFiniteSet(Late(l, k)) /\ Cardinality(Late(l, k)) \in Nat
        /\ Cardinality(Late(l, k)) <= Cardinality(Client) - 1
    BY <1>1, <1>5, <2>3, CountsAreNumbers DEF GuessInv, FewRacing, RaceBounded
  <2>7. /\ IsFiniteSet((Early \cup {k}) \cup Late(l, k))
        /\ Cardinality((Early \cup {k}) \cup Late(l, k))
             <= MaxLoginAttempts + Cardinality(Late(l, k))
    <3>1. (Early \cup {k}) \cap Late(l, k) \in SUBSET (Early \cup {k})
      OBVIOUS
    <3>2. Cardinality((Early \cup {k}) \cap Late(l, k)) \in Nat
      BY <2>5, <3>1, FS_Subset, FS_CardinalityType
    <3> HIDE DEF Early
    <3>3. QED
      BY <2>5, <2>6, <3>2, FS_Union, AuthAssumption
  <2>8. Cardinality(Guesses) <= Cardinality((Early \cup {k}) \cup Late(l, k))
        /\ Cardinality(Guesses) \in Nat /\ Cardinality((Early \cup {k}) \cup Late(l, k)) \in Nat
    <3> HIDE DEF Early, Guesses
    <3>1. QED
      BY <2>4, <2>7, FS_Subset, FS_CardinalityType
  <2> HIDE DEF Guesses, Span, Early
  <2>9. Cardinality(Guesses) <= MaxLoginAttempts + Cardinality(Client) - 1
    BY <1>5, <2>6, <2>7, <2>8, AuthAssumption
  <2>10. QED
    BY <2>9 DEF Guesses, Span
<1>8. QED
  BY <1>6, <1>7

\* A session in the map ends SessionTTL after the clock of its login, which was read at most
\* Slowest before the session was opened; one that has left the map and was not closed had
\* reached that end.  Only what was opened and not closed is in the map.
SessionsOwed ==
  /\ DOMAIN sessions \subseteq DOMAIN opened
  /\ DOMAIN opened \subseteq used
  /\ \A s \in DOMAIN opened : opened[s] \in Nat
  /\ \A s \in DOMAIN sessions :
       /\ sessions[s] <= opened[s] + SessionTTL
       /\ opened[s] + SessionTTL <= sessions[s] + Slowest
  /\ \A s \in DOMAIN opened \ DOMAIN sessions : opened[s] + SessionTTL <= clock + Slowest

\* Sessions that have expired, or that are closed, leave the map; or time passes.
LEMMA OwedWhileLeaving ==
  ASSUME LoginInv, SessionsOwed, used' = used, clock' \in Nat, clock <= clock',
         DOMAIN sessions' \subseteq DOMAIN sessions,
         \A s \in DOMAIN sessions' : sessions'[s] = sessions[s],
         DOMAIN opened' \subseteq DOMAIN opened,
         \A s \in DOMAIN opened' : opened'[s] = opened[s],
         DOMAIN sessions' \subseteq DOMAIN opened',
         \A s \in DOMAIN opened' \cap (DOMAIN sessions \ DOMAIN sessions') : sessions[s] <= clock
  PROVE  SessionsOwed'
<1>1. \A s \in DOMAIN sessions : sessions[s] \in Nat
  BY DEF LoginInv
<1>2. clock \in Nat /\ SessionTTL \in Nat /\ Slowest \in Nat
  BY AuthAssumption DEF LoginInv
<1>3. \A s \in DOMAIN opened' \ DOMAIN sessions' : opened'[s] + SessionTTL <= clock' + Slowest
  BY <1>1, <1>2 DEF SessionsOwed
<1>4. QED
  BY <1>3 DEF SessionsOwed

LEMMA OwedWhenOpened ==
  ASSUME LoginInv, AttemptsRecent, SessionsOwed, NEW c \in Client, NEW s \in Session,
         NewSession(c, s)
  PROVE  SessionsOwed'
<1> DEFINE now == attempt[c].now
<1>1. now \in Nat /\ clock \in Nat /\ now <= clock /\ clock <= now + Slowest
  BY AuthAssumption DEF LoginInv, AttemptsRecent, NewSession, Outside
<1>2. SessionTTL \in Nat /\ Slowest \in Nat
  BY AuthAssumption
<1>3. \A e \in DOMAIN sessions : sessions[e] \in Nat
  BY DEF LoginInv
<1>4. /\ s \notin DOMAIN opened /\ s \notin DOMAIN sessions
      /\ used' = used \cup {s} /\ clock' = clock
      /\ DOMAIN opened' = DOMAIN opened \cup {s}
      /\ opened'[s] = clock /\ \A e \in DOMAIN opened : opened'[e] = opened[e]
      /\ DOMAIN sessions' = {e \in DOMAIN sessions : now < sessions[e]} \cup {s}
      /\ sessions'[s] = now + SessionTTL
      /\ \A e \in DOMAIN sessions' \ {s} : sessions'[e] = sessions[e]
  BY DEF NewSession, LoginInv, SessionsOwed, Valid
<1> HIDE DEF now
<1>5. \A e \in DOMAIN sessions' :
         /\ sessions'[e] <= opened'[e] + SessionTTL
         /\ opened'[e] + SessionTTL <= sessions'[e] + Slowest
  BY <1>1, <1>2, <1>3, <1>4 DEF SessionsOwed
<1>6. \A e \in DOMAIN opened' \ DOMAIN sessions' : opened'[e] + SessionTTL <= clock' + Slowest
  BY <1>1, <1>2, <1>3, <1>4 DEF SessionsOwed
<1>7. QED
  BY <1>1, <1>4, <1>5, <1>6 DEF SessionsOwed

LEMMA OwedStep == GuessInv /\ SessionsOwed /\ [SessionsNext]_sessionVars => SessionsOwed'
<1> SUFFICES ASSUME GuessInv, SessionsOwed, [SessionsNext]_sessionVars
             PROVE  SessionsOwed'
  OBVIOUS
<1>i. LoginInv /\ AttemptsRecent /\ clock \in Nat
  BY DEF GuessInv, LoginInv
<1>1. CASE UNCHANGED <<clock, used, sessions, opened>>
  BY <1>1 DEF SessionsOwed
<1>2. ASSUME NEW c \in Client, NEW s \in Session, NewSession(c, s)
      PROVE  SessionsOwed'
  BY <1>2, <1>i, OwedWhenOpened
<1>3. ASSUME NEW S, Remove({e \in S : ~Valid(e, clock)}), UNCHANGED <<clock, used, opened>>
      PROVE  SessionsOwed'
  <2>1. \A e \in DOMAIN sessions \ DOMAIN sessions' : sessions[e] <= clock
    BY <1>3, <1>i DEF Remove, Valid, LoginInv
  <2>2. QED
    BY <1>3, <1>i, <2>1, OwedWhileLeaving DEF Remove, SessionsOwed
<1>4. ASSUME NEW s \in used, Logout(s)
      PROVE  SessionsOwed'
  BY <1>4, <1>i, OwedWhileLeaving DEF Logout, Remove, SessionsOwed
<1>5. CASE Tick
  BY <1>5, <1>i, OwedWhileLeaving DEF Tick, SessionsOwed
<1>6. ASSUME NEW s \in used, FindSession(s)
      PROVE  SessionsOwed'
  <2>1. {e \in DOMAIN sessions : e = s /\ ~Valid(e, clock)}
          = {e \in DOMAIN sessions \cap {s} : ~Valid(e, clock)}
    OBVIOUS
  <2>2. QED
    BY <1>3, <1>6, <2>1 DEF FindSession
<1>7. CASE CountSessions
  BY <1>3, <1>7 DEF CountSessions
<1>8. QED
  BY <1>1, <1>2, <1>4, <1>5, <1>6, <1>7
     DEF SessionsNext, LoginStep, CallLogin, CheckLock, VerifyPassword, RegisterFailure,
         ForgetFailures, NoRandomness, sessionVars

LEMMA OwedSessionsLast == LoginInv /\ SessionsOwed => SessionLasts
<1> SUFFICES ASSUME LoginInv, SessionsOwed, NEW s \in used
    PROVE  /\ lifeOf[s] = "alive" => s \in DOMAIN opened /\ clock < opened[s] + SessionTTL
           /\ s \in DOMAIN opened /\ clock + Slowest < opened[s] + SessionTTL
                => lifeOf[s] = "alive"
  BY DEF SessionLasts
<1>1. clock \in Nat /\ SessionTTL \in Nat /\ Slowest \in Nat /\ s \in Session
  BY AuthAssumption DEF LoginInv
<1>2. \A e \in DOMAIN sessions : sessions[e] \in Nat
  BY DEF LoginInv
<1>3. lifeOf[s] = "alive" <=> s \in DOMAIN sessions /\ clock < sessions[s]
  BY <1>1 DEF lifeOf, Valid
<1>4. QED
  BY <1>1, <1>2, <1>3 DEF SessionsOwed

\* A session is found only within SessionTTL of its opening and before it is closed, and until
\* then, less the time of its login, whatever other logins, uses and counts do to the map
\* (SessionLasts): for any number of requests and sessions and any durations.
THEOREM SessionsLastTheirTime == SessionsSpec => []SessionLasts
<1>1. SessionsInit => SessionsOwed
  BY DEF SessionsInit, SessionsOwed
<1>2. GuessInv => LoginInv
  BY DEF GuessInv
<1>3. QED
  BY <1>1, <1>2, OwedStep, OwedSessionsLast, GuessInitInv, GuessStepInv, PTL DEF SessionsSpec

LEMMA GuessTypes == GuessInv /\ SessionsOwed => SessionsTypeOK
<1> SUFFICES ASSUME GuessInv, SessionsOwed PROVE SessionsTypeOK
  OBVIOUS
<1>1. ASSUME NEW c \in Client, attempt[c] # Outside
      PROVE  /\ attempt[c].at \in {"called", "verifying", "failed", "passed", "issuing"}
             /\ attempt[c].login \in Login /\ attempt[c].now \in 0 .. clock
  BY <1>1 DEF GuessInv, LoginInv, AttemptsRecent, Where
<1>2. sessions \in [DOMAIN sessions -> Nat]
  BY DEF GuessInv, LoginInv
<1>3. QED
  BY <1>1, <1>2 DEF SessionsOwed, GuessInv, LoginInv, AttemptsRecent, FailuresInOrder, SessionsTypeOK

\* However many requests race past the check of the lock, however they are interleaved and
\* however slow they are, the attempts of one login that fail within the time of a lock, with
\* no success between them, are at most the allowed ones and one for each other request in
\* progress (GuessesBounded): for any number of requests, logins and attempts and any
\* durations that New accepts.
THEOREM LockoutHolds == SessionsSpec => [](SessionsTypeOK /\ GuessesBounded)
<1>1. GuessInv /\ SessionsOwed => SessionsTypeOK /\ GuessesBounded
  BY FewGuesses, GuessTypes
<1>2. SessionsInit => SessionsOwed
  BY DEF SessionsInit, SessionsOwed
<1>3. QED
  BY <1>1, <1>2, OwedStep, GuessInitInv, GuessStepInv, PTL DEF SessionsSpec
=============================================================================
