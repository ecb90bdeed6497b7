------------------------------ MODULE Sessions ------------------------------
(***************************************************************************)
(* Login, lockout and sessions of the web interface: internal/auth.        *)
(*                                                                         *)
(* A client is a goroutine that serves one request at a time.  The maps    *)
(* sessions and failures are guarded by a mutex, but Login takes it three  *)
(* times and lets go of it while bcrypt runs; the time it works with is    *)
(* the one at which it was called.  Each step below is one critical        *)
(* section, or the work between two of them.                               *)
(***************************************************************************)
EXTENDS Integers, FiniteSets, Sequences

CONSTANTS Client,        \* requests served at the same time
          Login,         \* logins that are tried
          Known,         \* logins of auth.users
          Session,       \* identifiers that randomToken may return
          SessionTTL, LoginBackoff, MaxBackoff, LockoutDuration,
          MaxLoginAttempts,
          Slowest,       \* ticks that pass at most while one Login works
          MaxTime        \* bound: when the clock stops

ASSUME LoginAssumption == IsFiniteSet(Client) /\ Known \subseteq Login
\* New refuses other options; the two durations are constants of auth.go.
ASSUME AuthAssumption ==
  /\ SessionTTL \in Nat \ {0} /\ LoginBackoff \in Nat /\ MaxLoginAttempts \in Nat \ {0}
  /\ MaxBackoff \in Nat /\ LockoutDuration \in Nat /\ MaxBackoff <= LockoutDuration
  /\ Slowest \in Nat /\ MaxTime \in Nat

VARIABLES clock,
          failures,  \* count and next of each login; a count of 0 is no entry
          sessions,  \* expiry of each session in the map
          used,      \* identifiers given out so far: random ones do not repeat
          attempt,   \* where each client is in Login, with its login and time
          tries,     \* history: for each login, when the attempts were called that have
                     \* failed since the last success, in the order of their failures
          opened     \* history: when each session that nobody has closed was opened

sessionVars == <<clock, failures, sessions, used, attempt, tries, opened>>

NoFailure == [count |-> 0, next |-> 0]
Outside == [at |-> "outside", login |-> "none", now |-> 0]
Goes(c, place) == attempt' = [attempt EXCEPT ![c].at = place]
LeavesLogin(c) == attempt' = [attempt EXCEPT ![c] = Outside]

\* Session.Valid
Valid(s, now) == now < sessions[s]
Locked(login, now) == failures[login].count > 0 /\ now < failures[login].next

\* Mutant: the pause grows, and never becomes a lock.
PauseWithoutLock(count) ==
  LET doubled[n \in Nat] == IF n <= 1 THEN LoginBackoff
                            ELSE IF doubled[n-1] < MaxBackoff THEN 2 * doubled[n-1]
                                                              ELSE doubled[n-1]
  IN  IF doubled[count] > MaxBackoff THEN MaxBackoff ELSE doubled[count]

\* registerFailure: the pause doubles with every failure up to MaxBackoff, and
\* from the last allowed attempt on it is the lock.
Pause(count) ==
  LET doubled[n \in Nat] == IF n <= 1 THEN LoginBackoff
                            ELSE IF doubled[n-1] < MaxBackoff THEN 2 * doubled[n-1]
                                                              ELSE doubled[n-1]
  IN  IF count >= MaxLoginAttempts THEN LockoutDuration
      ELSE IF doubled[count] > MaxBackoff THEN MaxBackoff ELSE doubled[count]
-----------------------------------------------------------------------------
SessionsInit ==
  /\ clock = 0
  /\ failures = [l \in Login |-> NoFailure]
  /\ sessions = [s \in {} |-> 0]
  /\ used = {}
  /\ attempt = [c \in Client |-> Outside]
  /\ tries = [l \in Login |-> <<>>]
  /\ opened = [s \in {} |-> 0]

\* Login is called and reads the clock.
CallLogin(c, l) ==
  /\ attempt[c].at = "outside"
  /\ attempt' = [attempt EXCEPT ![c] = [at |-> "called", login |-> l, now |-> clock]]
  /\ UNCHANGED <<clock, failures, sessions, used, tries, opened>>

\* checkLock, then the lookup of the login: an unknown one is a failure at once.
CheckLock(c) ==
  LET a == attempt[c] IN
  /\ a.at = "called"
  /\ IF Locked(a.login, a.now)
     THEN LeavesLogin(c)
     ELSE Goes(c, IF a.login \in Known THEN "verifying" ELSE "failed")
  /\ UNCHANGED <<clock, failures, sessions, used, tries, opened>>

\* passwd.Verify, outside the mutex.
VerifyPassword(c) ==
  /\ attempt[c].at = "verifying"
  /\ \E place \in {"failed", "passed"} : Goes(c, place)
  /\ UNCHANGED <<clock, failures, sessions, used, tries, opened>>

\* registerFailure.  The entry that another attempt has just moved is moved again,
\* from the time at which this attempt was called.
RegisterFailure(c) ==
  LET a == attempt[c]
      count == failures[a.login].count + 1
  IN
  /\ a.at = "failed"
  /\ failures' = [failures EXCEPT ![a.login] =
                    [count |-> count, next |-> a.now + Pause(count)]]
  /\ tries' = [tries EXCEPT ![a.login] = Append(@, a.now)]
  /\ LeavesLogin(c)
  /\ UNCHANGED <<clock, sessions, used, opened>>

\* The password was right: the failures of the login are forgotten.
ForgetFailures(c) ==
  LET l == attempt[c].login IN
  /\ attempt[c].at = "passed"
  /\ failures' = [failures EXCEPT ![l] = NoFailure]
  /\ tries' = [tries EXCEPT ![l] = <<>>]
  /\ Goes(c, "issuing")
  /\ UNCHANGED <<clock, sessions, used, opened>>

\* newSession: sessions that had expired when Login was called leave the map.
NewSession(c, s) ==
  LET now == attempt[c].now
      kept == {e \in DOMAIN sessions : Valid(e, now)}
  IN
  /\ attempt[c].at = "issuing"
  /\ s \notin used
  /\ used' = used \cup {s}
  /\ sessions' = [e \in kept \cup {s} |-> IF e = s THEN now + SessionTTL ELSE sessions[e]]
  /\ opened' = [e \in DOMAIN opened \cup {s} |-> IF e = s THEN clock ELSE opened[e]]
  /\ LeavesLogin(c)
  /\ UNCHANGED <<clock, failures, tries>>

\* randomToken fails: the right password is accepted, and no session comes of it.
NoRandomness(c) ==
  /\ attempt[c].at = "issuing"
  /\ LeavesLogin(c)
  /\ UNCHANGED <<clock, failures, sessions, used, tries, opened>>

Remove(S) == sessions' = [e \in DOMAIN sessions \ S |-> sessions[e]]

\* Mutant: a use writes the session back with a new time of its end.
FindSessionProlongs(s) ==
  /\ sessions' = [e \in DOMAIN sessions |->
                    IF e = s /\ Valid(e, clock) THEN clock + SessionTTL ELSE sessions[e]]
  /\ UNCHANGED <<clock, failures, used, attempt, tries, opened>>

\* Mutant: the session that was read is written back whatever happened to it.
FindSessionAgain(s) ==
  /\ sessions' = [e \in DOMAIN sessions \cup {s} |->
                    IF e \in DOMAIN sessions THEN sessions[e] ELSE clock + SessionTTL]
  /\ UNCHANGED <<clock, failures, used, attempt, tries, opened>>

\* Session: a request brings an identifier.  An expired session is removed; use
\* does not prolong a live one (LastSeenAt, which nothing reads, is left out).
FindSession(s) ==
  /\ Remove({e \in DOMAIN sessions : e = s /\ ~Valid(e, clock)})
  /\ UNCHANGED <<clock, failures, used, attempt, tries, opened>>

Logout(s) ==
  /\ Remove({s})
  /\ opened' = [e \in DOMAIN opened \ {s} |-> opened[e]]
  /\ UNCHANGED <<clock, failures, used, attempt, tries>>

\* Sessions: counting removes what has expired.
CountSessions ==
  /\ Remove({e \in DOMAIN sessions : ~Valid(e, clock)})
  /\ UNCHANGED <<clock, failures, used, attempt, tries, opened>>

\* bcrypt and the mutex take a moment, and a lockout minutes: the clock does not
\* run away from an attempt in progress.
Tick ==
  /\ clock < MaxTime
  /\ \A c \in Client : attempt[c].at # "outside" => clock - attempt[c].now < Slowest
  /\ clock' = clock + 1
  /\ UNCHANGED <<failures, sessions, used, attempt, tries, opened>>

LoginStep(c) == \/ CheckLock(c)
                \/ VerifyPassword(c)
                \/ RegisterFailure(c)
                \/ ForgetFailures(c)
                \/ \E s \in Session : NewSession(c, s)
                \/ NoRandomness(c)

SessionsNext == \/ \E c \in Client : LoginStep(c) \/ \E l \in Login : CallLogin(c, l)
                \/ \E s \in used : FindSession(s) \/ Logout(s)
                \/ CountSessions
                \/ Tick

SessionsSpec == SessionsInit /\ [][SessionsNext]_sessionVars
-----------------------------------------------------------------------------
\* Type invariant: the map holds only sessions that were given out, an entry of
\* failures has been counted, and a client outside Login carries nothing.
SessionsTypeOK ==
  /\ clock \in 0 .. MaxTime
  /\ failures \in [Login -> [count : Nat, next : Nat]]
  /\ used \subseteq Session
  /\ DOMAIN sessions \subseteq used /\ DOMAIN opened \subseteq used
  /\ sessions \in [DOMAIN sessions -> Nat]
  /\ DOMAIN attempt = Client
  /\ \A c \in Client :
       \/ attempt[c] = Outside
       \/ /\ attempt[c].at \in {"called", "verifying", "failed", "passed", "issuing"}
          /\ attempt[c].login \in Login
          /\ attempt[c].now \in 0 .. clock

\* The purpose of the lockout, with bcrypt outside the mutex: attempts of one
\* login that are called within the time of a lock, fail, and have no success
\* between them are at most MaxLoginAttempts and those that were past the check
\* already, one fewer than the requests served at once.  An attempt counts its
\* pause from the time it was called, so a slow one may move the end of a lock
\* back, by the time a Login takes at most.
GuessesBounded ==
  \A l \in Login, from \in 0 .. MaxTime :
    LET span == from .. from + LockoutDuration - Slowest - 1
    IN  Cardinality({k \in DOMAIN tries[l] : tries[l][k] \in span})
          <= MaxLoginAttempts + Cardinality(Client) - 1

\* The life of each session, the refinement mapping of SessionLife.
lifeOf == [s \in Session |-> IF s \notin used THEN "unborn"
                             ELSE IF s \in DOMAIN sessions /\ Valid(s, clock) THEN "alive"
                             ELSE "dead"]

\* A session lives once: what was removed by logout or has passed its time is never
\* found again, in whatever order logins, uses, logouts and counts of sessions take
\* the mutex.
Life == INSTANCE SessionLife WITH session <- lifeOf
SessionsLiveOnce == Life!LifeSpec

\* How long it lives: a session that is found was opened less than SessionTTL ago and nobody
\* has closed it; and one that nobody has closed is found for SessionTTL, less the time that
\* its login took.  So no use prolongs it, and neither a login that is slow, and clears the
\* map by a clock it read before, nor a count of sessions ends the session of another.
SessionLasts ==
  \A s \in used :
    /\ lifeOf[s] = "alive" => s \in DOMAIN opened /\ clock < opened[s] + SessionTTL
    /\ s \in DOMAIN opened /\ clock + Slowest < opened[s] + SessionTTL => lifeOf[s] = "alive"
=============================================================================
