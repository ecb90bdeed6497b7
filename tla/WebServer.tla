----------------------------- MODULE WebServer ------------------------------
(***************************************************************************)
(* sqlbrc serve: internal/web and cmd/sqlbrc/serve.go, over the sessions   *)
(* of internal/auth (SessionLife, which module Sessions implements).       *)
(*                                                                         *)
(* A client sends one request at a time: a login, a logout, a page, or an  *)
(* operation, which comes from a form with a session or from the API with  *)
(* a token.  An operation is what Operations and JobQueue show it to be:   *)
(* checks that may refuse it, a wait for a place in the queue, a job; for  *)
(* a restore the wait and the job of a safety copy come first.  All of it  *)
(* runs in the context of the request.  SIGTERM and death may come at any  *)
(* moment.                                                                 *)
(***************************************************************************)
EXTENDS Integers, FiniteSets, SessionLife

CONSTANTS Client,       \* requests served at the same time
          Token,        \* the credential of an API client, valid or not
          NoCredential,
          Parallel      \* places in the queue

ASSUME WebAssumption == /\ Token # NoCredential /\ Token \notin Session
                        /\ NoCredential \notin Session /\ Parallel \in Nat \ {0}
                        /\ IsFiniteSet(Client)

VARIABLES server,    \* "serving", "draining", or how the process ended
          readOnly,  \* server.read_only
          req,       \* the request of each client
          closed     \* history: sessions whose logout has been carried out

webVars == <<server, readOnly, req, closed>>
serveVars == <<session, webVars>>

NoRequest == [at |-> "idle", kind |-> "none", by |-> NoCredential, late |-> "no",
              client |-> "here", job |-> "none", answer |-> "none"]

Operating == {"operating", "copy-queued", "copying", "queued", "working", "ended"}
Waiting == {"copy-queued", "queued"}
InProgress == {"arrived", "authorised", "reading"} \cup Operating
Up == server \in {"serving", "draining"}

To(c, place) == req' = [req EXCEPT ![c].at = place]

\* An answer is what was asked for, or a refusal or an error of any status.
Answer(c, answer) == req' = [req EXCEPT ![c] = [NoRequest EXCEPT !.answer = answer]]
InJob(c) == req[c].at \in {"copying", "working"}

\* Mutant: a restore keeps the place of its safety copy.
AtWorkNested == {c \in Client : InJob(c) \/ req[c].job = "copied"}

\* Places taken in the queue.
AtWork == {c \in Client : InJob(c)}
-----------------------------------------------------------------------------
WebInit ==
  /\ LifeInit
  /\ server = "serving"
  /\ readOnly \in {"yes", "no"}
  /\ req = [c \in Client |-> NoRequest]
  /\ closed = {}

\* A request arrives, with what its client has to show.  late is history: its session had been
\* closed by then.
Arrive(c, kind, by) ==
  /\ server = "serving"
  /\ req[c].at = "idle"
  /\ by = Token <=> kind = "api"
  /\ req' = [req EXCEPT ![c] = [NoRequest EXCEPT !.at = "arrived", !.kind = kind, !.by = by,
                                  !.late = IF by \in closed THEN "yes" ELSE "no"]]
  /\ UNCHANGED <<session, server, readOnly, closed>>

\* handleLogin: a form that does not parse, a lock, a wrong password, a failure of
\* randomToken; or a new session.
Login(c) ==
  /\ Up /\ req[c].at = "arrived" /\ req[c].kind = "login"
  /\ \/ /\ Answer(c, "error")
        /\ UNCHANGED session
     \/ /\ \E s \in Session : Open(s)
        /\ Answer(c, "ok")
  /\ UNCHANGED <<server, readOnly, closed>>

\* The client closes the connection: net/http cancels the request's context.
Leave(c) ==
  /\ Up /\ req[c].at \in InProgress /\ req[c].client = "here"
  /\ req' = [req EXCEPT ![c].client = "gone"]
  /\ UNCHANGED <<session, server, readOnly, closed>>

\* requireSession: the identifier of the cookie is looked up; without a live
\* session the client is sent to the form of login.
RequireSession(c) ==
  LET s == req[c].by IN
  /\ Up /\ req[c].at = "arrived" /\ req[c].kind \in {"page", "form", "logout"}
  /\ IF s # NoCredential /\ Alive(s) THEN To(c, "authorised") ELSE Answer(c, "error")
  /\ UNCHANGED <<session, server, readOnly, closed>>

\* requireToken
RequireToken(c) ==
  /\ Up /\ req[c].at = "arrived" /\ req[c].kind = "api"
  /\ To(c, "authorised") \/ Answer(c, "error")
  /\ UNCHANGED <<session, server, readOnly, closed>>

\* The pages with backups and jobs, and their API, only read.
ShowPage(c) ==
  /\ Up /\ req[c].at = "authorised" /\ req[c].kind \in {"page", "api"}
  /\ Answer(c, "ok") \/ Answer(c, "error")
  /\ UNCHANGED <<session, server, readOnly, closed>>

\* checkCSRF of a form: the body does not parse, or the token is another one; then
\* ensureWritable.  It refuses an operation and not a logout.
CheckForm(c) ==
  /\ Up /\ req[c].at = "authorised" /\ req[c].kind \in {"form", "logout"}
  /\ \/ Answer(c, "error")
     \/ /\ req[c].kind = "form" => readOnly = "no"
        /\ To(c, "reading")
  /\ UNCHANGED <<session, server, readOnly, closed>>

\* The API asks in the other order: apiWritable, then apiDecodeRequest.
CheckBody(c) ==
  /\ Up /\ req[c].at = "authorised" /\ req[c].kind = "api"
  /\ Answer(c, "error") \/ (readOnly = "no" /\ To(c, "reading"))
  /\ UNCHANGED <<session, server, readOnly, closed>>

\* Mutant: the cookie is cleared, and the session stays in the map.
WebLogoutForgets(c) ==
  /\ Up /\ req[c].at = "reading" /\ req[c].kind = "logout"
  /\ closed' = closed \cup {req[c].by}
  /\ Answer(c, "ok")
  /\ UNCHANGED <<session, server, readOnly>>

WebLogout(c) ==
  /\ Up /\ req[c].at = "reading" /\ req[c].kind = "logout"
  /\ End({req[c].by})
  /\ closed' = closed \cup {req[c].by}
  /\ Answer(c, "ok")
  /\ UNCHANGED <<server, readOnly>>

CallOperation(c) ==
  /\ Up /\ req[c].at = "reading" /\ req[c].kind \in {"form", "api"}
  /\ To(c, "operating")
  /\ UNCHANGED <<session, server, readOnly, closed>>

\* failOperation, apiOperationError: a RejectedError against any other error.
Refuse(c) ==
  /\ Up /\ req[c].at = "operating"
  /\ Answer(c, "error")
  /\ UNCHANGED <<session, server, readOnly, closed>>

\* A dry run of prune answers without a job; a prune of several databases is
\* several jobs, told apart here no more than a restore's copy is from its job.
DryRun(c) ==
  /\ Up /\ req[c].at = "operating" /\ req[c].job = "none"
  /\ Answer(c, "ok")
  /\ UNCHANGED <<session, server, readOnly, closed>>

Enqueue(c) ==
  /\ Up /\ req[c].at = "operating"
  /\ To(c, "queued")
  /\ UNCHANGED <<session, server, readOnly, closed>>

\* Submit gets its places.
StartJob(c) ==
  /\ Up /\ req[c].at = "queued"
  /\ Cardinality(AtWork) < Parallel
  /\ req' = [req EXCEPT ![c].at = "working", ![c].job = "running"]
  /\ UNCHANGED <<session, server, readOnly, closed>>

\* The safety copy of a restore: a job of its own, once, before the checks end, with a
\* wait of its own.
EnqueueCopy(c) ==
  /\ Up /\ req[c].at = "operating" /\ req[c].job = "none"
  /\ To(c, "copy-queued")
  /\ UNCHANGED <<session, server, readOnly, closed>>

StartCopy(c) ==
  /\ Up /\ req[c].at = "copy-queued"
  /\ Cardinality(AtWork) < Parallel
  /\ To(c, "copying")
  /\ UNCHANGED <<session, server, readOnly, closed>>

EndCopy(c) ==
  /\ Up /\ req[c].at = "copying"
  /\ \/ req' = [req EXCEPT ![c].at = "operating", ![c].job = "copied"]
     \/ Answer(c, "error")
  /\ UNCHANGED <<session, server, readOnly, closed>>

\* A cancelled wait for a place is an error, and leaves no record; a restore whose copy
\* was not made goes no further.
GiveUp(c) ==
  /\ Up /\ req[c].at \in Waiting /\ req[c].client = "gone"
  /\ Answer(c, "error")
  /\ UNCHANGED <<session, server, readOnly, closed>>

\* Mutant: the outcome is not put into the job.
FinishJobUnset(c) == Up /\ req[c].at = "working" /\ To(c, "ended")
                     /\ UNCHANGED <<session, server, readOnly, closed>>

\* The job ends and its final record is written.  A job whose context has been
\* cancelled is cut short by it, unless its last command had ended by then.
FinishJob(c) ==
  /\ Up /\ req[c].at = "working"
  /\ \E outcome \in {"done", "failed"} :
       req' = [req EXCEPT ![c].at = "ended", ![c].job = outcome]
  /\ UNCHANGED <<session, server, readOnly, closed>>

\* operationHandler, writeOperationResult
AnswerJob(c) ==
  /\ Up /\ req[c].at = "ended"
  /\ Answer(c, IF req[c].job = "done" THEN "ok" ELSE "error")
  /\ UNCHANGED <<session, server, readOnly, closed>>

\* withRecovery: the panic of one handler is one answer.  The deferred release of
\* Acquire runs, and the final record of Submit is not reached.
Panic(c) ==
  /\ Up /\ req[c].at \in InProgress
  /\ Answer(c, "error")
  /\ UNCHANGED <<session, server, readOnly, closed>>

\* SIGTERM: http.Server.Shutdown closes the listener and waits.
Terminate ==
  /\ server = "serving"
  /\ server' = "draining"
  /\ UNCHANGED <<session, readOnly, req, closed>>

Quiet == \A c \in Client : req[c].at \notin InProgress

\* Shutdown returns: the process exits with code 0.
Stop ==
  /\ server = "draining" /\ Quiet
  /\ server' = "stopped"
  /\ UNCHANGED <<session, readOnly, req, closed>>

\* Mutant: Shutdown gets a context without a deadline.
AbortNever == /\ server = "draining" /\ Quiet /\ FALSE
              /\ UNCHANGED <<session, readOnly, req, closed>>

\* shutdownTimeout passes first: the process exits with code 1, and its requests,
\* its jobs and their records stay as they are.
Abort ==
  /\ server = "draining" /\ ~Quiet
  /\ server' = "aborted"
  /\ UNCHANGED <<session, readOnly, req, closed>>

\* The listener fails, at the start (the port is taken) or later.
ListenFails ==
  /\ server = "serving"
  /\ server' = "aborted"
  /\ UNCHANGED <<session, readOnly, req, closed>>

\* The process is killed at any moment.
Kill ==
  /\ Up
  /\ server' = "aborted"
  /\ UNCHANGED <<session, readOnly, req, closed>>

\* A new process (Restart=on-failure in the unit): sessions and requests were in
\* memory.
Restart ==
  /\ server = "aborted"
  /\ server' = "serving"
  /\ End(Session)
  /\ req' = [c \in Client |-> NoRequest]
  /\ UNCHANGED <<readOnly, closed>>

\* Sessions expire with time.
Expire(s) == Up /\ Alive(s) /\ End({s}) /\ UNCHANGED webVars

Handle(c) == \/ Login(c) \/ RequireSession(c) \/ RequireToken(c) \/ ShowPage(c)
             \/ CheckForm(c) \/ CheckBody(c) \/ WebLogout(c) \/ CallOperation(c)
             \/ Refuse(c) \/ DryRun(c) \/ EnqueueCopy(c) \/ Enqueue(c) \/ AnswerJob(c)

StartsWork(c) == StartCopy(c) \/ StartJob(c)
JobEnds(c) == FinishJob(c) \/ EndCopy(c)

WebNext == \/ \E c \in Client :
                \/ \E kind \in {"login", "page", "form", "logout", "api"},
                      by \in Session \cup {NoCredential, Token} : Arrive(c, kind, by)
                \/ Leave(c) \/ Handle(c) \/ GiveUp(c) \/ StartsWork(c) \/ JobEnds(c) \/ Panic(c)
           \/ \E s \in Session : Expire(s)
           \/ Terminate \/ Stop \/ Abort \/ ListenFails \/ Kill \/ Restart

WebSpec == WebInit /\ [][WebNext]_serveVars

\* net/http runs a handler until it returns, a channel serves those that wait in
\* turn, and Shutdown returns or its deadline passes.  Nothing makes a job end, not
\* even that its client has left: its tool may be out of reach (PgClient).
WebFairness ==
  /\ \A c \in Client : /\ WF_serveVars(Handle(c)) /\ WF_serveVars(GiveUp(c))
                       /\ SF_serveVars(StartsWork(c))
  /\ WF_serveVars(Stop \/ Abort)

FairWebSpec == WebSpec /\ WebFairness
-----------------------------------------------------------------------------
\* Type invariant, with what a request carries at each place: a job has an
\* outcome when it has ended, and a credential fits the kind of its request.
WebTypeOK ==
  /\ session \in [Session -> {"unborn", "alive", "dead"}]
  /\ server \in {"serving", "draining", "stopped", "aborted"}
  /\ readOnly \in {"yes", "no"}
  /\ closed \subseteq Session
  /\ \A c \in Client :
       LET r == req[c] IN
       /\ r.at \in {"idle"} \cup InProgress
       /\ r.by = Token <=> r.kind = "api"
       /\ r.at = "working" => r.job = "running"
       /\ r.at = "ended" => r.job \in {"done", "failed"}
       /\ r.at \in {"operating", "queued"} => r.job \in {"none", "copied"}
       /\ r.at \in {"copy-queued", "copying"} => r.job = "none"

\* No work is done for a session whose logout was carried out before the request
\* came, and none at all in the read-only mode, whichever of the two ways a request
\* takes (requireSession and checkCSRF, requireToken and apiWritable) and whatever
\* logouts, restarts and other requests happen in the meantime.
WorkIsLawful ==
  \A c \in Client : req[c].at \in Operating =>
    /\ readOnly = "no" /\ req[c].late = "no"
    /\ req[c].kind = "api" \/ req[c].by \in Session

JobsEnd == \A c \in Client : []<>~InJob(c)

\* If jobs end, every request is answered, or the process ends: operations queue up
\* behind each other, restores wait twice, clients leave, and nobody waits for ever.
EveryRequestAnswered ==
  JobsEnd => \A c \in Client :
               req[c].at \in InProgress ~> req[c].at \notin InProgress \/ ~Up

\* After SIGTERM the process ends even if no job ever does.
ServerEnds == server = "draining" ~> server \in {"stopped", "aborted"}
=============================================================================
