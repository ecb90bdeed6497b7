-------------------------- MODULE WebServerProofs ---------------------------
(***************************************************************************)
(* Proofs about WebServer, for any number of clients, sessions and places  *)
(* in the queue.                                                           *)
(***************************************************************************)
EXTENDS WebServer, TLAPS

Place == {"idle"} \cup InProgress
Kind == {"none", "login", "page", "form", "logout", "api"}
Work == {"none", "running", "copied", "done", "failed"}
Request == [at : Place, kind : Kind, by : Session \cup {NoCredential, Token},
            late : {"yes", "no"}, client : {"here", "gone"}, job : Work,
            answer : {"none", "ok", "error"}]

\* What holds of one request: what it carries at each place, and what it had to show on the way
\* there.  Past requireSession a session was alive, so it had not been closed when the request
\* came; past ensureWritable the service is not read-only.
Good(r, ended, writable, life) ==
  /\ r.by = Token <=> r.kind = "api"
  /\ r.at \in {"arrived", "authorised", "reading"} => r.job = "none"
  /\ r.at = "working" => r.job = "running"
  /\ r.at = "ended" => r.job \in {"done", "failed"}
  /\ r.at \in {"operating", "queued"} => r.job \in {"none", "copied"}
  /\ r.at \in {"copy-queued", "copying"} => r.job = "none"
  /\ r.late = "yes" => r.by \in ended
  /\ r.at \in {"authorised", "reading"} \cup Operating =>
       /\ r.late = "no"
       /\ r.kind = "api" \/ (r.by \in Session /\ life[r.by] # "unborn")
  /\ r.at \in Operating \/ (r.at = "reading" /\ r.kind # "logout") => writable = "no"

\* The inductive invariant: what was closed is dead, in the map of sessions.
WebInv ==
  /\ session \in [Session -> {"unborn", "alive", "dead"}]
  /\ server \in {"serving", "draining", "stopped", "aborted"}
  /\ readOnly \in {"yes", "no"}
  /\ closed \subseteq Session
  /\ \A s \in closed : session[s] = "dead"
  /\ req \in [Client -> Request]
  /\ \A c \in Client : Good(req[c], closed, readOnly, session)

LEMMA InvImplies == WebInv => WebTypeOK /\ WorkIsLawful
<1>1. ASSUME WebInv, NEW c \in Client
      PROVE  /\ req[c].at \in Place
             /\ req[c].by = Token <=> req[c].kind = "api"
             /\ req[c].at = "working" => req[c].job = "running"
             /\ req[c].at = "ended" => req[c].job \in {"done", "failed"}
             /\ req[c].at \in {"operating", "queued"} => req[c].job \in {"none", "copied"}
             /\ req[c].at \in {"copy-queued", "copying"} => req[c].job = "none"
             /\ req[c].at \in Operating =>
                  /\ readOnly = "no" /\ req[c].late = "no"
                  /\ req[c].kind = "api" \/ req[c].by \in Session
  BY <1>1 DEF WebInv, Good, Request
<1>2. QED
  BY <1>1 DEF WebInv, WebTypeOK, WorkIsLawful, Place

\* A step that changes one request, and sessions only from alive to dead or by a birth.
LEMMA OneChanges ==
  ASSUME WebInv, NEW c \in Client, NEW r \in Request, req' = [req EXCEPT ![c] = r],
         closed \subseteq closed', closed' \subseteq Session,
         session' \in [Session -> {"unborn", "alive", "dead"}],
         \A s \in closed' : session'[s] = "dead",
         \A s \in Session : session[s] # "unborn" => session'[s] # "unborn",
         Good(r, closed', readOnly, session'), UNCHANGED <<server, readOnly>>
  PROVE  WebInv'
<1>1. req' \in [Client -> Request]
  BY DEF WebInv
<1>2. ASSUME NEW d \in Client
      PROVE  Good(req'[d], closed', readOnly, session')
  <2>1. CASE d = c
    BY <2>1 DEF WebInv
  <2>2. CASE d # c
    BY <2>2 DEF WebInv, Good
  <2>3. QED
    BY <2>1, <2>2
<1>3. \A d \in Client : Good(req[d], closed, readOnly, session)'
  BY <1>2
<1>4. QED
  BY <1>1, <1>3 DEF WebInv

\* The same when sessions are left alone: a move, an answer.
LEMMA Moved ==
  ASSUME WebInv, NEW c \in Client, NEW place \in Place, To(c, place),
         UNCHANGED <<session, server, readOnly, closed>>,
         Good([req[c] EXCEPT !.at = place], closed, readOnly, session)
  PROVE  WebInv'
<1>1. [req[c] EXCEPT !.at = place] \in Request
  BY DEF WebInv, Request
<1>2. req' = [req EXCEPT ![c] = [req[c] EXCEPT !.at = place]]
  BY DEF To
<1>3. QED
  BY <1>1, <1>2, OneChanges DEF WebInv

LEMMA Answered ==
  ASSUME WebInv, NEW c \in Client, NEW answer \in {"none", "ok", "error"}, Answer(c, answer),
         closed \subseteq closed', closed' \subseteq Session,
         session' \in [Session -> {"unborn", "alive", "dead"}],
         \A s \in closed' : session'[s] = "dead",
         \A s \in Session : session[s] # "unborn" => session'[s] # "unborn",
         UNCHANGED <<server, readOnly>>
  PROVE  WebInv'
<1>1. [NoRequest EXCEPT !.answer = answer] \in Request
  BY DEF NoRequest, Request, Place, Kind, Work
<1>2. Good([NoRequest EXCEPT !.answer = answer], closed', readOnly, session')
  BY WebAssumption DEF NoRequest, Good, InProgress, Operating
<1>3. req' = [req EXCEPT ![c] = [NoRequest EXCEPT !.answer = answer]]
  BY DEF Answer
<1>4. QED
  BY <1>1, <1>2, <1>3, OneChanges

LEMMA AnsweredOnly ==
  ASSUME WebInv, NEW c \in Client, NEW answer \in {"ok", "error"}, Answer(c, answer),
         UNCHANGED <<session, server, readOnly, closed>>
  PROVE  WebInv'
  BY Answered DEF WebInv

\* The life of sessions: a birth, an end, and nothing dead lives again.
LEMMA Opened ==
  ASSUME WebInv, NEW s \in Session, Open(s)
  PROVE  /\ session' \in [Session -> {"unborn", "alive", "dead"}]
         /\ \A e \in closed : session'[e] = "dead"
         /\ \A e \in Session : session[e] # "unborn" => session'[e] # "unborn"
  BY DEF WebInv, Open

LEMMA Ended ==
  ASSUME WebInv, NEW S \in SUBSET Session, End(S)
  PROVE  /\ session' \in [Session -> {"unborn", "alive", "dead"}]
         /\ \A e \in closed : session'[e] = "dead"
         /\ \A e \in Session : session[e] # "unborn" => session'[e] # "unborn"
         /\ \A e \in S : session[e] # "unborn" => session'[e] = "dead"
  BY DEF WebInv, End, Alive

\* Requests that are changed in several fields at once: a job's step, and an arrival.
LEMMA JobGood ==
  ASSUME NEW r \in Request, NEW ended, NEW writable, NEW life, Good(r, ended, writable, life),
         NEW place \in Operating, NEW job \in Work, r.at \in Operating,
         place = "working" => job = "running",
         place = "ended" => job \in {"done", "failed"},
         place \in {"operating", "queued"} => job \in {"none", "copied"},
         place \in {"copy-queued", "copying"} => job = "none"
  PROVE  /\ [r EXCEPT !.at = place, !.job = job] \in Request
         /\ Good([r EXCEPT !.at = place, !.job = job], ended, writable, life)
<1>1. place \in Place
  BY DEF Place, InProgress, Operating
<1>2. [r EXCEPT !.at = place, !.job = job] \in Request
  BY <1>1 DEF Request
<1>3. Good([r EXCEPT !.at = place, !.job = job], ended, writable, life)
  BY DEF Request, Good, Operating
<1>4. QED
  BY <1>2, <1>3

LEMMA ArrivedGood ==
  ASSUME NEW r \in Request, r.job = "none", NEW ended, NEW writable, NEW life,
         NEW kind \in Kind, NEW by \in Session \cup {NoCredential, Token},
         NEW late \in {"yes", "no"}, by = Token <=> kind = "api", late = "yes" => by \in ended
  PROVE  /\ [r EXCEPT !.at = "arrived", !.kind = kind, !.by = by, !.late = late] \in Request
         /\ Good([r EXCEPT !.at = "arrived", !.kind = kind, !.by = by, !.late = late],
                 ended, writable, life)
<1>1. "arrived" \in Place
  BY DEF Place, InProgress
<1>2. [r EXCEPT !.at = "arrived", !.kind = kind, !.by = by, !.late = late] \in Request
  BY <1>1 DEF Request
<1>3. Good([r EXCEPT !.at = "arrived", !.kind = kind, !.by = by, !.late = late],
           ended, writable, life)
  BY DEF Request, Good, Operating
<1>4. QED
  BY <1>2, <1>3

\* A job's step: the request moves and its job gets a state.
JobSet(c, place, job) == req' = [req EXCEPT ![c] = [req[c] EXCEPT !.at = place, !.job = job]]

LEMMA JobMoves ==
  ASSUME WebInv, NEW c \in Client, NEW place \in Operating, NEW job \in Work,
         JobSet(c, place, job), UNCHANGED <<session, server, readOnly, closed>>,
         req[c].at \in Operating,
         place = "working" => job = "running",
         place = "ended" => job \in {"done", "failed"},
         place \in {"operating", "queued"} => job \in {"none", "copied"},
         place \in {"copy-queued", "copying"} => job = "none"
  PROVE  WebInv'
<1> DEFINE r == [req[c] EXCEPT !.at = place, !.job = job]
<1>1. req[c] \in Request /\ Good(req[c], closed, readOnly, session)
  BY DEF WebInv
<1>2. r \in Request /\ Good(r, closed, readOnly, session)
  BY <1>1, JobGood
<1>3. req' = [req EXCEPT ![c] = r]
  BY DEF JobSet
<1> HIDE DEF r
<1>4. QED
  BY <1>2, <1>3, OneChanges DEF WebInv

\* Requests are left alone, and sessions go on living or end.
LEMMA QuietKeeps ==
  ASSUME WebInv, UNCHANGED <<req, readOnly, closed>>,
         server' \in {"serving", "draining", "stopped", "aborted"},
         session' \in [Session -> {"unborn", "alive", "dead"}],
         \A s \in closed : session'[s] = "dead",
         \A s \in Session : session[s] # "unborn" => session'[s] # "unborn"
  PROVE  WebInv'
<1>1. ASSUME NEW d \in Client
      PROVE  Good(req[d], closed, readOnly, session')
  BY DEF WebInv, Good
<1>2. \A d \in Client : Good(req[d], closed, readOnly, session)'
  BY <1>1
<1>3. QED
  BY <1>2 DEF WebInv

LEMMA WebInitInv == WebInit => WebInv
<1>1. NoRequest \in Request
  BY DEF NoRequest, Request, Place, Kind, Work
<1>2. \A life : Good(NoRequest, {}, "yes", life) /\ Good(NoRequest, {}, "no", life)
  BY WebAssumption DEF NoRequest, Good, InProgress, Operating
<1>3. QED
  BY <1>1, <1>2 DEF WebInit, LifeInit, WebInv

\* The steps of one client's request.
LEMMA RequestStep ==
  ASSUME WebInv, NEW c \in Client,
         \/ \E kind \in {"login", "page", "form", "logout", "api"},
               by \in Session \cup {NoCredential, Token} : Arrive(c, kind, by)
         \/ Leave(c) \/ Handle(c) \/ GiveUp(c) \/ StartsWork(c) \/ JobEnds(c) \/ Panic(c)
  PROVE  WebInv'
<1>r. req[c] \in Request /\ Good(req[c], closed, readOnly, session)
  BY DEF WebInv
<1>p. Place = {"idle", "arrived", "authorised", "reading", "operating", "copy-queued", "copying",
               "queued", "working", "ended"}
      /\ Operating = {"operating", "copy-queued", "copying", "queued", "working", "ended"}
  BY DEF Place, InProgress, Operating
<1>1. ASSUME NEW kind \in {"login", "page", "form", "logout", "api"},
             NEW by \in Session \cup {NoCredential, Token}, Arrive(c, kind, by)
      PROVE  WebInv'
  <2> DEFINE late == IF by \in closed THEN "yes" ELSE "no"
             r == [NoRequest EXCEPT !.at = "arrived", !.kind = kind, !.by = by, !.late = late]
  <2>1. req' = [req EXCEPT ![c] = r]
    BY <1>1 DEF Arrive
  <2>2. NoRequest \in Request /\ NoRequest.job = "none"
    BY DEF NoRequest, Request, Place, Kind, Work
  <2>3. by = Token <=> kind = "api"
    BY <1>1 DEF Arrive
  <2>4. r \in Request /\ Good(r, closed, readOnly, session)
    BY <2>2, <2>3, ArrivedGood DEF Kind
  <2> HIDE DEF r
  <2>5. QED
    BY <1>1, <2>1, <2>4, OneChanges DEF Arrive, WebInv
<1>2. CASE Leave(c)
  <2>1. [req[c] EXCEPT !.client = "gone"] \in Request
    BY <1>r DEF Request
  <2>2. Good([req[c] EXCEPT !.client = "gone"], closed, readOnly, session)
    BY <1>r DEF Good, Request
  <2>3. req' = [req EXCEPT ![c] = [req[c] EXCEPT !.client = "gone"]]
    BY <1>2 DEF Leave
  <2>4. QED
    BY <1>2, <2>1, <2>2, <2>3, OneChanges DEF Leave, WebInv
<1>3. CASE Login(c)
  <2>1. CASE Answer(c, "error") /\ UNCHANGED session
    BY <1>3, <2>1, AnsweredOnly DEF Login
  <2>2. ASSUME NEW s \in Session, Open(s), Answer(c, "ok")
        PROVE  WebInv'
    BY <1>3, <2>2, Opened, Answered DEF Login, WebInv
  <2>3. QED
    BY <1>3, <2>1, <2>2 DEF Login
<1>4. CASE RequireSession(c)
  <2>1. CASE req[c].by # NoCredential /\ Alive(req[c].by) /\ To(c, "authorised")
    <3>1. /\ req[c].by \in Session /\ req[c].by \notin closed
          /\ session[req[c].by] = "alive"
      BY <1>4, <2>1, <1>r DEF RequireSession, Request, Good, WebInv, Alive
    <3>2. Good([req[c] EXCEPT !.at = "authorised"], closed, readOnly, session)
      BY <1>4, <1>r, <1>p, <3>1 DEF RequireSession, Good, Request
    <3>3. QED
      BY <1>4, <2>1, <3>2, <1>p, Moved DEF RequireSession
  <2>2. CASE Answer(c, "error")
    BY <1>4, <2>2, AnsweredOnly DEF RequireSession
  <2>3. QED
    BY <1>4, <2>1, <2>2 DEF RequireSession
<1>5. CASE RequireToken(c)
  <2>1. CASE To(c, "authorised")
    <3>1. Good([req[c] EXCEPT !.at = "authorised"], closed, readOnly, session)
      BY <1>5, <1>r, <1>p, WebAssumption DEF RequireToken, Good, Request, WebInv
    <3>2. QED
      BY <1>5, <2>1, <3>1, <1>p, Moved DEF RequireToken
  <2>2. QED
    BY <1>5, <2>1, AnsweredOnly DEF RequireToken
<1>6. CASE ShowPage(c)
  BY <1>6, AnsweredOnly DEF ShowPage
<1>7. CASE CheckForm(c)
  <2>1. CASE (req[c].kind = "form" => readOnly = "no") /\ To(c, "reading")
    <3>1. Good([req[c] EXCEPT !.at = "reading"], closed, readOnly, session)
      BY <1>7, <2>1, <1>r, <1>p DEF CheckForm, Good, Request
    <3>2. QED
      BY <1>7, <2>1, <3>1, <1>p, Moved DEF CheckForm
  <2>2. QED
    BY <1>7, <2>1, AnsweredOnly DEF CheckForm
<1>8. CASE CheckBody(c)
  <2>1. CASE readOnly = "no" /\ To(c, "reading")
    <3>1. Good([req[c] EXCEPT !.at = "reading"], closed, readOnly, session)
      BY <1>8, <2>1, <1>r, <1>p DEF CheckBody, Good, Request
    <3>2. QED
      BY <1>8, <2>1, <3>1, <1>p, Moved DEF CheckBody
  <2>2. QED
    BY <1>8, <2>1, AnsweredOnly DEF CheckBody
<1>9. CASE WebLogout(c)
  <2>1. req[c].by \in Session
    BY <1>9, <1>r DEF WebLogout, Good
  <2>2. closed' = closed \cup {req[c].by} /\ closed' \subseteq Session
    BY <1>9, <2>1 DEF WebLogout, WebInv
  <2>3. session[req[c].by] # "unborn"
    BY <1>9, <1>r, WebAssumption DEF WebLogout, Good
  <2>4. QED
    BY <1>9, <2>1, <2>2, <2>3, Ended, Answered DEF WebLogout
<1>10. CASE CallOperation(c)
  <2>1. Good([req[c] EXCEPT !.at = "operating"], closed, readOnly, session)
    BY <1>10, <1>r, <1>p DEF CallOperation, Good, Request
  <2>2. QED
    BY <1>10, <2>1, <1>p, Moved DEF CallOperation
<1>11. CASE Refuse(c) \/ DryRun(c) \/ GiveUp(c) \/ Panic(c)
  BY <1>11, AnsweredOnly DEF Refuse, DryRun, GiveUp, Panic
<1>12. CASE Enqueue(c)
  <2>1. Good([req[c] EXCEPT !.at = "queued"], closed, readOnly, session)
    BY <1>12, <1>r, <1>p DEF Enqueue, Good, Request
  <2>2. QED
    BY <1>12, <2>1, <1>p, Moved DEF Enqueue
<1>13. CASE StartCopy(c)
  <2>1. Good([req[c] EXCEPT !.at = "copying"], closed, readOnly, session)
    BY <1>13, <1>r, <1>p DEF StartCopy, Good, Request
  <2>2. QED
    BY <1>13, <2>1, <1>p, Moved DEF StartCopy
<1>14. CASE EnqueueCopy(c)
  <2>1. Good([req[c] EXCEPT !.at = "copy-queued"], closed, readOnly, session)
    BY <1>14, <1>r, <1>p DEF EnqueueCopy, Good, Request
  <2>2. QED
    BY <1>14, <2>1, <1>p, Moved DEF EnqueueCopy
<1>15. CASE AnswerJob(c)
  BY <1>15, AnsweredOnly DEF AnswerJob
<1>16. CASE StartJob(c)
  <2>1. JobSet(c, "working", "running")
    BY <1>16 DEF StartJob, JobSet, WebInv
  <2>2. QED
    BY <1>16, <2>1, <1>p, JobMoves DEF StartJob, Work
<1>17. CASE FinishJob(c)
  <2>1. PICK outcome \in {"done", "failed"} : JobSet(c, "ended", outcome)
    BY <1>17 DEF FinishJob, JobSet, WebInv
  <2>2. QED
    BY <1>17, <2>1, <1>p, JobMoves DEF FinishJob, Work
<1>18. CASE EndCopy(c)
  <2>1. CASE JobSet(c, "operating", "copied")
    BY <1>18, <2>1, <1>p, JobMoves DEF EndCopy, Work
  <2>2. QED
    BY <1>18, <2>1, AnsweredOnly DEF EndCopy, JobSet, WebInv
<1>19. QED
  BY <1>1, <1>2, <1>3, <1>4, <1>5, <1>6, <1>7, <1>8, <1>9, <1>10, <1>11, <1>12, <1>13, <1>14,
     <1>15, <1>16, <1>17, <1>18 DEF Handle, StartsWork, JobEnds

\* The steps of the process as a whole.
LEMMA ProcessStep ==
  ASSUME WebInv,
         \/ \E s \in Session : Expire(s)
         \/ Terminate \/ Stop \/ Abort \/ ListenFails \/ Kill \/ Restart
  PROVE  WebInv'
<1>1. ASSUME NEW s \in Session, Expire(s)
      PROVE  WebInv'
  BY <1>1, Ended, QuietKeeps DEF Expire, webVars, WebInv
<1>2. CASE Terminate \/ Stop \/ Abort \/ ListenFails \/ Kill
  BY <1>2, QuietKeeps DEF Terminate, Stop, Abort, ListenFails, Kill, WebInv
<1>3. CASE Restart
  <2>1. /\ session' \in [Session -> {"unborn", "alive", "dead"}]
        /\ \A e \in closed : session'[e] = "dead"
    BY <1>3, Ended DEF Restart
  <2>2. NoRequest \in Request
    BY DEF NoRequest, Request, Place, Kind, Work
  <2>3. Good(NoRequest, closed, readOnly, session')
    BY WebAssumption DEF NoRequest, Good, InProgress, Operating
  <2>4. QED
    BY <1>3, <2>1, <2>2, <2>3 DEF Restart, WebInv
<1>4. QED
  BY <1>1, <1>2, <1>3

\* No work is done for a session that was closed before the request came, and none in the
\* read-only mode, for any number of clients, with panics, deaths and restarts at any moment
\* (WorkIsLawful).
THEOREM ServerWorksLawfully == WebSpec => [](WebTypeOK /\ WorkIsLawful)
<1>1. WebInv /\ [WebNext]_serveVars => WebInv'
  <2>1. WebInv /\ UNCHANGED serveVars => WebInv'
    BY QuietKeeps DEF serveVars, webVars, WebInv
  <2>2. QED
    BY <2>1, RequestStep, ProcessStep DEF WebNext
<1>2. QED
  BY <1>1, WebInitInv, InvImplies, PTL DEF WebSpec
=============================================================================
