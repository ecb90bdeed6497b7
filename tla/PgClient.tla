------------------------------ MODULE PgClient ------------------------------
(***************************************************************************)
(* One call of the PostgreSQL client: internal/pg.                         *)
(*                                                                         *)
(* A method checks its arguments, looks for the tool, starts it (through   *)
(* sudo in mode "sudo"), waits for it and reads what it has written.  The  *)
(* context of the call carries postgres.timeout and the caller's           *)
(* cancellation.  The tool, the server and other users of it are external: *)
(* a tool may hang, and a statement that was sent may be carried out after *)
(* the tool is gone, by pg_restore's workers among others.                 *)
(***************************************************************************)
EXTENDS Integers

CONSTANT PgMode  \* postgres.mode: "sudo" or "tcp"

ASSUME PgModeAssumption == PgMode \in {"sudo", "tcp"}

VARIABLES call,     \* the call: where it is, its method, its result
          expired,  \* its context is done: "yes" or "no"
          tool,     \* the process of the tool
          sent,     \* the statement or transfer: "none", "sent", "done" or "lost"
          answer,   \* what the tool has written for the method to read
          output,   \* the copy of it to the caller's file: "whole" or "broken"
          cluster,  \* the database the call is about: "present" or "absent"
          seen      \* history: what cluster has been since the call began

pgVars == <<call, expired, tool, sent, answer, output, cluster, seen>>

\* Methods that read about a database, those that change it or its sessions with a
\* statement, and those that carry an archive.  The others ask a tool, or the server, about
\* itself; ClientVersions asks several tools in turn, and ToolVersion is one of them.
Reads == {"DatabaseExists", "DatabaseLocale", "DatabaseSize", "Sessions"}
Changes == {"CreateDatabase", "DropDatabase", "TerminateBackends", "AlterDatabaseOwner"}
Streams == {"Dump", "Restore"}
Asks == {"Ping", "ServerVersion", "ToolVersion", "RoleInfo", "ListDatabases", "ListArchive",
         "WaitForReady"}
Method == Reads \cup Changes \cup Streams \cup Asks

\* Methods for which an answer without rows or entries is an error; for DatabaseExists it is
\* an answer.  The others read it as zero, or read nothing.
NeedsRows == {"DatabaseLocale", "DatabaseSize", "ServerVersion", "ToolVersion", "RoleInfo",
              "ListArchive"}

\* Methods whose statement the server refuses for a database that is not there, and those
\* for which a query about one has no rows.
NeedsDatabase == {"AlterDatabaseOwner", "DatabaseSize", "Dump", "Restore"}
RowOfDatabase == {"DatabaseExists", "DatabaseLocale"}

InCall == call.at \in {"arguments", "binary", "starting", "running", "pausing"}
At(place) == call.at = place
To(place) == call' = [call EXCEPT !.at = place]
Returns(result) == call' = [call EXCEPT !.at = "returned", !.result = result]
Ended == tool \in {"succeeded", "failed", "killed"}

PgInit ==
  /\ call = [at |-> "returned", method |-> "Dump", result |-> "none"]
  /\ expired = "no" /\ tool = "none" /\ sent = "none" /\ answer = "none" /\ output = "whole"
  /\ cluster \in {"present", "absent"}
  /\ seen = {cluster}
-----------------------------------------------------------------------------
Call(method) ==
  /\ At("returned")
  /\ sent # "sent"
  /\ call' = [at |-> "arguments", method |-> method, result |-> "none"]
  /\ expired' = "no" /\ tool' = "none" /\ sent' = "none" /\ answer' = "none" /\ output' = "whole"
  /\ seen' = {cluster}
  /\ UNCHANGED cluster

\* Mutant: a database that could not be looked up is taken to be absent.
FailsAbsent == IF call.method = "DatabaseExists" THEN Returns("absent") ELSE Returns("error")

\* A failed step ends the method; WaitForReady keeps the error and waits.
Fails == IF call.method = "WaitForReady" THEN To("pausing") ELSE Returns("error")

\* The name of the database, the identifiers, the format, the compression, the number of
\* jobs and the additional arguments are checked; or the argument vector is made.
CheckArguments ==
  /\ At("arguments")
  /\ To("binary") \/ Fails
  /\ UNCHANGED <<expired, tool, sent, answer, output, cluster, seen>>

FindBinary ==
  /\ At("binary")
  /\ To("starting") \/ Fails
  /\ UNCHANGED <<expired, tool, sent, answer, output, cluster, seen>>

\* exec.Cmd.Start refuses a context that is done.
Start ==
  /\ At("starting")
  /\ \/ expired = "no" /\ To("running") /\ tool' = "working"
     \/ Fails /\ UNCHANGED tool
  /\ UNCHANGED <<expired, sent, answer, output, cluster, seen>>

Expire ==
  /\ InCall /\ expired = "no"
  /\ expired' = "yes"
  /\ UNCHANGED <<call, tool, sent, answer, output, cluster, seen>>

\* Mutant: the killed process is sudo, whatever the mode.
KillRefused == FALSE /\ UNCHANGED pgVars

\* The watcher of exec.CommandContext sends SIGKILL.  In mode "sudo" the process
\* is sudo, which belongs to root: the signal is refused, and the wait goes on.
\* The signal is for one process: the workers that pg_restore --jobs has forked live
\* on without it.
Kill ==
  /\ At("running") /\ expired = "yes" /\ tool = "working"
  /\ PgMode = "tcp"
  /\ tool' = "killed" \/ (call.method = "Restore" /\ tool' = "orphaned")
  /\ UNCHANGED <<call, expired, sent, answer, output, cluster, seen>>

\* The last worker ends: its statement is over, and it finds its leader gone.
WorkersFinish ==
  /\ tool = "orphaned"
  /\ tool' = "killed"
  /\ UNCHANGED <<call, expired, sent, answer, output, cluster, seen>>

\* Mutant: the call does not wait for a tool whose time is up.
ReturnAtOnce == /\ At("running") /\ (Ended \/ expired = "yes")
                /\ Returns("error")
                /\ UNCHANGED <<expired, tool, sent, answer, output, cluster, seen>>

\* What the method makes of the end of its tool.
NoRows == IF call.method = "DatabaseExists" THEN Returns("absent")
          ELSE IF call.method \in NeedsRows THEN Fails
          ELSE Returns("ok")
Rows == IF call.method = "DatabaseExists" THEN Returns("present") ELSE Returns("ok")

\* Run and Output return when the tool has ended and its pipes are closed by every
\* process that holds them: no writer is a file, and no WaitDelay is set.  An exit status, a
\* copy that broke and, mostly, a context that was done are errors, even when the work
\* was carried out.
Return ==
  /\ At("running") /\ Ended
  /\ \/ /\ tool = "succeeded" /\ output = "whole"
        /\ IF answer = "rows" THEN Rows ELSE NoRows
     \/ /\ tool # "succeeded" \/ output = "broken" \/ expired = "yes"
        /\ Fails
  /\ UNCHANGED <<expired, tool, sent, answer, output, cluster, seen>>

\* WaitForReady: the end of the context, or a pause and another pg_isready; both
\* may be ready, and select takes either.
GiveUpWaiting == /\ At("pausing") /\ expired = "yes"
                 /\ Returns("error")
                 /\ UNCHANGED <<expired, tool, sent, answer, output, cluster, seen>>
PingAgain == /\ At("pausing")
             /\ To("arguments")
             /\ tool' = "none" /\ sent' = "none" /\ answer' = "none"
             /\ UNCHANGED <<expired, output, cluster, seen>>
-----------------------------------------------------------------------------
\* The tool, or a worker of it, passes the request on.
Send ==
  /\ tool \in {"working", "orphaned"} /\ sent = "none"
  /\ sent' = "sent"
  /\ UNCHANGED <<call, expired, tool, answer, output, cluster, seen>>

Becomes(state) == cluster' = state /\ seen' = seen \cup {state}

\* The server carries it out, perhaps after the tool has gone.
Serve ==
  /\ sent = "sent"
  /\ call.method \in NeedsDatabase => cluster = "present"
  /\ sent' = "done"
  /\ CASE call.method = "CreateDatabase" -> cluster = "absent" /\ Becomes("present")
       [] call.method = "DropDatabase" -> Becomes("absent")
       [] OTHER -> UNCHANGED <<cluster, seen>>
  /\ answer' = IF call.method \in RowOfDatabase /\ cluster = "absent" THEN "nothing" ELSE "rows"
  /\ UNCHANGED <<call, expired, tool, output>>

\* It fails there, or there is nothing to tell: an archive lists nothing, an output
\* has no version in it.
ServeNothing ==
  /\ sent = "sent"
  /\ \/ sent' = "lost" /\ UNCHANGED answer
     \/ call.method \in Asks /\ sent' = "done" /\ answer' = "nothing"
  /\ UNCHANGED <<call, expired, tool, output, cluster, seen>>

\* The caller's file refuses a write (a full disk).
BreakOutput ==
  /\ tool = "working" /\ call.method = "Dump"
  /\ output' = "broken"
  /\ UNCHANGED <<call, expired, tool, sent, answer, cluster, seen>>

\* ON_ERROR_STOP, --exit-on-error and pg_dump itself: status 0 means that all of
\* the work has been done.  A failure may be told of work that was.
ToolEnds ==
  /\ tool = "working"
  /\ \/ sent = "done" /\ tool' = "succeeded"
     \/ tool' = "failed"
  /\ UNCHANGED <<call, expired, sent, answer, output, cluster, seen>>

\* Other users of the cluster.
OthersChange ==
  /\ Becomes(IF cluster = "present" THEN "absent" ELSE "present")
  /\ UNCHANGED <<call, expired, tool, sent, answer, output>>

ClientStep == CheckArguments \/ FindBinary \/ Start \/ Return \/ GiveUpWaiting \/ PingAgain
PgNext == \/ \E method \in Method : Call(method)
          \/ ClientStep \/ Expire \/ Kill \/ WorkersFinish
          \/ Send \/ Serve \/ ServeNothing \/ BreakOutput \/ ToolEnds \/ OthersChange

\* The client's goroutine and the watcher of the context run; select is fair in
\* the long run.  Nothing makes a tool, its workers or a server go on.
PgFairness == WF_pgVars(ClientStep) /\ WF_pgVars(Kill) /\ SF_pgVars(GiveUpWaiting)
FairPgSpec == PgInit /\ [][PgNext]_pgVars /\ PgFairness
-----------------------------------------------------------------------------
\* Type invariant, with the order of a call: the tool runs only inside one, and
\* is over when it returns.
PgTypeOK ==
  /\ call.method \in Method
  /\ call.at \in {"arguments", "binary", "starting", "running", "pausing", "returned"}
  /\ call.result \in {"none", "ok", "error", "present", "absent"}
  /\ expired \in {"yes", "no"} /\ output \in {"whole", "broken"}
  /\ answer \in {"none", "rows", "nothing"} /\ sent \in {"none", "sent", "done", "lost"}
  /\ cluster \in {"present", "absent"} /\ cluster \in seen
  /\ tool \in {"working", "orphaned"} => At("running")
  /\ call.result \in {"present", "absent"} => call.method = "DatabaseExists"

\* What a method answers was so: a dump that is reported whole has reached the caller's
\* file, a statement has been carried out, and a database is called present or absent only
\* if it was, at some moment of the call.  A failed look-up is neither: Restore would create
\* a database, or clean one, on the strength of it.
AnswersAreTrue ==
  At("returned") =>
    /\ call.result \in {"present", "absent"} => call.result \in seen
    /\ call.result = "ok" => sent = "done" /\ output = "whole"
    /\ call.result = "ok" /\ call.method = "CreateDatabase" => seen = {"present", "absent"}

\* A call whose time is up returns, even if its tool hangs (client.go:25-26: a
\* hanging command must not hold a task for ever).
HungCallReturns == (InCall /\ expired = "yes") ~> At("returned")

\* The workers of a pg_restore that was killed end some time.
WorkersEnd == (tool = "orphaned") ~> (tool # "orphaned")

\* What of that is so without sudo: a call whose time is up returns although its tool would
\* hang for ever, a restore only when the workers it has left behind have ended; until then
\* they hold the pipes that Run waits for.
CutOffCallReturns ==
  /\ (InCall /\ expired = "yes" /\ call.method # "Restore") ~> At("returned")
  /\ WorkersEnd => HungCallReturns
=============================================================================
