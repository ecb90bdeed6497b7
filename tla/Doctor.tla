------------------------------- MODULE Doctor -------------------------------
(***************************************************************************)
(* sqlbrc doctor: internal/doctor.                                         *)
(*                                                                         *)
(* Run makes its checks one after the other, and each adds a line to the   *)
(* report with a level.  The host is the set of what is wrong with it,     *)
(* which may change between two checks and between the two calls of one.   *)
(* A defect may hide another: without a server nothing is learnt of roles  *)
(* or versions.                                                            *)
(***************************************************************************)
EXTENDS Integers, FiniteSets, Sequences

CONSTANTS MaxDefects, \* bound: defects at one time
          MaxChanges  \* bound: changes of the host during one run

ASSUME DoctorAssumption == MaxDefects \in Nat /\ MaxChanges \in Nat

VARIABLES mode,     \* postgres.mode; "unset" is "sudo" for the client
          host,     \* what is wrong now
          doctorAt, \* how many of the checks have been made
          report,   \* the level of each line of the report
          server,   \* serverInfo: is the version of the server known?
          halfway,  \* the check whose first call has gone well and whose second is to come
          changes,
          always, ever  \* history: what has been wrong throughout, and at some moment

doctorVars == <<mode, host, doctorAt, report, server, halfway, changes, always, ever>>

Checks == <<"config", "sudo", "pgpass", "server", "clients", "role", "storage-dir", "state-dir",
            "locales", "archive-access", "systemd-unit", "web-security", "retention">>

\* What keeps the service from working, and what is a risk.  Without rights to create
\* databases, or with clients older than the server, operations fail.  Of odd clients the
\* version cannot be parsed, of pg_dump's at least, and of an odd archive the table of contents.
Serious == {"config-invalid", "sudo-refused", "password-missing", "password-open", "server-down",
            "clients-missing", "clients-older", "clients-odd", "role-powerless", "storage-missing",
            "storage-not-writable", "storage-full", "state-missing", "state-not-writable",
            "archive-unreadable", "web-open"}
Risky == {"clients-newer", "role-no-superuser", "storage-open", "storage-space-unknown",
          "state-open", "locale-missing", "no-archive", "archive-odd", "no-unit",
          "web-insecure", "no-backup", "no-database"}
Defect == Serious \cup Risky

\* Some exclude each other, and some are none in this mode.
Impossible == IF mode = "tcp" THEN {"sudo-refused"} ELSE {"password-missing", "password-open"}
Exclusive == {{"password-missing", "password-open"}, {"clients-older", "clients-newer"},
              {"no-archive", "archive-odd"}, {"archive-unreadable", "archive-odd"},
              {"role-powerless", "role-no-superuser"}, {"storage-full", "storage-space-unknown"},
              {"no-archive", "archive-unreadable"}, {"web-open", "web-insecure"}}
           \cup {{"clients-missing", d} : d \in {"clients-older", "clients-newer", "clients-odd"}}
           \cup {{"clients-odd", d} : d \in {"clients-older", "clients-newer"}}
           \cup {{"storage-missing", d} : d \in {"storage-open", "storage-not-writable",
                  "storage-full", "storage-space-unknown", "archive-unreadable", "archive-odd"}}
           \cup {{"state-missing", d} : d \in {"state-open", "state-not-writable"}}
Possible(D) == /\ D \cap Impossible = {} /\ Cardinality(D) <= MaxDefects
               /\ \A pair \in Exclusive : ~(pair \subseteq D)

Wrong(defect) == defect \in host
\* A tool of PostgreSQL can be run.  Not through sudo, if Prefix has been given no mode.
Runs == ~Wrong("clients-missing") /\ ~Wrong("sudo-refused")
RunsAsWritten == ~Wrong("clients-missing") /\ (mode = "sudo" => ~Wrong("sudo-refused"))
Answers == Runs /\ ~Wrong("server-down")

Worst(S) == IF "error" \in S THEN "error" ELSE IF "warn" \in S THEN "warn" ELSE "ok"
Ill(defect, level) == IF Wrong(defect) THEN {level} ELSE {}
-----------------------------------------------------------------------------
DoctorInit ==
  /\ mode \in {"sudo", "tcp", "unset"}
  /\ host \in {D \in {{}} \cup {{d, e} : d, e \in Defect} : Possible(D)}
  /\ doctorAt = 0 /\ report = <<>> /\ server = "unknown" /\ halfway = "none" /\ changes = 0
  /\ always = host /\ ever = host

Due(check) == doctorAt < Len(Checks) /\ Checks[doctorAt + 1] = check
Line(level) == /\ report' = Append(report, level)
               /\ doctorAt' = doctorAt + 1
               /\ UNCHANGED <<mode, host, changes, always, ever>>
NoLine == /\ doctorAt' = doctorAt + 1
          /\ UNCHANGED <<mode, host, report, changes, always, ever>>

StillDue == UNCHANGED <<mode, host, doctorAt, report, changes, always, ever>>

\* An invalid configuration is reported alone.
CheckConfig ==
  /\ Due("config")
  /\ IF Wrong("config-invalid")
     THEN /\ report' = <<"error">> /\ doctorAt' = Len(Checks)
          /\ UNCHANGED <<mode, host, changes, always, ever>>
     ELSE Line("ok")
  /\ UNCHANGED <<server, halfway>>

\* checkSudo goes by Prefix, which knows no defaults: without a mode the tool is
\* run directly, and the report says that sudo works.
CheckSudo ==
  /\ Due("sudo")
  /\ Line(IF mode = "tcp" THEN "ok"
          ELSE IF ~RunsAsWritten THEN "error" ELSE Worst(Ill("clients-odd", "warn")))
  /\ UNCHANGED <<server, halfway>>

CheckPasswordFile ==
  /\ Due("pgpass")
  /\ IF mode # "tcp" THEN NoLine
     ELSE Line(Worst(Ill("password-missing", "error") \cup Ill("password-open", "error")))
  /\ UNCHANGED <<server, halfway>>

\* checkServer: Ping, and then the version is asked for, of a server that may have gone.
PingServer ==
  /\ Due("server") /\ halfway = "none"
  /\ IF Answers THEN halfway' = "server" /\ StillDue
                ELSE Line("error") /\ UNCHANGED halfway
  /\ UNCHANGED server

ServerVersion ==
  /\ Due("server") /\ halfway = "server"
  /\ halfway' = "none"
  /\ server' = IF Answers THEN "known" ELSE "unknown"
  /\ Line(IF Answers THEN "ok" ELSE "error")

\* Compared with what checkServer has learnt; without that the versions are fine.
CheckClients ==
  /\ Due("clients")
  /\ Line(IF ~Runs \/ Wrong("clients-odd") THEN "error" ELSE IF server = "unknown" THEN "ok"
          ELSE Worst(Ill("clients-older", "error") \cup Ill("clients-newer", "warn")))
  /\ UNCHANGED <<server, halfway>>

CheckRole ==
  /\ Due("role")
  /\ Line(IF ~Answers THEN "error"
          ELSE Worst(Ill("role-powerless", "error") \cup Ill("role-no-superuser", "warn")))
  /\ UNCHANGED <<server, halfway>>

\* Mutant: free space that cannot be found out makes any line a warning.
DirLevelLast(open, notWritable, full, unknown) ==
  IF Wrong(unknown) THEN "warn"
  ELSE Worst(Ill(open, "warn") \cup Ill(notWritable, "error") \cup Ill(full, "error"))

\* checkDir: one line for all that is wrong with a directory.
DirLevel(open, notWritable, full, unknown) ==
  Worst(Ill(open, "warn") \cup Ill(notWritable, "error") \cup Ill(full, "error")
        \cup Ill(unknown, "warn"))

CheckBackupDir ==
  /\ Due("storage-dir")
  /\ Line(IF Wrong("storage-missing") THEN "error"
          ELSE DirLevel("storage-open", "storage-not-writable", "storage-full",
                        "storage-space-unknown"))
  /\ UNCHANGED <<server, halfway>>

\* The state directory has no threshold of free space.
CheckStateDir ==
  /\ Due("state-dir")
  /\ Line(IF Wrong("state-missing") THEN "error"
          ELSE DirLevel("state-open", "state-not-writable", "none", "none"))
  /\ UNCHANGED <<server, halfway>>

CheckLocales ==
  /\ Due("locales")
  /\ Line(IF Answers /\ ~Wrong("locale-missing") THEN "ok" ELSE "warn")
  /\ UNCHANGED <<server, halfway>>

\* newestArchive: the directories of the store are read first.
FindArchive ==
  /\ Due("archive-access") /\ halfway = "none"
  /\ IF Wrong("no-archive") \/ Wrong("storage-missing") THEN Line("warn") /\ UNCHANGED halfway
     ELSE halfway' = "archive-access" /\ StillDue
  /\ UNCHANGED server

\* Then pg_restore --list is run on what was found, as the user postgres (without a mode it
\* is the service's own user, who can read it), and a prune may have removed it.
OpenArchive ==
  /\ Due("archive-access") /\ halfway = "archive-access"
  /\ halfway' = "none"
  /\ \/ /\ ~Wrong("no-archive")
        /\ Line(IF \/ ~RunsAsWritten \/ Wrong("storage-missing")
                   \/ Wrong("archive-unreadable") /\ mode # "unset"
                THEN "error" ELSE Worst(Ill("archive-odd", "warn")))
     \/ /\ report' = Append(report, "error") /\ doctorAt' = doctorAt + 1
        /\ ever' = ever \cup {"archive-removed-meanwhile"}
        /\ UNCHANGED <<mode, host, changes, always>>
  /\ UNCHANGED server

CheckUnit ==
  /\ Due("systemd-unit")
  /\ Line(IF Wrong("no-unit") THEN "warn" ELSE "ok")
  /\ UNCHANGED <<server, halfway>>

CheckWeb ==
  /\ Due("web-security")
  /\ Line(Worst(Ill("web-open", "error") \cup Ill("web-insecure", "warn")))
  /\ UNCHANGED <<server, halfway>>

\* The databases are listed once more, and each one's newest archive is looked for.
CheckRetention ==
  /\ Due("retention")
  /\ Line(IF Answers /\ ~Wrong("no-database") /\ ~Wrong("no-backup") /\ ~Wrong("no-archive")
             /\ ~Wrong("storage-missing") THEN "ok" ELSE "warn")
  /\ UNCHANGED <<server, halfway>>

\* Something is repaired or breaks.  The configuration was read before Run.
HostChanges ==
  /\ changes < MaxChanges /\ doctorAt < Len(Checks)
  /\ \E d \in Defect \ {"config-invalid", "web-open", "web-insecure"} :
       /\ host' = IF d \in host THEN host \ {d} ELSE host \cup {d}
       /\ Possible(host')
  /\ changes' = changes + 1
  /\ always' = always \cap host' /\ ever' = ever \cup host'
  /\ UNCHANGED <<mode, doctorAt, report, server, halfway>>

DoctorNext == \/ CheckConfig \/ CheckSudo \/ CheckPasswordFile \/ PingServer \/ ServerVersion
              \/ CheckClients \/ CheckRole \/ CheckBackupDir \/ CheckStateDir \/ CheckLocales
              \/ FindArchive \/ OpenArchive \/ CheckUnit \/ CheckWeb \/ CheckRetention
              \/ HostChanges

DoctorSpec == DoctorInit /\ [][DoctorNext]_doctorVars

Levels == {report[i] : i \in DOMAIN report}
DoctorDone == doctorAt = Len(Checks)
DoctorExit == IF "error" \in Levels THEN 1 ELSE 0
-----------------------------------------------------------------------------
DoctorTypeOK ==
  /\ mode \in {"sudo", "tcp", "unset"}
  /\ host \subseteq Defect /\ always \subseteq host /\ host \subseteq ever
  /\ doctorAt \in 0 .. Len(Checks) /\ Len(report) <= doctorAt
  /\ Levels \subseteq {"ok", "warn", "error"}
  /\ halfway # "none" => Due(halfway)

\* The exit code serves monitoring (doctor.go:31, report.go): whatever hides what, a defect
\* with which the service cannot work and that was there all the time is an error of the
\* report, and a risk is at least a warning of it; nothing is called an error that was not
\* there at any moment, but for an archive that was removed while it was being read.  Without
\* a mode, which Validate lets pass, an archive that postgres cannot read is not noticed.
Unnoticed == IF mode = "unset" THEN {"archive-unreadable"} ELSE {}
DoctorIsRight ==
  DoctorDone =>
    /\ always \cap (Serious \ Unnoticed) # {} => DoctorExit = 1
    /\ always \cap Risky # {} => Levels \cap {"warn", "error"} # {}
    /\ DoctorExit = 1 => ever \cap (Serious \cup {"archive-removed-meanwhile"}) # {}
=============================================================================
