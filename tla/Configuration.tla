--------------------------- MODULE Configuration ---------------------------
(***************************************************************************)
(* Configuration of sqlbrc and the start of the service with it:           *)
(* internal/config, cmd/sqlbrc/serve.go and app.go, and the rules for      *)
(* names of databases in internal/pg/dbname.go.                            *)
(*                                                                         *)
(* Settings are the defaults, then the file, then the environment; they    *)
(* are validated, and the parts of the service are made from them.  serve  *)
(* loads them twice, for the web interface and for the operations.         *)
(***************************************************************************)
EXTENDS Integers, FiniteSets

CONSTANTS ConfigFile,  \* what the file may hold: functions from some of the settings to values
          Edited,      \* what may be written to it between the two loads
          Environment, \* what SQLBRC_* may hold: a function of at most one setting to
                       \* a record of its form ("value", "empty", "junk") and value
          MaxMinFree   \* maxMinFreeSpace (1 TiB), in the unit of the model

VARIABLES setup,    \* how far serve is, whether it was given --listen, and whether the file
                    \* was written between the two loads
          file, env,
          web,      \* the settings of the web interface
          service,  \* those of the operations
          limits,   \* NewQueue's maxParallel and maxPerDB
          client    \* NewClient's timeout, and how a restore runs with postgres.jobs

configVars == <<setup, file, env, web, service, limits, client>>

\* Default.  Addresses, paths, users and patterns are told apart by what is checked of
\* them, and "unset" is the empty one; session_ttl is in hours, timeout in
\* minutes, login_backoff in seconds.
Default ==
  [schema |-> 1, listen |-> "lan", tls |-> "none", allowInsecure |-> "no", readOnly |-> "no",
   maxBody |-> 1048576, users |-> "none", tokenFile |-> "none", sessionTTL |-> 12,
   loginBackoff |-> 1, maxLoginAttempts |-> 5, mode |-> "sudo", sudoUser |-> "postgres",
   role |-> "unset", database |-> "postgres", host |-> "unset", port |-> "unset",
   passwordFile |-> "unset", pgJobs |-> 4, timeout |-> 120, dir |-> "/backups",
   stateDir |-> "/state", keepLast |-> 7, keepDays |-> 14, minFree |-> 1,
   pattern |-> "default", protected |-> "reserved", owner |-> "postgres",
   maxParallel |-> 2, maxPerDB |-> 1, retain |-> 200, level |-> "info", format |-> "text"]
Setting == DOMAIN Default

\* The settings that are numbers, by their types in config.go and parsed as such from the
\* environment.
Number == {"schema", "maxBody", "sessionTTL", "loginBackoff", "maxLoginAttempts", "pgJobs",
           "timeout", "keepLast", "keepDays", "minFree", "maxParallel", "maxPerDB", "retain"}

ASSUME ConfigAssumption ==
  /\ Edited \subseteq ConfigFile /\ MaxMinFree \in Nat
  /\ \A f \in ConfigFile : /\ DOMAIN f \subseteq Setting
                           /\ \A s \in DOMAIN f \cap Number : f[s] \in Int
  /\ \A e \in Environment : DOMAIN e \subseteq Setting /\ \A s \in DOMAIN e :
       /\ e[s].form \in {"value", "empty", "junk"}
       /\ (s \in Number /\ e[s].form = "value") => e[s].value \in Int

\* envOverrides, of those the model has.
Overridable == {"listen", "readOnly", "allowInsecure", "tls", "tokenFile", "mode", "sudoUser",
                "role", "passwordFile", "dir", "stateDir", "keepLast", "keepDays", "minFree",
                "pattern", "owner", "level", "format"}

Over(c, f) == [s \in Setting |-> IF s \in DOMAIN f THEN f[s] ELSE c[s]]
EnvSet == {s \in DOMAIN env \cap Overridable : env[s].form = "value"}
EnvJunk == {s \in DOMAIN env \cap Overridable : env[s].form = "junk"}

\* Read: a file without a version is of the current one, an empty variable is none.
Settings(f) ==
  LET fromFile == Over(Default, f)
      versioned == [fromFile EXCEPT !.schema = IF @ = 0 THEN 1 ELSE @]
  IN  Over(versioned, [s \in EnvSet |-> env[s].value])
-----------------------------------------------------------------------------
\* Validate collects all problems; here the settings that have one.
If(condition, setting) == IF condition THEN {setting} ELSE {}
Outer(c, setting, lo, hi) == If(c[setting] < lo \/ c[setting] > hi, setting)
Bare(c) == c.tls # "both" /\ c.allowInsecure = "no"

ServerProblems(c) ==
  If(c.listen \in {"unset", "unparsed", "bad-port"}, "listen")
    \cup If(c.listen = "lan" /\ Bare(c), "listen")
    \cup If(c.tls \in {"cert", "key"}, "tls") \cup Outer(c, "maxBody", 4096, 67108864)

AuthProblems(c) ==
  UNION {If(c.users = "none" /\ c.tokenFile = "none", "users"),
         If(c.users \in {"no-login", "odd-login", "twice", "no-hash", "odd-hash"}, "users"),
         Outer(c, "sessionTTL", 1, 168), If(c.loginBackoff < 0, "loginBackoff"),
         Outer(c, "maxLoginAttempts", 1, 100)}

\* WithDefaults: what is empty, zero or less stands for the default, so that of Prefix.Validate
\* and ValidateIdentifier only the form of a name is left to refuse.
PgJobs(c) == IF c.pgJobs <= 0 THEN 4 ELSE c.pgJobs
Timeout(c) == IF c.timeout <= 0 THEN 120 ELSE c.timeout
ClientProblems(c) ==
  UNION {If(c.mode # "tcp" /\ c.sudoUser = "bad", "sudoUser"), If(c.database = "bad", "database"),
         If(c.mode # "tcp" /\ c.passwordFile # "unset", "passwordFile"),
         If(PgJobs(c) \notin 1 .. 32, "pgJobs"), If(Timeout(c) \notin 1 .. 1440, "timeout")}
TCPProblems(c) ==
  UNION {If(c.host = "unset", "host"), If(c.port \in {"unset", "bad"}, "port"),
         If(c.role \in {"unset", "bad"}, "role"),
         If(c.passwordFile \in {"unset", "relative"}, "passwordFile")}

PostgresProblems(c) ==
  CASE c.mode = "tcp" -> TCPProblems(c) \cup ClientProblems(c)
    [] c.mode \in {"sudo", "unset"} ->
         If(c.role \notin {"unset", c.sudoUser}, "role") \cup ClientProblems(c)
    [] OTHER -> {"mode"}

StorageProblems(c) ==
  If(c.dir \in {"unset", "relative"}, "dir")
    \cup If(c.stateDir \in {"unset", "relative"}, "stateDir")
    \cup If(c.stateDir = c.dir /\ c.dir # "unset", "stateDir") \cup Outer(c, "keepLast", 1, 1000)
    \cup Outer(c, "keepDays", 1, 3650) \cup Outer(c, "minFree", 1, MaxMinFree)

\* Compile, IsAnchoredPattern and ValidateIdentifier.  The anchors are looked for at the two
\* ends of the text: "halves" is ^one|another$, which has them and matches parts of names.
DatabasesProblems(c) ==
  UNION {If(c.pattern \in {"no-regexp", "not-anchored"}, "pattern"),
         If(c.protected = "none", "protected"), If(c.owner = "bad", "owner")}

\* Mutant: the two limits are not compared with each other.
JobsProblemsApart(c) ==
  Outer(c, "maxParallel", 1, 16) \cup Outer(c, "maxPerDB", 1, 16)
    \cup Outer(c, "retain", 10, 100000)

JobsProblems(c) ==
  UNION {Outer(c, "maxParallel", 1, 16), Outer(c, "maxPerDB", 1, 16),
         If(c.maxPerDB > c.maxParallel, "maxPerDB"), Outer(c, "retain", 10, 100000)}

LoggingProblems(c) ==
  If(c.level \notin {"debug", "info", "warn", "error"}, "level")
    \cup If(c.format \notin {"text", "json"}, "format")

Problems(c) ==
  UNION {If(c.schema # 1, "schema"), ServerProblems(c), AuthProblems(c), PostgresProblems(c),
         StorageProblems(c), DatabasesProblems(c), JobsProblems(c), LoggingProblems(c)}
Loads == EnvJunk = {} /\ Problems(Settings(file)) = {}
-----------------------------------------------------------------------------
SetupAt(place) == setup' = [setup EXCEPT !.at = place]

ConfigInit ==
  /\ setup \in [at : {"loading"}, listenFlag : {"unset", "lan"}, edited : {"no"}]
  /\ file \in ConfigFile /\ env \in Environment
  /\ web = Default /\ service = Default /\ limits = <<0, 0>>
  /\ client = [timeout |-> 0, restore |-> "none"]

\* Load, then the flag takes the place of server.listen.  There may be no file, or none that
\* can be read.
LoadForWeb ==
  /\ setup.at = "loading"
  /\ \/ /\ Loads
        /\ web' = IF setup.listenFlag = "unset" THEN Settings(file)
                  ELSE [Settings(file) EXCEPT !.listen = setup.listenFlag]
        /\ SetupAt("authenticating")
     \/ SetupAt("refused") /\ UNCHANGED web
  /\ UNCHANGED <<file, env, service, limits, client>>

\* buildAuth and New: users and numbers are checked again, the file of tokens for the first
\* time; without users it must hold one.
UsersRefused(c) == c.users \in {"twice", "no-login", "no-hash"} \/ c.sessionTTL <= 0
                   \/ c.loginBackoff < 0 \/ c.maxLoginAttempts < 1
BuildAuth ==
  /\ setup.at = "authenticating"
  /\ \/ web.tokenFile # "none" /\ SetupAt("no-tokens")
     \/ SetupAt(IF UsersRefused(web) \/ (web.users = "none" /\ web.tokenFile = "none")
                THEN "auth-refused" ELSE "loading-again")
  /\ UNCHANGED <<file, env, web, service, limits, client>>

\* NewQueue: limits that make no sense are replaced in silence.
NewQueue(maxParallel, maxPerDB) ==
  LET parallel == IF maxParallel < 1 THEN 2 ELSE maxParallel
      perDB == IF maxPerDB < 1 THEN 1 ELSE maxPerDB
  IN  <<parallel, IF perDB > parallel THEN parallel ELSE perDB>>

\* runRestore and RestoreArgv.  They are given postgres.jobs as it is, without WithDefaults.
RestoreArgv(jobs) == CASE jobs < 0 \/ jobs > 32 -> "refused"
                       [] jobs > 1 /\ jobs <= 32 -> "parallel"
                       [] OTHER -> "streamed"

\* app.service: Load once more, and New.
LoadForService ==
  /\ setup.at = "loading-again"
  /\ \/ /\ Loads
        /\ service' = Settings(file)
        /\ limits' = NewQueue(service'.maxParallel, service'.maxPerDB)
        /\ client' = [timeout |-> Timeout(service'), restore |-> RestoreArgv(service'.pgJobs)]
        /\ SetupAt("up")
     \/ SetupAt("refused") /\ UNCHANGED <<service, limits, client>>
  /\ UNCHANGED <<file, env, web>>

\* Between the two the file may be written anew.
FileChanges ==
  /\ setup.at = "loading-again"
  /\ file' \in Edited \ {file}
  /\ setup' = [setup EXCEPT !.edited = "yes"]
  /\ UNCHANGED <<env, web, service, limits, client>>

ConfigNext == LoadForWeb \/ BuildAuth \/ LoadForService \/ FileChanges

ConfigSpec == ConfigInit /\ [][ConfigNext]_configVars
-----------------------------------------------------------------------------
\* Names of databases: what the rules tell apart.  "stand" is fse-1234; "other" is matched by
\* a wider pattern only, "part" begins as one of the service's does, and "spaced" has a
\* character that no rule lets pass.
DatabaseName == {"stand", "other", "part", "spaced", "postgres"}
Matches(name, pattern) ==
  CASE pattern \in {"default", "unset"} -> name = "stand"
    [] pattern = "wider" -> name # "part"
    [] pattern = "halves" -> name \in {"stand", "part"}
    [] OTHER -> FALSE
ValidDBName(name, pattern) == name # "spaced" /\ Matches(name, pattern)

\* List of the store, and Find: SplitBackupID goes by the default pattern, BackupDir by that
\* of the settings.
Listed == {name \in DatabaseName : ValidDBName(name, service.pattern)}
Findable == {name \in DatabaseName : ValidDBName(name, "default")
                                       /\ ValidDBName(name, service.pattern)}
-----------------------------------------------------------------------------
Up == setup.at = "up"

ConfigTypeOK ==
  /\ setup.at \in {"loading", "authenticating", "no-tokens", "auth-refused", "loading-again", "up",
                   "refused"}
  /\ DOMAIN file \subseteq Setting /\ DOMAIN env \subseteq Setting
  /\ DOMAIN web = Setting /\ DOMAIN service = Setting
  /\ client.restore \in {"none", "refused", "streamed", "parallel"}

\* A configuration that Validate accepts is one the parts take as it is, though each checks it
\* again or corrects it by rules of its own: a mistake comes out at the start (config.go:1-5,
\* client.go:90-91) and not as a limit that is silently another one.  The queue works with the
\* limits of the file, the web interface refuses no users, and of the two loads each part of
\* serve has the same settings, but for --listen, if the file stayed as it was.  Two settings
\* are accepted and not taken, and excepted here: a timeout of zero or less is the default of
\* two hours, and a count of processes below zero refuses every restore when it comes to it.
AcceptedIsTaken ==
  /\ setup.at # "auth-refused"
  /\ Up =>
       /\ limits = <<service.maxParallel, service.maxPerDB>>
       /\ service.timeout > 0 => client.timeout = service.timeout
       /\ service.pgJobs >= 0 => client.restore # "refused"
       /\ setup.edited = "no" => \A s \in Setting \ {"listen"} : web[s] = service[s]

\* backup.go:49-50: the identifier that the list prints is one that restore and clone take.
ListedIsFound == Up => Listed \subseteq Findable
=============================================================================
