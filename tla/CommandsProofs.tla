--------------------------- MODULE CommandsProofs ---------------------------
(***************************************************************************)
(* Proofs about the programs that the administrator starts: the commands,  *)
(* for every set of databases; the configuration that the service loads,   *)
(* for every set of files and environments; and doctor, for any number of  *)
(* defects and of changes.  The three models share nothing.                *)
(***************************************************************************)
EXTENDS Commands, Configuration, Doctor, TLAPS

\* Commands.

Name == ForOne \cup ForAll \cup Reading
Place == {"flags", "loading", "listing", "operating", "exited"}
Code == {-1, 0, 1, 2}
Outcome == {"done", "failed", "rejected"}

\* The two parts of CmdTypeOK.
OutcomeTypes == outcome \in [DOMAIN outcome -> Outcome]
CommandTypes ==
  /\ command \in [name : Name, at : Place, code : Code, on : SUBSET Named,
                  late : {"yes", "no"}]
  /\ command.code = -1 <=> command.at # "exited"
  /\ command.on \subseteq left /\ left \cap DOMAIN outcome = {}
  /\ there \subseteq Named /\ left \subseteq Named
  /\ signal \in {"yes", "no"}

LEMMA TypesSplit == CommandTypes /\ OutcomeTypes => CmdTypeOK
  BY DEF CommandTypes, OutcomeTypes, CmdTypeOK, Name, Place, Code, Outcome

\* Nothing has happened to a database before the operations begin.
NothingYet == command.at \in {"flags", "loading", "listing"} =>
                left = {} /\ DOMAIN outcome = {} /\ touched = {}

\* The operations so far: which databases they are for, and what was changed by them.
DealtWith ==
  /\ command.name \in ForAll => left \subseteq Serviced
  /\ touched \subseteq Serviced
  /\ command.name # "restore" => touched \subseteq With("done") \cup With("failed")
  /\ command.on # {} => command.at = "operating"

\* The inductive invariant: the exit code is true because of what the operations before it
\* were allowed to do.
CmdInv == /\ CommandTypes /\ OutcomeTypes
          /\ NothingYet /\ DealtWith
          /\ ExitCodeIsTrue /\ EveryDatabaseTried

\* The command's record after each kind of move.
LEMMA Moves ==
  ASSUME CmdInv
  PROVE  /\ \A place : Proceeds(place) =>
              command' = [name |-> command.name, at |-> place, code |-> command.code,
                          on |-> command.on, late |-> command.late]
         /\ \A code : Exits(code) =>
              command' = [name |-> command.name, at |-> "exited", code |-> code,
                          on |-> command.on, late |-> command.late]
  BY DEF CmdInv, CommandTypes, Proceeds, Exits

\* The databases that a command may change something of: its name decides, and does not change.
LEMMA ServicedIs ==
  /\ Stand \subseteq Serviced
  /\ command'.name = command.name => Serviced' = Serviced
  /\ command.name = "pruneAll" => Named \ Foreign \subseteq Serviced
  BY DEF Serviced, Named

\* A database that has been dealt with: its outcome is added, the others' stay.
LEMMA Dealt ==
  ASSUME CmdInv, NEW d \in left, NEW result \in Outcome, Deal(d, result)
  PROVE  /\ command' = [name |-> command.name, at |-> command.at, code |-> command.code,
                        on |-> {}, late |-> command.late]
         /\ command.at = "operating" /\ command.code = -1
         /\ left' = left \ {d} /\ left' \cap DOMAIN outcome' = {}
         /\ OutcomeTypes'
         /\ With(result)' = With(result) \cup {d}
         /\ \A other : other # result => With(other)' = With(other)
<1>1. /\ command' = [name |-> command.name, at |-> command.at, code |-> command.code,
                     on |-> {}, late |-> command.late]
      /\ command.at = "operating" /\ command.code = -1
      /\ left' = left \ {d}
  BY DEF CmdInv, CommandTypes, Code, DealtWith, Deal
<1>2. d \notin DOMAIN outcome /\ DOMAIN outcome' = DOMAIN outcome \cup {d}
  BY DEF CmdInv, CommandTypes, Deal
<1>3. \A e \in DOMAIN outcome' : outcome'[e] = IF e = d THEN result ELSE outcome[e]
  BY DEF Deal
<1>4. OutcomeTypes'
  BY <1>2, <1>3 DEF CmdInv, OutcomeTypes, Outcome, Deal
<1>5. \A other : With(other)' = IF other = result THEN With(other) \cup {d} ELSE With(other)
  BY <1>2, <1>3 DEF With
<1>6. left' \cap DOMAIN outcome' = {}
  BY <1>1, <1>2 DEF CmdInv, CommandTypes
<1>7. QED
  BY <1>1, <1>4, <1>5, <1>6

\* An operation of which it is known what it may have touched keeps the invariant.
LEMMA DealKeeps ==
  ASSUME CmdInv, NEW d \in left, NEW result \in Outcome, Deal(d, result),
         touched' \subseteq touched \cup {d}, touched' \subseteq Serviced,
         result = "rejected" /\ command.name # "restore" => touched' = touched,
         UNCHANGED <<readOnly, there, signal>>
  PROVE  CmdInv'
<1>1. CommandTypes'
  BY Dealt DEF CmdInv, CommandTypes
<1>2. NothingYet' /\ ExitCodeIsTrue' /\ EveryDatabaseTried'
  BY Dealt, ServicedIs DEF NothingYet, ExitCodeIsTrue, EveryDatabaseTried
<1>3. DealtWith'
  BY Dealt, ServicedIs DEF CmdInv, DealtWith, Outcome
<1>4. QED
  BY <1>1, <1>2, <1>3, Dealt DEF CmdInv

LEMMA CmdInitInv == CmdInit => CmdInv
<1>1. CmdInit => CommandTypes /\ NothingYet
  BY DEF CmdInit, CommandTypes, NothingYet, Name, Place, Code
<1>2. CmdInit => OutcomeTypes
  BY DEF CmdInit, OutcomeTypes
<1>3. CmdInit => DealtWith /\ ExitCodeIsTrue /\ EveryDatabaseTried
  BY DEF CmdInit, DealtWith, ExitCodeIsTrue, EveryDatabaseTried
<1>4. QED
  BY <1>1, <1>2, <1>3 DEF CmdInv

LEMMA CmdStepInv == CmdInv /\ [CmdNext]_cmdVars => CmdInv'
<1> SUFFICES ASSUME CmdInv, [CmdNext]_cmdVars
             PROVE  CmdInv'
  OBVIOUS
<1> USE DEF CmdInv, CommandTypes, NothingYet, DealtWith, ExitCodeIsTrue, EveryDatabaseTried, Place,
            Code, ExitOK, ExitError, ExitRejected
<1>w. /\ outcome' = outcome => OutcomeTypes' /\ \A result : With(result)' = With(result)
      /\ DOMAIN outcome = {} => \A result : With(result) = {}
  BY DEF With, OutcomeTypes
<1>1. CASE ParseFlags
  BY <1>1, <1>w, Moves, ServicedIs DEF ParseFlags
<1>2. CASE LoadService
  BY <1>2, <1>w, Moves, ServicedIs DEF LoadService
<1>3. CASE NameOne
  BY <1>3, <1>w, Moves, ServicedIs DEF NameOne, ForOne, ForAll
<1>4. CASE ManagedDatabases
  BY <1>4, <1>w, Moves, ServicedIs DEF ManagedDatabases
<1>5. CASE PruneTargets
  BY <1>5, <1>w, Moves, ServicedIs DEF PruneTargets
<1>6. CASE Read
  BY <1>6, <1>w, Moves, ServicedIs DEF Read
<1>7. ASSUME NEW d \in left, Begin(d) PROVE CmdInv'
  <2>1. command' = [name |-> command.name, at |-> command.at, code |-> command.code,
                    on |-> {d}, late |-> signal]
    BY <1>7 DEF Begin
  <2>2. QED
    BY <1>7, <1>w, <2>1, ServicedIs DEF Begin
<1>8. ASSUME NEW d \in left, Reject(d) PROVE CmdInv'
  <2>1. ~Refusable(d) /\ command.name = "restore" => d \in Stand
    BY DEF Refusable
  <2>2. QED
    BY <1>8, <2>1, DealKeeps, ServicedIs DEF Reject, Outcome
<1>9. ASSUME NEW d \in left, Fail(d) PROVE CmdInv'
  <2>1. d \in Serviced
    BY <1>9 DEF Fail, Refusable, ForAll, Serviced
  <2>2. QED
    BY <1>9, <2>1, DealKeeps, ServicedIs DEF Fail, Outcome
<1>10. ASSUME NEW d \in left, Succeed(d) PROVE CmdInv'
  <2>1. d \in Serviced
    BY <1>10 DEF Succeed, Refusable, ForAll, Serviced
  <2>2. QED
    BY <1>10, <2>1, DealKeeps, ServicedIs DEF Succeed, Outcome
<1>11. CASE End
  <2>1. command.name = "backupAll" => left = {}
    BY <1>11 DEF End, GoneThrough
  <2>2. /\ ExitCode = 0 => /\ With("failed") = {}
                           /\ DOMAIN outcome # {} => With("done") # {}
        /\ ExitCode = 2 => With("done") \cup With("failed") = {}
        /\ ExitCode \in {0, 1, 2}
        /\ With("failed") # {} => ExitCode = 1
    <3>1. DOMAIN outcome = With("done") \cup With("failed") \cup With("rejected")
      BY DEF OutcomeTypes, Outcome, With
    <3>2. With("rejected") = DOMAIN outcome => With("done") \cup With("failed") = {}
      BY DEF With
    <3>3. QED
      BY <3>1, <3>2 DEF ExitCode
  <2>3. \E code \in {0, 1, 2} :
          /\ command' = [name |-> command.name, at |-> "exited", code |-> code,
                         on |-> command.on, late |-> command.late]
          /\ code = ExitCode \/ (code = 1 /\ ExitCode = 0)
    BY <1>11, <2>2, Moves DEF End
  <2>4. QED
    BY <1>11, <1>w, <2>1, <2>2, <2>3, ServicedIs DEF End
<1>12. CASE Signal
  BY <1>12, <1>w, ServicedIs DEF Signal
<1>13. CASE DatabaseComesOrGoes
  BY <1>13, <1>w, ServicedIs DEF DatabaseComesOrGoes
<1>14. CASE UNCHANGED cmdVars
  BY <1>14, <1>w, ServicedIs DEF cmdVars
<1>15. QED
  BY <1>1, <1>2, <1>3, <1>4, <1>5, <1>6, <1>7, <1>8, <1>9, <1>10, <1>11, <1>12, <1>13, <1>14
     DEF CmdNext

\* The exit code tells what the command has done, and backup --all has tried every database
\* of its list, for any number of databases, whatever fails, is refused, comes or goes
\* (ExitCodeIsTrue, EveryDatabaseTried).
THEOREM CommandsTellTheTruth == CmdSpec => [](CmdTypeOK /\ ExitCodeIsTrue /\ EveryDatabaseTried)
<1>1. CmdInv => CmdTypeOK /\ ExitCodeIsTrue /\ EveryDatabaseTried
  BY TypesSplit DEF CmdInv
<1>2. QED
  BY <1>1, CmdInitInv, CmdStepInv, PTL DEF CmdSpec
-----------------------------------------------------------------------------
\* Configuration.

SetupPlace == {"loading", "authenticating", "no-tokens", "auth-refused", "loading-again", "up",
               "refused"}

\* What Validate makes certain of settings it has no problem with, as far as the parts of the
\* service rely on it.
Valid(c) ==
  /\ c.users \notin {"twice", "no-login", "no-hash"}
  /\ c.users = "none" => c.tokenFile # "none"
  /\ c.sessionTTL \in 1 .. 168 /\ c.loginBackoff \in Nat /\ c.maxLoginAttempts \in 1 .. 100
  /\ c.pgJobs \in Int /\ c.pgJobs <= 32 /\ c.timeout \in Int
  /\ c.maxParallel \in 1 .. 16 /\ c.maxPerDB \in 1 .. 16 /\ c.maxPerDB <= c.maxParallel

LEMMA NumberIsSetting == Number \subseteq Setting
  BY SMT DEF Number, Setting, Default

LEMMA DefaultTyped == \A s \in Number : Default[s] \in Int
<1>1. /\ Default.schema = 1 /\ Default.maxBody \in Int /\ Default.sessionTTL = 12
      /\ Default.loginBackoff = 1 /\ Default.maxLoginAttempts = 5 /\ Default.pgJobs = 4
      /\ Default.timeout = 120 /\ Default.keepLast = 7 /\ Default.keepDays = 14
      /\ Default.minFree = 1 /\ Default.maxParallel = 2 /\ Default.maxPerDB = 1
      /\ Default.retain = 200
  BY SMT DEF Default
<1>2. QED
  BY <1>1, SMT DEF Number

LEMMA OverTyped ==
  ASSUME NEW c, NEW f
  PROVE  /\ DOMAIN Over(c, f) = Setting
         /\ \A s \in Setting : Over(c, f)[s] = IF s \in DOMAIN f THEN f[s] ELSE c[s]
  BY DEF Over

\* Settings, setting by setting.
LEMMA SettingsEach ==
  ASSUME NEW f
  PROVE  /\ DOMAIN Settings(f) = Setting
         /\ \A s \in Setting : Settings(f)[s] =
              IF s \in EnvSet THEN env[s].value
              ELSE IF s = "schema" /\ (IF s \in DOMAIN f THEN f[s] ELSE Default[s]) = 0 THEN 1
              ELSE IF s \in DOMAIN f THEN f[s] ELSE Default[s]
<1> DEFINE fromFile == Over(Default, f)
           versioned == [fromFile EXCEPT !.schema = IF @ = 0 THEN 1 ELSE @]
           value == [s \in EnvSet |-> env[s].value]
<1>1. Settings(f) = Over(versioned, value)
  BY DEF Settings
<1>2. /\ DOMAIN fromFile = Setting
      /\ \A s \in Setting : fromFile[s] = IF s \in DOMAIN f THEN f[s] ELSE Default[s]
  BY OverTyped
<1>3. "schema" \in Setting
  BY NumberIsSetting DEF Number
<1>4. \A s \in Setting : versioned[s] = IF s = "schema" /\ fromFile[s] = 0 THEN 1 ELSE fromFile[s]
  BY <1>2, <1>3
<1>5. DOMAIN value = EnvSet /\ \A s \in EnvSet : value[s] = env[s].value
  OBVIOUS
<1> HIDE DEF fromFile, versioned, value
<1>6. /\ DOMAIN Settings(f) = Setting
      /\ \A s \in Setting : Settings(f)[s] = IF s \in EnvSet THEN env[s].value ELSE versioned[s]
  BY <1>1, <1>5, OverTyped
<1>7. QED
  BY <1>2, <1>4, <1>6

LEMMA SettingsTyped ==
  ASSUME NEW f \in ConfigFile, env \in Environment
  PROVE  \A s \in Number : Settings(f)[s] \in Int
<1>1. \A s \in Number \cap EnvSet : env[s].value \in Int
  BY ConfigAssumption DEF EnvSet
<1>2. \A s \in Number \cap DOMAIN f : f[s] \in Int
  BY ConfigAssumption
<1>3. QED
  BY <1>1, <1>2, DefaultTyped, NumberIsSetting, SettingsEach

\* What Validate accepts is valid.
LEMMA AcceptedIsValid ==
  ASSUME NEW c, \A s \in Number : c[s] \in Int, Problems(c) = {}
  PROVE  Valid(c)
<1>1. AuthProblems(c) = {} /\ PostgresProblems(c) = {} /\ JobsProblems(c) = {}
  BY DEF Problems
<1>2. /\ c.sessionTTL \in Int /\ c.loginBackoff \in Int /\ c.maxLoginAttempts \in Int
      /\ c.pgJobs \in Int /\ c.timeout \in Int /\ c.maxParallel \in Int /\ c.maxPerDB \in Int
  BY DEF Number
<1>3. /\ c.users \notin {"twice", "no-login", "no-hash"}
      /\ c.users = "none" => c.tokenFile # "none"
      /\ c.sessionTTL \in 1 .. 168 /\ c.loginBackoff \in Nat /\ c.maxLoginAttempts \in 1 .. 100
  <2>1. /\ If(c.users = "none" /\ c.tokenFile = "none", "users") = {}
        /\ If(c.users \in {"no-login", "odd-login", "twice", "no-hash", "odd-hash"}, "users") = {}
        /\ Outer(c, "sessionTTL", 1, 168) = {} /\ If(c.loginBackoff < 0, "loginBackoff") = {}
        /\ Outer(c, "maxLoginAttempts", 1, 100) = {}
    BY <1>1 DEF AuthProblems
  <2>2. /\ ~(c.users = "none" /\ c.tokenFile = "none") /\ ~(c.loginBackoff < 0)
        /\ c.users \notin {"no-login", "odd-login", "twice", "no-hash", "odd-hash"}
        /\ ~(c.sessionTTL < 1 \/ c.sessionTTL > 168)
        /\ ~(c.maxLoginAttempts < 1 \/ c.maxLoginAttempts > 100)
    BY <2>1 DEF If, Outer
  <2>3. QED
    BY <2>2, <1>2
<1>4. c.pgJobs <= 32
  <2>1. ClientProblems(c) = {}
    BY <1>1 DEF PostgresProblems
  <2>2. If(PgJobs(c) \notin 1 .. 32, "pgJobs") = {}
    BY <2>1 DEF ClientProblems
  <2>3. PgJobs(c) \in 1 .. 32
    BY <2>2 DEF If
  <2>4. QED
    BY <2>3, <1>2 DEF PgJobs
<1>5. c.maxParallel \in 1 .. 16 /\ c.maxPerDB \in 1 .. 16 /\ c.maxPerDB <= c.maxParallel
  <2>1. /\ Outer(c, "maxParallel", 1, 16) = {} /\ Outer(c, "maxPerDB", 1, 16) = {}
        /\ If(c.maxPerDB > c.maxParallel, "maxPerDB") = {}
    BY <1>1 DEF JobsProblems
  <2>2. /\ ~(c.maxParallel < 1 \/ c.maxParallel > 16) /\ ~(c.maxPerDB < 1 \/ c.maxPerDB > 16)
        /\ ~(c.maxPerDB > c.maxParallel)
    BY <2>1 DEF If, Outer
  <2>3. QED
    BY <2>2, <1>2
<1>6. QED
  BY <1>2, <1>3, <1>4, <1>5 DEF Valid

LEMMA LoadedIsValid ==
  ASSUME file \in ConfigFile, env \in Environment, Loads
  PROVE  Valid(Settings(file))
  BY SettingsTyped, AcceptedIsValid DEF Loads

\* Valid limits are the queue's.
LEMMA QueueTakesLimits ==
  ASSUME NEW c, Valid(c)
  PROVE  NewQueue(c.maxParallel, c.maxPerDB) = <<c.maxParallel, c.maxPerDB>>
<1> SUFFICES ASSUME NEW parallel \in 1 .. 16, NEW perDB \in 1 .. 16, perDB <= parallel
             PROVE  NewQueue(parallel, perDB) = <<parallel, perDB>>
  BY DEF Valid
<1> QED
  BY DEF NewQueue
-----------------------------------------------------------------------------
\* A count of processes that is valid and not below zero is one that a restore can run with.
LEMMA RestoreTakesJobs ==
  ASSUME NEW jobs \in Int, jobs <= 32
  PROVE  /\ RestoreArgv(jobs) \in {"refused", "streamed", "parallel"}
         /\ jobs >= 0 => RestoreArgv(jobs) # "refused"
  BY DEF RestoreArgv

\* The inductive invariant.  What is known of the two loads is kept apart: the file may have
\* been written between them.
SetupType == [at : SetupPlace, listenFlag : {"unset", "lan"}, edited : {"no", "yes"}]
SetupTypes ==
  /\ setup \in SetupType
  /\ file \in ConfigFile /\ env \in Environment
  /\ DOMAIN web = Setting /\ DOMAIN service = Setting
  /\ client.restore \in {"none", "refused", "streamed", "parallel"}

\* The web interface has what a load accepted, with the flag over it: of the file as it is, if
\* that was not written since.
Flagged(c) == IF setup.listenFlag = "unset" THEN c ELSE [c EXCEPT !.listen = setup.listenFlag]
WebIsValid == setup.at \notin {"loading", "refused"} =>
  \E c : /\ Valid(c) /\ DOMAIN c = Setting /\ web = Flagged(c)
         /\ setup.edited = "no" => c = Settings(file)

ServiceIsTaken == Up =>
  /\ service = Settings(file)
  /\ limits = <<service.maxParallel, service.maxPerDB>>
  /\ service.timeout > 0 => client.timeout = service.timeout
  /\ service.pgJobs >= 0 => client.restore # "refused"

ConfigInv == /\ SetupTypes /\ WebIsValid /\ ServiceIsTaken
             /\ setup.at # "auth-refused"

LEMMA FlaggedIs ==
  ASSUME ConfigInv, NEW c, DOMAIN c = Setting
  PROVE  /\ DOMAIN Flagged(c) = Setting
         /\ \A s \in Setting \ {"listen"} : Flagged(c)[s] = c[s]
  BY DEF Flagged

\* buildAuth looks at settings that the flag does not change.
LEMMA WebLooksValid ==
  ASSUME ConfigInv, setup.at \notin {"loading", "refused"}
  PROVE  ~UsersRefused(web) /\ (web.users = "none" => web.tokenFile # "none")
<1>1. PICK c : Valid(c) /\ DOMAIN c = Setting /\ web = Flagged(c)
  BY DEF ConfigInv, WebIsValid
<1>2. {"users", "tokenFile", "sessionTTL", "loginBackoff", "maxLoginAttempts"}
        \subseteq Setting \ {"listen"}
  BY SMT DEF Setting, Default
<1>3. /\ web.users = c.users /\ web.tokenFile = c.tokenFile /\ web.sessionTTL = c.sessionTTL
      /\ web.loginBackoff = c.loginBackoff /\ web.maxLoginAttempts = c.maxLoginAttempts
  BY <1>1, <1>2, FlaggedIs
<1>4. QED
  BY <1>1, <1>3 DEF Valid, UsersRefused

LEMMA ConfigInitInv == ConfigInit => ConfigInv
<1> SUFFICES ASSUME ConfigInit PROVE ConfigInv
  OBVIOUS
<1>1. setup \in SetupType /\ setup.at = "loading"
  BY DEF ConfigInit, SetupType, SetupPlace
<1>2. SetupTypes
  BY <1>1 DEF ConfigInit, SetupTypes, Setting
<1>3. QED
  BY <1>1, <1>2 DEF ConfigInv, WebIsValid, ServiceIsTaken, Up

LEMMA SetupMoves ==
  ASSUME ConfigInv, NEW place \in SetupPlace, SetupAt(place)
  PROVE  /\ setup' \in SetupType /\ setup'.at = place
         /\ setup'.listenFlag = setup.listenFlag /\ setup'.edited = setup.edited
  BY DEF ConfigInv, SetupTypes, SetupType, SetupAt

\* Settings is a function of the file and the environment.
LEMMA SettingsKept ==
  ASSUME UNCHANGED <<file, env>>
  PROVE  Settings(file)' = Settings(file)
  BY DEF Settings, EnvSet

LEMMA ConfigStepInv == ConfigInv /\ [ConfigNext]_configVars => ConfigInv'
<1> SUFFICES ASSUME ConfigInv, [ConfigNext]_configVars
             PROVE  ConfigInv'
  OBVIOUS
\* A refusal, from wherever it comes.
<1>r. ASSUME SetupAt("refused"), UNCHANGED <<file, env, web, service, limits, client>>
      PROVE  ConfigInv'
  <2>1. setup' \in SetupType /\ setup'.at = "refused"
    BY <1>r, SetupMoves DEF SetupPlace
  <2>2. QED
    BY <1>r, <2>1 DEF ConfigInv, SetupTypes, WebIsValid, ServiceIsTaken, Up
<1>1. CASE LoadForWeb
  <2>1. CASE Loads /\ SetupAt("authenticating") /\ web' = Flagged(Settings(file))
    <3>1. /\ setup' \in SetupType /\ setup'.at = "authenticating"
          /\ setup'.listenFlag = setup.listenFlag
      BY <2>1, SetupMoves DEF SetupPlace
    <3>2. Valid(Settings(file)) /\ DOMAIN Settings(file) = Setting
      BY <2>1, LoadedIsValid, SettingsEach DEF ConfigInv, SetupTypes
    <3>3. UNCHANGED <<file, env, service, limits, client>>
      BY <1>1 DEF LoadForWeb
    <3>4. web' = Flagged(Settings(file))' /\ DOMAIN web' = Setting
      BY <2>1, <3>1, <3>2, <3>3, SettingsKept, FlaggedIs DEF Flagged
    <3>5. WebIsValid'
      <4>1. Valid(Settings(file)') /\ DOMAIN Settings(file)' = Setting
        BY <3>2, <3>3, SettingsKept
      <4>2. QED
        BY <3>4, <4>1 DEF WebIsValid
    <3>6. QED
      BY <3>1, <3>3, <3>4, <3>5 DEF ConfigInv, SetupTypes, ServiceIsTaken, Up
  <2>2. QED
    BY <1>1, <1>r, <2>1 DEF LoadForWeb, Flagged
<1>2. CASE BuildAuth
  <2>1. PICK place \in {"no-tokens", "loading-again"} : SetupAt(place)
    BY <1>2, WebLooksValid DEF BuildAuth
  <2>2. /\ setup' \in SetupType /\ setup'.at = place
        /\ setup'.listenFlag = setup.listenFlag /\ setup'.edited = setup.edited
    BY <2>1, SetupMoves DEF SetupPlace
  <2>3. UNCHANGED <<file, env, web, service, limits, client>> /\ setup.at = "authenticating"
    BY <1>2 DEF BuildAuth
  <2>4. WebIsValid'
    BY <2>2, <2>3, SettingsKept DEF ConfigInv, WebIsValid, Flagged
  <2>5. QED
    BY <2>2, <2>3, <2>4 DEF ConfigInv, SetupTypes, ServiceIsTaken, Up
<1>3. CASE LoadForService
  <2>1. CASE /\ Loads /\ SetupAt("up") /\ service' = Settings(file)
             /\ limits' = NewQueue(service'.maxParallel, service'.maxPerDB)
             /\ client' = [timeout |-> Timeout(service'), restore |-> RestoreArgv(service'.pgJobs)]
    <3>1. /\ setup' \in SetupType /\ setup'.at = "up"
          /\ setup'.listenFlag = setup.listenFlag /\ setup'.edited = setup.edited
      BY <2>1, SetupMoves DEF SetupPlace
    <3>2. Valid(Settings(file)) /\ DOMAIN Settings(file) = Setting
      BY <2>1, LoadedIsValid, SettingsEach DEF ConfigInv, SetupTypes
    <3>3. UNCHANGED <<file, env, web>> /\ setup.at = "loading-again"
      BY <1>3 DEF LoadForService
    <3>4. limits' = <<service'.maxParallel, service'.maxPerDB>>
      BY <2>1, <3>2, QueueTakesLimits
    <3>5. /\ client'.restore \in {"refused", "streamed", "parallel"}
          /\ service'.pgJobs >= 0 => client'.restore # "refused"
      BY <2>1, <3>2, RestoreTakesJobs DEF Valid
    <3>6. service'.timeout > 0 => client'.timeout = service'.timeout
      BY <2>1, <3>2 DEF Valid, Timeout
    <3>7. ServiceIsTaken'
      BY <2>1, <3>3, <3>4, <3>5, <3>6, SettingsKept DEF ServiceIsTaken
    <3>8. WebIsValid'
      BY <3>1, <3>3, SettingsKept DEF ConfigInv, WebIsValid, Flagged
    <3>9. QED
      BY <2>1, <3>1, <3>2, <3>3, <3>5, <3>7, <3>8 DEF ConfigInv, SetupTypes
  <2>2. QED
    BY <1>3, <1>r, <2>1 DEF LoadForService
<1>4. CASE FileChanges
  <2>1. /\ file' \in ConfigFile /\ setup.at = "loading-again"
        /\ UNCHANGED <<env, web, service, limits, client>>
    BY <1>4, ConfigAssumption DEF FileChanges
  <2>2. /\ setup' \in SetupType /\ setup'.at = "loading-again"
        /\ setup'.listenFlag = setup.listenFlag /\ setup'.edited = "yes"
    BY <1>4, <2>1 DEF ConfigInv, SetupTypes, SetupType, FileChanges
  <2>3. WebIsValid'
    BY <2>1, <2>2 DEF ConfigInv, WebIsValid, Flagged
  <2>4. QED
    BY <2>1, <2>2, <2>3 DEF ConfigInv, SetupTypes, ServiceIsTaken, Up
<1>5. CASE UNCHANGED configVars
  <2>1. UNCHANGED <<setup, file, env, web, service, limits, client>>
    BY <1>5 DEF configVars
  <2>2. WebIsValid'
    BY <2>1, SettingsKept DEF ConfigInv, WebIsValid, Flagged
  <2>3. QED
    BY <2>1, <2>2, SettingsKept DEF ConfigInv, SetupTypes, ServiceIsTaken, Up
<1>6. QED
  BY <1>1, <1>2, <1>3, <1>4, <1>5 DEF ConfigNext

\* A configuration that Validate accepts is taken as it is by the queue, by the sign-in of the
\* web interface, by both loads, and, but for a timeout of zero or less and a count of processes
\* below zero, by the client, for every set of configuration files and environments
\* (AcceptedIsTaken).
THEOREM ConfigurationIsTaken == ConfigSpec => [](ConfigTypeOK /\ AcceptedIsTaken)
<1>1. ConfigInv => ConfigTypeOK
  BY ConfigAssumption DEF ConfigInv, SetupTypes, SetupType, ConfigTypeOK, SetupPlace
<1>2. ConfigInv => AcceptedIsTaken
  <2> SUFFICES ASSUME ConfigInv, Up, setup.edited = "no", NEW s \in Setting \ {"listen"}
               PROVE  web[s] = service[s]
    BY DEF ConfigInv, ServiceIsTaken, AcceptedIsTaken
  <2>1. web = Flagged(Settings(file)) /\ DOMAIN Settings(file) = Setting
    BY DEF ConfigInv, WebIsValid, Up
  <2>2. service = Settings(file)
    BY DEF ConfigInv, ServiceIsTaken
  <2>3. QED
    BY <2>1, <2>2, FlaggedIs
<1>3. QED
  BY <1>1, <1>2, ConfigInitInv, ConfigStepInv, PTL DEF ConfigSpec
-----------------------------------------------------------------------------
\* Doctor.

Level == {"ok", "warn", "error"}

\* The check that a defect cannot get past, in the order of Checks.  A tool that cannot be run
\* is noticed by checkServer in every mode.
Reported ==
  <<{"config-invalid"}, {}, {"password-missing", "password-open"},
    {"sudo-refused", "server-down", "clients-missing"},
    {"clients-older", "clients-newer", "clients-odd"},
    {"role-powerless", "role-no-superuser"},
    {"storage-missing", "storage-not-writable", "storage-full", "storage-open",
     "storage-space-unknown"},
    {"state-missing", "state-not-writable", "state-open"}, {"locale-missing"},
    {"no-archive", "archive-unreadable", "archive-odd"}, {"no-unit"}, {"web-open", "web-insecure"},
    {"no-backup", "no-database"}>>

LEMMA ThirteenChecks == Len(Checks) = 13
  BY DEF Checks

LEMMA DueAt ==
  ASSUME NEW check, Due(check), doctorAt \in 0 .. 13
  PROVE  /\ doctorAt \in 0 .. 12
         /\ check = "config" => doctorAt = 0
         /\ check = "sudo" => doctorAt = 1
         /\ check = "pgpass" => doctorAt = 2
         /\ check = "server" => doctorAt = 3
         /\ check = "clients" => doctorAt = 4
         /\ check = "role" => doctorAt = 5
         /\ check = "storage-dir" => doctorAt = 6
         /\ check = "state-dir" => doctorAt = 7
         /\ check = "locales" => doctorAt = 8
         /\ check = "archive-access" => doctorAt = 9
         /\ check = "systemd-unit" => doctorAt = 10
         /\ check = "web-security" => doctorAt = 11
         /\ check = "retention" => doctorAt = 12
<1>1. doctorAt < 13 /\ Checks[doctorAt + 1] = check
  BY ThirteenChecks DEF Due
<1>2. PICK n \in 1 .. 13 : doctorAt = n - 1 /\ Checks[n] = check
  BY <1>1
<1>3. QED
  BY <1>2 DEF Checks

LEMMA ReportedAre ==
  /\ Reported[1] = {"config-invalid"} /\ Reported[2] = {}
  /\ Reported[3] = {"password-missing", "password-open"}
  /\ Reported[4] = {"sudo-refused", "server-down", "clients-missing"}
  /\ Reported[5] = {"clients-older", "clients-newer", "clients-odd"}
  /\ Reported[6] = {"role-powerless", "role-no-superuser"}
  /\ Reported[7] = {"storage-missing", "storage-not-writable", "storage-full", "storage-open",
                    "storage-space-unknown"}
  /\ Reported[8] = {"state-missing", "state-not-writable", "state-open"}
  /\ Reported[9] = {"locale-missing"}
  /\ Reported[10] = {"no-archive", "archive-unreadable", "archive-odd"}
  /\ Reported[11] = {"no-unit"} /\ Reported[12] = {"web-open", "web-insecure"}
  /\ Reported[13] = {"no-backup", "no-database"}
  BY DEF Reported

\* No defect gets past all of them.
LEMMA EveryDefectReported == \A d \in Defect : \E n \in 1 .. 13 : d \in Reported[n]
  BY ReportedAre DEF Defect, Serious, Risky
-----------------------------------------------------------------------------
\* What the report has to say of a defect that is there all the time.
Told(d) == /\ d \in Serious \ Unnoticed => "error" \in Levels
           /\ d \in Risky => Levels \cap {"warn", "error"} # {}

DoctorTypes ==
  /\ mode \in {"sudo", "tcp", "unset"} /\ server \in {"known", "unknown"}
  /\ host \subseteq Defect /\ always \subseteq host /\ host \subseteq ever
  /\ host \cap Impossible = {} /\ \A pair \in Exclusive : ~(pair \subseteq host)
  /\ doctorAt \in 0 .. 13 /\ report \in Seq(Level) /\ Len(report) <= doctorAt
  /\ halfway \in {"none", "server", "archive-access"} /\ (halfway # "none" => Due(halfway))

\* A check hides a defect only where another has reported an error.
ToldSoFar == \A n \in 1 .. doctorAt : \A d \in Reported[n] \cap always : Told(d)
WithoutServer == doctorAt >= 4 /\ server = "unknown" => "error" \in Levels
Blamed == ever \cap (Serious \cup {"archive-removed-meanwhile"}) # {}

\* The inductive invariant.
DoctorInv == /\ DoctorTypes /\ ToldSoFar /\ WithoutServer
             /\ "error" \in Levels => Blamed

LEMMA LevelsGrow ==
  ASSUME report \in Seq(Level), NEW level \in Level, report' = Append(report, level)
  PROVE  /\ Levels' = Levels \cup {level}
         /\ report' \in Seq(Level) /\ Len(report') = Len(report) + 1
<1>1. /\ report' \in Seq(Level) /\ Len(report') = Len(report) + 1
      /\ \A i \in 1 .. Len(report) : report'[i] = report[i]
      /\ report'[Len(report) + 1] = level /\ Len(report) \in Nat
      /\ DOMAIN report = 1 .. Len(report) /\ DOMAIN report' = 1 .. Len(report')
  OBVIOUS
<1>2. Levels' = Levels \cup {level}
  BY <1>1 DEF Levels
<1>3. QED
  BY <1>1, <1>2

LEMMA SeriousOrRisky == Serious \cap Risky = {} /\ Unnoticed \subseteq Serious
  BY DEF Serious, Risky, Unnoticed

\* One check: it is enough that its line, with the lines before it, says what is to be said of
\* the defects that cannot get past it, and that an error has a reason.
LEMMA CheckKeeps ==
  ASSUME DoctorInv, NEW n \in 1 .. 13, doctorAt = n - 1, doctorAt' = n,
         NEW level \in Level, report' = Append(report, level),
         UNCHANGED <<mode, host, always>>, ever \subseteq ever', halfway' = "none",
         server' \in {"known", "unknown"}, server' = server \/ n = 4,
         n = 4 /\ server' = "unknown" => level = "error",
         "error" \notin Levels \cup {level} =>
           \A d \in Reported[n] \cap host : d \in Unnoticed \/ (level = "warn" /\ d \in Risky),
         level = "error" => Blamed'
  PROVE  DoctorInv'
<1>1. /\ Levels' = Levels \cup {level}
      /\ report' \in Seq(Level) /\ Len(report') = Len(report) + 1
  BY LevelsGrow DEF DoctorInv, DoctorTypes
<1>2. Unnoticed' = Unnoticed /\ Impossible' = Impossible
  BY DEF Unnoticed, Impossible
<1>3. DoctorTypes'
  BY <1>1, <1>2 DEF DoctorInv, DoctorTypes
<1>4. \A d : Told(d) => Told(d)'
  BY <1>1, <1>2 DEF Told
<1>5. \A d \in Reported[n] \cap always : Told(d)'
  <2>1. SUFFICES ASSUME NEW d \in Reported[n] \cap host, "error" \notin Levels \cup {level}
                 PROVE  Told(d)'
    BY <1>1 DEF DoctorInv, DoctorTypes, Told
  <2>2. CASE d \in Unnoticed
    BY <2>2, <1>2, SeriousOrRisky DEF Told
  <2>3. CASE level = "warn" /\ d \in Risky
    BY <2>3, <1>1, SeriousOrRisky DEF Told
  <2>4. QED
    BY <2>1, <2>2, <2>3
<1>6. ToldSoFar'
  BY <1>4, <1>5 DEF DoctorInv, ToldSoFar
<1>7. WithoutServer'
  BY <1>1 DEF DoctorInv, WithoutServer
<1>8. "error" \in Levels' => Blamed'
  BY <1>1 DEF DoctorInv, Blamed
<1>9. QED
  BY <1>3, <1>6, <1>7, <1>8 DEF DoctorInv

LEMMA DoctorInitInv == DoctorInit => DoctorInv
<1> SUFFICES ASSUME DoctorInit PROVE DoctorInv
  OBVIOUS
<1>1. host \subseteq Defect /\ Possible(host)
  BY DEF DoctorInit
<1>2. Levels = {}
  BY DEF DoctorInit, Levels
<1>3. DoctorTypes
  BY <1>1 DEF DoctorInit, DoctorTypes, Possible
<1>4. QED
  BY <1>2, <1>3 DEF DoctorInit, DoctorInv, ToldSoFar, WithoutServer

\* What a change of the host, or a check without a line, has to leave as it is.
LEMMA ReportKept ==
  ASSUME DoctorInv, UNCHANGED <<mode, report>>, ever \subseteq ever', always' \subseteq always
  PROVE  /\ Levels' = Levels
         /\ \A d : Told(d) => Told(d)'
         /\ "error" \in Levels' => Blamed'
<1>1. Levels' = Levels /\ Unnoticed' = Unnoticed
  BY DEF Levels, Unnoticed
<1>2. QED
  BY <1>1 DEF DoctorInv, Told, Blamed

\* A line of the report, as the checks write it.
LEMMA Lines ==
  ASSUME DoctorInv, NEW level, Line(level)
  PROVE  /\ report' = Append(report, level) /\ doctorAt' = doctorAt + 1
         /\ UNCHANGED <<mode, host, always>> /\ ever \subseteq ever'
         /\ \A d \in host \cap Serious : Blamed'
  BY DEF Line, DoctorInv, DoctorTypes, Blamed

LEMMA DoctorStepInv == DoctorInv /\ [DoctorNext]_doctorVars => DoctorInv'
<1> SUFFICES ASSUME DoctorInv, [DoctorNext]_doctorVars
             PROVE  DoctorInv'
  OBVIOUS
<1>at. /\ doctorAt \in 0 .. 13 /\ halfway \in {"none", "server", "archive-access"}
       /\ server \in {"known", "unknown"}
  BY DEF DoctorInv, DoctorTypes
<1>idle. ASSUME NEW check, Due(check), check \notin {"server", "archive-access"}
         PROVE  halfway = "none"
  BY <1>idle, <1>at DEF DoctorInv, DoctorTypes, Due
<1>worst. \A S : /\ Worst(S) \in Level
                 /\ Worst(S) = "error" <=> "error" \in S
                 /\ Worst(S) = "ok" => "warn" \notin S
  BY DEF Worst, Level
<1>1. CASE CheckConfig
  <2>1. doctorAt = 0 /\ halfway = "none"
    BY <1>1, <1>at, <1>idle, DueAt DEF CheckConfig
  <2>2. CASE Wrong("config-invalid")
    <3>1. report' = <<"error">> /\ doctorAt' = 13
      BY <1>1, <2>2, ThirteenChecks DEF CheckConfig
    <3>2. UNCHANGED <<mode, host, changes, always, ever, server, halfway>>
      BY <1>1, <2>2 DEF CheckConfig
    <3>3. "error" \in Levels' /\ report' \in Seq(Level) /\ Len(report') = 1
      BY <3>1 DEF Levels, Level
    <3>4. Blamed'
      BY <2>2, <3>2 DEF Wrong, Blamed, DoctorInv, DoctorTypes, Serious
    <3>5. DoctorTypes'
      BY <2>1, <3>1, <3>2, <3>3 DEF DoctorInv, DoctorTypes, Impossible
    <3>6. ToldSoFar' /\ WithoutServer'
      BY <3>3 DEF ToldSoFar, Told, WithoutServer
    <3>7. QED
      BY <3>4, <3>5, <3>6 DEF DoctorInv
  <2>3. CASE ~Wrong("config-invalid") /\ Line("ok")
    <3>1. \A d \in Reported[1] : d \notin host
      BY <2>3, ReportedAre DEF Wrong
    <3>2. QED
      BY <1>1, <1>at, <2>1, <2>3, <3>1, Lines, CheckKeeps DEF CheckConfig, Level
  <2>4. QED
    BY <1>1, <2>2, <2>3 DEF CheckConfig
<1>2. CASE CheckSudo
  <2>1. doctorAt = 1 /\ halfway = "none"
    BY <1>2, <1>at, <1>idle, DueAt DEF CheckSudo
  <2>2. PICK level \in Level : Line(level) /\ (level = "error" => ~RunsAsWritten)
    <3>1. Worst(Ill("clients-odd", "warn")) \in {"ok", "warn"}
      BY <1>worst DEF Ill, Level
    <3>2. QED
      BY <1>2, <3>1 DEF CheckSudo, Level
  <2>3. level = "error" => Blamed'
    BY <2>2, Lines DEF RunsAsWritten, Wrong, Serious
  <2>4. QED
    BY <1>2, <1>at, <2>1, <2>2, <2>3, Lines, CheckKeeps, ReportedAre DEF CheckSudo, Level
<1>3. CASE CheckPasswordFile
  <2>1. doctorAt = 2 /\ halfway = "none"
    BY <1>3, <1>at, <1>idle, DueAt DEF CheckPasswordFile
  <2>2. CASE mode # "tcp"
    <3>1. /\ UNCHANGED <<mode, host, report, changes, always, ever, server, halfway>>
          /\ doctorAt' = 3
      BY <1>3, <2>1, <2>2 DEF CheckPasswordFile, NoLine
    <3>2. Reported[3] \cap host = {}
      BY <2>2, ReportedAre DEF DoctorInv, DoctorTypes, Impossible
    <3>3. DoctorTypes'
      BY <2>1, <3>1 DEF DoctorInv, DoctorTypes, Impossible
    <3>4. ToldSoFar'
      BY <2>1, <3>1, <3>2, ReportKept DEF DoctorInv, DoctorTypes, ToldSoFar
    <3>5. QED
      BY <3>1, <3>3, <3>4, ReportKept DEF DoctorInv, WithoutServer
  <2>3. CASE mode = "tcp"
    <3> DEFINE level == Worst(Ill("password-missing", "error") \cup Ill("password-open", "error"))
    <3>1. Line(level)
      BY <1>3, <2>3 DEF CheckPasswordFile
    <3>2. level = "error" <=> Wrong("password-missing") \/ Wrong("password-open")
      BY <1>worst DEF Ill
    <3>3. level \in Level
      BY <1>worst
    <3> HIDE DEF level
    <3>4. level = "error" => Blamed'
      BY <3>1, <3>2, Lines DEF Wrong, Serious
    <3>5. level # "error" => \A d \in Reported[3] : d \notin host
      BY <3>2, ReportedAre DEF Wrong
    <3>6. QED
      BY <1>3, <1>at, <2>1, <3>1, <3>3, <3>4, <3>5, Lines, CheckKeeps DEF CheckPasswordFile
  <2>4. QED
    BY <2>2, <2>3
<1>4. CASE PingServer
  <2>1. doctorAt = 3 /\ halfway = "none"
    BY <1>4, <1>at, DueAt DEF PingServer
  <2>2. CASE Answers
    <3>1. UNCHANGED <<mode, host, doctorAt, report, always, ever, server>> /\ halfway' = "server"
      BY <1>4, <2>2 DEF PingServer, StillDue
    <3>2. DoctorTypes'
      BY <1>4, <3>1 DEF DoctorInv, DoctorTypes, Impossible, PingServer, Due
    <3>3. QED
      BY <3>1, <3>2, ReportKept DEF DoctorInv, ToldSoFar, WithoutServer
  <2>3. CASE ~Answers
    <3>1. Line("error") /\ UNCHANGED <<server, halfway>>
      BY <1>4, <2>3 DEF PingServer
    <3>2. Blamed'
      BY <2>3, <3>1, Lines DEF Answers, Runs, Wrong, Serious
    <3>3. QED
      BY <1>at, <2>1, <3>1, <3>2, Lines, CheckKeeps DEF Level
  <2>4. QED
    BY <2>2, <2>3
<1>4a. CASE ServerVersion
  <2>1. doctorAt = 3 /\ halfway' = "none"
    BY <1>4a, <1>at, DueAt DEF ServerVersion
  <2>2. PICK level \in {"ok", "error"} : Line(level) /\ (level = "ok" <=> Answers)
    BY <1>4a DEF ServerVersion
  <2>3. level = "error" => Blamed'
    BY <2>2, Lines DEF Answers, Runs, Wrong, Serious
  <2>4. level # "error" => \A d \in Reported[4] : d \notin host
    BY <2>2, ReportedAre DEF Answers, Runs, Wrong
  <2>5. server' \in {"known", "unknown"} /\ (server' = "unknown" => level = "error")
    BY <1>4a, <2>2 DEF ServerVersion
  <2>6. QED
    BY <2>1, <2>2, <2>3, <2>4, <2>5, Lines, CheckKeeps DEF Level
<1>5. CASE CheckClients
  <2>1. doctorAt = 4 /\ halfway = "none"
    BY <1>5, <1>at, <1>idle, DueAt DEF CheckClients
  <2> DEFINE versions == Worst(Ill("clients-older", "error") \cup Ill("clients-newer", "warn"))
             level == IF ~Runs \/ Wrong("clients-odd") THEN "error"
                      ELSE IF server = "unknown" THEN "ok" ELSE versions
  <2>2. Line(level)
    BY <1>5 DEF CheckClients
  <2>3. /\ versions \in Level /\ (versions = "error" <=> Wrong("clients-older"))
        /\ versions = "ok" => ~Wrong("clients-newer")
    BY <1>worst DEF Ill
  <2> HIDE DEF versions
  <2>4. level \in Level
    BY <2>3 DEF Level
  <2>5. level = "error" => Blamed'
    BY <2>2, <2>3, Lines DEF Runs, Wrong, Serious
  <2>6. "error" \notin Levels \cup {level} =>
          \A d \in Reported[5] \cap host : level = "warn" /\ d \in Risky
    <3>1. SUFFICES ASSUME "error" \notin Levels \cup {level}
                   PROVE  \A d \in Reported[5] \cap host : level = "warn" /\ d \in Risky
      OBVIOUS
    <3>2. level = versions
      BY <2>1, <3>1 DEF DoctorInv, WithoutServer
    <3>3. QED
      BY <2>3, <3>1, <3>2, ReportedAre DEF Wrong, Level, Risky
  <2> HIDE DEF level
  <2>7. QED
    BY <1>5, <1>at, <2>1, <2>2, <2>4, <2>5, <2>6, Lines, CheckKeeps DEF CheckClients
<1>6. CASE CheckRole
  <2>1. doctorAt = 5 /\ halfway = "none"
    BY <1>6, <1>at, <1>idle, DueAt DEF CheckRole
  <2> DEFINE rights == Worst(Ill("role-powerless", "error") \cup Ill("role-no-superuser", "warn"))
             level == IF ~Answers THEN "error" ELSE rights
  <2>2. Line(level)
    BY <1>6 DEF CheckRole
  <2>3. /\ rights \in Level /\ (rights = "error" <=> Wrong("role-powerless"))
        /\ rights = "ok" => ~Wrong("role-no-superuser")
    BY <1>worst DEF Ill
  <2> HIDE DEF rights
  <2>4. level \in Level
    BY <2>3 DEF Level
  <2>5. level = "error" => Blamed'
    BY <2>2, <2>3, Lines DEF Answers, Runs, Wrong, Serious
  <2>6. level # "error" => \A d \in Reported[6] \cap host : level = "warn" /\ d \in Risky
    BY <2>3, ReportedAre DEF Wrong, Level, Risky
  <2> HIDE DEF level
  <2>7. QED
    BY <1>6, <1>at, <2>1, <2>2, <2>4, <2>5, <2>6, Lines, CheckKeeps DEF CheckRole
<1>7. CASE CheckBackupDir
  <2>1. doctorAt = 6 /\ halfway = "none"
    BY <1>7, <1>at, <1>idle, DueAt DEF CheckBackupDir
  <2> DEFINE dir == DirLevel("storage-open", "storage-not-writable", "storage-full",
                             "storage-space-unknown")
             level == IF Wrong("storage-missing") THEN "error" ELSE dir
  <2>2. Line(level)
    BY <1>7 DEF CheckBackupDir
  <2>3. /\ dir \in Level
        /\ dir = "error" <=> Wrong("storage-not-writable") \/ Wrong("storage-full")
        /\ dir = "ok" => ~Wrong("storage-open") /\ ~Wrong("storage-space-unknown")
    BY <1>worst DEF DirLevel, Ill
  <2> HIDE DEF dir
  <2>4. level \in Level
    BY <2>3 DEF Level
  <2>5. level = "error" => Blamed'
    BY <2>2, <2>3, Lines DEF Wrong, Serious
  <2>6. level # "error" => \A d \in Reported[7] \cap host : level = "warn" /\ d \in Risky
    BY <2>3, ReportedAre DEF Wrong, Level, Risky
  <2> HIDE DEF level
  <2>7. QED
    BY <1>7, <1>at, <2>1, <2>2, <2>4, <2>5, <2>6, Lines, CheckKeeps DEF CheckBackupDir
<1>8. CASE CheckStateDir
  <2>1. doctorAt = 7 /\ halfway = "none"
    BY <1>8, <1>at, <1>idle, DueAt DEF CheckStateDir
  <2> DEFINE dir == DirLevel("state-open", "state-not-writable", "none", "none")
             level == IF Wrong("state-missing") THEN "error" ELSE dir
  <2>2. Line(level)
    BY <1>8 DEF CheckStateDir
  <2>3. ~Wrong("none")
    BY DEF Wrong, DoctorInv, DoctorTypes, Defect, Serious, Risky
  <2>4. /\ dir \in Level
        /\ dir = "error" <=> Wrong("state-not-writable")
        /\ dir = "ok" => ~Wrong("state-open")
    BY <2>3, <1>worst DEF DirLevel, Ill
  <2> HIDE DEF dir
  <2>5. level \in Level
    BY <2>4 DEF Level
  <2>6. level = "error" => Blamed'
    BY <2>2, <2>4, Lines DEF Wrong, Serious
  <2>7. level # "error" => \A d \in Reported[8] \cap host : level = "warn" /\ d \in Risky
    BY <2>4, ReportedAre DEF Wrong, Level, Risky
  <2> HIDE DEF level
  <2>8. QED
    BY <1>8, <1>at, <2>1, <2>2, <2>5, <2>6, <2>7, Lines, CheckKeeps DEF CheckStateDir
<1>9. CASE CheckLocales
  <2>1. doctorAt = 8 /\ halfway = "none"
    BY <1>9, <1>at, <1>idle, DueAt DEF CheckLocales
  <2>2. PICK level \in {"ok", "warn"} : Line(level) /\ (level = "ok" => ~Wrong("locale-missing"))
    BY <1>9 DEF CheckLocales
  <2>3. \A d \in Reported[9] \cap host : level = "warn" /\ d \in Risky
    BY <2>2, ReportedAre DEF Wrong, Risky
  <2>4. QED
    BY <1>9, <1>at, <2>1, <2>2, <2>3, Lines, CheckKeeps DEF CheckLocales, Level
<1>10. CASE FindArchive
  <2>1. doctorAt = 9 /\ halfway = "none"
    BY <1>10, <1>at, DueAt DEF FindArchive
  <2>2. CASE Wrong("no-archive") \/ Wrong("storage-missing")
    <3>1. Line("warn")
      BY <1>10, <2>2 DEF FindArchive
    <3>2. ~Wrong("archive-unreadable")
      <4>1. \A pair \in Exclusive : ~(pair \subseteq host)
        BY DEF DoctorInv, DoctorTypes
      <4>2. /\ {"no-archive", "archive-unreadable"} \in Exclusive
            /\ {"storage-missing", "archive-unreadable"} \in Exclusive
        BY DEF Exclusive
      <4>3. QED
        BY <2>2, <4>1, <4>2 DEF Wrong
    <3>3. \A d \in Reported[10] \cap host : d \in Risky
      BY <3>2, ReportedAre DEF Wrong, Risky
    <3>4. QED
      BY <1>10, <1>at, <2>1, <2>2, <3>1, <3>3, Lines, CheckKeeps DEF FindArchive, Level
  <2>3. CASE ~Wrong("no-archive") /\ ~Wrong("storage-missing")
    <3>1. /\ UNCHANGED <<mode, host, doctorAt, report, changes, always, ever, server>>
          /\ halfway' = "archive-access"
      BY <1>10, <2>3 DEF FindArchive, StillDue
    <3>2. DoctorTypes'
      BY <1>10, <3>1 DEF DoctorInv, DoctorTypes, Impossible, FindArchive, Due
    <3>3. QED
      BY <3>1, <3>2, ReportKept DEF DoctorInv, ToldSoFar, WithoutServer
  <2>4. QED
    BY <2>2, <2>3
<1>11. CASE OpenArchive
  <2>1. doctorAt = 9 /\ halfway' = "none" /\ server' = server
    BY <1>11, <1>at, DueAt DEF OpenArchive
  <2>2. CASE /\ report' = Append(report, "error") /\ doctorAt' = doctorAt + 1
             /\ ever' = ever \cup {"archive-removed-meanwhile"}
             /\ UNCHANGED <<mode, host, changes, always>>
    <3>1. ever \subseteq ever' /\ Blamed'
      BY <2>2 DEF Blamed
    <3>2. doctorAt' = 10 /\ "error" \in Level
      BY <2>1, <2>2 DEF Level
    <3>3. QED
      BY <1>at, <2>1, <2>2, <3>1, <3>2, CheckKeeps
  <2>3. ASSUME ~Wrong("no-archive"), NEW level \in Level, Line(level),
               level = "error" <=> \/ ~RunsAsWritten \/ Wrong("storage-missing")
                                   \/ Wrong("archive-unreadable") /\ mode # "unset",
               level = "ok" => ~Wrong("archive-odd")
        PROVE  DoctorInv'
    <3>1. level = "error" => Blamed'
      BY <2>3, Lines DEF RunsAsWritten, Wrong, Serious
    <3>2. level # "error" => \A d \in Reported[10] \cap host :
                               d \in Unnoticed \/ (level = "warn" /\ d \in Risky)
      BY <2>3, ReportedAre DEF Wrong, Unnoticed, Level, Risky
    <3>3. QED
      BY <1>at, <2>1, <2>3, <3>1, <3>2, Lines, CheckKeeps DEF Level
  <2>4. \/ /\ report' = Append(report, "error") /\ doctorAt' = doctorAt + 1
           /\ ever' = ever \cup {"archive-removed-meanwhile"}
           /\ UNCHANGED <<mode, host, changes, always>>
        \/ ~Wrong("no-archive") /\ \E level \in Level :
             /\ Line(level)
             /\ level = "error" <=> \/ ~RunsAsWritten \/ Wrong("storage-missing")
                                    \/ Wrong("archive-unreadable") /\ mode # "unset"
             /\ level = "ok" => ~Wrong("archive-odd")
    <3>1. /\ Worst(Ill("archive-odd", "warn")) \in {"ok", "warn"}
          /\ Worst(Ill("archive-odd", "warn")) = "ok" => ~Wrong("archive-odd")
      BY <1>worst DEF Ill, Level
    <3>2. QED
      BY <1>11, <3>1 DEF OpenArchive, Level
  <2>5. QED
    BY <2>2, <2>3, <2>4
<1>12. CASE CheckUnit
  <2>1. doctorAt = 10 /\ halfway = "none"
    BY <1>12, <1>at, <1>idle, DueAt DEF CheckUnit
  <2>2. PICK level \in {"ok", "warn"} : Line(level) /\ (level = "ok" => ~Wrong("no-unit"))
    BY <1>12 DEF CheckUnit
  <2>3. \A d \in Reported[11] \cap host : level = "warn" /\ d \in Risky
    BY <2>2, ReportedAre DEF Wrong, Risky
  <2>4. QED
    BY <1>12, <1>at, <2>1, <2>2, <2>3, Lines, CheckKeeps DEF CheckUnit, Level
<1>13. CASE CheckWeb
  <2>1. doctorAt = 11 /\ halfway = "none"
    BY <1>13, <1>at, <1>idle, DueAt DEF CheckWeb
  <2> DEFINE level == Worst(Ill("web-open", "error") \cup Ill("web-insecure", "warn"))
  <2>2. Line(level)
    BY <1>13 DEF CheckWeb
  <2>3. /\ level \in Level /\ (level = "error" <=> Wrong("web-open"))
        /\ level = "ok" => ~Wrong("web-insecure")
    BY <1>worst DEF Ill
  <2> HIDE DEF level
  <2>4. level = "error" => Blamed'
    BY <2>2, <2>3, Lines DEF Wrong, Serious
  <2>5. level # "error" => \A d \in Reported[12] \cap host : level = "warn" /\ d \in Risky
    BY <2>3, ReportedAre DEF Wrong, Level, Risky
  <2>6. QED
    BY <1>13, <1>at, <2>1, <2>2, <2>3, <2>4, <2>5, Lines, CheckKeeps DEF CheckWeb
<1>14. CASE CheckRetention
  <2>1. doctorAt = 12 /\ halfway = "none"
    BY <1>14, <1>at, <1>idle, DueAt DEF CheckRetention
  <2>2. PICK level \in {"ok", "warn"} :
          Line(level) /\ (level = "ok" => ~Wrong("no-database") /\ ~Wrong("no-backup"))
    BY <1>14 DEF CheckRetention
  <2>3. \A d \in Reported[13] \cap host : level = "warn" /\ d \in Risky
    BY <2>2, ReportedAre DEF Wrong, Risky
  <2>4. QED
    BY <1>14, <1>at, <2>1, <2>2, <2>3, Lines, CheckKeeps DEF CheckRetention, Level
<1>15. CASE HostChanges
  <2>1. /\ host' \subseteq Defect /\ Possible(host')
        /\ always' = always \cap host' /\ ever' = ever \cup host'
        /\ UNCHANGED <<mode, doctorAt, report, server, halfway>>
    BY <1>15 DEF HostChanges, DoctorInv, DoctorTypes
  <2>2. host' \cap Impossible' = {} /\ \A pair \in Exclusive : ~(pair \subseteq host')
    BY <2>1 DEF Possible, Impossible
  <2>3. DoctorTypes'
    BY <2>1, <2>2 DEF DoctorInv, DoctorTypes, Due
  <2>4. QED
    BY <2>1, <2>3, ReportKept DEF DoctorInv, ToldSoFar, WithoutServer
<1>16. CASE UNCHANGED doctorVars
  <2>1. UNCHANGED <<mode, host, doctorAt, report, server, halfway, changes, always, ever>>
    BY <1>16 DEF doctorVars
  <2>2. DoctorTypes'
    BY <2>1 DEF DoctorInv, DoctorTypes, Impossible, Due
  <2>3. QED
    BY <2>1, <2>2, ReportKept DEF DoctorInv, ToldSoFar, WithoutServer
<1>17. QED
  BY <1>1, <1>2, <1>3, <1>4, <1>4a, <1>5, <1>6, <1>7, <1>8, <1>9, <1>10, <1>11, <1>12, <1>13,
     <1>14, <1>15, <1>16 DEF DoctorNext

\* The exit code of doctor tells whether the service can work, and its report does not pass
\* over a risk, whatever is wrong with the host, whatever hides what, and however often the host
\* changes while it is looked at (DoctorIsRight).
THEOREM DoctorTellsTheTruth == DoctorSpec => [](DoctorTypeOK /\ DoctorIsRight)
<1>1. DoctorInv => DoctorTypeOK
  <2>1. report \in Seq(Level) => Levels \subseteq Level
    BY DEF Levels
  <2>2. QED
    BY <2>1, ThirteenChecks DEF DoctorInv, DoctorTypes, DoctorTypeOK, Level
<1>2. DoctorInv => DoctorIsRight
  <2> SUFFICES ASSUME DoctorInv, DoctorDone PROVE DoctorIsRight
    BY DEF DoctorIsRight
  <2>1. \A d \in always : Told(d)
    BY EveryDefectReported, ThirteenChecks DEF DoctorInv, DoctorTypes, DoctorDone, ToldSoFar
  <2>2. DoctorExit = 1 <=> "error" \in Levels
    BY DEF DoctorExit
  <2>3. QED
    BY <2>1, <2>2 DEF DoctorInv, Told, Blamed, DoctorIsRight
<1>3. QED
  BY <1>1, <1>2, DoctorInitInv, DoctorStepInv, PTL DEF DoctorSpec
=============================================================================
