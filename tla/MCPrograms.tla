----------------------------- MODULE MCPrograms -----------------------------
(***************************************************************************)
(* The components that no other module composes, checked in one run: the   *)
(* sessions of the web interface, a call of the PostgreSQL client, a       *)
(* command, doctor, the start of the service, cio, and the journal of a    *)
(* process.  They share no state, so each behaviour is one of them, with   *)
(* the others at rest.                                                     *)
(***************************************************************************)
EXTENDS Sessions, PgClient, Commands, Doctor, ImageReport, MCConfiguration,
        JobJournal

VARIABLE program

\* Histories of up to two layers, with a layer without a command, rules of each level, a
\* large layer and a huge one.
MCLayer == [size : 0 .. 2,
            command : {{}, {"copy"}, {"env", "secret"}, {"apt-install", "apt-clean"}}]
MCHistory == UNION {[1 .. n -> MCLayer] : n \in 0 .. 2}
MCLevels == {"critical", "high", "info", "negligible"}
MCVulnerable == {<<>>} \cup {<<level>> : level \in MCLevels}
                  \cup [1 .. 2 -> MCLevels \ {"high"}]

Program == {"sessions", "client", "command", "doctor", "start", "image", "journal"}
ProgramsVars == <<program, sessionVars, pgVars, cmdVars, doctorVars, configVars, imageVars,
                  journalVars>>

ProgramsInit ==
  /\ program \in Program
  /\ IF program = "client" THEN TRUE ELSE cluster = "present"
  /\ IF program = "command" THEN TRUE
     ELSE /\ there = {} /\ readOnly = "no"
          /\ command = [name |-> "jobs", at |-> "flags", code |-> -1, on |-> {}, late |-> "no"]
  /\ IF program = "doctor" THEN TRUE ELSE mode = "sudo" /\ host = {}
  /\ IF program = "start" THEN TRUE
     ELSE /\ setup = [at |-> "loading", listenFlag |-> "unset", edited |-> "no"]
          /\ file = MCSudo /\ env = [s \in {} |-> "none"]
  /\ SessionsInit /\ PgInit /\ CmdInit /\ DoctorInit /\ ConfigInit /\ ImageInit
  /\ JournalInit

Sit(other) == UNCHANGED <<program, other>>
ProgramsNext ==
  \/ program = "sessions" /\ SessionsNext
       /\ Sit(<<pgVars, cmdVars, doctorVars, configVars, imageVars, journalVars>>)
  \/ program = "client" /\ PgNext
       /\ Sit(<<sessionVars, cmdVars, doctorVars, configVars, imageVars, journalVars>>)
  \/ program = "command" /\ CmdNext
       /\ Sit(<<sessionVars, pgVars, doctorVars, configVars, imageVars, journalVars>>)
  \/ program = "doctor" /\ DoctorNext
       /\ Sit(<<sessionVars, pgVars, cmdVars, configVars, imageVars, journalVars>>)
  \/ program = "start" /\ ConfigNext
       /\ Sit(<<sessionVars, pgVars, cmdVars, doctorVars, imageVars, journalVars>>)
  \/ program = "image" /\ ImageNext
       /\ Sit(<<sessionVars, pgVars, cmdVars, doctorVars, configVars, journalVars>>)
  \/ program = "journal" /\ JournalNext
       /\ Sit(<<sessionVars, pgVars, cmdVars, doctorVars, configVars, imageVars>>)

ProgramsSpec == ProgramsInit /\ [][ProgramsNext]_ProgramsVars /\ PgFairness

\* The type invariants of the seven modules.
ProgramsTypeOK == /\ SessionsTypeOK /\ PgTypeOK /\ CmdTypeOK /\ DoctorTypeOK /\ ConfigTypeOK
                  /\ ImageTypeOK /\ JournalTypeOK
=============================================================================
