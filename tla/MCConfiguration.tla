-------------------------- MODULE MCConfiguration --------------------------
(***************************************************************************)
(* Configurations for TLC: a file that works, in either mode, and the same *)
(* file with one or two settings of a section changed, to values at the    *)
(* bounds of what Validate accepts and just beyond.                        *)
(***************************************************************************)
EXTENDS Configuration

MCSudo == [users |-> "one", listen |-> "loopback"]
MCBase == {MCSudo,
           [users |-> "one", listen |-> "loopback", mode |-> "tcp", host |-> "db", port |-> "5432",
            role |-> "sqlbrc", passwordFile |-> "/pgpass"]}
MCEdited == {[users |-> "one", listen |-> "loopback", readOnly |-> "yes"]}

MCTried ==
  [schema |-> {0, 2}, listen |-> {"lan", "unset", "unparsed", "bad-port"},
   tls |-> {"both", "cert", "key"},
   allowInsecure |-> {"yes"}, maxBody |-> {4095, 4096, 67108864, 67108865},
   users |-> {"none", "odd-login", "twice", "no-hash"}, tokenFile |-> {"/tokens"},
   sessionTTL |-> {0, 1, 168, 169}, loginBackoff |-> {-1, 0}, maxLoginAttempts |-> {0, 1, 100, 101},
   mode |-> {"unset", "socket"}, sudoUser |-> {"unset", "bad"}, role |-> {"postgres", "bad"},
   database |-> {"unset", "bad"}, port |-> {"bad"},
   passwordFile |-> {"relative"}, pgJobs |-> {-1, 0, 32, 33}, timeout |-> {0, 1440, 1441},
   dir |-> {"unset", "relative", "/state"}, stateDir |-> {"unset", "relative"},
   keepLast |-> {0, 1, 1000, 1001},
   keepDays |-> {0, 1, 3650, 3651}, minFree |-> {0, MaxMinFree, MaxMinFree + 1},
   pattern |-> {"unset", "wider", "halves", "no-regexp", "not-anchored"}, protected |-> {"none"},
   owner |-> {"unset", "bad"}, maxParallel |-> {0, 1, 16, 17}, maxPerDB |-> {0, 2, 16, 17},
   retain |-> {9, 10, 100000, 100001}, level |-> {"loud"}, format |-> {"json", "xml"}]
MCSection ==
  {{"schema"}, {"listen", "tls", "allowInsecure", "maxBody"},
   {"users", "tokenFile", "sessionTTL", "loginBackoff", "maxLoginAttempts"},
   {"mode", "sudoUser", "role", "database", "port", "passwordFile", "pgJobs", "timeout"},
   {"dir", "stateDir", "keepLast", "keepDays", "minFree"}, {"pattern", "protected", "owner"},
   {"maxParallel", "maxPerDB", "retain"}, {"level", "format"}}

MCWith(f, g) == [s \in DOMAIN f \cup DOMAIN g |-> IF s \in DOMAIN g THEN g[s] ELSE f[s]]
MCChanges(s, t) == {[x \in {s, t} |-> IF x = s THEN v ELSE w] : v \in MCTried[s], w \in MCTried[t]}
MCConfigFile ==
  MCBase \cup MCEdited
    \cup UNION {{MCWith(b, c) : b \in MCBase, c \in UNION {MCChanges(s, t) : s, t \in section}}
                  : section \in MCSection}

MCOverride(s, form, value) == [x \in {s} |-> [form |-> form, value |-> value]]
MCEnvironment ==
  {[s \in {} |-> "none"], MCOverride("readOnly", "junk", "yes"), MCOverride("keepLast", "value", 3),
   MCOverride("minFree", "value", 2), MCOverride("pattern", "empty", "unset"),
   MCOverride("mode", "value", "tcp")}
=============================================================================
