----------------------------- MODULE JobConfig -----------------------------
(***************************************************************************)
(* The configuration of a job: what the panel submits, what assemble makes *)
(* of it (job_svc/build.go) and what validation says of it                 *)
(* (job_entity, retention, schedule).  A field holds its value where the   *)
(* code compares it, and otherwise the class of its text.                  *)
(***************************************************************************)
EXTENDS Commands, SequencesExt

CONSTANTS Paths,      \* texts of paths on the server
          PathClass   \* PathClass[p]: "absolute", "relative", "up", "newline", "blank"

Databases == {"mysql", "postgres", "redis", "mongodb"}
HasDatabaseList(t) == t \in Databases \ {"redis"}
SystemDatabase(n) == Class[n] = "system"

DefaultPort(t) ==
    CASE t = "mysql" -> 3306 [] t = "postgres" -> 5432
      [] t = "redis" -> 6379 [] t = "mongodb" -> 27017

(***************************************************************************)
(* What the panel may submit: one of five forms that are in order, with    *)
(* one field, or two of them, filled in otherwise.                         *)
(***************************************************************************)
Filled(source) ==
    [name |-> "text", source |-> source, server |-> 1, conn |-> "ssh", host |-> "name", port |-> 0,
     user |-> "text", password |-> TRUE, databases |-> <<>>, all |-> FALSE, auth |-> "blank",
     paths |-> {}, excludes |-> "text", repo |-> 1,
     kind |-> "daily", time |-> "03:30", weekday |-> 0, cron |-> "text",
     preset |-> "7d", keep |-> <<0, 0, 0>>,
     timeout |-> 0, limit |-> 0, compression |-> "", extra |-> "none"]

\* The order of the paths matters to nobody, that of the names to the message about them.
cleanList(list) == SelectSeq(list, LAMBDA x : Class[x] # "blank")
cleanPaths(paths) == {p \in paths : PathClass[p] # "blank"}

assemble(in) ==
    LET db == in.source \in Databases
        files == in.source = "files"
        listed == HasDatabaseList(in.source)
    IN [in EXCEPT
          !.timeout = IF @ = 0 THEN 7200 ELSE @,
          !.compression = IF @ = "" THEN "auto" ELSE @,
          !.keep = IF in.preset # "custom" THEN <<0, 0, 0>> ELSE @,
          !.extra = IF @ = "blank" THEN "none" ELSE @,
          !.conn = IF db THEN @ ELSE "",
          !.server = IF files \/ (db /\ in.conn = "ssh") THEN @ ELSE 0,
          !.host = IF db THEN @ ELSE "blank",
          !.port = IF ~db THEN 0 ELSE IF @ = 0 THEN DefaultPort(in.source) ELSE @,
          !.user = IF db THEN @ ELSE "blank",
          !.password = db /\ @,
          !.all = listed /\ @,
          !.databases = IF listed /\ ~in.all THEN cleanList(@) ELSE <<>>,
          !.auth = IF in.source # "mongodb" THEN "blank" ELSE IF @ = "blank" THEN "text" ELSE @,
          !.paths = IF files THEN cleanPaths(@) ELSE {},
          !.excludes = IF files THEN @ ELSE "blank"]

(***************************************************************************)
(* Validation: the set of the fields that are wrong.                       *)
(***************************************************************************)
Wrong(field, condition) == IF condition THEN {field} ELSE {}

\* Slip: a name is only asked for, not looked at.
AnyName(j, i) == Class[j.databases[i]] # "blank"

NameIsUsable(j, i) ==
    LET n == j.databases[i] IN
    /\ Class[n] \notin {"blank", "dashed", "system"}
    /\ j.source = "postgres" => Class[n] # "connection_string"
    /\ \A k \in 1..(i - 1) : j.databases[k] # n

validateDatabase(j) ==
    Wrong("server_id", j.conn = "ssh" /\ j.server = 0) \cup
    Wrong("conn_mode", j.conn \notin {"ssh", "direct"}) \cup
    Wrong("db_host", ~validHost(j.host) \/ j.host = "dashed") \cup
    Wrong("db_port", ~checkPort(j.port)) \cup
    Wrong("db_user", (j.source # "redis" /\ j.user = "blank") \/ j.user = "newline") \cup
    Wrong("databases",
          HasDatabaseList(j.source) /\
          IF j.all THEN j.databases # <<>>
          ELSE j.databases = <<>> \/ \E i \in DOMAIN j.databases : ~NameIsUsable(j, i)) \cup
    Wrong("auth_db", j.source = "mongodb" /\ j.auth # "text")

validateFiles(j) ==
    Wrong("server_id", j.server = 0) \cup
    Wrong("paths", j.paths = {} \/ \E p \in j.paths : PathClass[p] # "absolute") \cup
    Wrong("excludes", j.excludes = "newline")

validateAdvanced(j) ==
    Wrong("advanced.timeout_sec", j.timeout < 60 \/ j.timeout > 604800) \cup
    Wrong("advanced.bandwidth_kbps", j.limit < 0) \cup
    Wrong("advanced.compression", j.compression \notin {"auto", "max", "off"}) \cup
    Wrong("advanced.extra_args", j.extra = "newline")

\* Whether a clock time, a cron expression or a weekday says when to run.
Runs(j) ==
    CASE j.kind \in {"hourly", "6h"} -> TRUE
      [] j.kind = "daily" -> j.time = "03:30"
      [] j.kind = "weekly" -> j.time = "03:30" /\ j.weekday \in 0..6
      [] j.kind = "cron" -> j.cron = "text"      \* not blank, @every, with a zone, or never due
      [] OTHER -> FALSE

ValidateSchedule(j) ==
    Wrong(CASE j.kind \in {"daily", "weekly"} ->
                   IF j.time # "03:30" THEN "schedule.time" ELSE "schedule.weekday"
            [] j.kind = "cron" -> "schedule.cron"
            [] OTHER -> "schedule.kind",
          ~Runs(j))

\* How many snapshots restic is told to keep by time, day, week and month; none: the rule is refused.
normalize(j) ==
    CASE j.preset = "7d" -> <<7, 0, 0, 0>>
      [] j.preset = "30d" -> <<30, 0, 0, 0>>
      [] j.preset = "long" -> <<0, 7, 4, 6>>
      [] j.preset = "custom" /\ \A i \in 1..3 : j.keep[i] \in 0..1000 -> <<0>> \o j.keep
      [] OTHER -> <<0, 0, 0, 0>>

ForgetArgs(j) == {i \in 1..4 : normalize(j)[i] > 0}

ValidateConfig(j) ==
    Wrong("name", j.name # "text") \cup
    (IF j.source \in Databases THEN validateDatabase(j)
     ELSE IF j.source = "files" THEN validateFiles(j) ELSE {"source_type"}) \cup
    Wrong("repo_id", j.repo = 0) \cup
    ValidateSchedule(j) \cup
    Wrong("retention", ForgetArgs(j) = {}) \cup
    validateAdvanced(j)

\* What a test of the connection asks of a form that is not complete yet.
connectionFields ==
    {"source_type", "server_id", "conn_mode", "db_host", "db_port", "db_user", "db_password", "auth_db"}
=============================================================================
