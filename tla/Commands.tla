------------------------------ MODULE Commands ------------------------------
(***************************************************************************)
(* The commands that opsnap runs (internal/pkg/cmdbuild, rsh.Rsync) and    *)
(* the storage backends behind them (repo_svc/backend.go, repo_entity).    *)
(*                                                                         *)
(* A text is <<"secret", what>> or <<"plain", what>>: what matters of it   *)
(* is whether it may be shown.  A command has its arguments as a set of    *)
(* texts, its environment as a set of assignments, and what it reads from  *)
(* its standard input.  A field that is validated holds the class of its   *)
(* text ("absolute", "dashed", "spaced", ...).  The name of an environment *)
(* variable is the sequence of the words in it, because secretEnv looks    *)
(* for words: <<"PG", "PASS", "WORD">> is PGPASSWORD.                      *)
(***************************************************************************)
EXTENDS Integers, Sequences

CONSTANTS Names,      \* names of databases
          Class       \* Class[n]: "plain", "dashed", "connection_string", "system", "blank"

\* A database without a name: what validation calls blank.
ASSUME NoName == Class[""] = "blank"

Secret(what) == <<"secret", what>>
Plain(what) == <<"plain", what>>

Command(name, args, env, stdin) ==
    [ok |-> TRUE, name |-> name, args |-> args, env |-> env, stdin |-> stdin]
Refused == [ok |-> FALSE, name |-> "", args |-> {}, env |-> {}, stdin |-> {}]

Env(var, value) == [var |-> var, value |-> value]
Given(given, S) == IF given THEN S ELSE {}

(***************************************************************************)
(* What is masked in the output of a command.                              *)
(***************************************************************************)
mongoConfigEnv == <<"OPSNAP", "MONGODUMP", "CONFIG">>

\* Slip: PASSWORD, SECRET and TOKEN are looked for, and a bare PASS is not.
UsualWords(var) ==
    \E i \in 1..Len(var) : \/ var[i] \in {"SECRET", "TOKEN", "AUTH"}
                           \/ i < Len(var) /\ var[i] = "PASS" /\ var[i + 1] = "WORD"

secretEnv(var) ==
    \/ var = mongoConfigEnv
    \/ Len(var) > 1 /\ var[Len(var)] = "KEY"
    \/ \E i \in 1..Len(var) : var[i] \in {"PASS", "PWD", "SECRET", "TOKEN", "AUTH"}

Secrets(c) == {e.value : e \in {a \in c.env : secretEnv(a.var)}}

(***************************************************************************)
(* Checks of operands.                                                     *)
(***************************************************************************)
IsAbs(p) == p = "absolute"
checkOperand(class) == class \notin {"blank", "dashed"}
checkPort(port) == port \in Nat \ {0} /\ port <= 65535
validHTTPURL(u) == u = "http"          \* not "ftp", "http_with_user", "blank"
validHost(h) == h \notin {"blank", "spaced"}

(***************************************************************************)
(* A storage location as saved, its validation (repo_entity), the backend  *)
(* that open makes of it, and where the backend leads restic.              *)
(***************************************************************************)
SFTPPort(r) == IF r.port = 0 THEN 22 ELSE r.port

Validate(r) ==
    \/ r.type = "local" /\ IsAbs(r.path)
    \/ /\ r.type = "sftp"
       /\ validHost(r.host)
       /\ r.port \in Nat /\ r.port <= 65535
       /\ r.username
       /\ IsAbs(r.path)
       /\ r.credential \/ r.private_key
       /\ r.host_key = "key"
    \/ /\ r.type = "s3"
       /\ validHTTPURL(r.url)
       /\ r.bucket = "name"
       /\ r.username              \* the access key id
       /\ r.credential
    \/ r.type \in {"rest", "webdav"} /\ validHTTPURL(r.url)

NowhereBackend == [ok |-> FALSE, repo |-> Plain("nowhere"), env |-> {}, opts |-> {}]
Backend(repo, env, opts) == [ok |-> TRUE, repo |-> repo, env |-> env, opts |-> opts]

RcloneEnv(words, value) == Env(<<"RCLONE", "CONFIG", "OPSNAP">> \o words, value)

\* An address with a user in it has the password in it.
URL(r) == IF r.url = "http_with_user" THEN Secret("url") ELSE Plain("url")

LocalBackend(r) ==
    IF IsAbs(r.path) THEN Backend(Plain("path"), {}, {}) ELSE NowhereBackend

S3Backend(r) ==
    IF r.url = "blank" \/ r.bucket = "blank" THEN NowhereBackend
    ELSE Backend(URL(r),
                 {Env(<<"AWS", "ACCESS", "KEY", "ID">>, Plain("access_key_id")),
                  Env(<<"AWS", "SECRET", "ACCESS", "KEY">>, Secret("credential"))},
                 {Plain("s3.bucket-lookup=path")})

RESTBackend(r) ==
    IF ~validHTTPURL(r.url) THEN NowhereBackend
    ELSE Backend(URL(r),
                 Given(r.username, {Env(<<"RESTIC", "REST", "USERNAME">>, Plain("user"))}) \cup
                 Given(r.credential, {Env(<<"RESTIC", "REST", "PASS", "WORD">>, Secret("credential"))}),
                 {})

ObscuredPass(r) == Given(r.credential, {RcloneEnv(<<"PASS">>, Secret("obscured"))})

WebDAVBackend(r) ==
    IF r.url \notin {"http", "http_with_user"} THEN NowhereBackend
    ELSE Backend(Plain("rclone_path"),
                 {RcloneEnv(<<"TYPE">>, Plain("webdav")),
                  RcloneEnv(<<"URL">>, URL(r)),
                  RcloneEnv(<<"VENDOR">>, Plain("vendor"))} \cup
                 Given(r.username, {RcloneEnv(<<"USER">>, Plain("user"))}) \cup ObscuredPass(r),
                 {})

SFTPBackend(r) ==
    IF \/ r.host = "blank" \/ ~r.username \/ r.path = "blank"
       \/ ~r.private_key /\ ~r.credential
       \/ ~checkPort(SFTPPort(r))
    THEN NowhereBackend
    ELSE Backend(Plain("rclone_path"),
                 {RcloneEnv(<<"TYPE">>, Plain("sftp")), RcloneEnv(<<"HOST">>, Plain("host")),
                  RcloneEnv(<<"PORT">>, Plain("port")), RcloneEnv(<<"USER">>, Plain("user")),
                  RcloneEnv(<<"KNOWN", "HOSTS", "FILE">>, Plain("known_hosts_file"))} \cup
                 Given(r.private_key, {RcloneEnv(<<"KEY", "FILE">>, Plain("key_file"))}) \cup ObscuredPass(r),
                 {})

location(r) ==
    CASE r.type = "local" -> LocalBackend(r)
      [] r.type = "s3" -> S3Backend(r)
      [] r.type = "rest" -> RESTBackend(r)
      [] r.type = "webdav" -> WebDAVBackend(r)
      [] r.type = "sftp" -> SFTPBackend(r)
      [] OTHER -> NowhereBackend

\* The address as the panel and the recovery bundle show it.
Address(r) ==
    CASE r.type \in {"s3", "rest"} -> {URL(r)}
      [] r.type = "sftp" -> {Plain("user"), Plain("host"), Plain("path")}
      [] OTHER -> {Plain("path")}

\* Only WebDAV and SFTP have their password turned into rclone's form first.
Obscures(r) == r.type \in {"webdav", "sftp"} /\ r.credential

RcloneObscure == Command("rclone", {Plain("obscure")}, {}, {Secret("credential")})

RcloneAbout(r) ==
    IF ~location(r).ok \/ r.type \notin {"webdav", "sftp"} THEN Refused
    ELSE Command("rclone", {Plain("about"), location(r).repo}, location(r).env, {})

(***************************************************************************)
(* restic.  A repository is a location, the key that opens it (a text, or  *)
(* Plain("none")), a compression and a limit on uploads.                   *)
(***************************************************************************)
Repo(r, key, compression, limit) ==
    [backend |-> location(r), key |-> key, compression |-> compression, limit |-> limit]

restic(repo, args) ==
    IF \/ ~repo.backend.ok \/ repo.key = Plain("none")
       \/ repo.compression \notin {"", "auto", "max", "off"}
    THEN Refused
    ELSE Command("restic",
                 args \cup repo.backend.opts
                      \cup Given(repo.compression # "", {Plain("compression")})
                      \cup Given(repo.limit > 0, {Plain("limit")}),
                 {Env(<<"RESTIC", "REPOSITORY">>, repo.backend.repo),
                  Env(<<"RESTIC", "PASS", "WORD">>, repo.key)} \cup repo.backend.env,
                 {})

And(c, env, stdin) ==
    IF c.ok THEN [c EXCEPT !.env = @ \cup env, !.stdin = @ \cup stdin] ELSE c

Progress == {Env(<<"RESTIC", "PROGRESS", "FPS">>, Plain("0.1"))}
tagHostArgs == {Plain("opsnap"), Plain("job_tag"), Plain("run_tag")}

ResticInit(repo) == restic(repo, {Plain("init")})

ResticBackupStdin(repo, dump) ==
    IF ~dump.ok \/ dump.stdin # {} THEN Refused
    ELSE And(restic(repo, {Plain("backup"), Plain("file_name"), Plain(dump.name)}
                          \cup tagHostArgs \cup dump.args),
             Progress \cup dump.env, {})

ResticBackupDir(repo, dir) ==
    IF ~IsAbs(dir) THEN Refused
    ELSE And(restic(repo, {Plain("backup"), Plain("mirror")} \cup tagHostArgs), Progress, {})

ResticForget(repo, tags, policy) ==
    IF ~tags \/ ~policy THEN Refused
    ELSE restic(repo, {Plain("forget"), Plain("job_tag"), Plain("policy")})

ResticSnapshots(repo) == restic(repo, {Plain("snapshots"), Plain("job_tag")})

ResticLs(repo, id, dir) ==
    IF ~checkOperand(id) \/ dir \notin {"blank", "absolute"} THEN Refused
    ELSE restic(repo, {Plain("ls"), Plain("snapshot")})

ResticDump(repo, id, file, archive) ==
    IF ~checkOperand(id) \/ ~IsAbs(file) \/ archive \notin {"", "tar", "zip"} THEN Refused
    ELSE restic(repo, {Plain("dump"), Plain("snapshot"), Plain("file")})

ResticStats(repo, mode) ==
    IF mode \notin {"restore-size", "files-by-contents", "blobs-per-file", "raw-data"} THEN Refused
    ELSE restic(repo, {Plain("stats"), Plain(mode)})

ResticCheck(repo, subset) ==
    IF subset # "blank" /\ ~checkOperand(subset) THEN Refused
    ELSE restic(repo, {Plain("check")})

ResticPrune(repo) == restic(repo, {Plain("prune")})
ResticUnlock(repo) == restic(repo, {Plain("unlock")})
ResticKeyList(repo) == restic(repo, {Plain("key_list")})

ResticKeyAdd(repo, new) ==
    And(restic(repo, {Plain("key_add"), Plain("/dev/stdin")}), {}, {new})

ResticKeyRemove(repo, id) ==
    IF ~checkOperand(id) THEN Refused
    ELSE restic(repo, {Plain("key_remove"), Plain("key_id")})

(***************************************************************************)
(* Exports of databases.  What makes a name of a database unusable is in   *)
(* its class.                                                              *)
(***************************************************************************)
ConnArgs(s) == {Plain("host"), Plain("port")} \cup Given(s.user, {Plain("user")})
PasswordEnv(s, var) == Given(s.password, {Env(var, Secret("database_password"))})

mysqlDump(s) ==
    IF ~s.all /\ s.databases = <<>> THEN Refused
    ELSE Command("mysqldump",
                 ConnArgs(s) \cup (IF s.all THEN {Plain("--all-databases")}
                                   ELSE {Plain(s.databases[i]) : i \in 1..Len(s.databases)}),
                 PasswordEnv(s, <<"MYSQL", "PWD">>), {})

pgDump(s) ==
    IF s.all \/ Len(s.databases) # 1 \/ Class[s.databases[1]] = "connection_string" THEN Refused
    ELSE Command("pg_dump", ConnArgs(s) \cup {Plain(s.databases[1])},
                 PasswordEnv(s, <<"PG", "PASS", "WORD">>), {})

\* With a password, mongodump is run by a shell that feeds it the configuration.
mongoDump(s) ==
    IF Len(s.databases) > 1 THEN Refused
    ELSE Command(IF s.password THEN "sh" ELSE "mongodump",
                 ConnArgs(s) \cup Given(s.user, {Plain("authentication_database")})
                             \cup {Plain(s.databases[i]) : i \in 1..Len(s.databases)},
                 PasswordEnv(s, mongoConfigEnv), {})

redisDump(s) ==
    Command("redis-cli", ConnArgs(s), PasswordEnv(s, <<"REDISCLI", "AUTH">>), {})

Dump(s) ==
    IF \/ s.host \in {"blank", "dashed"}
       \/ ~checkPort(s.port)
       \/ \E i \in 1..Len(s.databases) : ~checkOperand(Class[s.databases[i]])
    THEN Refused
    ELSE LET c == CASE s.kind = "mysql" -> mysqlDump(s)
                    [] s.kind = "postgres" -> pgDump(s)
                    [] s.kind = "mongodb" -> mongoDump(s)
                    [] s.kind = "redis" -> redisDump(s)
                    [] OTHER -> Refused
         IN IF c.ok THEN [c EXCEPT !.args = @ \cup Given(s.extra, {Plain("extra")})] ELSE c

(***************************************************************************)
(* rsync through the bridge.                                               *)
(***************************************************************************)
BridgeEnv == {Env(<<"OPSNAP", "RSH", "SOCKET">>, Plain("socket")),
              Env(<<"OPSNAP", "RSH", "TOKEN">>, Secret("token"))}

\* The paths are given by the set of their classes.
Rsync(paths, dest, limit, extra) ==
    IF paths = {} \/ "relative" \in paths \/ ~IsAbs(dest) THEN Refused
    ELSE Command("rsync",
                 {Plain(p) : p \in paths} \cup {Plain("mirror")}
                    \cup Given(limit > 0, {Plain("limit")}) \cup Given(extra, {Plain("extra")}),
                 BridgeEnv, {})
=============================================================================
