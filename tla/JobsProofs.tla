----------------------------- MODULE JobsProofs -----------------------------
(***************************************************************************)
(* What a job promises from the form to the run, for any names, paths,     *)
(* forms and states of the world:                                          *)
(* no command shows a secret (HiddenCorrect); what is answered about a     *)
(* saved job's paths is true (SavedCorrect); a validated job's commands    *)
(* can be built (BuildCorrect); and a test that was all right predicts the *)
(* run (TestCorrect).                                                      *)
(*                                                                         *)
(* Then when a job is late (Alerts, which has variables of its own): the   *)
(* check for stale jobs reports none that had a success in time.           *)
(***************************************************************************)
EXTENDS Jobs, Alerts, SequenceTheorems, WellFoundedInduction, TLAPS

(***************************************************************************)
(* Commands.  A command is tidy if its arguments show no secret and its    *)
(* environment has secrets only in variables that secretEnv knows.         *)
(***************************************************************************)
Tidy(c) == /\ \A t \in c.args : t[1] # "secret"
           /\ \A e \in c.env : e.value[1] = "secret" => secretEnv(e.var)

LEMMA PlainShown == ASSUME NEW w PROVE Plain(w)[1] # "secret" /\ Plain(w) # Secret(w)
  BY DEF Plain, Secret

\* The names of the variables that carry secrets are known to be secret.
LEMMA Words ==
  /\ secretEnv(<<"RESTIC", "PASS", "WORD">>)
  /\ secretEnv(<<"AWS", "SECRET", "ACCESS", "KEY">>)
  /\ secretEnv(<<"RESTIC", "REST", "PASS", "WORD">>)
  /\ secretEnv(<<"MYSQL", "PWD">>)
  /\ secretEnv(<<"PG", "PASS", "WORD">>)
  /\ secretEnv(mongoConfigEnv)
  /\ secretEnv(<<"REDISCLI", "AUTH">>)
  /\ secretEnv(<<"OPSNAP", "RSH", "TOKEN">>)
  BY DEF secretEnv, mongoConfigEnv

LEMMA RcloneWord == secretEnv(<<"RCLONE", "CONFIG", "OPSNAP">> \o <<"PASS">>)
<1> DEFINE W == {"RCLONE", "CONFIG", "OPSNAP", "PASS"}
           prefix == <<"RCLONE", "CONFIG", "OPSNAP">>
           word == <<"PASS">>
<1>1. prefix \in Seq(W) /\ word \in Seq(W) /\ Len(prefix) = 3 /\ Len(word) = 1 /\ word[1] = "PASS"
  OBVIOUS
<1> HIDE DEF prefix, word
<1>2. \A i \in 1 .. Len(prefix) + Len(word) :
        (prefix \o word)[i] = IF i <= Len(prefix) THEN prefix[i] ELSE word[i - Len(prefix)]
  BY <1>1, ConcatProperties
<1>4. Len(prefix \o word) = Len(prefix) + Len(word)
  BY <1>1, ConcatProperties
<1>5. Len(prefix \o word) = 4 /\ (prefix \o word)[4] = word[1]
  <2>1. 4 \in 1 .. Len(prefix) + Len(word) /\ ~(4 <= Len(prefix)) /\ 4 - Len(prefix) = 1
    BY <1>1
  <2> QED
    BY <1>1, <1>2, <1>4, <2>1
<1>3. secretEnv(prefix \o word)
  BY <1>1, <1>5 DEF secretEnv
<1> QED
  BY <1>3 DEF prefix, word

\* A backend is usable and shows no secret.
Neat(b) == /\ b.ok /\ b.repo[1] # "secret"
           /\ \A t \in b.opts : t[1] # "secret"
           /\ \A e \in b.env : e.value[1] = "secret" => secretEnv(e.var)

LEMMA NeatBackend ==
  ASSUME NEW repo, NEW env, NEW opts, repo[1] # "secret", \A t \in opts : t[1] # "secret",
         \A e \in env : e.value[1] = "secret" => secretEnv(e.var)
  PROVE  Neat(Backend(repo, env, opts))
  BY DEF Neat, Backend

LEMMA TidyEnv ==
  ASSUME NEW var, NEW value, value[1] = "secret" => secretEnv(var)
  PROVE  Env(var, value).value[1] = "secret" => secretEnv(Env(var, value).var)
  BY DEF Env

LEMMA ObscuredTidy ==
  ASSUME NEW r, NEW e \in ObscuredPass(r)
  PROVE  e.value[1] = "secret" => secretEnv(e.var)
<1>1. e = RcloneEnv(<<"PASS">>, Secret("obscured"))
  BY DEF ObscuredPass, Given
<1>2. RcloneEnv(<<"PASS">>, Secret("obscured")).var = <<"RCLONE", "CONFIG", "OPSNAP">> \o <<"PASS">>
  BY DEF RcloneEnv, Env
<1> QED
  BY <1>1, <1>2, RcloneWord

LEMMA RclonePlain ==
  ASSUME NEW words, NEW what
  PROVE  RcloneEnv(words, Plain(what)).value[1] # "secret"
  BY DEF RcloneEnv, Env, Plain

\* The backend of a validated location.
LEMMA LocationNeat ==
  ASSUME NEW r, Validate(r)
  PROVE  Neat(location(r)) /\ \A t \in Address(r) : t[1] # "secret"
<1>1. r.type \in {"local", "sftp", "s3", "rest", "webdav"}
  BY DEF Validate
<1>2. CASE r.type = "local"
  <2>1. location(r) = Backend(Plain("path"), {}, {}) /\ Address(r) = {Plain("path")}
    BY <1>2 DEF Validate, location, LocalBackend, Address
  <2> QED
    BY <2>1, PlainShown, NeatBackend
<1>3. CASE r.type = "s3"
  <2>1. r.url = "http" /\ r.bucket = "name"
    BY <1>3 DEF Validate, validHTTPURL
  <2>2. URL(r) = Plain("url")
    BY <2>1 DEF URL
  <2> DEFINE env == {Env(<<"AWS", "ACCESS", "KEY", "ID">>, Plain("access_key_id")),
                     Env(<<"AWS", "SECRET", "ACCESS", "KEY">>, Secret("credential"))}
             opts == {Plain("s3.bucket-lookup=path")}
  <2>3. location(r) = Backend(Plain("url"), env, opts) /\ Address(r) = {Plain("url")}
    BY <1>3, <2>1, <2>2 DEF location, S3Backend, Address
  <2>4. \A e \in env : e.value[1] = "secret" => secretEnv(e.var)
    BY Words, PlainShown, TidyEnv
  <2> QED
    BY <2>3, <2>4, PlainShown, NeatBackend
<1>4. CASE r.type = "rest"
  <2>1. r.url = "http" /\ validHTTPURL(r.url)
    BY <1>4 DEF Validate, validHTTPURL
  <2>2. URL(r) = Plain("url")
    BY <2>1 DEF URL
  <2> DEFINE user == Given(r.username, {Env(<<"RESTIC", "REST", "USERNAME">>, Plain("user"))})
             pass == Given(r.credential, {Env(<<"RESTIC", "REST", "PASS", "WORD">>, Secret("credential"))})
  <2>3. location(r) = Backend(Plain("url"), user \cup pass, {}) /\ Address(r) = {Plain("url")}
    BY <1>4, <2>1, <2>2 DEF location, RESTBackend, Address
  <2>4. \A e \in user : e = Env(<<"RESTIC", "REST", "USERNAME">>, Plain("user"))
    BY DEF Given
  <2>5. \A e \in pass : e = Env(<<"RESTIC", "REST", "PASS", "WORD">>, Secret("credential"))
    BY DEF Given
  <2> HIDE DEF user, pass
  <2>6. \A e \in user \cup pass : e.value[1] = "secret" => secretEnv(e.var)
    BY <2>4, <2>5, Words, PlainShown, TidyEnv
  <2> QED
    BY <2>3, <2>6, PlainShown, NeatBackend
<1>5. CASE r.type = "webdav"
  <2>1. r.url = "http"
    BY <1>5 DEF Validate, validHTTPURL
  <2>2. URL(r) = Plain("url")
    BY <2>1 DEF URL
  <2> DEFINE basic == {RcloneEnv(<<"TYPE">>, Plain("webdav")), RcloneEnv(<<"URL">>, Plain("url")),
                       RcloneEnv(<<"VENDOR">>, Plain("vendor"))}
             user == Given(r.username, {RcloneEnv(<<"USER">>, Plain("user"))})
  <2>3. location(r) = Backend(Plain("rclone_path"), basic \cup user \cup ObscuredPass(r), {})
        /\ Address(r) = {Plain("path")}
    BY <1>5, <2>1, <2>2 DEF location, WebDAVBackend, Address
  <2>4. \A e \in basic \cup user : e.value[1] # "secret"
    BY RclonePlain DEF Given
  <2> HIDE DEF basic, user
  <2>5. \A e \in basic \cup user \cup ObscuredPass(r) : e.value[1] = "secret" => secretEnv(e.var)
    BY <2>4, ObscuredTidy
  <2> QED
    BY <2>3, <2>5, PlainShown, NeatBackend
<1>6. CASE r.type = "sftp"
  <2>1. r.host # "blank" /\ r.path # "blank" /\ r.port \in Nat /\ r.port <= 65535
    BY <1>6 DEF Validate, validHost, IsAbs
  <2>2. checkPort(SFTPPort(r))
    BY <2>1 DEF checkPort, SFTPPort
  <2>7. r.username /\ (r.credential \/ r.private_key)
    BY <1>6 DEF Validate
  <2> DEFINE basic == {RcloneEnv(<<"TYPE">>, Plain("sftp")), RcloneEnv(<<"HOST">>, Plain("host")),
                       RcloneEnv(<<"PORT">>, Plain("port")), RcloneEnv(<<"USER">>, Plain("user")),
                       RcloneEnv(<<"KNOWN", "HOSTS", "FILE">>, Plain("known_hosts_file"))}
             file == Given(r.private_key, {RcloneEnv(<<"KEY", "FILE">>, Plain("key_file"))})
  <2> DEFINE there == Backend(Plain("rclone_path"), basic \cup file \cup ObscuredPass(r), {})
             bad == \/ r.host = "blank" \/ ~r.username \/ r.path = "blank"
                    \/ ~r.private_key /\ ~r.credential
                    \/ ~checkPort(SFTPPort(r))
  <2>8. SFTPBackend(r) = IF bad THEN NowhereBackend ELSE there
    BY Zenon DEF SFTPBackend
  <2>9. ~bad
    BY <2>1, <2>2, <2>7
  <2> HIDE DEF bad, there
  <2>10. SFTPBackend(r) = there
    BY <2>8, <2>9
  <2>3. SFTPBackend(r) = Backend(Plain("rclone_path"), basic \cup file \cup ObscuredPass(r), {})
    BY <2>10 DEF there
  <2>4. location(r) = Backend(Plain("rclone_path"), basic \cup file \cup ObscuredPass(r), {})
        /\ Address(r) = {Plain("user"), Plain("host"), Plain("path")}
    BY <1>6, <2>3 DEF location, Address
  <2>5. \A e \in basic \cup file : e.value[1] # "secret"
    BY RclonePlain DEF Given
  <2> HIDE DEF basic, file
  <2>6. \A e \in basic \cup file \cup ObscuredPass(r) : e.value[1] = "secret" => secretEnv(e.var)
    BY <2>5, ObscuredTidy
  <2> QED
    BY <2>4, <2>6, PlainShown, NeatBackend
<1> QED
  BY <1>1, <1>2, <1>3, <1>4, <1>5, <1>6

LEMMA ResticTidy ==
  ASSUME NEW repo, NEW args, Neat(repo.backend), \A t \in args : t[1] # "secret"
  PROVE  Tidy(restic(repo, args)) /\ restic(repo, args).stdin = {}
<1> DEFINE all == args \cup repo.backend.opts
                      \cup Given(repo.compression # "", {Plain("compression")})
                      \cup Given(repo.limit > 0, {Plain("limit")})
           env == {Env(<<"RESTIC", "REPOSITORY">>, repo.backend.repo),
                   Env(<<"RESTIC", "PASS", "WORD">>, repo.key)} \cup repo.backend.env
<1>1. \A t \in all : t[1] # "secret"
  BY PlainShown DEF Given, Neat
<1>2. \A e \in env : e.value[1] = "secret" => secretEnv(e.var)
  BY Words, TidyEnv DEF Neat
<1>3. restic(repo, args) \in {Refused, Command("restic", all, env, {})}
  BY DEF restic
<1> HIDE DEF all, env
<1>4. Tidy(Refused) /\ Refused.stdin = {}
  BY DEF Tidy, Refused
<1>5. Tidy(Command("restic", all, env, {})) /\ Command("restic", all, env, {}).stdin = {}
  BY <1>1, <1>2 DEF Tidy, Command
<1> QED
  BY <1>3, <1>4, <1>5

LEMMA AndTidy ==
  ASSUME NEW repo, NEW args, Neat(repo.backend), \A t \in args : t[1] # "secret",
         NEW env, \A e \in env : e.value[1] = "secret" => secretEnv(e.var), NEW stdin
  PROVE  Tidy(And(restic(repo, args), env, stdin))
<1> DEFINE all == args \cup repo.backend.opts
                      \cup Given(repo.compression # "", {Plain("compression")})
                      \cup Given(repo.limit > 0, {Plain("limit")})
           own == {Env(<<"RESTIC", "REPOSITORY">>, repo.backend.repo),
                   Env(<<"RESTIC", "PASS", "WORD">>, repo.key)} \cup repo.backend.env
           c == Command("restic", all, own, {})
<1>1. restic(repo, args) \in {Refused, c}
  BY DEF restic
<1>2. And(Refused, env, stdin) = Refused
  BY DEF And, Refused
<1>3. Tidy(Refused)
  BY DEF Tidy, Refused
<1>4. CASE restic(repo, args) = c
  <2>1. c.ok /\ DOMAIN c = {"ok", "name", "args", "env", "stdin"}
    BY DEF Command
  <2> HIDE DEF c
  <2>2. And(c, env, stdin).args = c.args /\ And(c, env, stdin).env = c.env \cup env
    BY <2>1 DEF And
  <2>3. Tidy(c)
    BY <1>4, ResticTidy
  <2> QED
    BY <1>4, <2>2, <2>3 DEF Tidy
<1> QED
  BY <1>1, <1>2, <1>3, <1>4

LEMMA ResticBuilds ==
  ASSUME NEW repo, NEW args, repo.backend.ok, repo.key # Plain("none"),
         repo.compression \in {"", "auto", "max", "off"}
  PROVE  /\ restic(repo, args).ok
         /\ \A env, stdin : And(restic(repo, args), env, stdin).ok
<1>1. PICK all, own : restic(repo, args) = Command("restic", all, own, {})
  BY DEF restic
<1> DEFINE c == Command("restic", all, own, {})
<1>2. c.ok /\ DOMAIN c = {"ok", "name", "args", "env", "stdin"}
  BY DEF Command
<1> HIDE DEF c
<1>3. restic(repo, args) = c
  BY <1>1 DEF c
<1>4. \A env, stdin : And(c, env, stdin).ok
  BY <1>2 DEF And
<1> QED
  BY <1>2, <1>3, <1>4

(* Exports. *)

LEMMA DumpTidy ==
  ASSUME NEW s
  PROVE  Tidy(Dump(s)) /\ Dump(s).stdin = {}
<1> DEFINE Good(c) == /\ Tidy(c) /\ c.stdin = {} /\ DOMAIN c = {"ok", "name", "args", "env", "stdin"}
<1>1. Good(Refused)
  BY DEF Tidy, Refused
<1>2. ASSUME NEW name, NEW args, NEW env, \A t \in args : t[1] # "secret",
             \A e \in env : e.value[1] = "secret" => secretEnv(e.var)
      PROVE  Good(Command(name, args, env, {}))
  BY <1>2 DEF Tidy, Command
<1>3. \A t \in ConnArgs(s) : t[1] # "secret"
  BY PlainShown DEF ConnArgs, Given
<1>4. ASSUME NEW var, secretEnv(var)
      PROVE  \A e \in PasswordEnv(s, var) : e.value[1] = "secret" => secretEnv(e.var)
  BY <1>4 DEF PasswordEnv, Given, Env
<1> HIDE DEF Good
<1>5. Good(mysqlDump(s))
  <2> DEFINE args == ConnArgs(s) \cup (IF s.all THEN {Plain("--all-databases")}
                                       ELSE {Plain(s.databases[i]) : i \in 1..Len(s.databases)})
             env == PasswordEnv(s, <<"MYSQL", "PWD">>)
  <2>1. \A t \in args : t[1] # "secret"
    BY <1>3, PlainShown
  <2>2. \A e \in env : e.value[1] = "secret" => secretEnv(e.var)
    BY <1>4, Words
  <2>3. mysqlDump(s) = Refused \/ mysqlDump(s) = Command("mysqldump", args, env, {})
    BY DEF mysqlDump
  <2> HIDE DEF args, env
  <2> QED
    BY <1>1, <1>2, <2>1, <2>2, <2>3
<1>6. Good(pgDump(s))
  <2> DEFINE args == ConnArgs(s) \cup {Plain(s.databases[1])}
             env == PasswordEnv(s, <<"PG", "PASS", "WORD">>)
  <2>1. \A t \in args : t[1] # "secret"
    BY <1>3, PlainShown
  <2>2. \A e \in env : e.value[1] = "secret" => secretEnv(e.var)
    BY <1>4, Words
  <2>3. pgDump(s) = Refused \/ pgDump(s) = Command("pg_dump", args, env, {})
    BY DEF pgDump
  <2> HIDE DEF args, env
  <2> QED
    BY <1>1, <1>2, <2>1, <2>2, <2>3
<1>7. Good(mongoDump(s))
  <2> DEFINE args == ConnArgs(s) \cup Given(s.user, {Plain("authentication_database")})
                                 \cup {Plain(s.databases[i]) : i \in 1..Len(s.databases)}
             env == PasswordEnv(s, mongoConfigEnv)
  <2>1. \A t \in args : t[1] # "secret"
    BY <1>3, PlainShown DEF Given
  <2>2. \A e \in env : e.value[1] = "secret" => secretEnv(e.var)
    BY <1>4, Words
  <2>3. mongoDump(s) = Refused \/ \E name : mongoDump(s) = Command(name, args, env, {})
    BY DEF mongoDump
  <2> HIDE DEF args, env
  <2> QED
    BY <1>1, <1>2, <2>1, <2>2, <2>3
<1>8. Good(redisDump(s))
  <2> DEFINE env == PasswordEnv(s, <<"REDISCLI", "AUTH">>)
  <2>1. \A e \in env : e.value[1] = "secret" => secretEnv(e.var)
    BY <1>4, Words
  <2>2. redisDump(s) = Command("redis-cli", ConnArgs(s), env, {})
    BY DEF redisDump
  <2> HIDE DEF env
  <2> QED
    BY <1>2, <1>3, <2>1, <2>2
<1>9. ASSUME NEW c, Good(c)
      PROVE  Good([c EXCEPT !.args = @ \cup Given(s.extra, {Plain("extra")})])
  <2> DEFINE more == Given(s.extra, {Plain("extra")})
             d == [c EXCEPT !.args = @ \cup more]
  <2>1. \A t \in more : t[1] # "secret"
    BY PlainShown DEF Given
  <2> HIDE DEF more
  <2>2. d.args = c.args \cup more /\ d.env = c.env /\ d.stdin = c.stdin /\ DOMAIN d = DOMAIN c
    BY <1>9 DEF Good
  <2> HIDE DEF d
  <2>3. Good(d)
    BY <1>9, <2>1, <2>2 DEF Good, Tidy
  <2> QED
    BY <2>3 DEF d, more
<1>10. \E c \in {Refused, mysqlDump(s), pgDump(s), mongoDump(s), redisDump(s)} :
         Dump(s) \in {Refused, c, [c EXCEPT !.args = @ \cup Given(s.extra, {Plain("extra")})]}
  BY DEF Dump
<1>11. Good(Dump(s))
  BY <1>1, <1>5, <1>6, <1>7, <1>8, <1>9, <1>10
<1> QED
  BY <1>11 DEF Good

-----------------------------------------------------------------------------
(* Everything that is executed is tidy, and hides its own secrets.         *)

\* A tidy command that hides its own secrets shows none.
LEMMA TidyHides ==
  ASSUME NEW c, Tidy(c), NEW hidden, Secrets(c) \subseteq hidden
  PROVE  OnlySecrets(Values(c) \ hidden) = {}
<1>1. SUFFICES ASSUME NEW t \in Values(c), t[1] = "secret"
               PROVE  t \in Secrets(c)
  BY DEF OnlySecrets
<1>2. PICK e \in c.env : t = e.value
  BY <1>1 DEF Values, Tidy
<1>3. secretEnv(e.var)
  BY <1>1, <1>2 DEF Tidy
<1> QED
  BY <1>2, <1>3 DEF Secrets

LEMMA ExecHides ==
  ASSUME NEW c, Tidy(c), Exec(c), leaked = {}
  PROVE  leaked' = {}
<1>1. Secrets(c) \subseteq masked' /\ leaked' = leaked \cup OnlySecrets(Values(c) \ masked')
  BY DEF Exec
<1>2. OnlySecrets(Values(c) \ masked') = {}
  BY <1>1, TidyHides
<1> QED
  BY <1>1, <1>2

LEMMA RefusedTidy == Tidy(Refused) BY DEF Tidy, Refused

LEMMA RepoNeat ==
  ASSUME Validate(loc), NEW key, NEW compression, NEW limit
  PROVE  Neat(Repo(loc, key, compression, limit).backend)
BY LocationNeat DEF Repo

LEMMA NoEnv == \A e \in {} : e.value[1] = "secret" => secretEnv(e.var)
  OBVIOUS

LEMMA ProgressTidy ==
  \A e \in Progress : e.value[1] = "secret" => secretEnv(e.var)
BY TidyEnv, PlainShown DEF Progress

LEMMA TagsShown == \A t \in tagHostArgs : t[1] # "secret"
BY PlainShown DEF tagHostArgs

LEMMA ExportTidy ==
  ASSUME NEW repo, Neat(repo.backend), NEW s
  PROVE  Tidy(ResticBackupStdin(repo, Dump(s)))
<1> DEFINE d == Dump(s)
           args == {Plain("backup"), Plain("file_name"), Plain(d.name)} \cup tagHostArgs \cup d.args
<1>1. \A t \in args : t[1] # "secret"
  BY PlainShown, TagsShown, DumpTidy DEF Tidy
<1>2. \A e \in Progress \cup d.env : e.value[1] = "secret" => secretEnv(e.var)
  BY ProgressTidy, DumpTidy DEF Tidy
<1>3. ResticBackupStdin(repo, d) \in {Refused, And(restic(repo, args), Progress \cup d.env, {})}
  BY DEF ResticBackupStdin
<1> HIDE DEF d, args
<1>4. Tidy(ResticBackupStdin(repo, d))
  BY <1>1, <1>2, <1>3, AndTidy, RefusedTidy
<1> QED
  BY <1>4 DEF d

LEMMA MirrorTidy ==
  ASSUME NEW repo, Neat(repo.backend), NEW dir
  PROVE  Tidy(ResticBackupDir(repo, dir))
<1> DEFINE args == {Plain("backup"), Plain("mirror")} \cup tagHostArgs
<1>1. \A t \in args : t[1] # "secret"
  BY PlainShown, TagsShown
<1>3. ResticBackupDir(repo, dir) \in {Refused, And(restic(repo, args), Progress, {})}
  BY DEF ResticBackupDir
<1> HIDE DEF args
<1> QED
  BY <1>1, <1>3, ProgressTidy, AndTidy, RefusedTidy

LEMMA RsyncTidy ==
  ASSUME NEW paths, NEW dest, NEW limit, NEW extra
  PROVE  Tidy(Rsync(paths, dest, limit, extra))
<1> DEFINE args == {Plain(p) : p \in paths} \cup {Plain("mirror")}
                     \cup Given(limit > 0, {Plain("limit")}) \cup Given(extra, {Plain("extra")})
<1>1. \A t \in args : t[1] # "secret"
  BY PlainShown DEF Given
<1>2. \A e \in BridgeEnv : e.value[1] = "secret" => secretEnv(e.var)
  BY TidyEnv, PlainShown, Words DEF BridgeEnv
<1>3. Rsync(paths, dest, limit, extra) \in {Refused, Command("rsync", args, BridgeEnv, {})}
  BY DEF Rsync
<1> HIDE DEF args
<1>4. Tidy(Command("rsync", args, BridgeEnv, {}))
  BY <1>1, <1>2 DEF Tidy, Command
<1> QED
  BY <1>3, <1>4, RefusedTidy

LEMMA ListTidy ==
  ASSUME NEW repo, Neat(repo.backend)
  PROVE  Tidy(ResticSnapshots(repo))
BY ResticTidy, PlainShown DEF ResticSnapshots

\* The commands on a location, besides those of a run.
LEMMA LocationTidy ==
  ASSUME Validate(loc), NEW c \in LocationCommands
  PROVE  Tidy(c)
<1> DEFINE mine == Repo(loc, Secret("key"), "", 0)
           theirs == Repo(loc, Secret("existing_password"), "", 0)
<1>1. Neat(mine.backend) /\ Neat(theirs.backend)
  BY RepoNeat
<1>2. \A repo, w : Neat(repo.backend) => Tidy(restic(repo, {Plain(w)}))
  BY ResticTidy, PlainShown
<1>3. \A repo, v, w : Neat(repo.backend) => Tidy(restic(repo, {Plain(v), Plain(w)}))
  BY ResticTidy, PlainShown
<1>4. \A repo, u, v, w : Neat(repo.backend) => Tidy(restic(repo, {Plain(u), Plain(v), Plain(w)}))
  BY ResticTidy, PlainShown
<1>5. \A repo, v, w, stdin : Neat(repo.backend) => Tidy(And(restic(repo, {Plain(v), Plain(w)}), {}, stdin))
  BY AndTidy, PlainShown, NoEnv
<1>6. Tidy(RcloneAbout(loc))
  <2>1. \A t \in {Plain("about"), location(loc).repo} : t[1] # "secret"
    BY PlainShown, LocationNeat DEF Neat
  <2>2. \A e \in location(loc).env : e.value[1] = "secret" => secretEnv(e.var)
    BY LocationNeat DEF Neat
  <2>3. RcloneAbout(loc) \in
        {Refused, Command("rclone", {Plain("about"), location(loc).repo}, location(loc).env, {})}
    BY DEF RcloneAbout
  <2>4. Tidy(Command("rclone", {Plain("about"), location(loc).repo}, location(loc).env, {}))
    BY <2>1, <2>2 DEF Tidy, Command
  <2> QED
    BY <2>3, <2>4, RefusedTidy
<1>7. c \in {ResticInit(mine), ResticSnapshots(mine), ResticKeyList(mine), ResticKeyList(theirs),
        ResticKeyAdd(mine, Secret("new_key")), ResticKeyAdd(theirs, Secret("key")),
        ResticKeyRemove(mine, "text"), ResticCheck(mine, "text"), ResticPrune(mine), ResticUnlock(mine),
        ResticStats(mine, "raw-data"), ResticStats(mine, "restore-size"), RcloneAbout(loc),
        ResticLs(mine, "text", "absolute"), ResticDump(mine, "text", "absolute", "tar"),
        ResticForget(mine, TRUE, TRUE)}
  BY DEF LocationCommands
<1> HIDE DEF mine, theirs
<1>8. \A repo : Neat(repo.backend) =>
         /\ Tidy(ResticInit(repo)) /\ Tidy(ResticSnapshots(repo)) /\ Tidy(ResticKeyList(repo))
         /\ Tidy(ResticKeyRemove(repo, "text")) /\ Tidy(ResticCheck(repo, "text"))
         /\ Tidy(ResticPrune(repo)) /\ Tidy(ResticUnlock(repo))
         /\ Tidy(ResticStats(repo, "raw-data")) /\ Tidy(ResticStats(repo, "restore-size"))
  BY <1>2, <1>3, RefusedTidy DEF ResticInit, ResticSnapshots, ResticKeyList, ResticKeyRemove,
     ResticCheck, ResticPrune, ResticUnlock, ResticStats
<1>9. \A repo : Neat(repo.backend) =>
         /\ Tidy(ResticLs(repo, "text", "absolute")) /\ Tidy(ResticDump(repo, "text", "absolute", "tar"))
         /\ Tidy(ResticForget(repo, TRUE, TRUE))
         /\ \A new : Tidy(ResticKeyAdd(repo, new))
  BY <1>3, <1>4, <1>5, RefusedTidy DEF ResticLs, ResticDump, ResticForget, ResticKeyAdd
<1> QED
  BY <1>1, <1>6, <1>7, <1>8, <1>9

\* What is inductive about the secrets.
HiddenInv == Validate(loc) /\ leaked = {}

LEMMA HiddenStart == Init => HiddenInv
<1>1. ASSUME Init PROVE OnlySecrets(Address(loc)) = {}
  BY <1>1, LocationNeat DEF Init, OnlySecrets
<1> QED
  BY <1>1 DEF Init, HiddenInv

LEMMA HiddenStep == HiddenInv /\ [Next]_vars => HiddenInv'
<1> SUFFICES ASSUME HiddenInv, [Next]_vars PROVE leaked' = {} /\ loc' = loc
  BY DEF HiddenInv, Validate, IsAbs, validHost, validHTTPURL
<1> USE DEF HiddenInv
<1>1. CASE ChangeWorld \/ Ask \/ Save \/ Test \/ Browse \/ Acknowledge \/ UNCHANGED vars
  BY <1>1 DEF ChangeWorld, Ask, Submit, Save, CheckResources, OpenFS, StatPath, StatDone, Create,
     Test, PrepareConn, LinkFails, LinkWorks, CheckDatabase, NoPathsYet, CheckFiles, CheckRepo,
     Browse, ListDatabases, ListPath, Acknowledge, vars
<1>2. CASE StartRun \/ Preflight \/ DialServer \/ Connect \/ ExportsDone \/ EndRun
  BY <1>2 DEF StartRun, Preflight, DialServer, Connect, ExportsDone, EndRun
<1>3. CASE OpenLocation
  <2>1. OnlySecrets(Values(RcloneObscure)) = {}
    BY PlainShown DEF OnlySecrets, Values, RcloneObscure, Command
  <2> QED
    BY <1>3, <2>1 DEF OpenLocation
<1>4. Neat(OfJob(Job).backend)
  BY RepoNeat DEF OfJob
<1>5. CASE ListSnapshots
  BY <1>5, <1>4, ListTidy, ExecHides DEF ListSnapshots
<1>6. CASE Export
  BY <1>6, <1>4, ExportTidy, ExecHides DEF Export, DumpOf
<1>7. CASE CopyFiles
  BY <1>7, RsyncTidy, ExecHides DEF CopyFiles
<1>8. CASE BackupMirror
  BY <1>8, <1>4, MirrorTidy, ExecHides DEF BackupMirror
<1>9. CASE OtherCommand
  <2>1. PICK c \in LocationCommands : leaked' = leaked \cup OnlySecrets(Values(c) \ Secrets(c)) /\
             loc' = loc
    BY <1>9 DEF OtherCommand
  <2> QED
    BY <2>1, LocationTidy, TidyHides
<1> QED
  BY <1>1, <1>2, <1>3, <1>5, <1>6, <1>7, <1>8, <1>9 DEF Next, Run

\* No secret that opsnap holds reaches a log, a status or an answer: whatever the location, the job
\* and the order of its commands, none is an argument, and what is in a variable or is obscured is
\* hidden before the command line and the output are printed (cmdbuild, secretEnv, redact, engine).
THEOREM HiddenCorrect == Spec => []SecretsHidden
<1>1. HiddenInv => SecretsHidden
  BY DEF HiddenInv, SecretsHidden
<1> QED
  BY <1>1, HiddenStart, HiddenStep, PTL DEF Spec

-----------------------------------------------------------------------------
(* What validation lets through.  j0 is the job that the form describes.   *)

j0 == assemble(form)

\* Only a job of files has paths.
LEMMA NoPathsElsewhere ==
  ASSUME DOMAIN form = DOMAIN Filled("files"), j0.source # "files"
  PROVE  j0.paths = {}
<1>1. {"source", "paths"} \subseteq DOMAIN form
  BY DEF Filled
<1>2. j0.source = form.source /\ j0.paths = IF form.source = "files" THEN cleanPaths(form.paths) ELSE {}
  BY <1>1 DEF j0, assemble
<1> QED
  BY <1>2

LEMMA RightField == ASSUME NEW field, NEW c, Wrong(field, c) = {} PROVE ~c
  BY DEF Wrong

LEMMA ValidDatabase ==
  ASSUME NEW j, validateDatabase(j) = {}
  PROVE  /\ j.host \notin {"blank", "dashed"} /\ checkPort(j.port)
         /\ HasDatabaseList(j.source) /\ ~j.all => \A i \in DOMAIN j.databases : NameIsUsable(j, i)
<1> DEFINE bad == HasDatabaseList(j.source) /\
          IF j.all THEN j.databases # <<>>
          ELSE j.databases = <<>> \/ \E i \in DOMAIN j.databases : ~NameIsUsable(j, i)
<1>1. /\ Wrong("db_host", ~validHost(j.host) \/ j.host = "dashed") = {}
      /\ Wrong("db_port", ~checkPort(j.port)) = {}
      /\ Wrong("databases", bad) = {}
  BY DEF validateDatabase
<1> QED
  BY <1>1, RightField DEF validHost

LEMMA ValidFiles ==
  ASSUME NEW j, validateFiles(j) = {}
  PROVE  j.server # 0 /\ j.paths # {} /\ \A p \in j.paths : PathClass[p] = "absolute"
<1>1. /\ Wrong("server_id", j.server = 0) = {}
      /\ Wrong("paths", j.paths = {} \/ \E p \in j.paths : PathClass[p] # "absolute") = {}
  BY DEF validateFiles
<1> QED
  BY <1>1, RightField

LEMMA ValidConfig ==
  ASSUME NEW j, ValidateConfig(j) = {}
  PROVE  /\ \/ j.source \in Databases /\ validateDatabase(j) = {}
            \/ j.source = "files" /\ validateFiles(j) = {}
         /\ j.compression \in {"auto", "max", "off"}
<1>1. validateAdvanced(j) = {}
      /\ (IF j.source \in Databases THEN validateDatabase(j)
          ELSE IF j.source = "files" THEN validateFiles(j) ELSE {"source_type"}) = {}
  BY DEF ValidateConfig
<1>2. Wrong("advanced.compression", j.compression \notin {"auto", "max", "off"}) = {}
  BY <1>1 DEF validateAdvanced
<1>3. j.compression \in {"auto", "max", "off"}
  BY <1>2, RightField
<1>4. {"source_type"} # {}
  OBVIOUS
<1> QED
  BY <1>1, <1>3, <1>4

\* A job of files without a server is never valid: nothing is looked for on the server then.
LEMMA ServerAsked ==
  ASSUME NEW j, j.source = "files", j.server = 0
  PROVE  ValidateConfig(j) # {}
BY ValidConfig, ValidFiles DEF Databases

-----------------------------------------------------------------------------
(* Requests: what they have found out of the form, and what they answer.   *)

AskFields == {"kind", "pc", "job", "failed", "left", "bad", "confirmed", "unverified", "calm", "ok"}
RunFields == {"pc", "left", "cause", "predicted"}

FormInv ==
  /\ DOMAIN form = DOMAIN Filled("files") /\ world \in worlds
  /\ \A w \in worlds : w.db \in {"up", "down", "refuses_login", "lacks_privileges"}

StoreInv == store # <<>> => store = <<j0>> /\ ValidateConfig(j0) = {}

\* What a request has found out of the form.
AskInv ==
  /\ DOMAIN ask = AskFields
  /\ ask.pc # "idle" => ask.kind # "none" /\ ask.job = <<j0>>
  /\ ask.pc \in {"link", "list", "database", "no_paths", "repo"} => ask.kind # "save"
  /\ ask.kind = "save" /\ ask.pc # "answered" => ValidateConfig(j0) \subseteq ask.failed
  /\ ask.pc = "stat" => j0.paths \subseteq ask.left \cup ask.confirmed \cup ask.bad
  /\ ask.pc = "write" => ask.failed # {} \/ j0.paths \subseteq ask.confirmed \cup ask.unverified
  /\ ask.kind = "save" /\ ask.pc = "answered" /\ ask.ok =>
       store = <<j0>> /\ j0.paths \subseteq ask.confirmed \cup ask.unverified

\* The strengthening of SavedOrSaid.
ShapeInv == FormInv /\ StoreInv /\ AskInv

LEMMA ShapeStart == Init => ShapeInv
<1> SUFFICES ASSUME Init PROVE ShapeInv
  OBVIOUS
<1>1. FormInv
  BY FormsFilled DEF Init, FormInv
<1>2. StoreInv
  BY DEF Init, StoreInv
<1>3. AskInv
  BY DEF Init, AskInv, AskFields, NoAsk
<1> QED
  BY <1>1, <1>2, <1>3 DEF ShapeInv

\* What a request is told in the end is what it found.
LEMMA AnswerShape ==
  ASSUME NEW ok, Answer(ok)
  PROVE  /\ DOMAIN ask' = AskFields /\ ask'.kind = ask.kind /\ ask'.pc = "answered" /\ ask'.job = ask.job
         /\ ask'.failed = ask.failed /\ ask'.confirmed = ask.confirmed /\ ask'.unverified = ask.unverified
         /\ ask'.ok = ok
<1> DEFINE done == [NoAsk EXCEPT !.pc = "answered", !.kind = ask.kind, !.ok = ok, !.failed = ask.failed,
                                 !.job = ask.job, !.confirmed = ask.confirmed,
                                     !.unverified = ask.unverified]
<1>1. ask' = done
  BY DEF Answer
<1>2. DOMAIN NoAsk = AskFields
  BY DEF NoAsk, AskFields
<1>3. /\ DOMAIN done = AskFields /\ done.kind = ask.kind /\ done.pc = "answered" /\ done.job = ask.job
      /\ done.failed = ask.failed /\ done.confirmed = ask.confirmed /\ done.unverified = ask.unverified
      /\ done.ok = ok
  BY <1>2 DEF AskFields
<1> QED
  BY <1>1, <1>3

LEMMA SubmitKeeps ==
  ASSUME ShapeInv, NEW kind \in {"save", "test", "databases", "paths"}, Submit(kind)
  PROVE  AskInv'
<1> DEFINE asked == [NoAsk EXCEPT !.kind = kind, !.pc = "checked", !.job = <<j0>>, !.calm = TRUE,
                                  !.failed = ValidateConfig(j0)]
<1>1. ask' = asked /\ form' = form /\ store' = store
  BY DEF Submit, j0
<1>2. DOMAIN NoAsk = AskFields
  BY DEF NoAsk, AskFields
<1>3. /\ DOMAIN asked = AskFields /\ asked.kind = kind /\ asked.pc = "checked" /\ asked.job = <<j0>>
      /\ asked.failed = ValidateConfig(j0)
  BY <1>2 DEF AskFields
<1> HIDE DEF asked
<1>4. j0' = j0
  BY <1>1 DEF j0
<1> QED
  BY <1>1, <1>3, <1>4 DEF AskInv

LEMMA CheckResourcesKeeps ==
  ASSUME ShapeInv, CheckResources
  PROVE  AskInv'
<1> DEFINE more == Wrong("repo_id", ask.job[1].repo # 0 /\ ~Mounted)
           next == IF \/ ask.job[1].source # "files" \/ ask.job[1].server = 0
                      \/ ask.failed \cap {"server_id", "paths"} # {}
                   THEN "write" ELSE "open"
           checked == [ask EXCEPT !.failed = ask.failed \cup more, !.pc = next]
<1>1. ask.kind = "save" /\ ask.pc = "checked" /\ ask' = checked /\ form' = form /\ store' = store
  BY DEF CheckResources
<1>2. ask.job = <<j0>> /\ ValidateConfig(j0) \subseteq ask.failed /\ DOMAIN ask = AskFields
  BY <1>1 DEF ShapeInv, AskInv
<1>3. next = "write" => ask.failed # {} \/ j0.paths = {}
  <2>1. CASE j0.source # "files"
    BY <2>1, NoPathsElsewhere DEF ShapeInv, FormInv
  <2>2. CASE j0.source = "files" /\ j0.server = 0
    BY <2>2, <1>2, ServerAsked
  <2> QED
    BY <1>2, <2>1, <2>2
<1>4. next \in {"write", "open"}
  OBVIOUS
<1> HIDE DEF next, more
<1>5. /\ DOMAIN checked = AskFields /\ checked.kind = ask.kind /\ checked.pc = next
      /\ checked.job = ask.job /\ checked.failed = ask.failed \cup more
  BY <1>2 DEF AskFields
<1> HIDE DEF checked
<1>6. j0' = j0
  BY <1>1 DEF j0
<1> QED
  BY <1>1, <1>2, <1>3, <1>4, <1>5, <1>6 DEF AskInv

LEMMA OpenFSKeeps ==
  ASSUME ShapeInv, OpenFS
  PROVE  AskInv'
<1>1. ask.pc = "open" /\ form' = form /\ store' = store
  BY DEF OpenFS
<1>2. ask.job = <<j0>> /\ DOMAIN ask = AskFields /\ ask.kind # "none"
      /\ (ask.kind = "save" => ValidateConfig(j0) \subseteq ask.failed)
  BY <1>1 DEF ShapeInv, AskInv
<1>3. j0' = j0
  BY <1>1 DEF j0
<1>4. CASE ask' = [ask EXCEPT !.pc = "stat", !.left = ask.job[1].paths, !.confirmed = {}, !.bad = {}]
  <2> DEFINE opened == [ask EXCEPT !.pc = "stat", !.left = ask.job[1].paths, !.confirmed = {}, !.bad = {}]
  <2>1. /\ DOMAIN opened = AskFields /\ opened.kind = ask.kind /\ opened.pc = "stat" /\ opened.job = ask.job
        /\ opened.failed = ask.failed /\ opened.left = j0.paths
    BY <1>2 DEF AskFields
  <2> HIDE DEF opened
  <2> QED
    BY <1>1, <1>2, <1>3, <1>4, <2>1 DEF AskInv, opened
<1>5. CASE ask' = [ask EXCEPT !.pc = "write", !.unverified = ask.job[1].paths]
  <2> DEFINE opened == [ask EXCEPT !.pc = "write", !.unverified = ask.job[1].paths]
  <2>1. /\ DOMAIN opened = AskFields /\ opened.kind = ask.kind /\ opened.pc = "write" /\
           opened.job = ask.job
        /\ opened.failed = ask.failed /\ opened.unverified = j0.paths
    BY <1>2 DEF AskFields
  <2> HIDE DEF opened
  <2> QED
    BY <1>1, <1>2, <1>3, <1>5, <2>1 DEF AskInv, opened
<1>6. CASE Answer(FALSE)
  BY <1>1, <1>2, <1>3, <1>6, AnswerShape DEF AskInv
<1>7. CASE ask.kind # "save" /\ ask' = [ask EXCEPT !.pc = "repo", !.failed = ask.failed \cup {"paths"}]
  <2> DEFINE opened == [ask EXCEPT !.pc = "repo", !.failed = ask.failed \cup {"paths"}]
  <2>1. /\ DOMAIN opened = AskFields /\ opened.kind = ask.kind /\ opened.pc = "repo" /\ opened.job = ask.job
    BY <1>2 DEF AskFields
  <2> HIDE DEF opened
  <2> QED
    BY <1>1, <1>2, <1>3, <1>7, <2>1 DEF AskInv, opened
<1> QED
  BY <1>4, <1>5, <1>6, <1>7 DEF OpenFS

LEMMA StatPathKeeps ==
  ASSUME ShapeInv, StatPath
  PROVE  AskInv'
<1>1. ask.pc = "stat" /\ form' = form /\ store' = store
  BY DEF StatPath
<1>2. ask.job = <<j0>> /\ DOMAIN ask = AskFields /\ ask.kind # "none"
      /\ (ask.kind = "save" => ValidateConfig(j0) \subseteq ask.failed)
      /\ j0.paths \subseteq ask.left \cup ask.confirmed \cup ask.bad
  BY <1>1 DEF ShapeInv, AskInv
<1>3. j0' = j0
  BY <1>1 DEF j0
<1>4. CASE ask' = Unseen
  <2>1. /\ DOMAIN Unseen = AskFields /\ Unseen.kind = ask.kind /\ Unseen.pc = "write" /\
           Unseen.job = ask.job
        /\ Unseen.failed = ask.failed /\ Unseen.unverified = j0.paths
    BY <1>2 DEF AskFields, Unseen
  <2> QED
    BY <1>1, <1>2, <1>3, <1>4, <2>1 DEF AskInv
<1>5. ASSUME NEW p, ask' = [ask EXCEPT !.left = ask.left \ {p}, !.confirmed = ask.confirmed \cup {p}]
      PROVE  AskInv'
  <2> DEFINE seen == [ask EXCEPT !.left = ask.left \ {p}, !.confirmed = ask.confirmed \cup {p}]
  <2>1. /\ DOMAIN seen = AskFields /\ seen.kind = ask.kind /\ seen.pc = "stat" /\ seen.job = ask.job
        /\ seen.failed = ask.failed /\ seen.left = ask.left \ {p} /\ seen.confirmed = ask.confirmed \cup {p}
        /\ seen.bad = ask.bad
    BY <1>1, <1>2 DEF AskFields
  <2> HIDE DEF seen
  <2>2. j0.paths \subseteq seen.left \cup seen.confirmed \cup seen.bad
    BY <1>2, <2>1
  <2> QED
    BY <1>1, <1>2, <1>3, <1>5, <2>1, <2>2 DEF AskInv, seen
<1>6. ASSUME NEW p, ask' = [ask EXCEPT !.left = ask.left \ {p}, !.bad = ask.bad \cup {p}]
      PROVE  AskInv'
  <2> DEFINE seen == [ask EXCEPT !.left = ask.left \ {p}, !.bad = ask.bad \cup {p}]
  <2>1. /\ DOMAIN seen = AskFields /\ seen.kind = ask.kind /\ seen.pc = "stat" /\ seen.job = ask.job
        /\ seen.failed = ask.failed /\ seen.left = ask.left \ {p} /\ seen.confirmed = ask.confirmed
        /\ seen.bad = ask.bad \cup {p}
    BY <1>1, <1>2 DEF AskFields
  <2> HIDE DEF seen
  <2>2. j0.paths \subseteq seen.left \cup seen.confirmed \cup seen.bad
    BY <1>2, <2>1
  <2> QED
    BY <1>1, <1>2, <1>3, <1>6, <2>1, <2>2 DEF AskInv, seen
<1> QED
  BY <1>4, <1>5, <1>6 DEF StatPath

LEMMA StatDoneKeeps ==
  ASSUME ShapeInv, StatDone
  PROVE  AskInv'
<1> DEFINE more == Wrong("paths", ask.bad # {})
           seen == [ask EXCEPT !.pc = "write", !.failed = ask.failed \cup more]
<1>1. ask.pc = "stat" /\ ask.left = {} /\ ask' = seen /\ form' = form /\ store' = store
  BY DEF StatDone
<1>2. ask.job = <<j0>> /\ DOMAIN ask = AskFields /\ ask.kind # "none"
      /\ (ask.kind = "save" => ValidateConfig(j0) \subseteq ask.failed)
      /\ j0.paths \subseteq ask.left \cup ask.confirmed \cup ask.bad
  BY <1>1 DEF ShapeInv, AskInv
<1>3. j0' = j0
  BY <1>1 DEF j0
<1>4. ask.bad # {} => more # {}
  BY DEF Wrong
<1> HIDE DEF more
<1>5. /\ DOMAIN seen = AskFields /\ seen.kind = ask.kind /\ seen.pc = "write" /\ seen.job = ask.job
      /\ seen.failed = ask.failed \cup more /\ seen.confirmed = ask.confirmed
  BY <1>2 DEF AskFields
<1> HIDE DEF seen
<1>6. seen.failed # {} \/ j0.paths \subseteq seen.confirmed
  BY <1>1, <1>2, <1>4, <1>5
<1> QED
  BY <1>1, <1>2, <1>3, <1>5, <1>6 DEF AskInv

LEMMA CreateKeeps ==
  ASSUME ShapeInv, Create
  PROVE  StoreInv' /\ AskInv'
<1>1. ask.kind = "save" /\ ask.pc = "write" /\ form' = form
  BY DEF Create
<1>2. ask.job = <<j0>> /\ DOMAIN ask = AskFields /\ ValidateConfig(j0) \subseteq ask.failed
      /\ (ask.failed # {} \/ j0.paths \subseteq ask.confirmed \cup ask.unverified)
  BY <1>1 DEF ShapeInv, AskInv
<1>3. j0' = j0 /\ ValidateConfig(j0)' = ValidateConfig(j0)
  BY <1>1 DEF j0
<1>4. CASE ask.failed = {} /\ store' = ask.job /\ Answer(TRUE)
  <2>1. StoreInv'
    BY <1>2, <1>3, <1>4 DEF StoreInv
  <2> QED
    BY <1>1, <1>2, <1>3, <1>4, <2>1, AnswerShape DEF AskInv
<1>5. CASE store' = store /\ Answer(FALSE)
  <2>1. StoreInv'
    BY <1>3, <1>5 DEF StoreInv, ShapeInv
  <2> QED
    BY <1>1, <1>2, <1>3, <1>5, <2>1, AnswerShape DEF AskInv
<1> QED
  BY <1>4, <1>5 DEF Create

\* A step of another request than a save, which goes on or fails.
Moved(pc) ==
  /\ DOMAIN ask' = AskFields /\ ask'.kind = ask.kind /\ ask'.job = ask.job /\ ask'.pc = pc
  /\ pc \in {"link", "list", "database", "no_paths", "repo", "open"}

LEMMA MovedKeeps ==
  ASSUME ShapeInv, ask.pc # "idle", form' = form, store' = store, ask.kind # "save", NEW pc, Moved(pc)
  PROVE  AskInv'
<1>1. DOMAIN ask = AskFields /\ ask.kind # "none" /\ ask.job = <<j0>>
  BY DEF ShapeInv, AskInv
<1>3. j0' = j0
  BY DEF j0
<1> QED
  BY <1>1, <1>3 DEF AskInv, Moved

LEMMA MovesOn ==
  ASSUME ShapeInv, NEW pc \in {"link", "list", "database", "no_paths", "repo", "open"}, NEW failed
  PROVE  /\ ask' = [ask EXCEPT !.pc = pc, !.failed = failed] => Moved(pc)
         /\ ask' = [ask EXCEPT !.pc = pc] => Moved(pc)
<1>1. DOMAIN ask = AskFields
  BY DEF ShapeInv, AskInv
<1>2. ASSUME ask' = [ask EXCEPT !.pc = pc] PROVE Moved(pc)
  BY <1>1, <1>2 DEF AskFields, Moved
<1>3. ASSUME ask' = [ask EXCEPT !.pc = pc, !.failed = failed] PROVE Moved(pc)
  BY <1>1, <1>3 DEF AskFields, Moved
<1> QED
  BY <1>2, <1>3

LEMMA AnsweredKeeps ==
  ASSUME ShapeInv, ask.pc # "idle", form' = form, store' = store, ask.kind # "save",
         NEW ok, Answer(ok)
  PROVE  AskInv'
<1>1. ask.kind # "none" /\ ask.job = <<j0>>
  BY DEF ShapeInv, AskInv
<1>3. j0' = j0
  BY DEF j0
<1> QED
  BY <1>1, <1>3, AnswerShape DEF AskInv

LEMMA TestKeeps ==
  ASSUME ShapeInv, Test
  PROVE  AskInv'
<1>0. form' = form /\ store' = store /\ ask.pc # "idle"
  BY DEF Test, PrepareConn, LinkFails, LinkWorks, CheckDatabase, NoPathsYet, CheckFiles, CheckRepo
<1>1. CASE PrepareConn
  <2>1. ask.kind # "save" /\ (Answer(FALSE) \/ ask' = [ask EXCEPT !.pc = "link", !.failed = {}])
    BY <1>1 DEF PrepareConn
  <2>2. ask' = [ask EXCEPT !.pc = "link", !.failed = {}] => Moved("link")
    BY MovesOn
  <2> QED
    BY <1>0, <2>1, <2>2, MovedKeeps, AnsweredKeeps
<1>2. CASE LinkFails
  <2>1. Answer(FALSE) \/ ask' = [ask EXCEPT !.pc = "repo", !.failed = {"ssh", "data"}]
    BY <1>2 DEF LinkFails
  <2>2. ask.kind # "save"
    BY <1>2 DEF LinkFails, ShapeInv, AskInv
  <2>3. ask' = [ask EXCEPT !.pc = "repo", !.failed = {"ssh", "data"}] => Moved("repo")
    BY MovesOn
  <2> QED
    BY <1>0, <2>1, <2>2, <2>3, MovedKeeps, AnsweredKeeps
<1>3. CASE LinkWorks
  <2> DEFINE pc == IF ask.job[1].source # "files" THEN "database"
                   ELSE IF ask.kind = "paths" THEN "list"
                   ELSE IF ask.job[1].paths = {} THEN "no_paths" ELSE "open"
  <2>1. ask' = [ask EXCEPT !.pc = pc] /\ ask.kind # "save"
    BY <1>3 DEF LinkWorks, ShapeInv, AskInv
  <2>2. pc \in {"link", "list", "database", "no_paths", "repo", "open"}
    OBVIOUS
  <2> HIDE DEF pc
  <2>3. Moved(pc)
    BY <2>1, <2>2, MovesOn
  <2> QED
    BY <1>0, <2>1, <2>3, MovedKeeps
<1>4. CASE CheckDatabase \/ NoPathsYet \/ CheckFiles
  <2>1. ask.kind # "save"
    BY <1>4 DEF CheckDatabase, NoPathsYet, CheckFiles, ShapeInv, AskInv
  <2>2. \E failed : ask' = [ask EXCEPT !.pc = "repo", !.failed = failed]
    <3>1. CASE CheckDatabase
      BY <1>4, <3>1 DEF CheckDatabase
    <3>2. CASE NoPathsYet
      BY <3>2 DEF NoPathsYet
    <3>3. CASE CheckFiles
      BY <3>3 DEF CheckFiles
    <3> QED
      BY <1>4, <3>1, <3>2, <3>3
  <2>3. Moved("repo")
    BY <2>2, MovesOn
  <2> QED
    BY <1>0, <2>1, <2>3, MovedKeeps
<1>5. CASE CheckRepo
  <2>1. ask.kind # "save" /\ \E ok : Answer(ok)
    BY <1>5 DEF CheckRepo, ShapeInv, AskInv
  <2> QED
    BY <1>0, <2>1, AnsweredKeeps
<1> QED
  BY <1>1, <1>2, <1>3, <1>4, <1>5 DEF Test

LEMMA BrowseKeeps ==
  ASSUME ShapeInv, Browse
  PROVE  AskInv'
<1>1. form' = form /\ store' = store /\ ask.pc # "idle" /\ ask.kind # "save" /\ \E ok : Answer(ok)
  BY DEF Browse, ListDatabases, ListPath, ShapeInv, AskInv
<1> QED
  BY <1>1, AnsweredKeeps

\* A step of a run, or a command on the location outside of it.
RunStep == Run \/ OtherCommand

LEMMA RunStepFrame ==
  ASSUME RunStep
  PROVE  UNCHANGED <<form, loc, worlds, world, changes, store, ask, tested>>
BY DEF RunStep, OtherCommand, Run, StartRun, Preflight, OpenLocation, ListSnapshots, DialServer,
   Connect, Export, ExportsDone, CopyFiles, BackupMirror, EndRun

LEMMA ShapeStep == ShapeInv /\ [Next]_vars => ShapeInv'
<1> SUFFICES ASSUME ShapeInv, [Next]_vars PROVE ShapeInv'
  OBVIOUS
<1>1. CASE ChangeWorld
  <2>1. /\ form' = form /\ store' = store /\ worlds' = worlds /\ world' \in worlds
        /\ ask' = [ask EXCEPT !.calm = FALSE] /\ DOMAIN ask = AskFields
    BY <1>1 DEF ChangeWorld, ShapeInv, AskInv
  <2>2. FormInv' /\ StoreInv' /\ j0' = j0
    BY <2>1 DEF ShapeInv, FormInv, StoreInv, j0
  <2> DEFINE shaken == [ask EXCEPT !.calm = FALSE]
  <2>3. /\ DOMAIN shaken = AskFields /\ shaken.kind = ask.kind /\ shaken.pc = ask.pc /\ shaken.job = ask.job
        /\ shaken.failed = ask.failed /\ shaken.left = ask.left /\ shaken.bad = ask.bad
        /\ shaken.confirmed = ask.confirmed /\ shaken.unverified = ask.unverified /\ shaken.ok = ask.ok
    BY <2>1 DEF AskFields
  <2>4. ask' = shaken
    BY <2>1
  <2> HIDE DEF shaken
  <2>5. AskInv'
    BY <2>1, <2>2, <2>3, <2>4 DEF ShapeInv, AskInv
  <2> QED
    BY <2>2, <2>5 DEF ShapeInv
<1>2. CASE Ask \/ Save \/ Test \/ Browse \/ Acknowledge
  <2>1. form' = form /\ worlds' = worlds /\ world' = world
    BY <1>2 DEF Ask, Submit, Save, CheckResources, OpenFS, StatPath, StatDone, Create,
       Test, PrepareConn, LinkFails, LinkWorks, CheckDatabase, NoPathsYet, CheckFiles, CheckRepo,
       Browse, ListDatabases, ListPath, Acknowledge
  <2>2. FormInv'
    BY <2>1 DEF ShapeInv, FormInv
  <2>3. CASE Create
    BY <2>2, <2>3, CreateKeeps DEF ShapeInv
  <2>4. CASE ~Create
    <3>1. store' = store
      BY <1>2, <2>4 DEF Ask, Submit, Save, CheckResources, OpenFS, StatPath, StatDone,
         Test, PrepareConn, LinkFails, LinkWorks, CheckDatabase, NoPathsYet, CheckFiles, CheckRepo,
         Browse, ListDatabases, ListPath, Acknowledge
    <3>2. StoreInv'
      BY <2>1, <3>1 DEF ShapeInv, StoreInv, j0
    <3>3. CASE Acknowledge
      <4>1. DOMAIN NoAsk = AskFields /\ NoAsk.kind = "none" /\ NoAsk.pc = "idle"
        BY DEF NoAsk, AskFields
      <4>2. ask' = NoAsk
        BY <3>3 DEF Acknowledge
      <4> QED
        BY <2>2, <3>2, <4>1, <4>2 DEF ShapeInv, AskInv
    <3>4. AskInv'
      BY <1>2, <2>4, <3>3, SubmitKeeps, CheckResourcesKeeps, OpenFSKeeps, StatPathKeeps, StatDoneKeeps,
         TestKeeps, BrowseKeeps DEF Ask, Save, ShapeInv
    <3> QED
      BY <2>2, <3>2, <3>4 DEF ShapeInv
  <2> QED
    BY <2>3, <2>4
<1>3. CASE RunStep \/ UNCHANGED vars
  <2>1. UNCHANGED <<form, worlds, world, store, ask>>
    BY <1>3, RunStepFrame DEF vars
  <2> QED
    BY <2>1 DEF ShapeInv, FormInv, StoreInv, AskInv, j0
<1> QED
  BY <1>1, <1>2, <1>3 DEF Next, RunStep

\* A job is saved only with paths that were seen to be directories while it was saved, or that the
\* answer names as not seen: also when the server answers slowly, or changes meanwhile (job_svc.Create).
THEOREM SavedCorrect == Spec => []SavedOrSaid
<1>1. ShapeInv => SavedOrSaid
  BY DEF ShapeInv, AskInv, SavedOrSaid, Job
<1> QED
  BY <1>1, ShapeStart, ShapeStep, PTL DEF Spec

-----------------------------------------------------------------------------
(* The commands of a validated job on a validated location can be built.   *)

\* The names that a job without all databases exports.
ChosenNames(j) == IF ~HasDatabaseList(j.source) THEN {""} ELSE ToSet(j.databases)

\* The name of a database, as a run passes it on, can be told to the dump.
Tellable(s) ==
  /\ s.host \notin {"blank", "dashed"} /\ checkPort(s.port)
  /\ ~s.all
  /\ \/ s.kind = "redis" /\ s.databases = <<>>
     \/ \E n : /\ s.databases = <<n>> /\ s.kind \in {"mysql", "postgres", "mongodb"}
               /\ Class[n] \notin {"blank", "dashed"}
               /\ s.kind = "postgres" => Class[n] # "connection_string"

\* A dump of a validated job is refused for no other reason than its name.
LEMMA DumpBuilds ==
  ASSUME NEW s, Tellable(s)
  PROVE  Dump(s).ok
<1>1. \A i \in 1 .. Len(s.databases) : checkOperand(Class[s.databases[i]])
  <2>1. CASE s.databases = <<>>
    BY <2>1
  <2>2. ASSUME NEW n, s.databases = <<n>>, Class[n] \notin {"blank", "dashed"}
        PROVE  \A i \in 1 .. Len(s.databases) : checkOperand(Class[s.databases[i]])
    BY <2>2 DEF checkOperand
  <2> QED
    BY <2>1, <2>2 DEF Tellable
<1> DEFINE Whole(c) == c.ok /\ DOMAIN c = {"ok", "name", "args", "env", "stdin"}
<1>2. \A name, args, env : Whole(Command(name, args, env, {}))
  BY DEF Command
<1>3. ASSUME NEW c, Whole(c),
             Dump(s) = IF c.ok THEN [c EXCEPT !.args = c.args \cup Given(s.extra, {Plain("extra")})] ELSE c
      PROVE  Dump(s).ok
  <2> DEFINE d == [c EXCEPT !.args = c.args \cup Given(s.extra, {Plain("extra")})]
  <2>1. d.ok
    BY <1>3
  <2> QED
    BY <1>3, <2>1
<1>4. ~(\/ s.host \in {"blank", "dashed"} \/ ~checkPort(s.port)
        \/ \E i \in 1..Len(s.databases) : ~checkOperand(Class[s.databases[i]]))
  BY <1>1 DEF Tellable
<1> HIDE DEF Whole
<1>5. CASE s.kind = "redis"
  <2>1. Whole(redisDump(s))
    BY <1>2 DEF redisDump
  <2>2. Dump(s) = IF redisDump(s).ok
        THEN [redisDump(s) EXCEPT !.args = redisDump(s).args \cup Given(s.extra, {Plain("extra")})]
                  ELSE redisDump(s)
    BY <1>4, <1>5 DEF Dump
  <2> QED
    BY <1>3, <2>1, <2>2
<1>6. CASE s.kind = "mysql"
  <2>1. s.databases # <<>>
    BY <1>6 DEF Tellable
  <2>2. Whole(mysqlDump(s))
    BY <1>2, <2>1 DEF mysqlDump
  <2>3. Dump(s) = IF mysqlDump(s).ok
        THEN [mysqlDump(s) EXCEPT !.args = mysqlDump(s).args \cup Given(s.extra, {Plain("extra")})]
                  ELSE mysqlDump(s)
    BY <1>4, <1>6 DEF Dump
  <2> QED
    BY <1>3, <2>2, <2>3
<1>7. CASE s.kind = "postgres"
  <2>1. ~s.all /\ Len(s.databases) = 1 /\ Class[s.databases[1]] # "connection_string"
    BY <1>7 DEF Tellable
  <2>2. Whole(pgDump(s))
    BY <1>2, <2>1 DEF pgDump
  <2>3. Dump(s) = IF pgDump(s).ok
        THEN [pgDump(s) EXCEPT !.args = pgDump(s).args \cup Given(s.extra, {Plain("extra")})]
                  ELSE pgDump(s)
    BY <1>4, <1>7 DEF Dump
  <2> QED
    BY <1>3, <2>2, <2>3
<1>8. CASE s.kind = "mongodb"
  <2>1. ~(Len(s.databases) > 1)
    <3>1. s.databases = <<>> \/ \E n : s.databases = <<n>>
      BY DEF Tellable
    <3>2. ~(Len(<<>>) > 1) /\ \A n : ~(Len(<<n>>) > 1)
      OBVIOUS
    <3> QED
      BY <3>1, <3>2
  <2>2. Whole(mongoDump(s))
    BY <1>2, <2>1 DEF mongoDump
  <2>3. Dump(s) = IF mongoDump(s).ok
        THEN [mongoDump(s) EXCEPT !.args = mongoDump(s).args \cup Given(s.extra, {Plain("extra")})]
                  ELSE mongoDump(s)
    BY <1>4, <1>8 DEF Dump
  <2> QED
    BY <1>3, <2>2, <2>3
<1> QED
  BY <1>5, <1>6, <1>7, <1>8 DEF Tellable

LEMMA CommandsBuild ==
  ASSUME Validate(loc), ValidateConfig(Job) = {}, NEW args
  PROVE  /\ restic(OfJob(Job), args).ok
         /\ \A env, stdin : And(restic(OfJob(Job), args), env, stdin).ok
<1>1. Job.compression \in {"auto", "max", "off"}
  BY ValidConfig
<1>2. /\ OfJob(Job).backend = location(loc) /\ OfJob(Job).key = Secret("key")
      /\ OfJob(Job).compression = Job.compression
  BY DEF OfJob, Repo
<1>3. Secret("key") # Plain("none")
  BY DEF Secret, Plain
<1>4. location(loc).ok
  BY LocationNeat DEF Neat
<1> DEFINE repo == OfJob(Job)
<1>5. /\ repo.backend.ok /\ repo.key # Plain("none") /\ repo.compression \in {"", "auto", "max", "off"}
  BY <1>1, <1>2, <1>3, <1>4
<1> HIDE DEF repo
<1>6. restic(repo, args).ok /\ \A env, stdin : And(restic(repo, args), env, stdin).ok
  BY <1>5, ResticBuilds
<1> QED
  BY <1>6 DEF repo

LEMMA ExportBuilds ==
  ASSUME Validate(loc), ValidateConfig(Job) = {}, Job.source # "files", ~Job.all, NEW n \in ChosenNames(Job)
  PROVE  ResticBackupStdin(OfJob(Job), DumpOf(n)).ok
<1> DEFINE s == [kind |-> Job.source, host |-> IF Job.conn = "ssh" THEN "name" ELSE Job.host,
          port |-> Job.port, user |-> Job.user = "text", password |-> Job.password,
          databases |-> IF n = "" THEN <<>> ELSE <<n>>, all |-> FALSE, extra |-> Job.extra = "text"]
<1>0. DumpOf(n) = Dump(s)
  BY DEF DumpOf
<1>1. Job.source \in Databases /\ validateDatabase(Job) = {} /\ Job.compression \in {"auto", "max", "off"}
  BY ValidConfig
<1>2. s.host \notin {"blank", "dashed"} /\ checkPort(s.port) /\ ~s.all /\ s.kind = Job.source
      /\ s.databases = IF n = "" THEN <<>> ELSE <<n>>
  BY <1>1, ValidDatabase
<1>3. Job.source = "redis" \/ HasDatabaseList(Job.source)
  BY <1>1 DEF HasDatabaseList, Databases
<1>4. ASSUME Job.source = "redis" PROVE Tellable(s)
  <2>1. n = ""
    BY <1>4 DEF ChosenNames, HasDatabaseList
  <2>2. s.databases = <<>>
    BY <1>2, <2>1
  <2> HIDE DEF s
  <2>3. s.kind = "redis" /\ s.databases = <<>>
    BY <1>2, <1>4, <2>2
  <2>4. s.host \notin {"blank", "dashed"} /\ checkPort(s.port)
    BY <1>2
  <2>5. ~s.all
    BY <1>2
  <2> QED
    BY <2>3, <2>4, <2>5 DEF Tellable
<1>5. ASSUME HasDatabaseList(Job.source) PROVE Tellable(s)
  <2>1. PICK i \in DOMAIN Job.databases : n = Job.databases[i]
    BY <1>5 DEF ChosenNames, ToSet
  <2>2. NameIsUsable(Job, i)
    BY <1>1, <1>5, ValidDatabase
  <2>3. Class[n] \notin {"blank", "dashed", "system"}
        /\ (Job.source = "postgres" => Class[n] # "connection_string")
    BY <2>1, <2>2 DEF NameIsUsable
  <2>4. n # "" /\ Job.source \in {"mysql", "postgres", "mongodb"}
    BY <1>5, <2>3, NoName DEF HasDatabaseList, Databases
  <2>5. s.databases = <<n>>
    BY <1>2, <2>4
  <2> HIDE DEF s
  <2>6. \E m : /\ s.databases = <<m>> /\ s.kind \in {"mysql", "postgres", "mongodb"}
               /\ Class[m] \notin {"blank", "dashed"}
               /\ s.kind = "postgres" => Class[m] # "connection_string"
    BY <1>2, <2>3, <2>4, <2>5
  <2> QED
    BY <1>2, <2>6 DEF Tellable
<1> HIDE DEF s
<1>6. Tellable(s)
  BY <1>3, <1>4, <1>5
<1>7. Dump(s).ok /\ Dump(s).stdin = {}
  BY <1>6, DumpBuilds, DumpTidy
<1> DEFINE d == Dump(s)
           args == {Plain("backup"), Plain("file_name"), Plain(d.name)} \cup tagHostArgs \cup d.args
<1>8. ResticBackupStdin(OfJob(Job), d) = And(restic(OfJob(Job), args), Progress \cup d.env, {})
  BY <1>7 DEF ResticBackupStdin
<1> HIDE DEF d, args
<1>9. And(restic(OfJob(Job), args), Progress \cup d.env, {}).ok
  BY CommandsBuild
<1> QED
  BY <1>0, <1>8, <1>9 DEF d

LEMMA ListBuilds ==
  ASSUME Validate(loc), ValidateConfig(Job) = {}
  PROVE  ResticSnapshots(OfJob(Job)).ok
BY CommandsBuild DEF ResticSnapshots

LEMMA MirrorBuilds ==
  ASSUME Validate(loc), ValidateConfig(Job) = {}
  PROVE  ResticBackupDir(OfJob(Job), "absolute").ok
BY CommandsBuild DEF ResticBackupDir, IsAbs

LEMMA CopyBuilds ==
  ASSUME ValidateConfig(Job) = {}, Job.source = "files"
  PROVE  Rsync({PathClass[p] : p \in Job.paths}, "absolute", Job.limit, Job.extra = "text").ok
<1>1. Job.paths # {} /\ \A p \in Job.paths : PathClass[p] = "absolute"
  BY ValidConfig, ValidFiles DEF Databases
<1>2. {PathClass[p] : p \in Job.paths} # {} /\ "relative" \notin {PathClass[p] : p \in Job.paths}
  BY <1>1
<1> DEFINE classes == {PathClass[p] : p \in Job.paths}
           extra == Job.extra = "text"
<1>3. \E args : Rsync(classes, "absolute", Job.limit, extra) = Command("rsync", args, BridgeEnv, {})
  BY <1>2 DEF Rsync, IsAbs
<1> HIDE DEF classes, extra
<1>4. \A args : Command("rsync", args, BridgeEnv, {}).ok
  BY DEF Command
<1>5. Rsync(classes, "absolute", Job.limit, extra).ok
  BY <1>3, <1>4
<1> QED
  BY <1>5 DEF classes, extra

-----------------------------------------------------------------------------
(* Tests and runs.  A test that was all right saw everything the run needs, *)
(* and it counts as long as nothing outside has changed.                   *)

\* What holds while nothing outside changes, when the test of j was all right.

Fine(j) ==
  /\ Mounted
  /\ NeedsSSH(j) => ~DialFails
  /\ j.source # "files" => Reaches(j) /\ world.db = "up"

\* What a test has seen, as long as nothing outside changed.
CalmInv ==
  ask.calm /\ ask.kind # "save" =>
    /\ ask.pc \in {"database", "open", "stat", "write", "no_paths"} => (NeedsSSH(j0) => ~DialFails)
    /\ ask.pc \in {"open", "stat", "write", "no_paths"} => j0.source = "files"
    /\ ask.pc = "repo" /\ ask.failed = {} =>
         /\ NeedsSSH(j0) => ~DialFails
         /\ j0.source # "files" => Reaches(j0) /\ world.db = "up"

TestedInv == tested # <<>> => tested = <<j0>> /\ Fine(j0)

\* Where a run is, and what of it.
RunInv ==
  /\ DOMAIN run = RunFields
  /\ run.pc # "ended" => run.cause = ""
  /\ run.pc # "idle" => ask.kind = "none" /\ store = <<j0>>
  /\ run.pc = "dial" => NeedsSSH(j0)
  /\ run.pc \in {"connect", "export"} => j0.source # "files"
  /\ run.pc \in {"copy", "snapshot"} => j0.source = "files"
  /\ run.pc = "export" /\ ~j0.all => run.left \subseteq ChosenNames(j0)
  /\ run.cause = "build" => run.pc = "ended" /\ j0.all
  /\ run.predicted => Fine(j0) /\ Foreseen(run.cause)

\* The strengthening of ValidJobsBuild and TestPredictsRun.
JobsInv == HiddenInv /\ ShapeInv /\ CalmInv /\ TestedInv /\ RunInv

LEMMA RunStart == Init => CalmInv /\ TestedInv /\ RunInv
<1> SUFFICES ASSUME Init PROVE CalmInv /\ TestedInv /\ RunInv
  OBVIOUS
<1>1. ask = NoAsk /\ run = NoRun /\ tested = <<>>
  BY DEF Init
<1>2. NoAsk.pc = "idle"
  BY DEF NoAsk
<1>3. /\ DOMAIN NoRun = RunFields /\ NoRun.pc = "idle" /\ NoRun.cause = "" /\ ~NoRun.predicted
  BY DEF NoRun, RunFields
<1>4. CalmInv
  BY <1>1, <1>2 DEF CalmInv
<1>5. TestedInv
  BY <1>1 DEF TestedInv
<1>6. RunInv
  BY <1>1, <1>3 DEF RunInv, Foreseen
<1> QED
  BY <1>4, <1>5, <1>6

(* A run goes on, or ends. *)

\* The run is at pc now, and everything else of it as before.
Goes(pc) ==
  /\ DOMAIN run' = RunFields /\ run'.pc = pc /\ run'.left = run.left /\ run'.cause = run.cause
  /\ run'.predicted = run.predicted

LEMMA GoesOn ==
  ASSUME DOMAIN run = RunFields, NEW pc, run' = [run EXCEPT !.pc = pc]
  PROVE  Goes(pc)
<1> DEFINE gone == [run EXCEPT !.pc = pc]
<1>1. /\ DOMAIN gone = RunFields /\ gone.pc = pc /\ gone.left = run.left /\ gone.cause = run.cause
      /\ gone.predicted = run.predicted
  BY DEF RunFields
<1>2. run' = gone
  OBVIOUS
<1> HIDE DEF gone
<1> QED
  BY <1>1, <1>2 DEF Goes

LEMMA EndsWith ==
  ASSUME NEW cause, Ends(cause)
  PROVE  DOMAIN run' = RunFields /\ run'.pc = "ended" /\ run'.cause = cause /\
         run'.predicted = run.predicted
<1> DEFINE gone == [NoRun EXCEPT !.pc = "ended", !.cause = cause, !.predicted = run.predicted]
<1>0. DOMAIN NoRun = RunFields
  BY DEF NoRun, RunFields
<1>1. DOMAIN gone = RunFields /\ gone.pc = "ended" /\ gone.cause = cause /\ gone.predicted = run.predicted
  BY <1>0 DEF RunFields
<1>2. run' = gone
  BY DEF Ends
<1> HIDE DEF gone
<1> QED
  BY <1>1, <1>2

RunFrame == UNCHANGED <<form, loc, worlds, world, changes, store, ask, tested>>

LEMMA FineStays ==
  ASSUME RunFrame, j0 = j0'
  PROVE  Fine(j0)' = Fine(j0)
BY DEF RunFrame, Fine, Mounted, NeedsSSH, DialFails, Reaches, BadAddress

\* What was to be expected stays so while nothing outside and no job changes.
LEMMA ForeseenStays ==
  ASSUME UNCHANGED <<loc, world, store>>
  PROVE  \A cause : Foreseen(cause)' <=> Foreseen(cause)
BY DEF Foreseen, RunNames, Job

LEMMA GoesKeeps ==
  ASSUME JobsInv, RunFrame, run.pc \notin {"idle", "ended"}, NEW pc, Goes(pc),
         pc \notin {"idle", "ended", "export"},
         pc = "dial" => NeedsSSH(j0), pc = "connect" => j0.source # "files",
         pc \in {"copy", "snapshot"} => j0.source = "files"
  PROVE  RunInv'
<1>1. j0' = j0 /\ ask' = ask /\ store' = store
  BY DEF RunFrame, j0
<1>2. Fine(j0)' = Fine(j0) /\ NeedsSSH(j0)' = NeedsSSH(j0)
  BY <1>1, FineStays DEF NeedsSSH
<1>3. RunInv
  BY DEF JobsInv
<1> QED
  BY <1>1, <1>2, <1>3 DEF RunInv, Goes, Foreseen

LEMMA EndsKeeps ==
  ASSUME JobsInv, RunFrame, run.pc \notin {"idle", "ended"}, NEW cause, Ends(cause),
         cause = "build" => j0.all,
         Fine(j0) => Foreseen(cause)
  PROVE  RunInv'
<1>1. j0' = j0 /\ ask' = ask /\ store' = store
  BY DEF RunFrame, j0
<1>2. Fine(j0)' = Fine(j0)
  BY <1>1, FineStays
<1>3. RunInv
  BY DEF JobsInv
<1> QED
  BY <1>1, <1>2, <1>3, EndsWith, ForeseenStays DEF RunInv, RunFrame

\* The job of a run is the one that was validated.
LEMMA JobIs == ASSUME JobsInv, run.pc # "idle" PROVE Job = j0 /\ ValidateConfig(Job) = {} /\ Validate(loc)
<1>1. store = <<j0>>
  BY DEF JobsInv, RunInv
<1>2. ValidateConfig(j0) = {}
  BY <1>1 DEF JobsInv, ShapeInv, StoreInv
<1> QED
  BY <1>1, <1>2 DEF Job, JobsInv, HiddenInv

LEMMA StartRunKeeps ==
  ASSUME JobsInv, StartRun
  PROVE  RunInv'
<1> DEFINE begun == [NoRun EXCEPT !.pc = "mount", !.predicted = (tested = store)]
<1>1. run' = begun /\ RunFrame /\ store # <<>> /\ ask.kind = "none"
  BY DEF StartRun, RunFrame
<1>2. DOMAIN NoRun = RunFields /\ NoRun.cause = ""
  BY DEF NoRun, RunFields
<1>3. DOMAIN begun = RunFields /\ begun.pc = "mount" /\ begun.cause = "" /\
      (begun.predicted => tested = store)
  BY <1>2 DEF RunFields
<1> HIDE DEF begun
<1>4. j0' = j0 /\ ask' = ask /\ store' = store /\ store = <<j0>>
  BY <1>1 DEF RunFrame, j0, JobsInv, ShapeInv, StoreInv
<1>5. Fine(j0)' = Fine(j0)
  BY <1>1, <1>4, FineStays
<1>6. tested = store => Fine(j0)
  BY <1>1 DEF JobsInv, TestedInv
<1> QED
  BY <1>1, <1>3, <1>4, <1>5, <1>6 DEF RunInv, Foreseen

LEMMA EndRunKeeps ==
  ASSUME JobsInv, EndRun
  PROVE  RunInv'
<1>1. /\ DOMAIN NoRun = RunFields /\ NoRun.pc = "idle" /\ NoRun.cause = "" /\ ~NoRun.predicted
  BY DEF NoRun, RunFields
<1>2. run' = NoRun
  BY DEF EndRun
<1> QED
  BY <1>1, <1>2 DEF RunInv

LEMMA RunKeeps ==
  ASSUME JobsInv, Run
  PROVE  RunInv'
<1>0. RunFrame
  BY RunStepFrame DEF RunStep, RunFrame
<1>1. CASE StartRun
  BY <1>1, StartRunKeeps
<1>2. CASE EndRun
  BY <1>2, EndRunKeeps
<1>3. DOMAIN run = RunFields
  BY DEF JobsInv, RunInv
<1>4. CASE Preflight
  <2>1. run.pc = "mount" /\ (run' = [run EXCEPT !.pc = "open"] \/ (~Mounted /\ Ends("not_mounted")))
    BY <1>4 DEF Preflight
  <2>2. run' = [run EXCEPT !.pc = "open"] => Goes("open")
    BY <1>3, GoesOn
  <2>3. ~Mounted => ~Fine(j0)
    BY DEF Fine
  <2> QED
    BY <1>0, <2>1, <2>2, <2>3, GoesKeeps, EndsKeeps
<1>5. CASE OpenLocation
  <2>1. run.pc = "open" /\ (run' = [run EXCEPT !.pc = "snapshots"] \/ (Foreseen("location") /\ Ends("location")))
    BY <1>5 DEF OpenLocation, Foreseen
  <2>2. run' = [run EXCEPT !.pc = "snapshots"] => Goes("snapshots")
    BY <1>3, GoesOn
  <2> QED
    BY <1>0, <2>1, <2>2, GoesKeeps, EndsKeeps
<1>6. CASE ListSnapshots
  <2>1. run.pc = "snapshots"
    BY <1>6 DEF ListSnapshots
  <2>2. Job = j0 /\ ResticSnapshots(OfJob(Job)).ok
    BY <2>1, JobIs, ListBuilds
  <2> DEFINE pc == IF NeedsSSH(Job) THEN "dial" ELSE "connect"
  <2>3. (Foreseen("location") /\ Ends("location")) \/ run' = [run EXCEPT !.pc = pc]
    BY <1>6, <2>2 DEF ListSnapshots, Foreseen
  <2>4. /\ pc \in {"dial", "connect"} /\ (pc = "dial" => NeedsSSH(j0))
        /\ pc = "connect" => j0.source # "files"
    BY <2>2 DEF NeedsSSH
  <2> HIDE DEF pc
  <2>5. run' = [run EXCEPT !.pc = pc] => Goes(pc)
    BY <1>3, GoesOn
  <2> QED
    BY <1>0, <2>1, <2>3, <2>4, <2>5, GoesKeeps, EndsKeeps
<1>7. CASE DialServer
  <2>1. run.pc = "dial"
    BY <1>7 DEF DialServer
  <2>2. Job = j0 /\ NeedsSSH(j0)
    BY <2>1, JobIs DEF JobsInv, RunInv
  <2> DEFINE pc == IF Job.source = "files" THEN "copy" ELSE "connect"
  <2>3. (DialFails /\ Ends("server")) \/ run' = [run EXCEPT !.pc = pc]
    BY <1>7 DEF DialServer
  <2>4. /\ pc \in {"copy", "connect"} /\ (pc = "copy" => j0.source = "files")
        /\ pc = "connect" => j0.source # "files"
    BY <2>2
  <2> HIDE DEF pc
  <2>5. run' = [run EXCEPT !.pc = pc] => Goes(pc)
    BY <1>3, GoesOn
  <2>6. DialFails => ~Fine(j0)
    BY <2>2 DEF Fine
  <2> QED
    BY <1>0, <2>1, <2>3, <2>4, <2>5, <2>6, GoesKeeps, EndsKeeps
<1>8. CASE Connect
  <2>1. run.pc = "connect"
    BY <1>8 DEF Connect
  <2>2. Job = j0 /\ j0.source # "files"
    BY <2>1, JobIs DEF JobsInv, RunInv
  <2>3. \/ BadAddress(Job) /\ Ends("address")
        \/ (~Reaches(Job) \/ world.db = "refuses_login") /\ Ends("databases")
        \/ Foreseen("none_to_export") /\ Ends("none_to_export")
        \/ run' = [run EXCEPT !.pc = "export", !.left = RunNames]
    BY <1>8 DEF Connect, Foreseen
  <2>4. ~Reaches(Job) \/ world.db = "refuses_login" => ~Fine(j0)
    BY <2>2 DEF Fine
  <2>5. BadAddress(Job) => ~Reaches(Job)
    BY DEF Reaches
  <2>6. CASE run' = [run EXCEPT !.pc = "export", !.left = RunNames]
    <3> DEFINE gone == [run EXCEPT !.pc = "export", !.left = RunNames]
    <3>1. /\ DOMAIN gone = RunFields /\ gone.pc = "export" /\ gone.cause = run.cause
          /\ gone.predicted = run.predicted /\ gone.left = RunNames
      BY <1>3 DEF RunFields
    <3>2. ~j0.all => RunNames \subseteq ChosenNames(j0)
      BY <2>2 DEF RunNames, ChosenNames
    <3> HIDE DEF gone
    <3>3. j0' = j0 /\ ask' = ask /\ store' = store /\ run' = gone
      BY <1>0, <2>6 DEF RunFrame, j0, gone
    <3>4. Fine(j0)' = Fine(j0) /\ ChosenNames(j0)' = ChosenNames(j0)
      BY <1>0, <3>3, FineStays DEF ChosenNames
    <3> QED
      BY <2>1, <2>2, <3>1, <3>2, <3>3, <3>4 DEF JobsInv, RunInv, Foreseen
  <2> QED
    BY <1>0, <2>1, <2>3, <2>4, <2>5, <2>6, EndsKeeps
<1>9. CASE Export
  <2>1. PICK n \in run.left :
          LET c == ResticBackupStdin(OfJob(Job), DumpOf(n)) IN
          \/ ~c.ok /\ Ends("build")
          \/ Ends("backup")
          \/ run' = [run EXCEPT !.left = run.left \ {n}]
    BY <1>9 DEF Export
  <2>2. run.pc = "export"
    BY <1>9 DEF Export
  <2>3. Job = j0 /\ j0.source # "files" /\ ValidateConfig(Job) = {} /\ Validate(loc)
    BY <2>2, JobIs DEF JobsInv, RunInv
  <2>4. ~ResticBackupStdin(OfJob(Job), DumpOf(n)).ok => j0.all
    <3>1. ~j0.all => n \in ChosenNames(Job)
      BY <2>1, <2>2, <2>3 DEF JobsInv, RunInv
    <3> QED
      BY <2>3, <3>1, ExportBuilds
  <2>5. CASE run' = [run EXCEPT !.left = run.left \ {n}]
    <3> DEFINE gone == [run EXCEPT !.left = run.left \ {n}]
    <3>1. /\ DOMAIN gone = RunFields /\ gone.pc = "export" /\ gone.cause = run.cause
          /\ gone.predicted = run.predicted /\ gone.left = run.left \ {n}
      BY <1>3, <2>2 DEF RunFields
    <3> HIDE DEF gone
    <3>3. j0' = j0 /\ ask' = ask /\ store' = store /\ run' = gone
      BY <1>0, <2>5 DEF RunFrame, j0, gone
    <3>4. Fine(j0)' = Fine(j0) /\ ChosenNames(j0)' = ChosenNames(j0)
      BY <1>0, <3>3, FineStays DEF ChosenNames
    <3>5. gone.left \subseteq run.left
      BY <3>1
    <3> QED
      BY <2>2, <3>1, <3>3, <3>4, <3>5 DEF JobsInv, RunInv, Foreseen
  <2> QED
    BY <1>0, <2>1, <2>2, <2>4, <2>5, EndsKeeps DEF Foreseen
<1>10. CASE ExportsDone
  BY <1>0, <1>10, EndsKeeps DEF ExportsDone, Foreseen
<1>11. CASE CopyFiles
  <2>1. run.pc = "copy"
    BY <1>11 DEF CopyFiles
  <2>2. Job = j0 /\ j0.source = "files" /\ ValidateConfig(Job) = {}
    BY <2>1, JobIs DEF JobsInv, RunInv
  <2>3. Ends("backup") \/ run' = [run EXCEPT !.pc = "snapshot"]
    BY <1>11, <2>2, CopyBuilds DEF CopyFiles
  <2>4. run' = [run EXCEPT !.pc = "snapshot"] => Goes("snapshot")
    BY <1>3, GoesOn
  <2> QED
    BY <1>0, <2>1, <2>2, <2>3, <2>4, GoesKeeps, EndsKeeps DEF Foreseen
<1>12. CASE BackupMirror
  <2>1. run.pc = "snapshot"
    BY <1>12 DEF BackupMirror
  <2>2. ResticBackupDir(OfJob(Job), "absolute").ok
    BY <2>1, JobIs, MirrorBuilds
  <2>3. Ends("done") \/ Ends("backup")
    BY <1>12, <2>2 DEF BackupMirror
  <2> QED
    BY <1>0, <2>1, <2>3, EndsKeeps DEF Foreseen
<1> QED
  BY <1>1, <1>2, <1>4, <1>5, <1>6, <1>7, <1>8, <1>9, <1>10, <1>11, <1>12 DEF Run

-----------------------------------------------------------------------------
(* Requests, while nothing outside changes.                                *)

\* Where a request has seen the server.
Seen == {"open", "stat", "write", "no_paths"}

\* The request is at pc now; nothing has made it less sure of what it saw.
Walks(pc) ==
  /\ ask'.pc = pc /\ ask'.kind = ask.kind /\ (ask'.calm => ask.calm)
  /\ UNCHANGED <<form, loc, world>>

LEMMA WalksKeeps ==
  ASSUME JobsInv, NEW pc, Walks(pc),
         \/ pc \in {"checked", "link", "list", "answered", "idle"} \/ ask.kind = "save"
         \/ pc \in Seen /\ ask.pc \in Seen
         \/ pc = "repo" /\ ask'.failed # {}
  PROVE  CalmInv'
<1>1. j0' = j0 /\ (NeedsSSH(j0) => ~DialFails)' = (NeedsSSH(j0) => ~DialFails)
  BY DEF Walks, j0, NeedsSSH, DialFails
<1>2. CalmInv
  BY DEF JobsInv
<1> QED
  BY <1>1, <1>2 DEF CalmInv, Walks, Seen

LEMMA AnswerWalks ==
  ASSUME NEW ok, Answer(ok), UNCHANGED <<form, loc, world>>
  PROVE  Walks("answered")
<1> DEFINE done == [NoAsk EXCEPT !.pc = "answered", !.kind = ask.kind, !.ok = ok, !.failed = ask.failed,
                                 !.job = ask.job, !.confirmed = ask.confirmed,
                                     !.unverified = ask.unverified]
<1>1. ask' = done
  BY DEF Answer
<1>2. DOMAIN NoAsk = AskFields /\ ~NoAsk.calm
  BY DEF NoAsk, AskFields
<1>3. done.pc = "answered" /\ done.kind = ask.kind /\ ~done.calm
  BY <1>2 DEF AskFields
<1> HIDE DEF done
<1> QED
  BY <1>1, <1>3 DEF Walks

LEMMA SaveCalm ==
  ASSUME JobsInv, Save
  PROVE  CalmInv'
<1>0. UNCHANGED <<form, loc, world>> /\ DOMAIN ask = AskFields
  BY DEF Save, CheckResources, OpenFS, StatPath, StatDone, Create, JobsInv, ShapeInv, AskInv
<1>1. CASE CheckResources
  <2> DEFINE failed == ask.failed \cup Wrong("repo_id", ask.job[1].repo # 0 /\ ~Mounted)
             pc == IF ask.job[1].source # "files" \/ ask.job[1].server = 0
                      \/ ask.failed \cap {"server_id", "paths"} # {}
                   THEN "write" ELSE "open"
  <2>1. ask.kind = "save" /\ ask' = [ask EXCEPT !.failed = failed, !.pc = pc]
    BY <1>1 DEF CheckResources
  <2> HIDE DEF failed, pc
  <2>2. Walks(pc)
    BY <1>0, <2>1 DEF AskFields, Walks
  <2> QED
    BY <2>1, <2>2, WalksKeeps
<1>2. CASE OpenFS
  <2>1. ask.pc \in Seen
    BY <1>2 DEF OpenFS, Seen
  <2>2. ASSUME ask' = [ask EXCEPT !.pc = "stat", !.left = ask.job[1].paths, !.confirmed = {}, !.bad = {}]
        PROVE  Walks("stat")
    BY <1>0, <2>2 DEF AskFields, Walks
  <2>3. ASSUME ask' = [ask EXCEPT !.pc = "write", !.unverified = ask.job[1].paths]
        PROVE  Walks("write")
    BY <1>0, <2>3 DEF AskFields, Walks
  <2>4. ASSUME ask' = [ask EXCEPT !.pc = "repo", !.failed = ask.failed \cup {"paths"}]
        PROVE  Walks("repo") /\ ask'.failed # {}
    BY <1>0, <2>4 DEF AskFields, Walks
  <2>5. \/ ask' = [ask EXCEPT !.pc = "stat", !.left = ask.job[1].paths, !.confirmed = {}, !.bad = {}]
        \/ ask' = [ask EXCEPT !.pc = "write", !.unverified = ask.job[1].paths]
        \/ ask' = [ask EXCEPT !.pc = "repo", !.failed = ask.failed \cup {"paths"}]
        \/ Answer(FALSE)
    BY <1>2 DEF OpenFS
  <2>6. Answer(FALSE) => Walks("answered")
    BY <1>0, AnswerWalks
  <2>7. "stat" \in Seen /\ "write" \in Seen
    BY DEF Seen
  <2>8. CASE Walks("stat") \/ Walks("write")
    BY <2>1, <2>7, <2>8, WalksKeeps
  <2>9. CASE Walks("answered")
    BY <2>9, WalksKeeps
  <2>10. CASE Walks("repo") /\ ask'.failed # {}
    BY <2>10, WalksKeeps
  <2> QED
    BY <2>2, <2>3, <2>4, <2>5, <2>6, <2>8, <2>9, <2>10
<1>3. CASE StatPath
  <2>1. ask.pc \in Seen /\ "stat" \in Seen /\ "write" \in Seen /\ ask.pc = "stat"
    BY <1>3 DEF StatPath, Seen
  <2>2. CASE ask' = Unseen
    <3>1. Walks("write")
      BY <1>0, <2>2 DEF AskFields, Walks, Unseen
    <3> QED
      BY <2>1, <3>1, WalksKeeps
  <2>3. ASSUME NEW p, \/ ask' = [ask EXCEPT !.left = ask.left \ {p}, !.confirmed = ask.confirmed \cup {p}]
                      \/ ask' = [ask EXCEPT !.left = ask.left \ {p}, !.bad = ask.bad \cup {p}]
        PROVE  CalmInv'
    <3>1. CASE ask' = [ask EXCEPT !.left = ask.left \ {p}, !.confirmed = ask.confirmed \cup {p}]
      <4>1. Walks("stat")
        BY <1>0, <2>1, <3>1 DEF AskFields, Walks
      <4> QED
        BY <2>1, <4>1, WalksKeeps
    <3>2. CASE ask' = [ask EXCEPT !.left = ask.left \ {p}, !.bad = ask.bad \cup {p}]
      <4>1. Walks("stat")
        BY <1>0, <2>1, <3>2 DEF AskFields, Walks
      <4> QED
        BY <2>1, <4>1, WalksKeeps
    <3> QED
      BY <2>3, <3>1, <3>2
  <2> QED
    BY <1>3, <2>2, <2>3 DEF StatPath
<1>4. CASE StatDone
  <2> DEFINE failed == ask.failed \cup Wrong("paths", ask.bad # {})
  <2>1. ask.pc \in Seen /\ "write" \in Seen /\ ask' = [ask EXCEPT !.pc = "write", !.failed = failed]
    BY <1>4 DEF StatDone, Seen
  <2> HIDE DEF failed
  <2>2. Walks("write")
    BY <1>0, <2>1 DEF AskFields, Walks
  <2> QED
    BY <2>1, <2>2, WalksKeeps
<1>5. CASE Create
  <2>1. ask.kind = "save" /\ (Answer(TRUE) \/ Answer(FALSE))
    BY <1>5 DEF Create
  <2>2. Walks("answered")
    BY <1>0, <2>1, AnswerWalks
  <2> QED
    BY <2>2, WalksKeeps
<1> QED
  BY <1>1, <1>2, <1>3, <1>4, <1>5 DEF Save

LEMMA TestCalm ==
  ASSUME JobsInv, Test
  PROVE  CalmInv'
<1>0. UNCHANGED <<form, loc, world>> /\ DOMAIN ask = AskFields
  BY DEF Test, PrepareConn, LinkFails, LinkWorks, CheckDatabase, NoPathsYet, CheckFiles, CheckRepo,
         JobsInv, ShapeInv, AskInv
<1>1. CASE PrepareConn
  <2>1. Answer(FALSE) \/ ask' = [ask EXCEPT !.pc = "link", !.failed = {}]
    BY <1>1 DEF PrepareConn
  <2>2. ASSUME ask' = [ask EXCEPT !.pc = "link", !.failed = {}] PROVE Walks("link")
    BY <1>0, <2>2 DEF AskFields, Walks
  <2>3. Answer(FALSE) => Walks("answered")
    BY <1>0, AnswerWalks
  <2>4. CASE Walks("link")
    BY <2>4, WalksKeeps
  <2>5. CASE Walks("answered")
    BY <2>5, WalksKeeps
  <2> QED
    BY <2>1, <2>2, <2>3, <2>4, <2>5
<1>2. CASE LinkFails
  <2>1. Answer(FALSE) \/ ask' = [ask EXCEPT !.pc = "repo", !.failed = {"ssh", "data"}]
    BY <1>2 DEF LinkFails
  <2>2. ASSUME ask' = [ask EXCEPT !.pc = "repo", !.failed = {"ssh", "data"}]
        PROVE  Walks("repo") /\ ask'.failed # {}
    BY <1>0, <2>2 DEF AskFields, Walks
  <2>3. Answer(FALSE) => Walks("answered")
    BY <1>0, AnswerWalks
  <2>4. CASE Walks("repo") /\ ask'.failed # {}
    BY <2>4, WalksKeeps
  <2>5. CASE Walks("answered")
    BY <2>5, WalksKeeps
  <2> QED
    BY <2>1, <2>2, <2>3, <2>4, <2>5
<1>3. CASE LinkWorks
  <2> DEFINE pc == IF ask.job[1].source # "files" THEN "database"
                   ELSE IF ask.kind = "paths" THEN "list"
                   ELSE IF ask.job[1].paths = {} THEN "no_paths" ELSE "open"
  <2>1. ask.pc = "link" /\ ask' = [ask EXCEPT !.pc = pc] /\ ~(NeedsSSH(ask.job[1]) /\ DialFails)
    BY <1>3 DEF LinkWorks
  <2>2. ask.job[1] = j0
    BY <2>1 DEF JobsInv, ShapeInv, AskInv
  <2>3. pc \in {"database", "list", "no_paths", "open"} /\
        (pc \in {"no_paths", "open"} => j0.source = "files")
    BY <2>2
  <2> HIDE DEF pc
  <2>4. Walks(pc)
    BY <1>0, <2>1 DEF AskFields, Walks
  <2>5. j0' = j0 /\ (NeedsSSH(j0) => ~DialFails)' = (NeedsSSH(j0) => ~DialFails)
    BY <1>0 DEF j0, NeedsSSH, DialFails
  <2> QED
    BY <2>1, <2>2, <2>3, <2>4, <2>5 DEF CalmInv, Walks
<1>4. CASE CheckDatabase
  <2> DEFINE failed == ask.failed \cup Diagnosis(ask.job[1])
  <2>1. ask.pc = "database" /\ ask' = [ask EXCEPT !.pc = "repo", !.failed = failed]
    BY <1>4 DEF CheckDatabase
  <2>2. ask.job[1] = j0 /\ world.db \in {"up", "down", "refuses_login", "lacks_privileges"}
    BY <2>1 DEF JobsInv, ShapeInv, AskInv, FormInv
  <2>3. failed = {} => Reaches(j0) /\ world.db = "up"
    <3>1. failed = {} => Diagnosis(j0) = {}
      BY <2>2
    <3>2. {"reach", "auth", "privileges"} # {} /\ {"auth", "privileges"} # {} /\ {"privileges"} # {}
      OBVIOUS
    <3>3. Diagnosis(j0) = {} => Reaches(j0) /\ world.db \notin {"refuses_login", "lacks_privileges"}
      BY <3>2, Zenon DEF Diagnosis
    <3>4. Reaches(j0) => world.db # "down"
      BY DEF Reaches
    <3> QED
      BY <2>2, <3>1, <3>3, <3>4
  <2> HIDE DEF failed
  <2>4. Walks("repo") /\ ask'.failed = failed
    BY <1>0, <2>1 DEF AskFields, Walks
  <2>5. j0' = j0 /\ (NeedsSSH(j0) => ~DialFails)' = (NeedsSSH(j0) => ~DialFails)
        /\ Reaches(j0)' = Reaches(j0)
    BY <1>0 DEF j0, NeedsSSH, DialFails, Reaches, BadAddress
  <2> QED
    BY <1>0, <2>1, <2>3, <2>4, <2>5 DEF CalmInv, Walks, JobsInv
<1>5. CASE NoPathsYet
  <2>1. ask' = [ask EXCEPT !.pc = "repo", !.failed = ask.failed \cup {"paths"}]
    BY <1>5 DEF NoPathsYet
  <2>2. Walks("repo") /\ ask'.failed # {}
    BY <1>0, <2>1 DEF AskFields, Walks
  <2> QED
    BY <2>2, WalksKeeps
<1>6. CASE CheckFiles
  <2> DEFINE failed == ask.failed \cup Wrong("paths", ask.unverified # {})
  <2>1. ask.pc = "write" /\ ask' = [ask EXCEPT !.pc = "repo", !.failed = failed]
    BY <1>6 DEF CheckFiles
  <2> HIDE DEF failed
  <2>4. Walks("repo")
    BY <1>0, <2>1 DEF AskFields, Walks
  <2>5. j0' = j0 /\ (NeedsSSH(j0) => ~DialFails)' = (NeedsSSH(j0) => ~DialFails)
    BY <1>0 DEF j0, NeedsSSH, DialFails
  <2> QED
    BY <2>1, <2>4, <2>5 DEF CalmInv, Walks, JobsInv
<1>7. CASE CheckRepo
  <2>1. \E ok : Answer(ok)
    BY <1>7 DEF CheckRepo
  <2>2. Walks("answered")
    BY <1>0, <2>1, AnswerWalks
  <2> QED
    BY <2>2, WalksKeeps
<1> QED
  BY <1>1, <1>2, <1>3, <1>4, <1>5, <1>6, <1>7 DEF Test

LEMMA AskCalm ==
  ASSUME JobsInv, Ask \/ Browse \/ Acknowledge
  PROVE  CalmInv'
<1>1. CASE Ask
  <2>1. PICK kind \in {"save", "test", "databases", "paths"} : Submit(kind)
    BY <1>1 DEF Ask
  <2> DEFINE asked == [NoAsk EXCEPT !.kind = kind, !.pc = "checked", !.job = <<j0>>, !.calm = TRUE,
                                    !.failed = ValidateConfig(j0)]
  <2>2. ask' = asked
    BY <2>1 DEF Submit, j0
  <2>3. DOMAIN NoAsk = AskFields
    BY DEF NoAsk, AskFields
  <2>4. asked.pc = "checked"
    BY <2>3 DEF AskFields
  <2> HIDE DEF asked
  <2> QED
    BY <2>2, <2>4 DEF CalmInv
<1>2. CASE Browse
  <2>1. UNCHANGED <<form, loc, world>> /\ \E ok : Answer(ok)
    BY <1>2 DEF Browse, ListDatabases, ListPath
  <2>2. Walks("answered")
    BY <2>1, AnswerWalks
  <2> QED
    BY <2>2, WalksKeeps
<1>3. CASE Acknowledge
  <2>1. ask' = NoAsk /\ NoAsk.pc = "idle"
    BY <1>3 DEF Acknowledge, NoAsk
  <2> QED
    BY <2>1 DEF CalmInv
<1> QED
  BY <1>1, <1>2, <1>3

(* Requests and the run that is not under way. *)

\* A step of a request.
Request == Ask \/ Save \/ Test \/ Browse \/ Acknowledge

LEMMA RequestFrame ==
  ASSUME Request
  PROVE  /\ UNCHANGED <<form, loc, worlds, world, run, masked, leaked>>
         /\ ~CheckRepo => tested' = tested
         /\ ask.pc # "idle" \/ run.pc = "idle"
BY DEF Request, Ask, Submit, Save, CheckResources, OpenFS, StatPath, StatDone, Create,
       Test, PrepareConn, LinkFails, LinkWorks, CheckDatabase, NoPathsYet, CheckFiles, CheckRepo,
       Browse, ListDatabases, ListPath, Acknowledge

LEMMA FineSame ==
  ASSUME UNCHANGED <<form, loc, world>>
  PROVE  j0' = j0 /\ Fine(j0)' = Fine(j0)
BY DEF j0, Fine, Mounted, NeedsSSH, DialFails, Reaches, BadAddress

LEMMA RequestKeeps ==
  ASSUME JobsInv, Request
  PROVE  CalmInv' /\ TestedInv' /\ RunInv'
<1>1. CalmInv'
  BY SaveCalm, TestCalm, AskCalm DEF Request
<1>2. j0' = j0 /\ Fine(j0)' = Fine(j0)
  BY RequestFrame, FineSame
<1>3. RunInv'
  <2>1. run.pc = "idle" /\ run' = run
    BY RequestFrame DEF JobsInv, RunInv, ShapeInv, AskInv
  <2> QED
    BY <1>2, <2>1 DEF JobsInv, RunInv, Foreseen
<1>4. TestedInv'
  <2>1. CASE ~CheckRepo
    BY <1>2, <2>1, RequestFrame DEF JobsInv, TestedInv
  <2>2. CASE CheckRepo
    <3> DEFINE failed == ask.failed \cup Wrong("repo", ask.job[1].repo = 0 \/ ~Mounted)
    <3>1. ask.pc = "repo" /\ tested' = IF failed = {} /\ ask.calm THEN ask.job ELSE <<>>
      BY <2>2 DEF CheckRepo
    <3>2. ask.kind # "save" /\ ask.job = <<j0>>
      BY <3>1 DEF JobsInv, ShapeInv, AskInv
    <3>3. failed = {} => ask.failed = {} /\ Mounted
      BY DEF Wrong
    <3> HIDE DEF failed
    <3>4. failed = {} /\ ask.calm => Fine(j0)
      BY <3>1, <3>2, <3>3 DEF JobsInv, CalmInv, Fine
    <3> QED
      BY <1>2, <3>1, <3>2, <3>4 DEF TestedInv
  <2> QED
    BY <2>1, <2>2
<1> QED
  BY <1>1, <1>3, <1>4

LEMMA WorldKeeps ==
  ASSUME JobsInv, ChangeWorld
  PROVE  CalmInv' /\ TestedInv' /\ RunInv'
<1> DEFINE shaken == [ask EXCEPT !.calm = FALSE]
           gone == [run EXCEPT !.predicted = FALSE]
<1>1. ask' = shaken /\ run' = gone /\ tested' = <<>> /\ form' = form /\ store' = store
      /\ DOMAIN ask = AskFields /\ DOMAIN run = RunFields
  BY DEF ChangeWorld, JobsInv, RunInv, ShapeInv, AskInv
<1>2. ~shaken.calm /\ shaken.kind = ask.kind
  BY <1>1 DEF AskFields
<1>3. /\ DOMAIN gone = RunFields /\ gone.pc = run.pc /\ gone.left = run.left /\ gone.cause = run.cause
      /\ ~gone.predicted
  BY <1>1 DEF RunFields
<1> HIDE DEF shaken, gone
<1>4. CalmInv' /\ TestedInv'
  BY <1>1, <1>2 DEF CalmInv, TestedInv
<1>5. j0' = j0 /\ NeedsSSH(j0)' = NeedsSSH(j0) /\ ChosenNames(j0)' = ChosenNames(j0)
  BY <1>1 DEF j0, NeedsSSH, ChosenNames
<1>6. RunInv'
  BY <1>1, <1>2, <1>3, <1>5 DEF JobsInv, RunInv
<1> QED
  BY <1>4, <1>6

LEMMA RunStepKeeps ==
  ASSUME JobsInv, RunStep \/ UNCHANGED vars
  PROVE  CalmInv' /\ TestedInv' /\ RunInv'
<1>1. UNCHANGED <<form, loc, world, ask, store, tested>>
  BY RunStepFrame DEF vars
<1>2. j0' = j0 /\ Fine(j0)' = Fine(j0) /\ NeedsSSH(j0)' = NeedsSSH(j0) /\ ChosenNames(j0)' = ChosenNames(j0)
  BY <1>1, FineSame DEF NeedsSSH, ChosenNames
<1>3. CalmInv' /\ TestedInv'
  BY <1>1, <1>2 DEF JobsInv, CalmInv, TestedInv, DialFails, Reaches, BadAddress
<1>4. CASE Run
  BY <1>3, <1>4, RunKeeps
<1>5. CASE OtherCommand \/ UNCHANGED vars
  <2>1. run' = run
    BY <1>5 DEF OtherCommand, vars
  <2>2. RunInv'
    BY <1>1, <1>2, <2>1, ForeseenStays DEF JobsInv, RunInv
  <2> QED
    BY <1>3, <2>2
<1> QED
  BY <1>4, <1>5 DEF RunStep

LEMMA Start == Init => JobsInv
BY HiddenStart, ShapeStart, RunStart DEF JobsInv

LEMMA Step == JobsInv /\ [Next]_vars => JobsInv'
<1> SUFFICES ASSUME JobsInv, [Next]_vars PROVE CalmInv' /\ TestedInv' /\ RunInv'
  BY HiddenStep, ShapeStep DEF JobsInv
<1> QED
  BY RequestKeeps, WorldKeeps, RunStepKeeps DEF Next, Request, RunStep

\* Validation is as strict as the commands are: a run whose command is refused exports all databases,
\* whose names the server chooses (job_entity.ValidateConfig, repo_entity.Validate, cmdbuild).
THEOREM BuildCorrect == Spec => []ValidJobsBuild
<1>1. JobsInv => ValidJobsBuild
  BY DEF JobsInv, RunInv, ValidJobsBuild, Job
<1> QED
  BY <1>1, Start, Step, PTL DEF Spec

\* A run after a test that was all right, with the same job and nothing changed outside, ends neither
\* on the mount, nor on the server, the address or the databases; before an export only where the
\* location does not answer, the password cannot be hidden or there is nothing to export (job_svc.Test).
THEOREM TestCorrect == Spec => []TestPredictsRun
<1>1. JobsInv => TestPredictsRun
  BY DEF JobsInv, RunInv, TestPredictsRun
<1> QED
  BY <1>1, Start, Step, PTL DEF Spec

-----------------------------------------------------------------------------
(* When a job is late: the check for stale jobs and the daily deletion of  *)
(* old records, which Alerts models with its own state.                    *)

\* Records of one job follow each other, and only the newest may be running.
OrderInv ==
  \A r, s \in runs : r.job = s.job =>
    /\ r.n = s.n => r = s
    /\ r.n < s.n => r.status # "running" /\ r.started <= s.started
    /\ r.n < s.n /\ s.status # "running" => r.ended <= s.ended

\* A run ends when its time is up at the latest.
DurationInv ==
  \A r \in runs : /\ r.started <= now /\ r.ended <= now
                  /\ r.status = "running" => now <= r.started + MaxDuration
                  /\ r.status # "running" => r.ended <= r.started + MaxDuration

\* r is the record of the newest success of j.
LastSuccess(r, j) ==
  /\ r \in runs /\ r.job = j /\ r.status = "success"
  /\ \A s \in runs : s.job = j /\ s.status = "success" => s.n <= r.n

\* The last success is the newest on record, or the retention no longer covers it.
SuccessInv ==
  \A j \in Jobs : lastOK[j] # None =>
    /\ lastOK[j].ended <= now
    /\ \/ lastOK[j].started + Retention < now
       \/ \E r \in runs : LastSuccess(r, j) /\ r.started = lastOK[j].started /\ r.ended = lastOK[j].ended

\* The check has read jobs there have been, and nothing that is still to come.
CheckInv ==
  /\ check = [at |-> check.at, listed |-> check.listed, asOf |-> check.asOf, todo |-> check.todo]
  /\ check.asOf <= now /\ DOMAIN check.listed \subseteq used

RunsInv == used \subseteq Jobs /\ OrderInv /\ DurationInv
AlertsInv == TypeOK /\ RunsInv /\ SuccessInv /\ CheckInv /\ NoFalseAlarm

LEMMA AlertsStart == AlertsInit => AlertsInv
  BY AlertsConstants DEF AlertsInit, AlertsInv, RunsInv, OrderInv, DurationInv, SuccessInv, CheckInv,
     TypeOK, NoFalseAlarm, Expired, Times, Idle, RunsOf

RunType == [job : used, n : 1 .. MaxRuns, started : 0 .. MaxTime, ended : 0 .. MaxTime,
            status : {"running", "success", "failed"}]

\* The records' parts.
LEMMA RunFacts ==
  ASSUME AlertsInv, NEW r \in runs
  PROVE  /\ r \in RunType /\ r.job \in Jobs /\ r.job \in used /\ r.n \in Nat
         /\ r.started \in Nat /\ r.ended \in Nat /\ now \in Nat
         /\ r.status \in {"running", "success", "failed"}
         /\ r.status = "running" <=> r.status # "success" /\ r.status # "failed"
  BY AlertsConstants DEF AlertsInv, RunsInv, TypeOK, RunType, Times

-----------------------------------------------------------------------------
(* Steps of the check and of what follows a run leave the records alone.   *)

CheckStep ==
  \/ CheckNext \/ CheckFails
  \/ \E j \in Jobs : SaveJob(j) \/ AfterSuccess(j) \/ TellRecovered(j)

LEMMA CheckStepKeepsRuns ==
  ASSUME AlertsInv, CheckStep
  PROVE  RunsInv' /\ SuccessInv'
<1>1. runs' = runs /\ now' = now /\ lastOK' = lastOK /\ used' \subseteq used \cup Jobs
  BY DEF CheckStep, CheckNext, CheckFails, SaveJob, AfterSuccess, TellRecovered, ListJobs, DropDeleted,
     Judge, CreateRow, TellStale, EndCheck, checkVars
<1> QED
  BY <1>1 DEF AlertsInv, RunsInv, OrderInv, DurationInv, SuccessInv, LastSuccess

LEMMA SaveJobKeeps ==
  ASSUME AlertsInv, NEW j \in Jobs, SaveJob(j)
  PROVE  TypeOK' /\ CheckInv' /\ NoFalseAlarm'
<1>1. /\ used' = used \cup {j} /\ runs' = runs /\ now' = now /\ place' = place /\ check' = check
      /\ alerted' = alerted /\ failures' = failures /\ crashes' = crashes /\ lastOK' = lastOK
  BY DEF SaveJob, checkVars
<1>2. row' \in [Jobs -> [created : Times, paused : BOOLEAN] \cup {None}]
  <2>1. now \in Times /\ row \in [Jobs -> [created : Times, paused : BOOLEAN] \cup {None}]
    BY DEF AlertsInv, TypeOK
  <2>2. CASE row' = [row EXCEPT ![j] = [created |-> now, paused |-> FALSE]]
    BY <2>1, <2>2
  <2>3. CASE row[j] # None /\ row' = [row EXCEPT ![j].paused = ~@]
    <3>1. [row[j] EXCEPT !.paused = ~@] \in [created : Times, paused : BOOLEAN]
      BY <2>1, <2>3
    <3>2. row' = [row EXCEPT ![j] = [row[j] EXCEPT !.paused = ~@]]
      BY <2>3
    <3> QED
      BY <2>1, <3>1, <3>2
  <2>4. CASE row' = [row EXCEPT ![j] = None]
    BY <2>1, <2>4
  <2> QED
    BY <2>2, <2>3, <2>4 DEF SaveJob
<1>3. \A i \in Jobs : row'[i] # None => i \in used'
  <2>1. \A i \in Jobs : i # j => row'[i] = row[i]
    BY DEF SaveJob, AlertsInv, TypeOK
  <2> QED
    BY <1>1, <2>1 DEF AlertsInv, TypeOK
<1>4. TypeOK'
  BY <1>1, <1>2, <1>3 DEF AlertsInv, TypeOK, RunsOf, Times
<1> QED
  BY <1>1, <1>4 DEF AlertsInv, CheckInv, NoFalseAlarm, Expired

LEMMA PlacesKeep ==
  ASSUME AlertsInv, NEW j \in Jobs, AfterSuccess(j) \/ TellRecovered(j)
  PROVE  TypeOK' /\ CheckInv' /\ NoFalseAlarm'
<1>1. /\ used' = used /\ runs' = runs /\ now' = now /\ check' = check /\ row' = row
      /\ crashes' = crashes /\ lastOK' = lastOK /\ alerted' \subseteq alerted
      /\ failures' = failures \/ (failures < MaxFailures /\ failures' = failures + 1)
  BY DEF AfterSuccess, TellRecovered, checkVars, Fail, Cleared
<1>2. \E p \in {"none", "recovered"} : place' = [place EXCEPT ![j] = p]
  BY DEF AfterSuccess, TellRecovered
<1>3. place[j] # "running"
  BY DEF AfterSuccess, TellRecovered
<1>4. place' \in [Jobs -> {"none", "running", "saved", "recovered"}]
  BY <1>2 DEF AlertsInv, TypeOK
<1>5. \A i \in Jobs : place'[i] = "running" <=> place[i] = "running"
  BY <1>2, <1>3 DEF AlertsInv, TypeOK
<1>6. failures' \in 0 .. MaxFailures
  BY <1>1, AlertsConstants DEF AlertsInv, TypeOK
<1>7. TypeOK'
  BY <1>1, <1>4, <1>5, <1>6 DEF AlertsInv, TypeOK, RunsOf, Times
<1> QED
  BY <1>1, <1>7 DEF AlertsInv, CheckInv, NoFalseAlarm, Expired

\* The newest success on record decides; without one, none is covered by the retention.
LEMMA JudgeIsRight ==
  ASSUME AlertsInv, NEW j \in Jobs, NEW created, Since(j, created) + Limit < now
  PROVE  lastOK[j] = None \/ lastOK[j].ended + Limit < now \/ lastOK[j].started + Retention < now
<1> SUFFICES ASSUME lastOK[j] # None, ~(lastOK[j].ended + Limit < now), ~(lastOK[j].started + Retention < now)
             PROVE  FALSE
  OBVIOUS
<1>1. PICK r \in runs : LastSuccess(r, j) /\ r.ended = lastOK[j].ended
  BY DEF AlertsInv, SuccessInv
<1>2. \A q \in LastSucceeded(j) : LastSuccess(q, j)
  BY DEF LastSucceeded, Newest, RunsOf, LastSuccess
<1>3. r \in LastSucceeded(j)
  BY <1>1 DEF LastSucceeded, Newest, RunsOf, LastSuccess
<1>4. \A q \in LastSucceeded(j) : q = r
  <2> SUFFICES ASSUME NEW q \in LastSucceeded(j)
               PROVE  q = r
    OBVIOUS
  <2>1. q \in runs /\ q.job = j /\ q.n <= r.n /\ r.n <= q.n /\ r.job = j
    BY <1>1, <1>2 DEF LastSuccess
  <2>2. q.n \in Nat /\ r.n \in Nat
    BY <2>1, RunFacts
  <2>3. q.n = r.n
    BY <2>1, <2>2
  <2> QED
    BY <2>1, <2>3 DEF AlertsInv, RunsInv, OrderInv
<1>5. (CHOOSE q \in LastSucceeded(j) : TRUE) = r
  BY <1>3, <1>4
<1>6. Since(j, created) = r.ended
  BY <1>3, <1>5 DEF Since
<1> QED
  BY <1>1, <1>6

LEMMA CheckKeeps ==
  ASSUME AlertsInv, CheckNext \/ CheckFails
  PROVE  TypeOK' /\ CheckInv' /\ NoFalseAlarm'
<1>1. /\ used' = used /\ runs' = runs /\ now' = now /\ row' = row /\ place' = place
      /\ crashes' = crashes /\ lastOK' = lastOK
      /\ failures' = failures \/ (failures < MaxFailures /\ failures' = failures + 1)
  BY DEF CheckNext, CheckFails, ListJobs, DropDeleted, Judge, CreateRow, TellStale, EndCheck, Fail
<1>2. failures' \in 0 .. MaxFailures
  BY <1>1, AlertsConstants DEF AlertsInv, TypeOK
<1> DEFINE Shape(c) == c = [at |-> c.at, listed |-> c.listed, asOf |-> c.asOf, todo |-> c.todo]
           Right(c) == /\ c.at \in {"idle", "drop", "judge", "create", "tell"}
                       /\ c.asOf \in 0 .. MaxTime /\ c.asOf <= now
                       /\ c.todo \subseteq DOMAIN c.listed /\ DOMAIN c.listed \subseteq used
                       /\ \A j \in c.todo : \/ lastOK[j] = None
                                            \/ lastOK[j].ended + Limit < c.asOf
                                            \/ lastOK[j].ended >= c.asOf
                                            \/ lastOK[j].started + Retention < c.asOf
<1>3. /\ Shape(check) /\ Right(check) /\ used \subseteq Jobs
      /\ now \in 0 .. MaxTime /\ now <= now /\ 0 \in 0 .. MaxTime /\ 0 <= now
  BY AlertsConstants DEF AlertsInv, RunsInv, CheckInv, TypeOK, NoFalseAlarm, Expired, Times
<1>4. Shape(check') /\ Right(check')
  <2>1. CASE ListJobs
    <3> DEFINE known == [j \in {i \in Jobs : row[i] # None} |-> row[j]]
    <3>1. check' = [at |-> "drop", listed |-> known, asOf |-> 0, todo |-> {}]
      BY <2>1 DEF ListJobs
    <3>2. DOMAIN known \subseteq used
      BY DEF AlertsInv, TypeOK
    <3> HIDE DEF known
    <3> QED
      BY <1>3, <3>1, <3>2
  <2>2. CASE DropDeleted
    <3>1. check' = [at |-> "judge", listed |-> check.listed, asOf |-> check.asOf, todo |-> check.todo]
      BY <1>3, <2>2 DEF DropDeleted
    <3> QED
      BY <1>3, <3>1
  <2>3. CASE Judge
    <3> DEFINE late == {j \in DOMAIN check.listed : Stale(j, check.listed[j])}
    <3>1. check' = [at |-> "create", listed |-> check.listed, asOf |-> now, todo |-> late]
      BY <1>3, <2>3 DEF Judge
    <3>2. \A j \in late : \/ lastOK[j] = None \/ lastOK[j].ended + Limit < now
                             \/ lastOK[j].started + Retention < now
      <4> SUFFICES ASSUME NEW j \in late
                   PROVE  \/ lastOK[j] = None \/ lastOK[j].ended + Limit < now
                          \/ lastOK[j].started + Retention < now
        OBVIOUS
      <4>1. j \in Jobs
        BY <1>3
      <4>2. Since(j, check.listed[j].created) + Limit < now
        BY DEF Stale
      <4> QED
        BY <4>1, <4>2, JudgeIsRight
    <3>3. late \subseteq DOMAIN check.listed
      OBVIOUS
    <3> HIDE DEF late
    <3> QED
      BY <1>3, <3>1, <3>2, <3>3
  <2>4. ASSUME NEW i \in Jobs, CreateRow(i)
        PROVE  Shape(check') /\ Right(check')
    <3>1. \E a \in {"create", "tell"} :
             check' = [at |-> a, listed |-> check.listed, asOf |-> check.asOf, todo |-> check.todo \ {i}]
      BY <1>3, <2>4 DEF CreateRow
    <3> QED
      BY <1>3, <3>1
  <2>5. CASE TellStale
    <3>1. check' = [at |-> "create", listed |-> check.listed, asOf |-> check.asOf, todo |-> check.todo]
      BY <1>3, <2>5 DEF TellStale
    <3> QED
      BY <1>3, <3>1
  <2>6. CASE EndCheck \/ CheckFails
    <3>1. check' = [at |-> "idle", listed |-> <<>>, asOf |-> 0, todo |-> {}]
      BY <2>6 DEF EndCheck, CheckFails, GiveUp, Idle
    <3>2. DOMAIN <<>> \subseteq used
      OBVIOUS
    <3> QED
      BY <1>3, <3>1, <3>2
  <2> QED
    BY <2>1, <2>2, <2>3, <2>4, <2>5, <2>6 DEF CheckNext
<1>5. alerted' \subseteq used
  <2>1. alerted \subseteq used
    BY DEF AlertsInv, TypeOK
  <2>2. CASE DropDeleted
    BY <2>1, <2>2 DEF DropDeleted
  <2>3. ASSUME NEW i \in Jobs, CreateRow(i)
        PROVE  alerted' \subseteq used
    BY <1>3, <2>1, <2>3 DEF CreateRow
  <2>4. alerted' = alerted \/ DropDeleted \/ \E i \in Jobs : CreateRow(i)
    BY DEF CheckNext, CheckFails, ListJobs, Judge, TellStale, EndCheck
  <2> QED
    BY <2>1, <2>2, <2>3, <2>4
<1>6. TypeOK'
  BY <1>1, <1>2, <1>4, <1>5 DEF AlertsInv, TypeOK, RunsOf, Times
<1> QED
  BY <1>1, <1>4, <1>6 DEF AlertsInv, CheckInv, NoFalseAlarm, Expired

-----------------------------------------------------------------------------
(* Steps that change the records or the clock.                             *)

LEMMA ClockKeepsAlerts ==
  ASSUME AlertsInv, Advance
  PROVE  AlertsInv'
<1>1. /\ used' = used /\ runs' = runs /\ row' = row /\ place' = place /\ check' = check
      /\ alerted' = alerted /\ failures' = failures /\ crashes' = crashes /\ lastOK' = lastOK
      /\ now' = now + 1 /\ now < MaxTime
      /\ \A r \in runs : r.status = "running" => now < r.started + MaxDuration
  BY DEF Advance, checkVars
<1>2. /\ now \in Nat /\ now' \in 0 .. MaxTime /\ {MaxDuration, Retention} \subseteq Nat
      /\ check.asOf \in Nat
      /\ \A j \in Jobs : lastOK[j] # None => lastOK[j].started \in Nat /\ lastOK[j].ended \in Nat
  BY <1>1, AlertsConstants DEF AlertsInv, TypeOK, Times
<1>3. TypeOK'
  BY <1>1, <1>2 DEF AlertsInv, TypeOK, RunsOf, Times
<1>4. \A r \in runs : r.started \in Nat /\ r.ended \in Nat
  BY RunFacts
<1>5. RunsInv'
  BY <1>1, <1>2, <1>4 DEF AlertsInv, RunsInv, OrderInv, DurationInv
<1>6. SuccessInv'
  BY <1>1, <1>2 DEF AlertsInv, SuccessInv, LastSuccess
<1>7. CheckInv'
  BY <1>1, <1>2 DEF AlertsInv, CheckInv
<1>8. NoFalseAlarm'
  BY <1>1, <1>3 DEF AlertsInv, NoFalseAlarm, Expired
<1> QED
  BY <1>3, <1>5, <1>6, <1>7, <1>8 DEF AlertsInv

Below == {p \in Nat \X Nat : p[1] < p[2]}

\* A set of numbers up to n has a greatest one.
LEMMA Greatest ==
  ASSUME NEW n \in Nat, NEW S \in SUBSET (0 .. n), S # {}
  PROVE  Max(S) \in S /\ \A k \in S : k <= Max(S)
<1> DEFINE Gaps == {n - k : k \in S}
<1>1. Gaps \in SUBSET Nat /\ Gaps # {}
  <2>1. \A k \in S : n - k \in Nat
    OBVIOUS
  <2>2. PICK k \in S : TRUE
    OBVIOUS
  <2>3. n - k \in Gaps
    OBVIOUS
  <2> QED
    BY <2>1, <2>3
<1>2. PICK g \in Gaps : \A h \in Gaps : g <= h
  <2>1. IsWellFoundedOn(Below, Nat)
    BY NatLessThanWellFounded DEF OpToRel, Below
  <2>2. PICK g \in Gaps : \A h \in Gaps : <<h, g>> \notin Below
    BY <1>1, <2>1, WFMin
  <2>3. \A h \in Gaps : g \in Nat /\ h \in Nat /\ ~(h < g)
    BY <1>1, <2>2 DEF Below
  <2> QED
    BY <2>3
<1>3. PICK m \in S : g = n - m
  BY <1>2
<1>4. \A k \in S : n - m <= n - k
  BY <1>2, <1>3
<1>5. \A k \in S : m >= k
  BY <1>4
<1>6. \E k \in S : \A i \in S : k >= i
  BY <1>5
<1> QED
  BY <1>6 DEF Max

LEMMA TriggerKeeps ==
  ASSUME AlertsInv, NEW j \in Jobs, Trigger(j)
  PROVE  AlertsInv'
<1> DEFINE numbers == {r.n : r \in RunsOf(j)} \cup {0}
           n == 1 + Max(numbers)
           new == [job |-> j, n |-> n, started |-> now, ended |-> 0, status |-> "running"]
<1>1. /\ used' = used /\ row' = row /\ check' = check /\ now' = now
      /\ alerted' = alerted /\ failures' = failures /\ crashes' = crashes /\ lastOK' = lastOK
      /\ row[j] # None /\ place[j] = "none" /\ n <= MaxRuns /\ runs' = runs \cup {new}
      /\ place' = [place EXCEPT ![j] = "running"]
  BY DEF Trigger, checkVars
<1>2. /\ now \in Nat /\ now \in 0 .. MaxTime /\ {MaxDuration, Limit, MaxRuns, MaxTime} \subseteq Nat
      /\ j \in used
  BY <1>1, AlertsConstants DEF AlertsInv, TypeOK, Times
<1>3. numbers \in SUBSET (0 .. MaxRuns) /\ numbers # {}
  BY <1>2, RunFacts DEF RunsOf, RunType
<1>4. Max(numbers) \in 0 .. MaxRuns /\ \A k \in numbers : k <= Max(numbers)
  BY <1>2, <1>3, Greatest
<1> HIDE DEF numbers
<1>5. n \in 1 .. MaxRuns /\ n \in Nat /\ \A k \in numbers : k < n
  BY <1>1, <1>2, <1>3, <1>4
<1>6. \A r \in runs : r.job = j => r.n \in Nat /\ r.n < n /\ r.status # "running"
  <2> SUFFICES ASSUME NEW r \in runs, r.job = j
               PROVE  r.n \in Nat /\ r.n < n /\ r.status # "running"
    OBVIOUS
  <2>1. r \in RunsOf(j)
    BY DEF RunsOf
  <2>2. r.n \in numbers /\ r.n \in Nat
    BY <2>1, RunFacts DEF numbers
  <2>3. r.status # "running"
    BY <1>1, <2>1 DEF AlertsInv, TypeOK
  <2> QED
    BY <1>5, <2>2, <2>3
<1> HIDE DEF n
<1>7. /\ new.job = j /\ new.n = n /\ new.started = now /\ new.ended = 0 /\ new.status = "running"
      /\ new \in RunType
  BY <1>2, <1>5 DEF RunType
<1>8. \A r \in runs : r.job = j => r.started \in Nat /\ r.ended \in Nat /\ r.started <= now
  BY RunFacts DEF AlertsInv, RunsInv, DurationInv
<1> HIDE DEF new
<1>9. RunsInv'
  <2>1. OrderInv'
    BY <1>1, <1>5, <1>6, <1>7, <1>8 DEF AlertsInv, RunsInv, OrderInv
  <2>2. DurationInv'
    BY <1>1, <1>2, <1>7 DEF AlertsInv, RunsInv, DurationInv
  <2> QED
    BY <1>1, <2>1, <2>2 DEF AlertsInv, RunsInv
<1>10. SuccessInv'
  BY <1>1, <1>7 DEF AlertsInv, SuccessInv, LastSuccess
<1>11. TypeOK'
  <2>1. place' \in [Jobs -> {"none", "running", "saved", "recovered"}]
    BY <1>1 DEF AlertsInv, TypeOK
  <2>2. \A i \in Jobs : place'[i] = "running" <=> \E r \in runs' : r.job = i /\ r.status = "running"
    BY <1>1, <1>7 DEF AlertsInv, TypeOK, RunsOf
  <2>3. runs' \subseteq RunType
    BY <1>1, <1>7, RunFacts
  <2> QED
    BY <1>1, <2>1, <2>2, <2>3 DEF AlertsInv, TypeOK, RunsOf, Times, RunType
<1> QED
  BY <1>1, <1>9, <1>10, <1>11 DEF AlertsInv, CheckInv, NoFalseAlarm, Expired

LEMMA CleanupKeeps ==
  ASSUME AlertsInv, Cleanup
  PROVE  AlertsInv'
<1>1. /\ used' = used /\ row' = row /\ check' = check /\ now' = now /\ place' = place
      /\ alerted' = alerted /\ failures' = failures /\ crashes' = crashes /\ lastOK' = lastOK
      /\ runs' = {r \in runs : r.status = "running" \/ r.started + Retention >= now}
  BY DEF Cleanup, checkVars
<1>2. runs' \subseteq runs /\ \A r \in runs : r.status = "running" => r \in runs'
  BY <1>1
<1>3. RunsInv'
  BY <1>1, <1>2 DEF AlertsInv, RunsInv, OrderInv, DurationInv
<1>4. TypeOK'
  BY <1>1, <1>2 DEF AlertsInv, TypeOK, RunsOf, Times
<1>5. SuccessInv'
  <2> SUFFICES ASSUME NEW j \in Jobs, lastOK[j] # None, ~(lastOK[j].started + Retention < now)
               PROVE  \E r \in runs' : /\ LastSuccess(r, j)'
                                       /\ r.started = lastOK[j].started /\ r.ended = lastOK[j].ended
    BY <1>1 DEF AlertsInv, SuccessInv
  <2>1. PICK r \in runs : LastSuccess(r, j) /\ r.started = lastOK[j].started /\ r.ended = lastOK[j].ended
    BY DEF AlertsInv, SuccessInv
  <2>2. r.started \in Nat /\ now \in Nat /\ Retention \in Nat
    BY RunFacts, AlertsConstants
  <2>3. r \in runs'
    BY <1>1, <2>1, <2>2
  <2> QED
    BY <1>2, <2>1, <2>3 DEF LastSuccess
<1> QED
  BY <1>1, <1>3, <1>4, <1>5 DEF AlertsInv, CheckInv, NoFalseAlarm, Expired

\* The records of S, all running, end now with the given status, the others stay as they are.
End(S, status) == {IF r \in S THEN Ended(r, status) ELSE r : r \in runs}

\* Where the records come from.
LEMMA EndedRuns ==
  ASSUME AlertsInv, NEW S \in SUBSET runs, NEW status \in {"success", "failed"},
         \A r \in S : r.status = "running"
  PROVE  /\ \A r \in S : /\ Ended(r, status) \in End(S, status) /\
                            Ended(r, status) \in RunType
                         /\ Ended(r, status).job = r.job /\ Ended(r, status).n = r.n
                         /\ Ended(r, status).started = r.started
                         /\ Ended(r, status).ended = now
                         /\ Ended(r, status).status = status
         /\ \A r \in runs \ S : r \in End(S, status)
         /\ \A q \in End(S, status) : q \in runs \ S \/ \E r \in S : q = Ended(r, status)
<1>1. ASSUME NEW r \in S
      PROVE  /\ Ended(r, status) \in RunType
             /\ Ended(r, status).job = r.job /\ Ended(r, status).n = r.n
             /\ Ended(r, status).started = r.started
             /\ Ended(r, status).ended = now
             /\ Ended(r, status).status = status
  <2>1. r \in RunType /\ now \in 0 .. MaxTime
    BY RunFacts DEF AlertsInv, TypeOK, Times
  <2> DEFINE done == [r EXCEPT !.ended = now, !.status = status]
  <2>2. /\ done \in RunType /\ done.job = r.job /\ done.n = r.n /\ done.started = r.started
        /\ done.ended = now /\ done.status = status
    BY <2>1 DEF RunType
  <2>3. Ended(r, status) = done
    BY DEF Ended
  <2> QED
    BY <2>2, <2>3
<1>2. \A r \in S : Ended(r, status) \in End(S, status)
  BY DEF End
<1>3. \A r \in runs \ S : r \in End(S, status)
  BY DEF End
<1>4. \A q \in End(S, status) : q \in runs \ S \/ \E r \in S : q = Ended(r, status)
  BY DEF End
<1> QED
  BY <1>1, <1>2, <1>3, <1>4

LEMMA EndKeepsRuns ==
  ASSUME AlertsInv, NEW S \in SUBSET runs, NEW status \in {"success", "failed"},
         \A r \in S : r.status = "running",
         runs' = End(S, status), now' = now, used' = used
  PROVE  RunsInv' /\ runs' \subseteq RunType
<1> DEFINE From(q, r) == /\ q.job = r.job /\ q.n = r.n /\ q.started = r.started
                         /\ \/ r \notin S /\ q = r
                            \/ /\ r \in S /\ q = Ended(r, status)
                               /\ r.status = "running" /\ q.ended = now /\ q.status = status
<1>1. \A q \in runs' : \E r \in runs : From(q, r)
  BY EndedRuns
<1>2. now \in Nat /\ status # "running" /\ MaxDuration \in Nat
  BY AlertsConstants DEF AlertsInv, TypeOK, Times
<1>3. OrderInv'
  <2> SUFFICES ASSUME NEW p \in runs', NEW q \in runs', p.job = q.job
               PROVE  /\ p.n = q.n => p = q
                      /\ p.n < q.n => p.status # "running" /\ p.started <= q.started
                      /\ p.n < q.n /\ q.status # "running" => p.ended <= q.ended
    BY DEF OrderInv
  <2>1. PICK r \in runs : From(p, r)
    BY <1>1
  <2>2. PICK s \in runs : From(q, s)
    BY <1>1
  <2>3. /\ r.n = s.n => r = s
        /\ r.n < s.n => r.status # "running" /\ r.started <= s.started
        /\ r.n < s.n /\ s.status # "running" => r.ended <= s.ended
        /\ r.ended <= now
    BY <2>1, <2>2 DEF AlertsInv, RunsInv, OrderInv, DurationInv
  <2> QED
    BY <1>2, <2>1, <2>2, <2>3
<1>4. DurationInv'
  <2> SUFFICES ASSUME NEW q \in runs'
               PROVE  /\ q.started <= now /\ q.ended <= now
                      /\ q.status = "running" => now <= q.started + MaxDuration
                      /\ q.status # "running" => q.ended <= q.started + MaxDuration
    BY DEF DurationInv
  <2>1. PICK r \in runs : From(q, r)
    BY <1>1
  <2>2. /\ r.started <= now /\ r.ended <= now
        /\ r.status = "running" => now <= r.started + MaxDuration
        /\ r.status # "running" => r.ended <= r.started + MaxDuration
    BY DEF AlertsInv, RunsInv, DurationInv
  <2> QED
    BY <1>2, <2>1, <2>2
<1>5. runs' \subseteq RunType
  BY EndedRuns, RunFacts
<1> QED
  BY <1>3, <1>4, <1>5 DEF AlertsInv, RunsInv

\* Successes on record are those there were, but for the run that ends with one.
LEMMA EndKeepsSuccesses ==
  ASSUME AlertsInv, NEW S \in SUBSET runs, NEW status \in {"success", "failed"},
         \A r \in S : r.status = "running",
         runs' = End(S, status), NEW j, status = "failed" \/ \A r \in S : r.job # j
  PROVE  \A r : LastSuccess(r, j)' <=> LastSuccess(r, j)
<1>1. \A r : r \in runs' /\ r.job = j /\ r.status = "success" <=> r \in runs /\ r.job = j /\
      r.status = "success"
  BY EndedRuns
<1> QED
  BY <1>1 DEF LastSuccess

LEMMA FinishKeeps ==
  ASSUME AlertsInv, NEW j \in Jobs, NEW status \in {"success", "failed"},
         Finish(j, status)
  PROVE  AlertsInv'
<1> DEFINE S == {r \in runs : r.job = j /\ r.status = "running"}
<1>1. /\ used' = used /\ row' = row /\ check' = check /\ now' = now
      /\ alerted' = alerted /\ failures' = failures /\ crashes' = crashes
      /\ place[j] = "running" /\ runs' = End(S, status)
      /\ place' = [place EXCEPT ![j] = IF status = "success" THEN "saved" ELSE "none"]
      /\ status = "failed" => lastOK' = lastOK
  BY DEF Finish, checkVars, End
<1>2. S \in SUBSET runs /\ (\A r \in S : r.status = "running" /\ r.job = j)
      /\ \A r \in runs \ S : r.job = j => r.status # "running"
  OBVIOUS
<1>3. PICK r0 \in S :
        status = "success" => lastOK' = [lastOK EXCEPT ![j] = [started |-> r0.started, ended |-> now]]
  BY <1>1 DEF AlertsInv, TypeOK, RunsOf, Finish
<1> HIDE DEF S
<1>4. RunsInv' /\ runs' \subseteq RunType
  BY <1>1, <1>2, EndKeepsRuns
<1>5. /\ now \in Nat /\ now \in 0 .. MaxTime /\ check.asOf \in Nat /\ Limit \in Nat
      /\ place \in [Jobs -> {"none", "running", "saved", "recovered"}]
      /\ lastOK \in [Jobs -> [started : 0 .. MaxTime, ended : 0 .. MaxTime] \cup {None}]
      /\ r0.started \in 0 .. MaxTime
      /\ check.asOf <= now /\ check.todo \subseteq Jobs
  BY AlertsConstants, RunFacts, <1>2 DEF AlertsInv, RunsInv, CheckInv, TypeOK, Times, RunType
<1>6. TypeOK'
  <2>1. place' \in [Jobs -> {"none", "running", "saved", "recovered"}]
    BY <1>1, <1>5
  <2>2. ASSUME NEW i \in Jobs
        PROVE  place'[i] = "running" <=> \E r \in runs' : r.job = i /\ r.status = "running"
    <3>1. CASE i = j
      <4>1. place'[i] # "running"
        BY <1>1, <1>5, <3>1
      <4>2. \A r \in runs' : ~(r.job = i /\ r.status = "running")
        BY <1>1, <1>2, <3>1, EndedRuns
      <4> QED
        BY <4>1, <4>2
    <3>2. CASE i # j
      <4>1. place'[i] = place[i]
        BY <1>1, <1>5, <3>2
      <4>2. \A r : r \in runs' /\ r.job = i <=> r \in runs /\ r.job = i
        BY <1>1, <1>2, <3>2, EndedRuns
      <4> QED
        BY <4>1, <4>2 DEF AlertsInv, TypeOK, RunsOf
    <3> QED
      BY <3>1, <3>2
  <2>3. lastOK' \in [Jobs -> [started : 0 .. MaxTime, ended : 0 .. MaxTime] \cup {None}]
    BY <1>1, <1>3, <1>5
  <2> QED
    BY <1>1, <1>4, <2>1, <2>2, <2>3 DEF AlertsInv, TypeOK, RunsOf, Times, RunType
<1>7. SuccessInv'
  <2> SUFFICES ASSUME NEW i \in Jobs, lastOK'[i] # None
               PROVE  /\ lastOK'[i].ended <= now
                      /\ \/ lastOK'[i].started + Retention < now
                         \/ \E r \in runs' : /\ LastSuccess(r, i)' /\ r.started = lastOK'[i].started
                                              /\ r.ended = lastOK'[i].ended
    BY <1>1 DEF SuccessInv
  <2>1. CASE status = "failed" \/ i # j
    <3>1. lastOK'[i] = lastOK[i]
      BY <1>1, <1>3, <1>5, <2>1
    <3>2. \A r : LastSuccess(r, i)' <=> LastSuccess(r, i)
      BY <1>1, <1>2, <2>1, EndKeepsSuccesses
    <3>3. \A r : LastSuccess(r, i)' => r \in runs'
      BY DEF LastSuccess
    <3> QED
      BY <3>1, <3>2, <3>3 DEF AlertsInv, SuccessInv
  <2>2. CASE status = "success" /\ i = j
    <3>1. PICK e \in runs' : /\ e.job = j /\ e.n = r0.n /\ e.started = r0.started
                             /\ e.ended = now /\ e.status = "success"
      BY <1>1, <1>2, <2>2, EndedRuns
    <3>2. \A s \in runs : s.job = j => s.n <= r0.n
      <4> SUFFICES ASSUME NEW s \in runs, s.job = j
                   PROVE  s.n <= r0.n
        OBVIOUS
      <4>1. r0 \in runs /\ r0.job = j /\ r0.status = "running" /\ r0.n \in Nat /\ s.n \in Nat
        BY <1>2, RunFacts
      <4>2. ~(r0.n < s.n)
        BY <4>1 DEF AlertsInv, RunsInv, OrderInv
      <4> QED
        BY <4>1, <4>2
    <3>3. \A q \in runs' : q.job = j => \E s \in runs : s.job = j /\ s.n = q.n
      BY <1>1, <1>2, EndedRuns
    <3>4. LastSuccess(e, j)'
      BY <3>1, <3>2, <3>3 DEF LastSuccess
    <3>5. lastOK'[i] = [started |-> r0.started, ended |-> now]
      BY <1>3, <1>5, <2>2
    <3> QED
      BY <1>5, <2>2, <3>1, <3>4, <3>5
  <2> QED
    BY <2>1, <2>2
<1>8. \A i \in check.todo : lastOK'[i] = lastOK[i] \/ lastOK'[i].ended >= check.asOf
  BY <1>1, <1>3, <1>5
<1>9. NoFalseAlarm'
  BY <1>1, <1>6, <1>8 DEF AlertsInv, NoFalseAlarm, Expired
<1> QED
  BY <1>1, <1>4, <1>6, <1>7, <1>9 DEF AlertsInv, CheckInv

LEMMA CrashKeeps ==
  ASSUME AlertsInv, Crash
  PROVE  AlertsInv'
<1> DEFINE S == {r \in runs : r.status = "running"}
<1>1. /\ used' = used /\ row' = row /\ now' = now /\ alerted' = alerted /\ failures' = failures
      /\ crashes < MaxCrashes /\ crashes' = crashes + 1 /\ lastOK' = lastOK
      /\ place' = [j \in Jobs |-> "none"]
      /\ check' = [at |-> "idle", listed |-> <<>>, asOf |-> 0, todo |-> {}]
  BY DEF Crash, Idle
<1>2. runs' = End(S, "failed")
  BY DEF Crash, Recovered, End
<1>3. S \in SUBSET runs /\ (\A r \in S : r.status = "running") /\ \A r \in runs \ S : r.status # "running"
  OBVIOUS
<1> HIDE DEF S
<1>4. RunsInv' /\ runs' \subseteq RunType
  BY <1>1, <1>2, <1>3, EndKeepsRuns
<1>5. crashes' \in 0 .. MaxCrashes /\ 0 \in 0 .. MaxTime /\ 0 <= now
  BY <1>1, AlertsConstants DEF AlertsInv, TypeOK, Times
<1>6. DOMAIN check'.listed = {} /\ check'.todo = {} /\ check'.at = "idle" /\ check'.asOf = 0
      /\ check' = [at |-> check'.at, listed |-> check'.listed, asOf |-> check'.asOf, todo |-> check'.todo]
  BY <1>1
<1>7. \A r \in runs' : r.status # "running"
  BY <1>2, <1>3, EndedRuns
<1>8. TypeOK'
  BY <1>1, <1>4, <1>5, <1>6, <1>7 DEF AlertsInv, TypeOK, RunsOf, Times, RunType
<1>9. \A j : \A r : LastSuccess(r, j)' <=> LastSuccess(r, j)
  BY <1>2, <1>3, EndKeepsSuccesses
<1>10. SuccessInv'
  <2>1. \A j, r : LastSuccess(r, j)' => r \in runs'
    BY DEF LastSuccess
  <2> QED
    BY <1>1, <1>9, <2>1 DEF AlertsInv, SuccessInv
<1>11. CheckInv' /\ NoFalseAlarm'
  BY <1>1, <1>5, <1>6, <1>8 DEF CheckInv, NoFalseAlarm
<1> QED
  BY <1>4, <1>8, <1>10, <1>11 DEF AlertsInv

-----------------------------------------------------------------------------
LEMMA AlertsKept == AlertsInv /\ [AlertsNext]_alertsVars => AlertsInv'
<1> SUFFICES ASSUME AlertsInv, [AlertsNext]_alertsVars
             PROVE  AlertsInv'
  OBVIOUS
<1>1. CASE CheckStep
  <2>1. TypeOK' /\ CheckInv' /\ NoFalseAlarm'
    BY <1>1, SaveJobKeeps, PlacesKeep, CheckKeeps DEF CheckStep
  <2> QED
    BY <1>1, <2>1, CheckStepKeepsRuns DEF AlertsInv
<1>2. CASE Advance \/ Cleanup \/ Crash
  BY <1>2, ClockKeepsAlerts, CleanupKeeps, CrashKeeps
<1>3. CASE \E j \in Jobs : Trigger(j)
  BY <1>3, TriggerKeeps
<1>4. CASE \E j \in Jobs, status \in {"success", "failed"} : Finish(j, status)
  BY <1>4, FinishKeeps
<1>5. CASE UNCHANGED alertsVars
  <2>1. /\ used' = used /\ runs' = runs /\ row' = row /\ place' = place /\ check' = check
        /\ alerted' = alerted /\ failures' = failures /\ crashes' = crashes /\ lastOK' = lastOK
        /\ now' = now
    BY <1>5 DEF alertsVars, checkVars
  <2> QED
    BY <2>1 DEF AlertsInv, RunsInv, OrderInv, DurationInv, SuccessInv, LastSuccess, CheckInv, TypeOK,
       NoFalseAlarm, Expired, RunsOf, Times
<1> QED
  BY <1>1, <1>2, <1>3, <1>4, <1>5 DEF CheckStep, AlertsNext

\* The check sets out to report a job only when its last success is too long ago, came while
\* the check worked, or started before what the retention covered, for any jobs, records and
\* settings: deletion touches no other record of a success (CheckStaleJobs, cleanupRuns).
THEOREM NoFalseAlarmCorrect == AlertsSpec => []NoFalseAlarm
<1>1. AlertsInit => AlertsInv
  BY AlertsStart
<1>2. AlertsInv /\ [AlertsNext]_alertsVars => AlertsInv'
  BY AlertsKept
<1>3. AlertsInv => NoFalseAlarm
  BY DEF AlertsInv
<1> QED
  BY <1>1, <1>2, <1>3, PTL DEF AlertsSpec
=============================================================================
