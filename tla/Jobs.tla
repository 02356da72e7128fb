-------------------------------- MODULE Jobs --------------------------------
(***************************************************************************)
(* A job from the form to the run: the form is checked and saved           *)
(* (job_svc.Create), its connection is tested (job_svc.Test), its servers  *)
(* and databases are browsed, and the run of the saved job builds and      *)
(* executes commands (engine.go, up to the snapshots).  The servers, the   *)
(* databases and the storage location are the world; it changes between    *)
(* any two steps.  What a run does with records, locks and retention is    *)
(* RunEngine; how a connection is made is SshConn.                         *)
(***************************************************************************)
EXTENDS JobConfig, FiniteSets

CONSTANTS Forms,        \* [form, location, worlds]: what is filled in, the saved location, and the
                        \* states of what is outside that this form is tried with
          MaxChanges    \* bound: how often the world changes

\* A form is filled in, and a database answers in one of the ways the code tells apart.
ASSUME FormsFilled ==
    \A f \in Forms :
      /\ DOMAIN f.form = DOMAIN Filled("files")
      /\ \A w \in f.worlds : w.db \in {"up", "down", "refuses_login", "lacks_privileges"}

VARIABLES form,         \* the form, as submitted every time
          loc,          \* the storage location
          worlds,       \* what the world may be, and what it is
          world, changes,
          store,        \* the saved job, as a sequence of none or one
          ask,          \* the request being answered: a save, a test or a look at the server
          run,          \* the run of the saved job
          tested,       \* the job whose last test was all right, with the world as it still is
          masked,       \* the secrets that the log of the run hides
          leaked        \* the secrets that reached a log, a status or an answer

vars == <<form, loc, worlds, world, changes, store, ask, run, tested, masked, leaked>>

NoAsk == [kind |-> "none", pc |-> "idle", job |-> <<>>, failed |-> {}, left |-> {}, bad |-> {},
          confirmed |-> {}, unverified |-> {}, calm |-> FALSE, ok |-> FALSE]

NoRun == [pc |-> "idle", left |-> {}, cause |-> "", predicted |-> FALSE]

OnlySecrets(texts) == {t \in texts : t[1] = "secret"}

Init ==
    /\ \E f \in Forms : form = f.form /\ loc = f.location /\ worlds = f.worlds
    /\ Validate(loc)
    /\ world \in worlds
    /\ changes = 0
    /\ store = <<>>
    /\ ask = NoAsk
    /\ run = NoRun
    /\ tested = <<>>
    /\ masked = {}
    /\ leaked = OnlySecrets(Address(loc))

Job == store[1]

(***************************************************************************)
(* What is outside: whether the server lets opsnap in and offers SFTP,     *)
(* what the paths are there, what the database answers, whether the        *)
(* location is mounted and answers.                                        *)
(***************************************************************************)
ChangeWorld ==
    /\ changes < MaxChanges
    /\ ask.kind # "none" \/ run.pc # "idle"
    /\ \E w \in worlds \ {world} : world' = w
    /\ changes' = changes + 1
    /\ tested' = <<>>
    /\ ask' = [ask EXCEPT !.calm = FALSE]
    /\ run' = [run EXCEPT !.predicted = FALSE]
    /\ UNCHANGED <<form, loc, worlds, store, masked, leaked>>

DialFails == world.server # "up"
Unverifiable == world.server = "unreachable" \/ (world.server = "up" /\ ~world.sftp)
Mounted == loc.type # "local" \/ world.mounted
NeedsSSH(j) == j.source = "files" \/ j.conn = "ssh"

\* An address in brackets gets a second pair of them, and can be split and dialled no more.
BadAddress(j) == j.host = "bracketed"

Reaches(j) == ~BadAddress(j) /\ world.db # "down"

(***************************************************************************)
(* The requests.                                                           *)
(***************************************************************************)
Answer(ok) == ask' = [NoAsk EXCEPT !.pc = "answered", !.kind = ask.kind, !.ok = ok, !.failed = ask.failed,
                                   !.job = ask.job, !.confirmed = ask.confirmed, !.unverified = ask.unverified]

Submit(kind) ==
    /\ ask.kind = "none"
    /\ run.pc = "idle"
    /\ ask' = [NoAsk EXCEPT !.kind = kind, !.pc = "checked", !.job = <<assemble(form)>>, !.calm = TRUE,
                            !.failed = ValidateConfig(assemble(form))]
    /\ UNCHANGED <<form, loc, worlds, world, changes, store, run, tested, masked, leaked>>

\* The references of the form: the server is one of the table; the location has to be mounted.
CheckResources ==
    /\ ask.kind = "save"
    /\ ask.pc = "checked"
    /\ ask' = [ask EXCEPT !.failed = @ \cup Wrong("repo_id", ask.job[1].repo # 0 /\ ~Mounted),
                          !.pc = IF ask.job[1].source # "files" \/ ask.job[1].server = 0
                                    \/ ask.failed \cap {"server_id", "paths"} # {}
                                 THEN "write" ELSE "open"]
    /\ UNCHANGED <<form, loc, worlds, world, changes, store, run, tested, masked, leaked>>

\* The server is dialled to look at the paths; only what may pass lets an unseen path through.
OpenFS ==
    /\ ask.pc = "open"
    /\ IF ~DialFails /\ world.sftp THEN
          ask' = [ask EXCEPT !.pc = "stat", !.left = ask.job[1].paths, !.confirmed = {}, !.bad = {}]
       ELSE IF Unverifiable THEN
          ask' = [ask EXCEPT !.pc = "write", !.unverified = ask.job[1].paths]
       ELSE IF ask.kind = "save" THEN Answer(FALSE)
       ELSE ask' = [ask EXCEPT !.pc = "repo", !.failed = @ \cup {"paths"}]
    /\ UNCHANGED <<form, loc, worlds, world, changes, store, run, tested, masked, leaked>>

\* Slip: what could not be looked at is passed over.
PassOver == [ask EXCEPT !.left = {}]

Unseen == [ask EXCEPT !.pc = "write", !.unverified = ask.job[1].paths, !.bad = {}]

\* A look that takes too long ends the looking, and takes back what was found before.
StatPath ==
    /\ ask.pc = "stat"
    /\ \E p \in ask.left :
       \/ (world.dir[p] = "slow" \/ DialFails) /\ ask' = Unseen
       \/ /\ world.dir[p] \in {"dir", "closed"} /\ ~DialFails
          /\ ask' = [ask EXCEPT !.left = @ \ {p}, !.confirmed = @ \cup {p}]
       \/ /\ world.dir[p] \in {"file", "missing", "denied"} \/ DialFails
          /\ ask' = [ask EXCEPT !.left = @ \ {p}, !.bad = @ \cup {p}]
    /\ UNCHANGED <<form, loc, worlds, world, changes, store, run, tested, masked, leaked>>

StatDone ==
    /\ ask.pc = "stat"
    /\ ask.left = {}
    /\ ask' = [ask EXCEPT !.pc = "write", !.failed = @ \cup Wrong("paths", ask.bad # {})]
    /\ UNCHANGED <<form, loc, worlds, world, changes, store, run, tested, masked, leaked>>

Create ==
    /\ ask.kind = "save"
    /\ ask.pc = "write"
    /\ IF ask.failed = {} THEN store' = ask.job /\ Answer(TRUE) ELSE store' = store /\ Answer(FALSE)
    /\ UNCHANGED <<form, loc, worlds, world, changes, run, tested, masked, leaked>>

\* A test, and a look at the databases or directories, check the connection fields only.
PrepareConn ==
    /\ ask.kind \in {"test", "databases", "paths"}
    /\ ask.pc = "checked"
    /\ IF \/ ask.failed \cap connectionFields # {}
          \/ ask.kind = "databases" /\ ~HasDatabaseList(form.source)
          \/ ask.kind = "paths" /\ form.source # "files"
       THEN Answer(FALSE)
       ELSE ask' = [ask EXCEPT !.pc = "link", !.failed = {}]
    /\ UNCHANGED <<form, loc, worlds, world, changes, store, run, tested, masked, leaked>>

LinkFails ==
    /\ ask.pc = "link"
    /\ NeedsSSH(ask.job[1])
    /\ DialFails
    /\ IF ask.kind = "test"
       THEN ask' = [ask EXCEPT !.pc = "repo", !.failed = {"ssh", "data"}]
       ELSE Answer(FALSE)
    /\ UNCHANGED <<form, loc, worlds, world, changes, store, run, tested, masked, leaked>>

LinkWorks ==
    /\ ask.pc = "link"
    /\ ~(NeedsSSH(ask.job[1]) /\ DialFails)
    /\ ask' = [ask EXCEPT !.pc = IF ask.job[1].source # "files" THEN "database"
                                 ELSE IF ask.kind = "paths" THEN "list"
                                 ELSE IF ask.job[1].paths = {} THEN "no_paths" ELSE "open"]
    /\ UNCHANGED <<form, loc, worlds, world, changes, store, run, tested, masked, leaked>>

\* Slip: an error that is not one of the network says nothing.
ReachedIsEnough(j) == IF Reaches(j) THEN {} ELSE {"reach", "auth", "privileges"}

\* What Diagnose says: not reached, not let in, or privileges missing (a loose look).
Diagnosis(j) ==
    IF ~Reaches(j) THEN {"reach", "auth", "privileges"}
    ELSE IF world.db = "refuses_login" THEN {"auth", "privileges"}
    ELSE IF world.db = "lacks_privileges" THEN {"privileges"} ELSE {}

CheckDatabase ==
    /\ ask.kind = "test"
    /\ ask.pc = "database"
    /\ ask' = [ask EXCEPT !.pc = "repo", !.failed = @ \cup Diagnosis(ask.job[1])]
    /\ UNCHANGED <<form, loc, worlds, world, changes, store, run, tested, masked, leaked>>

NoPathsYet ==
    /\ ask.pc = "no_paths"
    /\ ask' = [ask EXCEPT !.pc = "repo", !.failed = @ \cup {"paths"}]
    /\ UNCHANGED <<form, loc, worlds, world, changes, store, run, tested, masked, leaked>>

CheckFiles ==
    /\ ask.kind = "test"
    /\ ask.pc = "write"
    /\ ask' = [ask EXCEPT !.pc = "repo",
                          !.failed = @ \cup Wrong("paths", ask.unverified # {})]
    /\ UNCHANGED <<form, loc, worlds, world, changes, store, run, tested, masked, leaked>>

CheckRepo ==
    /\ ask.pc = "repo"
    /\ LET failed == ask.failed \cup Wrong("repo", ask.job[1].repo = 0 \/ ~Mounted) IN
       /\ Answer(failed = {})
       /\ tested' = IF failed = {} /\ ask.calm THEN ask.job ELSE <<>>
    /\ UNCHANGED <<form, loc, worlds, world, changes, store, run, masked, leaked>>

\* The names in the database, or the directories of one level; never a part of them.
ListDatabases ==
    /\ ask.kind = "databases"
    /\ ask.pc = "database"
    /\ Answer(Reaches(ask.job[1]) /\ world.db # "refuses_login")
    /\ UNCHANGED <<form, loc, worlds, world, changes, store, run, tested, masked, leaked>>

ListPath ==
    /\ ask.pc = "list"
    /\ \E ok \in {FALSE, world.sftp} : Answer(ok)
    /\ UNCHANGED <<form, loc, worlds, world, changes, store, run, tested, masked, leaked>>

\* The panel shows the answer and may ask again.
Acknowledge ==
    /\ ask.pc = "answered"
    /\ ask' = NoAsk
    /\ UNCHANGED <<form, loc, worlds, world, changes, store, run, tested, masked, leaked>>

(***************************************************************************)
(* Commands are executed with what they may show: any text of their        *)
(* arguments and of their environment.                                     *)
(***************************************************************************)
Values(c) == c.args \cup {e.value : e \in c.env}

\* The run's log hides the secrets of every command before it prints it and runs it.
Exec(c) ==
    /\ masked' = masked \cup Secrets(c)
    /\ leaked' = leaked \cup OnlySecrets(Values(c) \ masked')

Ends(cause) == run' = [NoRun EXCEPT !.pc = "ended", !.cause = cause, !.predicted = run.predicted]

OfJob(j) == Repo(loc, Secret("key"), j.compression, IF j.source = "files" THEN 0 ELSE j.limit)

StartRun ==
    /\ run.pc = "idle"
    /\ ask.kind = "none"
    /\ store # <<>>
    /\ run' = [NoRun EXCEPT !.pc = "mount", !.predicted = tested = store]
    /\ masked' = {}
    /\ UNCHANGED <<form, loc, worlds, world, changes, store, ask, tested, leaked>>

Preflight ==
    /\ run.pc = "mount"
    /\ IF Mounted THEN run' = [run EXCEPT !.pc = "open"] ELSE Ends("not_mounted")
    /\ UNCHANGED <<form, loc, worlds, world, changes, store, ask, tested, masked, leaked>>

\* Env: an obscured password is made by a command of its own, which reads the plain one.
OpenLocation ==
    /\ run.pc = "open"
    /\ \/ run' = [run EXCEPT !.pc = "snapshots"]
       \/ (Obscures(loc) \/ loc.type = "sftp") /\ Ends("location")
    /\ leaked' = IF Obscures(loc) THEN leaked \cup OnlySecrets(Values(RcloneObscure)) ELSE leaked
    /\ masked' = masked \cup {Secret("key")}
    /\ UNCHANGED <<form, loc, worlds, world, changes, store, ask, tested>>

ListSnapshots ==
    /\ run.pc = "snapshots"
    /\ LET c == ResticSnapshots(OfJob(Job)) IN
       IF ~c.ok THEN Ends("build") /\ UNCHANGED <<masked, leaked>>
       ELSE /\ Exec(c)
            /\ IF ~world.answers THEN Ends("location")
               ELSE run' = [run EXCEPT !.pc = IF NeedsSSH(Job) THEN "dial" ELSE "connect"]
    /\ UNCHANGED <<form, loc, worlds, world, changes, store, ask, tested>>

\* The passwords and keys of the chain are hidden before anything is dialled.
DialServer ==
    /\ run.pc = "dial"
    /\ masked' = masked \cup {Secret("server")}
    /\ IF DialFails THEN Ends("server")
       ELSE run' = [run EXCEPT !.pc = IF Job.source = "files" THEN "copy" ELSE "connect"]
    /\ UNCHANGED <<form, loc, worlds, world, changes, store, ask, tested, leaked>>

\* Which databases: the chosen ones, or those there are now without the system's.
RunNames ==
    IF ~HasDatabaseList(Job.source) THEN {""}
    ELSE IF ~Job.all THEN ToSet(Job.databases)
    ELSE {n \in world.names : ~SystemDatabase(n)}

Connect ==
    /\ run.pc = "connect"
    /\ masked' = masked \cup Given(Job.password, {Secret("database_password")})
    /\ IF BadAddress(Job) /\ Job.conn = "direct" THEN Ends("address")
       ELSE IF Job.all /\ (~Reaches(Job) \/ world.db = "refuses_login") THEN Ends("databases")
       ELSE IF Job.all /\ RunNames = {} THEN Ends("none_to_export")
       ELSE run' = [run EXCEPT !.pc = "export", !.left = RunNames]
    /\ UNCHANGED <<form, loc, worlds, world, changes, store, ask, tested, leaked>>

DumpOf(n) ==
    Dump([kind |-> Job.source, host |-> IF Job.conn = "ssh" THEN "name" ELSE Job.host,
          port |-> Job.port, user |-> Job.user = "text", password |-> Job.password,
          databases |-> IF n = "" THEN <<>> ELSE <<n>>, all |-> FALSE, extra |-> Job.extra = "text"])

Export ==
    /\ run.pc = "export"
    /\ \E n \in run.left :
       LET c == ResticBackupStdin(OfJob(Job), DumpOf(n)) IN
       IF ~c.ok
       THEN Ends("build") /\ UNCHANGED <<masked, leaked>>
       ELSE /\ Exec(c)
            /\ \/ Reaches(Job) /\ world.db = "up" /\ run' = [run EXCEPT !.left = @ \ {n}]
               \/ Ends("backup")
    /\ UNCHANGED <<form, loc, worlds, world, changes, store, ask, tested>>

ExportsDone ==
    /\ run.pc = "export"
    /\ run.left = {}
    /\ Ends("done")
    /\ UNCHANGED <<form, loc, worlds, world, changes, store, ask, tested, masked, leaked>>

\* rsync through the bridge, whose token is hidden first; then a snapshot of the mirror.
CopyFiles ==
    /\ run.pc = "copy"
    /\ LET c == Rsync({PathClass[p] : p \in Job.paths}, "absolute", Job.limit, Job.extra = "text") IN
       IF ~c.ok THEN Ends("build") /\ UNCHANGED <<masked, leaked>>
       ELSE /\ Exec(c)
            /\ \/ /\ ~DialFails
                  /\ \A p \in Job.paths : world.dir[p] \in {"dir", "file", "slow"}
                  /\ run' = [run EXCEPT !.pc = "snapshot"]
               \/ Ends("backup")
    /\ UNCHANGED <<form, loc, worlds, world, changes, store, ask, tested>>

BackupMirror ==
    /\ run.pc = "snapshot"
    /\ LET c == ResticBackupDir(OfJob(Job), "absolute") IN
       IF ~c.ok THEN Ends("build") /\ UNCHANGED <<masked, leaked>>
       ELSE Exec(c) /\ \/ Ends("done")
                       \/ Ends("backup")
    /\ UNCHANGED <<form, loc, worlds, world, changes, store, ask, tested>>

EndRun ==
    /\ run.pc = "ended"
    /\ run' = NoRun
    /\ masked' = {}
    /\ UNCHANGED <<form, loc, worlds, world, changes, store, ask, tested, leaked>>

(***************************************************************************)
(* The other commands on the location: creating it, its keys, maintenance, *)
(* statistics, browsing and the retention.  Each has its output hidden by  *)
(* its own secrets.                                                        *)
(***************************************************************************)
LocationCommands ==
    LET repo == Repo(loc, Secret("key"), "", 0)
        theirs == Repo(loc, Secret("existing_password"), "", 0)
    IN {ResticInit(repo), ResticSnapshots(repo), ResticKeyList(repo), ResticKeyList(theirs),
        ResticKeyAdd(repo, Secret("new_key")), ResticKeyAdd(theirs, Secret("key")),
        ResticKeyRemove(repo, "text"), ResticCheck(repo, "text"), ResticPrune(repo), ResticUnlock(repo),
        ResticStats(repo, "raw-data"), ResticStats(repo, "restore-size"), RcloneAbout(loc),
        ResticLs(repo, "text", "absolute"), ResticDump(repo, "text", "absolute", "tar"),
        ResticForget(repo, TRUE, TRUE)}

OtherCommand ==
    /\ ask.kind = "none"
    /\ run.pc = "idle"
    /\ \E c \in {d \in LocationCommands : d.ok} : leaked' = leaked \cup OnlySecrets(Values(c) \ Secrets(c))
    /\ UNCHANGED <<form, loc, worlds, world, changes, store, ask, run, tested, masked>>

Ask == \E kind \in {"save", "test", "databases", "paths"} : Submit(kind)

Save == CheckResources \/ OpenFS \/ StatPath \/ StatDone \/ Create

Test == PrepareConn \/ LinkFails \/ LinkWorks \/ CheckDatabase \/ NoPathsYet \/ CheckFiles \/ CheckRepo

Browse == ListDatabases \/ ListPath

Run == StartRun \/ Preflight \/ OpenLocation \/ ListSnapshots \/ DialServer \/ Connect \/ Export
         \/ ExportsDone \/ CopyFiles \/ BackupMirror \/ EndRun

Next == ChangeWorld \/ Ask \/ Save \/ Test \/ Browse \/ Acknowledge \/ Run \/ OtherCommand

Spec == Init /\ [][Next]_vars

(***************************************************************************)
(* Properties.                                                             *)
(***************************************************************************)
\* Every secret that a command, a backend or a server is given is hidden
\* wherever the command line and the output go: the run's log, the status of
\* a location, an answer.  It never is an argument, it is in a variable that
\* is known to be secret, and it is hidden before anything can print it.
SecretsHidden == leaked = {}

\* A job and a location that validation let through never fail because their
\* own command is refused: only a name that the server listed can do that.
ValidJobsBuild == run.cause = "build" => Job.all

\* When the test of a job was all right, and neither the job nor anything outside has changed,
\* a run of it finds the location mounted, the server and the database, and is let in.  What can
\* still end it before an export: restic or the command that hides its password, at a location
\* of which the test sees the mount only; and that there is nothing to export.
Foreseen(cause) ==
    \/ cause \in {"", "build", "backup", "done"}
    \/ cause = "location" /\ (~world.answers \/ Obscures(loc) \/ loc.type = "sftp")
    \/ cause = "none_to_export" /\ RunNames = {}

TestPredictsRun == run.predicted => Foreseen(run.cause)

\* Whatever path a job was saved with was seen to be a directory while it was
\* saved, or the answer names it as one that could not be seen.
SavedOrSaid ==
    ask.kind = "save" /\ ask.pc = "answered" /\ ask.ok =>
        Job.paths \subseteq ask.confirmed \cup ask.unverified
=============================================================================
