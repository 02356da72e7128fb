----------------------------- MODULE Resources -----------------------------
(***************************************************************************)
(* The rows that say where things are and how to log in: credentials,      *)
(* servers, storage locations and jobs, as server_svc, credential_svc,     *)
(* repo_svc and job_svc save and delete them.  Saving a server writes two  *)
(* rows and may delete a third, one statement after another and in no      *)
(* transaction; a deletion first asks what refers to the row.  Requests    *)
(* overlap: what one has read may have changed when it writes.             *)
(*                                                                         *)
(* The reads at the start of a request are one step, every write is one of *)
(* its own.  A password is whom it was typed for; a key is never sent.     *)
(***************************************************************************)
EXTENDS Naturals, FiniteSets

CONSTANTS Requests,          \* requests at a time
          Servers, Locations, Jobs,  \* identifiers; the database never uses one twice
          MaxCredentials,    \* bound: rows of credentials ever inserted
          Names,             \* names a credential of the library is given: numbers
          Targets,           \* address, port and user
          MaxRequests,       \* bound: requests started
          Anyone, None

ASSUME ResourcesConstants ==
  /\ MaxCredentials \in Nat /\ MaxRequests \in Nat /\ Names \subseteq Nat \ {0}

Kinds == {"password", "key"}
CredentialIds == 1 .. MaxCredentials     \* 0: none yet
Via(row) == IF row = None THEN None ELSE <<row.server, row.target>>

(* The rows.  `for` is the target a secret was typed for, `name` 0 if private. *)
Credential == [kind : Kinds, for : Targets \cup {Anyone}, shared : BOOLEAN, name : Nat]
Server == [target : Targets, jump : Servers \cup {None}, cred : CredentialIds]
Passwords == ((Servers \cup {None}) \X Targets) \cup {None}
Repo == [server : Servers \cup {None}, target : Targets, pw : Passwords]
Job == [server : Servers \cup {None}, repo : Locations, target : Targets, pw : Passwords, paused : BOOLEAN]

(* What requests submit: a server refers to a shared credential or has its own filled in. *)
Referring == [target : Targets, jump : Servers \cup {None}, cred : CredentialIds]
FilledIn == [target : Targets, jump : Servers \cup {None}, kind : Kinds, typed : BOOLEAN, share : BOOLEAN]
CredentialInput == [kind : Kinds, name : Names]
PasswordInputs == {"none", "typed", "keep"}
RepoParams == [server : Servers \cup {None}, target : Targets, input : PasswordInputs]
JobInput == [server : Servers \cup {None}, repo : Locations, target : Targets, input : PasswordInputs]

\* An identifier is one of a table, and None is no value that it stands in for.
ASSUME IdentifiersAssumption ==
  /\ Servers \cap Locations = {} /\ Servers \cap Jobs = {} /\ Locations \cap Jobs = {}
  /\ None \notin Servers /\ None \notin Locations /\ None \notin Targets
  /\ None \notin Credential /\ None \notin Server /\ None \notin Repo /\ None \notin Job
  /\ None \notin RepoParams /\ None \notin JobInput /\ None \notin (Servers \cup {None}) \X Targets

VARIABLES
  creds,     \* [CredentialIds -> row or None]
  inserted,  \* rows of credentials inserted so far
  servers,   \* [Servers -> row or None]
  status,    \* [Servers -> the connection its status columns tell of, or None]
  repos,     \* [Locations -> row or None]
  jobs,      \* [Jobs -> row or None]
  used,      \* identifiers given out
  req,       \* [Requests -> what it is doing, with what it has read]
  begun,
  \* history
  home,      \* [CredentialIds -> the server the row was filled in for, None for the library's]
  contested, \* servers of which two saves or deletions have overlapped
  disturbed, \* what a request broke off in the middle of changing
  excused    \* rows written while what they refer to was being deleted

rowVars == <<creds, inserted, servers, status, repos, jobs>>
editVars == <<home, contested>>
vars == <<rowVars, used, req, begun, editVars, disturbed, excused>>

Idle == [pc |-> "idle"]
Rows(table) == {x \in DOMAIN table : table[x] # None}

Init ==
  /\ creds = [c \in CredentialIds |-> None] /\ inserted = 0
  /\ servers = [s \in Servers |-> None] /\ status = [s \in Servers |-> None]
  /\ repos = [l \in Locations |-> None] /\ jobs = [j \in Jobs |-> None]
  /\ used = {} /\ req = [r \in Requests |-> Idle] /\ begun = 0
  /\ home = [c \in CredentialIds |-> None] /\ contested = {}
  /\ disturbed = {} /\ excused = {}

At(r, pc) == req[r].pc = pc
Goto(r, pc) == req' = [req EXCEPT ![r].pc = pc]
Done(r) == req' = [req EXCEPT ![r] = Idle]
Ready(r) == At(r, "idle") /\ begun < MaxRequests
Begin(r, state) ==
  /\ begun' = begun + 1 /\ req' = [req EXCEPT ![r] = state]
  /\ UNCHANGED <<rowVars, home, disturbed, excused>>

\* A new row gets the next identifier; a saved one has its own.
NextId(table) == CHOOSE x \in DOMAIN table : x \notin used
NewOrSaved(table, x) ==
  \/ table[x] # None /\ UNCHANGED used
  \/ x \notin used /\ x = NextId(table) /\ used' = used \cup {x}

---------------------------------------------------------------------------
(* Credentials. *)

SharedRow(c) == c \in Rows(creds) /\ creds[c].shared
\* Mutants of OwnRow and of MaySelect: whether the row is shared is not looked at.
AnyRow(server) == IF server # None /\ server.cred \in Rows(creds) THEN server.cred ELSE 0
OwnRow(server) ==
  IF server # None /\ server.cred \in Rows(creds) /\ ~SharedRow(server.cred) THEN server.cred ELSE 0
MaySelectAny(c) == c \in Rows(creds)
MaySelect(c) == SharedRow(c)

UsedBy(c) == {s \in Rows(servers) : servers[s].cred = c}

\* The name is taken by another shared row: what the unique index refuses.
Taken(name, id) == \E c \in Rows(creds) \ {id} : creds[c].shared /\ creds[c].name = name
FreeSharedName(id) ==
  CHOOSE n \in 1 .. MaxCredentials + 1 :
    ~Taken(n, id) /\ \A m \in 1 .. n - 1 : Taken(m, id)

\* The saved secret is kept: a password only for the address it was typed for.
KeepsAcrossTargets(saved, kind, from, to) == saved # None /\ saved.kind = kind
Keeps(saved, kind, from, to) ==
  saved # None /\ saved.kind = kind /\ (kind = "password" => from = to)

Merged(saved, in, id) ==
  [kind |-> in.kind, shared |-> in.share,
   for |-> IF in.share \/ in.kind = "key" THEN Anyone ELSE IF in.typed THEN in.target ELSE saved.for,
   name |-> IF in.share THEN FreeSharedName(id) ELSE 0]

PutCredential(id, row, x) ==
  IF id = 0
  THEN /\ inserted < MaxCredentials /\ inserted' = inserted + 1
       /\ creds' = [creds EXCEPT ![inserted + 1] = row]
       /\ home' = [home EXCEPT ![inserted + 1] = x]
  ELSE /\ creds' = IF creds[id] = None THEN creds ELSE [creds EXCEPT ![id] = row]
       /\ UNCHANGED <<inserted, home>>

BeginSaveCredential(r) ==
  /\ Ready(r) /\ UNCHANGED <<used, contested>>
  /\ \E id \in {0} \cup {c \in CredentialIds : SharedRow(c)}, in \in CredentialInput :
       /\ ~Taken(in.name, id)
       /\ Begin(r, [pc |-> "library", id |-> id,
                    row |-> [kind |-> in.kind, for |-> Anyone, shared |-> TRUE, name |-> in.name]])

WriteCredential(r) ==
  /\ At(r, "library") /\ Done(r)
  /\ IF Taken(req[r].row.name, req[r].id)
     THEN UNCHANGED <<creds, inserted, home>>
     ELSE PutCredential(req[r].id, req[r].row, None)
  /\ UNCHANGED <<servers, status, repos, jobs, used, begun, contested, disturbed, excused>>

BeginDeleteCredential(r) ==
  /\ Ready(r) /\ UNCHANGED <<used, contested>>
  /\ \E c \in CredentialIds :
       SharedRow(c) /\ UsedBy(c) = {} /\ Begin(r, [pc |-> "drop", id |-> c])

\* A row that a server refers to stays: the foreign key.
Without(c) == IF UsedBy(c) = {} THEN [creds EXCEPT ![c] = None] ELSE creds

DropCredential(r) ==
  /\ At(r, "drop") /\ Done(r)
  /\ creds' = Without(req[r].id)
  /\ UNCHANGED <<inserted, servers, status, repos, jobs, used, begun, editVars, disturbed, excused>>

---------------------------------------------------------------------------
(* References without a foreign key: a jump, the server and the location of *)
(* a job, the server of a location.                                         *)

Deleting(x) == \E r \in Requests : At(r, "delete") /\ req[r].x = x
Excuse(x, targets) ==
  excused' = IF \E t \in targets \ {None} :
                  Deleting(t) \/ t \notin Rows(servers) \cup Rows(repos)
             THEN excused \cup {x} ELSE excused \ {x}

\* Mutant of InUse: jumps and locations are not asked.
UsedByJob(x) == \E j \in Rows(jobs) : x \in {jobs[j].server, jobs[j].repo}
InUse(x) ==
  \/ \E s \in Rows(servers) \ {x} : servers[s].jump = x
  \/ \E l \in Rows(repos) : repos[l].server = x
  \/ \E j \in Rows(jobs) : x \in {jobs[j].server, jobs[j].repo}

---------------------------------------------------------------------------
(* Servers. *)

Changes(r, s) ==
  req[r].pc \in {"credential", "server", "cleanup", "delete", "dropOwn"} /\ req[r].x = s

\* History: nothing keeps two requests from changing the same server at once.
Contest(s) ==
  contested' = IF \E r \in Requests : Changes(r, s) THEN contested \cup {s} ELSE contested

Endpoint(server) == <<server.target, server.jump>>

\* Everything is read and checked before anything is written.
BeginSaveServer(r, s) ==
  /\ Ready(r) /\ NewOrSaved(servers, s) /\ Contest(s)
  /\ LET old == servers[s]
         own == OwnRow(old)
         saved == IF own = 0 THEN None ELSE creds[own]
         Hop(in) == in.jump \in {None} \cup (Rows(servers) \ {s})
         Plan(pc, in, id, row) ==
           [pc |-> pc, x |-> s, old |-> old, id |-> id, row |-> row,
            new |-> [target |-> in.target, jump |-> in.jump, cred |-> id]]
     IN  \/ \E in \in Referring :
              Hop(in) /\ MaySelect(in.cred) /\ Begin(r, Plan("server", in, in.cred, None))
         \/ \E in \in FilledIn :
              /\ Hop(in)
              /\ in.typed \/ Keeps(saved, in.kind, IF old = None THEN None ELSE old.target, in.target)
              /\ own = 0 => inserted < MaxCredentials
              /\ Begin(r, Plan("credential", in, own, Merged(saved, in, own)))

PersistCredential(r) ==
  /\ At(r, "credential")
  /\ IF req[r].row.shared /\ Taken(req[r].row.name, req[r].id)
     THEN Done(r) /\ UNCHANGED <<creds, inserted, home>>
     ELSE /\ PutCredential(req[r].id, req[r].row, req[r].x)
          /\ req' = [req EXCEPT ![r].pc = "server",
                                ![r].new.cred = IF req[r].id = 0 THEN inserted + 1 ELSE @]
  /\ UNCHANGED <<servers, status, repos, jobs, used, begun, contested, disturbed, excused>>

WriteServer(r) ==
  LET s == req[r].x  new == req[r].new
  IN  /\ At(r, "server")
      /\ IF req[r].old # None /\ servers[s] = None
         THEN Goto(r, "cleanup") /\ UNCHANGED <<servers, excused>>   \* no such row
         ELSE IF new.cred \notin Rows(creds)
         THEN Done(r) /\ UNCHANGED <<servers, excused>>              \* the foreign key
         ELSE /\ servers' = [servers EXCEPT ![s] = new]
              /\ Excuse(s, {new.jump})
              /\ IF req[r].old = None THEN Done(r) ELSE Goto(r, "cleanup")
      /\ UNCHANGED <<creds, inserted, status, repos, jobs, used, begun, editVars, disturbed>>

\* The private row of a server that now uses a shared one.
Orphan(r) == IF req[r].row = None THEN OwnRow(req[r].old) ELSE 0

Reset(r) == Endpoint(req[r].old) # Endpoint(req[r].new)

DeleteOrphan(r) ==
  /\ At(r, "cleanup")
  /\ creds' = IF Orphan(r) = 0 THEN creds ELSE Without(Orphan(r))
  /\ IF Reset(r) THEN Goto(r, "status") ELSE Done(r)
  /\ UNCHANGED <<inserted, servers, status, repos, jobs, used, begun, editVars, disturbed, excused>>

ResetStatus(r) ==
  /\ At(r, "status") /\ Done(r)
  /\ status' = [status EXCEPT ![req[r].x] = None]
  /\ UNCHANGED <<creds, inserted, servers, repos, jobs, used, begun, editVars, disturbed, excused>>

BeginDeleteServer(r, s) ==
  /\ Ready(r) /\ servers[s] # None /\ ~InUse(s) /\ Contest(s) /\ UNCHANGED used
  /\ Begin(r, [pc |-> "delete", x |-> s, old |-> servers[s]])

DeleteServer(r) ==
  /\ At(r, "delete") /\ req[r].x \in Servers
  /\ servers' = [servers EXCEPT ![req[r].x] = None]
  /\ status' = [status EXCEPT ![req[r].x] = None]
  /\ Goto(r, "dropOwn")
  /\ UNCHANGED <<creds, inserted, repos, jobs, used, begun, editVars, disturbed, excused>>

DeletePrivateCredential(r) ==
  /\ At(r, "dropOwn") /\ Done(r)
  /\ creds' = IF OwnRow(req[r].old) = 0 THEN creds ELSE Without(OwnRow(req[r].old))
  /\ UNCHANGED <<inserted, servers, status, repos, jobs, used, begun, editVars, disturbed, excused>>

\* A connection to a saved server, by a run or a test: its result is recorded.
BeginDial(r, s) ==
  /\ Ready(r) /\ servers[s] # None /\ UNCHANGED <<used, contested>>
  /\ Begin(r, [pc |-> "dial", x |-> s, to |-> Endpoint(servers[s])])

RecordCheck(r) ==
  LET s == req[r].x
  IN  /\ At(r, "dial") /\ Done(r)
      /\ status' = IF servers[s] = None THEN status ELSE [status EXCEPT ![s] = req[r].to]
      /\ UNCHANGED <<creds, inserted, servers, repos, jobs, used, begun, editVars, disturbed, excused>>

---------------------------------------------------------------------------
(* Storage locations and jobs: one row, written at once. *)

\* The password after a save: none, typed, or kept for the same connection.
Password(old, to, input) ==
  CASE input = "none" -> None
    [] input = "typed" -> to
    [] OTHER -> old.pw
MayKeep(old, from, to) == old # None /\ old.pw # None /\ from = to

BeginSaveRepo(r, l) ==
  /\ Ready(r) /\ NewOrSaved(repos, l) /\ UNCHANGED contested
  /\ \E in \in RepoParams :
       /\ in.server \in {None} \cup Rows(servers)
       /\ in.input = "keep" => MayKeep(repos[l], Via(repos[l]), Via(in))
       /\ Begin(r, [pc |-> "repo", x |-> l, old |-> repos[l],
                    new |-> [server |-> in.server, target |-> in.target,
                             pw |-> Password(repos[l], Via(in), in.input)]])

WriteRepo(r) ==
  LET l == req[r].x
  IN  /\ At(r, "repo") /\ Done(r)
      /\ IF req[r].old # None /\ repos[l] = None THEN UNCHANGED <<repos, excused>>
         ELSE repos' = [repos EXCEPT ![l] = req[r].new] /\ Excuse(l, {req[r].new.server})
      /\ UNCHANGED <<creds, inserted, servers, status, jobs, used, begun, editVars, disturbed>>

BeginDeleteRepo(r, l) ==
  /\ Ready(r) /\ repos[l] # None /\ ~InUse(l) /\ UNCHANGED <<used, contested>>
  /\ Begin(r, [pc |-> "delete", x |-> l, old |-> repos[l]])

DeleteRepo(r) ==
  /\ At(r, "delete") /\ req[r].x \in Locations /\ Done(r)
  /\ repos' = [repos EXCEPT ![req[r].x] = None]
  /\ UNCHANGED <<creds, inserted, servers, status, jobs, used, begun, editVars, disturbed, excused>>

BeginSaveJob(r, j) ==
  /\ Ready(r) /\ NewOrSaved(jobs, j) /\ UNCHANGED contested
  /\ \E in \in JobInput, paused \in BOOLEAN :
       /\ in.server \in {None} \cup Rows(servers) /\ in.repo \in Rows(repos)
       /\ jobs[j] # None => paused = jobs[j].paused
       /\ in.input = "keep" => MayKeep(jobs[j], Via(jobs[j]), Via(in))
       /\ Begin(r, [pc |-> "job", x |-> j, old |-> jobs[j],
                    new |-> [server |-> in.server, repo |-> in.repo, target |-> in.target,
                             paused |-> paused, pw |-> Password(jobs[j], Via(in), in.input)]])

Updated(saved, new) == IF saved = None THEN new ELSE [new EXCEPT !.paused = saved.paused]

WriteJob(r) ==
  LET j == req[r].x  new == req[r].new
  IN  /\ At(r, "job") /\ Done(r)
      /\ IF req[r].old # None /\ jobs[j] = None THEN UNCHANGED <<jobs, excused>>
         ELSE jobs' = [jobs EXCEPT ![j] = Updated(jobs[j], new)] /\ Excuse(j, {new.server, new.repo})
      /\ UNCHANGED <<creds, inserted, servers, status, repos, used, begun, editVars, disturbed>>

\* A copy is a job of its own, paused.
BeginDuplicate(r, j, copy) ==
  /\ Ready(r) /\ jobs[j] # None /\ copy \notin used /\ copy = NextId(jobs)
  /\ used' = used \cup {copy} /\ UNCHANGED contested
  /\ Begin(r, [pc |-> "job", x |-> copy, old |-> None, new |-> [jobs[j] EXCEPT !.paused = TRUE]])

DeleteJob(j) ==
  /\ jobs[j] # None /\ begun < MaxRequests /\ begun' = begun + 1
  /\ jobs' = [jobs EXCEPT ![j] = None]
  /\ UNCHANGED <<creds, inserted, servers, status, repos, used, req, editVars, disturbed, excused>>

SetPaused(j) ==
  /\ jobs[j] # None /\ begun < MaxRequests /\ begun' = begun + 1
  /\ jobs' = [jobs EXCEPT ![j].paused = ~@]
  /\ UNCHANGED <<creds, inserted, servers, status, repos, used, req, editVars, disturbed, excused>>

---------------------------------------------------------------------------
\* A write fails or the process stops: the rest of the request does not happen.
\* (A request that has written nothing yet may as well be one that never ends.)
HalfDone(r) ==
  CASE At(r, "server") /\ req[r].row # None -> {<<"server", req[r].x>>, <<"credential", req[r].new.cred>>}
    [] At(r, "cleanup") -> {<<"credential", OwnRow(req[r].old)>>}
    [] At(r, "dropOwn") -> {<<"credential", OwnRow(req[r].old)>>}
    [] OTHER -> {}

BreakOff(r) ==
  /\ HalfDone(r) # {} /\ Done(r)
  /\ disturbed' = disturbed \cup HalfDone(r)
  /\ UNCHANGED <<rowVars, used, begun, editVars, excused>>

Next ==
  \/ \E r \in Requests :
       \/ BeginSaveCredential(r) \/ WriteCredential(r)
       \/ BeginDeleteCredential(r) \/ DropCredential(r)
       \/ PersistCredential(r) \/ WriteServer(r) \/ DeleteOrphan(r) \/ ResetStatus(r)
       \/ DeleteServer(r) \/ DeletePrivateCredential(r) \/ RecordCheck(r)
       \/ WriteRepo(r) \/ DeleteRepo(r) \/ WriteJob(r) \/ BreakOff(r)
       \/ \E s \in Servers : BeginSaveServer(r, s) \/ BeginDeleteServer(r, s) \/ BeginDial(r, s)
       \/ \E l \in Locations : BeginSaveRepo(r, l) \/ BeginDeleteRepo(r, l)
       \/ \E j \in Jobs : BeginSaveJob(r, j) \/ \E copy \in Jobs : BeginDuplicate(r, j, copy)
  \/ \E j \in Jobs : DeleteJob(j) \/ SetPaused(j)

Spec == Init /\ [][Next]_vars

---------------------------------------------------------------------------
(* Properties. *)

\* Rows and requests have their types.
TypeOK ==
  /\ creds \in [CredentialIds -> {None} \cup Credential]
  /\ servers \in [Servers -> {None} \cup Server]
  /\ \A l \in Rows(repos) : repos[l] \in Repo
  /\ \A j \in Rows(jobs) : jobs[j] \in Job
  /\ inserted \in 0 .. MaxCredentials /\ begun \in 0 .. MaxRequests
  /\ home \in [CredentialIds -> Servers \cup {None}] /\ contested \subseteq Servers

\* Two requests that changed the row's server at once have had their way with the row.
Contested(c) == home[c] \in contested

\* A credential that is not shared belongs to exactly one server, the one it was filled
\* in for, whatever is done to other servers and in the library meanwhile.  In between,
\* or when a save broke off, it may belong to none.  Not judged: a row whose own server
\* two requests have changed at once.
ChangedBy(r, c) ==
  \/ At(r, "server") /\ req[r].new.cred = c
  \/ req[r].pc \in {"cleanup", "dropOwn"} /\ OwnRow(req[r].old) = c
OneOwner ==
  TypeOK /\ \A c \in Rows(creds) : ~SharedRow(c) /\ ~Contested(c) =>
    \/ UsedBy(c) = {home[c]}
    \/ UsedBy(c) = {} /\ (<<"credential", c>> \in disturbed \/ \E r \in Requests : ChangedBy(r, c))

\* A saved password is sent only where it was typed for: the private one of a server,
\* that of a location and that of a database (mergeCredential, build, dbPassword).
\* A save that breaks off between the credential and the server is the exception, and a
\* row whose own server two requests have changed at once.
PasswordForTarget ==
  /\ \A s \in Rows(servers) :
       LET c == servers[s].cred IN
       \/ creds[c].for \in {Anyone, servers[s].target} \/ <<"server", s>> \in disturbed
       \/ Contested(c)
       \/ \E r \in Requests : At(r, "server") /\ req[r].x = s
  /\ \A l \in Rows(repos) : repos[l].pw \in {None, Via(repos[l])}
  /\ \A j \in Rows(jobs) : jobs[j].pw \in {None, Via(jobs[j])}

\* Saving or deleting a server never takes a credential out of the library or hides it:
\* a shared row goes only when the library deletes it (resolveCredential, orphanPrivate,
\* deletePrivateCredential).  A row that was made in the library is always judged, one
\* that a server put there unless two requests have changed that server at once.
LibraryStays ==
  [][\A c \in CredentialIds : SharedRow(c) /\ ~SharedRow(c)' =>
       \/ Contested(c)
       \/ \E r \in Requests : At(r, "drop") /\ req[r].id = c]_vars

\* Nothing refers to a server or a location that was deleted, unless it was saved
\* while the deletion was under way (the checks of the Delete handlers).
NothingDangles ==
  /\ \A s \in Rows(servers) \ excused : servers[s].jump \in Rows(servers) \cup {None}
  /\ \A l \in Rows(repos) \ excused : repos[l].server \in Rows(servers) \cup {None}
  /\ \A j \in Rows(jobs) \ excused :
       jobs[j].server \in Rows(servers) \cup {None} /\ jobs[j].repo \in Rows(repos)

=============================================================================
