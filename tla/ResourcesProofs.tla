-------------------------- MODULE ResourcesProofs --------------------------
(***************************************************************************)
(* What holds of the saved rows for any number of requests, rows, targets  *)
(* and steps that break off.  What is said of a credential leaves out those *)
(* whose own server two requests have changed at once: of them nothing is  *)
(* known, and the proof shows that they spoil no other credential.         *)
(***************************************************************************)
EXTENDS Resources, FiniteSetTheorems, WellFoundedInduction, TLAPS

Hidden(c) == c \in Rows(creds) /\ ~creds[c].shared
Private(c) == Hidden(c) /\ ~Contested(c)

(* What a request can be doing. *)
Rest == [pc : {"idle"}]
Plans ==
  {q \in [pc : {"credential", "server", "cleanup", "status"}, x : Servers, old : Server \cup {None},
          id : 0 .. MaxCredentials, row : Credential \cup {None},
          new : [target : Targets, jump : Servers \cup {None}, cred : 0 .. MaxCredentials]] :
     q.pc = "credential" => q.row # None}
LibrarySaves == [pc : {"library"}, id : 0 .. MaxCredentials, row : Credential]
Drops == [pc : {"drop"}, id : CredentialIds]
ServerDeletes == [pc : {"delete", "dropOwn"}, x : Servers, old : Server]
RepoDeletes == [pc : {"delete"}, x : Locations, old : Repo]
Dials == [pc : {"dial"}, x : Servers, to : Targets \X (Servers \cup {None})]
RepoSaves == [pc : {"repo"}, x : Locations, old : Repo \cup {None}, new : Repo]
JobSaves == [pc : {"job"}, x : Jobs, old : Job \cup {None}, new : Job]
States == Rest \cup Plans \cup LibrarySaves \cup Drops \cup ServerDeletes \cup RepoDeletes \cup Dials
            \cup RepoSaves \cup JobSaves

Types ==
  /\ TypeOK
  /\ repos \in [Locations -> {None} \cup Repo] /\ jobs \in [Jobs -> {None} \cup Job]
  /\ req \in [Requests -> States]
  /\ home \in [CredentialIds -> Servers \cup {None}] /\ contested \subseteq Servers
  /\ \A c \in CredentialIds : c > inserted => creds[c] = None

\* The rows of credentials, and what the library is doing with them.
Removing(r) == req[r].pc \in {"delete", "dropOwn"} /\ req[r].x \in Servers
CredentialInv ==
  /\ \A s \in Rows(servers) : servers[s].cred \in Rows(creds)
  /\ \A c \in Rows(creds) : creds[c].shared => creds[c].for = Anyone
  /\ \A r \in Requests :
       /\ At(r, "library") => req[r].row.shared /\ req[r].row.for = Anyone /\ ~Private(req[r].id)
       /\ At(r, "library") => req[r].id <= inserted
       /\ At(r, "drop") => ~Private(req[r].id) /\ req[r].id <= inserted
       /\ Removing(r) => req[r].old.cred <= inserted

\* What a request that saves a server has planned.
PlanRest(q) ==
  /\ q.row # None /\ q.id # 0 => q.old # None /\ q.id = q.old.cred
  /\ q.old # None => q.old.cred <= inserted
  /\ q.row # None /\ q.old # None /\ Private(q.old.cred) => q.id = q.old.cred
  /\ q.row # None /\ q.row.shared => q.row.for = Anyone
  /\ q.pc = "credential" => q.row # None /\ q.new.cred = q.id
  /\ q.pc = "credential" /\ q.id # 0 /\ ~Contested(q.id) => Private(q.id)
  /\ q.pc # "credential" => q.new.cred \in 1 .. inserted
  /\ q.pc \in {"cleanup", "status"} => q.old # None
  /\ q.row # None /\ q.id # 0 => q.new.cred = q.id
  /\ q.pc = "server" /\ q.row = None => ~Private(q.new.cred)
  /\ q.pc = "server" /\ q.row # None /\ Private(q.new.cred) =>
       creds[q.new.cred].for \in {Anyone, q.new.target} \/ <<"server", q.x>> \in disturbed

\* The password it is going to store was typed for the target it is going to store.
Typed(q, torn) ==
  q.row # None => \/ q.row.for \in {Anyone, q.new.target} \/ <<"server", q.x>> \in disturbed
                  \/ q.id # 0 /\ home[q.id] \in torn

PlanOK(q) == PlanRest(q) /\ Typed(q, contested)

Planning(r) == req[r].pc \in {"credential", "server", "cleanup", "status"}
PlanInv == \A r \in Requests : Planning(r) => PlanOK(req[r])

\* Where one request at a time has changed a server, what it has read is still there.
EditInv ==
  /\ \A r, p \in Requests, s \in Servers \ contested : Changes(r, s) /\ Changes(p, s) => r = p
  /\ \A r \in Requests, s \in Servers \ contested : Changes(r, s) =>
       /\ req[r].pc \in {"credential", "server", "delete"} => req[r].old = servers[s]
       /\ At(r, "cleanup") => servers[s] = req[r].new
       /\ At(r, "dropOwn") => servers[s] = None

\* A server that has, gets or had a private credential is the one it was filled in for.
Claims(s, c) ==
  \/ servers[s] # None /\ servers[s].cred = c
  \/ \E r \in Requests : Changes(r, s) /\ At(r, "server") /\ req[r].row # None /\ req[r].new.cred = c
  \/ \E r \in Requests : Changes(r, s) /\ req[r].old # None /\ req[r].old.cred = c
ClaimInv == \A c \in CredentialIds, s \in Servers : Private(c) /\ Claims(s, c) => s = home[c]

\* A private credential that no server has is one that a request has to do with.
OwnerInv ==
  \A c \in CredentialIds : Private(c) =>
    \/ \E s \in Rows(servers) : servers[s].cred = c
    \/ <<"credential", c>> \in disturbed
    \/ \E r \in Requests : ChangedBy(r, c)

\* What a server sends was typed for where it sends it, or its row is about to be written.
PasswordInv ==
  \A s \in Rows(servers) : Private(servers[s].cred) =>
    \/ creds[servers[s].cred].for \in {Anyone, servers[s].target}
    \/ <<"server", s>> \in disturbed
    \/ \E r \in Requests : Changes(r, s) /\ At(r, "server") /\ req[r].row # None /\ req[r].id # 0

\* So it is for the passwords that a location or a job has in its own row.
StoredInv ==
  /\ \A l \in Rows(repos) : repos[l].pw \in {None, Via(repos[l])}
  /\ \A j \in Rows(jobs) : jobs[j].pw \in {None, Via(jobs[j])}
  /\ \A r \in Requests : req[r].pc \in {"repo", "job"} => req[r].new.pw \in {None, Via(req[r].new)}

\* Who refers to what is being deleted is excused.
DangleInv ==
  /\ NothingDangles
  /\ \A r \in Requests : At(r, "delete") =>
       /\ \A s \in Rows(servers) \ excused : s # req[r].x => servers[s].jump # req[r].x
       /\ \A l \in Rows(repos) \ excused : repos[l].server # req[r].x
       /\ \A j \in Rows(jobs) \ excused : jobs[j].server # req[r].x /\ jobs[j].repo # req[r].x

Saving == {"credential", "server", "cleanup", "status"}

\* What a request is doing tells which form it has.
LEMMA Forms ==
  ASSUME Types, NEW r \in Requests
  PROVE  /\ req[r] \in States
         /\ Planning(r) => req[r] \in Plans
         /\ At(r, "library") => req[r] \in LibrarySaves
         /\ At(r, "drop") => req[r] \in Drops
         /\ At(r, "delete") => req[r] \in ServerDeletes \cup RepoDeletes
         /\ At(r, "dropOwn") \/ Removing(r) => req[r] \in ServerDeletes
         /\ At(r, "repo") => req[r] \in RepoSaves
         /\ At(r, "job") => req[r] \in JobSaves
<1>1. req[r] \in States
  BY DEF Types
<1>2. CASE req[r] \in Rest \cup LibrarySaves \cup Drops \cup Dials
  BY <1>1, <1>2 DEF Rest, LibrarySaves, Drops, Dials, Planning, At, Removing
<1>3. CASE req[r] \in Plans
  BY <1>1, <1>3 DEF Plans, Planning, At, Removing
<1>4. CASE req[r] \in ServerDeletes \cup RepoDeletes
  BY <1>1, <1>4, IdentifiersAssumption DEF ServerDeletes, RepoDeletes, Planning, At, Removing
<1>5. CASE req[r] \in RepoSaves \cup JobSaves
  BY <1>1, <1>5 DEF RepoSaves, JobSaves, Planning, At, Removing
<1> QED
  BY <1>1, <1>2, <1>3, <1>4, <1>5 DEF States

\* A name that no shared row has is found.
LEMMA FreeName ==
  ASSUME Types, NEW id \in 0 .. MaxCredentials
  PROVE  FreeSharedName(id) \in Nat /\ ~Taken(FreeSharedName(id), id)
<1> DEFINE N == 1 .. MaxCredentials + 1
           free == {n \in N : ~Taken(n, id)}
<1>1. MaxCredentials \in Nat
  BY ResourcesConstants
<1>2. free # {}
  <2> SUFFICES ASSUME free = {} PROVE FALSE
    OBVIOUS
  <2>1. \A n \in N : \E c \in CredentialIds : c \in Rows(creds) /\ creds[c].name = n
    BY DEF Taken, Rows, Types, TypeOK
  <2> DEFINE f == [n \in N |-> CHOOSE c \in CredentialIds : c \in Rows(creds) /\ creds[c].name = n]
  <2>2. \A n \in N : f[n] \in CredentialIds /\ creds[f[n]].name = n
    BY <2>1
  <2>3. f \in [N -> CredentialIds]
    BY <2>2
  <2>4. /\ IsFiniteSet(N) /\ Cardinality(N) = MaxCredentials + 1
        /\ IsFiniteSet(CredentialIds) /\ Cardinality(CredentialIds) = MaxCredentials
    BY <1>1, FS_Interval DEF CredentialIds
  <2>5. Cardinality(CredentialIds) < Cardinality(N)
    BY <1>1, <2>4
  <2> HIDE DEF f, N
  <2>6. \E x, y \in N : x # y /\ f[x] = f[y]
    BY <2>3, <2>4, <2>5, FS_PigeonHole
  <2> QED
    BY <2>2, <2>6
<1>3. PICK n \in free : \A m \in free : <<m, n>> \notin OpToRel(<, Nat)
  <2>1. free \subseteq Nat
    OBVIOUS
  <2> HIDE DEF free
  <2> QED
    BY <1>2, <2>1, NatLessThanWellFounded, WFMin
<1>4. \A m \in 1 .. n - 1 : Taken(m, id)
  <2> SUFFICES ASSUME NEW m \in 1 .. n - 1, ~Taken(m, id) PROVE FALSE
    OBVIOUS
  <2>1. m \in free /\ m \in Nat /\ n \in Nat /\ m < n
    BY <1>1
  <2>2. <<m, n>> \in OpToRel(<, Nat)
    BY <2>1 DEF OpToRel
  <2> QED
    BY <1>3, <2>1, <2>2
<1>5. n \in N /\ ~Taken(n, id)
  OBVIOUS
<1> QED
  BY <1>1, <1>4, <1>5 DEF FreeSharedName

\* Whatever happens, a request is in one of its forms.
LEMMA NewForm ==
  ASSUME Types, NEW r \in Requests, NEW q \in States, req' = [req EXCEPT ![r] = q]
  PROVE  req' \in [Requests -> States] /\ req'[r] = q /\ \A p \in Requests : p # r => req'[p] = req[p]
  BY DEF Types

-----------------------------------------------------------------------------
(* Requests begin. *)

IInv ==
  /\ Types /\ CredentialInv /\ PlanInv /\ EditInv /\ ClaimInv /\ OwnerInv /\ PasswordInv /\ StoredInv

\* Nobody is changing server s, or it is contested from now on.
Free(s) == s \in contested' \/ \A r \in Requests : ~Changes(r, s)

\* What a request may begin with.
Fresh(q) ==
  /\ q \in States
  /\ q.pc = "library" => q.row.shared /\ q.row.for = Anyone /\ ~Private(q.id) /\ q.id <= inserted
  /\ q.pc = "drop" => ~Private(q.id) /\ q.id <= inserted
  /\ q.pc \in Saving => /\ q.pc \in {"credential", "server"} /\ PlanRest(q) /\ Typed(q, contested')
                        /\ q.x \in Servers /\ q.old = servers[q.x] /\ Free(q.x)
  /\ q.pc = "server" => q.row = None
  /\ q.pc = "delete" => ~InUse(q.x)
  /\ q.pc = "delete" /\ q.x \in Servers =>
       Free(q.x) /\ q.old = servers[q.x] /\ q.old.cred <= inserted
  /\ q.pc # "dropOwn"
  /\ q.pc \in {"repo", "job"} => q.new.pw \in {None, Via(q.new)}

\* Request r begins; what needs no more than the types is kept apart.
Starting(r) ==
  /\ contested \subseteq contested' /\ contested' \subseteq Servers
  /\ \E q \in States :
       /\ Begin(r, q) /\ At(r, "idle") /\ begun < MaxRequests
       /\ q.pc # "dropOwn" /\ (q.pc = "delete" => ~InUse(q.x))
       /\ IInv => Fresh(q)

\* Rows that are there, and their numbers.
LEMMA RowFacts ==
  ASSUME Types
  PROVE  /\ MaxCredentials \in Nat /\ inserted \in 0 .. MaxCredentials
         /\ \A c \in Rows(creds) : c \in 1 .. inserted /\ c \in CredentialIds /\ creds[c] \in Credential
         /\ \A s \in Rows(servers) : s \in Servers /\ servers[s] \in Server
         /\ \A l \in Rows(repos) : l \in Locations /\ repos[l] \in Repo
         /\ \A j \in Rows(jobs) : j \in Jobs /\ jobs[j] \in Job
         /\ \A s \in Servers : servers[s] # None => servers[s] \in Server
         /\ \A c \in CredentialIds : creds[c] # None => creds[c] \in Credential /\ c \in Rows(creds)
         /\ \A c : SharedRow(c) => c \in Rows(creds) /\ ~Hidden(c) /\ ~Private(c)
<1>1. MaxCredentials \in Nat
  BY ResourcesConstants
<1>2. /\ inserted \in 0 .. MaxCredentials
      /\ creds \in [CredentialIds -> {None} \cup Credential] /\ servers \in [Servers -> {None} \cup Server]
      /\ repos \in [Locations -> {None} \cup Repo] /\ jobs \in [Jobs -> {None} \cup Job]
      /\ \A c \in CredentialIds : c > inserted => creds[c] = None
  BY DEF Types, TypeOK
<1> QED
  BY <1>1, <1>2 DEF Rows, CredentialIds, SharedRow, Private, Hidden, Contested

LEMMA LibraryBegins ==
  ASSUME Types, NEW r \in Requests, BeginSaveCredential(r) \/ BeginDeleteCredential(r)
  PROVE  Starting(r)
<1>1. CASE BeginSaveCredential(r)
  <2>1. PICK id \in {0} \cup {c \in CredentialIds : SharedRow(c)}, in \in CredentialInput :
          Begin(r, [pc |-> "library", id |-> id,
                    row |-> [kind |-> in.kind, for |-> Anyone, shared |-> TRUE, name |-> in.name]])
    BY <1>1 DEF BeginSaveCredential
  <2> DEFINE yes == TRUE
             row == [kind |-> in.kind, for |-> Anyone, shared |-> yes, name |-> in.name]
             q == [pc |-> "library", id |-> id, row |-> row]
  <2>2. in.kind \in Kinds /\ in.name \in Nat
    BY ResourcesConstants DEF CredentialInput
  <2>3. id \in 0 .. MaxCredentials /\ id <= inserted /\ ~Private(id)
    BY RowFacts DEF CredentialIds, Private, Hidden, Contested
  <2>4. yes \in BOOLEAN /\ yes
    OBVIOUS
  <2>5. Begin(r, q)
    BY <2>1
  <2> HIDE DEF yes
  <2>6. row \in Credential /\ row.shared /\ row.for = Anyone
    BY <2>2, <2>4 DEF Credential
  <2> HIDE DEF row
  <2>7. q \in LibrarySaves /\ q.pc = "library" /\ q.row = row /\ q.id = id
    BY <2>3, <2>6 DEF LibrarySaves
  <2> HIDE DEF q
  <2>8. Fresh(q)
    BY <2>3, <2>6, <2>7 DEF Fresh, States, Saving
  <2> QED
    BY <1>1, <2>5, <2>8 DEF Starting, Fresh, BeginSaveCredential, Ready, Types
<1>2. CASE BeginDeleteCredential(r)
  <2>1. PICK c \in CredentialIds : SharedRow(c) /\ Begin(r, [pc |-> "drop", id |-> c])
    BY <1>2 DEF BeginDeleteCredential
  <2> DEFINE q == [pc |-> "drop", id |-> c]
  <2>2. q \in Drops /\ q.pc = "drop" /\ q.id = c
    BY DEF Drops
  <2>3. ~Private(c) /\ c <= inserted
    BY <2>1, RowFacts
  <2>4. Begin(r, q)
    BY <2>1
  <2> HIDE DEF q
  <2>5. Fresh(q)
    BY <2>2, <2>3 DEF Fresh, States, Saving
  <2> QED
    BY <1>2, <2>4, <2>5 DEF Starting, Fresh, BeginDeleteCredential, Ready, Types
<1> QED
  BY <1>1, <1>2

LEMMA DeleteBegins ==
  ASSUME Types, NEW r \in Requests,
         \/ \E s \in Servers : BeginDeleteServer(r, s) \/ BeginDial(r, s)
         \/ \E l \in Locations : BeginDeleteRepo(r, l)
  PROVE  Starting(r)
<1>1. ASSUME NEW s \in Servers, BeginDeleteServer(r, s) PROVE Starting(r)
  <2> DEFINE q == [pc |-> "delete", x |-> s, old |-> servers[s]]
  <2>1. /\ servers[s] # None /\ Free(s) /\ ~InUse(s) /\ Begin(r, q)
        /\ contested \subseteq contested' /\ contested' \subseteq Servers
    BY <1>1 DEF BeginDeleteServer, Contest, Free, Types
  <2>2. q \in ServerDeletes /\ q.pc = "delete" /\ q.x = s /\ q.old = servers[s]
    BY <2>1, RowFacts DEF ServerDeletes
  <2> HIDE DEF q
  <2>3. IInv => Fresh(q)
    <3>1. IInv => servers[s].cred \in Rows(creds)
      BY <2>1 DEF IInv, CredentialInv, Rows, Types, TypeOK
    <3>2. IInv => q.old.cred <= inserted
      BY <2>2, <3>1, RowFacts
    <3> QED
      BY <2>1, <2>2, <3>2 DEF Fresh, States, Saving
  <2> QED
    BY <1>1, <2>1, <2>2, <2>3 DEF Starting, BeginDeleteServer, Ready, States
<1>2. ASSUME NEW s \in Servers, BeginDial(r, s) PROVE Starting(r)
  <2> DEFINE q == [pc |-> "dial", x |-> s, to |-> Endpoint(servers[s])]
  <2>1. servers[s] # None /\ Begin(r, q)
    BY <1>2 DEF BeginDial
  <2>2. servers[s] \in Server
    BY <2>1, RowFacts
  <2>3. Endpoint(servers[s]) \in Targets \X (Servers \cup {None})
    BY <2>2 DEF Endpoint, Server
  <2>4. q \in Dials /\ q.pc = "dial"
    BY <2>3 DEF Dials
  <2> HIDE DEF q
  <2>5. Fresh(q)
    BY <2>4 DEF Fresh, States, Saving
  <2> QED
    BY <1>2, <2>1, <2>5 DEF Starting, Fresh, BeginDial, Ready, Types
<1>3. ASSUME NEW l \in Locations, BeginDeleteRepo(r, l) PROVE Starting(r)
  <2> DEFINE q == [pc |-> "delete", x |-> l, old |-> repos[l]]
  <2>1. repos[l] # None /\ ~InUse(l) /\ Begin(r, q)
    BY <1>3 DEF BeginDeleteRepo
  <2>2. repos[l] \in Repo /\ l \notin Servers
    BY <2>1, IdentifiersAssumption DEF Types
  <2>3. q \in RepoDeletes /\ q.pc = "delete" /\ q.x = l
    BY <2>2 DEF RepoDeletes
  <2> HIDE DEF q
  <2>4. Fresh(q)
    BY <2>1, <2>2, <2>3 DEF Fresh, States, Saving
  <2> QED
    BY <1>3, <2>1, <2>4 DEF Starting, Fresh, BeginDeleteRepo, Ready, Types
<1> QED
  BY <1>1, <1>2, <1>3

\* The row that a server's own credential becomes.
LEMMA MergedFacts ==
  ASSUME Types, NEW s \in Servers, Free(s), NEW in \in FilledIn,
         LET own == OwnRow(servers[s])
             saved == IF own = 0 THEN None ELSE creds[own]
         IN  in.typed \/ Keeps(saved, in.kind, IF servers[s] = None THEN None ELSE servers[s].target, in.target),
         contested \subseteq contested'
  PROVE  LET own == OwnRow(servers[s])
             row == Merged(IF own = 0 THEN None ELSE creds[own], in, own)
         IN  /\ own \in 0 .. MaxCredentials
             /\ own # 0 => servers[s] # None /\ own = servers[s].cred /\ Hidden(own)
             /\ servers[s] # None /\ Private(servers[s].cred) => own = servers[s].cred
             /\ row \in Credential /\ (row.shared => row.for = Anyone)
             /\ IInv => \/ row.for \in {Anyone, in.target} \/ <<"server", s>> \in disturbed
                        \/ own # 0 /\ home[own] \in contested'
<1> DEFINE own == OwnRow(servers[s])
           saved == IF own = 0 THEN None ELSE creds[own]
           row == Merged(saved, in, own)
           for == IF in.share \/ in.kind = "key" THEN Anyone ELSE IF in.typed THEN in.target ELSE saved.for
           name == IF in.share THEN FreeSharedName(own) ELSE 0
<1>1. /\ own \in 0 .. MaxCredentials
      /\ own # 0 => servers[s] # None /\ own = servers[s].cred /\ Hidden(own)
      /\ servers[s] # None /\ Private(servers[s].cred) => own = servers[s].cred
  BY RowFacts DEF OwnRow, SharedRow, Private, Hidden, Contested, CredentialIds
<1>2. in.kind \in Kinds /\ in.share \in BOOLEAN /\ in.target \in Targets
  BY DEF FilledIn
<1>3. in.typed \/ Keeps(saved, in.kind, IF servers[s] = None THEN None ELSE servers[s].target, in.target)
  OBVIOUS
<1>4. row = [kind |-> in.kind, shared |-> in.share, for |-> for, name |-> name]
  BY DEF Merged
<1>5. own # 0 => creds[own] \in Credential
  BY <1>1, RowFacts DEF Private, Hidden, Contested
<1>6. saved = IF own = 0 THEN None ELSE creds[own]
  OBVIOUS
<1> HIDE DEF own, saved
<1>7. for \in Targets \cup {Anyone} /\ (in.share => for = Anyone)
  BY <1>2, <1>3, <1>5, <1>6 DEF Keeps, Credential
<1>8. name \in Nat
  BY <1>1, FreeName
<1>9. IInv => \/ for \in {Anyone, in.target} \/ <<"server", s>> \in disturbed
              \/ own # 0 /\ home[own] \in contested'
  <2> SUFFICES ASSUME IInv, ~in.share, in.kind # "key", ~in.typed, ~(own # 0 /\ home[own] \in contested')
               PROVE saved.for \in {Anyone, in.target} \/ <<"server", s>> \in disturbed
    OBVIOUS
  <2>1. own # 0 /\ saved = creds[own] /\ in.kind = "password"
    BY <1>2, <1>3, <1>6 DEF Keeps, Kinds
  <2>2. servers[s] # None /\ own = servers[s].cred /\ Private(own) /\ own \in CredentialIds
    BY <1>1, <2>1, RowFacts DEF Private, Hidden, Contested
  <2>3. servers[s].target = in.target
    BY <1>3, <2>1, <2>2 DEF Keeps
  <2>4. s \in Rows(servers) /\ Claims(s, own)
    BY <2>2 DEF Rows, Types, TypeOK, Claims
  <2>5. home[own] = s
    BY <2>2, <2>4 DEF IInv, ClaimInv
  <2>6. ~\E r \in Requests : Changes(r, s)
    BY <2>1, <2>5 DEF Free
  <2> QED
    BY <2>1, <2>2, <2>3, <2>4, <2>6 DEF PasswordInv, IInv
<1> HIDE DEF for, name
<1>10. row \in Credential /\ row.shared = in.share /\ row.for = for
  BY <1>2, <1>4, <1>7, <1>8 DEF Credential
<1> HIDE DEF row
<1> QED
  BY <1>1, <1>7, <1>9, <1>10 DEF own, saved, row

LEMMA ServerBegins ==
  ASSUME Types, NEW r \in Requests, NEW s \in Servers, BeginSaveServer(r, s)
  PROVE  Starting(r)
<1> DEFINE old == servers[s]
           own == OwnRow(old)
           saved == IF own = 0 THEN None ELSE creds[own]
           Hop(in) == in.jump \in {None} \cup (Rows(servers) \ {s})
           Plan(pc, in, id, row) ==
             [pc |-> pc, x |-> s, old |-> old, id |-> id, row |-> row,
              new |-> [target |-> in.target, jump |-> in.jump, cred |-> id]]
<1>1. /\ Ready(r) /\ Free(s) /\ contested \subseteq contested' /\ contested' \subseteq Servers
      /\ \/ \E in \in Referring :
              Hop(in) /\ MaySelect(in.cred) /\ Begin(r, Plan("server", in, in.cred, None))
         \/ \E in \in FilledIn :
              /\ Hop(in)
              /\ in.typed \/ Keeps(saved, in.kind, IF old = None THEN None ELSE old.target, in.target)
              /\ Begin(r, Plan("credential", in, own, Merged(saved, in, own)))
  BY DEF BeginSaveServer, Contest, Free, Types
<1>2. old \in Server \cup {None} /\ (IInv /\ old # None => old.cred <= inserted)
  BY RowFacts DEF Types, TypeOK, CredentialInv, Rows, IInv, IInv
<1>3. ASSUME NEW in \in Referring, MaySelect(in.cred), Begin(r, Plan("server", in, in.cred, None))
      PROVE  Starting(r)
  <2> DEFINE q == Plan("server", in, in.cred, None)
  <2>1. /\ in.cred \in 1 .. inserted /\ in.cred \in 0 .. MaxCredentials /\ ~Private(in.cred)
    BY <1>1, <1>3, RowFacts DEF MaySelect, CredentialIds
  <2> DEFINE new == [target |-> in.target, jump |-> in.jump, cred |-> in.cred]
  <2>2. new \in [target : Targets, jump : Servers \cup {None}, cred : 0 .. MaxCredentials]
        /\ new.cred = in.cred
    BY <2>1 DEF Referring
  <2>3. q = [pc |-> "server", x |-> s, old |-> old, id |-> in.cred, row |-> None, new |-> new]
    OBVIOUS
  <2>4. Begin(r, q)
    BY <1>3
  <2> HIDE DEF old, new
  <2>5. q \in Plans /\ q.pc = "server" /\ q.x = s /\ q.old = old /\ q.row = None /\ q.new.cred = in.cred
    BY <1>2, <2>1, <2>2, <2>3 DEF Plans
  <2> HIDE DEF q
  <2>6. IInv => PlanRest(q) /\ Typed(q, contested')
    BY <1>2, <2>1, <2>5 DEF PlanRest, Typed
  <2>7. IInv => Fresh(q)
    BY <1>1, <2>5, <2>6 DEF Fresh, States, Saving, old
  <2> QED
    BY <1>1, <2>4, <2>5, <2>7 DEF Starting, Ready, States
<1>4. ASSUME NEW in \in FilledIn,
             in.typed \/ Keeps(saved, in.kind, IF old = None THEN None ELSE old.target, in.target),
             Begin(r, Plan("credential", in, own, Merged(saved, in, own)))
      PROVE  Starting(r)
  <2> DEFINE row == Merged(saved, in, own)
             new == [target |-> in.target, jump |-> in.jump, cred |-> own]
             q == Plan("credential", in, own, row)
  <2>1. /\ own \in 0 .. MaxCredentials
        /\ own # 0 => old # None /\ own = old.cred /\ Hidden(own)
        /\ old # None /\ Private(old.cred) => own = old.cred
        /\ row \in Credential /\ (row.shared => row.for = Anyone)
        /\ IInv => \/ row.for \in {Anyone, in.target} \/ <<"server", s>> \in disturbed
                   \/ own # 0 /\ home[own] \in contested'
    BY <1>1, <1>4, MergedFacts
  <2>2. row # None
    BY <2>1, IdentifiersAssumption
  <2>3. q = [pc |-> "credential", x |-> s, old |-> old, id |-> own, row |-> row, new |-> new]
    OBVIOUS
  <2>4. Begin(r, q)
    BY <1>4
  <2> HIDE DEF row, own, old
  <2>5. new \in [target : Targets, jump : Servers \cup {None}, cred : 0 .. MaxCredentials]
        /\ new.cred = own /\ new.target = in.target
    BY <2>1 DEF FilledIn
  <2> HIDE DEF new
  <2>6. /\ q \in Plans /\ q.pc = "credential" /\ q.x = s /\ q.old = old /\ q.row = row /\ q.id = own
        /\ q.new = new
    BY <1>2, <2>1, <2>2, <2>3, <2>5 DEF Plans
  <2> HIDE DEF q
  <2>7. IInv => PlanRest(q) /\ Typed(q, contested')
    BY <1>2, <2>1, <2>2, <2>5, <2>6 DEF PlanRest, Typed, Private
  <2>8. IInv => Fresh(q)
    BY <1>1, <2>6, <2>7 DEF Fresh, States, Saving, old
  <2> QED
    BY <1>1, <2>4, <2>6, <2>8 DEF Starting, Ready, States
<1> QED
  BY <1>1, <1>3, <1>4

LEMMA RepoBegins ==
  ASSUME Types, NEW r \in Requests, NEW l \in Locations, BeginSaveRepo(r, l)
  PROVE  Starting(r)
<1>1. IInv => \A k \in Rows(repos) : repos[k].pw \in {None, Via(repos[k])}
  BY DEF IInv, StoredInv
<1>2. PICK in \in RepoParams :
        /\ in.input = "keep" => MayKeep(repos[l], Via(repos[l]), Via(in))
        /\ Begin(r, [pc |-> "repo", x |-> l, old |-> repos[l],
                     new |-> [server |-> in.server, target |-> in.target,
                              pw |-> Password(repos[l], Via(in), in.input)]])
  BY DEF BeginSaveRepo
<1> DEFINE pw == Password(repos[l], Via(in), in.input)
           new == [server |-> in.server, target |-> in.target, pw |-> pw]
           q == [pc |-> "repo", x |-> l, old |-> repos[l], new |-> new]
<1>3. in.server \in Servers \cup {None} /\ in.target \in Targets /\ in.input \in PasswordInputs /\ in # None
  BY IdentifiersAssumption DEF RepoParams
<1>4. Via(in) = <<in.server, in.target>>
  BY <1>3 DEF Via
<1>5. repos[l] \in Repo \cup {None} /\ (repos[l] # None => l \in Rows(repos))
  BY DEF Types, Rows
<1>6. pw \in Passwords /\ (IInv => pw \in {None, <<in.server, in.target>>})
  <2>1. CASE in.input = "keep"
    <3>1. pw = repos[l].pw /\ repos[l] # None /\ Via(repos[l]) = Via(in)
      BY <1>2, <2>1 DEF Password, MayKeep
    <3> QED
      BY <1>1, <1>4, <1>5, <3>1 DEF Repo, Job
  <2>2. CASE in.input \in {"none", "typed"}
    BY <1>3, <1>4, <2>2 DEF Password, Passwords
  <2> QED
    BY <1>3, <2>1, <2>2 DEF PasswordInputs
<1>7. Begin(r, q)
  BY <1>2
<1> HIDE DEF pw
<1>8. new \in Repo /\ new.server = in.server /\ new.target = in.target /\ new.pw = pw
  BY <1>3, <1>6 DEF Repo
<1>9. new # None
  BY <1>8, IdentifiersAssumption
<1> HIDE DEF new
<1>10. Via(new) = <<in.server, in.target>>
  BY <1>8, <1>9 DEF Via
<1>11. q \in RepoSaves /\ q.pc = "repo" /\ q.new = new
  BY <1>5, <1>8 DEF RepoSaves
<1> HIDE DEF q
<1>12. IInv => Fresh(q)
  BY <1>6, <1>8, <1>10, <1>11 DEF Fresh, States, Saving
<1> QED
  BY <1>7, <1>11, <1>12 DEF Starting, BeginSaveRepo, Ready, States, Types

LEMMA JobBegins ==
  ASSUME Types, NEW r \in Requests, NEW j \in Jobs, BeginSaveJob(r, j)
  PROVE  Starting(r)
<1>1. IInv => \A k \in Rows(jobs) : jobs[k].pw \in {None, Via(jobs[k])}
  BY DEF IInv, StoredInv
<1>2. PICK in \in JobInput, paused \in BOOLEAN :
        /\ in.input = "keep" => MayKeep(jobs[j], Via(jobs[j]), Via(in))
        /\ Begin(r, [pc |-> "job", x |-> j, old |-> jobs[j],
                     new |-> [server |-> in.server, repo |-> in.repo, target |-> in.target,
                              paused |-> paused, pw |-> Password(jobs[j], Via(in), in.input)]])
  BY DEF BeginSaveJob
<1> DEFINE pw == Password(jobs[j], Via(in), in.input)
           new == [server |-> in.server, repo |-> in.repo, target |-> in.target, paused |-> paused, pw |-> pw]
           q == [pc |-> "job", x |-> j, old |-> jobs[j], new |-> new]
<1>3. /\ in.server \in Servers \cup {None} /\ in.repo \in Locations /\ in.target \in Targets
      /\ in.input \in PasswordInputs /\ in # None
  BY IdentifiersAssumption DEF JobInput
<1>4. Via(in) = <<in.server, in.target>>
  BY <1>3 DEF Via
<1>5. jobs[j] \in Job \cup {None} /\ (jobs[j] # None => j \in Rows(jobs))
  BY DEF Types, Rows
<1>6. pw \in Passwords /\ (IInv => pw \in {None, <<in.server, in.target>>})
  <2>1. CASE in.input = "keep"
    <3>1. pw = jobs[j].pw /\ jobs[j] # None /\ Via(jobs[j]) = Via(in)
      BY <1>2, <2>1 DEF Password, MayKeep
    <3> QED
      BY <1>1, <1>4, <1>5, <3>1 DEF Repo, Job
  <2>2. CASE in.input \in {"none", "typed"}
    BY <1>3, <1>4, <2>2 DEF Password, Passwords
  <2> QED
    BY <1>3, <2>1, <2>2 DEF PasswordInputs
<1>7. Begin(r, q)
  BY <1>2
<1> HIDE DEF pw
<1>8. new \in Job /\ new.server = in.server /\ new.target = in.target /\ new.pw = pw
  BY <1>3, <1>6 DEF Job
<1>9. new # None
  BY <1>8, IdentifiersAssumption
<1> HIDE DEF new
<1>10. Via(new) = <<in.server, in.target>>
  BY <1>8, <1>9 DEF Via
<1>11. q \in JobSaves /\ q.pc = "job" /\ q.new = new
  BY <1>5, <1>8 DEF JobSaves
<1> HIDE DEF q
<1>12. IInv => Fresh(q)
  BY <1>6, <1>8, <1>10, <1>11 DEF Fresh, States, Saving
<1> QED
  BY <1>7, <1>11, <1>12 DEF Starting, BeginSaveJob, Ready, States, Types

LEMMA CopyBegins ==
  ASSUME Types, NEW r \in Requests, NEW j \in Jobs, NEW copy \in Jobs, BeginDuplicate(r, j, copy)
  PROVE  Starting(r)
<1> DEFINE yes == TRUE
           new == [jobs[j] EXCEPT !.paused = yes]
           q == [pc |-> "job", x |-> copy, old |-> None, new |-> new]
<1>1. yes \in BOOLEAN /\ Begin(r, q) /\ jobs[j] # None
  BY DEF BeginDuplicate
<1>2. jobs[j] \in Job /\ (IInv => jobs[j].pw \in {None, Via(jobs[j])})
  BY <1>1, RowFacts DEF IInv, StoredInv, Types, Rows
<1> HIDE DEF yes
<1>3. /\ new \in Job /\ new.pw = jobs[j].pw /\ new.server = jobs[j].server /\ new.target = jobs[j].target
  BY <1>1, <1>2 DEF Job
<1>4. new # None
  BY <1>3, IdentifiersAssumption
<1> HIDE DEF new
<1>5. Via(new) = Via(jobs[j])
  BY <1>1, <1>3, <1>4 DEF Via
<1>6. q \in JobSaves /\ q.pc = "job" /\ q.new = new
  BY <1>3 DEF JobSaves
<1> HIDE DEF q
<1>7. IInv => Fresh(q)
  BY <1>2, <1>3, <1>5, <1>6 DEF Fresh, States, Saving
<1> QED
  BY <1>1, <1>6, <1>7 DEF Starting, BeginDuplicate, Ready, States, Types

LEMMA Begins ==
  ASSUME Types, NEW r \in Requests,
         \/ BeginSaveCredential(r) \/ BeginDeleteCredential(r)
         \/ \E s \in Servers : BeginSaveServer(r, s) \/ BeginDeleteServer(r, s) \/ BeginDial(r, s)
         \/ \E l \in Locations : BeginSaveRepo(r, l) \/ BeginDeleteRepo(r, l)
         \/ \E j \in Jobs : BeginSaveJob(r, j) \/ \E copy \in Jobs : BeginDuplicate(r, j, copy)
  PROVE  Starting(r)
  BY LibraryBegins, DeleteBegins, ServerBegins, RepoBegins, JobBegins, CopyBegins

\* A request that begins changes nothing but itself.
LEMMA StartTypes == ASSUME Types, NEW r \in Requests, Starting(r) PROVE Types'
<1>1. PICK q \in States : Begin(r, q) /\ begun < MaxRequests
  BY DEF Starting
<1>2. /\ req' = [req EXCEPT ![r] = q] /\ begun' = begun + 1 /\ UNCHANGED <<rowVars, home>>
      /\ contested' \subseteq Servers
  BY <1>1 DEF Begin, Starting
<1>3. begun' \in 0 .. MaxRequests
  BY <1>1, <1>2, ResourcesConstants DEF Types, TypeOK
<1> QED
  BY <1>2, <1>3, NewForm DEF Types, TypeOK, Rows, rowVars

LEMMA StartDangles == ASSUME Types, DangleInv, NEW r \in Requests, Starting(r) PROVE DangleInv'
<1>1. PICK q \in States : Begin(r, q) /\ (q.pc = "delete" => ~InUse(q.x))
  BY DEF Starting
<1>2. req' = [req EXCEPT ![r] = q] /\ UNCHANGED <<servers, repos, jobs, excused>>
  BY <1>1 DEF Begin, rowVars
<1>3. NothingDangles'
  BY <1>2 DEF DangleInv, NothingDangles, Rows
<1>4. ASSUME NEW p \in Requests, At(p, "delete")'
      PROVE  (/\ \A s \in Rows(servers) \ excused : s # req[p].x => servers[s].jump # req[p].x
              /\ \A l \in Rows(repos) \ excused : repos[l].server # req[p].x
              /\ \A j \in Rows(jobs) \ excused : jobs[j].server # req[p].x /\ jobs[j].repo # req[p].x)'
  <2>1. CASE p = r
    BY <1>1, <1>2, <1>4, <2>1, NewForm DEF At, InUse, Rows
  <2>2. CASE p # r
    BY <1>2, <1>4, <2>2, NewForm DEF DangleInv, At, Rows
  <2> QED
    BY <2>1, <2>2
<1> QED
  BY <1>3, <1>4 DEF DangleInv

LEMMA StartKept ==
  ASSUME IInv, NEW r \in Requests, Starting(r)
  PROVE  IInv'
<1>1. Types' /\ Types
  BY StartTypes DEF IInv
<1>2. PICK q \in States : Begin(r, q) /\ At(r, "idle") /\ Fresh(q)
  BY DEF Starting, IInv
<1>3. /\ req'[r] = q /\ \A p \in Requests : p # r => req'[p] = req[p]
      /\ UNCHANGED <<creds, inserted, servers, repos, jobs, home, disturbed>>
      /\ contested \subseteq contested'
  BY <1>1, <1>2, NewForm DEF Begin, rowVars, Starting
<1>4. \A c : /\ Private(c)' => Private(c)
             /\ Private(c) /\ ~Contested(c)' => Private(c)'
             /\ Contested(c) => Contested(c)'
             /\ SharedRow(c)' <=> SharedRow(c)
  BY <1>3 DEF Private, Hidden, Contested, SharedRow, Rows
<1>5. CredentialInv'
  BY <1>2, <1>3, <1>4 DEF IInv, CredentialInv, Fresh, At, Rows, Removing
<1>6. PlanInv'
  <2> SUFFICES ASSUME NEW p \in Requests, Planning(p)' PROVE PlanOK(req[p])'
    BY DEF PlanInv
  <2>1. CASE p # r
    <3>1. Planning(p) /\ req'[p] = req[p]
      BY <1>3, <2>1 DEF Planning
    <3>2. PlanOK(req[p])
      BY <3>1 DEF IInv, PlanInv
    <3> QED
      BY <1>3, <1>4, <3>1, <3>2 DEF PlanOK, PlanRest, Typed
  <2>2. CASE p = r
    <3>1. q.pc \in Saving
      BY <1>3, <2>2 DEF Planning, Saving
    <3>2. PlanRest(q) /\ Typed(q, contested')
      BY <1>2, <3>1 DEF Fresh
    <3> QED
      BY <1>3, <1>4, <2>2, <3>2 DEF PlanOK, PlanRest, Typed
  <2> QED
    BY <2>1, <2>2
<1>7. \A p \in Requests, s \in Servers : Changes(p, s)' =>
        IF p = r THEN /\ q.pc \in {"credential", "server", "delete"} /\ q.x = s /\ q.old = servers[s]
                      /\ s \in contested' \/ \A o \in Requests : ~Changes(o, s)
        ELSE Changes(p, s)
  BY <1>2, <1>3 DEF Changes, At, Fresh, Free, Saving
<1>8. EditInv'
  BY <1>3, <1>7 DEF IInv, EditInv, At
<1>9. \A s \in Servers, c \in CredentialIds : Claims(s, c)' => Claims(s, c)
  <2> SUFFICES ASSUME NEW s \in Servers, NEW c \in CredentialIds, Claims(s, c)' PROVE Claims(s, c)
    OBVIOUS
  <2>1. CASE servers'[s] # None /\ servers'[s].cred = c
    BY <1>3, <2>1 DEF Claims
  <2>2. ASSUME NEW p \in Requests, Changes(p, s)', req'[p].pc = "server", req'[p].row # None, req'[p].new.cred = c
        PROVE  Claims(s, c)
    BY <1>2, <1>3, <1>7, <2>2 DEF Claims, Fresh, At
  <2>3. ASSUME NEW p \in Requests, Changes(p, s)', req'[p].old # None, req'[p].old.cred = c
        PROVE  Claims(s, c)
    BY <1>2, <1>3, <1>7, <2>3 DEF Claims
  <2> QED
    BY <2>1, <2>2, <2>3 DEF Claims, At
<1>10. ClaimInv'
  BY <1>3, <1>4, <1>9 DEF IInv, ClaimInv
<1>11. ASSUME NEW c \in CredentialIds, NEW p \in Requests, ChangedBy(p, c) PROVE ChangedBy(p, c)'
  <2>1. p # r
    BY <1>2, <1>11 DEF ChangedBy, At
  <2> QED
    BY <1>3, <1>11, <2>1 DEF ChangedBy, At, OwnRow, SharedRow, Rows
<1>12. OwnerInv'
  BY <1>3, <1>4, <1>11 DEF IInv, OwnerInv, Rows
<1>13. PasswordInv'
  <2>1. ASSUME NEW s \in Servers, NEW p \in Requests, Changes(p, s) /\ At(p, "server") /\ req[p].row # None /\ req[p].id # 0
        PROVE (Changes(p, s) /\ At(p, "server") /\ req[p].row # None /\ req[p].id # 0)'
    <3>1. p # r
      BY <1>2, <2>1 DEF At
    <3> QED
      BY <1>3, <2>1, <3>1 DEF At, Changes
  <2>2. \A s \in Rows(servers)' : s \in Rows(servers) /\ s \in Servers
    BY <1>1, <1>3, RowFacts DEF Rows
  <2> QED
    BY <1>2, <1>3, <1>4, <2>1, <2>2 DEF IInv, PasswordInv, Rows
<1>14. StoredInv'
  BY <1>2, <1>3 DEF IInv, StoredInv, Fresh, Rows, Via
<1> QED
  BY <1>1, <1>5, <1>6, <1>8, <1>10, <1>12, <1>13, <1>14 DEF IInv

-----------------------------------------------------------------------------
(* Types, through the other steps of a request. *)

LEMMA Ended ==
  ASSUME Types, NEW r \in Requests, Done(r)
  PROVE  req' \in [Requests -> States] /\ req'[r] = Idle /\ \A p \in Requests : p # r => req'[p] = req[p]
<1>1. Idle \in States
  BY DEF Idle, States, Rest
<1> QED
  BY <1>1, NewForm DEF Done

\* A request that goes on keeps everything but its place.
LEMMA Went ==
  ASSUME Types, NEW r \in Requests, NEW pc, Goto(r, pc),
         \/ Planning(r) /\ pc \in {"cleanup", "status"}
         \/ req[r] \in ServerDeletes /\ pc = "dropOwn"
  PROVE  /\ req' \in [Requests -> States] /\ \A p \in Requests : p # r => req'[p] = req[p]
         /\ req'[r] = [req[r] EXCEPT !.pc = pc] /\ req'[r].pc = pc
<1> DEFINE q == [req[r] EXCEPT !.pc = pc]
<1>1. req' = [req EXCEPT ![r] = q]
  BY DEF Goto
<1>2. q \in States /\ q.pc = pc
  <2>1. CASE Planning(r) /\ pc \in {"cleanup", "status"}
    <3>1. req[r] \in Plans
      BY <2>1, Forms
    <3>2. q \in Plans /\ q.pc = pc
      BY <2>1, <3>1 DEF Plans
    <3> QED
      BY <3>2 DEF States
  <2>2. CASE req[r] \in ServerDeletes /\ pc = "dropOwn"
    <3>1. q \in ServerDeletes /\ q.pc = pc
      BY <2>2 DEF ServerDeletes
    <3> QED
      BY <3>1 DEF States
  <2> QED
    BY <2>1, <2>2
<1> HIDE DEF q
<1>3. req' \in [Requests -> States] /\ req'[r] = q /\ \A p \in Requests : p # r => req'[p] = req[p]
  BY <1>1, <1>2, NewForm
<1> QED
  BY <1>2, <1>3 DEF q

\* Writing a row of a credential, and deleting one.
LEMMA PutTypes ==
  ASSUME Types, NEW id \in 0 .. MaxCredentials, NEW row \in Credential, NEW x \in Servers \cup {None},
         PutCredential(id, row, x)
  PROVE  /\ creds' \in [CredentialIds -> {None} \cup Credential] /\ inserted' \in 0 .. MaxCredentials
         /\ \A c \in CredentialIds : c > inserted' => creds'[c] = None
         /\ inserted <= inserted'
         /\ id = 0 => inserted' = inserted + 1 /\ inserted' \in CredentialIds /\ creds'[inserted'] = row
         /\ id # 0 => inserted' = inserted /\ id \in CredentialIds /\ (creds[id] # None => creds'[id] = row)
         /\ \A c \in CredentialIds : c # (IF id = 0 THEN inserted + 1 ELSE id) => creds'[c] = creds[c]
         /\ home' \in [CredentialIds -> Servers \cup {None}]
         /\ IF id = 0 THEN home'[inserted + 1] = x ELSE home' = home
         /\ \A c \in CredentialIds : c # inserted + 1 => home'[c] = home[c]
<1>1. /\ creds \in [CredentialIds -> {None} \cup Credential] /\ inserted \in 0 .. MaxCredentials
      /\ \A c \in CredentialIds : c > inserted => creds[c] = None
      /\ MaxCredentials \in Nat /\ home \in [CredentialIds -> Servers \cup {None}]
  BY ResourcesConstants DEF Types, TypeOK
<1>2. CASE id = 0
  <2>1. /\ inserted + 1 \in CredentialIds /\ inserted' = inserted + 1 /\ creds' = [creds EXCEPT ![inserted + 1] = row]
        /\ home' = [home EXCEPT ![inserted + 1] = x]
    BY <1>1, <1>2 DEF PutCredential, CredentialIds
  <2> QED
    BY <1>1, <1>2, <2>1 DEF CredentialIds
<1>3. CASE id # 0
  <2>1. /\ id \in CredentialIds /\ inserted' = inserted /\ home' = home
        /\ creds' = IF creds[id] = None THEN creds ELSE [creds EXCEPT ![id] = row]
    BY <1>1, <1>3 DEF PutCredential, CredentialIds
  <2> QED
    BY <1>1, <1>3, <2>1 DEF CredentialIds
<1> QED
  BY <1>2, <1>3

LEMMA WithoutTypes ==
  ASSUME Types, NEW c, creds' = Without(c) \/ creds' = creds
  PROVE  /\ creds' \in [CredentialIds -> {None} \cup Credential]
         /\ \A d \in CredentialIds : creds'[d] = creds[d] \/ (d = c /\ creds'[d] = None /\ UsedBy(c) = {})
  BY DEF Without, Types, TypeOK

\* What a request that has stored the credential of a server goes on with.
LEMMA Persisted ==
  ASSUME Types, NEW r \in Requests, PersistCredential(r),
         ~(req[r].row.shared /\ Taken(req[r].row.name, req[r].id))
  PROVE  /\ req' \in [Requests -> States] /\ \A p \in Requests : p # r => req'[p] = req[p]
         /\ PutCredential(req[r].id, req[r].row, req[r].x) /\ req[r].x \in Servers /\ req[r].row \in Credential /\ req[r].id \in 0 .. MaxCredentials
         /\ req'[r] \in Plans /\ req'[r].pc = "server" /\ req'[r].x = req[r].x /\ req'[r].old = req[r].old
         /\ req'[r].id = req[r].id /\ req'[r].row = req[r].row
         /\ req'[r].new.target = req[r].new.target
         /\ req'[r].new.cred = IF req[r].id = 0 THEN inserted + 1 ELSE req[r].new.cred
<1> DEFINE k == IF req[r].id = 0 THEN inserted + 1 ELSE req[r].new.cred
           new == [req[r].new EXCEPT !.cred = k]
           q == [req[r] EXCEPT !.pc = "server", !.new = new]
<1>1. req[r] \in Plans
  BY Forms DEF PersistCredential, At, Planning
<1>2. /\ PutCredential(req[r].id, req[r].row, req[r].x)
      /\ req' = [req EXCEPT ![r].pc = "server", ![r].new.cred = IF req[r].id = 0 THEN inserted + 1 ELSE @]
  BY DEF PersistCredential
<1>3. /\ req[r].id \in 0 .. MaxCredentials /\ req[r].row \in Credential /\ req[r].x \in Servers
      /\ req[r].new \in [target : Targets, jump : Servers \cup {None}, cred : 0 .. MaxCredentials]
  BY <1>1 DEF Plans, PersistCredential, At
<1>4. k \in 0 .. MaxCredentials
  BY <1>2, <1>3, RowFacts DEF PutCredential
<1>5. req \in [Requests -> States]
  BY DEF Types
<1>6. req' = [req EXCEPT ![r] = q]
  BY <1>2, <1>5
<1> HIDE DEF k
<1>7. new \in [target : Targets, jump : Servers \cup {None}, cred : 0 .. MaxCredentials]
      /\ new.target = req[r].new.target /\ new.cred = k
  BY <1>3, <1>4
<1> HIDE DEF new
<1>8. /\ q \in Plans /\ q.pc = "server" /\ q.x = req[r].x /\ q.old = req[r].old
      /\ q.id = req[r].id /\ q.row = req[r].row /\ q.new = new
  BY <1>1, <1>7 DEF Plans
<1> HIDE DEF q
<1>9. req' \in [Requests -> States] /\ req'[r] = q /\ \A p \in Requests : p # r => req'[p] = req[p]
  BY <1>6, <1>8, NewForm DEF States
<1> QED
  BY <1>2, <1>3, <1>7, <1>8, <1>9 DEF k

LEMMA CredentialTypes ==
  ASSUME Types, NEW r \in Requests,
         \/ WriteCredential(r) \/ DropCredential(r) \/ PersistCredential(r)
         \/ DeleteOrphan(r) \/ DeletePrivateCredential(r)
  PROVE  Types'
<1>1. /\ creds' \in [CredentialIds -> {None} \cup Credential] /\ inserted' \in 0 .. MaxCredentials
      /\ \A c \in CredentialIds : c > inserted' => creds'[c] = None
      /\ req' \in [Requests -> States] /\ home' \in [CredentialIds -> Servers \cup {None}]
  <2>1. /\ home \in [CredentialIds -> Servers \cup {None}] /\ creds \in [CredentialIds -> {None} \cup Credential] /\ inserted \in 0 .. MaxCredentials
        /\ \A c \in CredentialIds : c > inserted => creds[c] = None
    BY DEF Types, TypeOK
  <2>2. CASE WriteCredential(r)
    <3>1. req[r].id \in 0 .. MaxCredentials /\ req[r].row \in Credential
      BY <2>2, Forms DEF WriteCredential, LibrarySaves
    <3>2. \/ UNCHANGED <<creds, inserted, home>>
          \/ PutCredential(req[r].id, req[r].row, None)
      BY <2>2 DEF WriteCredential
    <3> QED
      BY <2>1, <2>2, <3>1, <3>2, PutTypes, Ended DEF WriteCredential
  <2>3. CASE DropCredential(r)
    BY <2>1, <2>3, WithoutTypes, Ended DEF DropCredential, editVars
  <2>4. CASE PersistCredential(r)
    <3>1. CASE req[r].row.shared /\ Taken(req[r].row.name, req[r].id)
      BY <2>1, <2>4, <3>1, Ended DEF PersistCredential
    <3>2. CASE ~(req[r].row.shared /\ Taken(req[r].row.name, req[r].id))
      <4>1. /\ req' \in [Requests -> States] /\ req[r].x \in Servers
            /\ PutCredential(req[r].id, req[r].row, req[r].x) /\ req[r].row \in Credential /\ req[r].id \in 0 .. MaxCredentials
        BY <2>4, <3>2, Persisted
      <4> QED
        BY <4>1, PutTypes
    <3> QED
      BY <3>1, <3>2
  <2>5. CASE DeleteOrphan(r)
    <3>1. req' \in [Requests -> States]
      <4>1. Planning(r)
        BY <2>5 DEF DeleteOrphan, At, Planning
      <4>2. Done(r) \/ Goto(r, "status")
        BY <2>5 DEF DeleteOrphan
      <4> QED
        BY <4>1, <4>2, Ended, Went
    <3>2. (creds' = Without(Orphan(r)) \/ creds' = creds) /\ inserted' = inserted /\ home' = home
      BY <2>5 DEF DeleteOrphan, editVars
    <3> QED
      BY <2>1, <3>1, <3>2, WithoutTypes
  <2>6. CASE DeletePrivateCredential(r)
    <3>1. (creds' = Without(OwnRow(req[r].old)) \/ creds' = creds) /\ inserted' = inserted /\ home' = home /\ Done(r)
      BY <2>6 DEF DeletePrivateCredential, editVars
    <3> QED
      BY <2>1, <3>1, WithoutTypes, Ended
  <2> QED
    BY <2>2, <2>3, <2>4, <2>5, <2>6
<1>2. UNCHANGED <<servers, repos, jobs, begun, contested>>
  BY DEF WriteCredential, DropCredential, PersistCredential, DeleteOrphan, DeletePrivateCredential, editVars
<1> QED
  BY <1>1, <1>2 DEF Types, TypeOK, Rows

\* What a request that writes its row puts there.
LEMMA WriteTypes ==
  ASSUME Types, NEW r \in Requests,
         \/ WriteServer(r) \/ DeleteServer(r) \/ ResetStatus(r) \/ RecordCheck(r)
         \/ WriteRepo(r) \/ DeleteRepo(r) \/ WriteJob(r) \/ BreakOff(r)
  PROVE  Types'
<1>1. UNCHANGED <<creds, inserted, begun, home, contested>>
  BY DEF WriteServer, DeleteServer, ResetStatus, RecordCheck, WriteRepo, DeleteRepo, WriteJob, BreakOff, rowVars, editVars
<1>2. req' \in [Requests -> States]
  <2>1. CASE WriteServer(r)
    <3>1. Planning(r)
      BY <2>1 DEF WriteServer, At, Planning
    <3>2. Done(r) \/ Goto(r, "cleanup")
      BY <2>1 DEF WriteServer
    <3> QED
      BY <3>1, <3>2, Ended, Went
  <2>2. CASE DeleteServer(r)
    <3>1. req[r] \in ServerDeletes \cup RepoDeletes /\ req[r].x \in Servers
      BY <2>2, Forms DEF DeleteServer
    <3>2. req[r] \in ServerDeletes
      BY <3>1, IdentifiersAssumption DEF RepoDeletes
    <3> QED
      BY <2>2, <3>2, Went DEF DeleteServer
  <2>3. CASE Done(r)
    BY <2>3, Ended
  <2> QED
    BY <2>1, <2>2, <2>3 DEF ResetStatus, RecordCheck, WriteRepo, DeleteRepo, WriteJob, BreakOff
<1>3. servers' \in [Servers -> {None} \cup Server]
  <2>1. CASE WriteServer(r)
    <3>1. req[r] \in Plans
      BY <2>1, Forms DEF WriteServer, At, Planning
    <3>2. \/ servers' = servers
          \/ servers' = [servers EXCEPT ![req[r].x] = req[r].new] /\ req[r].new.cred \in Rows(creds)
      BY <2>1 DEF WriteServer
    <3>3. req[r].new.cred \in Rows(creds) => req[r].new \in Server
      BY <3>1, RowFacts DEF Plans, Server
    <3> QED
      BY <3>1, <3>2, <3>3 DEF Types, TypeOK, Plans
  <2>2. CASE ~WriteServer(r)
    BY <2>2 DEF Types, TypeOK, DeleteServer, ResetStatus, RecordCheck, WriteRepo, DeleteRepo, WriteJob, BreakOff, rowVars
  <2> QED
    BY <2>1, <2>2
<1>4. repos' \in [Locations -> {None} \cup Repo]
  <2>1. CASE WriteRepo(r)
    <3>1. req[r] \in RepoSaves
      BY <2>1, Forms DEF WriteRepo
    <3>2. repos' = repos \/ repos' = [repos EXCEPT ![req[r].x] = req[r].new]
      BY <2>1 DEF WriteRepo
    <3> QED
      BY <3>1, <3>2 DEF Types, RepoSaves
  <2>2. CASE ~WriteRepo(r)
    BY <2>2 DEF Types, WriteServer, DeleteServer, ResetStatus, RecordCheck, DeleteRepo, WriteJob, BreakOff, rowVars
  <2> QED
    BY <2>1, <2>2
<1>5. jobs' \in [Jobs -> {None} \cup Job]
  <2>1. CASE WriteJob(r)
    <3>1. req[r] \in JobSaves
      BY <2>1, Forms DEF WriteJob
    <3>2. jobs' = jobs \/ jobs' = [jobs EXCEPT ![req[r].x] = Updated(jobs[req[r].x], req[r].new)]
      BY <2>1 DEF WriteJob
    <3>3. Updated(jobs[req[r].x], req[r].new) \in Job
      <4>1. req[r].x \in Jobs /\ req[r].new \in Job /\ jobs[req[r].x] \in {None} \cup Job
        BY <3>1 DEF Types, JobSaves
      <4> QED
        BY <4>1 DEF Updated, Job
    <3> QED
      BY <3>1, <3>2, <3>3 DEF Types
  <2>2. CASE ~WriteJob(r)
    BY <2>2 DEF Types, WriteServer, DeleteServer, ResetStatus, RecordCheck, WriteRepo, DeleteRepo, BreakOff, rowVars
  <2> QED
    BY <2>1, <2>2
<1> QED
  BY <1>1, <1>2, <1>3, <1>4, <1>5 DEF Types, TypeOK, Rows

LEMMA JobTypes ==
  ASSUME Types, NEW j \in Jobs, DeleteJob(j) \/ SetPaused(j)
  PROVE  Types'
<1>1. jobs[j] \in Job
  BY DEF Types, DeleteJob, SetPaused
<1>2. jobs' \in [Jobs -> {None} \cup Job]
  <2>1. CASE DeleteJob(j)
    BY <2>1 DEF Types, DeleteJob
  <2>2. CASE SetPaused(j)
    <3> DEFINE job == [jobs[j] EXCEPT !.paused = ~jobs[j].paused]
    <3>1. jobs' = [jobs EXCEPT ![j] = job]
      BY <2>2 DEF SetPaused
    <3>2. job \in Job
      BY <1>1 DEF Job
    <3> HIDE DEF job
    <3> QED
      BY <3>1, <3>2 DEF Types
  <2> QED
    BY <2>1, <2>2
<1>3. begun' \in 0 .. MaxRequests /\ UNCHANGED <<creds, inserted, servers, repos, req, home, contested>>
  BY ResourcesConstants DEF DeleteJob, SetPaused, Types, TypeOK, editVars
<1> QED
  BY <1>2, <1>3 DEF Types, TypeOK, Rows

\* Every step keeps the types.
LEMMA TypesKept == ASSUME Types, [Next]_vars PROVE Types'
<1>1. ASSUME NEW r \in Requests, Starting(r) PROVE Types'
  BY <1>1, StartTypes
<1>2. CASE UNCHANGED vars
  BY <1>2 DEF Types, TypeOK, Rows, vars, rowVars, editVars
<1> QED
  BY <1>1, <1>2, Begins, CredentialTypes, WriteTypes, JobTypes DEF Next

-----------------------------------------------------------------------------
(* What was deleted is not referred to. *)

\* A step that changes none of the three tables and begins no deletion.
LEMMA DanglesFrame ==
  ASSUME DangleInv, UNCHANGED <<servers, repos, jobs, excused>>,
         \A p \in Requests : At(p, "delete")' => At(p, "delete") /\ req'[p] = req[p]
  PROVE  DangleInv'
  BY DEF DangleInv, NothingDangles, Rows, At

\* What Excuse says of the row that is written and of what it refers to.
LEMMA Excused ==
  ASSUME NEW x, NEW targets, Excuse(x, targets)
  PROVE  /\ \A y : y # x /\ y \notin excused' => y \notin excused
         /\ x \notin excused' => \A t \in targets \ {None} :
              ~Deleting(t) /\ t \in Rows(servers) \cup Rows(repos)
  BY DEF Excuse

\* What is being deleted is a server or a location.
LEMMA DeletedIsARow ==
  ASSUME Types, NEW r \in Requests, At(r, "delete")
  PROVE  req[r].x \in Servers \cup Locations /\ req[r].x # None /\ Deleting(req[r].x)
  BY Forms, IdentifiersAssumption DEF ServerDeletes, RepoDeletes, Deleting

LEMMA WrittenServerDangles ==
  ASSUME Types, DangleInv, NEW r \in Requests, WriteServer(r)
  PROVE  DangleInv'
<1> DEFINE s == req[r].x
           new == req[r].new
<1>1. req[r] \in Plans
  BY Forms DEF WriteServer, At, Planning
<1>2. /\ s \in Servers /\ new.jump \in Servers \cup {None}
  BY <1>1 DEF Plans
<1>3. /\ req' \in [Requests -> States] /\ \A p \in Requests : p # r => req'[p] = req[p]
      /\ req'[r].pc # "delete"
  <2>1. Planning(r) /\ (Done(r) \/ Goto(r, "cleanup"))
    BY DEF WriteServer, At, Planning
  <2>2. CASE Done(r)
    BY <2>2, Ended DEF Idle
  <2>3. CASE Goto(r, "cleanup")
    <3>1. Planning(r)
      BY <2>1
    <3>2. /\ req' \in [Requests -> States] /\ \A p \in Requests : p # r => req'[p] = req[p]
          /\ req'[r].pc = "cleanup"
      BY <2>3, <3>1, Went
    <3> QED
      BY <3>2
  <2> QED
    BY <2>1, <2>2, <2>3
<1>4. UNCHANGED <<repos, jobs>>
  BY DEF WriteServer
<1>5. CASE UNCHANGED <<servers, excused>>
  BY <1>3, <1>4, <1>5, DanglesFrame DEF At
<1>6. CASE servers' = [servers EXCEPT ![s] = new] /\ Excuse(s, {new.jump}) /\ new.cred \in Rows(creds)
  <2>1. servers \in [Servers -> {None} \cup Server] /\ repos \in [Locations -> {None} \cup Repo]
        /\ jobs \in [Jobs -> {None} \cup Job]
    BY DEF Types, TypeOK
  <2>2. new # None
    <3>1. new \in Server
      BY <1>1, <1>6, RowFacts DEF Plans, Server
    <3> QED
      BY <3>1, IdentifiersAssumption
  <2> HIDE DEF s, new
  <2>3. /\ servers'[s] = new /\ \A t \in Servers : t # s => servers'[t] = servers[t]
        /\ Rows(servers)' = Rows(servers) \cup {s} /\ Rows(servers) \subseteq Servers
    BY <1>2, <1>6, <2>1, <2>2 DEF Rows
  <2>4. s \notin excused' => new.jump = None \/ (~Deleting(new.jump) /\ new.jump \in Rows(servers))
    BY <1>2, <1>6, <2>1, Excused, IdentifiersAssumption DEF Rows
  <2>5. \A y : y # s /\ y \notin excused' => y \notin excused
    BY <1>6, Excused
  <2>6. Rows(repos) \subseteq Locations /\ Rows(jobs) \subseteq Jobs
        /\ s \notin Locations /\ s \notin Jobs /\ UNCHANGED <<Rows(repos), Rows(jobs)>>
    BY <1>2, <1>4, <2>1, IdentifiersAssumption DEF Rows
  <2>7. NothingDangles'
    BY <1>4, <2>3, <2>4, <2>5, <2>6 DEF DangleInv, NothingDangles
  <2>8. ASSUME NEW p \in Requests, At(p, "delete")'
        PROVE  (/\ \A t \in Rows(servers) \ excused : t # req[p].x => servers[t].jump # req[p].x
                /\ \A l \in Rows(repos) \ excused : repos[l].server # req[p].x
                /\ \A j \in Rows(jobs) \ excused : jobs[j].server # req[p].x /\ jobs[j].repo # req[p].x)'
    <3>1. At(p, "delete") /\ req'[p] = req[p]
      BY <1>3, <2>8 DEF At
    <3>2. req[p].x # None /\ Deleting(req[p].x)
      BY <3>1, DeletedIsARow
    <3>3. \A l \in Rows(repos) \ excused' : repos[l].server # req[p].x
      BY <2>5, <2>6, <3>1 DEF DangleInv
    <3>4. \A j \in Rows(jobs) \ excused' : jobs[j].server # req[p].x /\ jobs[j].repo # req[p].x
      BY <2>5, <2>6, <3>1 DEF DangleInv
    <3>5. \A t \in Rows(servers)' \ excused' : t # req[p].x => servers'[t].jump # req[p].x
      BY <2>3, <2>4, <2>5, <3>1, <3>2 DEF DangleInv
    <3> QED
      BY <1>4, <2>6, <3>1, <3>3, <3>4, <3>5
  <2> QED
    BY <2>7, <2>8 DEF DangleInv
<1> QED
  BY <1>5, <1>6 DEF WriteServer

LEMMA DeletedServerDangles ==
  ASSUME Types, DangleInv, NEW r \in Requests, DeleteServer(r)
  PROVE  DangleInv'
<1> DEFINE x == req[r].x
<1>1. /\ At(r, "delete") /\ x \in Servers /\ servers' = [servers EXCEPT ![x] = None]
      /\ UNCHANGED <<repos, jobs, excused>> /\ Goto(r, "dropOwn")
  BY DEF DeleteServer
<1>2. /\ servers \in [Servers -> {None} \cup Server] /\ repos \in [Locations -> {None} \cup Repo]
      /\ jobs \in [Jobs -> {None} \cup Job]
  BY DEF Types, TypeOK
<1>3. /\ Rows(servers)' = Rows(servers) \ {x} /\ \A t \in Servers : t # x => servers'[t] = servers[t]
      /\ Rows(servers) \subseteq Servers
  BY <1>1, <1>2 DEF Rows
<1>4. x \notin Locations /\ x # None
  BY <1>1, IdentifiersAssumption
<1>5. \A p \in Requests : At(p, "delete")' => At(p, "delete") /\ req'[p] = req[p]
  <2>1. req[r] \in ServerDeletes
    BY <1>1, <1>4, Forms DEF RepoDeletes
  <2> QED
    BY <1>1, <2>1, Went DEF At
<1> HIDE DEF x
<1>6. /\ \A s \in Rows(servers) \ excused : s # x => servers[s].jump # x
      /\ \A l \in Rows(repos) \ excused : repos[l].server # x
      /\ \A j \in Rows(jobs) \ excused : jobs[j].server # x /\ jobs[j].repo # x
  BY <1>1 DEF DangleInv, x
<1>7. Rows(repos)' = Rows(repos) /\ Rows(jobs)' = Rows(jobs)
  BY <1>1 DEF Rows
<1>8. NothingDangles'
  <2>1. NothingDangles /\ UNCHANGED <<repos, jobs, excused>>
    BY <1>1 DEF DangleInv
  <2>2. \A s \in Rows(servers)' \ excused' : servers'[s].jump \in Rows(servers)' \cup {None}
    BY <1>3, <1>6, <2>1 DEF NothingDangles
  <2>3. \A l \in Rows(repos)' \ excused' : repos'[l].server \in Rows(servers)' \cup {None}
    BY <1>3, <1>6, <1>7, <2>1 DEF NothingDangles
  <2>4. \A j \in Rows(jobs)' \ excused' :
          jobs'[j].server \in Rows(servers)' \cup {None} /\ jobs'[j].repo \in Rows(repos)'
    BY <1>3, <1>6, <1>7, <2>1 DEF NothingDangles
  <2> QED
    BY <2>2, <2>3, <2>4 DEF NothingDangles
<1>9. ASSUME NEW p \in Requests, At(p, "delete")'
      PROVE  (/\ \A t \in Rows(servers) \ excused : t # req[p].x => servers[t].jump # req[p].x
              /\ \A l \in Rows(repos) \ excused : repos[l].server # req[p].x
              /\ \A j \in Rows(jobs) \ excused : jobs[j].server # req[p].x /\ jobs[j].repo # req[p].x)'
  <2>1. At(p, "delete") /\ req'[p] = req[p]
    BY <1>5, <1>9
  <2>2. /\ \A t \in Rows(servers) \ excused : t # req[p].x => servers[t].jump # req[p].x
        /\ \A l \in Rows(repos) \ excused : repos[l].server # req[p].x
        /\ \A j \in Rows(jobs) \ excused : jobs[j].server # req[p].x /\ jobs[j].repo # req[p].x
    BY <2>1 DEF DangleInv
  <2>3. \A t \in Rows(servers)' \ excused' : t # req[p].x => servers'[t].jump # req[p].x
    BY <1>1, <1>3, <2>2
  <2> QED
    BY <1>1, <1>7, <2>1, <2>2, <2>3
<1> QED
  BY <1>8, <1>9 DEF DangleInv

LEMMA WrittenRepoDangles ==
  ASSUME Types, DangleInv, NEW r \in Requests, WriteRepo(r)
  PROVE  DangleInv'
<1> DEFINE l == req[r].x
           new == req[r].new
<1>1. /\ req[r] \in RepoSaves /\ UNCHANGED <<servers, jobs>>
      /\ \A p \in Requests : At(p, "delete")' => At(p, "delete") /\ req'[p] = req[p]
  BY Forms, Ended DEF WriteRepo, At, Idle
<1>2. CASE UNCHANGED <<repos, excused>>
  BY <1>1, <1>2, DanglesFrame
<1>3. CASE repos' = [repos EXCEPT ![l] = new] /\ Excuse(l, {new.server})
  <2>1. /\ servers \in [Servers -> {None} \cup Server] /\ repos \in [Locations -> {None} \cup Repo]
        /\ jobs \in [Jobs -> {None} \cup Job] /\ l \in Locations /\ new \in Repo
    BY <1>1 DEF Types, TypeOK, RepoSaves
  <2>2. new # None /\ new.server \in Servers \cup {None}
    BY <2>1, IdentifiersAssumption DEF Repo
  <2> HIDE DEF l, new
  <2>3. /\ repos'[l] = new /\ \A k \in Locations : k # l => repos'[k] = repos[k]
        /\ Rows(repos)' = Rows(repos) \cup {l} /\ Rows(repos) \subseteq Locations
    BY <1>3, <2>1, <2>2 DEF Rows
  <2>4. l \notin excused' => new.server = None \/ (~Deleting(new.server) /\ new.server \in Rows(servers))
    BY <1>3, <2>1, <2>2, Excused, IdentifiersAssumption DEF Rows
  <2>5. \A y : y # l /\ y \notin excused' => y \notin excused
    BY <1>3, Excused
  <2>6. Rows(servers) \subseteq Servers /\ Rows(jobs) \subseteq Jobs
        /\ l \notin Servers /\ l \notin Jobs /\ UNCHANGED <<Rows(servers), Rows(jobs)>>
    BY <1>1, <2>1, IdentifiersAssumption DEF Rows
  <2>7. NothingDangles'
    BY <1>1, <2>3, <2>4, <2>5, <2>6 DEF DangleInv, NothingDangles
  <2>8. ASSUME NEW p \in Requests, At(p, "delete")'
        PROVE  (/\ \A t \in Rows(servers) \ excused : t # req[p].x => servers[t].jump # req[p].x
                /\ \A k \in Rows(repos) \ excused : repos[k].server # req[p].x
                /\ \A j \in Rows(jobs) \ excused : jobs[j].server # req[p].x /\ jobs[j].repo # req[p].x)'
    <3>1. At(p, "delete") /\ req'[p] = req[p]
      BY <1>1, <2>8
    <3>2. req[p].x # None /\ Deleting(req[p].x)
      BY <3>1, DeletedIsARow
    <3>3. \A t \in Rows(servers) \ excused' : t # req[p].x => servers[t].jump # req[p].x
      BY <2>5, <2>6, <3>1 DEF DangleInv
    <3>4. \A j \in Rows(jobs) \ excused' : jobs[j].server # req[p].x /\ jobs[j].repo # req[p].x
      BY <2>5, <2>6, <3>1 DEF DangleInv
    <3>5. \A k \in Rows(repos)' \ excused' : repos'[k].server # req[p].x
      BY <2>3, <2>4, <2>5, <3>1, <3>2 DEF DangleInv
    <3> QED
      BY <1>1, <2>6, <3>1, <3>3, <3>4, <3>5
  <2> QED
    BY <2>7, <2>8 DEF DangleInv
<1> QED
  BY <1>2, <1>3 DEF WriteRepo

LEMMA DeletedRepoDangles ==
  ASSUME Types, DangleInv, NEW r \in Requests, DeleteRepo(r)
  PROVE  DangleInv'
<1> DEFINE x == req[r].x
<1>1. /\ At(r, "delete") /\ x \in Locations /\ repos' = [repos EXCEPT ![x] = None]
      /\ UNCHANGED <<servers, jobs, excused>> /\ Done(r)
  BY DEF DeleteRepo
<1>2. repos \in [Locations -> {None} \cup Repo]
  BY DEF Types, TypeOK
<1>3. /\ Rows(repos)' = Rows(repos) \ {x} /\ \A k \in Locations : k # x => repos'[k] = repos[k]
      /\ Rows(repos) \subseteq Locations
  BY <1>1, <1>2 DEF Rows
<1>4. \A p \in Requests : At(p, "delete")' => At(p, "delete") /\ req'[p] = req[p]
  BY <1>1, Ended DEF At, Idle
<1> HIDE DEF x
<1>5. \A j \in Rows(jobs) \ excused : jobs[j].repo # x
  BY <1>1 DEF DangleInv, x
<1>6. Rows(servers)' = Rows(servers) /\ Rows(jobs)' = Rows(jobs)
  BY <1>1 DEF Rows
<1>7. NothingDangles'
  BY <1>1, <1>3, <1>5, <1>6 DEF DangleInv, NothingDangles
<1>8. ASSUME NEW p \in Requests, At(p, "delete")'
      PROVE  (/\ \A t \in Rows(servers) \ excused : t # req[p].x => servers[t].jump # req[p].x
              /\ \A l \in Rows(repos) \ excused : repos[l].server # req[p].x
              /\ \A j \in Rows(jobs) \ excused : jobs[j].server # req[p].x /\ jobs[j].repo # req[p].x)'
  <2>1. At(p, "delete") /\ req'[p] = req[p]
    BY <1>4, <1>8
  <2>2. /\ \A t \in Rows(servers) \ excused : t # req[p].x => servers[t].jump # req[p].x
        /\ \A l \in Rows(repos) \ excused : repos[l].server # req[p].x
        /\ \A j \in Rows(jobs) \ excused : jobs[j].server # req[p].x /\ jobs[j].repo # req[p].x
    BY <2>1 DEF DangleInv
  <2>3. \A k \in Rows(repos)' \ excused' : repos'[k].server # req[p].x
    BY <1>1, <1>3, <2>2
  <2> QED
    BY <1>1, <1>6, <2>1, <2>2, <2>3
<1> QED
  BY <1>7, <1>8 DEF DangleInv

LEMMA WrittenJobDangles ==
  ASSUME Types, DangleInv, NEW r \in Requests, WriteJob(r)
  PROVE  DangleInv'
<1> DEFINE j == req[r].x
           new == req[r].new
           row == Updated(jobs[j], new)
<1>1. /\ req[r] \in JobSaves /\ UNCHANGED <<servers, repos>>
      /\ \A p \in Requests : At(p, "delete")' => At(p, "delete") /\ req'[p] = req[p]
  BY Forms, Ended DEF WriteJob, At, Idle
<1>2. CASE UNCHANGED <<jobs, excused>>
  BY <1>1, <1>2, DanglesFrame
<1>3. CASE jobs' = [jobs EXCEPT ![j] = row] /\ Excuse(j, {new.server, new.repo})
  <2>1. /\ servers \in [Servers -> {None} \cup Server] /\ repos \in [Locations -> {None} \cup Repo]
        /\ jobs \in [Jobs -> {None} \cup Job] /\ j \in Jobs /\ new \in Job
    BY <1>1 DEF Types, TypeOK, JobSaves
  <2>2. row \in Job /\ row.server = new.server /\ row.repo = new.repo
    BY <2>1 DEF Updated, Job
  <2>3. row # None /\ new.server \in Servers \cup {None} /\ new.repo \in Locations
    BY <2>1, <2>2, IdentifiersAssumption DEF Job
  <2> HIDE DEF j, new, row
  <2>4. /\ jobs'[j] = row /\ \A k \in Jobs : k # j => jobs'[k] = jobs[k]
        /\ Rows(jobs)' = Rows(jobs) \cup {j} /\ Rows(jobs) \subseteq Jobs
    BY <1>3, <2>1, <2>3 DEF Rows
  <2>5. j \notin excused' =>
          /\ new.server = None \/ (~Deleting(new.server) /\ new.server \in Rows(servers))
          /\ ~Deleting(new.repo) /\ new.repo \in Rows(repos)
    BY <1>3, <2>1, <2>3, Excused, IdentifiersAssumption DEF Rows
  <2>6. \A y : y # j /\ y \notin excused' => y \notin excused
    BY <1>3, Excused
  <2>7. Rows(servers) \subseteq Servers /\ Rows(repos) \subseteq Locations
        /\ j \notin Servers /\ j \notin Locations /\ UNCHANGED <<Rows(servers), Rows(repos)>>
    BY <1>1, <2>1, IdentifiersAssumption DEF Rows
  <2>8. NothingDangles'
    BY <1>1, <2>2, <2>4, <2>5, <2>6, <2>7 DEF DangleInv, NothingDangles
  <2>9. ASSUME NEW p \in Requests, At(p, "delete")'
        PROVE  (/\ \A t \in Rows(servers) \ excused : t # req[p].x => servers[t].jump # req[p].x
                /\ \A k \in Rows(repos) \ excused : repos[k].server # req[p].x
                /\ \A k \in Rows(jobs) \ excused : jobs[k].server # req[p].x /\ jobs[k].repo # req[p].x)'
    <3>1. At(p, "delete") /\ req'[p] = req[p]
      BY <1>1, <2>9
    <3>2. req[p].x # None /\ Deleting(req[p].x)
      BY <3>1, DeletedIsARow
    <3>3. \A t \in Rows(servers) \ excused' : t # req[p].x => servers[t].jump # req[p].x
      BY <2>6, <2>7, <3>1 DEF DangleInv
    <3>4. \A k \in Rows(repos) \ excused' : repos[k].server # req[p].x
      BY <2>6, <2>7, <3>1 DEF DangleInv
    <3>5. \A k \in Rows(jobs)' \ excused' : jobs'[k].server # req[p].x /\ jobs'[k].repo # req[p].x
      BY <2>2, <2>4, <2>5, <2>6, <3>1, <3>2 DEF DangleInv
    <3> QED
      BY <1>1, <2>7, <3>1, <3>3, <3>4, <3>5
  <2> QED
    BY <2>8, <2>9 DEF DangleInv
<1> QED
  BY <1>2, <1>3 DEF WriteJob

\* A job is deleted or paused: what it refers to stays.
LEMMA JobDangles ==
  ASSUME Types, DangleInv, NEW j \in Jobs, DeleteJob(j) \/ SetPaused(j)
  PROVE  DangleInv'
<1>1. UNCHANGED <<servers, repos, req, excused>>
  BY DEF DeleteJob, SetPaused
<1>2. \A k \in Rows(jobs)' : k \in Rows(jobs) /\ jobs'[k].server = jobs[k].server /\ jobs'[k].repo = jobs[k].repo
  <2>1. jobs \in [Jobs -> {None} \cup Job] /\ jobs[j] \in Job
    BY DEF Types, DeleteJob, SetPaused
  <2>2. CASE DeleteJob(j)
    BY <2>1, <2>2 DEF DeleteJob, Rows
  <2>3. CASE SetPaused(j)
    <3> DEFINE job == [jobs[j] EXCEPT !.paused = ~jobs[j].paused]
    <3>1. jobs' = [jobs EXCEPT ![j] = job] /\ jobs[j] # None
      BY <2>3 DEF SetPaused
    <3>2. job.server = jobs[j].server /\ job.repo = jobs[j].repo
      BY <2>1 DEF Job
    <3> HIDE DEF job
    <3> QED
      BY <2>1, <3>1, <3>2 DEF Rows
  <2> QED
    BY <2>2, <2>3
<1>3. Rows(servers)' = Rows(servers) /\ Rows(repos)' = Rows(repos)
  BY <1>1 DEF Rows
<1>4. NothingDangles'
  BY <1>1, <1>2, <1>3 DEF DangleInv, NothingDangles
<1>5. ASSUME NEW p \in Requests, At(p, "delete")'
      PROVE  (/\ \A t \in Rows(servers) \ excused : t # req[p].x => servers[t].jump # req[p].x
              /\ \A l \in Rows(repos) \ excused : repos[l].server # req[p].x
              /\ \A k \in Rows(jobs) \ excused : jobs[k].server # req[p].x /\ jobs[k].repo # req[p].x)'
  BY <1>1, <1>2, <1>3, <1>5 DEF DangleInv, At
<1> QED
  BY <1>4, <1>5 DEF DangleInv

LEMMA DanglesKept == ASSUME Types, DangleInv, [Next]_vars PROVE DangleInv'
<1>1. ASSUME NEW r \in Requests, Starting(r) PROVE DangleInv'
  BY <1>1, StartDangles
<1>2. ASSUME NEW r \in Requests,
             \/ WriteCredential(r) \/ DropCredential(r) \/ PersistCredential(r)
             \/ DeleteOrphan(r) \/ DeletePrivateCredential(r)
             \/ ResetStatus(r) \/ RecordCheck(r) \/ BreakOff(r)
      PROVE  DangleInv'
  <2>1. UNCHANGED <<servers, repos, jobs, excused>>
    BY <1>2 DEF WriteCredential, DropCredential, PersistCredential, DeleteOrphan, DeletePrivateCredential,
                ResetStatus, RecordCheck, BreakOff, rowVars
  <2>2. \A p \in Requests : At(p, "delete")' => At(p, "delete") /\ req'[p] = req[p]
    <3>1. CASE Done(r)
      BY <3>1, Ended DEF At, Idle
    <3>2. CASE PersistCredential(r) /\ ~Done(r)
      <4>1. ~(req[r].row.shared /\ Taken(req[r].row.name, req[r].id))
        BY <3>2 DEF PersistCredential
      <4> QED
        BY <3>2, <4>1, Persisted DEF At
    <3>3. CASE DeleteOrphan(r) /\ ~Done(r)
      <4>1. Planning(r) /\ Goto(r, "status")
        BY <3>3 DEF DeleteOrphan, At, Planning
      <4> QED
        BY <4>1, Went DEF At
    <3> QED
      BY <1>2, <3>1, <3>2, <3>3 DEF WriteCredential, DropCredential, DeletePrivateCredential, ResetStatus,
                                   RecordCheck, BreakOff
  <2> QED
    BY <2>1, <2>2, DanglesFrame
<1>3. CASE UNCHANGED vars
  BY <1>3, DanglesFrame DEF vars, rowVars, At
<1> QED
  BY <1>1, <1>2, <1>3, Begins, WrittenServerDangles, DeletedServerDangles, WrittenRepoDangles,
     DeletedRepoDangles, WrittenJobDangles, JobDangles DEF Next

-----------------------------------------------------------------------------
(* What holds of the rows whose own servers are not contested. *)

\* Request r ends, or has only the status to reset, and no server is written: the rows
\* of credentials are what they were, but for one that no server uses, or a shared one.
LEMMA Finishes ==
  ASSUME IInv, Types', StoredInv', NEW r \in Requests, UNCHANGED servers,
         disturbed \subseteq disturbed', inserted <= inserted', contested' = contested,
         \A c \in CredentialIds : c <= inserted => home'[c] = home[c],
         \A p \in Requests : p # r => req'[p] = req[p],
         req'[r] = Idle \/ (At(r, "cleanup") /\ req'[r] = [req[r] EXCEPT !.pc = "status"]),
         \A c \in CredentialIds : Private(c)' => Private(c) /\ creds'[c] = creds[c],
         \A c \in CredentialIds : UsedBy(c) # {} =>
           (c \in Rows(creds) => c \in Rows(creds)') /\ (Private(c) => Private(c)'),
         \A c \in Rows(creds)' : creds'[c].shared => creds'[c].for = Anyone,
         \A c \in CredentialIds : Private(c)' /\ ChangedBy(r, c) =>
           UsedBy(c) # {} \/ <<"credential", c>> \in disturbed',
         At(r, "server") /\ req[r].row # None /\ req[r].id # 0 /\ req[r].x \notin contested =>
           <<"server", req[r].x>> \in disturbed'
  PROVE  IInv'
<1>1. Types /\ inserted \in Nat /\ inserted' \in Nat /\ Rows(servers)' = Rows(servers)
  BY DEF IInv, Types, TypeOK, Rows
<1>2. \A s \in Rows(servers) :
        /\ s \in Servers /\ servers[s].cred \in CredentialIds /\ servers[s].cred \in Rows(creds)
        /\ UsedBy(servers[s].cred) # {} /\ servers[s].cred \in Rows(creds)'
  BY <1>1, RowFacts DEF IInv, CredentialInv, UsedBy
<1>3. \A p \in Requests : Planning(p) => req[p] \in Plans
  BY <1>1, Forms
<1>4. \A p \in Requests : p # r => req'[p] = req[p]
  OBVIOUS
<1>5. \/ req'[r].pc = "idle"
      \/ /\ At(r, "cleanup") /\ req'[r].pc = "status"
         /\ req'[r].x = req[r].x /\ req'[r].old = req[r].old /\ req'[r].new = req[r].new
         /\ req'[r].id = req[r].id /\ req'[r].row = req[r].row
  <2>1. CASE req'[r] = Idle
    BY <2>1 DEF Idle
  <2>2. CASE At(r, "cleanup") /\ req'[r] = [req[r] EXCEPT !.pc = "status"]
    <3>1. req[r] \in Plans
      BY <1>3, <2>2 DEF At, Planning
    <3> QED
      BY <2>2, <3>1 DEF Plans
  <2> QED
    BY <2>1, <2>2
<1>6. \A c : Private(c)' => c \in CredentialIds
  BY DEF Private, Hidden, Contested, Rows, Types, TypeOK
<1>7. CredentialInv'
  <2>1. CredentialInv
    BY DEF IInv
  <2>2. \A p \in Requests : At(p, "library")' \/ At(p, "drop")' \/ Removing(p)' => req'[p] = req[p]
    BY <1>4, <1>5 DEF At, Removing
  <2>3. \A p \in Requests :
          /\ At(p, "library") => req[p].id \in Nat
          /\ At(p, "drop") => req[p].id \in Nat
          /\ Removing(p) => req[p].old.cred \in Nat
    BY <1>1, Forms DEF LibrarySaves, Drops, ServerDeletes, Server, CredentialIds
  <2>4. \A s \in Rows(servers)' : servers'[s].cred \in Rows(creds)'
    BY <1>1, <1>2
  <2>5. ASSUME NEW p \in Requests
        PROVE  (/\ At(p, "library") => req[p].row.shared /\ req[p].row.for = Anyone /\ ~Private(req[p].id)
                /\ At(p, "library") => req[p].id <= inserted
                /\ At(p, "drop") => ~Private(req[p].id) /\ req[p].id <= inserted
                /\ Removing(p) => req[p].old.cred <= inserted)'
    <3>1. CASE req'[p] = req[p]
      BY <1>1, <1>6, <2>1, <2>3, <3>1 DEF CredentialInv, At, Removing
    <3>2. CASE req'[p] # req[p]
      BY <2>2, <3>2
    <3> QED
      BY <3>1, <3>2
  <2> QED
    BY <2>4, <2>5 DEF CredentialInv
<1>8. PlanInv'
  <2> SUFFICES ASSUME NEW p \in Requests, Planning(p)' PROVE PlanOK(req[p])'
    BY DEF PlanInv
  <2>1. /\ Planning(p) /\ req'[p].x = req[p].x /\ req'[p].old = req[p].old /\ req'[p].new = req[p].new
        /\ req'[p].id = req[p].id /\ req'[p].row = req[p].row
        /\ req'[p].pc = req[p].pc \/ (req[p].pc = "cleanup" /\ req'[p].pc = "status")
    BY <1>4, <1>5 DEF Planning, At
  <2>2. PlanOK(req[p])
    BY <2>1 DEF IInv, PlanInv
  <2>3. /\ req[p].id \in 0 .. MaxCredentials /\ req[p].new.cred \in 0 .. MaxCredentials /\ req[p].x \in Servers
        /\ req[p].old # None => req[p].old.cred \in Nat
    BY <1>3, <2>1 DEF Plans, Server, CredentialIds
  <2>4. req[p].row # None /\ req[p].id # 0 =>
          /\ req[p].old # None /\ req[p].id = req[p].old.cred /\ req[p].id <= inserted /\ req[p].id \in CredentialIds
          /\ home'[req[p].id] = home[req[p].id]
    BY <2>2, <2>3 DEF PlanOK, PlanRest, CredentialIds
  <2>5. ASSUME req[p].pc = "credential", req[p].id # 0, ~Contested(req[p].id)' PROVE Private(req[p].id)'
    <3> DEFINE c == req[p].id
    <3>1. /\ req[p].row # None /\ req[p].old # None /\ c = req[p].old.cred /\ c \in CredentialIds
          /\ Changes(p, req[p].x)
      BY <2>2, <2>3, <2>4, <2>5 DEF PlanOK, PlanRest, Changes
    <3>2. ~Contested(c) /\ Private(c)
      BY <2>1, <2>2, <2>4, <2>5, <3>1 DEF PlanOK, PlanRest, Contested
    <3>3. req[p].x = home[c]
      BY <2>3, <3>1, <3>2 DEF IInv, ClaimInv, Claims
    <3>4. req[p].old = servers[req[p].x]
      BY <2>3, <2>5, <3>1, <3>2, <3>3 DEF IInv, EditInv, Contested
    <3>5. req[p].x \in Rows(servers) /\ servers[req[p].x].cred = c
      BY <1>1, <2>3, <3>1, <3>4 DEF Rows, Types, TypeOK
    <3> QED
      BY <1>2, <2>1, <3>1, <3>2, <3>5
  <2>6. \A c : Private(c)' => Private(c) /\ creds'[c] = creds[c]
    BY <1>6
  <2>7. Typed(req[p], contested)'
    BY <2>1, <2>2, <2>4 DEF PlanOK, Typed
  <2>8. PlanRest(req[p])'
    BY <1>1, <2>1, <2>2, <2>3, <2>5, <2>6 DEF PlanOK, PlanRest, CredentialIds
  <2> QED
    BY <2>7, <2>8 DEF PlanOK
<1>9. \A p \in Requests, s \in Servers : Changes(p, s)' => Changes(p, s) /\ req'[p] = req[p]
  BY <1>4, <1>5 DEF Changes
<1>10. EditInv'
  BY <1>9 DEF IInv, EditInv, At
<1>11. \A s \in Servers, c \in CredentialIds : Claims(s, c)' => Claims(s, c)
  BY <1>9 DEF Claims, At
<1>12. ClaimInv'
  <2> SUFFICES ASSUME NEW c \in CredentialIds, NEW s \in Servers, Private(c)', Claims(s, c)' PROVE s = home'[c]
    BY DEF ClaimInv
  <2>1. Private(c) /\ Claims(s, c) /\ c <= inserted
    BY <1>1, <1>11, RowFacts DEF Private, Hidden
  <2> QED
    BY <2>1 DEF IInv, ClaimInv
<1>13. OwnerInv'
  <2> SUFFICES ASSUME NEW c \in CredentialIds, Private(c)'
               PROVE  (\/ \E s \in Rows(servers) : servers[s].cred = c
                       \/ <<"credential", c>> \in disturbed
                       \/ \E p \in Requests : ChangedBy(p, c))'
    BY DEF OwnerInv
  <2>1. Private(c)
    OBVIOUS
  <2>2. ASSUME NEW p \in Requests, ChangedBy(p, c), p # r PROVE ChangedBy(p, c)'
    <3>1. req'[p] = req[p]
      BY <1>4, <2>2
    <3>2. OwnRow(req[p].old) = c => (OwnRow(req[p].old) = c)'
      BY <2>1, <3>1, <1>1 DEF OwnRow, SharedRow, Private, Hidden, Contested, CredentialIds
    <3> QED
      BY <2>2, <3>1, <3>2 DEF ChangedBy, At
  <2>3. UsedBy(c) # {} => \E s \in Rows(servers) : servers[s].cred = c
    BY DEF UsedBy
  <2> QED
    BY <1>1, <2>1, <2>2, <2>3 DEF IInv, OwnerInv
<1>14. PasswordInv'
  <2> SUFFICES ASSUME NEW s \in Rows(servers), NEW c \in CredentialIds, servers[s].cred = c, Private(c)'
               PROVE  (\/ creds[servers[s].cred].for \in {Anyone, servers[s].target}
                       \/ <<"server", s>> \in disturbed
                       \/ \E p \in Requests : Changes(p, s) /\ At(p, "server") /\ req[p].row # None /\ req[p].id # 0)'
    BY <1>1, <1>2 DEF PasswordInv
  <2>1. Private(c) /\ creds'[c] = creds[c]
    OBVIOUS
  <2>2. s \notin contested
    <3>1. s = home[c]
      BY <1>2, <2>1 DEF IInv, ClaimInv, Claims, Rows
    <3> QED
      BY <2>1, <3>1 DEF Private, Contested
  <2>3. ASSUME NEW p \in Requests, Changes(p, s), At(p, "server"), req[p].row # None, req[p].id # 0
        PROVE  <<"server", s>> \in disturbed' \/ (Changes(p, s) /\ At(p, "server") /\ req[p].row # None /\ req[p].id # 0)'
    <3>1. CASE p = r
      BY <2>2, <2>3, <3>1 DEF Changes
    <3>2. CASE p # r
      BY <1>4, <2>3, <3>2 DEF Changes, At
    <3> QED
      BY <3>1, <3>2
  <2> QED
    BY <2>1, <2>3 DEF IInv, PasswordInv
<1> QED
  BY <1>7, <1>8, <1>10, <1>12, <1>13, <1>14 DEF IInv

LEMMA StoredFrame ==
  ASSUME StoredInv, UNCHANGED <<repos, jobs>>,
         \A p \in Requests : req'[p] = req[p] \/ req'[p].pc \notin {"repo", "job"}
  PROVE  StoredInv'
  BY DEF StoredInv, Rows, Via

\* The row that a request of a server leaves without an owner.
LEMMA OwnRowFacts ==
  ASSUME Types, NEW server \in Server \cup {None}
  PROVE  /\ OwnRow(server) # 0 => server # None /\ OwnRow(server) = server.cred /\ Hidden(OwnRow(server))
         /\ \A c \in CredentialIds : OwnRow(server) = c <=> server # None /\ server.cred = c /\ Hidden(c)
  BY RowFacts DEF OwnRow, SharedRow, Private, Hidden, Contested, CredentialIds

LEMMA LibraryWrites ==
  ASSUME IInv, Types', NEW r \in Requests, WriteCredential(r)
  PROVE  IInv'
<1>1. /\ Types /\ req[r] \in LibrarySaves /\ At(r, "library") /\ Done(r)
      /\ UNCHANGED <<servers, repos, jobs, contested, disturbed>>
  BY Forms DEF IInv, WriteCredential
<1> DEFINE id == req[r].id
           row == req[r].row
<1>2. id \in 0 .. MaxCredentials /\ row \in Credential /\ inserted \in Nat
  BY <1>1 DEF LibrarySaves, Types, TypeOK
<1>3. row.shared /\ row.for = Anyone /\ ~Private(id)
  BY <1>1 DEF IInv, CredentialInv
<1>4. UNCHANGED <<creds, inserted, home>> \/ PutCredential(id, row, None)
  BY DEF WriteCredential
<1>5. req'[r] = Idle /\ \A p \in Requests : p # r => req'[p] = req[p]
  BY <1>1, Ended
<1>6. StoredInv'
  BY <1>1, <1>5, StoredFrame DEF IInv, Idle
<1> HIDE DEF id, row
<1>7. /\ inserted <= inserted' /\ \A c \in CredentialIds : c <= inserted => home'[c] = home[c]
      /\ \A c \in CredentialIds : creds'[c] = creds[c] \/ (creds'[c] = row /\ ~Private(c))
  <2>1. CASE UNCHANGED <<creds, inserted, home>>
    BY <1>2, <2>1
  <2>2. CASE PutCredential(id, row, None)
    <3>1. \A c \in CredentialIds : c > inserted => ~Private(c)
      BY <1>1 DEF Types, Private, Hidden, Contested, Rows
    <3> QED
      BY <1>1, <1>2, <1>3, <2>2, <3>1, PutTypes DEF PutCredential
  <2> QED
    BY <1>4, <2>1, <2>2
<1>8. row # None /\ DOMAIN creds = CredentialIds /\ DOMAIN creds' = CredentialIds
  BY <1>1, <1>2, IdentifiersAssumption DEF Types, TypeOK
<1>9. \A c \in CredentialIds : /\ Private(c)' <=> Private(c)
                               /\ Private(c)' => creds'[c] = creds[c]
                               /\ c \in Rows(creds) => c \in Rows(creds)'
  <2> SUFFICES ASSUME NEW c \in CredentialIds
               PROVE  /\ Private(c)' <=> Private(c)
                      /\ Private(c)' => creds'[c] = creds[c]
                      /\ c \in Rows(creds) => c \in Rows(creds)'
    OBVIOUS
  <2>1. creds[c] # None => home'[c] = home[c]
    BY <1>1, <1>2, <1>7 DEF Types, CredentialIds
  <2> QED
    BY <1>1, <1>3, <1>7, <1>8, <2>1 DEF Private, Hidden, Contested, Rows
<1>10. \A c \in Rows(creds)' : creds'[c].shared => creds'[c].for = Anyone
  BY <1>3, <1>7, <1>8 DEF IInv, CredentialInv, Rows
<1>11. \A c : ~ChangedBy(r, c)
  BY <1>1 DEF ChangedBy, At
<1>12. ~At(r, "server") /\ disturbed \subseteq disturbed'
  BY <1>1 DEF At
<1> QED
  BY <1>1, <1>5, <1>6, <1>7, <1>9, <1>10, <1>11, <1>12, Finishes

\* A request deletes the row of a credential that no server uses, and ends or goes on.
LEMMA RowDrops ==
  ASSUME IInv, Types', NEW r \in Requests, NEW d, creds' = Without(d) \/ creds' = creds,
         UNCHANGED <<inserted, servers, repos, jobs, home, contested, disturbed>>, ~At(r, "server"),
         Done(r) \/ (At(r, "cleanup") /\ Goto(r, "status")),
         \A c \in CredentialIds : Private(c)' /\ ChangedBy(r, c) => UsedBy(c) # {}
  PROVE  IInv'
<1>1. Types /\ inserted \in Nat
  BY DEF IInv, Types, TypeOK
<1>2. /\ \A p \in Requests : p # r => req'[p] = req[p]
      /\ \/ req'[r] = Idle
         \/ At(r, "cleanup") /\ req'[r] = [req[r] EXCEPT !.pc = "status"] /\ req'[r].pc = "status"
  <2>1. CASE Done(r)
    BY <1>1, <2>1, Ended
  <2>2. CASE At(r, "cleanup") /\ Goto(r, "status")
    <3>1. Planning(r)
      BY <2>2 DEF At, Planning
    <3> QED
      BY <1>1, <2>2, <3>1, Went
  <2> QED
    BY <2>1, <2>2
<1>3. StoredInv'
  BY <1>2, StoredFrame DEF IInv, Idle
<1>4. /\ \A c \in CredentialIds : creds'[c] = creds[c] \/ (creds'[c] = None /\ UsedBy(c) = {})
      /\ DOMAIN creds = CredentialIds /\ DOMAIN creds' = CredentialIds
  BY <1>1, WithoutTypes DEF Types, TypeOK
<1>5. /\ \A c \in CredentialIds : Private(c)' => Private(c) /\ creds'[c] = creds[c]
      /\ \A c \in CredentialIds : UsedBy(c) # {} =>
           (c \in Rows(creds) => c \in Rows(creds)') /\ (Private(c) => Private(c)')
  BY <1>4 DEF Private, Hidden, Contested, Rows
<1>6. \A c \in Rows(creds)' : creds'[c].shared => creds'[c].for = Anyone
  BY <1>4 DEF IInv, CredentialInv, Rows
<1>7. /\ disturbed \subseteq disturbed' /\ inserted <= inserted' /\ UNCHANGED <<servers, home, contested>>
  BY <1>1
<1> QED
  BY <1>2, <1>3, <1>5, <1>6, <1>7, Finishes

LEMMA Deletes ==
  ASSUME IInv, Types', NEW r \in Requests,
         DropCredential(r) \/ DeleteOrphan(r) \/ DeletePrivateCredential(r)
  PROVE  IInv'
<1>1. Types /\ UNCHANGED <<inserted, servers, repos, jobs, home, contested, disturbed>> /\ ~At(r, "server")
  BY DEF IInv, DropCredential, DeleteOrphan, DeletePrivateCredential, At, editVars
<1>2. CASE DropCredential(r)
  <2>1. creds' = Without(req[r].id) /\ Done(r) /\ \A c : ~ChangedBy(r, c)
    BY <1>2 DEF DropCredential, ChangedBy, At
  <2> QED
    BY <1>1, <2>1, RowDrops
<1>3. CASE DeletePrivateCredential(r)
  <2>1. Done(r) /\ At(r, "dropOwn") /\ req[r] \in ServerDeletes
    BY <1>1, <1>3, Forms DEF DeletePrivateCredential
  <2> DEFINE d == OwnRow(req[r].old)
  <2>2. creds' = IF d = 0 THEN creds ELSE Without(d)
    BY <1>3 DEF DeletePrivateCredential
  <2> HIDE DEF d
  <2>3. ASSUME NEW c \in CredentialIds, Private(c)', ChangedBy(r, c) PROVE UsedBy(c) # {}
    <3>1. d = c /\ c # 0
      BY <2>1, <2>3 DEF ChangedBy, At, d, CredentialIds
    <3>2. creds' = Without(c)
      BY <2>2, <3>1
    <3> QED
      BY <2>3, <3>2 DEF Without, Private, Hidden, Contested, Rows
  <2> QED
    BY <1>1, <2>1, <2>2, <2>3, RowDrops
<1>4. CASE DeleteOrphan(r)
  <2>1. At(r, "cleanup") /\ (Done(r) \/ Goto(r, "status")) /\ req[r] \in Plans /\ Planning(r)
    BY <1>1, <1>4, Forms DEF DeleteOrphan, At, Planning
  <2> DEFINE d == Orphan(r)
             x == req[r].x
  <2>2. creds' = IF d = 0 THEN creds ELSE Without(d)
    BY <1>4 DEF DeleteOrphan
  <2>3. /\ x \in Servers /\ Changes(r, x) /\ req[r].old # None /\ (x \notin contested => servers[x] = req[r].new)
        /\ PlanOK(req[r]) /\ req[r].old \in Server \cup {None} /\ req[r].id \in 0 .. MaxCredentials
    BY <2>1 DEF Plans, Changes, At, IInv, EditInv, PlanInv, PlanOK, PlanRest
  <2> HIDE DEF d
  <2>4. ASSUME NEW c \in CredentialIds, Private(c)', ChangedBy(r, c) PROVE UsedBy(c) # {}
    <3>1. OwnRow(req[r].old) = c /\ c # 0
      BY <2>1, <2>4 DEF ChangedBy, At, CredentialIds
    <3>2. Private(c) /\ req[r].old.cred = c /\ x \notin contested
      <4>1. Hidden(c) /\ req[r].old.cred = c
        BY <1>1, <2>3, <3>1, OwnRowFacts
      <4>2. Private(c)
        BY <1>1, <2>4, <4>1 DEF Private, Contested
      <4>3. x = home[c]
        BY <2>3, <4>1, <4>2 DEF IInv, ClaimInv, Claims
      <4> QED
        BY <4>1, <4>2, <4>3 DEF Private, Contested
    <3>3. CASE req[r].row = None
      <4>1. creds' = Without(c)
        BY <2>2, <3>1, <3>3 DEF d, Orphan
      <4> QED
        BY <2>4, <4>1 DEF Without, Private, Hidden, Contested, Rows
    <3>4. CASE req[r].row # None
      <4>1. req[r].id = c /\ req[r].new.cred = c
        BY <2>3, <3>1, <3>2, <3>4 DEF PlanOK, PlanRest, Typed
      <4>2. x \in Rows(servers)
        <5>1. c \in 1 .. inserted /\ servers[x] \in Server \cup {None}
          BY <1>1, <2>3, <3>2, RowFacts DEF Private, Hidden, Contested, Types, TypeOK
        <5>2. servers[x] # None
          <6>1. req[r].new \in [target : Targets, jump : Servers \cup {None}, cred : 0 .. MaxCredentials]
                /\ req[r].new.cred \in CredentialIds
            BY <2>1, <4>1 DEF Plans
          <6>2. req[r].new \in Server
            BY <6>1 DEF Server
          <6> QED
            BY <2>3, <3>2, <6>2, IdentifiersAssumption
        <5> QED
          BY <1>1, <2>3, <5>2 DEF Rows, Types, TypeOK
      <4> QED
        BY <2>3, <3>2, <4>1, <4>2 DEF UsedBy
    <3> QED
      BY <3>3, <3>4
  <2> QED
    BY <1>1, <2>1, <2>2, <2>4, RowDrops
<1> QED
  BY <1>2, <1>3, <1>4

\* Request r ends and no credential or server is written.
LEMMA EndsQuietly ==
  ASSUME IInv, Types', StoredInv', NEW r \in Requests, Done(r),
         UNCHANGED <<creds, inserted, servers, home, contested>>,
         disturbed \subseteq disturbed',
         \A c \in CredentialIds : Private(c) /\ ChangedBy(r, c) =>
           UsedBy(c) # {} \/ <<"credential", c>> \in disturbed',
         At(r, "server") /\ req[r].row # None /\ req[r].id # 0 /\ req[r].x \notin contested =>
           <<"server", req[r].x>> \in disturbed'
  PROVE  IInv'
<1>1. Types /\ inserted \in Nat /\ inserted <= inserted'
  BY DEF IInv, Types, TypeOK
<1>2. req'[r] = Idle /\ \A p \in Requests : p # r => req'[p] = req[p]
  BY <1>1, Ended
<1>3. /\ \A c \in CredentialIds : (Private(c)' <=> Private(c)) /\ creds'[c] = creds[c]
      /\ \A c \in CredentialIds : c \in Rows(creds) => c \in Rows(creds)'
  BY DEF Private, Hidden, Contested, Rows
<1>4. \A c \in Rows(creds)' : creds'[c].shared => creds'[c].for = Anyone
  BY DEF IInv, CredentialInv, Rows
<1> QED
  BY <1>1, <1>2, <1>3, <1>4, Finishes

\* The steps that end a request and write neither a credential nor a server.
LEMMA QuietEnds ==
  ASSUME IInv, Types', NEW r \in Requests,
         ResetStatus(r) \/ RecordCheck(r) \/ WriteRepo(r) \/ DeleteRepo(r) \/ WriteJob(r)
  PROVE  IInv'
<1>1. /\ Types /\ Done(r) /\ UNCHANGED <<creds, inserted, servers, home, contested, disturbed>>
      /\ req[r].pc \in {"status", "dial", "repo", "delete", "job"}
  BY DEF IInv, ResetStatus, RecordCheck, WriteRepo, DeleteRepo, WriteJob, At, editVars
<1>2. req'[r] = Idle /\ \A p \in Requests : p # r => req'[p] = req[p]
  BY <1>1, Ended
<1>3. ~At(r, "server") /\ disturbed \subseteq disturbed' /\ \A c : ~ChangedBy(r, c)
  BY <1>1 DEF ChangedBy, At
<1>4. /\ repos \in [Locations -> {None} \cup Repo] /\ jobs \in [Jobs -> {None} \cup Job]
      /\ \A p \in Requests : req'[p] = req[p] \/ req'[p].pc \notin {"repo", "job"}
  BY <1>1, <1>2 DEF Types, Idle
<1>5. /\ \A l \in Rows(repos) : repos[l].pw \in {None, Via(repos[l])}
      /\ \A j \in Rows(jobs) : jobs[j].pw \in {None, Via(jobs[j])}
      /\ \A p \in Requests : req[p].pc \in {"repo", "job"} => req[p].new.pw \in {None, Via(req[p].new)}
  BY DEF IInv, StoredInv
<1>6. \A p \in Requests : req'[p].pc \in {"repo", "job"} => req'[p].new.pw \in {None, Via(req'[p].new)}
  BY <1>4, <1>5
<1>7. \A l \in Rows(repos)' : repos'[l].pw \in {None, Via(repos'[l])}
  <2>1. CASE WriteRepo(r)
    <3>1. req[r] \in RepoSaves /\ At(r, "repo")
      BY <1>1, <2>1, Forms DEF WriteRepo
    <3> DEFINE new == req[r].new
    <3>2. repos' = repos \/ repos' = [repos EXCEPT ![req[r].x] = new]
      BY <2>1 DEF WriteRepo
    <3>3. new.pw \in {None, Via(new)}
      BY <1>5, <3>1 DEF At
    <3> HIDE DEF new
    <3> QED
      BY <1>4, <1>5, <3>2, <3>3 DEF Rows
  <2>2. CASE DeleteRepo(r)
    BY <1>4, <1>5, <2>2 DEF DeleteRepo, Rows
  <2>3. CASE UNCHANGED repos
    BY <1>5, <2>3 DEF Rows
  <2> QED
    BY <2>1, <2>2, <2>3 DEF ResetStatus, RecordCheck, WriteJob
<1>8. \A j \in Rows(jobs)' : jobs'[j].pw \in {None, Via(jobs'[j])}
  <2>1. CASE WriteJob(r)
    <3>1. req[r] \in JobSaves /\ At(r, "job")
      BY <1>1, <2>1, Forms DEF WriteJob
    <3> DEFINE new == req[r].new
               row == Updated(jobs[req[r].x], new)
    <3>2. jobs' = jobs \/ jobs' = [jobs EXCEPT ![req[r].x] = row]
      BY <2>1 DEF WriteJob
    <3>3. new.pw \in {None, Via(new)} /\ new \in Job /\ jobs[req[r].x] \in {None} \cup Job
      BY <1>4, <1>5, <3>1 DEF At, JobSaves
    <3>4. row \in Job /\ row.pw = new.pw /\ row.server = new.server /\ row.target = new.target
      BY <3>3 DEF Updated, Job
    <3>5. Via(row) = Via(new)
      BY <3>3, <3>4, IdentifiersAssumption DEF Via
    <3> HIDE DEF new, row
    <3> QED
      BY <1>4, <1>5, <3>2, <3>3, <3>4, <3>5 DEF Rows
  <2>2. CASE UNCHANGED jobs
    BY <1>5, <2>2 DEF Rows
  <2> QED
    BY <2>1, <2>2 DEF ResetStatus, RecordCheck, WriteRepo, DeleteRepo
<1>9. StoredInv'
  BY <1>6, <1>7, <1>8 DEF StoredInv, Rows, Via
<1> QED
  BY <1>1, <1>3, <1>9, EndsQuietly

\* A save or a deletion that breaks off leaves a mark on what it was changing.
LEMMA Breaks ==
  ASSUME IInv, Types', NEW r \in Requests, BreakOff(r)
  PROVE  IInv'
<1>1. /\ Types /\ Done(r) /\ UNCHANGED <<creds, inserted, servers, repos, jobs, home, contested>>
      /\ disturbed' = disturbed \cup HalfDone(r) /\ HalfDone(r) # {}
  BY DEF IInv, BreakOff, rowVars, editVars
<1>2. req'[r] = Idle /\ \A p \in Requests : p # r => req'[p] = req[p]
  BY <1>1, Ended
<1>3. StoredInv'
  BY <1>1, <1>2, StoredFrame DEF IInv, Idle
<1>4. CASE At(r, "server")
  <2>1. req[r] \in Plans /\ PlanOK(req[r])
    BY <1>1, <1>4, Forms DEF At, Planning, IInv, PlanInv
  <2>2. HalfDone(r) = IF req[r].row # None
                      THEN {<<"server", req[r].x>>, <<"credential", req[r].new.cred>>} ELSE {}
    BY <1>4 DEF HalfDone, At
  <2>3. req[r].row # None
    BY <1>1, <2>2
  <2>4. \A c : ChangedBy(r, c) => c = req[r].new.cred
    BY <1>4 DEF ChangedBy, At
  <2> QED
    BY <1>1, <1>3, <2>2, <2>3, <2>4, EndsQuietly
<1>5. CASE ~At(r, "server")
  <2>1. req[r].pc \in {"cleanup", "dropOwn"} /\ HalfDone(r) = {<<"credential", OwnRow(req[r].old)>>}
    BY <1>1, <1>5 DEF HalfDone, At
  <2>2. \A c : ChangedBy(r, c) => c = OwnRow(req[r].old)
    BY <1>5 DEF ChangedBy
  <2> QED
    BY <1>1, <1>3, <1>5, <2>1, <2>2, EndsQuietly
<1> QED
  BY <1>4, <1>5

\* Nothing that the invariant is about changes but the jobs.
LEMMA JobSteps ==
  ASSUME IInv, Types', UNCHANGED <<creds, inserted, servers, repos, req, home, contested, disturbed>>,
         \A j \in Rows(jobs)' : jobs'[j].pw \in {None, Via(jobs'[j])}
  PROVE  IInv'
<1>1. \A c : Private(c)' <=> Private(c)
  BY DEF Private, Hidden, Contested, Rows
<1>2. CredentialInv'
  BY <1>1 DEF IInv, CredentialInv, Rows, At, Removing
<1>3. PlanInv'
  <2> SUFFICES ASSUME NEW p \in Requests, Planning(p)' PROVE PlanOK(req[p])'
    BY DEF PlanInv
  <2>1. PlanOK(req[p])
    BY DEF IInv, PlanInv, Planning
  <2> QED
    BY <1>1, <2>1 DEF PlanOK, PlanRest, Typed, Contested
<1>4. \A p \in Requests, s \in Servers : Changes(p, s)' <=> Changes(p, s)
  BY DEF Changes, At
<1>5. EditInv'
  BY <1>4 DEF IInv, EditInv, At
<1>6. \A s \in Servers, c \in CredentialIds : Claims(s, c)' <=> Claims(s, c)
  BY <1>4 DEF Claims, At
<1>7. ClaimInv'
  BY <1>1, <1>6 DEF IInv, ClaimInv
<1>8. \A p \in Requests, c \in CredentialIds : ChangedBy(p, c)' <=> ChangedBy(p, c)
  BY DEF ChangedBy, At, OwnRow, SharedRow, Rows
<1>9. OwnerInv'
  BY <1>1, <1>8 DEF IInv, OwnerInv, Rows
<1>10. PasswordInv'
  BY <1>1 DEF IInv, PasswordInv, Rows, Changes, At
<1>11. StoredInv'
  BY DEF IInv, StoredInv, Rows, Via
<1> QED
  BY <1>2, <1>3, <1>5, <1>7, <1>9, <1>10, <1>11 DEF IInv

LEMMA JobChanges ==
  ASSUME IInv, Types', NEW j \in Jobs, DeleteJob(j) \/ SetPaused(j)
  PROVE  IInv'
<1>1. Types /\ jobs \in [Jobs -> {None} \cup Job] /\ jobs[j] \in Job
  BY DEF IInv, Types, DeleteJob, SetPaused
<1>2. \A k \in Rows(jobs) : jobs[k].pw \in {None, Via(jobs[k])}
  BY DEF IInv, StoredInv
<1>3. \A k \in Rows(jobs)' : jobs'[k].pw \in {None, Via(jobs'[k])}
  <2>1. CASE DeleteJob(j)
    BY <1>1, <1>2, <2>1 DEF DeleteJob, Rows
  <2>2. CASE SetPaused(j)
    <3> DEFINE row == [jobs[j] EXCEPT !.paused = ~jobs[j].paused]
    <3>1. jobs' = [jobs EXCEPT ![j] = row] /\ j \in Rows(jobs)
      BY <1>1, <2>2 DEF SetPaused, Rows
    <3>2. row \in Job /\ row.pw = jobs[j].pw /\ row.server = jobs[j].server /\ row.target = jobs[j].target
      BY <1>1 DEF Job
    <3>3. Via(row) = Via(jobs[j])
      BY <1>1, <3>2, IdentifiersAssumption DEF Via
    <3> HIDE DEF row
    <3> QED
      BY <1>1, <1>2, <3>1, <3>2, <3>3 DEF Rows
  <2> QED
    BY <2>1, <2>2
<1> QED
  BY <1>3, JobSteps DEF DeleteJob, SetPaused, editVars

\* The credential of a server is stored: refused, a row of its own, or over the saved one.
LEMMA Persists ==
  ASSUME IInv, Types', NEW r \in Requests, PersistCredential(r)
  PROVE  IInv'
<1> DEFINE x == req[r].x
           id == req[r].id
           row == req[r].row
<1>1. /\ Types /\ At(r, "credential") /\ UNCHANGED <<servers, repos, jobs, contested, disturbed>>
      /\ Planning(r) /\ req[r] \in Plans
  BY Forms DEF IInv, PersistCredential, At, Planning
<1>2. /\ x \in Servers /\ Changes(r, x) /\ PlanOK(req[r]) /\ row # None
      /\ x \notin contested => req[r].old = servers[x]
      /\ req[r].old \in Server \cup {None}
  BY <1>1 DEF Plans, Changes, At, IInv, EditInv, PlanInv, PlanOK, PlanRest, Typed
<1>3. CASE row.shared /\ Taken(row.name, id)
  <2>1. Done(r) /\ UNCHANGED <<creds, inserted, home>>
    BY <1>3 DEF PersistCredential
  <2>2. req'[r] = Idle /\ \A p \in Requests : p # r => req'[p] = req[p]
    BY <1>1, <2>1, Ended
  <2>3. StoredInv'
    BY <1>1, <2>2, StoredFrame DEF IInv, Idle
  <2>4. ~At(r, "server") /\ disturbed \subseteq disturbed' /\ \A c : ~ChangedBy(r, c)
    BY <1>1 DEF ChangedBy, At
  <2> QED
    BY <1>1, <2>1, <2>3, <2>4, EndsQuietly
<1>4. CASE ~(row.shared /\ Taken(row.name, id))
  <2> DEFINE k == IF id = 0 THEN inserted + 1 ELSE id
             q == req'[r]
  <2>1. /\ \A p \in Requests : p # r => req'[p] = req[p]
        /\ PutCredential(id, row, x) /\ row \in Credential /\ id \in 0 .. MaxCredentials
        /\ q \in Plans /\ q.pc = "server" /\ q.x = x /\ q.old = req[r].old
        /\ q.id = id /\ q.row = row /\ q.new.target = req[r].new.target
        /\ q.new.cred = IF id = 0 THEN inserted + 1 ELSE req[r].new.cred
    BY <1>1, <1>4, Persisted
  <2>2. q.new.cred = k
    BY <1>1, <1>2, <2>1 DEF PlanOK, PlanRest, Typed, At
  <2>3. StoredInv'
    BY <1>1, <2>1, StoredFrame DEF IInv
  <2> HIDE DEF q, k, row, id, x
  <2>4. /\ inserted \in Nat /\ inserted' \in Nat /\ inserted <= inserted'
        /\ creds' \in [CredentialIds -> {None} \cup Credential] /\ DOMAIN creds = CredentialIds
        /\ \A c \in CredentialIds : c > inserted => creds[c] = None
        /\ \A c \in CredentialIds : c # k => creds'[c] = creds[c]
        /\ \A c \in CredentialIds : c <= inserted \/ c # k => home'[c] = home[c]
        /\ id = 0 => home'[k] = x
    BY <1>1, <1>2, <2>1, PutTypes DEF Types, TypeOK, k
  <2>5. /\ id # 0 => req[r].old # None /\ id = req[r].old.cred /\ id \in CredentialIds /\ id <= inserted
        /\ id # 0 /\ ~Contested(id) =>
             /\ Private(id) /\ x = home[id] /\ x \notin contested
             /\ x \in Rows(servers) /\ servers[x].cred = id
    <3>1. id # 0 => req[r].old # None /\ id = req[r].old.cred /\ id \in CredentialIds /\ id <= inserted
      BY <1>1, <1>2 DEF PlanOK, PlanRest, At, id, row, Server
    <3> SUFFICES ASSUME id # 0, ~Contested(id)
                 PROVE  /\ Private(id) /\ x = home[id] /\ x \notin contested
                        /\ x \in Rows(servers) /\ servers[x].cred = id
      BY <3>1
    <3>2. Private(id)
      BY <1>1, <1>2 DEF PlanOK, PlanRest, At, id, row
    <3>3. x = home[id]
      BY <1>2, <3>1, <3>2 DEF IInv, ClaimInv, Claims
    <3>4. x \notin contested /\ req[r].old = servers[x]
      BY <1>2, <3>3 DEF Contested
    <3> QED
      BY <1>1, <1>2, <3>1, <3>2, <3>3, <3>4 DEF Rows, Types, TypeOK
  <2>6. /\ k \in CredentialIds /\ k <= inserted'
        /\ id = 0 => k = inserted + 1
        /\ creds'[k] = row \/ (id # 0 /\ Contested(id) /\ creds'[k] = creds[k])
    <3>1. CASE id = 0
      BY <1>1, <1>2, <2>1, <3>1, PutTypes DEF k
    <3>2. CASE id # 0
      <4>1. id \in CredentialIds /\ id <= inserted /\ (~Contested(id) => creds[id] # None)
        BY <2>5, <3>2 DEF Private, Hidden, Rows
      <4>2. creds'[id] = row \/ (creds[id] = None /\ creds'[id] = creds[id])
        BY <1>1, <2>4, <3>2, <4>1, <2>1 DEF PutCredential
      <4> QED
        BY <2>4, <3>2, <4>1, <4>2 DEF k, CredentialIds
    <3> QED
      BY <3>1, <3>2
  <2>7. row \in Credential /\ row # None
        /\ (row.shared => row.for = Anyone)
        /\ (\/ row.for \in {Anyone, req[r].new.target} \/ <<"server", x>> \in disturbed
            \/ id # 0 /\ Contested(id))
    BY <1>2, <2>1 DEF PlanOK, PlanRest, Typed, Contested, row, id, x
  <2>8. /\ \A c \in CredentialIds : c # k => (Private(c)' <=> Private(c)) /\ (c \in Rows(creds)' <=> c \in Rows(creds))
        /\ k \in Rows(creds) => k \in Rows(creds)'
        /\ \A c : c = k /\ id # 0 /\ Contested(id) => ~Private(c)'
    <3>1. \A c : c = k /\ id # 0 /\ Contested(id) => Contested(c)'
      <4>1. id # 0 => home'[id] = home[id]
        BY <2>4, <2>5
      <4> QED
        BY <1>1, <4>1 DEF k, Contested
    <3>2. \A c \in CredentialIds : c # k => (Contested(c)' <=> Contested(c))
      BY <1>1, <2>4 DEF Contested
    <3> QED
      BY <2>4, <2>6, <2>7, <3>1, <3>2 DEF Private, Hidden, Rows
  <2>9. \A s \in Rows(servers) : s \in Servers /\ servers[s].cred \in CredentialIds
                                 /\ servers[s].cred \in Rows(creds) /\ servers[s].cred <= inserted
    BY <1>1, <2>4, RowFacts DEF IInv, CredentialInv
  <2>10. \A c : Private(c)' => c \in CredentialIds
    BY <2>4 DEF Private, Hidden, Contested, Rows
  <2>11. \A c : Private(c) => c \in CredentialIds /\ c <= inserted
    BY <1>1, RowFacts DEF Private, Hidden, Contested
  \* What another request names is not a row that is new.
  <2>12. id = 0 => \A c : c <= inserted => c # k
    BY <2>4, <2>6
  <2>13. \A c : Private(c)' /\ c <= inserted => Private(c) /\ (c = k => id # 0 /\ ~Contested(id))
    BY <2>5, <2>8, <2>10, <2>12 DEF k
  <2>14. CredentialInv'
    <3>1. \A s \in Rows(servers)' : servers'[s].cred \in Rows(creds)'
      BY <1>1, <2>8, <2>9 DEF Rows
    <3>2. \A c \in Rows(creds)' : creds'[c].shared => creds'[c].for = Anyone
      BY <2>4, <2>6, <2>7, <2>8 DEF IInv, CredentialInv, Rows
    <3>3. ASSUME NEW p \in Requests
          PROVE  (/\ At(p, "library") => req[p].row.shared /\ req[p].row.for = Anyone /\ ~Private(req[p].id)
                  /\ At(p, "library") => req[p].id <= inserted
                  /\ At(p, "drop") => ~Private(req[p].id) /\ req[p].id <= inserted
                  /\ Removing(p) => req[p].old.cred <= inserted)'
      <4>1. CASE p = r
        BY <2>1, <4>1 DEF At, Removing, q
      <4>2. CASE p # r
        <5>1. req'[p] = req[p] /\ CredentialInv
          BY <2>1, <4>2 DEF IInv
        <5>2. /\ At(p, "library") \/ At(p, "drop") => req[p].id \in 0 .. MaxCredentials
              /\ Removing(p) => req[p].old.cred \in Nat
          BY <1>1, Forms, RowFacts DEF LibrarySaves, Drops, ServerDeletes, Server, CredentialIds
        <5>3. \A c : c <= inserted /\ ~Private(c) => ~Private(c)'
          BY <2>13
        <5>4. /\ At(p, "library") => ~(Private(req[p].id)')
              /\ At(p, "drop") => ~(Private(req[p].id)')
          BY <5>1, <5>3 DEF CredentialInv
        <5>5. /\ At(p, "library") => req[p].id <= inserted'
              /\ At(p, "drop") => req[p].id <= inserted'
              /\ Removing(p) => req[p].old.cred <= inserted'
          BY <2>4, <5>1, <5>2, RowFacts DEF CredentialInv
        <5> QED
          BY <5>1, <5>4, <5>5 DEF CredentialInv, At, Removing
      <4> QED
        BY <4>1, <4>2
    <3> QED
      BY <3>1, <3>2, <3>3 DEF CredentialInv
  \* No one else has to do with the server, or with the row it has.
  <2>15. /\ x \in Servers /\ Changes(r, x)
         /\ \A p \in Requests, s \in Servers : p # r /\ Changes(p, s) => s # x \/ x \in contested
         /\ \A s \in Servers : id # 0 /\ ~Contested(id) /\ Claims(s, id) => s = x
    <3>1. x \in Servers /\ Changes(r, x)
      BY <1>2 DEF x
    <3> QED
      BY <2>5, <3>1 DEF IInv, EditInv, ClaimInv
  \* Nor with a private row that is the one stored.
  <2>16. ASSUME NEW p \in Requests, p # r, NEW s \in Servers, Changes(p, s), NEW c \in CredentialIds,
                Private(c), Claims(s, c)
         PROVE  c # k
    <3> SUFFICES ASSUME c = k PROVE FALSE
      OBVIOUS
    <3>1. id # 0 /\ c = id /\ ~Contested(id)
      BY <2>11, <2>12, <2>16 DEF k, Private
    <3>2. s = x /\ x \notin contested
      BY <2>5, <2>15, <2>16, <3>1
    <3> QED
      BY <2>15, <2>16, <3>2
  <2>17. PlanInv'
    <3> SUFFICES ASSUME NEW p \in Requests, Planning(p)' PROVE PlanOK(req[p])'
      BY DEF PlanInv
    <3>1. CASE p = r
      <4>1. PlanOK(req[r]) /\ req[r].row = row /\ req[r].id = id
        BY <1>2 DEF row, id
      <4>2. /\ req'[p].old = req[r].old /\ req'[p].id = id /\ req'[p].row = row /\ req'[p].pc = "server"
            /\ req'[p].new.cred = k /\ req'[p].new.target = req[r].new.target /\ req'[p].x = x
        BY <2>1, <2>2, <3>1 DEF q
      <4>3. req[r].old # None => req[r].old.cred \in Nat /\ req[r].old.cred <= inserted
        BY <1>2, <4>1 DEF PlanOK, PlanRest, Typed, Server, CredentialIds
      <4>4. req[r].old # None /\ Private(req[p].old.cred)' => id = req[r].old.cred
        <5> SUFFICES ASSUME NEW c, req[r].old # None, c = req[r].old.cred, Private(c)' PROVE id = c
          BY <4>2
        <5>1. Private(c)
          BY <2>13, <4>3
        <5> QED
          BY <2>7, <4>1, <5>1 DEF PlanOK, PlanRest
      <4>5. k \in 1 .. inserted' /\ inserted <= inserted'
        BY <2>4, <2>6 DEF CredentialIds
      <4>6. id # 0 => k = id /\ req[r].old # None /\ id = req[r].old.cred
        BY <2>5 DEF k
      <4>7. \A c : c = k /\ Private(c)' => creds'[c].for \in {Anyone, req[r].new.target} \/ <<"server", x>> \in disturbed'
        BY <1>1, <2>6, <2>7, <2>8
      <4>8. req[r].old # None => req[r].old.cred <= inserted'
        BY <2>4, <4>3, <4>5
      <4>9. \/ row.for \in {Anyone, req[r].new.target} \/ <<"server", x>> \in disturbed'
            \/ id # 0 /\ home'[id] \in contested'
        BY <1>1, <2>4, <2>5, <2>7 DEF Contested
      <4> HIDE DEF k
      <4>10. PlanRest(req[p])'
        BY <2>7, <4>2, <4>4, <4>5, <4>6, <4>7, <4>8 DEF PlanRest
      <4>11. Typed(req[p], contested)'
        BY <4>2, <4>9 DEF Typed
      <4> QED
        BY <4>10, <4>11 DEF PlanOK
    <3>2. CASE p # r
      <4>1. req'[p] = req[p] /\ Planning(p)
        BY <2>1, <3>2 DEF Planning
      <4>2. PlanOK(req[p])
        BY <4>1 DEF IInv, PlanInv
      <4>3. req[p] \in Plans
        BY <1>1, <4>1, Forms
      <4>4. /\ req[p].id \in 0 .. MaxCredentials /\ req[p].new.cred \in 0 .. MaxCredentials /\ req[p].x \in Servers
            /\ req[p].old # None => req[p].old.cred \in Nat /\ req[p].old.cred <= inserted
        BY <4>2, <4>3 DEF Plans, Server, CredentialIds, PlanOK, PlanRest, Typed
      <4>5. req[p].pc \in {"credential", "server"} => Changes(p, req[p].x)
        BY DEF Changes
      <4>6. ASSUME NEW c \in CredentialIds, req[p].pc = "credential", req[p].id = c, ~Contested(c)' PROVE Private(c)'
        <5>1. req[p].old # None /\ req[p].old.cred = c /\ c <= inserted /\ req[p].row # None
          BY <4>2, <4>4, <4>6 DEF PlanOK, PlanRest, CredentialIds
        <5>2. ~Contested(c) /\ Private(c)
          BY <1>1, <2>4, <4>2, <4>6, <5>1 DEF PlanOK, PlanRest, Contested, CredentialIds
        <5>3. Claims(req[p].x, c)
          BY <4>5, <4>6, <5>1 DEF Claims
        <5>4. c # k
          BY <2>16, <3>2, <4>4, <4>5, <4>6, <5>2, <5>3
        <5> QED
          BY <2>8, <5>2, <5>4
      <4>7. ASSUME NEW c, req[p].pc = "server", req[p].row # None, req[p].new.cred = c, Private(c)'
            PROVE  Private(c) /\ creds'[c] = creds[c]
        <5>1. c \in 1 .. inserted /\ c \in CredentialIds
          BY <2>10, <4>2, <4>7 DEF PlanOK, PlanRest
        <5>2. Claims(req[p].x, c)
          BY <4>5, <4>7 DEF Claims, At
        <5>3. Private(c)
          BY <2>13, <4>7, <5>1
        <5>4. c # k
          BY <2>16, <3>2, <4>4, <4>5, <4>7, <5>1, <5>2, <5>3
        <5> QED
          BY <2>4, <5>1, <5>3, <5>4
      <4>8. \A c : Private(c)' /\ c <= inserted => Private(c)
        BY <2>13
      <4>9. req[p].pc # "credential" => req[p].new.cred \in 1 .. inserted /\ req[p].new.cred \in 1 .. inserted'
        BY <2>4, <4>2, <4>4 DEF PlanOK, PlanRest, Typed
      <4>10. req[p].old # None => req[p].old.cred <= inserted'
        BY <2>4, <4>4
      <4>11. /\ req[p].old # None /\ Private(req[p].old.cred)' => Private(req[p].old.cred)
             /\ req[p].pc # "credential" /\ Private(req[p].new.cred)' => Private(req[p].new.cred)
        BY <4>1, <4>4, <4>8, <4>9
      <4>12. req[p].pc = "credential" /\ req[p].id # 0 /\ ~Contested(req[p].id)' => Private(req[p].id)'
        BY <4>1, <4>4, <4>6 DEF CredentialIds
      <4>13. req[p].pc = "server" /\ req[p].row # None /\ Private(req[p].new.cred)' =>
               creds'[req[p].new.cred] = creds[req[p].new.cred]
        BY <4>1, <4>7
      <4>14. req[p].row # None /\ req[p].id # 0 => home'[req[p].id] = home[req[p].id]
        <5> SUFFICES ASSUME req[p].row # None, req[p].id # 0 PROVE home'[req[p].id] = home[req[p].id]
          OBVIOUS
        <5>1. req[p].id \in CredentialIds /\ req[p].id <= inserted
          BY <4>2, <4>4 DEF PlanOK, PlanRest, CredentialIds
        <5> QED
          BY <2>4, <5>1
      <4> HIDE DEF k
      <4>15. Typed(req[p], contested)'
        BY <1>1, <4>1, <4>2, <4>14 DEF PlanOK, Typed
      <4>16. PlanRest(req[p])'
        BY <1>1, <4>1, <4>2, <4>9, <4>10, <4>11, <4>12, <4>13 DEF PlanOK, PlanRest
      <4> QED
        BY <4>15, <4>16 DEF PlanOK
    <3> QED
      BY <3>1, <3>2
  <2>18. \A p \in Requests, s \in Servers : Changes(p, s)' =>
           /\ Changes(p, s)
           /\ p = r => s = x /\ req'[p].pc = "server" /\ req'[p].old = req[r].old /\ req'[p].row # None
                       /\ req'[p].new.cred = k /\ (s \notin contested => req'[p].old = servers[s])
           /\ p # r => req'[p] = req[p]
    BY <1>1, <1>2, <2>1, <2>2, <2>7 DEF Changes, At, q, x
  <2>19. EditInv'
    BY <1>1, <2>18 DEF IInv, EditInv, At
  <2>20. \A s \in Servers, c \in CredentialIds : Claims(s, c)' =>
           Claims(s, c) \/ (s = x /\ c = k)
    BY <1>1, <2>18 DEF Claims, At
  <2>21. \A s \in Servers, c \in CredentialIds : Claims(s, c) => c <= inserted
    <3> SUFFICES ASSUME NEW s \in Servers, NEW c \in CredentialIds, Claims(s, c) PROVE c <= inserted
      OBVIOUS
    <3>1. CASE servers[s] # None /\ servers[s].cred = c
      BY <1>1, <2>9, <3>1 DEF Rows, Types, TypeOK
    <3>2. ASSUME NEW p \in Requests, At(p, "server"), req[p].new.cred = c PROVE c <= inserted
      <4>1. PlanOK(req[p]) /\ req[p].pc # "credential"
        BY <3>2 DEF IInv, PlanInv, Planning, At
      <4> QED
        BY <2>4, <3>2, <4>1 DEF PlanOK, PlanRest
    <3>3. ASSUME NEW p \in Requests, Changes(p, s), req[p].old # None, req[p].old.cred = c PROVE c <= inserted
      <4>1. CASE Planning(p)
        <5>1. PlanOK(req[p])
          BY <4>1 DEF IInv, PlanInv
        <5> QED
          BY <3>3, <5>1 DEF PlanOK, PlanRest
      <4>2. CASE Removing(p)
        BY <3>3, <4>2 DEF IInv, CredentialInv
      <4> QED
        BY <3>3, <4>1, <4>2 DEF Changes, Planning, Removing
    <3> QED
      BY <3>1, <3>2, <3>3 DEF Claims
  <2>22. ClaimInv'
    <3> SUFFICES ASSUME NEW c \in CredentialIds, NEW s \in Servers, Private(c)', Claims(s, c)'
                 PROVE  s = home'[c]
      BY DEF ClaimInv
    <3>1. CASE c # k
      <4>1. Private(c) /\ home'[c] = home[c]
        BY <2>4, <2>8, <3>1
      <4> QED
        BY <2>20, <3>1, <4>1 DEF IInv, ClaimInv
    <3>2. CASE c = k /\ id = 0
      BY <2>4, <2>12, <2>20, <2>21, <3>2
    <3>3. CASE c = k /\ id # 0
      <4>1. c = id /\ c <= inserted
        BY <2>5, <3>3 DEF k
      <4>2. ~Contested(id) /\ home'[c] = home[c]
        BY <2>4, <2>13, <3>3, <4>1
      <4> QED
        BY <2>5, <2>15, <2>20, <3>3, <4>1, <4>2
    <3> QED
      BY <3>1, <3>2, <3>3
  <2>23. OwnerInv'
    <3> SUFFICES ASSUME NEW c \in CredentialIds, Private(c)'
                 PROVE  (\/ \E s \in Rows(servers) : servers[s].cred = c
                         \/ <<"credential", c>> \in disturbed
                         \/ \E p \in Requests : ChangedBy(p, c))'
      BY DEF OwnerInv
    <3>1. CASE c = k
      <4>1. ChangedBy(r, c)'
        BY <2>1, <2>2, <3>1 DEF ChangedBy, At, q
      <4> QED
        BY <4>1
    <3>2. CASE c # k
      <4>1. Private(c) /\ creds'[c] = creds[c]
        BY <2>4, <2>8, <3>2
      <4>2. ASSUME NEW p \in Requests, ChangedBy(p, c) PROVE ChangedBy(p, c)'
        <5>1. p # r
          BY <1>1, <4>2 DEF ChangedBy, At
        <5>2. req'[p] = req[p]
          BY <2>1, <5>1
        <5>3. OwnRow(req[p].old) = c => (OwnRow(req[p].old) = c)'
          BY <4>1, <5>2 DEF OwnRow, SharedRow, Private, Hidden, Contested, CredentialIds
        <5> QED
          BY <4>2, <5>2, <5>3 DEF ChangedBy, At
      <4> QED
        BY <1>1, <4>1, <4>2 DEF IInv, OwnerInv, Rows
    <3> QED
      BY <3>1, <3>2
  <2>24. PasswordInv'
    <3> SUFFICES ASSUME NEW s \in Rows(servers), Private(servers[s].cred)'
                 PROVE  (\/ creds[servers[s].cred].for \in {Anyone, servers[s].target}
                         \/ <<"server", s>> \in disturbed
                         \/ \E p \in Requests : Changes(p, s) /\ At(p, "server") /\ req[p].row # None /\ req[p].id # 0)'
      BY <1>1 DEF PasswordInv, Rows
    <3>1. CASE servers[s].cred # k
      <4>1. creds'[servers[s].cred] = creds[servers[s].cred]
        BY <2>4, <2>9, <3>1
      <4>2. ASSUME NEW p \in Requests, Changes(p, s), At(p, "server")
            PROVE  Changes(p, s)' /\ req'[p] = req[p]
        <5>1. p # r
          BY <1>1, <4>2 DEF At
        <5> QED
          BY <2>1, <4>2, <5>1 DEF Changes, At
      <4>3. Private(servers[s].cred)
        BY <1>1, <2>8, <2>9, <3>1
      <4> QED
        BY <1>1, <4>1, <4>2, <4>3 DEF IInv, PasswordInv, At
    <3>2. CASE servers[s].cred = k
      <4>1. id # 0 /\ k = id /\ ~Contested(id)
        BY <1>1, <2>9, <2>12, <2>13, <3>2 DEF k
      <4>2. s = x
        BY <2>9, <2>15, <3>2, <4>1 DEF Claims, Rows
      <4>3. Changes(r, s)' /\ At(r, "server")' /\ req'[r].row # None /\ req'[r].id # 0
        BY <2>1, <2>7, <4>1, <4>2 DEF q, Changes, At
      <4> QED
        BY <4>3
    <3> QED
      BY <3>1, <3>2
  <2> QED
    BY <2>3, <2>14, <2>17, <2>19, <2>22, <2>23, <2>24 DEF IInv
<1> QED
  BY <1>3, <1>4

\* The server is written: refused, new, or over the saved one.
LEMMA ServerWrites ==
  ASSUME IInv, Types', NEW r \in Requests, WriteServer(r)
  PROVE  IInv'
<1> DEFINE x == req[r].x
           new == req[r].new
           old == req[r].old
<1>1. /\ Types /\ At(r, "server") /\ UNCHANGED <<creds, inserted, repos, jobs, home, contested, disturbed>>
      /\ Planning(r) /\ req[r] \in Plans
  BY Forms DEF IInv, WriteServer, At, Planning, editVars
<1>2. /\ x \in Servers /\ Changes(r, x) /\ PlanOK(req[r])
      /\ x \notin contested => old = servers[x]
      /\ old \in Server \cup {None} /\ req[r].id \in 0 .. MaxCredentials
  BY <1>1 DEF Plans, Changes, At, IInv, EditInv, PlanInv
<1>3. \/ Done(r) /\ new.cred \notin Rows(creds) /\ UNCHANGED servers
      \/ Goto(r, "cleanup") /\ old # None /\ servers[x] = None /\ UNCHANGED servers
      \/ /\ new.cred \in Rows(creds) /\ servers' = [servers EXCEPT ![x] = new]
         /\ IF old = None THEN Done(r) ELSE Goto(r, "cleanup")
  BY <1>2 DEF WriteServer
<1>4. CASE Done(r) /\ new.cred \notin Rows(creds) /\ UNCHANGED servers
  <2>1. req'[r] = Idle /\ \A p \in Requests : p # r => req'[p] = req[p]
    BY <1>1, <1>4, Ended
  <2>2. StoredInv'
    BY <1>1, <2>1, StoredFrame DEF IInv, Idle
  <2>3. \A c : ~(Private(c) /\ ChangedBy(r, c))
    BY <1>1, <1>4 DEF ChangedBy, At, Private, Hidden, Contested
  <2>4. ~(req[r].row # None /\ req[r].id # 0 /\ x \notin contested)
    <3> SUFFICES ASSUME req[r].row # None, req[r].id # 0, x \notin contested PROVE FALSE
      OBVIOUS
    <3>1. old # None /\ new.cred = old.cred
      BY <1>2 DEF PlanOK, PlanRest, Typed
    <3>2. servers[x].cred \in Rows(creds)
      BY <1>1, <1>2, <3>1 DEF IInv, CredentialInv, Rows, Types, TypeOK
    <3> QED
      BY <1>2, <1>4, <3>1, <3>2
  <2> QED
    BY <1>1, <1>4, <2>2, <2>3, <2>4, EndsQuietly
<1>5. CASE /\ new.cred \in Rows(creds) /\ servers' = [servers EXCEPT ![x] = new]
           /\ IF old = None THEN Done(r) ELSE Goto(r, "cleanup")
  <2>1. /\ \A p \in Requests : p # r => req'[p] = req[p]
        /\ \/ req'[r].pc = "idle" /\ old = None
           \/ /\ old # None /\ req'[r].pc = "cleanup"
              /\ req'[r].x = req[r].x /\ req'[r].old = old /\ req'[r].new = new
              /\ req'[r].id = req[r].id /\ req'[r].row = req[r].row
    <3>1. CASE old = None
      BY <1>1, <1>5, <3>1, Ended DEF Idle
    <3>2. CASE old # None
      <4>1. Goto(r, "cleanup")
        BY <1>5, <3>2
      <4>2. /\ \A p \in Requests : p # r => req'[p] = req[p]
            /\ req'[r] = [req[r] EXCEPT !.pc = "cleanup"]
        BY <1>1, <4>1, Went
      <4> QED
        BY <1>1, <3>2, <4>2 DEF Plans
    <3> QED
      BY <3>1, <3>2
  <2>2. StoredInv'
    BY <1>1, <2>1, StoredFrame DEF IInv
  <2>3. /\ new.cred \in CredentialIds /\ new \in Server /\ new # None
        /\ servers \in [Servers -> {None} \cup Server]
    <3>1. new.cred \in CredentialIds
      BY <1>1, <1>5, RowFacts
    <3>2. new \in Server
      BY <1>1, <3>1 DEF Plans, Server
    <3> QED
      BY <1>1, <3>1, <3>2, IdentifiersAssumption DEF Types, TypeOK
  <2> HIDE DEF x, new, old
  <2>4. /\ servers'[x] = new /\ \A s \in Servers : s # x => servers'[s] = servers[s]
        /\ Rows(servers)' = Rows(servers) \cup {x} /\ Rows(servers) \subseteq Servers
    BY <1>2, <1>5, <2>3 DEF Rows
  <2>5. \A c : (Private(c)' <=> Private(c)) /\ (c \in Rows(creds)' <=> c \in Rows(creds))
    BY <1>1 DEF Private, Hidden, Contested, Rows
  <2>6. CredentialInv'
    <3>1. \A s \in Rows(servers)' : servers'[s].cred \in Rows(creds)'
      BY <1>5, <2>4, <2>5 DEF IInv, CredentialInv
    <3>2. \A c \in Rows(creds)' : creds'[c].shared => creds'[c].for = Anyone
      BY <1>1, <2>5 DEF IInv, CredentialInv
    <3>3. \A p \in Requests : At(p, "library")' \/ At(p, "drop")' \/ Removing(p)' => req'[p] = req[p]
      BY <2>1 DEF At, Removing
    <3> QED
      BY <1>1, <2>5, <3>1, <3>2, <3>3 DEF IInv, CredentialInv, At, Removing
  <2>7. PlanInv'
    <3> SUFFICES ASSUME NEW p \in Requests, Planning(p)' PROVE PlanOK(req[p])'
      BY DEF PlanInv
    <3>1. /\ Planning(p) /\ req'[p].x = req[p].x /\ req'[p].old = req[p].old /\ req'[p].new = req[p].new
          /\ req'[p].id = req[p].id /\ req'[p].row = req[p].row
          /\ req'[p].pc = req[p].pc \/ (req[p].pc = "server" /\ req'[p].pc = "cleanup" /\ req[p].old # None)
      BY <1>1, <2>1 DEF Planning, At, new, old
    <3>2. PlanOK(req[p])
      BY <3>1 DEF IInv, PlanInv
    <3> QED
      BY <1>1, <2>5, <3>1, <3>2 DEF PlanOK, PlanRest, Typed, Contested
  <2>8. \A p \in Requests, s \in Servers : Changes(p, s)' =>
          /\ Changes(p, s)
          /\ p = r => s = x /\ req'[p].pc = "cleanup" /\ req'[p].old = old /\ req'[p].new = new /\ old # None
          /\ p # r => req'[p] = req[p] /\ (s # x \/ x \in contested)
    BY <1>1, <1>2, <2>1 DEF IInv, EditInv, Changes, At, x
  <2>9. EditInv'
    BY <1>1, <2>4, <2>8 DEF IInv, EditInv, At
  <2>10. \A s \in Servers, c \in CredentialIds : Private(c) /\ Claims(s, c)' => Claims(s, c)
    <3> SUFFICES ASSUME NEW s \in Servers, NEW c \in CredentialIds, Private(c), Claims(s, c)' PROVE Claims(s, c)
      OBVIOUS
    <3>1. CASE servers'[s] # None /\ servers'[s].cred = c
      <4>1. CASE s # x
        BY <2>4, <3>1, <4>1 DEF Claims
      <4>2. CASE s = x
        <5>1. new.cred = c
          BY <2>4, <3>1, <4>2
        <5>2. req[r].row # None
          BY <1>1, <1>2, <5>1 DEF PlanOK, PlanRest, At, new
        <5> QED
          BY <1>1, <1>2, <4>2, <5>1, <5>2 DEF Claims, new
      <4> QED
        BY <4>1, <4>2
    <3>2. ASSUME NEW p \in Requests, Changes(p, s)',
                 \/ req'[p].pc = "server" /\ req'[p].row # None /\ req'[p].new.cred = c
                 \/ req'[p].old # None /\ req'[p].old.cred = c
          PROVE  Claims(s, c)
      BY <2>8, <3>2 DEF Claims, At, old
    <3> QED
      BY <3>1, <3>2 DEF Claims, At
  <2>11. ClaimInv'
    BY <1>1, <2>5, <2>10 DEF IInv, ClaimInv
  <2>12. OwnerInv'
    <3> SUFFICES ASSUME NEW c \in CredentialIds, Private(c)
                 PROVE  (\/ \E s \in Rows(servers) : servers[s].cred = c
                         \/ <<"credential", c>> \in disturbed
                         \/ \E p \in Requests : ChangedBy(p, c))'
      BY <2>5 DEF OwnerInv
    <3>1. ASSUME NEW s \in Rows(servers), servers[s].cred = c
          PROVE  (\E t \in Rows(servers) : servers[t].cred = c)' \/ ChangedBy(r, c)'
      <4>1. CASE s # x
        BY <2>4, <3>1, <4>1
      <4>2. CASE s = x
        <5>1. old # None /\ old.cred = c
          <6>1. x = home[c]
            BY <1>2, <3>1, <4>2 DEF IInv, ClaimInv, Claims, Rows
          <6>2. old = servers[x]
            BY <1>2, <6>1 DEF Private, Contested
          <6> QED
            BY <3>1, <4>2, <6>2 DEF Rows
        <5>2. req'[r].pc = "cleanup" /\ req'[r].old = old
          BY <2>1, <5>1
        <5>3. (OwnRow(req[r].old) = c)'
          BY <1>1, <5>1, <5>2 DEF OwnRow, SharedRow, Private, Hidden, Contested, Rows
        <5> QED
          BY <5>2, <5>3 DEF ChangedBy
      <4> QED
        BY <4>1, <4>2
    <3>2. ASSUME NEW p \in Requests, ChangedBy(p, c)
          PROVE  (\E t \in Rows(servers) : servers[t].cred = c)' \/ ChangedBy(p, c)'
      <4>1. CASE p = r
        <5>1. new.cred = c
          BY <1>1, <3>2, <4>1 DEF ChangedBy, At, new
        <5> QED
          BY <2>4, <5>1
      <4>2. CASE p # r
        <5>1. req'[p] = req[p]
          BY <2>1, <4>2
        <5> QED
          BY <1>1, <3>2, <5>1 DEF ChangedBy, At, OwnRow, SharedRow, Rows
      <4> QED
        BY <4>1, <4>2
    <3> QED
      BY <1>1, <3>1, <3>2 DEF IInv, OwnerInv
  <2>13. PasswordInv'
    <3> SUFFICES ASSUME NEW s \in Rows(servers)', Private(servers'[s].cred)
                 PROVE  (\/ creds[servers[s].cred].for \in {Anyone, servers[s].target}
                         \/ <<"server", s>> \in disturbed
                         \/ \E p \in Requests : Changes(p, s) /\ At(p, "server") /\ req[p].row # None /\ req[p].id # 0)'
      BY <2>5 DEF PasswordInv
    <3>1. CASE s # x
      <4>1. s \in Rows(servers) /\ servers'[s] = servers[s]
        BY <2>4, <3>1
      <4>2. ASSUME NEW p \in Requests, Changes(p, s)
            PROVE  Changes(p, s)' /\ req'[p] = req[p]
        <5>1. p # r
          BY <3>1, <4>2 DEF Changes, x
        <5> QED
          BY <2>1, <4>2, <5>1 DEF Changes, At
      <4> QED
        BY <1>1, <4>1, <4>2 DEF IInv, PasswordInv, At
    <3>2. CASE s = x
      <4>1. Private(new.cred)
        BY <2>4, <3>2
      <4>2. req[r].row # None
        BY <1>1, <1>2, <4>1 DEF PlanOK, PlanRest, At, new
      <4>3. creds[new.cred].for \in {Anyone, new.target} \/ <<"server", x>> \in disturbed
        BY <1>1, <1>2, <4>1, <4>2 DEF PlanOK, PlanRest, At, new, x
      <4> QED
        BY <1>1, <2>4, <3>2, <4>3
    <3> QED
      BY <3>1, <3>2
  <2> QED
    BY <2>2, <2>6, <2>7, <2>9, <2>11, <2>12, <2>13 DEF IInv
\* The server has been deleted meanwhile, by a request that overlapped.
<1>6. CASE Goto(r, "cleanup") /\ old # None /\ servers[x] = None /\ UNCHANGED servers
  <2>1. /\ \A p \in Requests : p # r => req'[p] = req[p]
        /\ req'[r].pc = "cleanup" /\ req'[r].x = req[r].x /\ req'[r].old = old /\ req'[r].new = new
        /\ req'[r].id = req[r].id /\ req'[r].row = req[r].row
    <3>1. /\ \A p \in Requests : p # r => req'[p] = req[p]
          /\ req'[r] = [req[r] EXCEPT !.pc = "cleanup"]
      BY <1>1, <1>6, Went
    <3> QED
      BY <1>1, <3>1 DEF Plans
  <2>2. StoredInv'
    BY <1>1, <2>1, StoredFrame DEF IInv
  <2>3. x \in contested /\ old # None
    BY <1>2, <1>6
  <2> HIDE DEF x, new, old
  <2>4. \A c : (Private(c)' <=> Private(c)) /\ (c \in Rows(creds)' <=> c \in Rows(creds))
    BY <1>1 DEF Private, Hidden, Contested, Rows
  <2>5. CredentialInv'
    <3>1. \A p \in Requests : At(p, "library")' \/ At(p, "drop")' \/ Removing(p)' => req'[p] = req[p]
      BY <2>1 DEF At, Removing
    <3> QED
      BY <1>1, <1>6, <2>4, <3>1 DEF IInv, CredentialInv, At, Removing, Rows
  <2>6. PlanInv'
    <3> SUFFICES ASSUME NEW p \in Requests, Planning(p)' PROVE PlanOK(req[p])'
      BY DEF PlanInv
    <3>1. /\ Planning(p) /\ req'[p].x = req[p].x /\ req'[p].old = req[p].old /\ req'[p].new = req[p].new
          /\ req'[p].id = req[p].id /\ req'[p].row = req[p].row
          /\ req'[p].pc = req[p].pc \/ (req[p].pc = "server" /\ req'[p].pc = "cleanup" /\ req[p].old # None)
      BY <1>1, <2>1, <2>3 DEF Planning, At, new, old
    <3>2. PlanOK(req[p])
      BY <3>1 DEF IInv, PlanInv
    <3> QED
      BY <1>1, <2>4, <3>1, <3>2 DEF PlanOK, PlanRest, Typed, Contested
  <2>7. \A p \in Requests, s \in Servers : Changes(p, s)' =>
          /\ Changes(p, s)
          /\ p = r => s = x /\ req'[p].pc = "cleanup" /\ req'[p].old = old
          /\ p # r => req'[p] = req[p]
    BY <1>1, <1>2, <2>1 DEF Changes, At, x
  <2>8. EditInv'
    BY <1>1, <1>6, <2>3, <2>7 DEF IInv, EditInv, At
  <2>9. \A s \in Servers, c \in CredentialIds : Claims(s, c)' => Claims(s, c)
    BY <1>6, <2>7 DEF Claims, At, old
  <2>10. ClaimInv'
    BY <1>1, <2>4, <2>9 DEF IInv, ClaimInv
  <2>11. OwnerInv'
    <3> SUFFICES ASSUME NEW c \in CredentialIds, Private(c)
                 PROVE  (\/ \E s \in Rows(servers) : servers[s].cred = c
                         \/ <<"credential", c>> \in disturbed
                         \/ \E p \in Requests : ChangedBy(p, c))'
      BY <2>4 DEF OwnerInv
    <3>1. ASSUME NEW p \in Requests, ChangedBy(p, c) PROVE ChangedBy(p, c)'
      <4>1. p # r
        <5> SUFFICES ASSUME p = r PROVE FALSE
          OBVIOUS
        <5>1. new.cred = c /\ req[r].row # None
          BY <1>1, <1>2, <3>1 DEF ChangedBy, At, PlanOK, PlanRest, new
        <5>2. x = home[c]
          BY <1>1, <1>2, <5>1 DEF IInv, ClaimInv, Claims, new
        <5> QED
          BY <2>3, <5>2 DEF Private, Contested
      <4>2. req'[p] = req[p]
        BY <2>1, <4>1
      <4> QED
        BY <1>1, <3>1, <4>2 DEF ChangedBy, At, OwnRow, SharedRow, Rows
    <3> QED
      BY <1>1, <1>6, <3>1 DEF IInv, OwnerInv, Rows
  <2>12. PasswordInv'
    <3> SUFFICES ASSUME NEW s \in Rows(servers), Private(servers[s].cred)
                 PROVE  (\/ creds[servers[s].cred].for \in {Anyone, servers[s].target}
                         \/ <<"server", s>> \in disturbed
                         \/ \E p \in Requests : Changes(p, s) /\ At(p, "server") /\ req[p].row # None /\ req[p].id # 0)'
      BY <1>6, <2>4 DEF PasswordInv, Rows
    <3>1. ASSUME NEW p \in Requests, Changes(p, s)
          PROVE  Changes(p, s)' /\ req'[p] = req[p]
      <4>1. p # r
        BY <1>6, <3>1 DEF Changes, Rows, x
      <4> QED
        BY <2>1, <3>1, <4>1 DEF Changes
    <3> QED
      BY <1>1, <1>6, <3>1 DEF IInv, PasswordInv, At
  <2> QED
    BY <2>2, <2>5, <2>6, <2>8, <2>10, <2>11, <2>12 DEF IInv
<1> QED
  BY <1>3, <1>4, <1>5, <1>6

\* The server is deleted; its own credential is deleted next.
LEMMA ServerDeleted ==
  ASSUME IInv, Types', NEW r \in Requests, DeleteServer(r)
  PROVE  IInv'
<1> DEFINE x == req[r].x
           old == req[r].old
<1>1. /\ Types /\ At(r, "delete") /\ x \in Servers /\ servers' = [servers EXCEPT ![x] = None]
      /\ UNCHANGED <<creds, inserted, repos, jobs, home, contested, disturbed>> /\ Goto(r, "dropOwn")
  BY DEF IInv, DeleteServer, editVars
<1>2. req[r] \in ServerDeletes /\ old \in Server
  <2>1. req[r] \in ServerDeletes
    BY <1>1, Forms, IdentifiersAssumption DEF RepoDeletes
  <2> QED
    BY <2>1 DEF ServerDeletes
<1>3. /\ \A p \in Requests : p # r => req'[p] = req[p]
      /\ req'[r].pc = "dropOwn" /\ req'[r].x = x /\ req'[r].old = old
  <2>1. /\ \A p \in Requests : p # r => req'[p] = req[p]
        /\ req'[r] = [req[r] EXCEPT !.pc = "dropOwn"] /\ req'[r].pc = "dropOwn"
    BY <1>1, <1>2, Went
  <2> QED
    BY <1>2, <2>1 DEF ServerDeletes
<1>4. Changes(r, x) /\ (x \notin contested => old = servers[x])
  BY <1>1 DEF Changes, At, IInv, EditInv
<1>5. StoredInv'
  BY <1>1, <1>3, StoredFrame DEF IInv
<1> HIDE DEF x, old
<1>6. /\ servers'[x] = None /\ \A s \in Servers : s # x => servers'[s] = servers[s]
      /\ Rows(servers)' = Rows(servers) \ {x} /\ Rows(servers) \subseteq Servers
      /\ old # None
  BY <1>1, <1>2, <1>4, IdentifiersAssumption DEF Rows, Types, TypeOK
<1>7. \A c : (Private(c)' <=> Private(c)) /\ (c \in Rows(creds)' <=> c \in Rows(creds))
  BY <1>1 DEF Private, Hidden, Contested, Rows
<1>8. CredentialInv'
  <2>1. \A s \in Rows(servers)' : servers'[s].cred \in Rows(creds)'
    BY <1>6, <1>7 DEF IInv, CredentialInv
  <2>2. \A c \in Rows(creds)' : creds'[c].shared => creds'[c].for = Anyone
    BY <1>1, <1>7 DEF IInv, CredentialInv
  <2>3. old.cred <= inserted
    BY <1>1 DEF IInv, CredentialInv, Removing, At, old, x
  <2>4. ASSUME NEW p \in Requests
        PROVE  (/\ At(p, "library") => req[p].row.shared /\ req[p].row.for = Anyone /\ ~Private(req[p].id)
                /\ At(p, "library") => req[p].id <= inserted
                /\ At(p, "drop") => ~Private(req[p].id) /\ req[p].id <= inserted
                /\ Removing(p) => req[p].old.cred <= inserted)'
    <3>1. CASE p = r
      BY <1>1, <1>3, <2>3, <3>1 DEF At, Removing
    <3>2. CASE p # r
      <4>1. req'[p] = req[p]
        BY <1>3, <3>2
      <4> QED
        BY <1>1, <1>7, <4>1 DEF IInv, CredentialInv, At, Removing
    <3> QED
      BY <3>1, <3>2
  <2> QED
    BY <2>1, <2>2, <2>4 DEF CredentialInv
<1>9. PlanInv'
  <2> SUFFICES ASSUME NEW p \in Requests, Planning(p)' PROVE PlanOK(req[p])'
    BY DEF PlanInv
  <2>1. Planning(p) /\ req'[p] = req[p]
    BY <1>3 DEF Planning
  <2>2. PlanOK(req[p])
    BY <2>1 DEF IInv, PlanInv
  <2> QED
    BY <1>1, <1>7, <2>1, <2>2 DEF PlanOK, PlanRest, Typed, Contested
<1>10. \A p \in Requests, s \in Servers : Changes(p, s)' =>
         /\ Changes(p, s)
         /\ p = r => s = x /\ req'[p].pc = "dropOwn" /\ req'[p].old = old
         /\ p # r => req'[p] = req[p] /\ (s # x \/ x \in contested)
  BY <1>1, <1>3, <1>4 DEF IInv, EditInv, Changes, At, x
<1>11. EditInv'
  BY <1>1, <1>6, <1>10 DEF IInv, EditInv, At
<1>12. \A s \in Servers, c \in CredentialIds : Claims(s, c)' => Claims(s, c)
  BY <1>4, <1>6, <1>10 DEF Claims, At, old
<1>13. ClaimInv'
  BY <1>1, <1>7, <1>12 DEF IInv, ClaimInv
<1>14. OwnerInv'
  <2> SUFFICES ASSUME NEW c \in CredentialIds, Private(c)
               PROVE  (\/ \E s \in Rows(servers) : servers[s].cred = c
                       \/ <<"credential", c>> \in disturbed
                       \/ \E p \in Requests : ChangedBy(p, c))'
    BY <1>7 DEF OwnerInv
  <2>1. ASSUME NEW s \in Rows(servers), servers[s].cred = c
        PROVE  (\E t \in Rows(servers) : servers[t].cred = c)' \/ ChangedBy(r, c)'
    <3>1. CASE s # x
      BY <1>6, <2>1, <3>1
    <3>2. CASE s = x
      <4>1. x = home[c]
        BY <1>1, <1>6, <2>1, <3>2 DEF IInv, ClaimInv, Claims, Rows
      <4>2. old = servers[x]
        BY <1>4, <4>1 DEF Private, Contested
      <4>3. (OwnRow(req[r].old) = c)'
        BY <1>1, <1>3, <1>6, <2>1, <3>2, <4>2 DEF OwnRow, SharedRow, Private, Hidden, Contested, Rows
      <4> QED
        BY <1>3, <4>3 DEF ChangedBy
    <3> QED
      BY <3>1, <3>2
  <2>2. ASSUME NEW p \in Requests, ChangedBy(p, c) PROVE ChangedBy(p, c)'
    <3>1. p # r
      BY <1>1, <2>2 DEF ChangedBy, At
    <3>2. req'[p] = req[p]
      BY <1>3, <3>1
    <3> QED
      BY <1>1, <2>2, <3>2 DEF ChangedBy, At, OwnRow, SharedRow, Rows
  <2> QED
    BY <1>1, <2>1, <2>2 DEF IInv, OwnerInv
<1>15. PasswordInv'
  <2> SUFFICES ASSUME NEW s \in Rows(servers)', Private(servers'[s].cred)
               PROVE  (\/ creds[servers[s].cred].for \in {Anyone, servers[s].target}
                       \/ <<"server", s>> \in disturbed
                       \/ \E p \in Requests : Changes(p, s) /\ At(p, "server") /\ req[p].row # None /\ req[p].id # 0)'
    BY <1>7 DEF PasswordInv
  <2>1. s \in Rows(servers) /\ servers'[s] = servers[s]
    BY <1>6
  <2>2. ASSUME NEW p \in Requests, Changes(p, s), At(p, "server")
        PROVE  Changes(p, s)' /\ req'[p] = req[p]
    <3>1. p # r
      BY <1>1, <2>2 DEF At
    <3> QED
      BY <1>3, <2>2, <3>1 DEF Changes, At
  <2> QED
    BY <1>1, <2>1, <2>2 DEF IInv, PasswordInv, At
<1> QED
  BY <1>5, <1>8, <1>9, <1>11, <1>13, <1>14, <1>15 DEF IInv

-----------------------------------------------------------------------------
(* The theorems. *)

LEMMA InitHolds == ASSUME Init PROVE IInv /\ DangleInv
<1>1. Idle \in States /\ Idle.pc = "idle"
  BY DEF Idle, States, Rest
<1>2. \A r \in Requests : req[r] = Idle /\ req[r].pc = "idle"
  BY <1>1 DEF Init
<1>3. Rows(creds) = {} /\ Rows(servers) = {} /\ Rows(repos) = {} /\ Rows(jobs) = {}
  BY DEF Init, Rows
<1>4. Types
  BY <1>1, <1>3, ResourcesConstants DEF Init, Types, TypeOK
<1>5. CredentialInv /\ PlanInv /\ PasswordInv /\ StoredInv
  BY <1>2, <1>3 DEF CredentialInv, PlanInv, Planning, PasswordInv, StoredInv, At, Removing
<1>6. EditInv
  BY <1>2 DEF EditInv, Changes, At
<1>7. ClaimInv /\ OwnerInv
  BY <1>3 DEF ClaimInv, OwnerInv, Private, Hidden, Contested
<1>8. DangleInv
  BY <1>2, <1>3 DEF DangleInv, NothingDangles, At
<1> QED
  BY <1>4, <1>5, <1>6, <1>7, <1>8 DEF IInv

LEMMA Kept == ASSUME IInv, [Next]_vars PROVE IInv'
<1>1. Types /\ Types'
  BY TypesKept DEF IInv
<1>2. CASE UNCHANGED vars
  <2>1. UNCHANGED <<creds, inserted, servers, repos, jobs, req, home, contested, disturbed>>
    BY <1>2 DEF vars, rowVars, editVars
  <2>2. \A j \in Rows(jobs)' : jobs'[j].pw \in {None, Via(jobs'[j])}
    BY <2>1 DEF IInv, StoredInv, Rows
  <2> QED
    BY <1>1, <2>1, <2>2, JobSteps
<1>3. ASSUME NEW r \in Requests, Starting(r) PROVE IInv'
  BY <1>3, StartKept
<1>4. ASSUME NEW r \in Requests,
             \/ WriteCredential(r) \/ DropCredential(r)
             \/ PersistCredential(r) \/ WriteServer(r) \/ DeleteOrphan(r) \/ ResetStatus(r)
             \/ DeleteServer(r) \/ DeletePrivateCredential(r) \/ RecordCheck(r)
             \/ WriteRepo(r) \/ DeleteRepo(r) \/ WriteJob(r) \/ BreakOff(r)
      PROVE  IInv'
  BY <1>1, <1>4, LibraryWrites, Deletes, Persists, ServerWrites, ServerDeleted, QuietEnds, Breaks
<1>5. ASSUME NEW j \in Jobs, DeleteJob(j) \/ SetPaused(j) PROVE IInv'
  BY <1>1, <1>5, JobChanges
<1> QED
  BY <1>1, <1>2, <1>3, <1>4, <1>5, Begins DEF Next

\* Nothing refers to a server or a location that was deleted, but for rows saved while
\* the deletion was under way (CheckReferences of server_svc, the Delete of repo_svc).
THEOREM DanglesCorrect == Spec => []NothingDangles
<1>1. Init => Types /\ DangleInv
  BY InitHolds DEF IInv
<1>2. Types /\ DangleInv /\ [Next]_vars => (Types /\ DangleInv)'
  BY TypesKept, DanglesKept
<1>3. DangleInv => NothingDangles
  BY DEF DangleInv
<1> QED
  BY <1>1, <1>2, <1>3, PTL DEF Spec

\* A private credential belongs to exactly one server, the one it was filled in for, but
\* while a request changes it or after one broke off (credential_entity: "a private
\* credential belongs to one server"), and unless two requests have changed that server at
\* once.
THEOREM OwnerCorrect == Spec => []OneOwner
<1>1. Init => IInv
  BY InitHolds
<1>2. IInv /\ [Next]_vars => IInv'
  BY Kept
<1>3. IInv => OneOwner
  <2> SUFFICES ASSUME IInv PROVE OneOwner
    OBVIOUS
  <2>1. Types /\ TypeOK
    BY DEF IInv, Types
  <2> SUFFICES ASSUME NEW c \in Rows(creds), ~SharedRow(c), ~Contested(c)
               PROVE  \/ UsedBy(c) = {home[c]}
                      \/ UsedBy(c) = {} /\ (<<"credential", c>> \in disturbed \/ \E r \in Requests : ChangedBy(r, c))
    BY <2>1 DEF OneOwner
  <2>2. c \in CredentialIds /\ Private(c)
    BY <2>1, RowFacts DEF Private, Hidden, SharedRow
  <2>3. CASE UsedBy(c) # {}
    <3>1. \A t \in UsedBy(c) : t \in Servers /\ Claims(t, c)
      BY <2>1, RowFacts DEF UsedBy, Claims, Rows
    <3>2. \A t \in UsedBy(c) : t = home[c]
      BY <2>2, <3>1 DEF IInv, ClaimInv
    <3> QED
      BY <2>3, <3>2
  <2>4. CASE UsedBy(c) = {}
    BY <2>2, <2>4 DEF IInv, OwnerInv, UsedBy
  <2> QED
    BY <2>3, <2>4
<1> QED
  BY <1>1, <1>2, <1>3, PTL DEF Spec

\* A password is sent only where it was typed for (mergeCredential of server_svc, build of
\* repo_svc, dbPassword of job_svc), but to a server whose save broke off in between, and
\* but for a row whose own server two requests have changed at once.
THEOREM PasswordCorrect == Spec => []PasswordForTarget
<1>1. Init => IInv
  BY InitHolds
<1>2. IInv /\ [Next]_vars => IInv'
  BY Kept
<1>3. IInv => PasswordForTarget
  <2> SUFFICES ASSUME IInv PROVE PasswordForTarget
    OBVIOUS
  <2>1. \A s \in Rows(servers) : LET c == servers[s].cred IN
          creds[c].for = Anyone \/ Contested(c) \/ Private(c)
    BY DEF IInv, CredentialInv, Private, Hidden
  <2> QED
    BY <2>1 DEF IInv, PasswordInv, StoredInv, PasswordForTarget, Changes
<1> QED
  BY <1>1, <1>2, <1>3, PTL DEF Spec

\* A save or a deletion of a server takes no credential out of the library and hides none
\* (resolveCredential, orphanPrivate, deletePrivateCredential of server_svc), unless it is
\* of a server that two requests have changed at once.
THEOREM LibraryCorrect == Spec => LibraryStays
<1> DEFINE A == \A c \in CredentialIds : SharedRow(c) /\ ~SharedRow(c)' =>
                  \/ Contested(c)
                  \/ \E r \in Requests : At(r, "drop") /\ req[r].id = c
<1>1. Init => IInv
  BY InitHolds
<1>2. IInv /\ [Next]_vars => IInv'
  BY Kept
<1>3. IInv /\ [Next]_vars => [A]_vars
  <2> SUFFICES ASSUME IInv, Next, NEW c \in CredentialIds, SharedRow(c), ~SharedRow(c)', ~Contested(c)
               PROVE  \E r \in Requests : At(r, "drop") /\ req[r].id = c
    OBVIOUS
  <2>1. Types /\ creds \in [CredentialIds -> {None} \cup Credential] /\ creds'[c] # creds[c] /\ ~Private(c)
        /\ Types'
    <3>1. Types /\ Types'
      BY TypesKept DEF IInv
    <3> QED
      BY <3>1 DEF Types, TypeOK, SharedRow, Rows, Private, Hidden, Contested
  <2>2. ASSUME NEW r \in Requests, Starting(r) PROVE FALSE
    BY <2>1, <2>2 DEF Starting, Begin, rowVars
  <2>3. ASSUME NEW r \in Requests, WriteCredential(r) PROVE FALSE
    <3>1. req[r] \in LibrarySaves /\ At(r, "library")
      BY <2>1, <2>3, Forms DEF WriteCredential
    <3>2. req[r].row \in Credential /\ req[r].row.shared /\ req[r].id \in 0 .. MaxCredentials
      BY <3>1 DEF LibrarySaves, IInv, CredentialInv
    <3>3. PutCredential(req[r].id, req[r].row, None)
      BY <2>1, <2>3 DEF WriteCredential
    <3>4. creds'[c] = req[r].row
      <4>1. c # inserted + 1
        BY <2>1, RowFacts DEF SharedRow
      <4>2. c = req[r].id /\ req[r].id # 0
        BY <2>1, <3>2, <3>3, <4>1, PutTypes
      <4>3. creds[c] # None
        BY DEF SharedRow, Rows
      <4> QED
        BY <2>1, <3>2, <3>3, <4>2, <4>3, PutTypes
    <3>5. c \in Rows(creds)'
      BY <2>1, <3>2, <3>4, IdentifiersAssumption DEF Rows, Types, TypeOK
    <3> QED
      BY <3>2, <3>4, <3>5 DEF SharedRow
  <2>4. ASSUME NEW r \in Requests, PersistCredential(r) PROVE FALSE
    <3>1. ~(req[r].row.shared /\ Taken(req[r].row.name, req[r].id))
      BY <2>1, <2>4 DEF PersistCredential
    <3>2. PutCredential(req[r].id, req[r].row, req[r].x) /\ req[r].x \in Servers /\ req[r].row \in Credential /\ req[r].id \in 0 .. MaxCredentials
      BY <2>1, <2>4, <3>1, Persisted
    <3>3. c # inserted + 1
      BY <2>1, RowFacts DEF SharedRow
    <3>4. PlanOK(req[r]) /\ At(r, "credential")
      BY <2>4 DEF PersistCredential, IInv, PlanInv, Planning, At
    <3>5. c # req[r].id \/ req[r].id = 0
      BY <2>1, <3>4 DEF PlanOK, PlanRest, Typed, At
    <3> QED
      BY <2>1, <3>2, <3>3, <3>5, PutTypes
  <2>5. ASSUME NEW r \in Requests, DeleteOrphan(r) \/ DeletePrivateCredential(r) PROVE FALSE
    <3>1. creds' = Without(OwnRow(req[r].old)) /\ OwnRow(req[r].old) # 0
      BY <2>1, <2>5 DEF DeleteOrphan, DeletePrivateCredential, Orphan
    <3>2. req[r].old \in Server \cup {None}
      BY <2>1, <2>5, Forms DEF DeleteOrphan, DeletePrivateCredential, At, Planning, Plans, ServerDeletes
    <3>3. c # OwnRow(req[r].old)
      BY <2>1, <3>1, <3>2, OwnRowFacts DEF Hidden, SharedRow
    <3> QED
      BY <2>1, <3>1, <3>3, WithoutTypes
  <2>6. ASSUME NEW r \in Requests, DropCredential(r) PROVE At(r, "drop") /\ req[r].id = c
    BY <2>1, <2>6, WithoutTypes DEF DropCredential
  <2>7. ASSUME UNCHANGED creds PROVE FALSE
    BY <2>1, <2>7
  <2> QED
    BY <2>1, <2>2, <2>3, <2>4, <2>5, <2>6, <2>7, Begins
       DEF Next, WriteServer, ResetStatus, DeleteServer, RecordCheck, WriteRepo, DeleteRepo, WriteJob, BreakOff,
           DeleteJob, SetPaused, rowVars
<1> QED
  BY <1>1, <1>2, <1>3, PTL DEF Spec, LibraryStays
=============================================================================
