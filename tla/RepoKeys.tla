------------------------------ MODULE RepoKeys ------------------------------
(***************************************************************************)
(* The restic keys of one storage location: src/internal/service/repo_svc. *)
(* A location is created (a new repository, or an existing one opened with *)
(* its password), its opsnap key is replaced, a recovery key is added or   *)
(* removed; each is a row of restic commands and database updates that is  *)
(* undone when a step fails.  Runs and maintenance use the saved key.      *)
(*                                                                         *)
(* A key is both its password and its ID.  The location's lock is the      *)
(* abstract one that RepoLock implements.  The name, the address, the      *)
(* statistics and the results of maintenance are left out.                 *)
(***************************************************************************)
EXTENDS Integers, FiniteSets

CONSTANTS Ops,          \* requests that change keys
          Users,        \* runs and maintenance
          MaxKeys,      \* bound: keys ever generated
          MaxFailures,  \* bound: commands and updates that fail by themselves
          MaxCrashes,   \* bound: crashes of the process
          Repo, Existing  \* the location; the password of an existing repository

ASSUME RepoKeysConstants ==
  /\ MaxKeys \in Nat /\ MaxFailures \in Nat /\ MaxCrashes \in Nat
  /\ Ops \cap Users = {}

NoKey == 0
Made == 1 .. MaxKeys

VARIABLES
  repoKeys,   \* the keys that open the repository; {}: there is no repository yet
  saved,      \* the record: [opsnap, recovery], NoKey when there is none; opsnap is
              \* NoKey while the location is not recorded
  generated,  \* number of keys generated
  pc,         \* [Ops \cup Users -> where the request is]
  kind,       \* [Ops \cup Users -> what it is]
  copy,       \* [Ops \cup Users -> its copy of the record]
  fresh,      \* [Ops -> the key it generated]
  strays,     \* history: keys left by requests to create the location that failed
  failures, crashes,
  unsaid,     \* history: keys that a restic reported as failed has added or removed
  shared, exclusive, queued  \* the location's lock (RWLock)

lockVars == <<shared, exclusive, queued>>
procVars == <<pc, kind, copy, fresh>>
vars == <<repoKeys, saved, generated, procVars, strays, failures, unsaid, crashes, lockVars>>

Procs == Ops \cup Users
Lock == INSTANCE RWLock WITH Procs <- Procs, Repos <- {Repo}

Blank == [opsnap |-> NoKey, recovery |-> NoKey]

Init ==
  /\ repoKeys \in {{}, {Existing}}
  /\ saved = Blank
  /\ generated = 0
  /\ pc = [p \in Procs |-> "idle"] /\ kind = [p \in Procs |-> "none"]
  /\ copy = [p \in Procs |-> Blank] /\ fresh = [o \in Ops |-> NoKey]
  /\ strays = {} /\ failures = 0 /\ unsaid = {} /\ crashes = 0
  /\ Lock!Init

-----------------------------------------------------------------------------
(* What the requests are made of.                                          *)

Recorded == saved.opsnap # NoKey
Goto(p, l) == pc' = [pc EXCEPT ![p] = l]

\* Something fails by itself.
Fails == failures < MaxFailures /\ failures' = failures + 1

\* A restic command with the given key, which leaves after in the repository; then the
\* request goes on at good, or at bad when the key does not open or restic fails.  One
\* that fails (is killed at keyOpTimeout, loses its connection) may have done its work.
Restic(p, key, after, good, bad) ==
  \/ key \in repoKeys /\ repoKeys' = after /\ Goto(p, good) /\ UNCHANGED <<failures, unsaid>>
  \/ key \notin repoKeys /\ Goto(p, bad) /\ UNCHANGED <<repoKeys, failures, unsaid>>
  \/ Fails /\ Goto(p, bad) /\ UNCHANGED <<repoKeys, unsaid>>
  \/ /\ key \in repoKeys /\ Fails /\ Goto(p, bad)
     /\ repoKeys' = after
     /\ unsaid' = unsaid \cup (repoKeys \ after) \cup (after \ repoKeys)

\* A database update of the record's keys.
UpdateKeys(p, keys, good, bad) ==
  /\ \/ saved' = keys /\ Goto(p, good) /\ UNCHANGED failures
     \/ Fails /\ Goto(p, bad) /\ UNCHANGED saved
  /\ UNCHANGED unsaid

Generate(p) ==
  /\ generated < MaxKeys
  /\ generated' = generated + 1
  /\ fresh' = [fresh EXCEPT ![p] = generated + 1]

-----------------------------------------------------------------------------
(* Create.  Nobody else can name the location before it is recorded.       *)

\* probeRepo found no repository, and none there is initialised; or an existing one is
\* opened with its password and the opsnap key is added (and verified).  What was added
\* stays when the key cannot be listed or the marker cannot be written.  Then the
\* recovery key, if wanted, is added; its failure is only reported.
StartCreate(o) ==
  /\ pc[o] = "idle" /\ ~Recorded /\ \A q \in Ops : kind[q] # "create"
  /\ kind' = [kind EXCEPT ![o] = "create"]
  /\ Generate(o)
  /\ Goto(o, IF repoKeys = {} THEN "init" ELSE "adopt")
  /\ UNCHANGED <<repoKeys, saved, copy, strays, failures, unsaid, crashes, lockVars>>

InitRepo(o) ==
  /\ pc[o] = "init"
  /\ \/ repoKeys' = {fresh[o]} /\ Goto(o, "created") /\ UNCHANGED failures
     \/ Fails /\ repoKeys' \in {repoKeys, {fresh[o]}} /\ Goto(o, "end")
  /\ copy' = [copy EXCEPT ![o].opsnap = fresh[o]]
  /\ UNCHANGED <<saved, generated, kind, fresh, strays, unsaid, crashes, lockVars>>

AdoptRepo(o) ==
  /\ pc[o] = "adopt"
  /\ \/ Restic(o, Existing, repoKeys \cup {fresh[o]}, "created", "end")
     \/ /\ Existing \in repoKeys /\ Fails /\ Goto(o, "end")
        /\ repoKeys' = repoKeys \cup {fresh[o]} /\ UNCHANGED unsaid
  /\ copy' = [copy EXCEPT ![o].opsnap = fresh[o]]
  /\ UNCHANGED <<saved, generated, kind, fresh, strays, crashes, lockVars>>

AddFirstRecoveryKey(o) ==
  /\ pc[o] = "created" /\ copy[o].recovery = NoKey /\ generated < MaxKeys
  /\ Restic(o, fresh[o], repoKeys \cup {generated + 1}, "created", "keyless")
  /\ copy' = [copy EXCEPT ![o].recovery = IF pc'[o] = "created" THEN generated + 1 ELSE NoKey]
  /\ generated' = generated + 1
  /\ UNCHANGED <<saved, kind, fresh, strays, crashes, lockVars>>

SaveCreated(o) ==
  /\ pc[o] \in {"created", "keyless"}
  /\ UpdateKeys(o, copy[o], "end", "end")
  /\ UNCHANGED <<repoKeys, generated, kind, copy, fresh, strays, crashes, lockVars>>

-----------------------------------------------------------------------------
(* RotateKey, GenerateRecoveryKey, RemoveRecoveryKey.                      *)

\* The checks on the record that precede the commands.
Allowed(k, keys) ==
  CASE k = "rotate" -> TRUE
    [] k = "generate" -> keys.recovery = NoKey
    [] k = "remove" -> keys.recovery # NoKey

FindKeys(o, k) ==
  /\ pc[o] = "idle" /\ Recorded /\ Allowed(k, saved)
  /\ kind' = [kind EXCEPT ![o] = k]
  /\ copy' = [copy EXCEPT ![o] = saved]
  /\ Goto(o, "found")
  /\ UNCHANGED <<repoKeys, saved, generated, fresh, strays, failures, unsaid, crashes, lockVars>>

\* Mutants of KeyOp: the record is not read again; the lock is the shared one; an early return
\* forgets to release it.
KeyOpStale(o) ==
  /\ pc[o] = "found"
  /\ \/ Lock!GrantExclusive(o, Repo) /\ Goto(o, "open")
     \/ Goto(o, "end") /\ UNCHANGED lockVars
  /\ UNCHANGED <<repoKeys, saved, generated, kind, copy, fresh, strays, failures, unsaid, crashes>>
KeyOpShared(o) ==
  /\ pc[o] = "found"
  /\ \/ /\ Lock!GrantShared(o, Repo)
        /\ copy' = [copy EXCEPT ![o] = saved]
        /\ Goto(o, IF Allowed(kind[o], saved) THEN "open" ELSE "end")
     \/ Goto(o, "end") /\ UNCHANGED <<copy, lockVars>>
  /\ UNCHANGED <<repoKeys, saved, generated, kind, fresh, strays, failures, unsaid, crashes>>

\* keyOp: the exclusive lock or "busy"; under it the record is read again and checked
\* again; the mount may be missing or the backend may not open.
KeyOp(o) ==
  /\ pc[o] = "found"
  /\ \/ /\ Lock!GrantExclusive(o, Repo)
        /\ copy' = [copy EXCEPT ![o] = saved]
        /\ Goto(o, IF Allowed(kind[o], saved) THEN "open" ELSE "end")
     \/ Goto(o, "end") /\ UNCHANGED <<copy, lockVars>>
  /\ UNCHANGED <<repoKeys, saved, generated, kind, fresh, strays, failures, unsaid, crashes>>

CannotOpen(o) ==
  /\ pc[o] = "open"
  /\ Goto(o, "end")
  /\ UNCHANGED <<repoKeys, saved, generated, kind, copy, fresh, strays, failures, unsaid, crashes, lockVars>>

\* addKey: the new key is added with the saved one, then has to open the repository;
\* if it does not, what was added is removed again.
AddKey(o) ==
  /\ pc[o] = "open" /\ kind[o] \in {"rotate", "generate"}
  /\ Generate(o)
  /\ Restic(o, copy[o].opsnap, repoKeys \cup {generated + 1}, "added", "end")
  /\ UNCHANGED <<saved, kind, copy, strays, crashes, lockVars>>

VerifyKey(o) ==
  /\ pc[o] = "added"
  /\ Restic(o, fresh[o], repoKeys, "verified", "dropNew")
  /\ UNCHANGED <<saved, generated, kind, copy, fresh, strays, crashes, lockVars>>

\* removeAdded, removeKey: the added key is removed with the old one, as well as can be.
DropNew(o) ==
  /\ pc[o] = "dropNew"
  /\ Restic(o, copy[o].opsnap, repoKeys \ {fresh[o]}, "end", "end")
  /\ UNCHANGED <<saved, generated, kind, copy, fresh, strays, crashes, lockVars>>

SaveNew(o) ==
  /\ pc[o] = "verified"
  /\ \/ /\ kind[o] = "rotate"
        /\ UpdateKeys(o, [copy[o] EXCEPT !.opsnap = fresh[o]], "removeOld", "dropNew")
     \/ /\ kind[o] = "generate"
        /\ UpdateKeys(o, [copy[o] EXCEPT !.recovery = fresh[o]], "end", "dropNew")
  /\ UNCHANGED <<repoKeys, generated, kind, copy, fresh, strays, crashes, lockVars>>

\* RotateKey: the old key is removed with the new one; when that fails the old record is
\* restored and then the new key removed.  When the record cannot be restored, both keys
\* stay.
RemoveOld(o) ==
  /\ pc[o] = "removeOld"
  /\ Restic(o, fresh[o], repoKeys \ {copy[o].opsnap}, "end", "restore")
  /\ UNCHANGED <<saved, generated, kind, copy, fresh, strays, crashes, lockVars>>

\* Mutant of Restore: the new key is removed although the record still names it.
RestoreIgnored(o) ==
  /\ pc[o] = "restore"
  /\ UpdateKeys(o, copy[o], "dropNew", "dropNew")
  /\ UNCHANGED <<repoKeys, generated, kind, copy, fresh, strays, crashes, lockVars>>

Restore(o) ==
  /\ pc[o] = "restore"
  /\ UpdateKeys(o, copy[o], "dropNew", "end")
  /\ UNCHANGED <<repoKeys, generated, kind, copy, fresh, strays, crashes, lockVars>>

\* RemoveRecoveryKey: first in the repository, then in the record.
RemoveRecovery(o) ==
  /\ pc[o] = "open" /\ kind[o] = "remove"
  /\ Restic(o, copy[o].opsnap, repoKeys \ {copy[o].recovery}, "removed", "end")
  /\ UNCHANGED <<saved, generated, kind, copy, fresh, strays, crashes, lockVars>>

SaveRemoval(o) ==
  /\ pc[o] = "removed"
  /\ UpdateKeys(o, [copy[o] EXCEPT !.recovery = NoKey], "end", "end")
  /\ UNCHANGED <<repoKeys, generated, kind, copy, fresh, strays, crashes, lockVars>>

\* The request returns: done releases the lock if keyOp got it.
End(o) ==
  /\ pc[o] = "end"
  /\ IF o \in exclusive[Repo] THEN Lock!Release(o, Repo) ELSE UNCHANGED lockVars
  /\ Goto(o, "idle") /\ kind' = [kind EXCEPT ![o] = "none"]
  /\ copy' = [copy EXCEPT ![o] = Blank] /\ fresh' = [fresh EXCEPT ![o] = NoKey]
  /\ strays' = IF kind[o] = "create" /\ ~Recorded THEN strays \cup repoKeys ELSE strays
  /\ UNCHANGED <<repoKeys, saved, generated, failures, unsaid, crashes>>

-----------------------------------------------------------------------------
(* Users of the key.  "run" reads it and then gets the shared lock: a run  *)
(* waits for it, a recheck tries it.  "start" (check, prune from the       *)
(* panel) reads it and tries the exclusive lock; "maintain" (weekly) waits *)
(* for the exclusive lock and reads the record again under it.             *)

FindLocation(u, k) ==
  /\ pc[u] = "idle" /\ Recorded
  /\ kind' = [kind EXCEPT ![u] = k]
  /\ copy' = [copy EXCEPT ![u] = saved]
  /\ Goto(u, "found")
  /\ UNCHANGED <<repoKeys, saved, generated, fresh, strays, failures, unsaid, crashes, lockVars>>

QueueMaintain(u) ==
  /\ pc[u] = "found" /\ kind[u] = "maintain" /\ u \notin queued[Repo]
  /\ Lock!Queue(u, Repo)
  /\ UNCHANGED <<repoKeys, saved, generated, procVars, strays, failures, unsaid, crashes>>

GetLock(u) ==
  /\ pc[u] = "found"
  /\ IF kind[u] \in {"start", "maintain"} THEN Lock!GrantExclusive(u, Repo)
                                          ELSE Lock!GrantShared(u, Repo)
  /\ copy' = [copy EXCEPT ![u] = IF kind[u] = "maintain" THEN saved ELSE @]
  /\ Goto(u, "using")
  /\ UNCHANGED <<repoKeys, saved, generated, kind, fresh, strays, failures, unsaid, crashes>>

\* "busy", or the context ended while it waited.
NoLock(u) ==
  /\ pc[u] = "found"
  /\ IF u \in queued[Repo] THEN Lock!Withdraw(u, Repo) ELSE UNCHANGED lockVars
  /\ Goto(u, "idle") /\ kind' = [kind EXCEPT ![u] = "none"]
  /\ copy' = [copy EXCEPT ![u] = Blank]
  /\ UNCHANGED <<repoKeys, saved, generated, fresh, strays, failures, unsaid, crashes>>

Used(u) ==
  /\ pc[u] = "using"
  /\ Lock!Release(u, Repo)
  /\ Goto(u, "idle") /\ kind' = [kind EXCEPT ![u] = "none"]
  /\ copy' = [copy EXCEPT ![u] = Blank]
  /\ UNCHANGED <<repoKeys, saved, generated, fresh, strays, failures, unsaid, crashes>>

Crash ==
  /\ crashes < MaxCrashes /\ crashes' = crashes + 1
  /\ pc' = [p \in Procs |-> "idle"] /\ kind' = [p \in Procs |-> "none"]
  /\ copy' = [p \in Procs |-> Blank] /\ fresh' = [o \in Ops |-> NoKey]
  /\ shared' = [x \in {Repo} |-> {}] /\ exclusive' = [x \in {Repo} |-> {}]
  /\ queued' = [x \in {Repo} |-> {}]
  /\ UNCHANGED <<repoKeys, saved, generated, strays, failures, unsaid>>

-----------------------------------------------------------------------------
OpStep(o) ==
  \/ InitRepo(o) \/ AdoptRepo(o) \/ AddFirstRecoveryKey(o) \/ SaveCreated(o)
  \/ KeyOp(o) \/ CannotOpen(o)
  \/ AddKey(o) \/ VerifyKey(o) \/ DropNew(o) \/ SaveNew(o) \/ RemoveOld(o) \/ Restore(o)
  \/ RemoveRecovery(o) \/ SaveRemoval(o)
  \/ End(o)

Next ==
  \/ \E o \in Ops : \/ StartCreate(o)
                    \/ \E k \in {"rotate", "generate", "remove"} : FindKeys(o, k)
                    \/ OpStep(o)
  \/ \E u \in Users : \/ \E k \in {"run", "start", "maintain"} : FindLocation(u, k)
                      \/ QueueMaintain(u) \/ GetLock(u) \/ NoLock(u) \/ Used(u)
  \/ Crash

Spec == Init /\ [][Next]_vars

-----------------------------------------------------------------------------
(* Properties.                                                             *)

Keys == Made \cup {Existing}
Places == {"idle", "init", "adopt", "created", "keyless", "found", "open", "added", "verified",
           "dropNew", "removeOld", "restore", "removed", "using", "end"}
Kinds == {"none", "create", "rotate", "generate", "remove", "run", "start", "maintain"}
KeyRecords == [opsnap : Made \cup {NoKey}, recovery : Made \cup {NoKey}]

TypeOK ==
  /\ repoKeys \subseteq Keys
  /\ saved \in KeyRecords
  /\ generated \in 0 .. MaxKeys
  /\ pc \in [Procs -> Places] /\ kind \in [Procs -> Kinds]
  /\ copy \in [Procs -> KeyRecords]
  /\ fresh \in [Ops -> Made \cup {NoKey}]
  /\ strays \subseteq Keys
  /\ failures \in 0 .. MaxFailures /\ unsaid \subseteq Keys /\ crashes \in 0 .. MaxCrashes
  /\ shared \in [{Repo} -> SUBSET Users]
  /\ exclusive \in [{Repo} -> SUBSET Procs]
  /\ queued \in [{Repo} -> SUBSET Users]

\* The saved opsnap key opens the repository: whichever steps of a rotation fail or are
\* cut off by a crash, and whatever other requests do meanwhile (RotateKey adds, saves
\* and only then removes; it restores the record before it removes the new key).  Only a
\* removal of that very key which took effect although it was reported as failed is
\* beyond it.
SavedKeyOpens == Recorded => saved.opsnap \in repoKeys \cup unsaid

\* One failing step, anywhere, leaves no key in the repository that opsnap does not know,
\* but one that a restic added although it was reported as failed; and without a failure
\* the recovery key that the panel shows exists.  Not judged: a crash, the rest of a
\* failed Create, and a location whose saved key was removed in silence.
AsRecorded ==
  LET known == {saved.opsnap, saved.recovery, Existing} \cup strays IN
  Recorded /\ crashes = 0 /\ (\A o \in Ops : pc[o] \in {"idle", "found", "end"}) =>
    /\ failures <= 1 /\ saved.opsnap \in repoKeys => repoKeys \subseteq known \cup unsaid
    /\ failures = 0 => saved.recovery \in repoKeys \cup {NoKey}

\* The opsnap key is not removed from the repository under the commands of a run, of a
\* recheck or of maintenance.
KeyInUseStays ==
  [][\A u \in Users :
       pc[u] = "using" /\ pc'[u] = "using" /\ copy[u].opsnap \in repoKeys
         => copy[u].opsnap \in repoKeys']_vars

=============================================================================
