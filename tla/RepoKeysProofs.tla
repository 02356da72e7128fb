--------------------------- MODULE RepoKeysProofs ---------------------------
(***************************************************************************)
(* The saved opsnap key opens the repository in every state, for any       *)
(* number of requests, users, keys, failures and crashes, unless a restic  *)
(* removed that very key and was reported as failed.                       *)
(*                                                                         *)
(* Why: a request that changes keys is, from keyOp on, the only holder of  *)
(* the location, so the record it read under the lock is the record until  *)
(* it writes it; the key it adds is newer than every other one, hence none *)
(* of the keys the record names; and before the location is recorded only  *)
(* one request, the one that creates it, knows of it.                      *)
(*                                                                         *)
(* And it leaves no key behind that opsnap does not know of unless two     *)
(* steps fail: every key that the record does not name is one that the     *)
(* request at work will name or remove.                                    *)
(***************************************************************************)
EXTENDS RepoKeys, FiniteSetTheorems, TLAPS

\* From keyOp on.
Inside(o) ==
  pc[o] \in {"open", "added", "verified", "dropNew", "removeOld", "restore", "removed"}

\* Keys named by records, by copies of them and by requests have been generated.
Known ==
  /\ saved.opsnap <= generated /\ saved.recovery <= generated
  /\ \A o \in Ops : /\ copy[o].opsnap <= generated /\ copy[o].recovery <= generated
                    /\ fresh[o] <= generated

\* The record names two different keys, or none at all.
TwoKeys == saved.opsnap # saved.recovery \/ saved = Blank

\* A request inside holds the location, alone.
Holding == \A o \in Ops : Inside(o) => Recorded /\ exclusive[Repo] = {o}

\* What a request inside knows of the record and of the repository.
Reading ==
  \A o \in Ops :
    /\ pc[o] \in {"open", "added", "verified", "dropNew", "removed"} => copy[o] = saved
    /\ pc[o] \in {"added", "verified", "dropNew", "removeOld", "restore"} =>
         fresh[o] # copy[o].opsnap /\ fresh[o] # NoKey
    /\ pc[o] \in {"added", "verified", "removeOld", "restore"} => fresh[o] \in repoKeys
    /\ pc[o] \in {"added", "verified"} => fresh[o] # copy[o].recovery
    /\ pc[o] \in {"added", "verified", "removeOld"} => copy[o].opsnap \in repoKeys
    /\ pc[o] \in {"removeOld", "restore"} =>
         /\ saved = [copy[o] EXCEPT !.opsnap = fresh[o]]
         /\ copy[o].opsnap # copy[o].recovery /\ copy[o].opsnap # NoKey
         /\ fresh[o] # copy[o].recovery
         /\ copy[o].opsnap \in repoKeys \cup unsaid

\* A location that is not recorded is known to the request that creates it only.
Creating ==
  /\ \A o, q \in Ops : kind[o] = "create" /\ kind[q] = "create" => o = q
  /\ \A o \in Ops : pc[o] \in {"init", "adopt", "created", "keyless"} => kind[o] = "create" /\ ~Recorded
  /\ \A o \in Ops : pc[o] \in {"init", "adopt"} => fresh[o] # NoKey /\ copy[o].recovery = NoKey
  /\ \A o \in Ops : pc[o] \in {"created", "keyless"} =>
       /\ fresh[o] # NoKey /\ copy[o].opsnap = fresh[o] /\ fresh[o] \in repoKeys
       /\ copy[o].recovery # fresh[o]
  /\ ~Recorded => saved = Blank
  /\ \A o \in Ops : /\ pc[o] = "idle" => copy[o] = Blank
                    /\ pc[o] = "found" => Recorded

IInv == TypeOK /\ Known /\ TwoKeys /\ Holding /\ Reading /\ Creating /\ SavedKeyOpens
-----------------------------------------------------------------------------
\* The shapes of the steps.
LEMMA InitTypeOK == Init => TypeOK
  BY RepoKeysConstants
  DEF Init, TypeOK, Lock!Init, Keys, KeyRecords, NoKey, Blank, Procs, Places, Kinds

LEMMA GotoType ==
  ASSUME TypeOK, NEW p \in Procs, NEW l \in Places, Goto(p, l)
  PROVE  pc' \in [Procs -> Places]
  BY DEF TypeOK, Goto

\* What a restic command may change.
LEMMA ResticType ==
  ASSUME TypeOK, NEW p \in Procs, NEW key, NEW after \in SUBSET Keys,
         NEW good \in Places, NEW bad \in Places, Restic(p, key, after, good, bad)
  PROVE  /\ repoKeys' \subseteq Keys /\ failures' \in 0 .. MaxFailures
         /\ unsaid' \subseteq Keys /\ pc' \in [Procs -> Places]
<1>1. Goto(p, good) \/ Goto(p, bad)
  BY DEF Restic
<1>2. pc' \in [Procs -> Places]
  BY <1>1, GotoType
<1>3. repoKeys' \in {repoKeys, after} /\ failures' \in 0 .. MaxFailures /\ unsaid' \subseteq Keys
  BY RepoKeysConstants DEF Restic, Fails, TypeOK
<1> QED
  BY <1>2, <1>3 DEF TypeOK

LEMMA UpdateKeysType ==
  ASSUME TypeOK, NEW p \in Procs, NEW keys \in KeyRecords,
         NEW good \in Places, NEW bad \in Places, UpdateKeys(p, keys, good, bad)
  PROVE  /\ saved' \in KeyRecords /\ failures' \in 0 .. MaxFailures
         /\ unsaid' = unsaid /\ pc' \in [Procs -> Places]
<1>1. Goto(p, good) \/ Goto(p, bad)
  BY DEF UpdateKeys
<1>2. pc' \in [Procs -> Places]
  BY <1>1, GotoType
<1>3. saved' \in {saved, keys} /\ failures' \in 0 .. MaxFailures /\ unsaid' = unsaid
  BY RepoKeysConstants DEF UpdateKeys, Fails, TypeOK
<1> QED
  BY <1>2, <1>3 DEF TypeOK

LEMMA GenerateType ==
  ASSUME TypeOK, NEW o \in Ops, Generate(o)
  PROVE  /\ generated' \in 0 .. MaxKeys /\ generated' = generated + 1 /\ generated + 1 \in Made
         /\ fresh' \in [Ops -> Made \cup {NoKey}]
  BY RepoKeysConstants DEF TypeOK, Generate, Made

LEMMA OpTypeOK ==
  ASSUME IInv, NEW o \in Ops, OpStep(o)
  PROVE  TypeOK'
<1>0. /\ TypeOK /\ o \in Procs /\ fresh[o] \in Made \cup {NoKey} /\ copy[o] \in KeyRecords
      /\ repoKeys \subseteq Keys /\ Made \subseteq Keys
  BY DEF IInv, TypeOK, Procs, Keys
<1> USE <1>0, RepoKeysConstants
<1>1. CASE InitRepo(o)
  <2>1. fresh[o] \in Made
    BY <1>1 DEF IInv, Creating, InitRepo
  <2>2. repoKeys' \subseteq Keys /\ failures' \in 0 .. MaxFailures
    BY <1>1, <2>1 DEF InitRepo, Fails, TypeOK
  <2>3. pc' \in [Procs -> Places]
    BY <1>1, GotoType DEF InitRepo, Places
  <2>4. copy' \in [Procs -> KeyRecords]
    BY <1>1, <2>1 DEF InitRepo, TypeOK, KeyRecords
  <2> QED
    BY <1>1, <2>2, <2>3, <2>4 DEF InitRepo, TypeOK, lockVars
<1>2. CASE AdoptRepo(o)
  <2>1. fresh[o] \in Made
    BY <1>2 DEF IInv, Creating, AdoptRepo
  <2>2. repoKeys \cup {fresh[o]} \in SUBSET Keys
    BY <2>1
  <2>3. /\ repoKeys' \subseteq Keys /\ failures' \in 0 .. MaxFailures
        /\ unsaid' \subseteq Keys /\ pc' \in [Procs -> Places]
    BY <1>2, <2>2, ResticType, GotoType DEF AdoptRepo, Places, Fails, TypeOK
  <2>4. copy' \in [Procs -> KeyRecords]
    BY <1>2, <2>1 DEF AdoptRepo, TypeOK, KeyRecords
  <2> QED
    BY <1>2, <2>3, <2>4 DEF AdoptRepo, TypeOK, lockVars
<1>3. CASE AddFirstRecoveryKey(o)
  <2>1. generated + 1 \in Made /\ repoKeys \cup {generated + 1} \in SUBSET Keys
    BY <1>3 DEF AddFirstRecoveryKey, Made, TypeOK, Keys
  <2>2. /\ repoKeys' \subseteq Keys /\ failures' \in 0 .. MaxFailures
        /\ unsaid' \subseteq Keys /\ pc' \in [Procs -> Places]
    BY <1>3, <2>1, ResticType DEF AddFirstRecoveryKey, Places
  <2>3. copy' \in [Procs -> KeyRecords]
    BY <1>3, <2>1 DEF AddFirstRecoveryKey, TypeOK, KeyRecords
  <2>4. generated' \in 0 .. MaxKeys
    BY <1>3 DEF AddFirstRecoveryKey, TypeOK
  <2> QED
    BY <1>3, <2>2, <2>3, <2>4 DEF AddFirstRecoveryKey, TypeOK, lockVars
<1>4. CASE SaveCreated(o)
  <2>1. copy[o] \in KeyRecords
    BY DEF KeyRecords
  <2>2. /\ saved' \in KeyRecords /\ failures' \in 0 .. MaxFailures
        /\ unsaid' = unsaid /\ pc' \in [Procs -> Places]
    BY <1>4, <2>1, UpdateKeysType DEF SaveCreated, Places
  <2> QED
    BY <1>4, <2>2 DEF SaveCreated, TypeOK, lockVars
<1>5. CASE KeyOp(o)
  <2>1. pc' \in [Procs -> Places]
    BY <1>5, GotoType DEF KeyOp, Places
  <2>2. copy' \in [Procs -> KeyRecords]
    BY <1>5 DEF KeyOp, TypeOK
  <2>3. exclusive' \in [{Repo} -> SUBSET Procs] /\ queued' \in [{Repo} -> SUBSET Users] /\ shared' = shared
    BY <1>5 DEF KeyOp, TypeOK, Lock!GrantExclusive, lockVars
  <2> QED
    BY <1>5, <2>1, <2>2, <2>3 DEF KeyOp, TypeOK
<1>6. CASE CannotOpen(o)
  BY <1>6, GotoType DEF CannotOpen, TypeOK, lockVars, Places
<1>7. CASE AddKey(o)
  <2>1. /\ generated' \in 0 .. MaxKeys /\ generated + 1 \in Made
        /\ fresh' \in [Ops -> Made \cup {NoKey}]
    BY <1>7, GenerateType DEF AddKey
  <2>2. repoKeys \cup {generated + 1} \in SUBSET Keys
    BY <2>1
  <2>3. /\ repoKeys' \subseteq Keys /\ failures' \in 0 .. MaxFailures
        /\ unsaid' \subseteq Keys /\ pc' \in [Procs -> Places]
    BY <1>7, <2>2, ResticType DEF AddKey, Places
  <2> QED
    BY <1>7, <2>1, <2>3 DEF AddKey, TypeOK, lockVars
<1>8. CASE VerifyKey(o)
  <2>1. repoKeys \in SUBSET Keys
    OBVIOUS
  <2>2. /\ repoKeys' \subseteq Keys /\ failures' \in 0 .. MaxFailures
        /\ unsaid' \subseteq Keys /\ pc' \in [Procs -> Places]
    BY <1>8, <2>1, ResticType DEF VerifyKey, Places
  <2> QED
    BY <1>8, <2>2 DEF VerifyKey, TypeOK, lockVars
<1>9. CASE DropNew(o)
  <2>1. (repoKeys \ {fresh[o]}) \in SUBSET Keys
    OBVIOUS
  <2>2. /\ repoKeys' \subseteq Keys /\ failures' \in 0 .. MaxFailures
        /\ unsaid' \subseteq Keys /\ pc' \in [Procs -> Places]
    BY <1>9, <2>1, ResticType DEF DropNew, Places
  <2> QED
    BY <1>9, <2>2 DEF DropNew, TypeOK, lockVars
<1>10. CASE SaveNew(o)
  <2>1. /\ [copy[o] EXCEPT !.opsnap = fresh[o]] \in KeyRecords
        /\ [copy[o] EXCEPT !.recovery = fresh[o]] \in KeyRecords
    BY DEF KeyRecords
  <2>2. /\ saved' \in KeyRecords /\ failures' \in 0 .. MaxFailures
        /\ unsaid' = unsaid /\ pc' \in [Procs -> Places]
    BY <1>10, <2>1, UpdateKeysType DEF SaveNew, Places
  <2> QED
    BY <1>10, <2>2 DEF SaveNew, TypeOK, lockVars
<1>11. CASE RemoveOld(o)
  <2>1. (repoKeys \ {copy[o].opsnap}) \in SUBSET Keys
    OBVIOUS
  <2>2. /\ repoKeys' \subseteq Keys /\ failures' \in 0 .. MaxFailures
        /\ unsaid' \subseteq Keys /\ pc' \in [Procs -> Places]
    BY <1>11, <2>1, ResticType DEF RemoveOld, Places
  <2> QED
    BY <1>11, <2>2 DEF RemoveOld, TypeOK, lockVars
<1>12. CASE Restore(o)
  <2>1. copy[o] \in KeyRecords
    BY DEF KeyRecords
  <2>2. /\ saved' \in KeyRecords /\ failures' \in 0 .. MaxFailures
        /\ unsaid' = unsaid /\ pc' \in [Procs -> Places]
    BY <1>12, <2>1, UpdateKeysType DEF Restore, Places
  <2> QED
    BY <1>12, <2>2 DEF Restore, TypeOK, lockVars
<1>13. CASE RemoveRecovery(o)
  <2>1. (repoKeys \ {copy[o].recovery}) \in SUBSET Keys
    OBVIOUS
  <2>2. /\ repoKeys' \subseteq Keys /\ failures' \in 0 .. MaxFailures
        /\ unsaid' \subseteq Keys /\ pc' \in [Procs -> Places]
    BY <1>13, <2>1, ResticType DEF RemoveRecovery, Places
  <2> QED
    BY <1>13, <2>2 DEF RemoveRecovery, TypeOK, lockVars
<1>14. CASE SaveRemoval(o)
  <2>1. [copy[o] EXCEPT !.recovery = NoKey] \in KeyRecords
    BY DEF KeyRecords
  <2>2. /\ saved' \in KeyRecords /\ failures' \in 0 .. MaxFailures
        /\ unsaid' = unsaid /\ pc' \in [Procs -> Places]
    BY <1>14, <2>1, UpdateKeysType DEF SaveRemoval, Places
  <2> QED
    BY <1>14, <2>2 DEF SaveRemoval, TypeOK, lockVars
<1>15. CASE End(o)
  <2>1. pc' \in [Procs -> Places] /\ kind' \in [Procs -> Kinds]
    BY <1>15, GotoType DEF End, TypeOK, Places, Kinds
  <2>2. copy' \in [Procs -> KeyRecords] /\ fresh' \in [Ops -> Made \cup {NoKey}]
    BY <1>15 DEF End, TypeOK, KeyRecords, Blank
  <2>3. strays' \subseteq Keys
    BY <1>15 DEF End, TypeOK
  <2>4. /\ shared' \in [{Repo} -> SUBSET Users] /\ exclusive' \in [{Repo} -> SUBSET Procs]
        /\ queued' = queued
    BY <1>15 DEF End, TypeOK, Lock!Release, lockVars
  <2> QED
    BY <1>15, <2>1, <2>2, <2>3, <2>4 DEF End, TypeOK
<1> QED
  BY <1>1, <1>2, <1>3, <1>4, <1>5, <1>6, <1>7, <1>8, <1>9, <1>10, <1>11, <1>12, <1>13, <1>14,
     <1>15 DEF OpStep

LEMMA OtherTypeOK ==
  ASSUME IInv, Next, ~ \E o \in Ops : OpStep(o)
  PROVE  TypeOK'
<1>0. TypeOK
  BY DEF IInv
<1> USE <1>0, RepoKeysConstants
<1>1. ASSUME NEW o \in Ops, StartCreate(o)
      PROVE  TypeOK'
  <2>1. pc' \in [Procs -> Places] /\ kind' \in [Procs -> Kinds]
    BY <1>1, GotoType DEF StartCreate, TypeOK, Places, Kinds, Procs
  <2> QED
    BY <1>1, <2>1, GenerateType DEF StartCreate, TypeOK, lockVars
<1>2. ASSUME NEW o \in Ops, NEW k \in {"rotate", "generate", "remove"}, FindKeys(o, k)
      PROVE  TypeOK'
  <2>1. pc' \in [Procs -> Places] /\ kind' \in [Procs -> Kinds]
    BY <1>2, GotoType DEF FindKeys, TypeOK, Places, Kinds, Procs
  <2> QED
    BY <1>2, <2>1 DEF FindKeys, TypeOK, lockVars
<1>3. ASSUME NEW u \in Users, NEW k \in {"run", "start", "maintain"}, FindLocation(u, k)
      PROVE  TypeOK'
  <2>1. pc' \in [Procs -> Places] /\ kind' \in [Procs -> Kinds]
    BY <1>3, GotoType DEF FindLocation, TypeOK, Places, Kinds, Procs
  <2> QED
    BY <1>3, <2>1 DEF FindLocation, TypeOK, lockVars
<1>4. ASSUME NEW u \in Users, QueueMaintain(u)
      PROVE  TypeOK'
  BY <1>4 DEF QueueMaintain, TypeOK, Lock!Queue, procVars
<1>5. ASSUME NEW u \in Users, GetLock(u)
      PROVE  TypeOK'
  <2>1. pc' \in [Procs -> Places] /\ copy' \in [Procs -> KeyRecords]
    BY <1>5, GotoType DEF GetLock, TypeOK, Places, Procs
  <2>2. /\ shared' \in [{Repo} -> SUBSET Users] /\ exclusive' \in [{Repo} -> SUBSET Procs]
        /\ queued' \in [{Repo} -> SUBSET Users]
    BY <1>5 DEF GetLock, TypeOK, Lock!GrantExclusive, Lock!GrantShared, Procs
  <2> QED
    BY <1>5, <2>1, <2>2 DEF GetLock, TypeOK
<1>6. ASSUME NEW u \in Users, NoLock(u) \/ Used(u)
      PROVE  TypeOK'
  <2>0. Goto(u, "idle") /\ u \in Procs
    BY <1>6 DEF NoLock, Used, Procs
  <2>1. pc' \in [Procs -> Places]
    BY <2>0, GotoType DEF Places
  <2>3. kind' \in [Procs -> Kinds]
    BY <1>6 DEF NoLock, Used, TypeOK, Kinds
  <2>4. Blank \in KeyRecords
    BY DEF Blank, KeyRecords, Made
  <2>5. copy' \in [Procs -> KeyRecords]
    BY <1>6, <2>4 DEF NoLock, Used, TypeOK
  <2>2. /\ shared' \in [{Repo} -> SUBSET Users] /\ exclusive' \in [{Repo} -> SUBSET Procs]
        /\ queued' \in [{Repo} -> SUBSET Users]
    BY <1>6 DEF NoLock, Used, TypeOK, Lock!Withdraw, Lock!Release, lockVars
  <2> QED
    BY <1>6, <2>1, <2>2, <2>3, <2>5 DEF NoLock, Used, TypeOK
<1>7. CASE Crash
  BY <1>7 DEF Crash, TypeOK, Places, Kinds, KeyRecords, Blank, NoKey
<1> QED
  BY <1>1, <1>2, <1>3, <1>4, <1>5, <1>6, <1>7 DEF Next
-----------------------------------------------------------------------------
\* While a request is inside, every other one waits, has ended, or is nowhere.
LEMMA Alone ==
  ASSUME IInv, NEW o \in Ops, Inside(o), NEW q \in Ops \ {o}
  PROVE  ~Inside(q) /\ pc[q] \notin {"init", "adopt", "created", "keyless"}
<1>1. o \in exclusive[Repo] /\ Recorded
  BY DEF IInv, Holding
<1>2. Inside(q) => exclusive[Repo] = {q}
  BY DEF IInv, Holding
<1> QED
  BY <1>1, <1>2 DEF IInv, Creating

LEMMA OpIInv ==
  ASSUME IInv, TypeOK', NEW o \in Ops, OpStep(o)
  PROVE  IInv'
<1>0. TypeOK /\ Known /\ TwoKeys /\ Holding /\ Reading /\ Creating /\ SavedKeyOpens
  BY DEF IInv
<1> USE <1>0, RepoKeysConstants DEF Inside, Recorded, NoKey, Blank, TypeOK, Procs, KeyRecords, Made, Goto, Fails
<1>1. CASE InitRepo(o)
  <2>1. Known'
    BY <1>1 DEF InitRepo, Known
  <2>2. TwoKeys'
    BY <1>1 DEF InitRepo, TwoKeys
  <2>3. Holding'
    BY <1>1 DEF InitRepo, Holding, Creating
  <2>4. Reading'
    BY <1>1 DEF InitRepo, Reading, Holding, Creating
  <2>5. Creating'
    BY <1>1 DEF InitRepo, Creating
  <2>6. SavedKeyOpens'
    BY <1>1 DEF InitRepo, SavedKeyOpens, Creating
  <2> QED
    BY <2>1, <2>2, <2>3, <2>4, <2>5, <2>6 DEF IInv
<1>2. CASE AdoptRepo(o)
  <2>1. Known'
    BY <1>2 DEF AdoptRepo, Known
  <2>2. TwoKeys'
    BY <1>2 DEF AdoptRepo, TwoKeys
  <2>3. Holding'
    BY <1>2 DEF AdoptRepo, Restic, Holding, Creating
  <2>4. Reading'
    BY <1>2 DEF AdoptRepo, Restic, Reading
  <2>5. Creating'
    BY <1>2 DEF AdoptRepo, Restic, Creating
  <2>6. SavedKeyOpens'
    BY <1>2 DEF AdoptRepo, SavedKeyOpens, Creating
  <2> QED
    BY <2>1, <2>2, <2>3, <2>4, <2>5, <2>6 DEF IInv
<1>3. CASE AddFirstRecoveryKey(o)
  <2>1. Known'
    BY <1>3 DEF AddFirstRecoveryKey, Known
  <2>2. TwoKeys'
    BY <1>3 DEF AddFirstRecoveryKey, TwoKeys
  <2>3. Holding'
    BY <1>3 DEF AddFirstRecoveryKey, Restic, Holding, Creating
  <2>4. Reading'
    BY <1>3 DEF AddFirstRecoveryKey, Restic, Reading
  <2>5. Creating'
    BY <1>3 DEF AddFirstRecoveryKey, Restic, Creating, Known
  <2>6. SavedKeyOpens'
    BY <1>3 DEF AddFirstRecoveryKey, SavedKeyOpens, Creating
  <2> QED
    BY <2>1, <2>2, <2>3, <2>4, <2>5, <2>6 DEF IInv
<1>4. CASE SaveCreated(o)
  <2>1. Known'
    BY <1>4 DEF SaveCreated, UpdateKeys, Known
  <2>2. TwoKeys'
    BY <1>4 DEF SaveCreated, UpdateKeys, TwoKeys, Creating
  <2>3. Holding'
    BY <1>4 DEF SaveCreated, UpdateKeys, Holding, Creating
  <2>4. Reading'
    BY <1>4 DEF SaveCreated, UpdateKeys, Reading, Holding, Creating
  <2>5. Creating'
    BY <1>4 DEF SaveCreated, UpdateKeys, Creating
  <2>6. SavedKeyOpens'
    BY <1>4 DEF SaveCreated, UpdateKeys, SavedKeyOpens, Creating
  <2> QED
    BY <2>1, <2>2, <2>3, <2>4, <2>5, <2>6 DEF IInv
<1>5. CASE KeyOp(o)
  <2>1. Known'
    BY <1>5 DEF KeyOp, Known
  <2>2. TwoKeys'
    BY <1>5 DEF KeyOp, TwoKeys
  <2>0. Inside(o)' => (\A q \in Ops : ~Inside(q)) /\ exclusive'[Repo] = {o}
    <3>1. CASE Lock!GrantExclusive(o, Repo)
      BY <1>5, <3>1 DEF KeyOp, Lock!GrantExclusive, Holding
    <3>2. CASE Goto(o, "end")
      BY <3>2
    <3> QED
      BY <1>5, <3>1, <3>2 DEF KeyOp
  <2>3. Holding'
    <3>1. CASE Inside(o)'
      BY <1>5, <2>0, <3>1 DEF KeyOp, Holding, Creating
    <3>2. CASE ~Inside(o)'
      <4>1. ASSUME NEW q \in Ops, Inside(q)'
            PROVE  exclusive' = exclusive /\ Inside(q) /\ saved' = saved
        <5>1. q # o /\ Inside(q) /\ saved' = saved
          BY <1>5, <3>2, <4>1 DEF KeyOp
        <5>2. exclusive[Repo] = {q}
          BY <5>1 DEF Holding
        <5> QED
          BY <1>5, <5>1, <5>2 DEF KeyOp, Lock!GrantExclusive, lockVars
      <4> QED
        BY <4>1 DEF Holding
    <3> QED
      BY <3>1, <3>2
  <2>4. Reading'
    BY <1>5 DEF KeyOp, Reading
  <2>5. Creating'
    BY <1>5 DEF KeyOp, Creating
  <2>6. SavedKeyOpens'
    BY <1>5 DEF KeyOp, SavedKeyOpens
  <2> QED
    BY <2>1, <2>2, <2>3, <2>4, <2>5, <2>6 DEF IInv
<1>6. CASE CannotOpen(o)
  <2>1. Known'
    BY <1>6 DEF CannotOpen, Known
  <2>2. TwoKeys'
    BY <1>6 DEF CannotOpen, TwoKeys
  <2>3. Holding'
    BY <1>6 DEF CannotOpen, lockVars, Holding
  <2>4. Reading'
    BY <1>6 DEF CannotOpen, Reading
  <2>5. Creating'
    BY <1>6 DEF CannotOpen, Creating
  <2>6. SavedKeyOpens'
    BY <1>6 DEF CannotOpen, SavedKeyOpens
  <2> QED
    BY <2>1, <2>2, <2>3, <2>4, <2>5, <2>6 DEF IInv
<1>7. CASE AddKey(o)
  <2>1. Known'
    BY <1>7 DEF AddKey, Generate, Known
  <2>2. TwoKeys'
    BY <1>7 DEF AddKey, TwoKeys
  <2>3. Holding'
    BY <1>7 DEF AddKey, Restic, lockVars, Holding
  <2>4. Reading'
    BY <1>7 DEF AddKey, Restic, Generate, Reading, Known
  <2>5. Creating'
    BY <1>7 DEF AddKey, Restic, Creating, Holding
  <2>6. SavedKeyOpens'
    BY <1>7 DEF AddKey, Restic, SavedKeyOpens
  <2> QED
    BY <2>1, <2>2, <2>3, <2>4, <2>5, <2>6 DEF IInv
<1>8. CASE VerifyKey(o)
  <2>1. Known'
    BY <1>8 DEF VerifyKey, Known
  <2>2. TwoKeys'
    BY <1>8 DEF VerifyKey, TwoKeys
  <2>3. Holding'
    BY <1>8 DEF VerifyKey, Restic, lockVars, Holding
  <2>4. Reading'
    BY <1>8 DEF VerifyKey, Restic, Reading
  <2>5. Creating'
    BY <1>8 DEF VerifyKey, Restic, Creating
  <2>6. SavedKeyOpens'
    BY <1>8 DEF VerifyKey, Restic, SavedKeyOpens
  <2> QED
    BY <2>1, <2>2, <2>3, <2>4, <2>5, <2>6 DEF IInv
<1>9. CASE DropNew(o)
  <2>0. Inside(o) /\ \A q \in Ops \ {o} : ~Inside(q) /\ pc[q] \notin {"init", "adopt", "created", "keyless"}
    BY <1>9, Alone DEF DropNew
  <2>1. Known'
    BY <1>9 DEF DropNew, Known
  <2>2. TwoKeys'
    BY <1>9 DEF DropNew, TwoKeys
  <2>3. Holding'
    BY <1>9, <2>0 DEF DropNew, Restic, Holding
  <2>4. Reading'
    BY <1>9, <2>0 DEF DropNew, Restic, Reading
  <2>5. Creating'
    BY <1>9 DEF DropNew, Restic, Creating, Holding
  <2>6. SavedKeyOpens'
    BY <1>9 DEF DropNew, Restic, SavedKeyOpens, Reading
  <2> QED
    BY <2>1, <2>2, <2>3, <2>4, <2>5, <2>6 DEF IInv
<1>10. CASE SaveNew(o)
  <2>0. Inside(o) /\ \A q \in Ops \ {o} : ~Inside(q) /\ pc[q] \notin {"init", "adopt", "created", "keyless"}
    BY <1>10, Alone DEF SaveNew
  <2>1. Known'
    BY <1>10 DEF SaveNew, UpdateKeys, Known
  <2>2. TwoKeys'
    BY <1>10 DEF SaveNew, UpdateKeys, TwoKeys, Reading
  <2>3. Holding'
    BY <1>10, <2>0 DEF SaveNew, UpdateKeys, lockVars, Holding, Reading
  <2>4. Reading'
    BY <1>10, <2>0 DEF SaveNew, UpdateKeys, Reading, Holding, SavedKeyOpens, TwoKeys
  <2>5. Creating'
    BY <1>10, <2>0 DEF SaveNew, UpdateKeys, Creating, Reading, Holding
  <2>6. SavedKeyOpens'
    BY <1>10 DEF SaveNew, UpdateKeys, SavedKeyOpens, Reading
  <2> QED
    BY <2>1, <2>2, <2>3, <2>4, <2>5, <2>6 DEF IInv
<1>11. CASE RemoveOld(o)
  <2>0. Inside(o) /\ \A q \in Ops \ {o} : ~Inside(q) /\ pc[q] \notin {"init", "adopt", "created", "keyless"}
    BY <1>11, Alone DEF RemoveOld
  <2>1. Known'
    BY <1>11 DEF RemoveOld, Known
  <2>2. TwoKeys'
    BY <1>11 DEF RemoveOld, TwoKeys
  <2>3. Holding'
    BY <1>11, <2>0 DEF RemoveOld, Restic, lockVars, Holding
  <2>4. Reading'
    BY <1>11, <2>0 DEF RemoveOld, Restic, Reading
  <2>5. Creating'
    BY <1>11 DEF RemoveOld, Restic, Creating, Holding
  <2>6. SavedKeyOpens'
    BY <1>11 DEF RemoveOld, Restic, SavedKeyOpens, Reading
  <2> QED
    BY <2>1, <2>2, <2>3, <2>4, <2>5, <2>6 DEF IInv
<1>12. CASE Restore(o)
  <2>0. Inside(o) /\ \A q \in Ops \ {o} : ~Inside(q) /\ pc[q] \notin {"init", "adopt", "created", "keyless"}
    BY <1>12, Alone DEF Restore
  <2>1. Known'
    BY <1>12 DEF Restore, UpdateKeys, Known
  <2>2. TwoKeys'
    BY <1>12 DEF Restore, UpdateKeys, TwoKeys, Reading
  <2>3. Holding'
    BY <1>12, <2>0 DEF Restore, UpdateKeys, lockVars, Holding, Reading
  <2>4. Reading'
    BY <1>12, <2>0 DEF Restore, UpdateKeys, Reading
  <2>5. Creating'
    BY <1>12 DEF Restore, UpdateKeys, Creating, Reading
  <2>6. SavedKeyOpens'
    BY <1>12 DEF Restore, UpdateKeys, SavedKeyOpens, Reading
  <2> QED
    BY <2>1, <2>2, <2>3, <2>4, <2>5, <2>6 DEF IInv
<1>13. CASE RemoveRecovery(o)
  <2>0. Inside(o) /\ \A q \in Ops \ {o} : ~Inside(q) /\ pc[q] \notin {"init", "adopt", "created", "keyless"}
    BY <1>13, Alone DEF RemoveRecovery
  <2>1. Known'
    BY <1>13 DEF RemoveRecovery, Known
  <2>2. TwoKeys'
    BY <1>13 DEF RemoveRecovery, TwoKeys
  <2>3. Holding'
    BY <1>13 DEF RemoveRecovery, Restic, lockVars, Holding
  <2>4. Reading'
    BY <1>13, <2>0 DEF RemoveRecovery, Restic, Reading
  <2>5. Creating'
    BY <1>13 DEF RemoveRecovery, Restic, Creating, Holding
  <2>6. SavedKeyOpens'
    BY <1>13 DEF RemoveRecovery, Restic, SavedKeyOpens, Reading, TwoKeys
  <2> QED
    BY <2>1, <2>2, <2>3, <2>4, <2>5, <2>6 DEF IInv
<1>14. CASE SaveRemoval(o)
  <2>0. Inside(o) /\ \A q \in Ops \ {o} : ~Inside(q) /\ pc[q] \notin {"init", "adopt", "created", "keyless"}
    BY <1>14, Alone DEF SaveRemoval
  <2>1. Known'
    BY <1>14 DEF SaveRemoval, UpdateKeys, Known
  <2>2. TwoKeys'
    BY <1>14 DEF SaveRemoval, UpdateKeys, TwoKeys
  <2>3. Holding'
    BY <1>14, <2>0 DEF SaveRemoval, UpdateKeys, Holding
  <2>4. Reading'
    BY <1>14, <2>0 DEF SaveRemoval, UpdateKeys, Reading
  <2>5. Creating'
    BY <1>14 DEF SaveRemoval, UpdateKeys, Creating, Reading
  <2>6. SavedKeyOpens'
    BY <1>14 DEF SaveRemoval, UpdateKeys, SavedKeyOpens, Reading
  <2> QED
    BY <2>1, <2>2, <2>3, <2>4, <2>5, <2>6 DEF IInv
<1>15. CASE End(o)
  <2>1. Known'
    BY <1>15 DEF End, Lock!Release, Known
  <2>2. TwoKeys'
    BY <1>15 DEF End, Lock!Release, TwoKeys
  <2>3. Holding'
    BY <1>15 DEF End, Lock!Release, lockVars, Holding
  <2>4. Reading'
    BY <1>15 DEF End, Lock!Release, Reading
  <2>5. Creating'
    BY <1>15 DEF End, Lock!Release, Creating
  <2>6. SavedKeyOpens'
    BY <1>15 DEF End, Lock!Release, SavedKeyOpens
  <2> QED
    BY <2>1, <2>2, <2>3, <2>4, <2>5, <2>6 DEF IInv
<1> QED
  BY <1>1, <1>2, <1>3, <1>4, <1>5, <1>6, <1>7, <1>8, <1>9, <1>10, <1>11, <1>12, <1>13, <1>14, <1>15 DEF OpStep

LEMMA OtherIInv ==
  ASSUME IInv, TypeOK', Next, ~ \E o \in Ops : OpStep(o)
  PROVE  IInv'
<1>0. TypeOK /\ Known /\ TwoKeys /\ Holding /\ Reading /\ Creating /\ SavedKeyOpens
  BY DEF IInv
<1> USE <1>0, RepoKeysConstants
    DEF Inside, Recorded, NoKey, Blank, TypeOK, Procs, KeyRecords, Made, Goto
<1>1. ASSUME NEW o \in Ops, StartCreate(o)
      PROVE  IInv'
  <2>1. Known'
    <3>1. generated' = generated + 1 /\ saved' = saved /\ copy' = copy
      BY <1>1 DEF StartCreate, Generate
    <3>2. \A q \in Ops : fresh'[q] \in {fresh[q], generated'}
      BY <1>1 DEF StartCreate, Generate
    <3>3. \A q \in Ops : copy[q].opsnap \in Nat /\ copy[q].recovery \in Nat /\ fresh[q] \in Nat
      OBVIOUS
    <3> QED
      BY <3>1, <3>2, <3>3 DEF Known
  <2>2. Holding'
    BY <1>1 DEF StartCreate, lockVars, Holding
  <2>3. Reading'
    BY <1>1 DEF StartCreate, Generate, Reading, Holding
  <2>4. Creating'
    BY <1>1 DEF StartCreate, Generate, Creating
  <2> QED
    BY <1>1, <2>1, <2>2, <2>3, <2>4 DEF StartCreate, IInv, TwoKeys, SavedKeyOpens
<1>2. ASSUME NEW o \in Ops, NEW k \in {"rotate", "generate", "remove"}, FindKeys(o, k)
      PROVE  IInv'
  <2>1. Known'
    BY <1>2 DEF FindKeys, Known
  <2>2. Holding'
    BY <1>2 DEF FindKeys, lockVars, Holding
  <2>3. Reading'
    BY <1>2 DEF FindKeys, Reading
  <2>4. Creating'
    BY <1>2 DEF FindKeys, Creating
  <2> QED
    BY <1>2, <2>1, <2>2, <2>3, <2>4 DEF FindKeys, IInv, TwoKeys, SavedKeyOpens
<1>3. ASSUME NEW u \in Users,
             \/ \E k \in {"run", "start", "maintain"} : FindLocation(u, k)
             \/ QueueMaintain(u) \/ GetLock(u) \/ NoLock(u) \/ Used(u)
      PROVE  IInv'
  <2>1. /\ UNCHANGED <<repoKeys, saved, generated, fresh, unsaid>>
        /\ \A o \in Ops : pc'[o] = pc[o] /\ copy'[o] = copy[o] /\ kind'[o] = kind[o]
    BY <1>3 DEF FindLocation, QueueMaintain, GetLock, NoLock, Used, procVars
  <2>2. ASSUME NEW o \in Ops, Inside(o)
        PROVE  exclusive'[Repo] = exclusive[Repo]
    <3>1. exclusive[Repo] = {o} /\ o # u
      BY <2>2 DEF Holding
    <3> QED
      BY <1>3, <3>1
      DEF FindLocation, QueueMaintain, GetLock, NoLock, Used, lockVars,
          Lock!Queue, Lock!Withdraw, Lock!Release, Lock!GrantShared, Lock!GrantExclusive
  <2>3. Holding'
    BY <2>1, <2>2 DEF Holding
  <2>4. Known' /\ TwoKeys' /\ Reading' /\ Creating' /\ SavedKeyOpens'
    BY <2>1 DEF Known, TwoKeys, Reading, Creating, SavedKeyOpens
  <2> QED
    BY <2>3, <2>4 DEF IInv
<1>4. CASE Crash
  <2>1. /\ UNCHANGED <<repoKeys, saved, generated, unsaid>>
        /\ \A o \in Ops : /\ pc'[o] = "idle" /\ copy'[o] = Blank /\ kind'[o] = "none"
                          /\ fresh'[o] = NoKey
    BY <1>4 DEF Crash
  <2> QED
    BY <2>1 DEF IInv, Known, TwoKeys, Holding, Reading, Creating, SavedKeyOpens
<1> QED
  BY <1>1, <1>2, <1>3, <1>4 DEF Next

LEMMA InitIInv == Init => IInv
  BY InitTypeOK
  DEF Init, IInv, Known, TwoKeys, Holding, Reading, Creating, SavedKeyOpens, Inside, Recorded,
      Blank, NoKey, Procs

LEMMA Inductive == IInv /\ [Next]_vars => IInv'
<1> SUFFICES ASSUME IInv, [Next]_vars
             PROVE  IInv'
  OBVIOUS
<1>1. ASSUME NEW o \in Ops, OpStep(o)
      PROVE  IInv'
  BY <1>1, OpTypeOK, OpIInv
<1>2. ASSUME Next, ~ \E o \in Ops : OpStep(o)
      PROVE  IInv'
  BY <1>2, OtherTypeOK, OtherIInv
<1>3. CASE UNCHANGED vars
  BY <1>3
  DEF vars, procVars, lockVars, IInv, TypeOK, Known, TwoKeys, Holding, Reading, Creating,
      SavedKeyOpens, Inside, Recorded
<1> QED
  BY <1>1, <1>2, <1>3

-----------------------------------------------------------------------------
\* The record's opsnap key opens the repository in every state, unless the restic that
\* removed it was reported as failed: no order of requests, no other failing step and no
\* crash between two steps of Create, RotateKey, GenerateRecoveryKey or RemoveRecoveryKey
\* locks the panel out of its backups.
THEOREM SavedKeyCorrect == Spec => []SavedKeyOpens
<1>1. IInv => SavedKeyOpens
  BY DEF IInv
<1> QED
  BY <1>1, InitIInv, Inductive, PTL DEF Spec

\* The variables keep the values the code gives them; no request runs into a state that
\* the code does not know.
THEOREM TypeCorrect == Spec => []TypeOK
<1>1. IInv => TypeOK
  BY DEF IInv
<1> QED
  BY <1>1, InitIInv, Inductive, PTL DEF Spec

-----------------------------------------------------------------------------
\* Runs, rechecks and maintenance: who uses a key holds the location, beside no one with the
\* exclusive lock, and the location is recorded since it was found.
Holders == shared[Repo] \cup exclusive[Repo]
UsersHold ==
  /\ exclusive[Repo] # {} => shared[Repo] = {}
  /\ \A u \in Users : pc[u] = "using" => u \in Holders
  /\ \A u \in Users : pc[u] \in {"found", "using"} => Recorded

\* A request that is inside has the location to itself.
LEMMA NobodyUses ==
  ASSUME IInv, UsersHold, NEW o \in Ops, Inside(o), NEW u \in Users
  PROVE  pc[u] # "using"
<1>1. exclusive[Repo] = {o}
  BY DEF IInv, Holding
<1>2. u # o
  BY RepoKeysConstants
<1> QED
  BY <1>1, <1>2 DEF UsersHold, Holders

LEMMA OpUsersHold ==
  ASSUME IInv, UsersHold, NEW o \in Ops, OpStep(o)
  PROVE  UsersHold'
<1>0. TypeOK /\ Ops \cap Users = {}
  BY RepoKeysConstants DEF IInv
<1>1. \A u \in Users : pc'[u] = pc[u]
  BY <1>0
  DEF OpStep, InitRepo, AdoptRepo, AddFirstRecoveryKey, SaveCreated, KeyOp, CannotOpen, AddKey,
      VerifyKey, DropNew, SaveNew, RemoveOld, Restore, RemoveRecovery, SaveRemoval, End, Restic,
      UpdateKeys, Goto, TypeOK, Procs
<1>2. Recorded => Recorded'
  <2> USE <1>0 DEF Recorded, TypeOK, KeyRecords, NoKey, Made
  <2>1. CASE SaveCreated(o)
    BY <2>1 DEF SaveCreated, UpdateKeys, IInv, Creating
  <2>2. CASE SaveNew(o)
    BY <2>2 DEF SaveNew, UpdateKeys, IInv, Reading
  <2>3. CASE Restore(o)
    BY <2>3 DEF Restore, UpdateKeys, IInv, Reading
  <2>4. CASE SaveRemoval(o)
    BY <2>4 DEF SaveRemoval, UpdateKeys, IInv, Reading
  <2>5. CASE saved' = saved
    BY <2>5
  <2> QED
    BY <2>1, <2>2, <2>3, <2>4, <2>5
    DEF OpStep, InitRepo, AdoptRepo, AddFirstRecoveryKey, KeyOp, CannotOpen, AddKey, VerifyKey,
        DropNew, RemoveOld, RemoveRecovery, End
<1>3. /\ exclusive'[Repo] # {} => shared'[Repo] = {}
      /\ \A u \in Users : u \in Holders => u \in Holders'
  <2>1. CASE KeyOp(o)
    BY <1>0, <2>1 DEF KeyOp, Lock!GrantExclusive, lockVars, UsersHold, Holders, TypeOK
  <2>2. CASE End(o)
    BY <1>0, <2>2 DEF End, Lock!Release, lockVars, UsersHold, Holders, TypeOK
  <2>3. CASE UNCHANGED lockVars
    BY <2>3 DEF lockVars, UsersHold, Holders
  <2> QED
    BY <2>1, <2>2, <2>3
    DEF OpStep, InitRepo, AdoptRepo, AddFirstRecoveryKey, SaveCreated, CannotOpen, AddKey,
        VerifyKey, DropNew, SaveNew, RemoveOld, Restore, RemoveRecovery, SaveRemoval
<1> QED
  BY <1>1, <1>2, <1>3 DEF UsersHold

LEMMA OtherUsersHold ==
  ASSUME IInv, UsersHold, Next, ~ \E o \in Ops : OpStep(o)
  PROVE  UsersHold'
<1>0. TypeOK /\ Ops \cap Users = {}
  BY RepoKeysConstants DEF IInv
<1> USE <1>0 DEF TypeOK, Procs, Goto, Recorded
<1>1. ASSUME NEW o \in Ops,
             StartCreate(o) \/ \E k \in {"rotate", "generate", "remove"} : FindKeys(o, k)
      PROVE  UsersHold'
  BY <1>1 DEF StartCreate, FindKeys, lockVars, UsersHold, Holders
<1>2. ASSUME NEW u \in Users, \E k \in {"run", "start", "maintain"} : FindLocation(u, k)
      PROVE  UsersHold'
  BY <1>2 DEF FindLocation, lockVars, UsersHold, Holders
<1>3. ASSUME NEW u \in Users, QueueMaintain(u)
      PROVE  UsersHold'
  BY <1>3 DEF QueueMaintain, Lock!Queue, procVars, UsersHold, Holders
<1>4. ASSUME NEW u \in Users, GetLock(u)
      PROVE  UsersHold'
  BY <1>4 DEF GetLock, Lock!GrantShared, Lock!GrantExclusive, UsersHold, Holders
<1>5. ASSUME NEW u \in Users, NoLock(u)
      PROVE  UsersHold'
  BY <1>5 DEF NoLock, Lock!Withdraw, lockVars, UsersHold, Holders
<1>6. ASSUME NEW u \in Users, Used(u)
      PROVE  UsersHold'
  BY <1>6 DEF Used, Lock!Release, UsersHold, Holders
<1>7. CASE Crash
  BY <1>7 DEF Crash, UsersHold, Holders
<1> QED
  BY <1>1, <1>2, <1>3, <1>4, <1>5, <1>6, <1>7 DEF Next

\* What a step may not do: take the key of somebody who goes on using it.
KeptFor(u) ==
  pc[u] = "using" /\ pc'[u] = "using" /\ copy[u].opsnap \in repoKeys => copy[u].opsnap \in repoKeys'

LEMMA KeptInUse ==
  ASSUME IInv, UsersHold, [Next]_vars, NEW u \in Users
  PROVE  KeptFor(u)
<1>1. ASSUME NEW o \in Ops, OpStep(o)
      PROVE  KeptFor(u)
  <2>1. CASE Inside(o)
    BY <2>1, NobodyUses DEF KeptFor
  <2>2. CASE ~Inside(o)
    <3>1. CASE InitRepo(o)
      BY <3>1 DEF InitRepo, IInv, Creating, UsersHold, KeptFor
    <3>2. repoKeys \subseteq repoKeys' \/ InitRepo(o)
      BY <1>1, <2>2
      DEF OpStep, AdoptRepo, AddFirstRecoveryKey, SaveCreated, KeyOp, CannotOpen, AddKey, VerifyKey,
          DropNew, SaveNew, RemoveOld, Restore, RemoveRecovery, SaveRemoval, End, Restic, Inside
    <3> QED
      BY <3>1, <3>2 DEF KeptFor
  <2> QED
    BY <2>1, <2>2
<1>2. ASSUME Next, ~ \E o \in Ops : OpStep(o)
      PROVE  repoKeys' = repoKeys
  BY <1>2
  DEF Next, StartCreate, FindKeys, FindLocation, QueueMaintain, GetLock, NoLock, Used, Crash
<1>3. CASE UNCHANGED vars
  BY <1>3 DEF vars, KeptFor
<1> QED
  BY <1>1, <1>2, <1>3 DEF KeptFor

\* While a run, a recheck or maintenance uses the location, no request removes the key it read
\* from the repository, and the repository is not made anew under it (keyOp's exclusive lock).
THEOREM KeyInUseCorrect == Spec => KeyInUseStays
<1>1. Init => UsersHold
  BY DEF Init, Lock!Init, UsersHold, Holders, Procs
<1>2. IInv /\ UsersHold /\ [Next]_vars => UsersHold'
  <2> SUFFICES ASSUME IInv, UsersHold, [Next]_vars
               PROVE  UsersHold'
    OBVIOUS
  <2>1. CASE UNCHANGED vars
    BY <2>1 DEF vars, procVars, lockVars, UsersHold, Holders, Recorded
  <2> QED
    BY <2>1, OpUsersHold, OtherUsersHold
<1>3. IInv /\ UsersHold /\ [Next]_vars =>
        [\A u \in Users :
           pc[u] = "using" /\ pc'[u] = "using" /\ copy[u].opsnap \in repoKeys
             => copy[u].opsnap \in repoKeys']_vars
  BY KeptInUse DEF KeptFor
<1> QED
  BY <1>1, <1>2, <1>3, InitIInv, Inductive, PTL DEF Spec, KeyInUseStays
-----------------------------------------------------------------------------
(* What is in the repository and nobody knows.                             *)

\* Keys in the repository that the record does not name, and a request will deal with.
Pending(o) ==
  CASE pc[o] \in {"created", "keyless"} -> {fresh[o], copy[o].recovery}
    [] pc[o] \in {"added", "verified", "dropNew"} -> {fresh[o]}
    [] pc[o] \in {"removeOld", "restore"} -> {copy[o].opsnap}
    [] OTHER -> {}

\* A creation that failed is about to end, and what it left is not counted yet.
Failing == ~Recorded /\ \E o \in Ops : pc[o] = "end" /\ kind[o] = "create"

AccountInv ==
  crashes = 0 /\ failures <= 1 /\ ~Failing /\ (Recorded => saved.opsnap \in repoKeys) =>
    \A k \in repoKeys : \/ k \in {saved.opsnap, saved.recovery, Existing} \cup strays \cup unsaid
                        \/ \E o \in Ops : k \in Pending(o)

\* A request removes what it added only after a failure, and the recovery key of the record
\* is missing only where it has just been removed.
RecoveryInv ==
  /\ \A o \in Ops :
       /\ pc[o] = "found" => kind[o] \in {"rotate", "generate", "remove"}
       /\ pc[o] \in {"open", "added", "verified"} /\ kind[o] = "generate" => copy[o].recovery = NoKey
       /\ pc[o] \in {"dropNew", "restore"} => failures > 0
       /\ pc[o] = "removed" => copy[o].recovery \notin repoKeys
       /\ pc[o] \in {"created", "keyless"} /\ failures = 0 /\ crashes = 0 =>
            copy[o].recovery \in repoKeys \cup {NoKey}
  /\ failures = 0 /\ crashes = 0 /\ (\A o \in Ops : pc[o] # "removed") =>
       saved.recovery \in repoKeys \cup {NoKey}

RInv == IInv /\ AccountInv /\ RecoveryInv

LEMMA RestFacts ==
  ASSUME TypeOK, NEW o \in Ops, Goto(o, "end") \/ OpStep(o)
  PROVE  \A q \in Ops \ {o} : pc'[q] = pc[q]
BY DEF TypeOK, Procs, Goto, OpStep, InitRepo, AdoptRepo, AddFirstRecoveryKey, SaveCreated, KeyOp, CannotOpen,
       AddKey, VerifyKey, DropNew, SaveNew, RemoveOld, Restore, RemoveRecovery, SaveRemoval, End,
       Restic, UpdateKeys

\* A step of one request leaves what the others know and hold alone.
LEMMA Others ==
  ASSUME TypeOK, NEW o \in Ops, OpStep(o), NEW q \in Ops \ {o}
  PROVE  /\ pc'[q] = pc[q] /\ kind'[q] = kind[q] /\ copy'[q] = copy[q] /\ fresh'[q] = fresh[q]
         /\ Pending(q)' = Pending(q)
<1>1. pc'[q] = pc[q]
  BY RestFacts
<1>2. kind'[q] = kind[q] /\ copy'[q] = copy[q] /\ fresh'[q] = fresh[q]
  BY DEF TypeOK, Procs, OpStep, InitRepo, AdoptRepo, AddFirstRecoveryKey, SaveCreated, KeyOp, CannotOpen,
         AddKey, VerifyKey, DropNew, SaveNew, RemoveOld, Restore, RemoveRecovery, SaveRemoval, End, Generate
<1> QED
  BY <1>1, <1>2 DEF Pending

LEMMA Counts ==
  ASSUME TypeOK, [Next]_vars
  PROVE  failures \in Nat /\ failures' \in Nat /\ failures <= failures' /\ (crashes' = 0 => crashes = 0)
BY RepoKeysConstants
   DEF TypeOK, Next, vars, OpStep, InitRepo, AdoptRepo, AddFirstRecoveryKey, SaveCreated, KeyOp, CannotOpen,
       AddKey, VerifyKey, DropNew, SaveNew, RemoveOld, Restore, RemoveRecovery, SaveRemoval, End,
       Restic, UpdateKeys, Fails, StartCreate, FindKeys, FindLocation, QueueMaintain, GetLock, NoLock,
       Used, Crash


\* Who is inside is alone, and where a location is being created nobody is inside.
LEMMA Lonely ==
  ASSUME IInv, NEW o \in Ops, Inside(o) \/ pc[o] \in {"init", "adopt", "created", "keyless"},
         NEW q \in Ops \ {o}
  PROVE  pc[q] \in {"idle", "found", "end", "using"}
<1>1. ~Inside(q) /\ pc[q] \notin {"init", "adopt", "created", "keyless"}
  <2>1. CASE Inside(o)
    BY <2>1, Alone
  <2>2. CASE pc[o] \in {"init", "adopt", "created", "keyless"}
    <3>1. kind[o] = "create" /\ ~Recorded
      BY <2>2 DEF IInv, Creating
    <3> QED
      BY <3>1 DEF IInv, Creating, Holding
  <2> QED
    BY <2>1, <2>2
<1> QED
  BY <1>1 DEF IInv, TypeOK, Procs, Places, Inside

LEMMA LonelyPending ==
  ASSUME IInv, NEW o \in Ops, Inside(o) \/ pc[o] \in {"init", "adopt", "created", "keyless"},
         NEW q \in Ops \ {o}
  PROVE  Pending(q) = {}
<1>1. pc[q] \in {"idle", "found", "end", "using"}
  BY Lonely
<1> QED
  BY <1>1 DEF Pending

LEMMA OpRecovery ==
  ASSUME IInv, RecoveryInv, NEW o \in Ops, OpStep(o)
  PROVE  RecoveryInv'
<1>0. /\ TypeOK /\ Reading /\ Creating /\ SavedKeyOpens /\ RecoveryInv
      /\ failures \in Nat /\ crashes' = crashes
  BY RepoKeysConstants
  DEF IInv, TypeOK, OpStep, InitRepo, AdoptRepo, AddFirstRecoveryKey, SaveCreated, KeyOp, CannotOpen,
      AddKey, VerifyKey, DropNew, SaveNew, RemoveOld, Restore, RemoveRecovery, SaveRemoval, End
<1>1. \A q \in Ops \ {o} : pc'[q] = pc[q] /\ kind'[q] = kind[q] /\ copy'[q] = copy[q] /\ fresh'[q] = fresh[q]
  BY <1>0, Others
<1>2. Inside(o) \/ pc[o] \in {"init", "adopt", "created", "keyless"} =>
        \A q \in Ops \ {o} : pc[q] \in {"idle", "found", "end", "using"}
  BY Lonely
<1> USE <1>0, <1>1, <1>2 DEF RecoveryInv, TypeOK, Procs, Goto, Fails, KeyRecords, NoKey, Made, Blank, Inside, Recorded
<1>3. CASE InitRepo(o)
  BY <1>3 DEF InitRepo, Creating
<1>4. CASE AdoptRepo(o)
  BY <1>4 DEF AdoptRepo, Restic, Creating
<1>5. CASE AddFirstRecoveryKey(o)
  BY <1>5 DEF AddFirstRecoveryKey, Restic, Creating
<1>6. CASE SaveCreated(o)
  BY <1>6 DEF SaveCreated, UpdateKeys, Creating
<1>7. CASE KeyOp(o)
  <2>1. CASE pc'[o] = "open"
    <3>1. /\ pc[o] = "found" /\ failures' = failures /\ repoKeys' = repoKeys /\ saved' = saved
          /\ kind'[o] = kind[o] /\ copy'[o] = saved
      BY <1>7, <2>1 DEF KeyOp
    <3>2. Allowed(kind[o], saved) /\ kind[o] \in {"rotate", "generate", "remove"}
      BY <1>7, <2>1 DEF KeyOp
    <3>3. kind[o] = "generate" => saved.recovery = NoKey
      BY <3>2 DEF Allowed
    <3>4. ASSUME NEW q \in Ops
          PROVE  /\ pc'[q] = "found" => kind'[q] \in {"rotate", "generate", "remove"}
                 /\ pc'[q] \in {"open", "added", "verified"} /\ kind'[q] = "generate" => copy'[q].recovery = NoKey
                 /\ pc'[q] \in {"dropNew", "restore"} => failures' > 0
                 /\ pc'[q] = "removed" => copy'[q].recovery \notin repoKeys'
                 /\ pc'[q] \in {"created", "keyless"} /\ failures' = 0 /\ crashes' = 0 =>
                      copy'[q].recovery \in repoKeys' \cup {NoKey}
      <4>1. CASE q = o
        BY <2>1, <3>1, <3>3, <4>1
      <4>2. CASE q # o
        BY <3>1, <4>2
      <4> QED
        BY <4>1, <4>2
    <3>5. (\A q \in Ops : pc'[q] # "removed") => \A q \in Ops : pc[q] # "removed"
      BY <3>1
    <3> QED
      BY <3>1, <3>4, <3>5
  <2>2. CASE pc'[o] = "end"
    <3>1. /\ pc[o] = "found" /\ failures' = failures /\ repoKeys' = repoKeys /\ saved' = saved
      BY <1>7 DEF KeyOp
    <3>2. \A q \in Ops : pc'[q] \notin {"end", "idle"} => pc'[q] = pc[q] /\ kind'[q] = kind[q] /\ copy'[q] = copy[q]
      BY <2>2
    <3>3. (\A q \in Ops : pc'[q] # "removed") => \A q \in Ops : pc[q] # "removed"
      BY <3>1
    <3> QED
      BY <3>1, <3>2, <3>3
  <2> QED
    BY <1>7, <2>1, <2>2 DEF KeyOp
<1>8. CASE CannotOpen(o)
  BY <1>8 DEF CannotOpen
<1>9. CASE AddKey(o)
  BY <1>9 DEF AddKey, Restic, Generate
<1>10. CASE VerifyKey(o)
  BY <1>10 DEF VerifyKey, Restic, Reading
<1>11. CASE DropNew(o)
  BY <1>11 DEF DropNew, Restic, Reading
<1>12. CASE SaveNew(o)
  BY <1>12 DEF SaveNew, UpdateKeys, Reading
<1>13. CASE RemoveOld(o)
  BY <1>13 DEF RemoveOld, Restic, Reading
<1>14. CASE Restore(o)
  BY <1>14 DEF Restore, UpdateKeys, Reading
<1>15. CASE RemoveRecovery(o)
  BY <1>15 DEF RemoveRecovery, Restic, Reading
<1>16. CASE SaveRemoval(o)
  BY <1>16 DEF SaveRemoval, UpdateKeys, Reading
<1>17. CASE End(o)
  BY <1>17 DEF End
<1> QED
  BY <1>3, <1>4, <1>5, <1>6, <1>7, <1>8, <1>9, <1>10, <1>11, <1>12, <1>13, <1>14, <1>15, <1>16, <1>17
  DEF OpStep

LEMMA OpAccount ==
  ASSUME IInv, RecoveryInv, AccountInv, NEW o \in Ops, OpStep(o)
  PROVE  AccountInv'
<1>0. /\ TypeOK /\ Reading /\ Creating /\ SavedKeyOpens /\ RecoveryInv /\ AccountInv
      /\ failures \in Nat /\ crashes' = crashes /\ failures' \in Nat /\ failures <= failures'
  BY Counts, RepoKeysConstants
  DEF IInv, TypeOK, Next, OpStep, InitRepo, AdoptRepo, AddFirstRecoveryKey, SaveCreated, KeyOp, CannotOpen,
      AddKey, VerifyKey, DropNew, SaveNew, RemoveOld, Restore, RemoveRecovery, SaveRemoval, End
<1>1. \A q \in Ops \ {o} : /\ pc'[q] = pc[q] /\ kind'[q] = kind[q] /\ copy'[q] = copy[q] /\ fresh'[q] = fresh[q]
                           /\ Pending(q)' = Pending(q)
  BY <1>0, Others
<1>2. Inside(o) \/ pc[o] \in {"init", "adopt", "created", "keyless"} => \A q \in Ops \ {o} : Pending(q) = {}
  BY LonelyPending
<1> USE <1>0, <1>1, <1>2
    DEF TypeOK, Procs, Goto, Fails, KeyRecords, NoKey, Made, Keys, Inside, Recorded, AccountInv, Failing, Pending
<1>3. CASE InitRepo(o)
  BY <1>3 DEF InitRepo, Creating
<1>4. CASE AdoptRepo(o)
  BY <1>4 DEF AdoptRepo, Restic, Creating
<1>5. CASE AddFirstRecoveryKey(o)
  <2>1. /\ ~Failing /\ ~Recorded /\ ~Recorded' /\ pc[o] = "created" /\ copy[o].recovery = NoKey
        /\ saved' = saved /\ strays' = strays /\ fresh' = fresh /\ kind'[o] = "create"
        /\ unsaid \subseteq unsaid' /\ pc'[o] \in {"created", "keyless"}
    BY <1>5 DEF AddFirstRecoveryKey, Restic, Creating
  <2>2. Pending(o) = {fresh[o], NoKey} /\ Pending(o)' = {fresh[o], copy'[o].recovery}
    BY <2>1
  <2>3. \A k \in repoKeys' : k \in repoKeys \/ k \in {copy'[o].recovery} \cup unsaid'
    BY <1>5, <2>1 DEF AddFirstRecoveryKey, Restic
  <2>4. ~ NoKey \in repoKeys \/ Existing = NoKey
    OBVIOUS
  <2> HIDE DEF Pending, Failing
  <2>5. SUFFICES ASSUME crashes = 0, failures <= 1, NEW k \in repoKeys'
                 PROVE  \/ k \in {saved.opsnap, saved.recovery, Existing} \cup strays \cup unsaid'
                        \/ \E q \in Ops : k \in Pending(q)'
    BY <2>1
  <2>6. CASE k \in repoKeys
    <3>1. CASE k \in {saved.opsnap, saved.recovery, Existing} \cup strays \cup unsaid
      BY <2>1, <3>1
    <3>2. CASE \E q \in Ops : k \in Pending(q)
      BY <2>1, <2>2, <2>4, <2>6, <3>2
    <3> QED
      BY <2>1, <2>5, <2>6, <3>1, <3>2
  <2> QED
    BY <2>2, <2>3, <2>5, <2>6
<1>6. CASE SaveCreated(o)
  BY <1>6 DEF SaveCreated, UpdateKeys, Creating, Blank
<1>7. CASE KeyOp(o)
  BY <1>7 DEF KeyOp
<1>8. CASE CannotOpen(o)
  BY <1>8 DEF CannotOpen
<1>9. CASE AddKey(o)
  <2>1. /\ Inside(o) /\ pc[o] = "open" /\ saved' = saved /\ strays' = strays /\ kind' = kind
        /\ unsaid \subseteq unsaid' /\ Recorded /\ ~Failing
    BY <1>9 DEF AddKey, Restic, IInv, Holding
  <2>2. Pending(o) = {}
    BY <2>1
  <2>3. repoKeys \subseteq repoKeys' /\ \A k \in repoKeys' : k \in repoKeys \cup unsaid' \/ k \in Pending(o)'
    BY <1>9, <2>1 DEF AddKey, Restic, Generate
  <2>4. saved.opsnap \in repoKeys' => saved.opsnap \in repoKeys
    BY <1>9, <2>1 DEF AddKey, Restic, Reading
  <2> HIDE DEF Pending
  <2> QED
    BY <2>1, <2>2, <2>3, <2>4
<1>10. CASE VerifyKey(o)
  BY <1>10 DEF VerifyKey, Restic, Reading
<1>11. CASE DropNew(o)
  <2>1. failures > 0 /\ saved' = saved /\ strays' = strays /\ Pending(o) = {fresh[o]}
    BY <1>11 DEF DropNew, RecoveryInv
  <2>2. ~Failing /\ Recorded /\ saved = copy[o]
    BY <1>11 DEF DropNew, Reading, IInv, Holding
  <2>3. CASE repoKeys' = repoKeys \ {fresh[o]} /\ failures' = failures /\ unsaid' = unsaid
    <3>1. pc'[o] = "end" /\ Pending(o)' = {}
      BY <1>11 DEF DropNew, Restic
    <3>2. SUFFICES ASSUME NEW k \in repoKeys', crashes = 0, failures <= 1,
                          saved.opsnap \in repoKeys'
                   PROVE  k \in {saved.opsnap, saved.recovery, Existing} \cup strays \cup unsaid
      BY <2>1, <2>2, <2>3
    <3>3. \A q \in Ops : k \notin Pending(q)
      BY <1>2, <1>11, <2>1, <2>3, <3>2 DEF DropNew
    <3> QED
      BY <2>2, <2>3, <3>2, <3>3
  <2>4. CASE failures' = failures + 1
    BY <2>1, <2>4
  <2>5. CASE copy[o].opsnap \notin repoKeys /\ repoKeys' = repoKeys
    BY <2>1, <2>2, <2>5
  <2> QED
    BY <1>11, <2>2, <2>3, <2>4, <2>5 DEF DropNew, Restic
<1>12. CASE SaveNew(o)
  <2>1. /\ repoKeys' = repoKeys /\ strays' = strays /\ Pending(o) = {fresh[o]} /\ copy[o] = saved
        /\ copy[o].opsnap \in repoKeys /\ unsaid' = unsaid
        /\ pc[o] = "verified" /\ copy' = copy /\ fresh' = fresh /\ o \in Procs /\ pc \in [Procs -> Places]
    BY <1>12 DEF SaveNew, UpdateKeys, Reading
  <2>2. ~Failing
    BY <2>1 DEF IInv, Holding
  <2>3. ASSUME NEW keys, UpdateKeys(o, keys, "removeOld", "dropNew"), keys = [copy[o] EXCEPT !.opsnap = fresh[o]]
        PROVE  AccountInv'
    BY <2>1, <2>2, <2>3 DEF UpdateKeys
  <2>4. ASSUME NEW keys, UpdateKeys(o, keys, "end", "dropNew"), kind[o] = "generate",
               keys = [copy[o] EXCEPT !.recovery = fresh[o]]
        PROVE  AccountInv'
    <3>1. copy[o].recovery = NoKey
      BY <2>1, <2>4 DEF RecoveryInv
    <3> QED
      BY <2>1, <2>2, <2>4, <3>1 DEF UpdateKeys
  <2> QED
    BY <1>12, <2>3, <2>4 DEF SaveNew
<1>13. CASE RemoveOld(o)
  BY <1>13 DEF RemoveOld, Restic, Reading
<1>14. CASE Restore(o)
  BY <1>14 DEF Restore, UpdateKeys, Reading, RecoveryInv
<1>15. CASE RemoveRecovery(o)
  BY <1>15 DEF RemoveRecovery, Restic, Reading
<1>16. CASE SaveRemoval(o)
  BY <1>16 DEF SaveRemoval, UpdateKeys, Reading, RecoveryInv
<1>17. CASE End(o)
  BY <1>17 DEF End, Creating
<1> QED
  BY <1>3, <1>4, <1>5, <1>6, <1>7, <1>8, <1>9, <1>10, <1>11, <1>12, <1>13, <1>14, <1>15, <1>16, <1>17
  DEF OpStep

LEMMA OtherAccount ==
  ASSUME IInv, RecoveryInv, AccountInv, [Next]_vars, ~ \E o \in Ops : OpStep(o)
  PROVE  RecoveryInv' /\ AccountInv'
<1>0. TypeOK /\ failures' = failures /\ failures \in Nat
  BY DEF IInv, TypeOK, Next, vars, StartCreate, FindKeys, FindLocation, QueueMaintain, GetLock, NoLock, Used, Crash
<1>1. ASSUME NEW o \in Ops, StartCreate(o)
      PROVE  RecoveryInv' /\ AccountInv'
  <2>1. /\ ~Recorded /\ pc[o] = "idle" /\ saved' = saved /\ repoKeys' = repoKeys /\ strays' = strays /\ unsaid' = unsaid
        /\ copy' = copy /\ crashes' = crashes /\ pc'[o] \in {"init", "adopt"}
        /\ \A q \in Ops : kind[q] # "create"
        /\ \A q \in Ops \ {o} : pc'[q] = pc[q] /\ kind'[q] = kind[q] /\ fresh'[q] = fresh[q]
    BY <1>0, <1>1 DEF StartCreate, Goto, Generate, TypeOK, Procs
  <2>2. RecoveryInv'
    BY <1>0, <2>1 DEF RecoveryInv, IInv, Creating
  <2>3. \A q \in Ops : Pending(q)' = Pending(q)
    BY <2>1 DEF Pending
  <2> QED
    BY <1>0, <2>1, <2>2, <2>3 DEF AccountInv, Failing, Recorded
<1>2. ASSUME NEW o \in Ops, NEW k \in {"rotate", "generate", "remove"}, FindKeys(o, k)
      PROVE  RecoveryInv' /\ AccountInv'
  <2>1. /\ Recorded /\ pc[o] = "idle" /\ saved' = saved /\ repoKeys' = repoKeys /\ strays' = strays /\ unsaid' = unsaid
        /\ fresh' = fresh /\ crashes' = crashes /\ pc'[o] = "found" /\ kind'[o] = k
        /\ \A q \in Ops \ {o} : pc'[q] = pc[q] /\ kind'[q] = kind[q] /\ copy'[q] = copy[q]
    BY <1>0, <1>2 DEF FindKeys, Goto, TypeOK, Procs
  <2>2. RecoveryInv'
    BY <1>0, <2>1 DEF RecoveryInv
  <2>3. \A q \in Ops : Pending(q)' = Pending(q)
    BY <2>1 DEF Pending
  <2> QED
    BY <1>0, <2>1, <2>2, <2>3 DEF AccountInv, Failing, Recorded
<1>3. ASSUME NEW u \in Users, \/ \E k \in {"run", "start", "maintain"} : FindLocation(u, k)
                              \/ QueueMaintain(u) \/ GetLock(u) \/ NoLock(u) \/ Used(u)
      PROVE  RecoveryInv' /\ AccountInv'
  <2>1. /\ saved' = saved /\ repoKeys' = repoKeys /\ strays' = strays /\ unsaid' = unsaid /\ crashes' = crashes /\ fresh' = fresh
        /\ \A q \in Ops : pc'[q] = pc[q] /\ kind'[q] = kind[q] /\ copy'[q] = copy[q]
    BY <1>0, <1>3, RepoKeysConstants
    DEF FindLocation, QueueMaintain, GetLock, NoLock, Used, Goto, TypeOK, Procs, procVars
  <2>2. RecoveryInv'
    BY <1>0, <2>1 DEF RecoveryInv
  <2>3. \A q \in Ops : Pending(q)' = Pending(q)
    BY <2>1 DEF Pending
  <2> QED
    BY <1>0, <2>1, <2>2, <2>3 DEF AccountInv, Failing, Recorded
<1>4. CASE Crash
  BY <1>0, <1>4, RepoKeysConstants DEF Crash, TypeOK, Procs, RecoveryInv, AccountInv
<1>5. CASE UNCHANGED vars
  BY <1>5 DEF vars, procVars, RecoveryInv, AccountInv, Failing, Recorded, Pending
<1> QED
  BY <1>1, <1>2, <1>3, <1>4, <1>5 DEF Next

\* After one failing step at most, and no crash, the repository has no key that opsnap does not
\* know of once the requests are through, but one that a restic reported as failed has added;
\* without a failure the recovery key on record exists.
THEOREM KeysAreKnown == Spec => []AsRecorded
<1>1. Init => RecoveryInv /\ AccountInv
  BY RepoKeysConstants DEF Init, RecoveryInv, AccountInv, Procs, Blank, NoKey, Recorded
<1>2. IInv /\ RecoveryInv /\ AccountInv /\ [Next]_vars => RecoveryInv' /\ AccountInv'
  BY OpRecovery, OpAccount, OtherAccount
<1>3. IInv /\ RecoveryInv /\ AccountInv => AsRecorded
  <2> SUFFICES ASSUME IInv, RecoveryInv, AccountInv, Recorded, crashes = 0,
                      \A o \in Ops : pc[o] \in {"idle", "found", "end"}
               PROVE  /\ failures <= 1 /\ saved.opsnap \in repoKeys =>
                           repoKeys \subseteq {saved.opsnap, saved.recovery, Existing} \cup strays \cup unsaid
                      /\ failures = 0 => saved.recovery \in repoKeys \cup {NoKey}
    BY DEF AsRecorded
  <2>1. \A o \in Ops : Pending(o) = {}
    BY DEF Pending
  <2>2. failures <= 1 /\ saved.opsnap \in repoKeys =>
          repoKeys \subseteq {saved.opsnap, saved.recovery, Existing} \cup strays \cup unsaid
    BY <2>1 DEF AccountInv, Failing
  <2>3. failures = 0 => saved.recovery \in repoKeys \cup {NoKey}
    BY DEF RecoveryInv
  <2> QED
    BY <2>2, <2>3
<1> QED
  BY <1>1, <1>2, <1>3, InitIInv, Inductive, PTL DEF Spec

=============================================================================
