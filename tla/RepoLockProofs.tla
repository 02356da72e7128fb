--------------------------- MODULE RepoLockProofs ---------------------------
(***************************************************************************)
(* RepoLock for any finite number of callers and any set of repositories:  *)
(* its counters count what really holds and awaits each repository, so     *)
(* maintenance and backups exclude each other, no wake-up is lost and the  *)
(* code implements the abstract lock RWLock.  Then Download, whose         *)
(* requests hold that lock: what their responses tell the client is true.  *)
(***************************************************************************)
EXTENDS RepoLock, Download, FiniteSetTheorems, WellFoundedInduction, TLAPS

\* The strengthening: the counters are only natural numbers because they count sets.
IInv == TypeOK /\ LockAccounting

-----------------------------------------------------------------------------
(* How each kind of step moves a caller between the sets of holders and of *)
(* queued requests.                                                        *)

LEMMA SetsFinite ==
  ASSUME NEW r, NEW m
  PROVE  IsFiniteSet(Holders(r, m)) /\ IsFiniteSet(Queued(r))
<1>1. Holders(r, m) \subseteq Procs /\ Queued(r) \subseteq Procs
  BY DEF Holders, Queued
<1>2. QED
  BY <1>1, ProcsFinite, FS_Subset

LEMMA TryAcquireMoves ==
  ASSUME TypeOK, NEW p \in Procs, NEW r \in Repos, NEW m \in Modes, TryAcquire(p, r, m)
  PROVE  /\ p \notin Holders(r, m) /\ p \notin Queued(r)
         /\ \A s \in Repos, n \in Modes :
              Holders(s, n)' = IF s = r /\ n = m THEN Holders(s, n) \cup {p} ELSE Holders(s, n)
         /\ \A s \in Repos : Queued(s)' = Queued(s)
BY DEF TypeOK, TryAcquire, StartRequest, Holders, Queued, Modes, Shared, Exclusive

LEMMA AcquireWaitsMoves ==
  ASSUME TypeOK, NEW p \in Procs, NEW r \in Repos, NEW m \in Modes, AcquireWaits(p, r, m)
  PROVE  /\ p \notin Queued(r)
         /\ \A s \in Repos, n \in Modes : Holders(s, n)' = Holders(s, n)
         /\ \A s \in Repos :
              Queued(s)' = IF s = r /\ m = Exclusive THEN Queued(s) \cup {p} ELSE Queued(s)
BY DEF TypeOK, AcquireWaits, StartRequest, Holders, Queued, Modes, Shared, Exclusive

LEMMA RetrySucceedsMoves ==
  ASSUME TypeOK, NEW p \in Procs, RetrySucceeds(p)
  PROVE  /\ p \notin Holders(repo[p], mode[p])
         /\ mode[p] = Exclusive <=> p \in Queued(repo[p])
         /\ \A s \in Repos, n \in Modes :
              Holders(s, n)' = IF s = repo[p] /\ n = mode[p]
                                 THEN Holders(s, n) \cup {p} ELSE Holders(s, n)
         /\ \A s \in Repos :
              Queued(s)' = IF s = repo[p] THEN Queued(s) \ {p} ELSE Queued(s)
BY DEF TypeOK, RetrySucceeds, Holders, Queued, Modes, Shared, Exclusive

LEMMA RetryFailsMoves ==
  ASSUME TypeOK, NEW p \in Procs, RetryFails(p)
  PROVE  /\ \A s \in Repos, n \in Modes : Holders(s, n)' = Holders(s, n)
         /\ \A s \in Repos : Queued(s)' = Queued(s)
BY DEF TypeOK, RetryFails, Holders, Queued

LEMMA GiveUpMoves ==
  ASSUME TypeOK, NEW p \in Procs, GiveUp(p)
  PROVE  /\ mode[p] = Exclusive <=> p \in Queued(repo[p])
         /\ \A s \in Repos, n \in Modes : Holders(s, n)' = Holders(s, n)
         /\ \A s \in Repos :
              Queued(s)' = IF s = repo[p] THEN Queued(s) \ {p} ELSE Queued(s)
<1> USE DEF TypeOK, GiveUp, Holders, Queued, BroadcastAnd
<1>1. CASE mode[p] = Exclusive
  BY <1>1
<1>2. CASE mode[p] # Exclusive
  BY <1>2
<1>3. QED
  BY <1>1, <1>2

LEMMA ReleaseMoves ==
  ASSUME TypeOK, NEW p \in Procs, Release(p)
  PROVE  /\ p \in Holders(repo[p], mode[p])
         /\ \A s \in Repos, n \in Modes :
              Holders(s, n)' = IF s = repo[p] /\ n = mode[p]
                                 THEN Holders(s, n) \ {p} ELSE Holders(s, n)
         /\ \A s \in Repos : Queued(s)' = Queued(s)
BY DEF TypeOK, Release, Holders, Queued, BroadcastAnd, Modes, Shared, Exclusive

-----------------------------------------------------------------------------
(* The invariant is kept by every step.                                    *)

LEMMA InitInv == Init => IInv
<1> SUFFICES ASSUME Init PROVE IInv
  OBVIOUS
<1>1. TypeOK
  <2>1. (CHOOSE r \in Repos : TRUE) \in Repos
    BY ReposNonEmpty
  <2>2. QED
    BY <2>1 DEF Init, TypeOK, Modes
<1>2. \A r \in Repos, m \in Modes : Holders(r, m) = {} /\ Queued(r) = {}
  BY DEF Init, Holders, Queued
<1>3. LockAccounting
  BY <1>2, FS_EmptySet
  DEF Init, LockAccounting, ReadersCounted, WritersCounted, OneWriter, EntriesExact,
      Modes, Shared, Exclusive
<1>4. QED
  BY <1>1, <1>3 DEF IInv

\* A caller that gets the lock: from outside (left is 0) or from the queue.
LEMMA TakeLockCounts ==
  ASSUME IInv, NEW p \in Procs, NEW r \in Repos, NEW m \in Modes, NEW left \in {0, 1},
         CanLock(r, m), TakeLock(r, m, left),
         p \notin Holders(r, m),
         p \in Queued(r) <=> (m = Exclusive /\ left = 1),
         \A s \in Repos, n \in Modes :
           Holders(s, n)' = IF s = r /\ n = m THEN Holders(s, n) \cup {p} ELSE Holders(s, n),
         \A s \in Repos : Queued(s)' = IF s = r THEN Queued(s) \ {p} ELSE Queued(s)
  PROVE  /\ LockAccounting'
         /\ entries' \subseteq Repos /\ readers' \in [Repos -> Nat]
         /\ writer' \in [Repos -> BOOLEAN] /\ waitingWriters' \in [Repos -> Nat]
<1> USE DEF IInv, TypeOK, LockAccounting, TakeLock, CanLock, Modes, Shared, Exclusive
<1>1. ASSUME NEW s \in Repos
      PROVE  Cardinality(Holders(s, Shared)') = readers'[s]
  <2>1. Cardinality(Holders(s, Shared)) = readers[s]
    BY DEF ReadersCounted
  <2>2. Holders(s, Shared)' = IF s = r /\ m = Shared
                                THEN Holders(s, Shared) \cup {p} ELSE Holders(s, Shared)
    OBVIOUS
  <2>3. readers'[s] = IF s = r /\ m = Shared THEN readers[s] + 1 ELSE readers[s]
    OBVIOUS
  <2>4. Cardinality(Holders(s, Shared) \cup {p}) =
          IF p \in Holders(s, Shared) THEN Cardinality(Holders(s, Shared))
                                      ELSE Cardinality(Holders(s, Shared)) + 1
    BY SetsFinite, FS_AddElement
  <2>5. QED
    BY <2>1, <2>2, <2>3, <2>4
<1>2. ASSUME NEW s \in Repos
      PROVE  /\ Cardinality(Queued(s)') = waitingWriters'[s]
             /\ waitingWriters'[s] \in Nat
  <2>1. Cardinality(Queued(s)) = waitingWriters[s] /\ Cardinality(Queued(s)) \in Nat
    BY SetsFinite, FS_CardinalityType DEF WritersCounted
  <2>2. waitingWriters'[s] = IF s = r /\ m = Exclusive /\ left = 1
                               THEN waitingWriters[s] - 1 ELSE waitingWriters[s]
    OBVIOUS
  <2>3. Cardinality(Queued(s) \ {p}) =
          IF p \in Queued(s) THEN Cardinality(Queued(s)) - 1 ELSE Cardinality(Queued(s))
    BY SetsFinite, FS_RemoveElement
  <2>4. Cardinality(Queued(s) \ {p}) \in Nat
    BY SetsFinite, FS_RemoveElement, FS_CardinalityType
  <2>5. CASE s = r /\ p \in Queued(s)
    <3>1. Queued(s)' = Queued(s) \ {p} /\ m = Exclusive /\ left = 1
      BY <2>5
    <3>2. waitingWriters'[s] = waitingWriters[s] - 1
      BY <2>2, <2>5, <3>1
    <3>3. QED
      BY <2>1, <2>3, <2>4, <2>5, <3>1, <3>2
  <2>6. CASE ~(s = r /\ p \in Queued(s))
    <3>1. Queued(s) \ {p} = Queued(s) \/ s # r
      BY <2>6
    <3>2. Queued(s)' = Queued(s)
      BY <3>1
    <3>3. waitingWriters'[s] = waitingWriters[s]
      BY <2>2, <2>6
    <3>4. QED
      BY <2>1, <3>2, <3>3
  <2>7. QED
    BY <2>5, <2>6
<1>3. readers' \in [Repos -> Nat] /\ writer' \in [Repos -> BOOLEAN] /\ entries' \subseteq Repos
  <2>1. CASE m = Exclusive
    BY <2>1
  <2>2. CASE m = Shared
    BY <2>2
  <2>3. QED
    BY <2>1, <2>2
<1>4. waitingWriters' \in [Repos -> Nat]
  BY <1>2
<1>5. OneWriter'
  BY DEF OneWriter
<1>6. EntriesExact'
  BY <1>3, <1>4 DEF EntriesExact
<1>7. QED
  BY <1>1, <1>2, <1>3, <1>4, <1>5, <1>6 DEF ReadersCounted, WritersCounted

LEMMA TryAcquireInv ==
  ASSUME IInv, NEW p \in Procs, NEW r \in Repos, NEW m \in Modes, TryAcquire(p, r, m)
  PROVE  IInv'
<1>1. /\ p \notin Holders(r, m) /\ p \notin Queued(r)
      /\ \A s \in Repos, n \in Modes :
           Holders(s, n)' = IF s = r /\ n = m THEN Holders(s, n) \cup {p} ELSE Holders(s, n)
      /\ \A s \in Repos : Queued(s)' = IF s = r THEN Queued(s) \ {p} ELSE Queued(s)
  BY TryAcquireMoves DEF IInv
<1>2. CanLock(r, m) /\ TakeLock(r, m, 0)
  BY DEF TryAcquire
<1>3. /\ LockAccounting'
      /\ entries' \subseteq Repos /\ readers' \in [Repos -> Nat]
      /\ writer' \in [Repos -> BOOLEAN] /\ waitingWriters' \in [Repos -> Nat]
  BY <1>1, <1>2, TakeLockCounts
<1>4. TypeOK'
  BY <1>3 DEF IInv, TypeOK, TryAcquire, StartRequest
<1>5. QED
  BY <1>3, <1>4 DEF IInv

LEMMA RetrySucceedsInv ==
  ASSUME IInv, NEW p \in Procs, RetrySucceeds(p)
  PROVE  IInv'
<1> DEFINE r == repo[p]
           m == mode[p]
<1>1. r \in Repos /\ m \in Modes
  BY DEF IInv, TypeOK
<1>2. /\ p \notin Holders(r, m)
      /\ p \in Queued(r) <=> m = Exclusive
      /\ \A s \in Repos, n \in Modes :
           Holders(s, n)' = IF s = r /\ n = m THEN Holders(s, n) \cup {p} ELSE Holders(s, n)
      /\ \A s \in Repos : Queued(s)' = IF s = r THEN Queued(s) \ {p} ELSE Queued(s)
  BY RetrySucceedsMoves DEF IInv
<1>3. CanLock(r, m) /\ TakeLock(r, m, 1)
  BY DEF RetrySucceeds
<1> HIDE DEF r, m
<1>4. /\ LockAccounting'
      /\ entries' \subseteq Repos /\ readers' \in [Repos -> Nat]
      /\ writer' \in [Repos -> BOOLEAN] /\ waitingWriters' \in [Repos -> Nat]
  BY <1>1, <1>2, <1>3, TakeLockCounts
<1>5. TypeOK'
  BY <1>4 DEF IInv, TypeOK, RetrySucceeds
<1>6. QED
  BY <1>4, <1>5 DEF IInv

LEMMA AcquireWaitsInv ==
  ASSUME IInv, NEW p \in Procs, NEW r \in Repos, NEW m \in Modes, AcquireWaits(p, r, m)
  PROVE  IInv'
<1> USE DEF IInv, TypeOK, LockAccounting, AcquireWaits, StartRequest
<1>1. /\ p \notin Queued(r)
      /\ \A s \in Repos, n \in Modes : Holders(s, n)' = Holders(s, n)
      /\ \A s \in Repos :
           Queued(s)' = IF s = r /\ m = Exclusive THEN Queued(s) \cup {p} ELSE Queued(s)
  BY AcquireWaitsMoves
<1>2. TypeOK'
  OBVIOUS
<1>3. ReadersCounted' /\ OneWriter'
  BY <1>1 DEF ReadersCounted, OneWriter, Modes
<1>4. ASSUME NEW s \in Repos
      PROVE  Cardinality(Queued(s)') = waitingWriters'[s]
  <2>1. Cardinality(Queued(s)) = waitingWriters[s]
    BY DEF WritersCounted
  <2>2. Cardinality(Queued(s) \cup {p}) =
          IF p \in Queued(s) THEN Cardinality(Queued(s)) ELSE Cardinality(Queued(s)) + 1
    BY SetsFinite, FS_AddElement
  <2>3. QED
    BY <1>1, <2>1, <2>2
<1>5. EntriesExact'
  BY <1>2 DEF EntriesExact, CanLock
<1>6. QED
  BY <1>2, <1>3, <1>4, <1>5 DEF WritersCounted

LEMMA RetryFailsInv ==
  ASSUME IInv, NEW p \in Procs, RetryFails(p)
  PROVE  IInv'
<1>1. TypeOK'
  BY DEF IInv, TypeOK, RetryFails, lockVars
<1>2. LockAccounting'
  BY RetryFailsMoves
  DEF IInv, RetryFails, lockVars, LockAccounting, ReadersCounted, WritersCounted, OneWriter,
      EntriesExact, Modes
<1>3. QED
  BY <1>1, <1>2 DEF IInv

LEMMA EndContextInv ==
  ASSUME IInv, NEW p \in Procs, EndContext(p)
  PROVE  IInv'
BY DEF IInv, TypeOK, EndContext, lockVars, LockAccounting, ReadersCounted, WritersCounted,
       OneWriter, EntriesExact, Holders, Queued

LEMMA GiveUpInv ==
  ASSUME IInv, NEW p \in Procs, GiveUp(p)
  PROVE  IInv'
<1> USE DEF IInv, TypeOK, LockAccounting, GiveUp, DropIdleEntry, BroadcastAnd, lockVars
<1>1. /\ mode[p] = Exclusive <=> p \in Queued(repo[p])
      /\ \A s \in Repos, n \in Modes : Holders(s, n)' = Holders(s, n)
      /\ \A s \in Repos : Queued(s)' = IF s = repo[p] THEN Queued(s) \ {p} ELSE Queued(s)
  BY GiveUpMoves
<1>2. ASSUME NEW s \in Repos
      PROVE  /\ Cardinality(Queued(s)') = waitingWriters'[s]
             /\ waitingWriters'[s] \in Nat
  <2>1. Cardinality(Queued(s)) = waitingWriters[s]
    BY DEF WritersCounted
  <2>2. /\ Cardinality(Queued(s) \ {p}) \in Nat
        /\ Cardinality(Queued(s) \ {p}) =
             IF p \in Queued(s) THEN Cardinality(Queued(s)) - 1 ELSE Cardinality(Queued(s))
    BY SetsFinite, FS_RemoveElement, FS_CardinalityType
  <2>3. waitingWriters'[s] = IF s = repo[p] /\ mode[p] = Exclusive
                               THEN waitingWriters[s] - 1 ELSE waitingWriters[s]
    OBVIOUS
  <2>4. CASE s = repo[p] /\ p \in Queued(s)
    <3>1. Queued(s)' = Queued(s) \ {p} /\ mode[p] = Exclusive
      BY <1>1, <2>4
    <3>2. waitingWriters'[s] = waitingWriters[s] - 1
      BY <2>3, <2>4, <3>1
    <3>3. QED
      BY <2>1, <2>2, <2>4, <3>1, <3>2
  <2>5. CASE ~(s = repo[p] /\ p \in Queued(s))
    <3>1. Queued(s) \ {p} = Queued(s) \/ s # repo[p]
      BY <2>5
    <3>2. Queued(s)' = Queued(s)
      BY <1>1, <3>1
    <3>3. waitingWriters'[s] = waitingWriters[s] /\ waitingWriters[s] \in Nat
      BY <1>1, <2>3, <2>5
    <3>4. QED
      BY <2>1, <3>2, <3>3
  <2>6. QED
    BY <2>4, <2>5
<1>3. UNCHANGED <<readers, writer, repo, mode, ctxDone>> /\ waitingWriters' \in [Repos -> Nat]
  BY <1>2
<1>4. TypeOK'
  BY <1>3
<1>5. ReadersCounted' /\ OneWriter'
  BY <1>1, <1>3 DEF ReadersCounted, OneWriter, Modes
<1>6. EntriesExact'
  BY <1>3 DEF EntriesExact
<1>7. QED
  BY <1>2, <1>4, <1>5, <1>6 DEF WritersCounted

LEMMA ReleaseInv ==
  ASSUME IInv, NEW p \in Procs, Release(p)
  PROVE  IInv'
<1> USE DEF IInv, TypeOK, LockAccounting, Release, DropIdleEntry, BroadcastAnd,
            Modes, Shared, Exclusive
<1>1. /\ p \in Holders(repo[p], mode[p])
      /\ \A s \in Repos, n \in Modes :
           Holders(s, n)' = IF s = repo[p] /\ n = mode[p]
                              THEN Holders(s, n) \ {p} ELSE Holders(s, n)
      /\ \A s \in Repos : Queued(s)' = Queued(s)
  BY ReleaseMoves
<1>2. ASSUME NEW s \in Repos
      PROVE  Cardinality(Holders(s, Shared)') = readers'[s] /\ readers'[s] \in Nat
  <2>1. Cardinality(Holders(s, Shared)) = readers[s]
    BY DEF ReadersCounted
  <2>2. /\ Cardinality(Holders(s, Shared) \ {p}) \in Nat
        /\ Cardinality(Holders(s, Shared) \ {p}) =
             IF p \in Holders(s, Shared) THEN Cardinality(Holders(s, Shared)) - 1
                                         ELSE Cardinality(Holders(s, Shared))
    BY SetsFinite, FS_RemoveElement, FS_CardinalityType
  <2>3. readers'[s] = IF s = repo[p] /\ mode[p] = Shared THEN readers[s] - 1 ELSE readers[s]
    OBVIOUS
  <2>4. Holders(s, Shared)' = IF s = repo[p] /\ mode[p] = Shared
                                THEN Holders(s, Shared) \ {p} ELSE Holders(s, Shared)
    BY <1>1
  <2>5. s = repo[p] /\ mode[p] = Shared => p \in Holders(s, Shared)
    BY <1>1
  <2>6. QED
    BY <2>1, <2>2, <2>3, <2>4, <2>5
<1>3. readers' \in [Repos -> Nat] /\ writer' \in [Repos -> BOOLEAN]
  BY <1>2
<1>4. TypeOK'
  BY <1>3
<1>5. WritersCounted'
  BY <1>1 DEF WritersCounted
<1>6. OneWriter'
  BY <1>1 DEF OneWriter
<1>7. EntriesExact'
  BY <1>3 DEF EntriesExact
<1>8. QED
  BY <1>2, <1>4, <1>5, <1>6, <1>7 DEF ReadersCounted

LEMMA NextInv == IInv /\ [Next]_vars => IInv'
<1> SUFFICES ASSUME IInv, [Next]_vars PROVE IInv'
  OBVIOUS
<1>1. ASSUME NEW p \in Procs, Request(p) PROVE IInv'
  BY <1>1, TryAcquireInv, AcquireWaitsInv DEF Request
<1>2. ASSUME NEW p \in Procs, RetrySucceeds(p) PROVE IInv'
  BY <1>2, RetrySucceedsInv
<1>3. ASSUME NEW p \in Procs, RetryFails(p) PROVE IInv'
  BY <1>3, RetryFailsInv
<1>4. ASSUME NEW p \in Procs, EndContext(p) PROVE IInv'
  BY <1>4, EndContextInv
<1>5. ASSUME NEW p \in Procs, GiveUp(p) PROVE IInv'
  BY <1>5, GiveUpInv
<1>6. ASSUME NEW p \in Procs, Release(p) PROVE IInv'
  BY <1>6, ReleaseInv
<1>7. CASE UNCHANGED vars
  BY <1>7 DEF vars, lockVars, IInv, TypeOK, LockAccounting, ReadersCounted, WritersCounted,
              OneWriter, EntriesExact, Holders, Queued
<1>8. QED
  BY <1>1, <1>2, <1>3, <1>4, <1>5, <1>6, <1>7 DEF Next

\* The state stays well typed; no counter ever goes below zero.
THEOREM TypeCorrect == Spec => []TypeOK
<1>1. IInv => TypeOK
  BY DEF IInv
<1>2. QED
  BY InitInv, NextInv, <1>1, PTL DEF Spec

\* For any number of callers: after every interleaving of requests, cancelled waits and
\* releases, the counters of repolock.go count what really holds and awaits a repository.
THEOREM Accounting == Spec => []LockAccounting
<1>1. IInv => LockAccounting
  BY DEF IInv
<1>2. QED
  BY InitInv, NextInv, <1>1, PTL DEF Spec

-----------------------------------------------------------------------------
(* Mutual exclusion.                                                       *)

\* What the counters alone must satisfy; with the accounting it is mutual exclusion.
WriterAlone == \A r \in Repos : writer[r] => readers[r] = 0

LEMMA WriterAloneKept == IInv /\ WriterAlone /\ [Next]_vars => WriterAlone'
<1> SUFFICES ASSUME IInv, WriterAlone, [Next]_vars PROVE WriterAlone'
  OBVIOUS
<1> USE DEF IInv, TypeOK, WriterAlone, CanLock, TakeLock, Modes, Shared, Exclusive, lockVars
<1>1. ASSUME NEW p \in Procs, NEW r \in Repos, NEW m \in Modes, TryAcquire(p, r, m)
      PROVE  WriterAlone'
  BY <1>1 DEF TryAcquire
<1>2. ASSUME NEW p \in Procs, NEW r \in Repos, NEW m \in Modes, AcquireWaits(p, r, m)
      PROVE  WriterAlone'
  BY <1>2 DEF AcquireWaits
<1>3. ASSUME NEW p \in Procs, RetrySucceeds(p)
      PROVE  WriterAlone'
  BY <1>3 DEF RetrySucceeds
<1>4. ASSUME NEW p \in Procs, RetryFails(p) \/ EndContext(p) \/ GiveUp(p)
      PROVE  WriterAlone'
  BY <1>4 DEF RetryFails, EndContext, GiveUp
<1>5. ASSUME NEW p \in Procs, Release(p)
      PROVE  WriterAlone'
  <2>1. CASE mode[p] = Exclusive
    BY <1>5, <2>1 DEF Release
  <2>2. CASE mode[p] = Shared
    <3>1. p \in Holders(repo[p], Shared) /\ readers[repo[p]] # 0
      <4>1. p \in Holders(repo[p], Shared)
        BY <1>5, <2>2 DEF Release, Holders
      <4>2. QED
        BY <4>1, SetsFinite, FS_EmptySet DEF LockAccounting, ReadersCounted
    <3>2. ~writer[repo[p]]
      BY <3>1
    <3>3. QED
      BY <1>5, <2>2, <3>2 DEF Release
  <2>3. QED
    BY <2>1, <2>2
<1>6. CASE UNCHANGED vars
  BY <1>6 DEF vars
<1>7. QED
  BY <1>1, <1>2, <1>3, <1>4, <1>5, <1>6 DEF Next, Request

LEMMA WriterAloneAlways == Spec => [](IInv /\ WriterAlone)
<1>1. Init => WriterAlone
  BY DEF Init, WriterAlone
<1>2. QED
  BY InitInv, NextInv, <1>1, WriterAloneKept, PTL DEF Spec

LEMMA AloneImpliesExclusion == IInv /\ WriterAlone => MutualExclusion
<1> SUFFICES ASSUME IInv, WriterAlone,
                    NEW p \in Procs, NEW q \in Procs, p # q, repo[p] = repo[q],
                    mode[p] = Exclusive, pc[p] = "holding", pc[q] = "holding"
             PROVE  FALSE
  BY DEF MutualExclusion
<1> DEFINE r == repo[p]
<1>1. r \in Repos /\ mode[q] \in Modes
  BY DEF IInv, TypeOK
<1>2. p \in Holders(r, Exclusive)
  BY DEF Holders
<1>3. writer[r] /\ readers[r] = 0
  BY <1>1, <1>2 DEF IInv, LockAccounting, OneWriter, WriterAlone
<1>4. Holders(r, Shared) = {}
  BY <1>1, <1>3, SetsFinite, FS_EmptySet DEF IInv, LockAccounting, ReadersCounted
<1>5. CASE mode[q] = Shared
  BY <1>4, <1>5 DEF Holders
<1>6. CASE mode[q] = Exclusive
  <2>1. q \in Holders(r, Exclusive)
    BY <1>6 DEF Holders
  <2>2. QED
    BY <1>1, <1>2, <2>1 DEF IInv, LockAccounting, OneWriter
<1>7. QED
  BY <1>1, <1>5, <1>6 DEF Modes

\* Maintenance and backups exclude each other: no caller holds a repository beside an
\* exclusive holder, for any number of callers and repositories.
THEOREM MutexCorrect == Spec => []MutualExclusion
BY WriterAloneAlways, AloneImpliesExclusion, PTL

-----------------------------------------------------------------------------
(* No lost wake-up.                                                        *)

LEMMA WakeupKept == IInv /\ NoLostWakeup /\ [Next]_vars => NoLostWakeup'
<1> SUFFICES ASSUME IInv, NoLostWakeup, [Next]_vars,
                    NEW q \in Procs, pc'[q] = "waiting"
             PROVE  ~CanLock(repo[q], mode[q])'
  BY DEF NoLostWakeup
<1> USE DEF IInv, TypeOK, NoLostWakeup, CanLock, TakeLock, Modes, Shared, Exclusive, lockVars
<1>1. ASSUME NEW p \in Procs, NEW r \in Repos, NEW m \in Modes, TryAcquire(p, r, m)
      PROVE  ~CanLock(repo[q], mode[q])'
  <2>1. q # p /\ pc[q] = "waiting" /\ repo'[q] = repo[q] /\ mode'[q] = mode[q]
    BY <1>1 DEF TryAcquire, StartRequest
  <2>2. QED
    BY <1>1, <2>1 DEF TryAcquire
<1>2. ASSUME NEW p \in Procs, NEW r \in Repos, NEW m \in Modes, AcquireWaits(p, r, m)
      PROVE  ~CanLock(repo[q], mode[q])'
  BY <1>2 DEF AcquireWaits, StartRequest
<1>3. ASSUME NEW p \in Procs, RetrySucceeds(p)
      PROVE  ~CanLock(repo[q], mode[q])'
  <2>1. q # p /\ pc[q] = "waiting" /\ repo'[q] = repo[q] /\ mode'[q] = mode[q]
    BY <1>3 DEF RetrySucceeds
  <2>2. QED
    BY <1>3, <2>1 DEF RetrySucceeds
<1>4. ASSUME NEW p \in Procs, RetryFails(p)
      PROVE  ~CanLock(repo[q], mode[q])'
  BY <1>4 DEF RetryFails
<1>5. ASSUME NEW p \in Procs, EndContext(p)
      PROVE  ~CanLock(repo[q], mode[q])'
  BY <1>5 DEF EndContext
<1>6. ASSUME NEW p \in Procs, GiveUp(p)
      PROVE  ~CanLock(repo[q], mode[q])'
  BY <1>6 DEF GiveUp, BroadcastAnd
<1>7. ASSUME NEW p \in Procs, Release(p)
      PROVE  ~CanLock(repo[q], mode[q])'
  BY <1>7 DEF Release, BroadcastAnd
<1>8. CASE UNCHANGED vars
  BY <1>8 DEF vars
<1>9. QED
  BY <1>1, <1>2, <1>3, <1>4, <1>5, <1>6, <1>7, <1>8 DEF Next, Request

\* A blocked caller is always one that could not take the lock: closing the channel on
\* release and on withdrawal is enough, whatever the interleaving.
THEOREM WakeupCorrect == Spec => []NoLostWakeup
<1>1. Init => NoLostWakeup
  BY DEF Init, NoLostWakeup
<1>2. QED
  BY InitInv, NextInv, <1>1, WakeupKept, PTL DEF Spec

-----------------------------------------------------------------------------
(* Refinement.                                                             *)

\* What a counter says about the set it counts.
LEMMA CountersAndSets ==
  ASSUME IInv, NEW r \in Repos
  PROVE  /\ readers[r] = 0 <=> Holders(r, Shared) = {}
         /\ waitingWriters[r] = 0 <=> Queued(r) = {}
         /\ ~writer[r] <=> Holders(r, Exclusive) = {}
BY SetsFinite, FS_EmptySet
DEF IInv, LockAccounting, ReadersCounted, WritersCounted, OneWriter

LEMMA TakeImplements ==
  ASSUME IInv, NEW p \in Procs, NEW r \in Repos, NEW m \in Modes, CanLock(r, m),
         \A s \in Repos, n \in Modes :
           Holders(s, n)' = IF s = r /\ n = m THEN Holders(s, n) \cup {p} ELSE Holders(s, n),
         \A s \in Repos :
           Queued(s)' = IF s = r /\ m = Exclusive THEN Queued(s) \ {p} ELSE Queued(s)
  PROVE  Abstract!Next
<1> USE DEF CanLock, Modes, Shared, Exclusive
<1>1. CASE m = Shared
  <2>1. Abstract!GrantShared(p, r)
    BY <1>1, CountersAndSets DEF Abstract!GrantShared
  <2>2. QED
    BY <2>1 DEF Abstract!Next
<1>2. CASE m = Exclusive
  <2>1. Abstract!GrantExclusive(p, r)
    BY <1>2, CountersAndSets DEF Abstract!GrantExclusive
  <2>2. QED
    BY <2>1 DEF Abstract!Next
<1>3. QED
  BY <1>1, <1>2

LEMMA StepImplements == IInv /\ [Next]_vars => [Abstract!Next]_(Abstract!vars)
<1> SUFFICES ASSUME IInv, [Next]_vars PROVE Abstract!Next \/ UNCHANGED Abstract!vars
  OBVIOUS
<1>1. ASSUME NEW p \in Procs, NEW r \in Repos, NEW m \in Modes, TryAcquire(p, r, m)
      PROVE  Abstract!Next
  <2>1. \A s \in Repos : Queued(s)' = IF s = r /\ m = Exclusive THEN Queued(s) \ {p} ELSE Queued(s)
    BY <1>1, TryAcquireMoves DEF IInv
  <2>2. CanLock(r, m)
    BY <1>1 DEF TryAcquire
  <2>3. QED
    BY <1>1, <2>1, <2>2, TryAcquireMoves, TakeImplements DEF IInv
<1>2. ASSUME NEW p \in Procs, NEW r \in Repos, NEW m \in Modes, AcquireWaits(p, r, m)
      PROVE  Abstract!Next \/ UNCHANGED Abstract!vars
  <2>1. CASE m = Exclusive
    <3>1. Holders(r, Shared) \cup Holders(r, Exclusive) # {}
      BY <1>2, <2>1, CountersAndSets DEF AcquireWaits, CanLock
    <3>2. Abstract!Queue(p, r)
      BY <1>2, <2>1, <3>1, AcquireWaitsMoves DEF IInv, Abstract!Queue, Modes
    <3>3. QED
      BY <3>2 DEF Abstract!Next
  <2>2. CASE m # Exclusive
    BY <1>2, <2>2, AcquireWaitsMoves DEF IInv, Abstract!vars, Modes
  <2>3. QED
    BY <2>1, <2>2
<1>3. ASSUME NEW p \in Procs, RetrySucceeds(p)
      PROVE  Abstract!Next
  <2>1. repo[p] \in Repos /\ mode[p] \in Modes /\ CanLock(repo[p], mode[p])
    BY <1>3 DEF IInv, TypeOK, RetrySucceeds
  <2>2. \A s \in Repos :
          Queued(s)' = IF s = repo[p] /\ mode[p] = Exclusive THEN Queued(s) \ {p} ELSE Queued(s)
    BY <1>3, RetrySucceedsMoves DEF IInv
  <2>3. QED
    BY <1>3, <2>1, <2>2, RetrySucceedsMoves, TakeImplements DEF IInv
<1>4. ASSUME NEW p \in Procs, RetryFails(p)
      PROVE  UNCHANGED Abstract!vars
  BY <1>4, RetryFailsMoves DEF IInv, Abstract!vars, Modes
<1>5. ASSUME NEW p \in Procs, EndContext(p)
      PROVE  UNCHANGED Abstract!vars
  BY <1>5 DEF EndContext, Abstract!vars, Holders, Queued
<1>6. ASSUME NEW p \in Procs, GiveUp(p)
      PROVE  Abstract!Next \/ UNCHANGED Abstract!vars
  <2>1. repo[p] \in Repos
    BY DEF IInv, TypeOK
  <2>2. CASE p \in Queued(repo[p])
    <3>1. Abstract!Withdraw(p, repo[p])
      BY <1>6, <2>1, <2>2, GiveUpMoves DEF IInv, Abstract!Withdraw, Modes
    <3>2. QED
      BY <2>1, <3>1 DEF Abstract!Next
  <2>3. CASE p \notin Queued(repo[p])
    <3>1. \A s \in Repos : Queued(s)' = Queued(s)
      <4>1. Queued(repo[p]) \ {p} = Queued(repo[p])
        BY <2>3
      <4>2. QED
        BY <1>6, <4>1, GiveUpMoves DEF IInv
    <3>2. QED
      BY <1>6, <3>1, GiveUpMoves DEF IInv, Abstract!vars, Modes
  <2>4. QED
    BY <2>2, <2>3
<1>7. ASSUME NEW p \in Procs, Release(p)
      PROVE  Abstract!Next
  <2>1. repo[p] \in Repos /\ mode[p] \in Modes /\ p \in Holders(repo[p], mode[p])
    BY <1>7, ReleaseMoves DEF IInv, TypeOK
  <2>2. \A n \in Modes : n # mode[p] => p \notin Holders(repo[p], n)
    BY DEF Holders
  <2>3. \A s \in Repos, n \in Modes :
          Holders(s, n)' = IF s = repo[p] THEN Holders(s, n) \ {p} ELSE Holders(s, n)
    <3>1. \A n \in Modes : n # mode[p] => Holders(repo[p], n) \ {p} = Holders(repo[p], n)
      BY <2>2
    <3>2. QED
      BY <1>7, <3>1, ReleaseMoves DEF IInv
  <2>4. Abstract!Release(p, repo[p])
    BY <1>7, <2>1, <2>3, ReleaseMoves DEF IInv, Abstract!Release, Modes
  <2>5. QED
    BY <2>1, <2>4 DEF Abstract!Next
<1>8. CASE UNCHANGED vars
  BY <1>8 DEF vars, Abstract!vars, Holders, Queued
<1>9. QED
  BY <1>1, <1>2, <1>3, <1>4, <1>5, <1>6, <1>7, <1>8 DEF Next, Request

\* The lock of repolock.go implements RWLock: every step of the counters is a step of the
\* sets or leaves them alone, so a shared request is never admitted past a queued
\* exclusive one and an exclusive one queues only when it has to.
THEOREM RefinesRWLock == Spec => ImplementsRWLock
<1>1. Init => Abstract!Init
  BY DEF Init, Abstract!Init, Holders, Queued
<1>2. QED
  BY InitInv, NextInv, <1>1, StepImplements, PTL DEF Spec, ImplementsRWLock, Abstract!Spec

-----------------------------------------------------------------------------
(* What works under the shared lock: the requests that read snapshots,     *)
(* which Download models.  Their lock is RWLock, which the theorem above   *)
(* shows to be implemented; the proof needs nothing of it.                 *)

\* What is dumped of a request, and what may be in a snapshot below its paths.
ToDump(r) == IF r.job \in FileJobs THEN Selected(r.paths) ELSE r.paths
Part(p, s) == Under[p] \cap Stored[s]

Requests == [kind : Kinds \cup {None}, job : Jobs \cup {None}, id : Given \cup {None},
             snap : Snaps \cup {None}, paths : SUBSET Paths, left : SUBSET Paths]
Places == {"idle", "checking", "listed", "resolved", "next", "dumping", "joining", "done"}
Early == {"idle", "checking", "listed", "resolved"}
Processes == {"off", "running", "ok", "failed", "killed"}

Domains ==
  /\ present \subseteq Snaps
  /\ request \in [Downloads -> Requests] /\ DOMAIN answer = Downloads
  /\ phase \in [Downloads -> Places]
  /\ DOMAIN restic = Downloads /\ DOMAIN pipe = Downloads /\ DOMAIN reader = Downloads
  /\ DOMAIN cancelled = Downloads /\ headers \in [Downloads -> BOOLEAN] /\ DOMAIN sent = Downloads
  /\ client \in [Downloads -> {"reading", "stopped", "gone"}]
  /\ result \in [Downloads -> {"open", "answered", "complete", "aborted", "error"}]

\* How far a request has come: before its first dump nothing has been sent.
PhaseInv(d) == LET r == request[d] IN
  /\ (result[d] = "open") = (phase[d] # "done")
  /\ r.left \subseteq ToDump(r)
  /\ Own(r) /\ (r.snap # None => Fits(r))
  /\ phase[d] \in {"idle", "checking", "listed"} => r.snap = None
  /\ phase[d] \in {"checking", "resolved"} => r.left = ToDump(r)
  /\ phase[d] = "resolved" => r.snap # None
  /\ phase[d] \in Early => sent[d] = <<>> /\ ~headers[d] /\ restic[d] = Off /\ reader[d] = "off"
  /\ r.snap = None => sent[d] = <<>>
  /\ ~headers[d] => \A i \in DOMAIN sent[d] : sent[d][i] = {}
  /\ result[d] = "error" => ~headers[d]

\* What a request that reads no data shows.
AnswerInv(d) == LET r == request[d] IN
  /\ phase[d] = "listed" => r.kind = "list"
  /\ phase[d] = "listed" \/ (result[d] = "answered" /\ r.kind = "list") =>
       \A s \in answer[d].shown : JobOf[s] = r.job
  /\ result[d] = "answered" =>
       /\ r.kind \in {"browse", "exports"} => answer[d].shown \subseteq Contents[r.snap]
       /\ r.kind = "exports" => r.job \notin FileJobs /\ answer[d].shown \subseteq Files

\* Every entry of the path that is being dumped is sent, at the reader, in the pipe, or still to
\* come, unless a reader or restic has failed.
Flow(d, p) == LET s == request[d].snap IN
  /\ restic[d].state \in Processes \ {"off"} /\ restic[d].rest \subseteq Part(p, s) \cup {Pad}
  /\ restic[d] = [state |-> restic[d].state, rest |-> restic[d].rest]
  /\ pipe[d] \in Part(p, s) \cup {None, "closed", Pad}
  /\ reader[d] \in Part(p, s) \cup {"reading", "done", "failed"}
  /\ restic[d].state = "ok" => restic[d].rest = {}
  /\ pipe[d] = "closed" => reader[d] = "failed"
  /\ reader[d] = "done" => pipe[d] = None
  /\ sent[d][Len(sent[d])] \subseteq Part(p, s)
  /\ reader[d] # "failed" /\ restic[d].state # "failed" =>
       Part(p, s) \subseteq sent[d][Len(sent[d])] \cup {reader[d], pipe[d]} \cup restic[d].rest

\* The first n parts are what the snapshot has of the paths.
SentOf(d, n, paths) == UNION {sent[d][i] : i \in 1 .. n} =
    Entries(paths) \cap Stored[request[d].snap]

DumpInv(d) == LET r == request[d] IN
  /\ r.kind = "download" /\ r.snap # None /\ ToDump(r) \subseteq Contents[r.snap]
  /\ sent[d] \in Seq(SUBSET Entries(Paths)) /\ Once(sent[d])
  /\ phase[d] = "next" => /\ SentOf(d, Len(sent[d]), ToDump(r) \ r.left)
                          /\ restic[d].state # "running" /\ reader[d] \in {"off", "done"}
  /\ phase[d] # "next" => /\ Len(sent[d]) > 0
                          /\ \E p \in ToDump(r) \ r.left :
                               /\ SentOf(d, Len(sent[d]) - 1, (ToDump(r) \ r.left) \ {p})
                               /\ Flow(d, p)
  /\ phase[d] = "joining" => restic[d].state # "running" /\ pipe[d] \in {None, "closed"}
  /\ phase[d] = "dumping" => reader[d] # "done"

CompleteInv(d) == LET r == request[d] IN
  result[d] = "complete" =>
    /\ UNION {sent[d][i] : i \in DOMAIN sent[d]} = Entries(r.paths) \cap Stored[r.snap]
    /\ Once(sent[d])
    /\ \A p \in r.paths : \E q \in r.paths \cap Contents[r.snap] : Under[p] \subseteq Under[q]

LocalInv(d) ==
  /\ PhaseInv(d) /\ AnswerInv(d) /\ CompleteInv(d)
  /\ phase[d] \in {"next", "dumping", "joining"} => DumpInv(d)
  /\ phase[d] = "done" => restic[d].state # "running" /\ reader[d] \in {"off", "done", "failed"}
DownloadInv == Domains /\ \A d \in Downloads : LocalInv(d)

LEMMA DownloadImplies == DownloadInv => ResponseIsTrue
<1> SUFFICES ASSUME DownloadInv
             PROVE  ResponseIsTrue
  OBVIOUS
<1>1. ASSUME NEW d \in Downloads
      PROVE  /\ request[d].left \subseteq request[d].paths /\ request[d].paths \subseteq Paths
             /\ client[d] \in {"reading", "stopped", "gone"}
             /\ result[d] \in {"open", "answered", "complete", "aborted", "error"}
             /\ (result[d] = "open") = (phase[d] # "done")
  <2>1. ToDump(request[d]) \subseteq request[d].paths
    BY DEF ToDump, Selected
  <2> QED
    BY <2>1 DEF DownloadInv, LocalInv, PhaseInv, Domains, Requests
<1>2. DownloadTypeOK
  BY <1>1 DEF DownloadTypeOK
<1>3. \A d \in Downloads : PhaseInv(d) /\ AnswerInv(d) /\ CompleteInv(d)
  BY DEF DownloadInv, LocalInv
<1> QED
  BY <1>2, <1>3 DEF PhaseInv, AnswerInv, CompleteInv, ResponseIsTrue

LEMMA DownloadStart == DownloadInit => DownloadInv
  BY DownloadConstants DEF DownloadInit, DownloadInv, Domains, LocalInv, PhaseInv, AnswerInv,
     CompleteInv, Own, Each, Off, NoRequest, Nothing, ToDump, Selected, Requests, Places, Early

-----------------------------------------------------------------------------
(* Paths.                                                                  *)

Below == {p \in Nat \X Nat : p[1] < p[2]}

\* Every path of a request is inside one of those that are dumped.
LEMMA Covered ==
  ASSUME NEW S \in SUBSET Paths, NEW p \in S
  PROVE  \E q \in Selected(S) : Under[p] \subseteq Under[q]
<1> DEFINE Inside(q) == {x \in S : Under[x] \subseteq Under[q]}
           Above == {q \in S : Under[p] \subseteq Under[q]}
           Gap(q) == Cardinality(S) - Cardinality(Inside(q))
           Gaps == {Gap(q) : q \in Above}
<1>1. IsFiniteSet(S) /\ Cardinality(S) \in Nat
  BY FS_Subset, FS_CardinalityType, DownloadConstants
<1>2. \A q \in S : /\ IsFiniteSet(Inside(q)) /\ Cardinality(Inside(q)) \in Nat
                   /\ Cardinality(Inside(q)) <= Cardinality(S)
  <2> SUFFICES ASSUME NEW q \in S
               PROVE  /\ IsFiniteSet(Inside(q)) /\ Cardinality(Inside(q)) \in Nat
                      /\ Cardinality(Inside(q)) <= Cardinality(S)
    OBVIOUS
  <2>1. Inside(q) \subseteq S
    OBVIOUS
  <2> HIDE DEF Inside
  <2> QED
    BY <1>1, <2>1, FS_Subset, FS_CardinalityType
<1>3. \A q, x \in S : Under[q] \subseteq Under[x] /\ q # x => Gap(x) < Gap(q)
  <2> SUFFICES ASSUME NEW q \in S, NEW x \in S, Under[q] \subseteq Under[x], q # x
               PROVE  Gap(x) < Gap(q)
    OBVIOUS
  <2>1. Inside(q) \subseteq Inside(x)
    OBVIOUS
  <2>2. x \in Inside(x) /\ x \notin Inside(q)
    BY DownloadConstants
  <2> HIDE DEF Inside
  <2>3. Cardinality(Inside(q)) < Cardinality(Inside(x))
    BY <1>2, <2>1, <2>2, FS_Subset
  <2> QED
    BY <1>1, <1>2, <2>3
<1>4. \A q \in S : Gap(q) \in Nat
  <2> HIDE DEF Inside
  <2> QED
    BY <1>1, <1>2
<1> HIDE DEF Gap, Inside
<1>5. Gaps \in SUBSET Nat /\ Gaps # {}
  BY <1>4
<1>6. IsWellFoundedOn(Below, Nat)
  BY NatLessThanWellFounded DEF OpToRel, Below
<1>7. PICK g \in Gaps : \A h \in Gaps : <<h, g>> \notin Below
  BY <1>5, <1>6, WFMin
<1>8. PICK q \in Above : g = Gap(q)
  BY <1>7
<1>9. \A x \in S : Under[q] \subseteq Under[x] => x = q
  <2> SUFFICES ASSUME NEW x \in S, Under[q] \subseteq Under[x], x # q
               PROVE  FALSE
    OBVIOUS
  <2>1. x \in Above /\ Gap(x) < Gap(q)
    BY <1>3, <1>8
  <2> QED
    BY <1>4, <1>7, <1>8, <2>1 DEF Below
<1> QED
  BY <1>8, <1>9 DEF Selected

\* Different paths that are dumped have no entry in common.
LEMMA Apart ==
  ASSUME NEW r \in Requests, r.kind = "download", Fits(r),
         NEW p \in ToDump(r), NEW q \in ToDump(r), p # q
  PROVE  Under[p] \cap Under[q] = {}
<1>1. CASE r.job \in FileJobs
  BY <1>1, DownloadConstants DEF ToDump, Selected, Requests
<1>2. CASE r.job \notin FileJobs
  <2>1. \E x : r.paths = {x}
    BY <1>2 DEF Fits, Reads
  <2> QED
    BY <1>2, <2>1 DEF ToDump
<1> QED
  BY <1>1, <1>2

-----------------------------------------------------------------------------
(* A step concerns one request.                                            *)

Same(e) ==
  /\ request'[e] = request[e] /\ answer'[e] = answer[e] /\ phase'[e] = phase[e] /\ restic'[e] = restic[e]
  /\ pipe'[e] = pipe[e] /\ reader'[e] = reader[e] /\ headers'[e] = headers[e] /\ sent'[e] = sent[e]
  /\ result'[e] = result[e]

LEMMA Frame ==
  ASSUME NEW e, LocalInv(e), Same(e)
  PROVE  LocalInv(e)'
<1>1. PhaseInv(e)' /\ AnswerInv(e)' /\ CompleteInv(e)'
  BY DEF Same, LocalInv, PhaseInv, AnswerInv, CompleteInv
<1>2. DumpInv(e) => DumpInv(e)'
  <2>1. \A p : Flow(e, p)' <=> Flow(e, p)
    BY DEF Same, Flow
  <2>2. \A n, paths : SentOf(e, n, paths)' <=> SentOf(e, n, paths)
    BY DEF Same, SentOf
  <2> QED
    BY <2>1, <2>2 DEF Same, DumpInv
<1> QED
  BY <1>1, <1>2 DEF Same, LocalInv

Work(d) ==
  \/ CheckFails(d) \/ Handler(d) \/ Restic(d) \/ Unreadable(d) \/
      Client(d) \/ NoticeGone(d)
  \/ \E wellFormed \in BOOLEAN : Refuse(d, wellFormed)
  \/ phase[d] = "idle" /\ \E kind \in Kinds, job \in Jobs, id \in Given, paths \in SUBSET Paths :
                             Open(d, Asked(kind, job, id, paths))

Changes(d) == Domains' /\ \A e \in Downloads : e # d => Same(e)

\* What a request may be given.
LEMMA RequestType ==
  ASSUME NEW kind \in Kinds, NEW job \in Jobs, NEW id \in Given, NEW paths \in SUBSET Paths
  PROVE  /\ Asked(kind, job, id, paths) \in Requests
         /\ Asked(kind, job, id, paths).left = ToDump(Asked(kind, job, id, paths))
         /\ Asked(kind, job, id, paths).snap = None
  BY DEF Asked, Requests, ToDump, Selected

LEMMA EarlyChanges ==
  ASSUME DownloadInv, NEW d \in Downloads,
         \/ CheckFails(d) \/ List(d) \/ Explain(d) \/
             FindSnapshot(d) \/ LookInside(d)
         \/ \E wellFormed \in BOOLEAN : Refuse(d, wellFormed)
         \/ \E kind \in Kinds, job \in Jobs, id \in Given, paths \in SUBSET Paths :
              Open(d, Asked(kind, job, id, paths))
  PROVE  Changes(d)
<1>1. Domains
  BY DEF DownloadInv
<1>2. CASE \E wellFormed \in BOOLEAN : Refuse(d, wellFormed)
  BY <1>1, <1>2 DEF Refuse, Set, Domains, Changes, Same, Places, commandVars
<1>3. ASSUME Fail(d)
      PROVE  Changes(d)
  <2>1. (IF headers[d] THEN "aborted" ELSE "error") \in {"aborted", "error"}
    OBVIOUS
  <2> QED
    BY <1>1, <1>3, <2>1 DEF Fail, Set, Domains, Changes, Same, Places, commandVars
<1>4. ASSUME NEW shown, NEW kept, Answer(d, shown, kept)
      PROVE  Changes(d)
  BY <1>1, <1>4 DEF Answer, Set, Domains, Changes, Same, Places, commandVars
<1>5. CASE List(d)
  BY <1>1, <1>5 DEF List, Set, Domains, Changes, Same, Places, commandVars, responseVars
<1>6. CASE FindSnapshot(d)
  <2> SUFFICES ASSUME NEW s \in Snaps, request' = [request EXCEPT ![d].snap = s],
                      phase' = Set(phase, d, "resolved"),
                      UNCHANGED <<rwLockVars, present, answer, commandVars,
                          responseVars>>
               PROVE  Changes(d)
    BY <1>1, <1>3, <1>6 DEF FindSnapshot, Resolve, OfJob, NotFound, Domains
  <2>1. [request[d] EXCEPT !.snap = s] \in Requests
    BY <1>1 DEF Domains, Requests
  <2>2. request' \in [Downloads -> Requests]
    BY <1>1, <2>1 DEF Domains
  <2> QED
    BY <1>1, <2>2 DEF Set, Domains, Changes, Same, Places, commandVars, responseVars
<1>7. CASE LookInside(d)
  <2> SUFFICES ASSUME phase' = Set(phase, d, "next"),
                      UNCHANGED <<rwLockVars, present, request, answer, commandVars,
                          responseVars>>
               PROVE  Changes(d)
    BY <1>3, <1>4, <1>7 DEF LookInside
  <2> QED
    BY <1>1 DEF Set, Domains, Changes, Same, Places, commandVars, responseVars
<1>8. ASSUME NEW kind \in Kinds, NEW job \in Jobs, NEW id \in Given,
                 NEW paths \in SUBSET Paths,
             Open(d, Asked(kind, job, id, paths))
      PROVE  Changes(d)
  <2>1. Asked(kind, job, id, paths) \in Requests
    BY RequestType
  <2> QED
    BY <1>1, <1>8, <2>1 DEF Open, Set, Domains, Changes, Same, Places, commandVars, responseVars
<1> QED
  BY <1>2, <1>3, <1>4, <1>5, <1>6, <1>7, <1>8 DEF CheckFails, Explain

LEMMA DumpChanges ==
  ASSUME DownloadInv, NEW d \in Downloads,
         \/ StartDump(d) \/ CommandReturns(d) \/ Join(d) \/
             Finish(d) \/ ReaderTakes(d) \/ Send(d)
         \/ WriteFails(d) \/ ReaderEnds(d) \/ Restic(d) \/
             Unreadable(d) \/ Client(d) \/ NoticeGone(d)
  PROVE  Changes(d)
<1>1. Domains
  BY DEF DownloadInv
<1>2. ASSUME Fail(d)
      PROVE  Changes(d)
  <2>1. (IF headers[d] THEN "aborted" ELSE "error") \in {"aborted", "error"}
    OBVIOUS
  <2> QED
    BY <1>1, <1>2, <2>1 DEF Fail, Set, Domains, Changes, Same, Places, commandVars
<1>3. CASE StartDump(d)
  <2>1. PICK p : request' = [request EXCEPT ![d].left = @ \ {p}]
    BY <1>3 DEF StartDump
  <2>2. [request[d] EXCEPT !.left = @ \ {p}] \in Requests
    BY <1>1 DEF Domains, Requests
  <2>3. request' \in [Downloads -> Requests] /\ \A e \in Downloads : e # d => request'[e] = request[e]
    BY <1>1, <2>1, <2>2 DEF Domains
  <2> QED
    BY <1>1, <1>3, <2>3 DEF StartDump, Set, Domains, Changes, Same, Places
<1>4. CASE CommandReturns(d)
  BY <1>1, <1>4 DEF CommandReturns, Set, Domains, Changes, Same, Places, commandVars, responseVars
<1>5. CASE Join(d)
  BY <1>1, <1>2, <1>5 DEF Join, Set, Domains, Changes, Same, Places, commandVars, responseVars
<1>6. CASE Finish(d)
  <2> SUFFICES ASSUME headers' = Set(headers, d, TRUE), result' = Set(result, d,
                          "complete"),
                      phase' = Set(phase, d, "done"), UNCHANGED <<present, answer, request,
                             commandVars, client, sent>>
               PROVE  Changes(d)
    BY <1>2, <1>6 DEF Finish
  <2> QED
    BY <1>1 DEF Set, Domains, Changes, Same, Places, commandVars
<1>7. CASE ReaderTakes(d) \/ ReaderEnds(d)
  BY <1>1, <1>7 DEF ReaderTakes, ReaderEnds, Set, Domains, Changes, Same, responseVars
<1>8. CASE Send(d)
  BY <1>1, <1>8 DEF Send, Set, Domains, Changes, Same
<1>9. CASE WriteFails(d) \/ Unreadable(d)
  BY <1>1, <1>9 DEF WriteFails, Unreadable, ReaderFails, Set, Domains, Changes, Same
<1>10. CASE Restic(d)
  BY <1>1, <1>10 DEF Restic, ResticWrites, ResticEnds, Set, Domains, Changes, Same, responseVars
<1>11. CASE Client(d)
  BY <1>1, <1>11 DEF Client, ClientStops, ClientReads, ClientLeaves, Set, Domains, Changes, Same,
     commandVars
<1>12. CASE NoticeGone(d)
  BY <1>1, <1>12 DEF NoticeGone, Set, Domains, Changes, Same, responseVars
<1> QED
  BY <1>3, <1>4, <1>5, <1>6, <1>7, <1>8, <1>9, <1>10, <1>11, <1>12

-----------------------------------------------------------------------------
(* Steps before the first dump.                                            *)

\* No process and no goroutine is at work.
Quiet(d) == restic[d].state # "running" /\ reader[d] \in {"off", "done", "failed"}

LEMMA FailKeeps ==
  ASSUME DownloadInv, NEW d \in Downloads, phase[d] \notin {"idle", "done"}, Quiet(d), Fail(d)
  PROVE  LocalInv(d)'
<1>1. /\ request'[d] = request[d] /\ answer'[d] = answer[d] /\ phase'[d] = "done"
      /\ restic'[d] = restic[d] /\ reader'[d] = reader[d]
      /\ headers'[d] = headers[d] /\ sent'[d] = sent[d]
      /\ result'[d] = IF headers[d] THEN "aborted" ELSE "error"
  BY DEF DownloadInv, Domains, Fail, Set, commandVars
<1>2. PhaseInv(d)
  BY DEF DownloadInv, LocalInv
<1>3. PhaseInv(d)'
  BY <1>1, <1>2 DEF PhaseInv, Early
<1> QED
  BY <1>1, <1>3 DEF LocalInv, Quiet, AnswerInv, CompleteInv

LEMMA EarlyQuiet ==
  ASSUME DownloadInv, NEW d \in Downloads, phase[d] \in Early
  PROVE  Quiet(d) /\ sent[d] = <<>> /\ ~headers[d]
  BY DEF DownloadInv, LocalInv, PhaseInv, Quiet, Off

LEMMA AnswerKeeps ==
  ASSUME DownloadInv, NEW d \in Downloads, phase[d] \in Early \ {"idle"}, NEW shown, NEW kept,
      Answer(d, shown, kept),
         request[d].kind = "list" => \A s \in shown : JobOf[s] = request[d].job,
         request[d].kind \in {"browse", "exports"} => shown \subseteq Contents[request[d].snap],
         request[d].kind = "exports" => request[d].job \notin FileJobs /\ shown \subseteq Files
  PROVE  LocalInv(d)'
<1>1. /\ request'[d] = request[d] /\ answer'[d] = [shown |-> shown, kept |-> kept] /\ phase'[d] = "done"
      /\ restic'[d] = restic[d] /\ reader'[d] = reader[d]
      /\ headers'[d] = TRUE /\ sent'[d] = sent[d] /\ result'[d] = "answered"
  BY DEF DownloadInv, Domains, Answer, Set, commandVars
<1>2. PhaseInv(d)
  BY DEF DownloadInv, LocalInv
<1>3. PhaseInv(d)'
  BY <1>1, <1>2 DEF PhaseInv, Early
<1>4. AnswerInv(d)'
  BY <1>1 DEF AnswerInv
<1> QED
  BY <1>1, <1>3, <1>4, EarlyQuiet DEF LocalInv, Quiet, CompleteInv, Early

LEMMA OpenKeeps ==
  ASSUME DownloadInv, NEW d \in Downloads, phase[d] = "idle",
         NEW kind \in Kinds, NEW job \in Jobs, NEW id \in Given, NEW paths \in SUBSET Paths,
         Open(d, Asked(kind, job, id, paths))
  PROVE  LocalInv(d)'
<1> DEFINE asked == Asked(kind, job, id, paths)
<1>1. asked.left = ToDump(asked) /\ asked.snap = None
  BY RequestType
<1> HIDE DEF asked
<1>2. /\ request'[d] = asked /\ phase'[d] = "checking" /\ restic'[d] = restic[d] /\ reader'[d] = reader[d]
      /\ headers'[d] = headers[d] /\ sent'[d] = sent[d] /\ result'[d] = result[d]
  BY DEF DownloadInv, Domains, Open, Set, commandVars, responseVars, asked
<1>3. PhaseInv(d)
  BY DEF DownloadInv, LocalInv
<1>4. PhaseInv(d)'
  BY <1>1, <1>2, <1>3 DEF PhaseInv, Early, Own
<1>5. result[d] = "open"
  BY <1>3 DEF PhaseInv
<1> QED
  BY <1>2, <1>4, <1>5 DEF LocalInv, AnswerInv, CompleteInv

LEMMA RefuseKeeps ==
  ASSUME DownloadInv, NEW d \in Downloads, NEW wellFormed, Refuse(d, wellFormed)
  PROVE  LocalInv(d)'
<1>1. /\ request'[d] = request[d] /\ phase[d] = "idle" /\ phase'[d] = "done"
      /\ restic'[d] = restic[d] /\ reader'[d] = reader[d]
      /\ headers'[d] = headers[d] /\ sent'[d] = sent[d] /\ result'[d] = "error"
  BY DEF DownloadInv, Domains, Refuse, Set, commandVars
<1>2. PhaseInv(d)
  BY DEF DownloadInv, LocalInv
<1>3. PhaseInv(d)'
  BY <1>1, <1>2 DEF PhaseInv, Early
<1> QED
  BY <1>1, <1>3, EarlyQuiet DEF LocalInv, Quiet, AnswerInv, CompleteInv, Early

LEMMA ListKeeps ==
  ASSUME DownloadInv, NEW d \in Downloads, List(d)
  PROVE  LocalInv(d)'
<1>1. /\ request'[d] = request[d] /\ phase[d] = "checking" /\ request[d].kind = "list" /\ phase'[d] = "listed"
      /\ answer'[d] = [shown |-> OfJob(present, request[d].job), kept |-> {}]
      /\ restic'[d] = restic[d] /\ reader'[d] = reader[d]
      /\ headers'[d] = headers[d] /\ sent'[d] = sent[d] /\ result'[d] = result[d]
  BY DEF DownloadInv, Domains, List, Set, commandVars, responseVars
<1>2. PhaseInv(d)
  BY DEF DownloadInv, LocalInv
<1>3. PhaseInv(d)'
  BY <1>1, <1>2 DEF PhaseInv, Early
<1>4. result[d] = "open"
  BY <1>1, <1>2 DEF PhaseInv
<1>5. AnswerInv(d)'
  BY <1>1, <1>4 DEF AnswerInv, OfJob
<1> QED
  BY <1>1, <1>3, <1>4, <1>5 DEF LocalInv, CompleteInv

LEMMA ExplainKeeps ==
  ASSUME DownloadInv, NEW d \in Downloads, Explain(d)
  PROVE  LocalInv(d)'
<1>1. PICK kept : Answer(d, answer[d].shown, answer[d].shown \cap kept)
  BY DEF Explain
<1>2. phase[d] = "listed" /\ AnswerInv(d)
  BY DEF Explain, DownloadInv, LocalInv
<1>3. request[d].kind = "list" /\ \A s \in answer[d].shown : JobOf[s] = request[d].job
  BY <1>2 DEF AnswerInv
<1> QED
  BY <1>1, <1>2, <1>3, AnswerKeeps DEF Early

LEMMA FindKeeps ==
  ASSUME DownloadInv, NEW d \in Downloads, FindSnapshot(d)
  PROVE  LocalInv(d)'
<1>1. phase[d] = "checking" /\ Quiet(d)
  BY EarlyQuiet DEF FindSnapshot, Early
<1>2. CASE Fail(d)
  BY <1>1, <1>2, FailKeeps
<1>3. CASE ~Fail(d)
  <2>1. PICK s \in Resolve(present, request[d].job, request[d].id) :
           request' = [request EXCEPT ![d].snap = s]
    BY <1>3 DEF FindSnapshot
  <2>2. /\ Fits(request[d]) /\ phase'[d] = "resolved" /\ answer'[d] = answer[d]
        /\ restic'[d] = restic[d] /\ reader'[d] = reader[d]
        /\ headers'[d] = headers[d] /\ sent'[d] = sent[d] /\ result'[d] = result[d]
    BY <1>3 DEF FindSnapshot, DownloadInv, Domains, Set, commandVars, responseVars
  <2>3. s \in Snaps /\ JobOf[s] = request[d].job /\ s \in StartWith[request[d].id]
    BY <2>1 DEF Resolve, OfJob, NotFound, DownloadInv, Domains
  <2>4. request[d] \in Requests
    BY DEF DownloadInv, Domains
  <2>5. /\ request'[d].snap = s /\ request'[d].job = request[d].job /\ request'[d].id = request[d].id
        /\ request'[d].kind = request[d].kind /\ request'[d].paths = request[d].paths
        /\ request'[d].left = request[d].left
    BY <2>1, <2>4 DEF DownloadInv, Domains, Requests
  <2>6. PhaseInv(d) /\ result[d] = "open"
    BY <1>1 DEF DownloadInv, LocalInv, PhaseInv
  <2>7. ToDump(request'[d]) = ToDump(request[d]) /\ (Fits(request'[d]) <=>
            Fits(request[d])) /\ Own(request'[d])
    BY <2>3, <2>5 DEF ToDump, Fits, Own
  <2>8. s # None
    BY <2>3, DownloadConstants
  <2>9. PhaseInv(d)'
    BY <1>1, <2>2, <2>5, <2>6, <2>7, <2>8 DEF PhaseInv, Early
  <2> QED
    BY <2>2, <2>6, <2>9 DEF LocalInv, AnswerInv, CompleteInv
<1> QED
  BY <1>2, <1>3

LEMMA LookKeeps ==
  ASSUME DownloadInv, NEW d \in Downloads, LookInside(d)
  PROVE  LocalInv(d)'
<1> DEFINE r == request[d]
<1>1. phase[d] = "resolved" /\ Quiet(d) /\ sent[d] = <<>> /\ ~headers[d]
  BY EarlyQuiet DEF LookInside, Early
<1>2. PhaseInv(d) /\ r.snap # None /\ r.left = ToDump(r) /\ Fits(r) /\ result[d] = "open"
  BY <1>1 DEF DownloadInv, LocalInv, PhaseInv
<1>3. CASE Fail(d)
  BY <1>1, <1>3, FailKeeps
<1>4. CASE r.kind \in {"browse", "exports"} /\
           \E dir \in IF r.paths = {} THEN {Root} ELSE r.paths :
             Answer(d, IF r.kind = "browse" THEN Children(r.snap, dir) ELSE
                 Exports(r.snap), {})
  <2>1. PICK dir : Answer(d, IF r.kind = "browse" THEN Children(r.snap, dir) ELSE
                 Exports(r.snap), {})
    BY <1>4
  <2>2. Children(r.snap, dir) \subseteq Contents[r.snap] /\
            Exports(r.snap) \subseteq Contents[r.snap] \cap Files
    BY DEF Children, Exports, Ls
  <2>3. r.kind = "exports" => r.job \notin FileJobs
    BY <1>2 DEF Fits
  <2> QED
    BY <1>1, <1>4, <2>1, <2>2, <2>3, AnswerKeeps DEF Early
<1>5. CASE r.kind = "check" /\ Answer(d, {}, {})
  BY <1>1, <1>5, AnswerKeeps DEF Early
<1>6. CASE /\ r.kind = "download" /\ \A p \in r.left : Usable(r.snap, r.job, p)
           /\ phase' = Set(phase, d, "next")
           /\ UNCHANGED <<rwLockVars, present, request, answer, commandVars,
               responseVars>>
  <2>1. /\ request'[d] = request[d] /\ phase'[d] = "next" /\ answer'[d] = answer[d]
        /\ restic'[d] = restic[d] /\ reader'[d] = reader[d]
        /\ headers'[d] = headers[d] /\ sent'[d] = sent[d] /\ result'[d] = result[d]
    BY <1>6 DEF DownloadInv, Domains, Set, commandVars, responseVars
  <2>2. PhaseInv(d)'
    BY <1>1, <1>2, <2>1 DEF PhaseInv, Early
  <2>3. ToDump(r) \subseteq Contents[r.snap]
    BY <1>2, <1>6 DEF Usable, Ls
  <2>4. restic[d].state # "running" /\ reader[d] = "off"
    BY <1>1, <1>2 DEF Quiet, PhaseInv, Early
  <2>5. SentOf(d, Len(sent[d]), ToDump(r) \ r.left)'
    BY <1>1, <1>2, <2>1 DEF SentOf, Entries
  <2>6. DumpInv(d)'
    BY <1>1, <1>2, <1>6, <2>1, <2>3, <2>4, <2>5 DEF DumpInv, Once
  <2> QED
    BY <1>2, <2>1, <2>2, <2>6 DEF LocalInv, AnswerInv, CompleteInv
<1> QED
  BY <1>3, <1>4, <1>5, <1>6 DEF LookInside

-----------------------------------------------------------------------------
(* Dumps.                                                                  *)

LEMMA StartDumpKeeps ==
  ASSUME DownloadInv, NEW d \in Downloads, StartDump(d)
  PROVE  LocalInv(d)'
<1> DEFINE r == request[d]
           D == ToDump(r)
<1>1. phase[d] = "next" /\ r.left # {} /\ r \in Requests
  BY DEF StartDump, DownloadInv, Domains
<1>2. PICK p \in r.left :
        /\ request' = [request EXCEPT ![d].left = @ \ {p}]
        /\ restic' = Set(restic, d, IF r.snap \in present
                                    THEN [state |-> "running", rest |-> Part(p, r.snap) \cup {Pad}]
                                    ELSE [state |-> "failed", rest |-> {}])
  BY <1>1 DEF StartDump, Part
<1>3. /\ request'[d].snap = r.snap /\ request'[d].job = r.job /\ request'[d].id = r.id
      /\ request'[d].kind = r.kind /\ request'[d].paths = r.paths /\ request'[d].left = r.left \ {p}
  BY <1>1, <1>2 DEF DownloadInv, Domains, Requests
<1>4. /\ phase'[d] = "dumping" /\ answer'[d] = answer[d] /\ pipe'[d] = None /\ reader'[d] = "reading"
      /\ headers'[d] = headers[d] /\ sent'[d] = Append(sent[d], {}) /\ result'[d] = result[d]
  BY DEF StartDump, DownloadInv, Domains, Set
<1>5. PhaseInv(d) /\ DumpInv(d) /\ result[d] = "open" /\ D \subseteq Paths
  BY <1>1 DEF DownloadInv, LocalInv, PhaseInv, Requests, ToDump, Selected
<1>6. ToDump(request'[d]) = D /\ (Fits(request'[d]) <=> Fits(r)) /\
          (Own(request'[d]) <=> Own(r))
  BY <1>3 DEF ToDump, Fits, Own
<1>7. /\ sent[d] \in Seq(SUBSET Entries(Paths)) /\ Once(sent[d]) /\ r.kind =
          "download" /\ r.snap # None
      /\ D \subseteq Contents[r.snap] /\ SentOf(d, Len(sent[d]), D \ r.left)
  BY <1>1, <1>5 DEF DumpInv
<1>8. /\ sent'[d] \in Seq(SUBSET Entries(Paths)) /\ Len(sent'[d]) = Len(sent[d]) + 1
      /\ \A i \in 1 .. Len(sent[d]) : sent'[d][i] = sent[d][i]
      /\ sent'[d][Len(sent[d]) + 1] = {} /\ Len(sent[d]) \in Nat
      /\ DOMAIN sent[d] = 1 .. Len(sent[d]) /\ DOMAIN sent'[d] = 1 .. Len(sent[d]) + 1
  BY <1>4, <1>7
<1>9. \A i \in DOMAIN sent'[d] : sent'[d][i] = {} \/ (i \in DOMAIN sent[d] /\ sent'[d][i] = sent[d][i])
  BY <1>8
<1>10. PhaseInv(d)'
  BY <1>3, <1>4, <1>5, <1>6, <1>7, <1>9 DEF PhaseInv, Early
<1>11. Once(sent'[d])
  BY <1>7, <1>9 DEF Once
<1>12. restic'[d] = IF r.snap \in present THEN [state |-> "running", rest |-> Part(p, r.snap) \cup {Pad}]
                    ELSE [state |-> "failed", rest |-> {}]
  BY <1>2 DEF DownloadInv, Domains, Set
<1>13. Flow(d, p)'
  <2>1. sent'[d][Len(sent'[d])] = {}
    BY <1>8
  <2>2. CASE r.snap \in present
    <3>1. restic'[d].state = "running" /\ restic'[d].rest = Part(p, r.snap) \cup {Pad}
          /\ restic'[d] = [state |-> restic'[d].state, rest |-> restic'[d].rest]
      BY <1>12, <2>2
    <3>2. request'[d].snap = r.snap /\ pipe'[d] = None /\ reader'[d] = "reading"
      BY <1>3, <1>4
    <3> HIDE DEF r
    <3> QED
      BY <2>1, <3>1, <3>2, DownloadConstants DEF Flow, Processes
  <2>3. CASE r.snap \notin present
    <3>1. restic'[d].state = "failed" /\ restic'[d].rest = {}
          /\ restic'[d] = [state |-> restic'[d].state, rest |-> restic'[d].rest]
      BY <1>12, <2>3
    <3>2. request'[d].snap = r.snap /\ pipe'[d] = None /\ reader'[d] = "reading"
      BY <1>3, <1>4
    <3> HIDE DEF r
    <3> QED
      BY <2>1, <3>1, <3>2, DownloadConstants DEF Flow, Processes
  <2> QED
    BY <2>2, <2>3
<1>14. \A n, paths : n = Len(sent[d]) /\ paths = D \ r.left => SentOf(d, n, paths)'
  <2> SUFFICES ASSUME NEW n, n = Len(sent[d]), NEW paths, paths = D \ r.left
               PROVE  SentOf(d, n, paths)'
    OBVIOUS
  <2>1. UNION {sent'[d][i] : i \in 1 .. n} = UNION {sent[d][i] : i \in 1 .. n}
    BY <1>8
  <2>2. UNION {sent[d][i] : i \in 1 .. n} = Entries(paths) \cap Stored[r.snap]
    BY <1>7 DEF SentOf
  <2> QED
    BY <1>3, <2>1, <2>2 DEF SentOf
<1>15. p \in D \ request'[d].left /\ (D \ request'[d].left) \ {p} = D \ r.left
  BY <1>1, <1>3, <1>5 DEF PhaseInv
<1>16. DumpInv(d)'
  <2>1. Len(sent'[d]) > 0 /\ Len(sent'[d]) - 1 = Len(sent[d])
    BY <1>8
  <2>2. /\ request'[d].kind = "download" /\ request'[d].snap # None
        /\ ToDump(request'[d]) \subseteq Contents[request'[d].snap]
    BY <1>3, <1>6, <1>7
  <2>3. \E q \in ToDump(request'[d]) \ request'[d].left :
           /\ SentOf(d, Len(sent[d]) - 1, (ToDump(request[d]) \ request[d].left) \ {q})'
           /\ Flow(d, q)'
    BY <1>6, <1>13, <1>14, <1>15, <2>1
  <2> HIDE DEF r
  <2> QED
    BY <1>4, <1>8, <1>11, <2>1, <2>2, <2>3 DEF DumpInv
<1> QED
  BY <1>4, <1>5, <1>10, <1>16 DEF LocalInv, AnswerInv, CompleteInv

\* A step of restic or of a goroutine by which nothing is sent.
LEMMA MidKeeps ==
  ASSUME DownloadInv, NEW d \in Downloads, phase[d] \in {"dumping", "joining"},
         phase'[d] \in {"dumping", "joining"},
         request'[d] = request[d], answer'[d] = answer[d], sent'[d] = sent[d], result'[d] = result[d],
         headers[d] => headers'[d],
         \A p \in Paths : Flow(d, p) => Flow(d, p)',
         phase'[d] = "joining" => restic'[d].state # "running" /\ pipe'[d] \in {None, "closed"},
         phase'[d] = "dumping" => reader'[d] # "done"
  PROVE  LocalInv(d)'
<1>1. PhaseInv(d) /\ DumpInv(d) /\ result[d] = "open"
  BY DEF DownloadInv, LocalInv, PhaseInv
<1>2. PhaseInv(d)'
  BY <1>1 DEF PhaseInv, Early
<1>3. \A n, paths : SentOf(d, n, paths)' <=> SentOf(d, n, paths)
  BY DEF SentOf
<1>4. ToDump(request[d]) \subseteq Paths
  BY DEF DownloadInv, Domains, Requests, ToDump, Selected
<1>5. DumpInv(d)'
  BY <1>1, <1>3, <1>4 DEF DumpInv
<1> QED
  BY <1>1, <1>2, <1>5 DEF LocalInv, AnswerInv, CompleteInv

\* Where requests are whose process or goroutine is at work.
LEMMA AtWork ==
  ASSUME DownloadInv, NEW d \in Downloads
  PROVE  /\ Running(d) => phase[d] = "dumping"
         /\ reader[d] \notin {"off", "done", "failed"} => phase[d] \in {"dumping", "joining"}
<1>1. phase[d] \in Places /\ LocalInv(d)
  BY DEF DownloadInv, Domains
<1>2. CASE phase[d] \in Early
  BY <1>2, EarlyQuiet DEF Quiet, Running
<1>3. CASE phase[d] = "next"
  BY <1>1, <1>3 DEF LocalInv, DumpInv, Running
<1>4. CASE phase[d] = "done"
  BY <1>1, <1>4 DEF LocalInv, Running
<1>5. CASE phase[d] = "joining"
  BY <1>1, <1>5 DEF LocalInv, DumpInv, Running
<1> QED
  BY <1>1, <1>2, <1>3, <1>4, <1>5 DEF Places, Early

\* The words for a state are not entries.
LEMMA Words ==
  ASSUME NEW p \in Paths, NEW s
  PROVE  Part(p, s) \cap {None, Pad, "closed", "off", "reading", "done", "failed"} = {}
  BY DownloadConstants DEF Part

LEMMA ResticKeeps ==
  ASSUME DownloadInv, NEW d \in Downloads, Restic(d)
  PROVE  LocalInv(d)'
<1>1. Running(d) /\ phase[d] = "dumping" /\ DumpInv(d)
  BY AtWork DEF Restic, ResticWrites, ResticEnds, DownloadInv, LocalInv
<1>2. /\ request'[d] = request[d] /\ answer'[d] = answer[d] /\ sent'[d] = sent[d]
      /\ result'[d] = result[d] /\ headers'[d] = headers[d] /\ phase'[d] = phase[d] /\ reader'[d] = reader[d]
  BY DEF Restic, ResticWrites, ResticEnds, responseVars
<1>3. ASSUME NEW p \in Paths, Flow(d, p)
      PROVE  Flow(d, p)'
  <2>1. CASE ResticWrites(d)
    <3>1. PICK e \in restic[d].rest :
             /\ pipe' = Set(pipe, d, e) /\ restic' = [restic EXCEPT ![d].rest = @ \ {e}]
      BY <2>1 DEF ResticWrites
    <3>2. pipe[d] = None /\ pipe'[d] = e
      BY <2>1, <3>1 DEF ResticWrites, DownloadInv, Domains, Set
    <3>3. restic'[d].state = restic[d].state /\ restic'[d].rest = restic[d].rest \ {e}
          /\ restic'[d] = [state |-> restic'[d].state, rest |-> restic'[d].rest]
      <4>1. restic[d] = [state |-> restic[d].state, rest |-> restic[d].rest]
        BY <1>3 DEF Flow
      <4>2. restic'[d] = [restic[d] EXCEPT !.rest = @ \ {e}]
        BY <3>1 DEF DownloadInv, Domains
      <4> QED
        BY <4>1, <4>2
    <3>4. None \notin Part(p, request[d].snap) /\ "closed" \notin Part(p, request[d].snap)
      BY Words
    <3>5. reader[d] # "done"
      BY <1>1 DEF DumpInv
    <3>6. Pad # "closed"
      BY DownloadConstants
    <3> QED
      BY <1>1, <1>2, <1>3, <3>1, <3>2, <3>3, <3>4, <3>5, <3>6 DEF Flow, Running, Processes
  <2>2. ASSUME NEW state \in {"ok", "failed", "killed"}, ResticEnds(d, state)
        PROVE  Flow(d, p)'
    <3>1. restic'[d].state = state /\ restic'[d].rest = restic[d].rest
          /\ restic'[d] = [state |-> restic'[d].state, rest |-> restic'[d].rest]
      <4>1. restic[d] = [state |-> restic[d].state, rest |-> restic[d].rest]
        BY <1>3 DEF Flow
      <4>2. restic'[d] = [restic[d] EXCEPT !.state = state]
        BY <2>2 DEF ResticEnds, DownloadInv, Domains
      <4> QED
        BY <4>1, <4>2
    <3>2. pipe'[d] = pipe[d] /\ (state = "ok" => restic[d].rest = {})
      BY <2>2 DEF ResticEnds
    <3> QED
      BY <1>1, <1>2, <1>3, <2>2, <3>1, <3>2 DEF Flow, Running, Processes
  <2> QED
    BY <2>1, <2>2 DEF Restic
<1> QED
  BY <1>1, <1>2, <1>3, MidKeeps DEF DumpInv

\* The goroutine that reads the pipe, or fails, or comes to its end.
LEMMA ReaderKeeps ==
  ASSUME DownloadInv, NEW d \in Downloads,
         ReaderTakes(d) \/ ReaderEnds(d) \/ WriteFails(d) \/
             Unreadable(d)
  PROVE  LocalInv(d)'
<1>1. phase[d] \in {"dumping", "joining"} /\ DumpInv(d) /\ reader[d] \notin {"off", "done", "failed"}
  BY AtWork DEF ReaderTakes, ReaderEnds, WriteFails, Unreadable, Writing, DownloadInv, LocalInv
<1>2. /\ request'[d] = request[d] /\ answer'[d] = answer[d] /\ sent'[d] = sent[d]
      /\ result'[d] = result[d] /\ phase'[d] = phase[d] /\ restic'[d] = restic[d]
  BY DEF ReaderTakes, ReaderEnds, WriteFails, Unreadable, ReaderFails, responseVars
<1>3. headers[d] => headers'[d]
  BY DEF ReaderTakes, ReaderEnds, WriteFails, Unreadable, responseVars, DownloadInv, Domains, Set
<1>4. CASE ReaderTakes(d)
  <2>1. /\ reader[d] = "reading" /\ pipe[d] \notin {None, "closed"} /\ pipe'[d] = None
        /\ reader'[d] = IF pipe[d] = Pad THEN "reading" ELSE pipe[d]
    BY <1>4 DEF ReaderTakes, DownloadInv, Domains, Set
  <2>2. phase[d] = "dumping"
    BY <1>1, <2>1 DEF DumpInv
  <2>3. ASSUME NEW p \in Paths, Flow(d, p)
        PROVE  Flow(d, p)' /\ reader'[d] # "done"
    <3>1. {Pad, "done", "failed", "reading"} \cap Part(p, request[d].snap) = {}
      BY Words
    <3>2. None # "closed"
      BY DownloadConstants
    <3> QED
      BY <1>2, <2>1, <2>3, <3>1, <3>2 DEF Flow
  <2>4. reader'[d] # "done"
    BY <1>1, <2>3 DEF DumpInv, DownloadInv, Domains, Requests, ToDump, Selected
  <2> QED
    BY <1>1, <1>2, <1>3, <2>2, <2>3, <2>4, MidKeeps
<1>5. CASE ReaderEnds(d)
  <2>1. /\ phase[d] = "joining" /\ pipe[d] = None /\ pipe'[d] = None /\ reader[d] = "reading" /\
            reader'[d] = "done"
    BY <1>5 DEF ReaderEnds, DownloadInv, Domains, Set
  <2>2. ASSUME NEW p \in Paths, Flow(d, p)
        PROVE  Flow(d, p)'
    <3>1. {"reading", "done"} \cap Part(p, request[d].snap) = {}
      BY Words
    <3> QED
      BY <1>2, <2>1, <2>2, <3>1, DownloadConstants DEF Flow
  <2>3. restic[d].state # "running"
    BY <1>1, <2>1 DEF DumpInv
  <2> QED
    BY <1>1, <1>2, <1>3, <2>1, <2>2, <2>3, MidKeeps
<1>6. CASE WriteFails(d) \/ Unreadable(d)
  <2>1. reader'[d] = "failed" /\ pipe'[d] = "closed"
    BY <1>6 DEF WriteFails, Unreadable, ReaderFails, Closed, DownloadInv, Domains, Set
  <2>2. ASSUME NEW p \in Paths, Flow(d, p)
        PROVE  Flow(d, p)'
    BY <1>2, <2>1, <2>2 DEF Flow
  <2>3. phase[d] = "joining" => restic[d].state # "running"
    BY <1>1 DEF DumpInv
  <2> QED
    BY <1>1, <1>2, <1>3, <2>1, <2>2, <2>3, MidKeeps
<1> QED
  BY <1>4, <1>5, <1>6

LEMMA ReturnKeeps ==
  ASSUME DownloadInv, NEW d \in Downloads, CommandReturns(d)
  PROVE  LocalInv(d)'
<1>1. /\ phase[d] = "dumping" /\ phase'[d] = "joining" /\ restic[d].state # "running" /\ pipe[d] \in {None,
          "closed"}
      /\ request'[d] = request[d] /\ answer'[d] = answer[d] /\ sent'[d] = sent[d] /\ headers'[d] =
          headers[d]
      /\ result'[d] = result[d] /\ restic'[d] = restic[d] /\ pipe'[d] = pipe[d] /\ reader'[d] =
          reader[d]
  BY DEF CommandReturns, Ended, DownloadInv, Domains, Set, commandVars, responseVars
<1>2. \A p \in Paths : Flow(d, p) => Flow(d, p)'
  BY <1>1 DEF Flow
<1> QED
  BY <1>1, <1>2, MidKeeps

LEMMA SendKeeps ==
  ASSUME DownloadInv, NEW d \in Downloads, Send(d)
  PROVE  LocalInv(d)'
<1> DEFINE r == request[d]
           D == ToDump(r)
           n == Len(sent[d])
           e == reader[d]
<1>1. phase[d] \in {"dumping", "joining"} /\ DumpInv(d) /\ PhaseInv(d) /\ e \notin {"off", "reading",
          "done", "failed"}
      /\ result[d] = "open"
  BY AtWork DEF Send, Writing, DownloadInv, LocalInv, PhaseInv
<1>2. /\ request'[d] = request[d] /\ answer'[d] = answer[d] /\ result'[d] = result[d] /\ phase'[d] = phase[d]
      /\ restic'[d] = restic[d] /\ pipe'[d] = pipe[d] /\ headers'[d] = TRUE /\ reader'[d] = "reading"
      /\ sent'[d] = [sent[d] EXCEPT ![n] = @ \cup {e}]
  BY DEF Send, DownloadInv, Domains, Set
<1>3. r \in Requests /\ D \subseteq Paths
  BY DEF DownloadInv, Domains, Requests, ToDump, Selected
<1>4. /\ sent[d] \in Seq(SUBSET Entries(Paths)) /\ n > 0 /\ n \in Nat /\
          Once(sent[d]) /\ r.kind = "download" /\ r.snap # None
  BY <1>1 DEF DumpInv
<1>5. PICK p \in D \ r.left : SentOf(d, n - 1, (D \ r.left) \ {p}) /\ Flow(d, p)
  BY <1>1 DEF DumpInv
<1>6. e \in Part(p, r.snap) /\ e \in Entries(Paths)
  <2>1. e \in Part(p, r.snap)
    BY <1>1, <1>5 DEF Flow
  <2> QED
    BY <1>3, <1>5, <2>1 DEF Part, Entries
<1>7. /\ sent'[d] \in Seq(SUBSET Entries(Paths)) /\ Len(sent'[d]) = n /\ DOMAIN sent'[d] =
          1 .. n
      /\ sent'[d][n] = sent[d][n] \cup {e} /\ DOMAIN sent[d] = 1 .. n
      /\ \A i \in 1 .. n : i # n => sent'[d][i] = sent[d][i]
  BY <1>2, <1>4, <1>6
<1>8. Fits(r)
  BY <1>1, <1>4 DEF PhaseInv
<1>9. \A i \in 1 .. n - 1 : e \notin sent[d][i]
  <2> SUFFICES ASSUME NEW i \in 1 .. n - 1, e \in sent[d][i]
               PROVE  FALSE
    OBVIOUS
  <2>1. e \in Entries((D \ r.left) \ {p})
    BY <1>5 DEF SentOf
  <2>2. PICK q \in (D \ r.left) \ {p} : e \in Under[q]
    BY <2>1 DEF Entries
  <2>3. Under[p] \cap Under[q] = {}
    BY <1>3, <1>4, <1>5, <1>8, <2>2, Apart
  <2> QED
    BY <1>6, <2>2, <2>3 DEF Part
<1>10. Once(sent'[d])
  <2> SUFFICES ASSUME NEW i \in 1 .. n, NEW j \in 1 .. n, i # j
               PROVE  sent'[d][i] \cap sent'[d][j] = {}
    BY <1>7 DEF Once
  <2>1. sent[d][i] \cap sent[d][j] = {}
    BY <1>4, <1>7 DEF Once
  <2>2. i # n => e \notin sent[d][i] /\ sent'[d][i] = sent[d][i]
    BY <1>4, <1>7, <1>9
  <2>3. j # n => e \notin sent[d][j] /\ sent'[d][j] = sent[d][j]
    BY <1>4, <1>7, <1>9
  <2> HIDE DEF e, n
  <2> QED
    BY <1>7, <2>1, <2>2, <2>3
<1>11. SentOf(d, n - 1, (D \ r.left) \ {p}) /\ \A m, paths : m = n - 1 /\ SentOf(d, m,
           paths) => SentOf(d, m, paths)'
  <2> SUFFICES ASSUME NEW m, NEW paths, m = n - 1, SentOf(d, m, paths)
               PROVE  SentOf(d, m, paths)'
    BY <1>5
  <2>1. UNION {sent'[d][i] : i \in 1 .. m} = UNION {sent[d][i] : i \in 1 .. m}
    BY <1>4, <1>7
  <2> QED
    BY <1>2, <2>1 DEF SentOf
<1>12. Flow(d, p)'
  <2>1. sent'[d][Len(sent'[d])] = sent[d][Len(sent[d])] \cup {e}
    BY <1>7
  <2>2. "reading" # "done" /\ "reading" # "failed" /\ e # "failed" /\ e # "done"
    BY <1>1
  <2> QED
    BY <1>2, <1>5, <1>6, <2>1, <2>2 DEF Flow
<1>13. DumpInv(d)'
  <2>1. \E q \in ToDump(request'[d]) \ request'[d].left :
           /\ SentOf(d, Len(sent[d]) - 1, (ToDump(request[d]) \ request[d].left) \ {q})'
           /\ Flow(d, q)'
    BY <1>2, <1>5, <1>7, <1>11, <1>12
  <2> QED
    BY <1>1, <1>2, <1>4, <1>7, <1>10, <2>1 DEF DumpInv
<1>14. PhaseInv(d)'
  BY <1>1, <1>2, <1>4 DEF PhaseInv, Early
<1> QED
  BY <1>1, <1>2, <1>13, <1>14 DEF LocalInv, AnswerInv, CompleteInv

LEMMA JoinKeeps ==
  ASSUME DownloadInv, NEW d \in Downloads, Join(d)
  PROVE  LocalInv(d)'
<1> DEFINE r == request[d]
           D == ToDump(r)
           n == Len(sent[d])
<1>1. phase[d] = "joining" /\ reader[d] \in {"done", "failed"} /\ DumpInv(d) /\ PhaseInv(d) /\ result[d] =
          "open"
  BY DEF Join, DownloadInv, LocalInv, PhaseInv
<1>2. Quiet(d)
  BY <1>1 DEF DumpInv, Quiet
<1>3. CASE Fail(d)
  BY <1>1, <1>2, <1>3, FailKeeps
<1>4. CASE Dumped(d) /\ phase' = Set(phase, d, "next") /\ UNCHANGED <<rwLockVars,
               present, request, answer, commandVars, responseVars>>
  <2>1. /\ request'[d] = request[d] /\ answer'[d] = answer[d] /\ result'[d] = result[d] /\ phase'[d] =
            "next"
        /\ restic'[d] = restic[d] /\ reader'[d] = reader[d] /\ headers'[d] = headers[d] /\ sent'[d] =
            sent[d]
    BY <1>4 DEF DownloadInv, Domains, Set, commandVars, responseVars
  <2>2. reader[d] = "done" /\ restic[d].state = "ok"
    BY <1>4 DEF Dumped
  <2>3. PICK p \in D \ r.left : SentOf(d, n - 1, (D \ r.left) \ {p}) /\ Flow(d, p)
    BY <1>1 DEF DumpInv
  <2>4. p \in Paths
    BY <2>3 DEF DownloadInv, Domains, Requests, ToDump, Selected
  <2>5. {"done", None} \cap Part(p, r.snap) = {}
    BY <2>4, Words
  <2>6. sent[d][n] = Part(p, r.snap)
    BY <2>2, <2>3, <2>5 DEF Flow
  <2>7. n \in Nat /\ n > 0
    BY <1>1 DEF DumpInv
  <2>8. UNION {sent[d][i] : i \in 1 .. n - 1} = Entries((D \ r.left) \ {p}) \cap Stored[r.snap]
    BY <2>3 DEF SentOf
  <2>9. sent[d][n] = Under[p] \cap Stored[r.snap]
    BY <2>6 DEF Part
  <2>10. UNION {sent[d][i] : i \in 1 .. n} =
             (Entries((D \ r.left) \ {p}) \cup Under[p]) \cap Stored[r.snap]
    <3> DEFINE A == Entries((D \ r.left) \ {p})
    <3>1. \A i : i \in 1 .. n <=> i \in 1 .. n - 1 \/ i = n
      BY <2>7
    <3>2. UNION {sent[d][i] : i \in 1 .. n - 1} = A \cap Stored[r.snap]
      BY <2>8
    <3> HIDE DEF n, D, r, A
    <3>3. ASSUME NEW i \in 1 .. n, NEW x \in sent[d][i]
          PROVE  x \in (A \cup Under[p]) \cap Stored[r.snap]
      BY <2>9, <3>1, <3>2
    <3>4. ASSUME NEW x \in (A \cup Under[p]) \cap Stored[r.snap]
          PROVE  \E i \in 1 .. n : x \in sent[d][i]
      <4>1. CASE x \in A
        <5>1. PICK i \in 1 .. n - 1 : x \in sent[d][i]
          BY <3>2, <4>1
        <5> QED
          BY <3>1, <5>1
      <4>2. CASE x \in Under[p]
        BY <2>9, <3>1, <4>2
      <4> QED
        BY <4>1, <4>2
    <3>5. UNION {sent[d][i] : i \in 1 .. n} = (A \cup Under[p]) \cap Stored[r.snap]
      BY <3>3, <3>4
    <3> QED
      BY <3>5 DEF A
  <2>11. Entries((D \ r.left) \ {p}) \cup Under[p] = Entries(D \ r.left)
    BY <2>3 DEF Entries
  <2>12. SentOf(d, n, D \ r.left)'
    BY <2>1, <2>10, <2>11 DEF SentOf
  <2>13. DumpInv(d)'
    BY <1>1, <2>1, <2>2, <2>12 DEF DumpInv
  <2>14. PhaseInv(d)'
    BY <1>1, <2>1 DEF PhaseInv, Early, DumpInv
  <2> QED
    BY <1>1, <2>1, <2>13, <2>14 DEF LocalInv, AnswerInv, CompleteInv
<1> QED
  BY <1>3, <1>4 DEF Join

LEMMA FinishKeeps ==
  ASSUME DownloadInv, NEW d \in Downloads, Finish(d)
  PROVE  LocalInv(d)'
<1> DEFINE r == request[d]
           D == ToDump(r)
<1>1. phase[d] = "next" /\ r.left = {} /\ DumpInv(d) /\ PhaseInv(d) /\ r \in Requests
  BY DEF Finish, DownloadInv, LocalInv, Domains
<1>2. Quiet(d)
  BY <1>1 DEF DumpInv, Quiet
<1>3. CASE Fail(d)
  BY <1>1, <1>2, <1>3, FailKeeps
<1>4. CASE /\ headers' = Set(headers, d, TRUE) /\ result' = Set(result, d,
               "complete") /\ phase' = Set(phase, d, "done")
           /\ UNCHANGED <<present, answer, request, commandVars, client, sent>>
  <2>1. /\ request'[d] = request[d] /\ result'[d] = "complete" /\ phase'[d] = "done"
        /\ restic'[d] = restic[d] /\ reader'[d] = reader[d] /\ headers'[d] = TRUE /\ sent'[d] = sent[d]
    BY <1>4 DEF DownloadInv, Domains, Set, commandVars
  <2>2. \A p \in r.paths : \E q \in D : Under[p] \subseteq Under[q]
    BY <1>1, Covered DEF Requests, ToDump
  <2>3. D \subseteq r.paths /\ D \subseteq Contents[r.snap]
    BY <1>1 DEF ToDump, Selected, DumpInv
  <2>4. Entries(D) = Entries(r.paths)
    BY <2>2, <2>3 DEF Entries
  <2>5. DOMAIN sent[d] = 1 .. Len(sent[d]) /\ Once(sent[d]) /\ SentOf(d, Len(sent[d]),
            D \ r.left)
    BY <1>1 DEF DumpInv
  <2>6. D \ r.left = D
    BY <1>1
  <2>7. UNION {sent[d][i] : i \in DOMAIN sent[d]} = Entries(r.paths) \cap Stored[r.snap]
    BY <2>4, <2>5, <2>6 DEF SentOf
  <2>8. CompleteInv(d)'
    BY <2>1, <2>2, <2>3, <2>5, <2>7 DEF CompleteInv
  <2>9. PhaseInv(d)'
    BY <1>1, <2>1 DEF PhaseInv, Early
  <2> QED
    BY <1>2, <2>1, <2>8, <2>9 DEF LocalInv, AnswerInv, Quiet
<1> QED
  BY <1>3, <1>4 DEF Finish

-----------------------------------------------------------------------------
LEMMA WorkKeeps ==
  ASSUME DownloadInv, NEW d \in Downloads, Work(d)
  PROVE  LocalInv(d)'
<1>1. CASE Restic(d) \/ ReaderTakes(d) \/ ReaderEnds(d) \/
               WriteFails(d) \/ Unreadable(d)
  BY <1>1, ResticKeeps, ReaderKeeps
<1>2. CASE List(d) \/ Explain(d) \/ FindSnapshot(d) \/ LookInside(d)
  BY <1>2, ListKeeps, ExplainKeeps, FindKeeps, LookKeeps
<1>3. CASE StartDump(d) \/ CommandReturns(d) \/ Join(d) \/
               Finish(d) \/ Send(d)
  BY <1>3, StartDumpKeeps, ReturnKeeps, JoinKeeps, FinishKeeps, SendKeeps
<1>4. CASE CheckFails(d)
  BY <1>4, EarlyQuiet, FailKeeps DEF CheckFails, Early
<1>5. CASE Client(d) \/ NoticeGone(d)
  <2>1. Same(d)
    BY <1>5 DEF Client, NoticeGone, Same, commandVars, responseVars
  <2> QED
    BY <2>1, Frame DEF DownloadInv
<1>6. CASE \E wellFormed \in BOOLEAN : Refuse(d, wellFormed)
  BY <1>6, RefuseKeeps
<1>7. CASE phase[d] = "idle" /\ \E kind \in Kinds, job \in Jobs, id \in Given,
               paths \in SUBSET Paths :
              Open(d, Asked(kind, job, id, paths))
  BY <1>7, OpenKeeps
<1> QED
  BY <1>1, <1>2, <1>3, <1>4, <1>5, <1>6, <1>7 DEF Work, Handler

LEMMA DownloadKept == DownloadInv /\ [DownloadNext]_(downloadVars) => DownloadInv'
<1> SUFFICES ASSUME DownloadInv, [DownloadNext]_(downloadVars)
             PROVE  DownloadInv'
  OBVIOUS
<1>1. ASSUME NEW d \in Downloads, Work(d)
      PROVE  DownloadInv'
  <2>1. Changes(d)
    BY <1>1, EarlyChanges, DumpChanges DEF Work, Handler
  <2>2. \A e \in Downloads : e # d => LocalInv(e)'
    BY <2>1, Frame DEF Changes, DownloadInv
  <2>3. LocalInv(d)'
    BY <1>1, WorkKeeps
  <2> QED
    BY <2>1, <2>2, <2>3 DEF Changes, DownloadInv
<1>2. ASSUME present' \subseteq present, UNCHANGED <<request, answer, phase, commandVars,
                 responseVars>>
      PROVE  DownloadInv'
  <2>1. \A d \in Downloads : Same(d)
    BY <1>2 DEF Same, commandVars, responseVars
  <2>2. Domains'
    BY <1>2 DEF DownloadInv, Domains, commandVars, responseVars
  <2> QED
    BY <2>1, <2>2, Frame DEF DownloadInv
<1>3. CASE \E s \in Snaps : Forget(s)
  BY <1>2, <1>3 DEF Forget
<1>4. CASE MaintenanceAsks \/ MaintenanceStarts \/ MaintenanceEnds
  BY <1>2, <1>4 DEF MaintenanceAsks, MaintenanceStarts, MaintenanceEnds
<1>5. CASE UNCHANGED downloadVars
  BY <1>2, <1>5 DEF downloadVars, commandVars, responseVars
<1> QED
  BY <1>1, <1>3, <1>4, <1>5 DEF DownloadNext, Work

\* What a response says is true, for any snapshots, paths and entries, any number of requests and
\* whatever clients, restic and the runs beside them do: a download ends as complete only when
\* everything the snapshot has below the selected paths was sent, once, and an error comes only
\* before anything was sent (DownloadFiles, dumpTar, Download of the controller).
THEOREM ResponseCorrect == DownloadSpec => []ResponseIsTrue
<1>1. DownloadInit => DownloadInv
  BY DownloadStart
<1>2. DownloadInv /\ [DownloadNext]_(downloadVars) => DownloadInv'
  BY DownloadKept
<1>3. DownloadInv => ResponseIsTrue
  BY DownloadImplies
<1> QED
  BY <1>1, <1>2, <1>3, PTL DEF DownloadSpec
=============================================================================
