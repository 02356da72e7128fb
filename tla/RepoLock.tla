------------------------------ MODULE RepoLock ------------------------------
(***************************************************************************)
(* The process-wide lock per repository of                                 *)
(* src/internal/pkg/repolock/repolock.go: backups take it shared,          *)
(* maintenance (prune, check, unlock, key change, delete) exclusive.       *)
(*                                                                         *)
(* The code keeps counters per repository behind one mutex and wakes every *)
(* waiter of every repository by closing one channel; every critical       *)
(* section of that mutex is one action here.  "waiting" is blocked on the  *)
(* current channel, "woken" has seen it closed and will take the mutex.    *)
(***************************************************************************)
EXTENDS Integers, FiniteSets

CONSTANTS Procs,  \* callers: a goroutine with one request at a time
          Repos   \* repositories that can be locked

ASSUME ProcsFinite == IsFiniteSet(Procs)
ASSUME ReposNonEmpty == Repos # {}

Shared == "shared"
Exclusive == "exclusive"
Modes == {Shared, Exclusive}

VARIABLES entries,         \* repositories that have an entry in the map
          readers,         \* [Repos -> Nat]
          writer,          \* [Repos -> BOOLEAN]
          waitingWriters,  \* [Repos -> Nat]
          pc,              \* [Procs -> {"idle", "waiting", "woken", "holding"}]
          repo,            \* [Procs -> Repos]: what the last request was for
          mode,            \* [Procs -> Modes]
          ctxDone          \* [Procs -> BOOLEAN]: the request's context ended

lockVars == <<entries, readers, writer, waitingWriters>>
vars == <<lockVars, pc, repo, mode, ctxDone>>

Init ==
  /\ entries = {}
  /\ readers = [r \in Repos |-> 0]
  /\ writer = [r \in Repos |-> FALSE]
  /\ waitingWriters = [r \in Repos |-> 0]
  /\ pc = [p \in Procs |-> "idle"]
  /\ repo = [p \in Procs |-> CHOOSE r \in Repos : TRUE]
  /\ mode = [p \in Procs |-> Shared]
  /\ ctxDone = [p \in Procs |-> FALSE]

-----------------------------------------------------------------------------
(* The parts of a critical section.                                        *)

\* Mutants of CanLock: a writer that overlooks readers, readers that overtake the queue.
CanLockDespiteReaders(r, m) ==
  /\ ~writer[r]
  /\ m = Exclusive \/ waitingWriters[r] = 0
CanLockOvertaking(r, m) ==
  /\ ~writer[r]
  /\ m = Exclusive => readers[r] = 0

\* tryLocked succeeds for a request of mode m on r.
CanLock(r, m) ==
  /\ ~writer[r]
  /\ IF m = Exclusive THEN readers[r] = 0 ELSE waitingWriters[r] = 0

\* What a successful tryLocked does; an exclusive request that was queued (left is 1, not
\* 0) leaves the queue.
TakeLock(r, m, left) ==
  /\ entries' = entries \cup {r}
  /\ IF m = Exclusive
       THEN /\ writer' = [writer EXCEPT ![r] = TRUE]
            /\ waitingWriters' = [waitingWriters EXCEPT ![r] = @ - left]
            /\ UNCHANGED readers
       ELSE /\ readers' = [readers EXCEPT ![r] = @ + 1]
            /\ UNCHANGED <<writer, waitingWriters>>

\* The entry is deleted once nobody holds or awaits the repository (on the new values).
DropIdleEntry(r) ==
  entries' = IF ~writer'[r] /\ readers'[r] = 0 /\ waitingWriters'[r] = 0
               THEN entries \ {r} ELSE entries

\* broadcast, by p, which goes to state s: every waiter of every repository is woken.
BroadcastAnd(p, s) ==
  pc' = [q \in Procs |-> IF q = p THEN s
                         ELSE IF pc[q] = "waiting" THEN "woken" ELSE pc[q]]

-----------------------------------------------------------------------------
(* Acquire, TryAcquire, the waits between, and the release function.       *)

StartRequest(p, r, m) ==
  /\ pc[p] = "idle"
  /\ repo' = [repo EXCEPT ![p] = r]
  /\ mode' = [mode EXCEPT ![p] = m]
  /\ ctxDone' = [ctxDone EXCEPT ![p] = FALSE]

\* TryAcquire, and Acquire when its first attempt succeeds.
TryAcquire(p, r, m) ==
  /\ StartRequest(p, r, m)
  /\ CanLock(r, m)
  /\ TakeLock(r, m, 0)
  /\ pc' = [pc EXCEPT ![p] = "holding"]

\* Acquire when its first attempt fails: an exclusive request joins the queue.
AcquireWaits(p, r, m) ==
  /\ StartRequest(p, r, m)
  /\ ~CanLock(r, m)
  /\ waitingWriters' = [waitingWriters EXCEPT ![r] = IF m = Exclusive THEN @ + 1 ELSE @]
  /\ pc' = [pc EXCEPT ![p] = "waiting"]
  /\ UNCHANGED <<entries, readers, writer>>

\* A woken waiter attempts again.
RetrySucceeds(p) ==
  /\ pc[p] = "woken"
  /\ CanLock(repo[p], mode[p])
  /\ TakeLock(repo[p], mode[p], 1)
  /\ pc' = [pc EXCEPT ![p] = "holding"]
  /\ UNCHANGED <<repo, mode, ctxDone>>

RetryFails(p) ==
  /\ pc[p] = "woken"
  /\ ~CanLock(repo[p], mode[p])
  /\ pc' = [pc EXCEPT ![p] = "waiting"]
  /\ UNCHANGED <<lockVars, repo, mode, ctxDone>>

\* The caller's context ends (stop, timeout): the environment's step.
EndContext(p) ==
  /\ pc[p] \in {"waiting", "woken"}
  /\ ~ctxDone[p]
  /\ ctxDone' = [ctxDone EXCEPT ![p] = TRUE]
  /\ UNCHANGED <<lockVars, pc, repo, mode>>

\* Mutant of GiveUp: the withdrawal of a queued request wakes nobody.
GiveUpSilently(p) ==
  /\ pc[p] \in {"waiting", "woken"}
  /\ ctxDone[p]
  /\ waitingWriters' = [waitingWriters EXCEPT ![repo[p]] = IF mode[p] = Exclusive THEN @ - 1 ELSE @]
  /\ UNCHANGED <<readers, writer, repo, mode, ctxDone>>
  /\ DropIdleEntry(repo[p])
  /\ pc' = [pc EXCEPT ![p] = "idle"]

\* A waiter whose context ended gives up.  When the channel is closed as well, select
\* may still choose it: then RetrySucceeds or RetryFails is taken instead.
GiveUp(p) ==
  /\ pc[p] \in {"waiting", "woken"}
  /\ ctxDone[p]
  /\ IF mode[p] = Exclusive
       THEN /\ waitingWriters' = [waitingWriters EXCEPT ![repo[p]] = @ - 1]
            /\ UNCHANGED <<readers, writer>>
            /\ DropIdleEntry(repo[p])
            /\ BroadcastAnd(p, "idle")
       ELSE /\ pc' = [pc EXCEPT ![p] = "idle"]
            /\ UNCHANGED lockVars
  /\ UNCHANGED <<repo, mode, ctxDone>>

\* The release function; it acts once however often it is called.
Release(p) ==
  /\ pc[p] = "holding"
  /\ IF mode[p] = Exclusive
       THEN writer' = [writer EXCEPT ![repo[p]] = FALSE] /\ UNCHANGED readers
       ELSE readers' = [readers EXCEPT ![repo[p]] = @ - 1] /\ UNCHANGED writer
  /\ UNCHANGED <<waitingWriters, repo, mode, ctxDone>>
  /\ DropIdleEntry(repo[p])
  /\ BroadcastAnd(p, "idle")

Request(p) == \E r \in Repos, m \in Modes : TryAcquire(p, r, m) \/ AcquireWaits(p, r, m)

Next ==
  \E p \in Procs :
    \/ Request(p)
    \/ RetrySucceeds(p)
    \/ RetryFails(p)
    \/ EndContext(p)
    \/ GiveUp(p)
    \/ Release(p)

\* Holders release (every caller defers the release) and goroutines that can run do run.
\* Nothing makes a caller ask for the lock, nor a context end.
Fairness ==
  \A p \in Procs : /\ WF_vars(Release(p))
                   /\ WF_vars(RetrySucceeds(p) \/ RetryFails(p))
                   /\ WF_vars(GiveUp(p))

Spec == Init /\ [][Next]_vars
FairSpec == Spec /\ Fairness

-----------------------------------------------------------------------------
(* Properties.                                                             *)

TypeOK ==
  /\ entries \subseteq Repos
  /\ readers \in [Repos -> Nat]
  /\ writer \in [Repos -> BOOLEAN]
  /\ waitingWriters \in [Repos -> Nat]
  /\ pc \in [Procs -> {"idle", "waiting", "woken", "holding"}]
  /\ repo \in [Procs -> Repos]
  /\ mode \in [Procs -> Modes]
  /\ ctxDone \in [Procs -> BOOLEAN]

Holders(r, m) == {p \in Procs : pc[p] = "holding" /\ repo[p] = r /\ mode[p] = m}
Queued(r) == {p \in Procs : pc[p] \in {"waiting", "woken"} /\ repo[p] = r /\ mode[p] = Exclusive}

\* The counters of an entry are what really holds and awaits the repository, over every
\* interleaving of grants, cancelled waits and releases; and an entry exists exactly
\* while somebody holds or awaits it exclusively (repolock.go keeps one state per
\* repository and deletes it when idle).
ReadersCounted == \A r \in Repos : readers[r] = Cardinality(Holders(r, Shared))
WritersCounted == \A r \in Repos : waitingWriters[r] = Cardinality(Queued(r))
OneWriter ==
  \A r \in Repos : /\ writer[r] <=> Holders(r, Exclusive) # {}
                   /\ \A p, q \in Holders(r, Exclusive) : p = q
EntriesExact ==
  entries = {r \in Repos : writer[r] \/ readers[r] > 0 \/ waitingWriters[r] > 0}
LockAccounting == ReadersCounted /\ WritersCounted /\ OneWriter /\ EntriesExact

\* Maintenance and backups exclude each other: whoever holds a repository exclusively
\* is its only holder (package comment of repolock.go).
MutualExclusion ==
  \A p, q \in Procs :
    (/\ p # q /\ repo[p] = repo[q] /\ mode[p] = Exclusive
     /\ pc[p] = "holding") => pc[q] # "holding"

\* No wake-up is lost: a caller blocked on the channel is one that could not take the
\* lock now.  Every step that makes a waiter's attempt succeed closes the channel,
\* the withdrawal of a queued exclusive request included.
NoLostWakeup ==
  \A p \in Procs : pc[p] = "waiting" => ~CanLock(repo[p], mode[p])

\* The counters implement the abstract lock: in particular no shared request, not even
\* by TryAcquire, is admitted while an exclusive one is queued.
Abstract == INSTANCE RWLock WITH
              shared    <- [r \in Repos |-> Holders(r, Shared)],
              exclusive <- [r \in Repos |-> Holders(r, Exclusive)],
              queued    <- [r \in Repos |-> Queued(r)]
ImplementsRWLock == Abstract!Spec

\* A stream of backups cannot starve maintenance: while an exclusive request is queued
\* some exclusive request is granted, or all of them give up.
MaintenanceNotStarved ==
  \A r \in Repos : (waitingWriters[r] > 0) ~> (writer[r] \/ waitingWriters[r] = 0)
=============================================================================
