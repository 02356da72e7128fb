----------------------------- MODULE RunEngine -----------------------------
(***************************************************************************)
(* The backup runs of one storage location: src/internal/service/run_svc.  *)
(* A run is triggered, queues for a slot, passes the preflight, takes the  *)
(* location's lock shared, makes one snapshot per dump, lets restic forget *)
(* what the retention rule no longer keeps, is recorded and notified.      *)
(* Around it: stop and timeout, the rollback of a failed run, the deferred *)
(* forget, maintenance, a crash of the process and Recover.                *)
(*                                                                         *)
(* The location's lock is the abstract one that RepoLock implements.       *)
(* Retention is "keep one per day" with every run on the same day: a dump  *)
(* is expired once a newer run has a snapshot of the same dump.            *)
(***************************************************************************)
EXTENDS Integers, FiniteSets

CONSTANTS Jobs,         \* backup jobs that store to the location
          FileJobs,     \* the jobs that mirror files: one snapshot a run
          Databases,    \* databases of each other job: one snapshot each
          MaxRuns,      \* bound: runs ever triggered
          Limit,        \* setting "runs at the same time"
          MaxCrashes,   \* bound: crashes of the process
          ResticFails,  \* may restic fail by itself (disk, network, slow to stop)?
          Repo, Maintenance, Cleaner, None

ASSUME EngineConstants ==
  /\ FileJobs \subseteq Jobs /\ None \notin Jobs
  /\ Databases \in Nat \ {0} /\ MaxRuns \in Nat /\ Limit \in Nat \ {0}
  /\ MaxCrashes \in Nat /\ ResticFails \in BOOLEAN

Runs == 1 .. MaxRuns
Dumps == 1 .. Databases
Steps == {"preflight", "export", "forget", "notify"}
Lockers == Runs \cup {Maintenance, Cleaner}

VARIABLES
  \* the record of each run in the database
  jobOf,      \* [Runs -> Jobs \cup {None}]; None: not triggered yet
  status,     \* [Runs -> {"running", "success", "warning", "failed"}]
  steps,      \* [Runs -> [Steps -> status of the step]]; "settled": the notification
              \* was sent or failed for good
  ids,        \* [Runs -> SUBSET Dumps]: SnapshotIDs
  told,       \* runs whose log says that snapshots are left to be deleted
  pending,    \* [Jobs -> BOOLEAN]: forget_pending_at is set
  \* the process
  pc,         \* [Runs -> where the run's goroutine is]; "none": there is none
  ended,      \* [Runs -> BOOLEAN]: stopped or timed out, the run's context has ended
  orphans,    \* [Runs -> SUBSET Dumps]: snapshots reported by a failed restic
  active,     \* slots taken (limiter)
  listed,     \* jobs the running cleanup pass still has to handle
  phase,      \* "up", or "recovering" between a crash and the end of Recover
  crashes,
  forsaken,   \* history: runs recorded as interrupted whose snapshots nobody looks after
              \* any more, as the process died before it had told what became of them
  shared, exclusive, queued,  \* the location's lock (RWLock)
  \* the location
  snaps,      \* SUBSET (Runs \X Dumps): snapshots, by run tag and dump
  staleLock   \* a killed restic left its lock behind

recordVars == <<jobOf, status, steps, ids, told>>
lockVars == <<shared, exclusive, queued>>
repoVars == <<snaps, staleLock>>
processVars == <<active, listed, phase, crashes, forsaken>>
vars == <<recordVars, pending, pc, ended, orphans, processVars, lockVars, repoVars>>

Lock == INSTANCE RWLock WITH Procs <- Lockers, Repos <- {Repo}

Init ==
  /\ jobOf = [r \in Runs |-> None]
  /\ status = [r \in Runs |-> "running"]
  /\ steps = [r \in Runs |-> [s \in Steps |-> "pending"]]
  /\ ids = [r \in Runs |-> {}]
  /\ told = {}
  /\ pending = [j \in Jobs |-> FALSE]
  /\ pc = [r \in Runs |-> "none"]
  /\ ended = [r \in Runs |-> FALSE]
  /\ orphans = [r \in Runs |-> {}]
  /\ active = 0 /\ listed = {} /\ phase = "up" /\ crashes = 0 /\ forsaken = {}
  /\ Lock!Init
  /\ snaps = {} /\ staleLock = FALSE

-----------------------------------------------------------------------------
(* What the actions are made of.                                           *)

InSteps == {"preflight", "lockWait", "export", "dumping", "forget", "forgetting",
            "defer", "refresh", "rollback"}
InEngine == InSteps \cup {"queued", "finish", "notify"}

DumpsOf(j) == IF j \in FileJobs THEN {1} ELSE Dumps
Tagged(r) == {r} \X Dumps
DumpNow(r) == Cardinality(ids[r]) + 1

\* What forget deletes of job j: snapshots superseded by a newer run of the same dump.
Expired(j) ==
  {s \in snaps : /\ jobOf[s[1]] = j
                 /\ \E t \in snaps : jobOf[t[1]] = j /\ t[2] = s[2] /\ t[1] > s[1]}

\* Another restic holds a lock on the location for sure, or at least may hold one: p's
\* forget, which needs restic's exclusive lock, is refused.
LockedFor(p) == staleLock \/ \E q \in Runs \ {p} : pc[q] = "dumping"
MayBeLocked(p) ==
  LockedFor(p) \/ \E q \in Runs \ {p} : pc[q] \in {"preflight", "forgetting", "refresh", "rollback"}

\* A restic that is killed may leave its lock behind, if it misses the grace period.
MayLeaveLock(killed) == staleLock' \in {staleLock, staleLock \/ killed}

SetStep(r, s, v) == steps' = [steps EXCEPT ![r][s] = v]
SetSteps(r, s, v, t, w) == steps' = [steps EXCEPT ![r][s] = v, ![r][t] = w]
Goto(r, l) == pc' = [pc EXCEPT ![r] = l]

\* Mutant of LeaveSteps: the slot is not given back.
LeaveStepsWithSlot(r) ==
  /\ shared' = [shared EXCEPT ![Repo] = @ \ {r}]
  /\ UNCHANGED <<active, exclusive, queued, listed, phase, crashes, forsaken>>

\* A run returns from steps: its shared lock and its slot are released.
LeaveSteps(r) ==
  /\ active' = active - 1
  /\ shared' = [shared EXCEPT ![Repo] = @ \ {r}]
  /\ UNCHANGED <<exclusive, queued, listed, phase, crashes, forsaken>>

\* failed: the step fails, the run goes on to be recorded as failed.
Failed(r, s) == SetStep(r, s, "failed") /\ Goto(r, "finish")

\* The result steps returns.
Outcome(r) ==
  IF \E s \in Steps : steps[r][s] = "failed" THEN "failed"
  ELSE IF \E s \in Steps : steps[r][s] = "warning" THEN "warning" ELSE "success"

\* Mutant of RemoveLeftovers: only the reported snapshots are deleted.
RemoveReported(r) ==
  LET target == {r} \X (ids[r] \cup orphans[r])
      works == target = {} \/ ~LockedFor(r)
  IN /\ snaps' = (IF works THEN snaps \ target ELSE snaps)
     /\ told' = (IF works THEN told ELSE told \cup {r})

\* rollback: the snapshots of the run, the reported ones and those found by its tag, are
\* deleted with one forget, which nothing retries; a failed query or forget is logged.
RemoveLeftovers(r) ==
  \E queried \in {TRUE, ~(ResticFails \/ MayBeLocked(r))} :
    LET target == (IF queried THEN snaps \cap Tagged(r) ELSE {})
                    \cup ({r} \X (ids[r] \cup orphans[r]))
    IN \/ /\ target = {} \/ ~LockedFor(r)
          /\ snaps' = snaps \ target
          /\ told' = IF queried THEN told ELSE told \cup {r}
       \/ /\ target # {} /\ (MayBeLocked(r) \/ ResticFails)
          /\ \E gone \in (IF LockedFor(r) \/ ~ResticFails THEN {{}} ELSE SUBSET target) :
               snaps' = snaps \ gone
          /\ told' = told \cup {r}

-----------------------------------------------------------------------------
(* A run, from Trigger to the end of perform.                              *)

Busy(j) == \E r \in Runs : jobOf[r] = j /\ pc[r] \in InEngine

Trigger(j, r) ==
  /\ phase = "up" /\ ~Busy(j)
  /\ jobOf[r] = None /\ \A q \in 1 .. (r - 1) : jobOf[q] # None
  /\ jobOf' = [jobOf EXCEPT ![r] = j]
  /\ Goto(r, "queued")
  /\ UNCHANGED <<status, steps, ids, told, pending, ended, orphans, processVars, lockVars, repoVars>>

EndContext(r) ==
  /\ ~ended[r]
  /\ ended' = [ended EXCEPT ![r] = TRUE]
  /\ UNCHANGED <<recordVars, pending, pc, orphans, processVars, lockVars, repoVars>>

\* Stop, at any time before the result is recorded (later it has no effect).
Stop(r) == pc[r] \in InEngine \ {"notify"} /\ EndContext(r)

\* The timeout runs from the first step to the last.
Timeout(r) == pc[r] \in InSteps /\ EndContext(r)

\* Mutant of GetSlot: the slot is taken without a look at the limit.
GetSlotAnyway(r) ==
  /\ pc[r] = "queued"
  /\ active' = active + 1
  /\ SetStep(r, "preflight", "running") /\ Goto(r, "preflight")
  /\ UNCHANGED <<jobOf, status, ids, told, pending, ended, orphans, listed, phase, crashes,
                 forsaken, lockVars, repoVars>>

\* A slot is taken even by a run that was stopped while it queued; its first command
\* then fails at once.
GetSlot(r) ==
  /\ pc[r] = "queued" /\ active < Limit
  /\ IF ~ended[r]
       THEN /\ active' = active + 1
            /\ SetStep(r, "preflight", "running") /\ Goto(r, "preflight")
       ELSE /\ Failed(r, "preflight") /\ UNCHANGED active
  /\ UNCHANGED <<jobOf, status, ids, told, pending, ended, orphans, listed, phase, crashes,
                 forsaken, lockVars, repoVars>>

QueueStopped(r) ==
  /\ pc[r] = "queued" /\ ended[r]
  /\ Failed(r, "preflight")
  /\ UNCHANGED <<jobOf, status, ids, told, pending, ended, orphans, processVars, lockVars, repoVars>>

PreflightOK(r) ==
  /\ pc[r] = "preflight"
  /\ SetStep(r, "preflight", "success") /\ Goto(r, "lockWait")
  /\ UNCHANGED <<jobOf, status, ids, told, pending, ended, orphans, processVars, lockVars, repoVars>>

PreflightFails(r) ==
  /\ pc[r] = "preflight"
  /\ Failed(r, "preflight")
  /\ LeaveSteps(r)
  /\ UNCHANGED <<jobOf, status, ids, told, pending, ended, orphans, repoVars>>

\* Mutant of TakeLock: the run does not wait for maintenance.
TakeNoLock(r) ==
  /\ pc[r] = "lockWait"
  /\ SetStep(r, "export", "running") /\ Goto(r, "export")
  /\ UNCHANGED <<jobOf, status, ids, told, pending, ended, orphans, processVars, lockVars, repoVars>>

\* A free lock is taken even if the context has ended.
TakeLock(r) ==
  /\ pc[r] = "lockWait"
  /\ Lock!GrantShared(r, Repo)
  /\ SetStep(r, "export", "running") /\ Goto(r, "export")
  /\ UNCHANGED <<jobOf, status, ids, told, pending, ended, orphans, processVars, repoVars>>

LockWaitEnds(r) ==
  /\ pc[r] = "lockWait" /\ ended[r]
  /\ Failed(r, "export")
  /\ LeaveSteps(r)
  /\ UNCHANGED <<jobOf, status, ids, told, pending, ended, orphans, repoVars>>

\* The next dump: restic backup starts, unless the context has ended before it.
StartDump(r) ==
  /\ pc[r] = "export" /\ ids[r] # DumpsOf(jobOf[r])
  /\ Goto(r, IF ~ended[r] THEN "dumping" ELSE "rollback")
  /\ UNCHANGED <<recordVars, pending, ended, orphans, processVars, lockVars, repoVars>>

\* Mutant of DumpOK: exit code 0 is enough, whether or not a snapshot was reported.
DumpOKUnchecked(r) ==
  /\ pc[r] = "dumping"
  /\ snaps' \in {snaps, snaps \cup {<<r, DumpNow(r)>>}}
  /\ ids' = [ids EXCEPT ![r] = @ \cup {DumpNow(r)}]
  /\ Goto(r, "export")
  /\ UNCHANGED <<jobOf, status, steps, told, pending, ended, orphans, processVars, lockVars, staleLock>>

\* restic backup exited with 0 and reported the snapshot, perhaps just before the signal.
DumpOK(r) ==
  /\ pc[r] = "dumping"
  /\ snaps' = snaps \cup {<<r, DumpNow(r)>>}
  /\ ids' = [ids EXCEPT ![r] = @ \cup {DumpNow(r)}]
  /\ Goto(r, "export")
  /\ UNCHANGED <<jobOf, status, steps, told, pending, ended, orphans, processVars, lockVars, staleLock>>

\* The connection, the export command, rsync or restic fails or is killed: with no
\* snapshot, with one that was reported, or with one written but not reported.
DumpFails(r) ==
  /\ pc[r] = "dumping"
  /\ \E written, reported \in BOOLEAN :
       /\ reported => written
       /\ snaps' = IF written THEN snaps \cup {<<r, DumpNow(r)>>} ELSE snaps
       /\ orphans' = [orphans EXCEPT ![r] = IF reported THEN {DumpNow(r)} ELSE {}]
  /\ MayLeaveLock(ResticFails /\ ended[r])
  /\ Goto(r, "rollback")
  /\ UNCHANGED <<recordVars, pending, ended, processVars, lockVars>>

\* All dumps are made; rsync may have reported vanished files.
ExportOK(r) ==
  /\ pc[r] = "export" /\ ids[r] = DumpsOf(jobOf[r])
  /\ \E v \in {"success"} \cup (IF jobOf[r] \in FileJobs THEN {"warning"} ELSE {}) :
       SetSteps(r, "export", v, "forget", "running")
  /\ Goto(r, "forget")
  /\ UNCHANGED <<jobOf, status, ids, told, pending, ended, orphans, processVars, lockVars, repoVars>>

StartForget(r) ==
  /\ pc[r] = "forget"
  /\ Goto(r, IF ~ended[r] THEN "forgetting" ELSE "rollback")
  /\ UNCHANGED <<recordVars, pending, ended, orphans, processVars, lockVars, repoVars>>

ForgetOK(r) ==
  /\ pc[r] = "forgetting" /\ ~LockedFor(r)
  /\ snaps' = snaps \ Expired(jobOf[r])
  /\ SetStep(r, "forget", "success") /\ Goto(r, "refresh")
  /\ UNCHANGED <<jobOf, status, ids, told, pending, ended, orphans, processVars, lockVars, staleLock>>

\* Another restic held its lock for as long as forget retried.
ForgetLocked(r) ==
  /\ pc[r] = "forgetting" /\ MayBeLocked(r) /\ ~ended[r]
  /\ SetStep(r, "forget", "skipped") /\ Goto(r, "defer")
  /\ UNCHANGED <<jobOf, status, ids, told, pending, ended, orphans, processVars, lockVars, repoVars>>

ForgetFails(r) ==
  /\ pc[r] = "forgetting" /\ ResticFails /\ ~ended[r]
  /\ \E gone \in SUBSET Expired(jobOf[r]) : snaps' = snaps \ gone
  /\ SetStep(r, "forget", "warning") /\ Goto(r, "refresh")
  /\ UNCHANGED <<jobOf, status, ids, told, pending, ended, orphans, processVars, lockVars, staleLock>>

\* forget is killed, after it deleted some of the expired snapshots: the run fails.
ForgetKilled(r) ==
  /\ pc[r] = "forgetting" /\ ended[r]
  /\ \E gone \in (IF LockedFor(r) THEN {{}} ELSE SUBSET Expired(jobOf[r])) : snaps' = snaps \ gone
  /\ MayLeaveLock(ResticFails /\ ~LockedFor(r))
  /\ Goto(r, "rollback")
  /\ UNCHANGED <<recordVars, pending, ended, orphans, processVars, lockVars>>

\* Mutant of Defer: the skipped forget is not marked on the job.
DeferUnmarked(r) ==
  /\ pc[r] = "defer"
  /\ Goto(r, "refresh")
  /\ UNCHANGED <<recordVars, pending, ended, orphans, processVars, lockVars, repoVars>>

\* deferForget, its last part: the mark is written with the run's context, so not when
\* that has ended meanwhile.
Defer(r) ==
  /\ pc[r] = "defer"
  /\ pending' = [pending EXCEPT ![jobOf[r]] = @ \/ ~ended[r]]
  /\ told' = IF ended[r] THEN told \cup {r} ELSE told
  /\ Goto(r, "refresh")
  /\ UNCHANGED <<jobOf, status, steps, ids, ended, orphans, processVars, lockVars, repoVars>>

\* RefreshStats, whose failure changes nothing, and the return from steps.
Refreshed(r) ==
  /\ pc[r] = "refresh"
  /\ Goto(r, "finish")
  /\ LeaveSteps(r)
  /\ UNCHANGED <<recordVars, pending, ended, orphans, repoVars>>

Rollback(r) ==
  /\ pc[r] = "rollback"
  /\ RemoveLeftovers(r)
  /\ ids' = [ids EXCEPT ![r] = {}] /\ orphans' = [orphans EXCEPT ![r] = {}]
  /\ Failed(r, IF steps[r]["forget"] = "running" THEN "forget" ELSE "export")
  /\ LeaveSteps(r)
  /\ UNCHANGED <<jobOf, status, pending, ended, staleLock>>

\* finish, up to the first save; from here on the context is not used any more.
Finish(r) ==
  /\ pc[r] = "finish"
  /\ status' = [status EXCEPT ![r] = Outcome(r)]
  /\ steps' = [steps EXCEPT ![r] = [s \in Steps |-> IF s = "notify" THEN "running"
                                       ELSE IF @[s] = "pending" THEN "skipped" ELSE @[s]]]
  /\ ended' = [ended EXCEPT ![r] = FALSE]
  /\ Goto(r, "notify")
  /\ UNCHANGED <<jobOf, ids, told, pending, orphans, processVars, lockVars, repoVars>>

\* The notification was sent or given up; the goroutine ends.
Notified(r) ==
  /\ pc[r] = "notify"
  /\ SetStep(r, "notify", "settled")
  /\ Goto(r, "none")
  /\ UNCHANGED <<jobOf, status, ids, told, pending, ended, orphans, processVars, lockVars, repoVars>>

-----------------------------------------------------------------------------
(* Crash and Recover.                                                      *)

\* What the forgets under way, of runs and of a cleanup pass, may have deleted already.
Doomed ==
  {s \in snaps :
     \/ \E r \in Runs : /\ ~LockedFor(r)
                       /\ \/ pc[r] = "forgetting" /\ s \in Expired(jobOf[r])
                          \/ pc[r] \in {"rollback", "discard"} /\ s \in Tagged(r)
     \/ ~LockedFor(Cleaner) /\ \E j \in listed : s \in Expired(j)}

\* The process dies with its children.  A restic backup may just have written its
\* snapshot, a forget deleted some of what it should; any of them leaves its lock.
Crash ==
  LET writing == {r \in Runs : pc[r] = "dumping"}
      deleting == {r \in Runs : pc[r] \in {"forgetting", "rollback", "discard"}} IN
  /\ crashes < MaxCrashes
  /\ crashes' = crashes + 1 /\ phase' = "recovering"
  /\ \E made \in SUBSET {<<r, DumpNow(r)>> : r \in writing},
        gone \in SUBSET Doomed :
       snaps' = (snaps \ gone) \cup made
  /\ MayLeaveLock(writing \cup deleting # {} \/ exclusive[Repo] # {})
  /\ told' = {r \in told : pc[r] # "discarded"}
  /\ forsaken' = forsaken \cup {r \in Runs : pc[r] \in {"discard", "discarded"}}
  /\ pc' = [r \in Runs |-> "none"]
  /\ ended' = [r \in Runs |-> FALSE] /\ orphans' = [r \in Runs |-> {}]
  /\ active' = 0 /\ listed' = {}
  /\ shared' = [x \in {Repo} |-> {}] /\ exclusive' = [x \in {Repo} |-> {}]
  /\ queued' = [x \in {Repo} |-> {}]
  /\ UNCHANGED <<jobOf, status, steps, ids, pending>>

\* Recover, for one record that is still "running": Interrupt and save.
RecoverRun(r) ==
  /\ phase = "recovering" /\ jobOf[r] # None /\ status[r] = "running"
  /\ status' = [status EXCEPT ![r] = "failed"]
  /\ steps' = [steps EXCEPT ![r] = [s \in Steps |-> IF s = "notify" THEN "running"
                                       ELSE IF @[s] = "running" THEN "failed"
                                       ELSE IF @[s] = "pending" THEN "skipped" ELSE @[s]]]
  /\ Goto(r, "discard")
  /\ UNCHANGED <<jobOf, ids, told, pending, ended, orphans, processVars, lockVars, repoVars>>

\* Recover returns; the scheduler and the API start.
Recovered ==
  /\ phase = "recovering"
  /\ \A r \in Runs : jobOf[r] # None => status[r] # "running"
  /\ phase' = "up"
  /\ UNCHANGED <<recordVars, pending, pc, ended, orphans, active, listed, crashes,
                 forsaken, lockVars, repoVars>>

\* discardInterrupted, one run after the other: with the shared lock, or not at all
\* when the location cannot be opened or stays locked.
Discard(r) ==
  /\ phase = "up" /\ pc[r] = "discard" /\ \A q \in Runs : pc[q] # "discarded"
  /\ \/ /\ exclusive[Repo] = {} /\ queued[Repo] = {}
        /\ RemoveLeftovers(r)
     \/ told' = told \cup {r} /\ UNCHANGED snaps
  /\ Goto(r, "discarded")
  /\ UNCHANGED <<jobOf, status, steps, ids, pending, ended, orphans, processVars, lockVars, staleLock>>

\* notifyInterrupted, which also saves what discardInterrupted changed.
NotifyInterrupted(r) ==
  /\ pc[r] = "discarded"
  /\ SetStep(r, "notify", "settled")
  /\ ids' = [ids EXCEPT ![r] = {}]
  /\ Goto(r, "none")
  /\ UNCHANGED <<jobOf, status, told, pending, ended, orphans, processVars, lockVars, repoVars>>

-----------------------------------------------------------------------------
(* The deferred forget and maintenance.                                    *)

\* A pass over pending jobs (all, or those listed a moment ago) gets the lock.
StartCleanup ==
  /\ phase = "up" /\ listed = {}
  /\ listed' \in SUBSET {j \in Jobs : pending[j]} \ {{}}
  /\ Lock!GrantExclusive(Cleaner, Repo)
  /\ UNCHANGED <<recordVars, pending, pc, ended, orphans, active, phase, crashes,
                 forsaken, repoVars>>

\* cleanupJob: forget once, and remove the mark when that worked.
CleanJob(j) ==
  /\ j \in listed
  /\ \/ /\ ~LockedFor(Cleaner)
        /\ snaps' = snaps \ Expired(j)
        /\ pending' = [pending EXCEPT ![j] = FALSE]
     \/ /\ MayBeLocked(Cleaner) \/ ResticFails
        /\ \E gone \in (IF LockedFor(Cleaner) \/ ~ResticFails THEN {{}} ELSE SUBSET Expired(j)) :
             snaps' = snaps \ gone
        /\ UNCHANGED pending
  /\ listed' = listed \ {j}
  /\ UNCHANGED <<recordVars, pc, ended, orphans, active, phase, crashes, forsaken,
                 lockVars, staleLock>>

EndCleanup ==
  /\ listed = {} /\ Cleaner \in exclusive[Repo]
  /\ Lock!Release(Cleaner, Repo)
  /\ UNCHANGED <<recordVars, pending, pc, ended, orphans, processVars, repoVars>>

\* Maintenance (prune and check, unlock) asks for the lock, has it, and ends; an unlock
\* removes the locks that were left behind.
AskMaintenance ==
  /\ phase = "up" /\ Maintenance \notin queued[Repo]
  /\ Lock!Queue(Maintenance, Repo)
  /\ UNCHANGED <<recordVars, pending, pc, ended, orphans, processVars, repoVars>>

StartMaintenance ==
  /\ phase = "up"
  /\ Lock!GrantExclusive(Maintenance, Repo)
  /\ UNCHANGED <<recordVars, pending, pc, ended, orphans, processVars, repoVars>>

EndMaintenance ==
  /\ Maintenance \in exclusive[Repo]
  /\ Lock!Release(Maintenance, Repo)
  /\ staleLock' \in {staleLock, FALSE}
  /\ UNCHANGED <<recordVars, pending, pc, ended, orphans, processVars, snaps>>

-----------------------------------------------------------------------------
RunStep(r) ==
  \/ GetSlot(r) \/ QueueStopped(r)
  \/ PreflightOK(r) \/ PreflightFails(r)
  \/ TakeLock(r) \/ LockWaitEnds(r)
  \/ StartDump(r) \/ DumpOK(r) \/ DumpFails(r) \/ ExportOK(r)
  \/ StartForget(r) \/ ForgetOK(r) \/ ForgetLocked(r) \/ ForgetFails(r) \/ ForgetKilled(r)
  \/ Defer(r) \/ Refreshed(r) \/ Rollback(r)
  \/ Finish(r) \/ Notified(r)

Next ==
  \/ \E r \in Runs : \/ \E j \in Jobs : Trigger(j, r)
                     \/ Stop(r) \/ Timeout(r)
                     \/ RunStep(r)
                     \/ RecoverRun(r) \/ Discard(r) \/ NotifyInterrupted(r)
  \/ Crash \/ Recovered
  \/ StartCleanup \/ (\E j \in Jobs : CleanJob(j)) \/ EndCleanup
  \/ AskMaintenance \/ StartMaintenance \/ EndMaintenance

\* Goroutines and their commands go on, each run has a timeout, maintenance ends.
Fairness ==
  /\ \A r \in Runs : /\ WF_vars(RunStep(r)) /\ WF_vars(Timeout(r))
                     /\ WF_vars(RecoverRun(r))
                     /\ WF_vars(Discard(r)) /\ WF_vars(NotifyInterrupted(r))
  /\ WF_vars(Recovered)

Spec == Init /\ [][Next]_vars
FairSpec == Spec /\ Fairness
-----------------------------------------------------------------------------
(* Properties.                                                             *)

StepStates == {"pending", "running", "success", "warning", "failed", "skipped", "settled"}

TypeOK ==
  /\ jobOf \in [Runs -> Jobs \cup {None}]
  /\ status \in [Runs -> {"running", "success", "warning", "failed"}]
  /\ steps \in [Runs -> [Steps -> StepStates]]
  /\ ids \in [Runs -> SUBSET Dumps]
  /\ told \subseteq Runs
  /\ pending \in [Jobs -> BOOLEAN]
  /\ pc \in [Runs -> InEngine \cup {"none", "discard", "discarded"}]
  /\ ended \in [Runs -> BOOLEAN]
  /\ orphans \in [Runs -> SUBSET Dumps]
  /\ active \in Nat /\ listed \subseteq Jobs
  /\ phase \in {"up", "recovering"} /\ crashes \in Nat /\ forsaken \subseteq Runs
  /\ shared \in [{Repo} -> SUBSET Runs]
  /\ exclusive \in [{Repo} -> SUBSET {Maintenance, Cleaner}]
  /\ queued \in [{Repo} -> SUBSET {Maintenance}]
  /\ snaps \subseteq Runs \X Dumps
  /\ staleLock \in BOOLEAN

Latest(r) == jobOf[r] # None /\ \A q \in Runs : q > r => jobOf[q] # jobOf[r]

\* Every way out of a run, errors, stops, timeouts and crashes included, gives its slot
\* back exactly once (limiter): the slots taken are those of the runs inside steps,
\* never more than the setting.
SlotsExact == active = Cardinality({r \in Runs : pc[r] \in InSteps}) /\ active <= Limit

\* No restic of a run writes to or deletes from the location while maintenance or a
\* cleanup pass has it, and two of these never have it together (engine.go: the shared
\* lock is held from the export to the end of the steps, on every path).
AloneDuringMaintenance ==
  TypeOK /\ (exclusive[Repo] # {} =>
    /\ \A r \in Runs : pc[r] \notin {"export", "dumping", "forget", "forgetting", "defer",
                                     "refresh", "rollback"}
    /\ Cardinality(exclusive[Repo]) = 1)

\* The hard invariant of the design: a run that is recorded as successful has a snapshot
\* of every dump, whatever other runs, cleanup passes and recoveries delete meanwhile
\* (a later run of the job may supersede them).
SuccessIsComplete ==
  \A r \in Runs :
    Latest(r) /\ status[r] \in {"success", "warning"} =>
      ids[r] = DumpsOf(jobOf[r]) /\ {r} \X ids[r] \subseteq snaps

\* Nobody looks at the snapshots of a run that failed any more.
LeftAlone(r) == jobOf[r] # None /\ status[r] = "failed" /\ pc[r] \notin {"discard", "discarded"}

\* A failed run, once rollback or discardInterrupted has dealt with it, has left no
\* snapshot, or its log tells which may be left; the one way to leave some in silence is
\* that the process died a second time, between Recover's save of the record and the end
\* of notifyInterrupted.
NoSilentLeftovers ==
  \A r \in Runs : LeftAlone(r) => snaps \cap Tagged(r) = {} \/ r \in told \/ r \in forsaken

\* What the comment on discardInterrupted says (run.go:437: interrupted runs must not
\* leave snapshots either; what was done about them goes to the run's log).  It does not
\* hold: Recover looks for records that are still "running" only.
InterruptedLeaveNothingUnsaid ==
  \A r \in Runs : LeftAlone(r) => snaps \cap Tagged(r) = {} \/ r \in told

\* A forget that was skipped because of another backup is not forgotten: until the job's
\* next run the job is marked, or a cleanup pass has deleted what was expired.  (A run
\* that was stopped or timed out just then may lose the mark: MarkForgetPending gets its
\* ended context; its log tells.)
SkippedForgetIsMarked ==
  \A r \in Runs :
    /\ Latest(r) /\ steps[r]["forget"] = "skipped" /\ status[r] \in {"success", "warning"}
    => pending[jobOf[r]] \/ Expired(jobOf[r]) = {} \/ r \in told

\* Every run gets a result, however slots, lock, commands and crashes interleave.
EveryRunEnds == \A r \in Runs : jobOf[r] # None ~> jobOf[r] # None /\ status[r] # "running"
=============================================================================
