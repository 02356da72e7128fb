-------------------------- MODULE RunEngineProofs --------------------------
(***************************************************************************)
(* The invariants of RunEngine for any number of jobs, databases, runs,    *)
(* slots and crashes: slots and the location's lock are given back on      *)
(* every way out of a run, no snapshot of a successful run is deleted, a   *)
(* failed run leaves none silently, and a skipped forget stays marked.     *)
(***************************************************************************)
EXTENDS RunEngine, FiniteSetTheorems, TLAPS

Places == InEngine \cup {"none", "discard", "discarded"}
WithLock == {"export", "dumping", "forget", "forgetting", "defer", "refresh", "rollback"}
BeforeLock == {"queued", "preflight", "lockWait"}
LastDump(j) == IF j \in FileJobs THEN 1 ELSE Databases

-----------------------------------------------------------------------------
(* The inductive invariant, in parts.                                      *)

\* The shared lock is held by the runs between the lock and the end of steps, and
\* maintenance or the cleaner alone.
LockInv ==
  /\ shared[Repo] = {r \in Runs : pc[r] \in WithLock}
  /\ exclusive[Repo] # {} => /\ shared[Repo] = {}
                             /\ \E p \in {Maintenance, Cleaner} : exclusive[Repo] = {p}

\* Between a crash and the end of Recover nothing runs.
RecoveringInv == phase = "recovering" => \A r \in Runs : pc[r] \in {"none", "discard"}

\* Runs are numbered as they are triggered, and a live one is the last of its job.
OrderInv ==
  \A r \in Runs : /\ jobOf[r] = None => \A q \in Runs : q > r => jobOf[q] = None
                  /\ pc[r] \in InEngine => Latest(r)

NoneFailed(r) == \A s \in Steps : steps[r][s] # "failed"
Succeeded(r) == status[r] \in {"success", "warning"}

\* The record of a run fits the place its goroutine is at.
RecordOf(r) ==
  /\ jobOf[r] = None => pc[r] = "none" /\ status[r] = "running" /\ NoneFailed(r)
  /\ pc[r] \in InEngine \ {"notify"} => status[r] = "running"
  /\ pc[r] \in InSteps \ {"rollback"} \/ pc[r] = "queued" => NoneFailed(r)
  /\ pc[r] \in {"discard", "discarded"} => status[r] = "failed"
  /\ pc[r] \in {"defer", "refresh"} \/ (pc[r] = "finish" /\ NoneFailed(r))
       => steps[r]["forget"] # "pending"

RecordInv == \A r \in Runs : RecordOf(r)

\* The run has made all its dumps and did not fail since.
AllMade(r) == \/ pc[r] \in {"forget", "forgetting", "defer", "refresh"}
              \/ pc[r] = "finish" /\ NoneFailed(r)
              \/ Succeeded(r)

Clean(r) == snaps \cap Tagged(r) = {} \/ r \in told \/ r \in forsaken

\* The snapshots of a run fit its record: as many dumps as it says, all there as long as
\* no newer run of the job has been triggered, and none silently left by a failed one.
DataOf(r) ==
  /\ jobOf[r] = None \/ pc[r] \in BeforeLock => ids[r] = {} /\ snaps \cap Tagged(r) = {}
  /\ pc[r] \in {"export", "dumping"} =>
       \E k \in 0 .. LastDump(jobOf[r]) :
          ids[r] = 1 .. k /\ (pc[r] = "dumping" => k < LastDump(jobOf[r]))
  /\ AllMade(r) => ids[r] = DumpsOf(jobOf[r])
  /\ Latest(r) /\ (AllMade(r) \/ pc[r] \in {"export", "dumping"}) => {r} \X ids[r] \subseteq snaps
  /\ \/ pc[r] = "finish" /\ ~NoneFailed(r)
     \/ pc[r] = "discarded"
     \/ status[r] = "failed" /\ pc[r] # "discard"
     => Clean(r)

DataInv == \A r \in Runs : DataOf(r)

\* What SkippedForgetIsMarked says, from the moment the run is done with its forget.
SkippedOf(r) ==
  /\ Latest(r) /\ steps[r]["forget"] = "skipped"
  /\ pc[r] = "refresh" \/ (pc[r] = "finish" /\ NoneFailed(r)) \/ Succeeded(r)
  => pending[jobOf[r]] \/ Expired(jobOf[r]) = {} \/ r \in told

SkippedInv == \A r \in Runs : SkippedOf(r)

IInv == /\ TypeOK /\ SlotsExact /\ LockInv /\ RecoveringInv
        /\ OrderInv /\ RecordInv /\ DataInv /\ SkippedInv

LEMMA InitIInv == Init => IInv
<1> SUFFICES ASSUME Init PROVE IInv
  OBVIOUS
<1> USE EngineConstants
<1>1. TypeOK
  BY DEF Init, TypeOK, Lock!Init, StepStates, Steps
<1>2. SlotsExact
  <2>1. {r \in Runs : pc[r] \in InSteps} = {}
    BY DEF Init, InSteps
  <2>2. Cardinality({}) = 0
    BY FS_EmptySet
  <2>3. active = 0 /\ 0 <= Limit
    BY DEF Init
  <2> QED
    BY <2>1, <2>2, <2>3 DEF SlotsExact
<1>3. LockInv /\ RecoveringInv
  BY DEF Init, Lock!Init, LockInv, WithLock, RecoveringInv
<1>4. OrderInv /\ RecordInv
  BY DEF Init, OrderInv, RecordInv, RecordOf, NoneFailed, InEngine, InSteps, Steps
<1>5. DataInv
  BY DEF Init, DataInv, DataOf, BeforeLock, AllMade, Succeeded
<1>6. SkippedInv
  BY DEF Init, SkippedInv, SkippedOf, Latest
<1> QED
  BY <1>1, <1>2, <1>3, <1>4, <1>5, <1>6 DEF IInv

-----------------------------------------------------------------------------
(* What the helpers of the actions change, and nothing else.               *)

LEMMA GotoFacts ==
  ASSUME TypeOK, NEW r \in Runs, NEW l \in Places, Goto(r, l)
  PROVE  /\ pc' \in [Runs -> Places] /\ pc'[r] = l
         /\ \A q \in Runs \ {r} : pc'[q] = pc[q]
  BY DEF TypeOK, Goto, Places

LEMMA StepFacts ==
  ASSUME TypeOK, NEW r \in Runs, NEW s \in Steps, NEW v \in StepStates, SetStep(r, s, v)
  PROVE  /\ steps' \in [Runs -> [Steps -> StepStates]] /\ steps'[r][s] = v
         /\ \A t \in Steps \ {s} : steps'[r][t] = steps[r][t]
         /\ \A q \in Runs \ {r} : steps'[q] = steps[q]
  BY DEF TypeOK, SetStep

LEMMA StepsFacts ==
  ASSUME TypeOK, NEW r \in Runs, NEW v \in StepStates,
         SetSteps(r, "export", v, "forget", "running")
  PROVE  /\ steps' \in [Runs -> [Steps -> StepStates]]
         /\ steps'[r]["export"] = v /\ steps'[r]["forget"] = "running"
         /\ \A t \in Steps \ {"export", "forget"} : steps'[r][t] = steps[r][t]
         /\ \A q \in Runs \ {r} : steps'[q] = steps[q]
<1>1. steps' = [steps EXCEPT ![r] = [[steps[r] EXCEPT !["export"] = v]
                                            EXCEPT !["forget"] = "running"]]
  BY DEF TypeOK, SetSteps, Steps
<1> QED
  BY <1>1 DEF TypeOK, Steps, StepStates

LEMMA FailedFacts ==
  ASSUME TypeOK, NEW r \in Runs, NEW s \in Steps, Failed(r, s)
  PROVE  /\ steps' \in [Runs -> [Steps -> StepStates]] /\ steps'[r][s] = "failed"
         /\ \A t \in Steps \ {s} : steps'[r][t] = steps[r][t]
         /\ \A q \in Runs \ {r} : steps'[q] = steps[q]
         /\ pc' \in [Runs -> Places] /\ pc'[r] = "finish"
         /\ \A q \in Runs \ {r} : pc'[q] = pc[q]
<1>1. SetStep(r, s, "failed") /\ Goto(r, "finish")
  BY DEF Failed
<1>2. "failed" \in StepStates /\ "finish" \in Places
  BY DEF StepStates, Places, InEngine
<1> QED
  BY <1>1, <1>2, GotoFacts, StepFacts

LEMMA LeaveFacts ==
  ASSUME TypeOK, NEW r \in Runs, LeaveSteps(r)
  PROVE  /\ active' = active - 1
         /\ shared' \in [{Repo} -> SUBSET Runs] /\ shared'[Repo] = shared[Repo] \ {r}
         /\ UNCHANGED <<exclusive, queued, listed, phase, crashes, forsaken>>
  BY DEF TypeOK, LeaveSteps

\* The rollback deletes snapshots of its run only, and says what it may have left.
LEMMA LeftoverFacts ==
  ASSUME TypeOK, NEW r \in Runs, RemoveLeftovers(r)
  PROVE  /\ snaps' \subseteq snaps /\ snaps \ snaps' \subseteq Tagged(r)
         /\ told \subseteq told' /\ told' \subseteq told \cup {r}
         /\ snaps' \cap Tagged(r) = {} \/ r \in told'
<1>1. PICK queried \in {TRUE, ~(ResticFails \/ MayBeLocked(r))} :
    LET target == (IF queried THEN snaps \cap Tagged(r) ELSE {})
                    \cup ({r} \X (ids[r] \cup orphans[r]))
    IN \/ /\ target = {} \/ ~LockedFor(r)
          /\ snaps' = snaps \ target
          /\ told' = IF queried THEN told ELSE told \cup {r}
       \/ /\ target # {} /\ (MayBeLocked(r) \/ ResticFails)
          /\ \E gone \in (IF LockedFor(r) \/ ~ResticFails THEN {{}} ELSE SUBSET target) :
               snaps' = snaps \ gone
          /\ told' = told \cup {r}
  BY DEF RemoveLeftovers
<1> DEFINE target == (IF queried THEN snaps \cap Tagged(r) ELSE {})
                       \cup ({r} \X (ids[r] \cup orphans[r]))
<1>2. target \subseteq Tagged(r)
  BY DEF TypeOK, Tagged
<1>3. queried => snaps \cap Tagged(r) \subseteq target
  OBVIOUS
<1> HIDE DEF target
<1>4. CASE /\ snaps' = snaps \ target
           /\ told' = IF queried THEN told ELSE told \cup {r}
  BY <1>2, <1>3, <1>4
<1>5. CASE /\ \E gone \in (IF LockedFor(r) \/ ~ResticFails THEN {{}} ELSE SUBSET target) :
                snaps' = snaps \ gone
           /\ told' = told \cup {r}
  <2>1. PICK gone \in SUBSET target : snaps' = snaps \ gone
    BY <1>5
  <2> QED
    BY <1>2, <1>5, <2>1
<1> QED
  BY <1>1, <1>4, <1>5 DEF target

\* The next dump of a run is one of its job's.
LEMMA NextDump ==
  ASSUME TypeOK, NEW r \in Runs, NEW k \in Nat, ids[r] = 1 .. k
  PROVE  DumpNow(r) = k + 1
  BY FS_Interval DEF DumpNow

LEMMA DumpNowFacts ==
  ASSUME TypeOK, DataInv, NEW r \in Runs, pc[r] = "dumping"
  PROVE  /\ DumpNow(r) \in Dumps
         /\ \E k \in 1 .. LastDump(jobOf[r]) : ids[r] \cup {DumpNow(r)} = 1 .. k
<1>1. PICK k \in 0 .. LastDump(jobOf[r]) : ids[r] = 1 .. k /\ k < LastDump(jobOf[r])
  BY DEF DataInv, DataOf
<1>2. LastDump(jobOf[r]) \in Nat /\ LastDump(jobOf[r]) <= Databases /\ Databases \in Nat
  BY EngineConstants DEF LastDump
<1>3. k \in Nat /\ k + 1 \in 1 .. LastDump(jobOf[r])
  BY <1>1, <1>2
<1>4. DumpNow(r) = k + 1
  BY <1>1, <1>3, NextDump
<1>5. (1 .. k) \cup {k + 1} = 1 .. (k + 1)
  BY <1>3
<1> QED
  BY <1>1, <1>2, <1>3, <1>4, <1>5 DEF Dumps

-----------------------------------------------------------------------------
(* Types.                                                                  *)

\* One of the slots taken is that of a run inside steps.
LEMMA SlotTaken ==
  ASSUME TypeOK, SlotsExact, NEW r \in Runs, pc[r] \in InSteps
  PROVE  active - 1 \in Nat
<1> DEFINE S == {q \in Runs : pc[q] \in InSteps}
<1>1. IsFiniteSet(Runs)
  BY EngineConstants, FS_Interval DEF Runs
<1>2. IsFiniteSet(S)
  BY <1>1, FS_Subset
<1>3. Cardinality(S) # 0
  <2>1. r \in S
    OBVIOUS
  <2> QED
    BY <1>2, <2>1, FS_EmptySet
<1>4. active \in Nat /\ active = Cardinality(S)
  BY DEF TypeOK, SlotsExact
<1> HIDE DEF S
<1> QED
  BY <1>3, <1>4

\* The steps of a run before it makes dumps.
LEMMA TypesOfEarlySteps ==
  ASSUME IInv, NEW r \in Runs,
         \/ \E j \in Jobs : Trigger(j, r)
         \/ Stop(r) \/ Timeout(r)
         \/ GetSlot(r) \/ QueueStopped(r) \/ PreflightOK(r) \/ PreflightFails(r)
         \/ TakeLock(r) \/ LockWaitEnds(r)
  PROVE  TypeOK'
<1> USE DEF IInv
<1>0. {"queued", "preflight", "lockWait", "export"} \subseteq Places /\ Places \subseteq InEngine \cup {"none", "discard", "discarded"}
  BY DEF Places, InEngine, InSteps
<1>s. {"preflight", "export"} \subseteq Steps /\ {"running", "success"} \subseteq StepStates
  BY DEF Steps, StepStates
<1>1. ASSUME NEW j \in Jobs, Trigger(j, r) PROVE TypeOK'
  BY <1>0, <1>1, GotoFacts DEF Trigger, TypeOK, processVars, lockVars, repoVars
<1>2. CASE EndContext(r)
  BY <1>2 DEF EndContext, TypeOK, recordVars, processVars, lockVars, repoVars
<1>3. CASE GetSlot(r) /\ ~ended[r]
  <2>1. /\ active' = active + 1 /\ SetStep(r, "preflight", "running") /\ Goto(r, "preflight")
        /\ UNCHANGED <<jobOf, status, ids, told, pending, ended, orphans, listed, phase, crashes,
                 forsaken, lockVars, repoVars>>
    BY <1>3 DEF GetSlot
  <2> QED
    BY <1>0, <1>s, <2>1, GotoFacts, StepFacts DEF TypeOK, lockVars, repoVars
<1>4. CASE (GetSlot(r) /\ ended[r]) \/ QueueStopped(r)
  <2>1. /\ Failed(r, "preflight")
        /\ UNCHANGED <<active, jobOf, status, ids, told, pending, ended, orphans, listed, phase,
                       crashes, forsaken, lockVars, repoVars>>
    BY <1>4 DEF GetSlot, QueueStopped, processVars
  <2> QED
    BY <1>0, <1>s, <2>1, FailedFacts DEF TypeOK, lockVars, repoVars
<1>5. CASE PreflightOK(r)
  BY <1>0, <1>s, <1>5, GotoFacts, StepFacts DEF PreflightOK, TypeOK, processVars, lockVars, repoVars
<1>6. ASSUME NEW s \in {"preflight", "export"}, Failed(r, s), LeaveSteps(r), pc[r] \in InSteps,
             UNCHANGED <<jobOf, status, ids, told, pending, ended, orphans, repoVars>>
      PROVE  TypeOK'
  <2>1. active' \in Nat /\ shared' \in [{Repo} -> SUBSET Runs]
        /\ UNCHANGED <<exclusive, queued, listed, phase, crashes, forsaken>>
    BY <1>6, LeaveFacts, SlotTaken
  <2> QED
    BY <1>0, <1>s, <1>6, <2>1, FailedFacts DEF TypeOK, repoVars
<1>7. CASE PreflightFails(r) \/ LockWaitEnds(r)
  BY <1>6, <1>7 DEF PreflightFails, LockWaitEnds, InSteps
<1>8. CASE TakeLock(r)
  <2>1. /\ shared' \in [{Repo} -> SUBSET Runs] /\ UNCHANGED <<exclusive, queued>>
    BY <1>8 DEF TakeLock, Lock!GrantShared, TypeOK
  <2> QED
    BY <1>0, <1>s, <1>8, <2>1, GotoFacts, StepFacts DEF TakeLock, TypeOK, processVars, repoVars
<1> QED
  BY <1>1, <1>2, <1>3, <1>4, <1>5, <1>7, <1>8 DEF Stop, Timeout


\* The steps of a run that makes dumps and forgets.
LEMMA TypesOfDumpSteps ==
  ASSUME IInv, NEW r \in Runs,
         \/ StartDump(r) \/ DumpOK(r) \/ DumpFails(r) \/ ExportOK(r)
         \/ StartForget(r) \/ ForgetOK(r) \/ ForgetLocked(r) \/ ForgetFails(r) \/ ForgetKilled(r)
  PROVE  TypeOK'
<1>0. TypeOK /\ DataInv
  BY DEF IInv
<1>p. {"export", "dumping", "rollback", "forget", "forgetting", "refresh", "defer"} \subseteq Places
  BY DEF Places, InEngine, InSteps
<1>s. /\ {"export", "forget"} \subseteq Steps
      /\ {"running", "success", "warning", "skipped"} \subseteq StepStates
  BY DEF Steps, StepStates
<1>e. \A S \in SUBSET snaps : snaps \ S \subseteq Runs \X Dumps
  BY <1>0 DEF TypeOK
<1>1. CASE StartDump(r) \/ StartForget(r)
  <2>1. \E l \in Places : Goto(r, l)
    BY <1>1, <1>p DEF StartDump, StartForget
  <2>2. UNCHANGED <<recordVars, pending, ended, orphans, processVars, lockVars, repoVars>>
    BY <1>1 DEF StartDump, StartForget
  <2> QED
    BY <1>0, <2>1, <2>2, GotoFacts
    DEF TypeOK, Places, recordVars, processVars, lockVars, repoVars
<1>2. CASE DumpOK(r)
  <2>1. DumpNow(r) \in Dumps
    BY <1>0, <1>2, DumpNowFacts DEF DumpOK
  <2>2. ids' \in [Runs -> SUBSET Dumps] /\ snaps' \subseteq Runs \X Dumps
    BY <1>0, <1>2, <2>1 DEF DumpOK, TypeOK
  <2> QED
    BY <1>0, <1>2, <1>p, <2>2, GotoFacts DEF DumpOK, TypeOK, Places, processVars, lockVars
<1>3. CASE DumpFails(r)
  <2>1. DumpNow(r) \in Dumps
    BY <1>0, <1>3, DumpNowFacts DEF DumpFails
  <2>2. orphans' \in [Runs -> SUBSET Dumps] /\ snaps' \subseteq Runs \X Dumps
    BY <1>0, <1>3, <2>1 DEF DumpFails, TypeOK
  <2>3. staleLock' \in BOOLEAN
    BY <1>0, <1>3, EngineConstants DEF DumpFails, MayLeaveLock, TypeOK
  <2> QED
    BY <1>0, <1>3, <1>p, <2>2, <2>3, GotoFacts
    DEF DumpFails, TypeOK, Places, recordVars, processVars, lockVars
<1>4. CASE ExportOK(r)
  <2>1. PICK v \in StepStates : SetSteps(r, "export", v, "forget", "running")
    BY <1>4, <1>s DEF ExportOK
  <2> QED
    BY <1>0, <1>4, <1>p, <2>1, GotoFacts, StepsFacts
    DEF ExportOK, TypeOK, Places, processVars, lockVars, repoVars
<1>5. CASE ForgetOK(r) \/ ForgetFails(r) \/ ForgetLocked(r)
  <2>1. /\ \E v \in StepStates : SetStep(r, "forget", v)
        /\ \E l \in Places : Goto(r, l)
    BY <1>5, <1>p, <1>s DEF ForgetOK, ForgetFails, ForgetLocked
  <2>2. snaps' \subseteq Runs \X Dumps
    BY <1>0, <1>5, <1>e DEF ForgetOK, ForgetFails, ForgetLocked, Expired, repoVars, TypeOK
  <2>3. UNCHANGED <<jobOf, status, ids, told, pending, ended, orphans, processVars, lockVars,
                    staleLock>>
    BY <1>5 DEF ForgetOK, ForgetFails, ForgetLocked, repoVars
  <2> QED
    BY <1>0, <1>s, <2>1, <2>2, <2>3, GotoFacts, StepFacts DEF TypeOK, Places, processVars, lockVars
<1>6. CASE ForgetKilled(r)
  <2>1. snaps' \subseteq Runs \X Dumps
    BY <1>0, <1>6 DEF ForgetKilled, TypeOK
  <2>2. staleLock' \in BOOLEAN
    BY <1>0, <1>6 DEF ForgetKilled, MayLeaveLock, LockedFor, TypeOK
  <2> QED
    BY <1>0, <1>6, <1>p, <2>1, <2>2, GotoFacts
    DEF ForgetKilled, TypeOK, Places, recordVars, processVars, lockVars
<1> QED
  BY <1>1, <1>2, <1>3, <1>4, <1>5, <1>6

\* The rest of a run.
LEMMA TypesOfLateSteps ==
  ASSUME IInv, NEW r \in Runs,
         \/ Defer(r) \/ Refreshed(r) \/ Rollback(r) \/ Finish(r) \/ Notified(r)
         \/ RecoverRun(r) \/ Discard(r) \/ NotifyInterrupted(r)
  PROVE  TypeOK'
<1>0. TypeOK /\ SlotsExact
  BY DEF IInv
<1>p. {"refresh", "finish", "notify", "none", "discard", "discarded"} \subseteq Places
  BY DEF Places, InEngine, InSteps
<1>s. /\ {"export", "forget", "notify"} \subseteq Steps
      /\ {"running", "failed", "skipped", "settled"} \subseteq StepStates
  BY DEF Steps, StepStates
<1>1. CASE Defer(r)
  <2>1. pending' \in [Jobs -> BOOLEAN]
    <3>1. pending' = [pending EXCEPT ![jobOf[r]] = @ \/ ~ended[r]]
      BY <1>1 DEF Defer
    <3>2. (pending[jobOf[r]] \/ ~ended[r]) \in BOOLEAN /\ pending \in [Jobs -> BOOLEAN]
      BY <1>0 DEF TypeOK
    <3> QED
      BY <3>1, <3>2
  <2>2. told' \subseteq Runs
    BY <1>0, <1>1 DEF Defer, TypeOK
  <2> QED
    BY <1>0, <1>1, <1>p, <2>1, <2>2, GotoFacts
    DEF Defer, TypeOK, Places, processVars, lockVars, repoVars
<1>2. CASE Refreshed(r)
  <2>1. pc[r] \in InSteps
    BY <1>2 DEF Refreshed, InSteps
  <2> QED
    BY <1>0, <1>2, <1>p, <2>1, GotoFacts, LeaveFacts, SlotTaken
    DEF Refreshed, TypeOK, Places, recordVars, repoVars
<1>3. CASE Rollback(r)
  <2>1. pc[r] \in InSteps
    BY <1>3 DEF Rollback, InSteps
  <2>2. \E s \in Steps : Failed(r, s)
    BY <1>3, <1>s DEF Rollback
  <2>3. ids' \in [Runs -> SUBSET Dumps] /\ orphans' \in [Runs -> SUBSET Dumps]
    BY <1>0, <1>3 DEF Rollback, TypeOK
  <2>4. told' \subseteq Runs /\ snaps' \subseteq Runs \X Dumps
    BY <1>0, <1>3, LeftoverFacts DEF Rollback, TypeOK
  <2>5. active' \in Nat /\ shared' \in [{Repo} -> SUBSET Runs]
        /\ UNCHANGED <<exclusive, queued, listed, phase, crashes, forsaken>>
    BY <1>0, <1>3, <2>1, LeaveFacts, SlotTaken DEF Rollback
  <2> QED
    BY <1>0, <1>3, <2>2, <2>3, <2>4, <2>5, FailedFacts DEF Rollback, TypeOK, Places
<1>4. CASE Finish(r)
  <2>1. Outcome(r) \in {"running", "success", "warning", "failed"}
    BY DEF Outcome
  <2>2. steps' \in [Runs -> [Steps -> StepStates]]
    BY <1>0, <1>4, <1>s DEF Finish, TypeOK
  <2>3. status' \in [Runs -> {"running", "success", "warning", "failed"}] /\ ended' \in [Runs -> BOOLEAN]
    BY <1>0, <1>4, <2>1 DEF Finish, TypeOK
  <2> QED
    BY <1>0, <1>4, <1>p, <2>2, <2>3, GotoFacts
    DEF Finish, TypeOK, Places, processVars, lockVars, repoVars
<1>5. CASE Notified(r)
  BY <1>0, <1>5, <1>p, <1>s, GotoFacts, StepFacts
  DEF Notified, TypeOK, Places, processVars, lockVars, repoVars
<1>6. CASE RecoverRun(r)
  <2>1. steps' \in [Runs -> [Steps -> StepStates]]
    <3> DEFINE new == [s \in Steps |-> IF s = "notify" THEN "running"
                                       ELSE IF steps[r][s] = "running" THEN "failed"
                                       ELSE IF steps[r][s] = "pending" THEN "skipped" ELSE steps[r][s]]
    <3>1. new \in [Steps -> StepStates]
      BY <1>0, <1>s DEF TypeOK
    <3>2. steps' = [steps EXCEPT ![r] = new]
      BY <1>0, <1>6 DEF RecoverRun, TypeOK
    <3> HIDE DEF new
    <3> QED
      BY <1>0, <3>1, <3>2 DEF TypeOK
  <2>2. status' \in [Runs -> {"running", "success", "warning", "failed"}]
    BY <1>0, <1>6 DEF RecoverRun, TypeOK
  <2> QED
    BY <1>0, <1>6, <1>p, <2>1, <2>2, GotoFacts
    DEF RecoverRun, TypeOK, Places, processVars, lockVars, repoVars
<1>7. CASE Discard(r)
  <2>1. told' \subseteq Runs /\ snaps' \subseteq Runs \X Dumps
    BY <1>0, <1>7, LeftoverFacts DEF Discard, TypeOK
  <2> QED
    BY <1>0, <1>7, <1>p, <2>1, GotoFacts DEF Discard, TypeOK, Places, processVars, lockVars
<1>8. CASE NotifyInterrupted(r)
  <2>1. ids' \in [Runs -> SUBSET Dumps]
    BY <1>0, <1>8 DEF NotifyInterrupted, TypeOK
  <2> QED
    BY <1>0, <1>8, <1>p, <1>s, <2>1, GotoFacts, StepFacts
    DEF NotifyInterrupted, TypeOK, Places, processVars, lockVars, repoVars
<1> QED
  BY <1>1, <1>2, <1>3, <1>4, <1>5, <1>6, <1>7, <1>8

\* What does not belong to one run.
LEMMA TypesOfOtherSteps ==
  ASSUME IInv,
         \/ Crash \/ Recovered
         \/ StartCleanup \/ (\E j \in Jobs : CleanJob(j)) \/ EndCleanup
         \/ AskMaintenance \/ StartMaintenance \/ EndMaintenance
  PROVE  TypeOK'
<1>0. TypeOK /\ DataInv
  BY DEF IInv
<1>1. CASE Crash
  <2>1. {<<r, DumpNow(r)>> : r \in {q \in Runs : pc[q] = "dumping"}} \subseteq Runs \X Dumps
    BY <1>0, DumpNowFacts
  <2>2. snaps' \subseteq Runs \X Dumps
    BY <1>0, <1>1, <2>1 DEF Crash, TypeOK
  <2>a. \E killed \in BOOLEAN : MayLeaveLock(killed)
    BY <1>1 DEF Crash
  <2>b. staleLock' \in BOOLEAN
    BY <1>0, <2>a DEF MayLeaveLock, TypeOK
  <2>3. told' \subseteq Runs /\ forsaken' \subseteq Runs /\ staleLock' \in BOOLEAN /\ crashes' \in Nat
    BY <1>0, <1>1, <2>b DEF Crash, TypeOK
  <2>4. pc' \in [Runs -> Places] /\ ended' \in [Runs -> BOOLEAN] /\ orphans' \in [Runs -> SUBSET Dumps]
    BY <1>1 DEF Crash, Places
  <2>5. /\ active' = 0 /\ listed' = {} /\ phase' = "recovering"
        /\ shared' = [x \in {Repo} |-> {}] /\ exclusive' = [x \in {Repo} |-> {}]
        /\ queued' = [x \in {Repo} |-> {}]
        /\ UNCHANGED <<jobOf, status, steps, ids, pending>>
    BY <1>1 DEF Crash
  <2> QED
    BY <1>0, <2>2, <2>3, <2>4, <2>5 DEF TypeOK, Places
<1>2. CASE Recovered
  BY <1>0, <1>2 DEF Recovered, TypeOK, recordVars, lockVars, repoVars
<1>3. CASE StartCleanup
  BY <1>0, <1>3 DEF StartCleanup, Lock!GrantExclusive, TypeOK, recordVars, repoVars
<1>4. ASSUME NEW j \in Jobs, CleanJob(j) PROVE TypeOK'
  <2>1. snaps' \subseteq Runs \X Dumps
    BY <1>0, <1>4 DEF CleanJob, TypeOK
  <2>2. pending' \in [Jobs -> BOOLEAN]
    BY <1>0, <1>4 DEF CleanJob, TypeOK
  <2> QED
    BY <1>0, <1>4, <2>1, <2>2 DEF CleanJob, TypeOK, recordVars, lockVars
<1>5. CASE EndCleanup \/ EndMaintenance
  <2>1. /\ shared' \in [{Repo} -> SUBSET Runs]
        /\ exclusive' \in [{Repo} -> SUBSET {Maintenance, Cleaner}]
        /\ queued' = queued
    BY <1>0, <1>5 DEF EndCleanup, EndMaintenance, Lock!Release, TypeOK
  <2>2. staleLock' \in BOOLEAN
    BY <1>0, <1>5 DEF EndCleanup, EndMaintenance, TypeOK, repoVars
  <2> QED
    BY <1>0, <1>5, <2>1, <2>2
    DEF EndCleanup, EndMaintenance, TypeOK, recordVars, processVars, repoVars
<1>6. CASE AskMaintenance
  BY <1>0, <1>6 DEF AskMaintenance, Lock!Queue, TypeOK, recordVars, processVars, repoVars
<1>7. CASE StartMaintenance
  BY <1>0, <1>7 DEF StartMaintenance, Lock!GrantExclusive, TypeOK, recordVars, processVars, repoVars
<1> QED
  BY <1>1, <1>2, <1>3, <1>4, <1>5, <1>6, <1>7

-----------------------------------------------------------------------------
(* Slots and the location's lock.                                          *)

ControlInv == SlotsExact /\ LockInv /\ RecoveringInv

\* A run goes on inside, or outside, of steps and of the lock.
LEMMA ControlKept ==
  ASSUME TypeOK, ControlInv, NEW r \in Runs,
         \A q \in Runs \ {r} : pc'[q] = pc[q],
         pc'[r] \in InSteps <=> pc[r] \in InSteps,
         pc'[r] \in WithLock <=> pc[r] \in WithLock,
         pc[r] \notin {"none", "discard"} \/ phase = "up" \/ pc'[r] \in {"none", "discard"},
         UNCHANGED <<active, shared, exclusive, queued, phase>>
  PROVE  ControlInv'
<1>1. {q \in Runs : pc'[q] \in InSteps} = {q \in Runs : pc[q] \in InSteps}
  OBVIOUS
<1>2. SlotsExact'
  BY <1>1 DEF ControlInv, SlotsExact
<1>3. {q \in Runs : pc'[q] \in WithLock} = {q \in Runs : pc[q] \in WithLock}
  OBVIOUS
<1>4. LockInv'
  BY <1>3 DEF ControlInv, LockInv
<1>5. RecoveringInv'
  BY DEF ControlInv, RecoveringInv, TypeOK
<1> QED
  BY <1>2, <1>4, <1>5 DEF ControlInv

\* A run returns from steps.
LEMMA ControlLeft ==
  ASSUME TypeOK, ControlInv, NEW r \in Runs, pc[r] \in InSteps, LeaveSteps(r),
         pc'[r] = "finish", \A q \in Runs \ {r} : pc'[q] = pc[q]
  PROVE  ControlInv'
<1> DEFINE S == {q \in Runs : pc[q] \in InSteps}
           T == {q \in Runs : pc'[q] \in InSteps}
<1>1. S \ {r} = T /\ r \in S
  BY DEF InSteps
<1>2. IsFiniteSet(S)
  <2>1. IsFiniteSet(Runs)
    BY EngineConstants, FS_Interval DEF Runs
  <2> QED
    BY <2>1, FS_Subset
<1>3. Cardinality(T) = Cardinality(S) - 1
  <2> HIDE DEF S, T
  <2> QED
    BY <1>1, <1>2, FS_RemoveElement
<1>4. active' = active - 1 /\ active = Cardinality(S) /\ active <= Limit /\ active \in Nat
  BY LeaveFacts DEF ControlInv, SlotsExact, TypeOK
<1>5. active' = Cardinality(T) /\ active' <= Limit
  <2> HIDE DEF S, T
  <2> QED
    BY <1>3, <1>4, EngineConstants
<1>6. SlotsExact'
  BY <1>5 DEF SlotsExact
<1>7. shared'[Repo] = shared[Repo] \ {r} /\ UNCHANGED <<exclusive, phase>>
  BY LeaveFacts
<1>8. {q \in Runs : pc'[q] \in WithLock} = {q \in Runs : pc[q] \in WithLock} \ {r}
  BY DEF WithLock
<1>9. LockInv'
  BY <1>7, <1>8 DEF ControlInv, LockInv
<1>10. RecoveringInv'
  BY <1>7 DEF ControlInv, RecoveringInv, InSteps
<1> QED
  BY <1>6, <1>9, <1>10 DEF ControlInv

\* A run gets a slot.
LEMMA ControlOfGetSlot ==
  ASSUME TypeOK, ControlInv, NEW r \in Runs, GetSlot(r)
  PROVE  ControlInv'
<1>1. CASE ended[r]
  <2>1. /\ pc'[r] = "finish" /\ \A q \in Runs \ {r} : pc'[q] = pc[q]
        /\ UNCHANGED <<active, shared, exclusive, queued, phase>>
    BY <1>1, FailedFacts DEF GetSlot, lockVars, Steps
  <2> QED
    BY <2>1, ControlKept DEF GetSlot, InSteps, WithLock
<1>2. CASE ~ended[r]
  <2> DEFINE S == {q \in Runs : pc[q] \in InSteps}
             T == {q \in Runs : pc'[q] \in InSteps}
  <2>1. /\ pc[r] = "queued" /\ Goto(r, "preflight") /\ active' = active + 1 /\ active < Limit
        /\ UNCHANGED <<shared, exclusive, queued, phase>>
    BY <1>2 DEF GetSlot, lockVars
  <2>2. pc'[r] = "preflight" /\ \A q \in Runs \ {r} : pc'[q] = pc[q]
    BY <2>1, GotoFacts DEF Places, InEngine, InSteps
  <2>3. S \cup {r} = T /\ r \notin S
    BY <2>1, <2>2 DEF InSteps
  <2>4. IsFiniteSet(S)
    <3>1. IsFiniteSet(Runs)
      BY EngineConstants, FS_Interval DEF Runs
    <3> QED
      BY <3>1, FS_Subset
  <2>5. Cardinality(T) = Cardinality(S) + 1
    <3> HIDE DEF S, T
    <3> QED
      BY <2>3, <2>4, FS_AddElement
  <2>6. active = Cardinality(S) /\ active \in Nat
    BY DEF ControlInv, SlotsExact, TypeOK
  <2>7. active' = Cardinality(T) /\ active' <= Limit
    <3> HIDE DEF S, T
    <3> QED
      BY <2>1, <2>5, <2>6, EngineConstants
  <2>8. SlotsExact'
    BY <2>7 DEF SlotsExact
  <2>9. {q \in Runs : pc'[q] \in WithLock} = {q \in Runs : pc[q] \in WithLock}
    BY <2>1, <2>2 DEF WithLock
  <2>10. LockInv'
    BY <2>1, <2>9 DEF ControlInv, LockInv
  <2>11. RecoveringInv'
    BY <2>1 DEF ControlInv, RecoveringInv
  <2> QED
    BY <2>8, <2>10, <2>11 DEF ControlInv
<1> QED
  BY <1>1, <1>2

\* A run that has no slot, or keeps the one it has, with or without the lock.
LEMMA ControlOfMoves ==
  ASSUME TypeOK, ControlInv, RecordInv, NEW r \in Runs,
         \/ \E j \in Jobs : Trigger(j, r)
         \/ QueueStopped(r) \/ PreflightOK(r)
         \/ StartDump(r) \/ DumpOK(r) \/ DumpFails(r) \/ ExportOK(r)
         \/ StartForget(r) \/ ForgetOK(r) \/ ForgetLocked(r) \/ ForgetFails(r) \/ ForgetKilled(r)
         \/ Defer(r) \/ Finish(r) \/ Notified(r)
         \/ RecoverRun(r) \/ Discard(r) \/ NotifyInterrupted(r)
  PROVE  ControlInv'
<1>p. Places = InSteps \cup {"queued", "finish", "notify", "none", "discard", "discarded"}
  BY DEF Places, InEngine
<1>1. ASSUME NEW j \in Jobs, Trigger(j, r) PROVE ControlInv'
  <2>1. pc'[r] = "queued" /\ \A q \in Runs \ {r} : pc'[q] = pc[q]
    BY <1>1, <1>p, GotoFacts DEF Trigger
  <2>2. pc[r] = "none" /\ phase = "up"
    BY <1>1, EngineConstants DEF Trigger, RecordInv, RecordOf
  <2>3. UNCHANGED <<active, shared, exclusive, queued, phase>>
    BY <1>1 DEF Trigger, processVars, lockVars
  <2> QED
    BY <2>1, <2>2, <2>3, ControlKept DEF InSteps, WithLock
<1>2. CASE QueueStopped(r)
  <2>1. pc'[r] = "finish" /\ \A q \in Runs \ {r} : pc'[q] = pc[q]
    BY <1>2, FailedFacts DEF QueueStopped, Steps
  <2>2. pc[r] = "queued" /\ UNCHANGED <<active, shared, exclusive, queued, phase>>
    BY <1>2 DEF QueueStopped, processVars, lockVars
  <2> QED
    BY <2>1, <2>2, ControlKept DEF InSteps, WithLock
<1>3. CASE PreflightOK(r)
  <2>1. pc'[r] = "lockWait" /\ \A q \in Runs \ {r} : pc'[q] = pc[q]
    BY <1>3, <1>p, GotoFacts DEF PreflightOK, InSteps
  <2>2. pc[r] = "preflight" /\ UNCHANGED <<active, shared, exclusive, queued, phase>>
    BY <1>3 DEF PreflightOK, processVars, lockVars
  <2> QED
    BY <2>1, <2>2, ControlKept DEF InSteps, WithLock
<1>4. CASE \/ StartDump(r) \/ DumpOK(r) \/ DumpFails(r) \/ ExportOK(r)
           \/ StartForget(r) \/ ForgetOK(r) \/ ForgetLocked(r) \/ ForgetFails(r) \/ ForgetKilled(r)
           \/ Defer(r)
  <2>1. pc[r] \in WithLock /\ \E l \in WithLock : Goto(r, l)
    BY <1>4 DEF StartDump, DumpOK, DumpFails, ExportOK, StartForget, ForgetOK, ForgetLocked,
                ForgetFails, ForgetKilled, Defer, WithLock
  <2>2. WithLock \subseteq InSteps
    BY DEF WithLock, InSteps
  <2>3. pc'[r] \in WithLock /\ \A q \in Runs \ {r} : pc'[q] = pc[q]
    BY <1>p, <2>1, <2>2, GotoFacts
  <2>4. UNCHANGED <<active, shared, exclusive, queued, phase>>
    BY <1>4 DEF StartDump, DumpOK, DumpFails, ExportOK, StartForget, ForgetOK, ForgetLocked,
                ForgetFails, ForgetKilled, Defer, processVars, lockVars
  <2>5. pc[r] \notin {"none", "discard"}
    BY <2>1 DEF WithLock
  <2> QED
    BY <2>1, <2>2, <2>3, <2>4, <2>5, ControlKept
<1>5. CASE Finish(r) \/ Notified(r) \/ RecoverRun(r) \/ Discard(r) \/ NotifyInterrupted(r)
  <2> DEFINE Outside == {"finish", "notify", "none", "discard", "discarded"}
  <2>1. /\ \E l \in Outside : Goto(r, l)
        /\ UNCHANGED <<active, shared, exclusive, queued, phase>>
    BY <1>5 DEF Finish, Notified, RecoverRun, Discard, NotifyInterrupted, processVars, lockVars
  <2>2. pc'[r] \in Outside /\ \A q \in Runs \ {r} : pc'[q] = pc[q]
    BY <1>p, <2>1, GotoFacts
  <2>3. pc[r] \in Outside
    BY <1>5 DEF Finish, Notified, RecoverRun, Discard, NotifyInterrupted, ControlInv, RecoveringInv
  <2>4. pc[r] \notin {"none", "discard"} \/ phase = "up" \/ pc'[r] \in {"none", "discard"}
    <3>1. CASE RecoverRun(r)
      BY <3>1, <1>p, GotoFacts DEF RecoverRun
    <3>2. CASE Finish(r) \/ Notified(r) \/ Discard(r) \/ NotifyInterrupted(r)
      BY <3>2 DEF Finish, Notified, Discard, NotifyInterrupted
    <3> QED
      BY <1>5, <3>1, <3>2
  <2>5. Outside \cap InSteps = {} /\ Outside \cap WithLock = {}
    BY DEF InSteps, WithLock
  <2> QED
    BY <2>1, <2>2, <2>3, <2>4, <2>5, ControlKept
<1> QED
  BY <1>1, <1>2, <1>3, <1>4, <1>5

\* A run takes the lock, and leaves steps.
LEMMA ControlOfLock ==
  ASSUME TypeOK, ControlInv, NEW r \in Runs,
         \/ TakeLock(r)
         \/ PreflightFails(r) \/ LockWaitEnds(r) \/ Refreshed(r) \/ Rollback(r)
  PROVE  ControlInv'
<1>1. CASE TakeLock(r)
  <2>1. /\ pc[r] = "lockWait" /\ exclusive[Repo] = {}
        /\ shared'[Repo] = shared[Repo] \cup {r}
        /\ UNCHANGED <<active, exclusive, phase>>
    BY <1>1 DEF TakeLock, Lock!GrantShared, processVars, TypeOK
  <2>2. pc'[r] = "export" /\ \A q \in Runs \ {r} : pc'[q] = pc[q]
    BY <1>1, GotoFacts DEF TakeLock, Places, InEngine, InSteps
  <2>3. {q \in Runs : pc'[q] \in InSteps} = {q \in Runs : pc[q] \in InSteps}
    BY <2>1, <2>2 DEF InSteps
  <2>4. SlotsExact'
    BY <2>1, <2>3 DEF ControlInv, SlotsExact
  <2>5. {q \in Runs : pc'[q] \in WithLock} = {q \in Runs : pc[q] \in WithLock} \cup {r}
    BY <2>1, <2>2 DEF WithLock
  <2>6. LockInv'
    BY <2>1, <2>5 DEF ControlInv, LockInv
  <2>7. RecoveringInv'
    BY <2>1 DEF ControlInv, RecoveringInv
  <2> QED
    BY <2>4, <2>6, <2>7 DEF ControlInv
<1>2. CASE PreflightFails(r) \/ LockWaitEnds(r) \/ Rollback(r)
  <2>1. pc[r] \in InSteps /\ LeaveSteps(r) /\ \E s \in Steps : Failed(r, s)
    BY <1>2 DEF PreflightFails, LockWaitEnds, Rollback, InSteps, Steps
  <2> QED
    BY <2>1, FailedFacts, ControlLeft
<1>3. CASE Refreshed(r)
  <2>1. pc'[r] = "finish" /\ \A q \in Runs \ {r} : pc'[q] = pc[q]
    BY <1>3, GotoFacts DEF Refreshed, Places, InEngine
  <2> QED
    BY <1>3, <2>1, ControlLeft DEF Refreshed, InSteps
<1> QED
  BY <1>1, <1>2, <1>3

\* What does not belong to one run.
LEMMA ControlOfOthers ==
  ASSUME TypeOK, ControlInv,
         \/ \E r \in Runs : EndContext(r)
         \/ Crash \/ Recovered
         \/ StartCleanup \/ (\E j \in Jobs : CleanJob(j)) \/ EndCleanup
         \/ AskMaintenance \/ StartMaintenance \/ EndMaintenance
  PROVE  ControlInv'
<1>1. CASE Crash
  <2>1. /\ active' = 0 /\ shared'[Repo] = {} /\ exclusive'[Repo] = {}
        /\ \A r \in Runs : pc'[r] = "none"
    BY <1>1 DEF Crash
  <2>2. {r \in Runs : pc'[r] \in InSteps} = {} /\ {r \in Runs : pc'[r] \in WithLock} = {}
    BY <2>1 DEF InSteps, WithLock
  <2>3. Cardinality({}) = 0 /\ 0 <= Limit
    BY FS_EmptySet, EngineConstants
  <2>4. SlotsExact'
    BY <2>1, <2>2, <2>3 DEF SlotsExact
  <2> QED
    BY <2>1, <2>2, <2>4 DEF ControlInv, LockInv, RecoveringInv
<1>2. CASE \/ \E r \in Runs : EndContext(r)
           \/ \E j \in Jobs : CleanJob(j)
           \/ AskMaintenance
  <2>1. UNCHANGED <<active, pc, shared, exclusive, phase>>
    BY <1>2 DEF EndContext, CleanJob, AskMaintenance, Lock!Queue, processVars, lockVars
  <2> QED
    BY <2>1 DEF ControlInv, SlotsExact, LockInv, RecoveringInv
<1>3. CASE Recovered
  BY <1>3 DEF Recovered, ControlInv, SlotsExact, LockInv, RecoveringInv, lockVars
<1>4. CASE StartCleanup \/ StartMaintenance
  <2>1. /\ shared[Repo] = {} /\ exclusive[Repo] = {}
        /\ \E p \in {Maintenance, Cleaner} : exclusive'[Repo] = {p}
        /\ UNCHANGED <<active, pc, shared, phase>>
    BY <1>4 DEF StartCleanup, StartMaintenance, Lock!GrantExclusive, processVars, TypeOK
  <2> QED
    BY <2>1 DEF ControlInv, SlotsExact, LockInv, RecoveringInv
<1>5. CASE EndCleanup \/ EndMaintenance
  <2>1. PICK p \in {Maintenance, Cleaner} : p \in exclusive[Repo] /\ Lock!Release(p, Repo)
    BY <1>5 DEF EndCleanup, EndMaintenance
  <2>2. exclusive[Repo] = {p} /\ shared[Repo] = {}
    BY <2>1 DEF ControlInv, LockInv
  <2>3. shared'[Repo] = {} /\ exclusive'[Repo] = {}
    BY <2>1, <2>2 DEF Lock!Release, TypeOK
  <2>4. UNCHANGED <<active, pc, phase>>
    BY <1>5 DEF EndCleanup, EndMaintenance, processVars
  <2> QED
    BY <2>2, <2>3, <2>4 DEF ControlInv, SlotsExact, LockInv, RecoveringInv
<1> QED
  BY <1>1, <1>2, <1>3, <1>4, <1>5

-----------------------------------------------------------------------------
(* The order of runs, and their records.                                   *)

\* A step that triggers nothing and starts nothing in the engine.
LEMMA OrderKept ==
  ASSUME TypeOK, OrderInv, UNCHANGED jobOf,
         \A q \in Runs : pc'[q] \in InEngine => pc[q] \in InEngine
  PROVE  OrderInv' /\ \A q \in Runs : Latest(q)' <=> Latest(q)
  BY DEF OrderInv, Latest

\* The run that is triggered is the last of its job; it takes the place of the former
\* last one, whose goroutine has ended.
LEMMA OrderOfTrigger ==
  ASSUME TypeOK, OrderInv, NEW r \in Runs, NEW j \in Jobs, Trigger(j, r)
  PROVE  /\ OrderInv'
         /\ jobOf[r] = None /\ jobOf'[r] = j /\ \A q \in Runs \ {r} : jobOf'[q] = jobOf[q]
         /\ pc'[r] = "queued" /\ \A q \in Runs \ {r} : pc'[q] = pc[q]
         /\ \A q \in Runs \ {r} : Latest(q)' => Latest(q) /\ jobOf[q] # j
<1>1. /\ jobOf[r] = None /\ jobOf'[r] = j /\ \A q \in Runs \ {r} : jobOf'[q] = jobOf[q]
      /\ ~Busy(j) /\ \A q \in 1 .. (r - 1) : jobOf[q] # None
  BY DEF Trigger, TypeOK
<1>2. pc'[r] = "queued" /\ \A q \in Runs \ {r} : pc'[q] = pc[q]
  BY GotoFacts DEF Trigger, Places, InEngine
<1>3. \A q \in Runs : q \in Int /\ (q < r => jobOf[q] # None)
  BY <1>1 DEF Runs
<1>4. \A q \in Runs : q > r => jobOf[q] = None
  BY <1>1 DEF OrderInv
<1>5. j # None /\ r \in Int
  BY <1>3, EngineConstants
<1>6. \A q \in Runs \ {r} : jobOf[q] # None => q < r
  BY <1>3, <1>4, <1>5
<1>7. \A q \in Runs \ {r} : Latest(q)' => Latest(q) /\ jobOf[q] # j
  BY <1>1, <1>3, <1>5, <1>6 DEF Latest
<1>8. \A q \in Runs \ {r} : Latest(q) /\ jobOf[q] # j => Latest(q)'
  BY <1>1 DEF Latest
<1>9. Latest(r)'
  BY <1>1, <1>3, <1>4, <1>5 DEF Latest
<1>10. \A q \in Runs : pc[q] \in InEngine => jobOf[q] # j
  BY <1>1 DEF Busy
<1>11. \A q \in Runs : pc'[q] \in InEngine => Latest(q)'
  BY <1>2, <1>8, <1>9, <1>10 DEF OrderInv
<1>12. \A q \in Runs : jobOf'[q] = None => \A p \in Runs : p > q => jobOf'[p] = None
  BY <1>1, <1>3, <1>4, <1>5, <1>6 DEF OrderInv
<1> QED
  BY <1>1, <1>2, <1>7, <1>11, <1>12 DEF OrderInv

-----------------------------------------------------------------------------
(* What a step of one run leaves to the others.                            *)

LEMMA LatestUnique ==
  ASSUME TypeOK, NEW q \in Runs, NEW r \in Runs, Latest(q), Latest(r), q # r
  PROVE  jobOf[q] # jobOf[r]
<1>1. q \in Int /\ r \in Int
  BY DEF Runs
<1>2. q < r \/ r < q
  BY <1>1
<1> QED
  BY <1>1, <1>2 DEF Latest

\* What forget deletes belongs to runs that are superseded.
LEMMA ForgetSpares ==
  ASSUME TypeOK, NEW j \in Jobs, NEW q \in Runs, Latest(q)
  PROVE  Expired(j) \cap Tagged(q) = {}
<1> SUFFICES ASSUME NEW s \in Expired(j), s \in Tagged(q) PROVE FALSE
  OBVIOUS
<1>1. s[1] = q
  BY DEF Tagged
<1>2. PICK t \in snaps : jobOf[t[1]] = j /\ t[1] > s[1] /\ jobOf[s[1]] = j
  BY DEF Expired
<1>3. t[1] \in Runs
  BY DEF TypeOK
<1> QED
  BY <1>1, <1>2, <1>3 DEF Latest

\* Nothing new is expired in a job when no snapshot of it was added.
LEMMA ExpiredKept ==
  ASSUME NEW j \in Jobs, UNCHANGED jobOf, \A s \in snaps' \ snaps : jobOf[s[1]] # j
  PROVE  Expired(j)' \subseteq Expired(j)
  BY DEF Expired

\* After a forget that worked nothing is expired.
LEMMA ForgottenAll ==
  ASSUME NEW j \in Jobs, UNCHANGED jobOf, snaps' = snaps \ Expired(j)
  PROVE  Expired(j)' = {}
  BY DEF Expired

\* The record of any run but r stays, its log and the marks of the jobs are only added to.
RecordFrame(r) ==
  /\ \A q \in Runs \ {r} : /\ pc'[q] = pc[q] /\ status'[q] = status[q]
                           /\ steps'[q] = steps[q] /\ ids'[q] = ids[q]
  /\ told \subseteq told' /\ forsaken \subseteq forsaken' /\ \A j \in Jobs : pending[j] => pending'[j]

\* Of the others' snapshots only superseded ones are deleted; a new one is of a live run r.
SnapsFrame(r) ==
  /\ snaps' \ snaps \subseteq Tagged(r) /\ (snaps' \subseteq snaps \/ Latest(r))
  /\ \A q \in Runs \ {r} : Latest(q) => snaps \cap Tagged(q) \subseteq snaps'

OneRun(r) == RecordOf(r) /\ DataOf(r) /\ SkippedOf(r)

LEMMA OthersKept ==
  ASSUME TypeOK, NEW r \in Runs, NEW q \in Runs \ {r}, OneRun(q),
         RecordFrame(r), SnapsFrame(r), jobOf'[q] = jobOf[q], Latest(q)' => Latest(q),
         Latest(q) => Expired(jobOf[q])' \subseteq Expired(jobOf[q])
  PROVE  OneRun(q)'
<1>1. /\ pc'[q] = pc[q] /\ status'[q] = status[q] /\ steps'[q] = steps[q] /\ ids'[q] = ids[q]
      /\ told \subseteq told' /\ forsaken \subseteq forsaken'
  BY DEF RecordFrame
<1>2. RecordOf(q)'
  BY <1>1 DEF OneRun, RecordOf, NoneFailed
<1>3. /\ NoneFailed(q)' <=> NoneFailed(q)
      /\ Succeeded(q)' <=> Succeeded(q)
  BY <1>1 DEF NoneFailed, Succeeded
<1>4. AllMade(q)' <=> AllMade(q)
  BY <1>1, <1>3 DEF AllMade
<1>5. snaps' \cap Tagged(q) \subseteq snaps
  BY DEF SnapsFrame, Tagged
<1>6. Clean(q) => Clean(q)'
  BY <1>1, <1>5 DEF Clean, Tagged
<1>7. Latest(q) /\ {q} \X ids[q] \subseteq snaps => {q} \X ids[q] \subseteq snaps'
  <2>1. {q} \X ids[q] \subseteq Tagged(q)
    BY DEF TypeOK, Tagged
  <2>2. Latest(q) => snaps \cap Tagged(q) \subseteq snaps'
    BY DEF SnapsFrame
  <2> QED
    BY <2>1, <2>2
<1>8. DataOf(q)'
  <2>1. snaps \cap Tagged(q) = {} => (snaps \cap Tagged(q))' = {}
    BY <1>5 DEF Tagged
  <2>2. LastDump(jobOf[q])' = LastDump(jobOf[q]) /\ DumpsOf(jobOf[q])' = DumpsOf(jobOf[q])
    BY DEF LastDump, DumpsOf
  <2> QED
    BY <1>1, <1>3, <1>4, <1>6, <1>7, <2>1, <2>2 DEF OneRun, DataOf
<1>9. SkippedOf(q)'
  <2>1. Latest(q) /\ pending[jobOf[q]] => pending'[jobOf[q]]
    BY DEF RecordFrame, Latest, TypeOK
  <2> QED
    BY <1>1, <1>3, <2>1 DEF OneRun, SkippedOf
<1> QED
  BY <1>2, <1>8, <1>9 DEF OneRun

\* With what is known of the order of runs, a step of one run keeps the others' invariant.
LEMMA OneRunSteps ==
  ASSUME TypeOK, OrderInv, NEW r \in Runs, \A q \in Runs : OneRun(q),
         RecordFrame(r), SnapsFrame(r), UNCHANGED jobOf,
         pc'[r] \in InEngine => pc[r] \in InEngine, OneRun(r)'
  PROVE  OrderInv' /\ \A q \in Runs : OneRun(q)'
<1>1. OrderInv' /\ \A q \in Runs : Latest(q)' <=> Latest(q)
  BY OrderKept DEF RecordFrame
<1>2. ASSUME NEW q \in Runs \ {r} PROVE OneRun(q)'
  <2>1. ASSUME Latest(q) PROVE Expired(jobOf[q])' \subseteq Expired(jobOf[q])
    <3>1. jobOf[q] \in Jobs
      BY <2>1 DEF Latest, TypeOK
    <3>2. ASSUME NEW s \in snaps' \ snaps PROVE jobOf[s[1]] # jobOf[q]
      <4>1. s \in Tagged(r) /\ Latest(r)
        BY <3>2 DEF SnapsFrame
      <4> QED
        BY <2>1, <4>1, LatestUnique DEF Tagged
    <3> DEFINE j == jobOf[q]
    <3> HIDE DEF j
    <3>3. {s \in snaps' : /\ jobOf'[s[1]] = j
                 /\ \E t \in snaps' : jobOf'[t[1]] = j /\ t[2] = s[2] /\ t[1] > s[1]} \subseteq Expired(j)
      BY <3>2 DEF Expired, j
    <3> QED
      BY <3>3 DEF Expired, j
  <2> QED
    BY <1>1, <2>1, OthersKept
<1> QED
  BY <1>1, <1>2

-----------------------------------------------------------------------------
(* The steps of a run, each with what it makes of the run itself.          *)

\* A step that changes neither snapshots nor marks.
LEMMA QuietStep ==
  ASSUME TypeOK, OrderInv, NEW r \in Runs, \A q \in Runs : OneRun(q),
         UNCHANGED <<jobOf, ids, told, forsaken, pending, snaps>>,
         \A q \in Runs \ {r} : pc'[q] = pc[q] /\ status'[q] = status[q] /\ steps'[q] = steps[q],
         pc'[r] \in InEngine => pc[r] \in InEngine,
         OneRun(r)'
  PROVE  OrderInv' /\ \A q \in Runs : OneRun(q)'
<1>1. RecordFrame(r) /\ SnapsFrame(r)
  BY DEF RecordFrame, SnapsFrame
<1> QED
  BY <1>1, OneRunSteps

\* Before it has the lock a run makes nothing.
LEMMA EarlyStep ==
  ASSUME TypeOK, OrderInv, NEW r \in Runs, \A q \in Runs : OneRun(q),
         UNCHANGED <<jobOf, status, ids, told, forsaken, pending, snaps>>,
         \A q \in Runs \ {r} : pc'[q] = pc[q] /\ steps'[q] = steps[q],
         pc[r] \in BeforeLock,
         \/ pc'[r] \in {"preflight", "lockWait", "export"} /\ NoneFailed(r)'
         \/ pc'[r] = "finish" /\ ~NoneFailed(r)'
  PROVE  OrderInv' /\ \A q \in Runs : OneRun(q)'
<1>0. OneRun(r) /\ jobOf[r] \in Jobs \cup {None}
  BY DEF TypeOK
<1>1. /\ status[r] = "running" /\ jobOf[r] # None /\ Latest(r)
      /\ ids[r] = {} /\ snaps \cap Tagged(r) = {}
  BY <1>0 DEF OneRun, RecordOf, DataOf, BeforeLock, InEngine, InSteps, OrderInv
<1>2. RecordOf(r)'
  BY <1>1, <1>0 DEF RecordOf, InSteps, InEngine
<1>3. DataOf(r)'
  <2>1. LastDump(jobOf[r]) \in Nat /\ 0 \in 0 .. LastDump(jobOf[r]) /\ {} = 1 .. 0
    BY EngineConstants DEF LastDump
  <2>2. ~AllMade(r)'
    BY <1>1 DEF AllMade, Succeeded
  <2>3. (snaps \cap Tagged(r))' = {} /\ {r} \X {} = {}
    BY <1>1 DEF Tagged
  <2>4. pc'[r] = "export" =>
         \E k \in 0 .. LastDump(jobOf[r]) :
           {} = 1 .. k /\ (pc'[r] = "dumping" => k < LastDump(jobOf[r]))
    BY <2>1
  <2> QED
    BY <1>1, <2>2, <2>3, <2>4 DEF DataOf, LastDump, Clean
<1>4. SkippedOf(r)'
  BY <1>1 DEF SkippedOf, Succeeded
<1>5. pc[r] \in InEngine
  BY DEF BeforeLock, InEngine, InSteps
<1> QED
  BY <1>2, <1>3, <1>4, <1>5, QuietStep DEF OneRun

LEMMA EarlySteps ==
  ASSUME TypeOK, OrderInv, NEW r \in Runs, \A q \in Runs : OneRun(q),
         \/ GetSlot(r) \/ QueueStopped(r) \/ PreflightOK(r) \/ PreflightFails(r)
         \/ TakeLock(r) \/ LockWaitEnds(r)
  PROVE  OrderInv' /\ \A q \in Runs : OneRun(q)'
<1>0. {"preflight", "lockWait", "export"} \subseteq Places
  BY DEF Places, InEngine, InSteps
<1>n. pc[r] \in BeforeLock => NoneFailed(r)
  BY DEF OneRun, RecordOf, BeforeLock, InSteps
<1>1. ASSUME NEW s \in {"preflight", "export"}, Failed(r, s), pc[r] \in BeforeLock,
             UNCHANGED <<jobOf, status, ids, told, forsaken, pending, snaps>>
      PROVE  OrderInv' /\ \A q \in Runs : OneRun(q)'
  <2>0. s \in Steps
    BY DEF Steps
  <2>1. /\ pc'[r] = "finish" /\ steps'[r][s] = "failed"
        /\ \A q \in Runs \ {r} : pc'[q] = pc[q] /\ steps'[q] = steps[q]
    BY <1>1, <2>0, FailedFacts
  <2>2. ~NoneFailed(r)'
    BY <2>0, <2>1 DEF NoneFailed
  <2> QED
    BY <1>1, <2>1, <2>2, EarlyStep
<1>2. ASSUME NEW s \in {"preflight", "export"}, NEW v \in {"running", "success"},
             NEW l \in {"preflight", "lockWait", "export"},
             SetStep(r, s, v), Goto(r, l), pc[r] \in BeforeLock,
             UNCHANGED <<jobOf, status, ids, told, forsaken, pending, snaps>>
      PROVE  OrderInv' /\ \A q \in Runs : OneRun(q)'
  <2>0. s \in Steps /\ v \in StepStates /\ v # "failed"
    BY DEF Steps, StepStates
  <2>1. pc'[r] = l /\ \A q \in Runs \ {r} : pc'[q] = pc[q]
    BY <1>0, <1>2, GotoFacts
  <2>2. /\ steps'[r][s] = v /\ \A t \in Steps \ {s} : steps'[r][t] = steps[r][t]
        /\ \A q \in Runs \ {r} : steps'[q] = steps[q]
    BY <1>2, <2>0, StepFacts
  <2>3. NoneFailed(r)'
    BY <1>n, <1>2, <2>0, <2>2 DEF NoneFailed
  <2> QED
    BY <1>2, <2>1, <2>2, <2>3, EarlyStep
<1>3. CASE (GetSlot(r) /\ ended[r]) \/ QueueStopped(r) \/ PreflightFails(r) \/ LockWaitEnds(r)
  <2>1. \E s \in {"preflight", "export"} : Failed(r, s)
    BY <1>3 DEF GetSlot, QueueStopped, PreflightFails, LockWaitEnds
  <2>2. pc[r] \in BeforeLock /\ UNCHANGED <<jobOf, status, ids, told, forsaken, pending, snaps>>
    BY <1>3 DEF GetSlot, QueueStopped, PreflightFails, LockWaitEnds, LeaveSteps, BeforeLock,
                 processVars, repoVars
  <2> QED
    BY <1>1, <2>1, <2>2
<1>4. CASE (GetSlot(r) /\ ~ended[r]) \/ PreflightOK(r) \/ TakeLock(r)
  <2>1. \E s \in {"preflight", "export"}, v \in {"running", "success"},
           l \in {"preflight", "lockWait", "export"} : SetStep(r, s, v) /\ Goto(r, l)
    BY <1>4 DEF GetSlot, PreflightOK, TakeLock
  <2>2. pc[r] \in BeforeLock /\ UNCHANGED <<jobOf, status, ids, told, forsaken, pending, snaps>>
    BY <1>4 DEF GetSlot, PreflightOK, TakeLock, BeforeLock, processVars, repoVars
  <2> QED
    BY <1>2, <2>1, <2>2
<1> QED
  BY <1>3, <1>4

\* What a run between the lock and the end of its steps has to keep, in one place.
LEMMA WorkingRun ==
  ASSUME TypeOK, OrderInv, NEW r \in Runs, OneRun(r), pc[r] \in WithLock
  PROVE  /\ status[r] = "running" /\ jobOf[r] # None /\ Latest(r) /\ pc[r] \in InEngine
         /\ pc[r] # "rollback" => NoneFailed(r)
  BY DEF OneRun, RecordOf, WithLock, InEngine, InSteps, OrderInv

\* A run between two dumps, or on its way to the rollback.
LEMMA DumpSteps ==
  ASSUME TypeOK, OrderInv, NEW r \in Runs, \A q \in Runs : OneRun(q),
         StartDump(r) \/ DumpOK(r) \/ DumpFails(r) \/ StartForget(r)
  PROVE  OrderInv' /\ \A q \in Runs : OneRun(q)'
<1>p. {"export", "dumping", "rollback", "forgetting"} \subseteq Places
  BY DEF Places, InEngine, InSteps
<1>0. pc[r] \in WithLock \ {"rollback"}
  BY DEF StartDump, DumpOK, DumpFails, StartForget, WithLock
<1>1. /\ status[r] = "running" /\ jobOf[r] # None /\ Latest(r) /\ pc[r] \in InEngine
      /\ NoneFailed(r) /\ OneRun(r)
  BY <1>0, WorkingRun
<1>u. UNCHANGED <<jobOf, status, steps, told, forsaken, pending>>
  BY DEF StartDump, DumpOK, DumpFails, StartForget, recordVars, processVars
<1>l. NoneFailed(r)' /\ Latest(r)' /\ ~Succeeded(r)'
  BY <1>1, <1>u DEF NoneFailed, Latest, Succeeded
<1>g. \A l \in Places : Goto(r, l) => pc'[r] = l /\ \A q \in Runs \ {r} : pc'[q] = pc[q]
  BY GotoFacts
<1>2. ASSUME pc'[r] \in {"export", "dumping", "forgetting", "rollback"} PROVE RecordOf(r)' /\ SkippedOf(r)'
  BY <1>1, <1>2, <1>u, <1>l DEF RecordOf, SkippedOf, InEngine, InSteps
<1>3. CASE (StartDump(r) \/ StartForget(r)) /\ ended[r]
  <2>1. pc'[r] = "rollback" /\ \A q \in Runs \ {r} : pc'[q] = pc[q]
    BY <1>3, <1>p, <1>g DEF StartDump, StartForget
  <2>2. UNCHANGED <<ids, snaps>>
    BY <1>3 DEF StartDump, StartForget, recordVars, processVars, repoVars
  <2>3. DataOf(r)'
    BY <1>1, <1>u, <1>l, <2>1 DEF DataOf, AllMade, BeforeLock
  <2> QED
    BY <1>1, <1>2, <1>u, <2>1, <2>2, <2>3, QuietStep DEF OneRun
<1>4. CASE StartDump(r) /\ ~ended[r]
  <2>1. pc'[r] = "dumping" /\ \A q \in Runs \ {r} : pc'[q] = pc[q]
    BY <1>4, <1>p, <1>g DEF StartDump
  <2>2. UNCHANGED <<ids, snaps>> /\ pc[r] = "export" /\ ids[r] # DumpsOf(jobOf[r])
    BY <1>4 DEF StartDump, recordVars, processVars, repoVars
  <2>3. PICK k \in 0 .. LastDump(jobOf[r]) : ids[r] = 1 .. k
    BY <1>1, <2>2 DEF OneRun, DataOf
  <2>4. LastDump(jobOf[r]) \in Nat /\ DumpsOf(jobOf[r]) = 1 .. LastDump(jobOf[r])
    <3>1. 1 .. 1 = {1}
      OBVIOUS
    <3> QED
      BY <3>1, EngineConstants DEF LastDump, DumpsOf, Dumps
  <2>5. k < LastDump(jobOf[r])
    BY <2>2, <2>3, <2>4
  <2>6. {r} \X ids[r] \subseteq snaps
    BY <1>1, <2>2 DEF OneRun, DataOf
  <2>7. DataOf(r)'
    <3>1. \E n \in 0 .. LastDump(jobOf'[r]) : ids'[r] = 1 .. n /\ (pc'[r] = "dumping" => n < LastDump(jobOf'[r]))
      BY <2>2, <2>3, <2>5, <1>u
    <3> QED
      BY <1>1, <1>u, <1>l, <2>1, <2>2, <2>6, <3>1 DEF DataOf, AllMade, BeforeLock, LastDump
  <2> QED
    BY <1>1, <1>2, <1>u, <2>1, <2>2, <2>7, QuietStep DEF OneRun
<1>5. CASE StartForget(r) /\ ~ended[r]
  <2>1. pc'[r] = "forgetting" /\ \A q \in Runs \ {r} : pc'[q] = pc[q]
    BY <1>5, <1>p, <1>g DEF StartForget
  <2>2. UNCHANGED <<ids, snaps>> /\ pc[r] = "forget"
    BY <1>5 DEF StartForget, recordVars, processVars, repoVars
  <2>3. ids[r] = DumpsOf(jobOf[r]) /\ {r} \X ids[r] \subseteq snaps
    BY <1>1, <2>2 DEF OneRun, DataOf, AllMade
  <2>4. DataOf(r)'
    BY <1>1, <1>u, <1>l, <2>1, <2>2, <2>3 DEF DataOf, AllMade, BeforeLock, DumpsOf
  <2> QED
    BY <1>1, <1>2, <1>u, <2>1, <2>2, <2>4, QuietStep DEF OneRun
<1>6. CASE DumpOK(r)
  <2>1. pc'[r] = "export" /\ \A q \in Runs \ {r} : pc'[q] = pc[q]
    BY <1>6, <1>p, <1>g DEF DumpOK
  <2>2. /\ pc[r] = "dumping" /\ snaps' = snaps \cup {<<r, DumpNow(r)>>}
        /\ ids'[r] = ids[r] \cup {DumpNow(r)} /\ \A q \in Runs \ {r} : ids'[q] = ids[q]
    BY <1>6 DEF DumpOK, TypeOK
  <2>3. DumpNow(r) \in Dumps /\ \E k \in 1 .. LastDump(jobOf[r]) : ids'[r] = 1 .. k
    BY <2>2, DumpNowFacts DEF DataInv, OneRun
  <2>4. {r} \X ids[r] \subseteq snaps
    BY <1>1, <2>2 DEF OneRun, DataOf
  <2>5. DataOf(r)'
    <3>1. LastDump(jobOf[r]) \in Nat
      BY EngineConstants DEF LastDump
    <3>2. \E k \in 0 .. LastDump(jobOf'[r]) : ids'[r] = 1 .. k /\ (pc'[r] = "dumping" => k < LastDump(jobOf'[r]))
      BY <1>u, <2>1, <2>3, <3>1
    <3>3. {r} \X ids'[r] \subseteq snaps'
      BY <2>2, <2>4
    <3> QED
      BY <1>1, <1>u, <1>l, <2>1, <3>2, <3>3 DEF DataOf, AllMade, BeforeLock, LastDump
  <2>6. RecordFrame(r) /\ SnapsFrame(r)
    BY <1>1, <1>u, <2>1, <2>2, <2>3 DEF RecordFrame, SnapsFrame, Tagged
  <2> QED
    BY <1>1, <1>2, <1>u, <2>1, <2>5, <2>6, OneRunSteps DEF OneRun
<1>7. CASE DumpFails(r)
  <2>1. pc'[r] = "rollback" /\ \A q \in Runs \ {r} : pc'[q] = pc[q]
    BY <1>7, <1>p, <1>g DEF DumpFails
  <2>2. pc[r] = "dumping" /\ snaps' \in {snaps, snaps \cup {<<r, DumpNow(r)>>}} /\ ids' = ids
    BY <1>7 DEF DumpFails, recordVars
  <2>3. DumpNow(r) \in Dumps
    BY <2>2, DumpNowFacts DEF DataInv, OneRun
  <2>5. DataOf(r)'
    BY <1>1, <1>u, <1>l, <2>1 DEF DataOf, AllMade, BeforeLock
  <2>6. RecordFrame(r) /\ SnapsFrame(r)
    BY <1>1, <1>u, <2>1, <2>2, <2>3 DEF RecordFrame, SnapsFrame, Tagged
  <2> QED
    BY <1>1, <1>2, <1>u, <2>1, <2>5, <2>6, OneRunSteps DEF OneRun
<1> QED
  BY <1>3, <1>4, <1>5, <1>6, <1>7

\* The deletion of superseded snapshots spares those of the runs that must keep theirs.
LEMMA ForgetFrame ==
  ASSUME TypeOK, OrderInv, NEW r \in Runs, jobOf[r] # None, NEW gone \in SUBSET Expired(jobOf[r]),
         snaps' = snaps \ gone
  PROVE  SnapsFrame(r) /\ (Latest(r) => snaps \cap Tagged(r) \subseteq snaps')
<1>1. jobOf[r] \in Jobs
  BY DEF TypeOK
<1>2. \A q \in Runs : Latest(q) => gone \cap Tagged(q) = {}
  BY <1>1, ForgetSpares
<1> QED
  BY <1>2 DEF SnapsFrame

\* The forget of a run: it goes on with all its dumps, or to the rollback.
LEMMA ForgetSteps ==
  ASSUME TypeOK, OrderInv, NEW r \in Runs, \A q \in Runs : OneRun(q),
         \/ ExportOK(r) \/ ForgetOK(r) \/ ForgetLocked(r) \/ ForgetFails(r) \/ ForgetKilled(r)
         \/ Defer(r) \/ Refreshed(r)
  PROVE  OrderInv' /\ \A q \in Runs : OneRun(q)'
<1>p. {"forget", "refresh", "defer", "rollback", "finish"} \subseteq Places
  BY DEF Places, InEngine, InSteps
<1>s. /\ "forget" \in Steps /\ {"success", "warning", "skipped"} \subseteq StepStates
  BY DEF Steps, StepStates
<1>0. pc[r] \in WithLock \ {"rollback"}
  BY DEF ExportOK, ForgetOK, ForgetLocked, ForgetFails, ForgetKilled, Defer, Refreshed, WithLock
<1>1. /\ status[r] = "running" /\ jobOf[r] # None /\ Latest(r) /\ pc[r] \in InEngine
      /\ NoneFailed(r) /\ OneRun(r)
  BY <1>0, WorkingRun
<1>u. UNCHANGED <<jobOf, status, ids>>
  BY DEF ExportOK, ForgetOK, ForgetLocked, ForgetFails, ForgetKilled, Defer, Refreshed, recordVars
<1>l. Latest(r)' /\ ~Succeeded(r)'
  BY <1>1, <1>u DEF Latest, Succeeded
<1>m. pc[r] # "dumping"
  BY DEF ExportOK, ForgetOK, ForgetLocked, ForgetFails, ForgetKilled, Defer, Refreshed
<1>2. ids[r] = DumpsOf(jobOf[r]) /\ {r} \X ids[r] \subseteq snaps
  <2>1. CASE pc[r] = "export"
    BY <1>1, <2>1 DEF ExportOK, ForgetOK, ForgetLocked, ForgetFails, ForgetKilled, Defer, Refreshed,
                      OneRun, DataOf
  <2>2. CASE pc[r] # "export"
    BY <1>0, <1>1, <1>m, <2>2 DEF WithLock, OneRun, DataOf, AllMade
  <2> QED
    BY <2>1, <2>2
<1>g. \A l \in Places : Goto(r, l) => pc'[r] = l /\ \A q \in Runs \ {r} : pc'[q] = pc[q]
  BY GotoFacts
<1>t. {r} \X ids[r] \subseteq Tagged(r)
  BY DEF TypeOK, Tagged
\* Where such a step leads to, and what it must show.
<1>3. ASSUME pc'[r] \in {"forget", "defer", "refresh", "finish"}, NoneFailed(r)',
             pc'[r] \in {"defer", "refresh", "finish"} => steps'[r]["forget"] # "pending",
             snaps \cap Tagged(r) \subseteq snaps',
             pc'[r] \in {"refresh", "finish"} /\ steps'[r]["forget"] = "skipped" =>
               pending'[jobOf[r]] \/ Expired(jobOf[r])' = {} \/ r \in told'
      PROVE  OneRun(r)'
  <2>1. RecordOf(r)'
    BY <1>1, <1>3, <1>u DEF RecordOf, InEngine, InSteps
  <2>2. {r} \X ids[r] \subseteq snaps'
    BY <1>2, <1>3, <1>t
  <2>3. DataOf(r)'
    BY <1>1, <1>2, <1>3, <1>u, <1>l, <2>2 DEF DataOf, BeforeLock, DumpsOf
  <2>4. SkippedOf(r)'
    BY <1>3, <1>u, <1>l DEF SkippedOf
  <2> QED
    BY <2>1, <2>3, <2>4 DEF OneRun
<1>4. CASE ExportOK(r)
  <2>1. PICK v \in {"success", "warning"} : SetSteps(r, "export", v, "forget", "running")
    BY <1>4 DEF ExportOK
  <2>2. /\ steps'[r]["export"] = v /\ steps'[r]["forget"] = "running"
        /\ \A t \in Steps \ {"export", "forget"} : steps'[r][t] = steps[r][t]
        /\ \A q \in Runs \ {r} : steps'[q] = steps[q]
    BY <1>s, <2>1, StepsFacts
  <2>3. NoneFailed(r)'
    BY <1>1, <2>2 DEF NoneFailed
  <2>4. pc'[r] = "forget" /\ \A q \in Runs \ {r} : pc'[q] = pc[q]
    BY <1>4, <1>p, <1>g DEF ExportOK
  <2>5. UNCHANGED <<told, forsaken, pending, snaps>>
    BY <1>4 DEF ExportOK, processVars, repoVars
  <2> QED
    BY <1>1, <1>3, <1>u, <2>2, <2>3, <2>4, <2>5, QuietStep
<1>5. CASE ForgetOK(r) \/ ForgetFails(r)
  <2>1. PICK v \in {"success", "warning"} : SetStep(r, "forget", v)
    BY <1>5 DEF ForgetOK, ForgetFails
  <2>2. /\ steps'[r]["forget"] = v /\ \A t \in Steps \ {"forget"} : steps'[r][t] = steps[r][t]
        /\ \A q \in Runs \ {r} : steps'[q] = steps[q]
    BY <1>s, <2>1, StepFacts
  <2>3. NoneFailed(r)'
    BY <1>1, <2>1, <2>2 DEF NoneFailed
  <2>4. pc'[r] = "refresh" /\ \A q \in Runs \ {r} : pc'[q] = pc[q]
    BY <1>5, <1>p, <1>g DEF ForgetOK, ForgetFails
  <2>5. UNCHANGED <<told, forsaken, pending>> /\ \E gone \in SUBSET Expired(jobOf[r]) : snaps' = snaps \ gone
    BY <1>5 DEF ForgetOK, ForgetFails, processVars
  <2>6. SnapsFrame(r) /\ snaps \cap Tagged(r) \subseteq snaps'
    BY <1>1, <2>5, ForgetFrame
  <2>7. RecordFrame(r)
    BY <1>u, <2>2, <2>4, <2>5 DEF RecordFrame
  <2>8. OneRun(r)'
    BY <1>3, <2>1, <2>2, <2>3, <2>4, <2>6
  <2> QED
    BY <1>1, <1>u, <2>6, <2>7, <2>8, OneRunSteps
<1>6. CASE ForgetLocked(r)
  <2>2. /\ steps'[r]["forget"] = "skipped"
        /\ \A t \in Steps \ {"forget"} : steps'[r][t] = steps[r][t]
        /\ \A q \in Runs \ {r} : steps'[q] = steps[q]
    BY <1>6, <1>s, StepFacts DEF ForgetLocked
  <2>3. NoneFailed(r)'
    BY <1>1, <2>2 DEF NoneFailed
  <2>4. pc'[r] = "defer" /\ \A q \in Runs \ {r} : pc'[q] = pc[q]
    BY <1>6, <1>p, <1>g DEF ForgetLocked
  <2>5. UNCHANGED <<told, forsaken, pending, snaps>>
    BY <1>6 DEF ForgetLocked, processVars, repoVars
  <2> QED
    BY <1>1, <1>3, <1>u, <2>2, <2>3, <2>4, <2>5, QuietStep
<1>7. CASE ForgetKilled(r)
  <2>1. pc'[r] = "rollback" /\ \A q \in Runs \ {r} : pc'[q] = pc[q]
    BY <1>7, <1>p, <1>g DEF ForgetKilled
  <2>2. UNCHANGED <<steps, told, forsaken, pending>> /\ \E gone \in SUBSET Expired(jobOf[r]) : snaps' = snaps \ gone
    BY <1>7 DEF ForgetKilled, recordVars, processVars
  <2>3. RecordFrame(r) /\ SnapsFrame(r)
    BY <1>1, <1>u, <2>1, <2>2, ForgetFrame DEF RecordFrame
  <2>4. RecordOf(r)' /\ DataOf(r)' /\ SkippedOf(r)'
    BY <1>1, <1>u, <1>l, <2>1, <2>2
    DEF RecordOf, DataOf, SkippedOf, AllMade, BeforeLock, InEngine, InSteps
  <2> QED
    BY <1>1, <1>u, <2>1, <2>3, <2>4, OneRunSteps DEF OneRun
<1>8. CASE Defer(r)
  <2>1. pc'[r] = "refresh" /\ \A q \in Runs \ {r} : pc'[q] = pc[q]
    BY <1>8, <1>p, <1>g DEF Defer
  <2>2. /\ UNCHANGED <<steps, snaps>> /\ told \subseteq told' /\ forsaken \subseteq forsaken' /\ (ended[r] => r \in told')
    BY <1>8 DEF Defer, processVars, repoVars
  <2>3. (\A j \in Jobs : pending[j] => pending'[j]) /\ (~ended[r] => pending'[jobOf[r]])
    <3>1. pending \in [Jobs -> BOOLEAN] /\ jobOf[r] \in Jobs
      BY <1>1 DEF TypeOK
    <3>2. pending' = [pending EXCEPT ![jobOf[r]] = @ \/ ~ended[r]]
      BY <1>8 DEF Defer
    <3> QED
      BY <3>1, <3>2
  <2>4. steps[r]["forget"] # "pending" /\ NoneFailed(r)'
    BY <1>1, <1>8, <2>2 DEF Defer, NoneFailed, OneRun, RecordOf
  <2>5. RecordFrame(r) /\ SnapsFrame(r)
    BY <1>u, <2>1, <2>2, <2>3 DEF RecordFrame, SnapsFrame
  <2>6. OneRun(r)'
    BY <1>3, <2>1, <2>2, <2>3, <2>4
  <2> QED
    BY <1>1, <1>u, <2>5, <2>6, OneRunSteps
<1>9. CASE Refreshed(r)
  <2>1. pc[r] = "refresh" /\ UNCHANGED <<steps, told, forsaken, pending, snaps>>
    BY <1>9 DEF Refreshed, LeaveSteps, recordVars, repoVars
  <2>2. pc'[r] = "finish" /\ \A q \in Runs \ {r} : pc'[q] = pc[q]
    BY <1>9, <1>p, <1>g DEF Refreshed
  <2>3. NoneFailed(r)' /\ Expired(jobOf[r])' = Expired(jobOf[r])
    BY <1>1, <1>u, <2>1 DEF NoneFailed, Expired
  <2>4. steps[r]["forget"] # "pending"
    BY <1>1, <2>1 DEF OneRun, RecordOf
  <2>5. steps[r]["forget"] = "skipped" => pending[jobOf[r]] \/ Expired(jobOf[r]) = {} \/ r \in told
    BY <1>1, <2>1 DEF OneRun, SkippedOf
  <2>6. OneRun(r)'
    BY <1>3, <2>1, <2>2, <2>3, <2>4, <2>5
  <2> QED
    BY <1>1, <1>u, <2>1, <2>2, <2>6, QuietStep
<1> QED
  BY <1>4, <1>5, <1>6, <1>7, <1>8, <1>9

\* The end of a run: the rollback, the result and the notification.
LEMMA EndSteps ==
  ASSUME TypeOK, OrderInv, NEW r \in Runs, \A q \in Runs : OneRun(q),
         Rollback(r) \/ Finish(r) \/ Notified(r)
  PROVE  OrderInv' /\ \A q \in Runs : OneRun(q)'
<1>p. {"notify", "none"} \subseteq Places
  BY DEF Places, InEngine, InSteps
<1>0. OneRun(r) /\ pc[r] \in InEngine /\ Latest(r) /\ UNCHANGED jobOf
  BY DEF Rollback, Finish, Notified, InEngine, InSteps, OrderInv
<1>1. jobOf[r] # None /\ Latest(r)' /\ (Expired(jobOf[r])' = Expired(jobOf[r]) \/ snaps' # snaps)
  BY <1>0 DEF Latest, Expired
<1>2. CASE Rollback(r)
  <2>1. \E s \in Steps : Failed(r, s)
    BY <1>2 DEF Rollback, Steps
  <2>2. /\ pc'[r] = "finish" /\ ~NoneFailed(r)'
        /\ \A q \in Runs \ {r} : steps'[q] = steps[q] /\ pc'[q] = pc[q]
    BY <2>1, FailedFacts DEF NoneFailed
  <2>3. /\ status[r] = "running" /\ UNCHANGED <<status, pending>>
        /\ \A q \in Runs \ {r} : ids'[q] = ids[q]
    BY <1>0, <1>2 DEF Rollback, OneRun, RecordOf, InEngine, InSteps, TypeOK
  <2>4. /\ snaps' \subseteq snaps /\ snaps \ snaps' \subseteq Tagged(r)
        /\ told \subseteq told' /\ forsaken \subseteq forsaken' /\ (snaps' \cap Tagged(r) = {} \/ r \in told')
    BY <1>2, LeftoverFacts DEF Rollback, LeaveSteps
  <2>5. RecordFrame(r) /\ SnapsFrame(r)
    BY <2>2, <2>3, <2>4 DEF RecordFrame, SnapsFrame, Tagged
  <2>6. RecordOf(r)'
    BY <1>0, <1>1, <2>2, <2>3 DEF RecordOf, InEngine, InSteps
  <2>7. Clean(r)'
    BY <2>4 DEF Clean, Tagged
  <2>8. DataOf(r)' /\ SkippedOf(r)'
    BY <1>0, <1>1, <2>2, <2>3, <2>7 DEF DataOf, SkippedOf, AllMade, Succeeded, BeforeLock
  <2> QED
    BY <1>0, <2>5, <2>6, <2>8, OneRunSteps DEF OneRun
<1>3. CASE Finish(r)
  <2>1. /\ pc[r] = "finish" /\ status'[r] = Outcome(r)
        /\ \A q \in Runs \ {r} : status'[q] = status[q]
        /\ UNCHANGED <<ids, told, forsaken, pending, snaps>>
    BY <1>3 DEF Finish, TypeOK, processVars, repoVars
  <2>2. pc'[r] = "notify" /\ \A q \in Runs \ {r} : pc'[q] = pc[q]
    BY <1>3, <1>p, GotoFacts DEF Finish
  <2>3. /\ steps'[r] = [s \in Steps |-> IF s = "notify" THEN "running"
                             ELSE IF steps[r][s] = "pending" THEN "skipped" ELSE steps[r][s]]
        /\ \A q \in Runs \ {r} : steps'[q] = steps[q]
    BY <1>3 DEF Finish, TypeOK
  <2>4. steps'[r]["notify"] = "running"
    BY <2>3 DEF Steps
  <2>5. Outcome(r) = "failed" <=> ~NoneFailed(r)
    BY DEF Outcome, NoneFailed
  <2>6. Succeeded(r)' <=> NoneFailed(r)
    BY <2>1, <2>5 DEF Succeeded, Outcome
  <2>7. steps'[r]["forget"] = "skipped" /\ NoneFailed(r) => steps[r]["forget"] = "skipped"
    BY <1>0, <2>1, <2>3 DEF OneRun, RecordOf, Steps
  <2>8. RecordOf(r)'
    BY <1>0, <1>1, <2>2, <2>4 DEF RecordOf, InEngine, InSteps
  <2>9. DataOf(r)'
    <3>1. AllMade(r)' => AllMade(r)
      BY <2>1, <2>2, <2>6 DEF AllMade
    <3>2. status'[r] = "failed" => ~NoneFailed(r)
      BY <2>1, <2>5
    <3>3. Clean(r) => Clean(r)'
      BY <2>1 DEF Clean, Tagged
    <3> QED
      BY <1>0, <1>1, <2>1, <2>2, <3>1, <3>2, <3>3 DEF OneRun, DataOf, BeforeLock, DumpsOf
  <2>10. SkippedOf(r)'
    BY <1>0, <1>1, <2>1, <2>2, <2>6, <2>7 DEF OneRun, SkippedOf
  <2> QED
    BY <1>0, <2>1, <2>2, <2>3, <2>8, <2>9, <2>10, QuietStep DEF OneRun
<1>4. CASE Notified(r)
  <2>1. /\ pc[r] = "notify" /\ UNCHANGED <<status, ids, told, forsaken, pending, snaps>>
    BY <1>4 DEF Notified, processVars, repoVars
  <2>2. pc'[r] = "none" /\ \A q \in Runs \ {r} : pc'[q] = pc[q]
    BY <1>4, <1>p, GotoFacts DEF Notified
  <2>3. /\ steps'[r]["notify"] = "settled" /\ steps'[r]["forget"] = steps[r]["forget"]
        /\ \A q \in Runs \ {r} : steps'[q] = steps[q]
    BY <1>4, StepFacts DEF Notified, Steps, StepStates
  <2>4. RecordOf(r)'
    BY <1>1, <1>0, <2>2 DEF RecordOf, InEngine, InSteps
  <2>5. Succeeded(r)' <=> Succeeded(r)
    BY <2>1 DEF Succeeded
  <2>6. DataOf(r)'
    <3>1. AllMade(r)' => AllMade(r)
      BY <2>2, <2>5 DEF AllMade
    <3>2. Clean(r) => Clean(r)'
      BY <2>1 DEF Clean, Tagged
    <3> QED
      BY <1>0, <1>1, <2>1, <2>2, <3>1, <3>2 DEF OneRun, DataOf, BeforeLock, DumpsOf
  <2>7. SkippedOf(r)'
    BY <1>0, <1>1, <2>1, <2>2, <2>3, <2>5 DEF OneRun, SkippedOf
  <2> QED
    BY <1>0, <2>1, <2>2, <2>3, <2>4, <2>6, <2>7, QuietStep DEF OneRun
<1> QED
  BY <1>2, <1>3, <1>4

\* Recover's handling of a run that a crash interrupted.
LEMMA RecoverySteps ==
  ASSUME TypeOK, OrderInv, RecoveringInv, NEW r \in Runs, \A q \in Runs : OneRun(q),
         RecoverRun(r) \/ Discard(r) \/ NotifyInterrupted(r)
  PROVE  OrderInv' /\ \A q \in Runs : OneRun(q)'
<1>p. {"discard", "discarded", "none"} \subseteq Places
  BY DEF Places
<1>0. OneRun(r) /\ UNCHANGED jobOf /\ (Latest(r)' <=> Latest(r))
  BY DEF RecoverRun, Discard, NotifyInterrupted, Latest
<1>1. jobOf[r] # None /\ pc[r] \notin BeforeLock
  BY <1>0 DEF RecoverRun, Discard, NotifyInterrupted, OneRun, RecordOf, RecoveringInv, BeforeLock
<1>g. \A l \in Places : Goto(r, l) => pc'[r] = l /\ \A q \in Runs \ {r} : pc'[q] = pc[q]
  BY GotoFacts
<1>2. CASE RecoverRun(r)
  <2>1. /\ status[r] = "running" /\ status'[r] = "failed"
        /\ \A q \in Runs \ {r} : status'[q] = status[q]
        /\ UNCHANGED <<ids, told, forsaken, pending, snaps>>
    BY <1>2 DEF RecoverRun, TypeOK, processVars, repoVars
  <2>2. pc'[r] = "discard" /\ \A q \in Runs \ {r} : pc'[q] = pc[q]
    BY <1>2, <1>p, <1>g DEF RecoverRun
  <2>3. steps'[r]["notify"] = "running" /\ \A q \in Runs \ {r} : steps'[q] = steps[q]
    <3> DEFINE new == [s \in Steps |-> IF s = "notify" THEN "running"
                                       ELSE IF steps[r][s] = "running" THEN "failed"
                                       ELSE IF steps[r][s] = "pending" THEN "skipped" ELSE steps[r][s]]
    <3>1. new["notify"] = "running"
      BY DEF Steps
    <3>2. steps' = [steps EXCEPT ![r] = new]
      BY <1>2 DEF RecoverRun, TypeOK
    <3> HIDE DEF new
    <3> QED
      BY <3>1, <3>2 DEF TypeOK
  <2>4. RecordOf(r)' /\ DataOf(r)' /\ SkippedOf(r)'
    BY <1>0, <1>1, <2>1, <2>2, <2>3
    DEF RecordOf, DataOf, SkippedOf, AllMade, Succeeded, BeforeLock, InEngine, InSteps
  <2>5. pc'[r] \notin InEngine
    BY <2>2 DEF InEngine, InSteps
  <2> QED
    BY <1>0, <2>1, <2>2, <2>3, <2>4, <2>5, QuietStep DEF OneRun
<1>3. CASE Discard(r)
  <2>1. pc[r] = "discard" /\ UNCHANGED <<status, steps, ids, pending>>
    BY <1>3 DEF Discard
  <2>2. pc'[r] = "discarded" /\ \A q \in Runs \ {r} : pc'[q] = pc[q]
    BY <1>3, <1>p, <1>g DEF Discard
  <2>3. /\ snaps' \subseteq snaps /\ snaps \ snaps' \subseteq Tagged(r)
        /\ told \subseteq told' /\ forsaken \subseteq forsaken' /\ (snaps' \cap Tagged(r) = {} \/ r \in told')
    BY <1>3, LeftoverFacts DEF Discard, processVars
  <2>4. RecordFrame(r) /\ SnapsFrame(r)
    BY <2>1, <2>2, <2>3 DEF RecordFrame, SnapsFrame, Tagged
  <2>5. status[r] = "failed"
    BY <1>0, <2>1 DEF OneRun, RecordOf
  <2>6. RecordOf(r)' /\ SkippedOf(r)'
    BY <1>0, <1>1, <2>1, <2>2, <2>5 DEF RecordOf, SkippedOf, Succeeded, InEngine, InSteps
  <2>7. DataOf(r)'
    <3>1. Clean(r)'
      BY <2>3 DEF Clean, Tagged
    <3> QED
      BY <1>0, <1>1, <2>1, <2>2, <2>5, <3>1 DEF DataOf, AllMade, Succeeded, BeforeLock
  <2>8. pc'[r] \notin InEngine
    BY <2>2 DEF InEngine, InSteps
  <2> QED
    BY <1>0, <2>4, <2>6, <2>7, <2>8, OneRunSteps DEF OneRun
<1>4. CASE NotifyInterrupted(r)
  <2>1. /\ pc[r] = "discarded" /\ UNCHANGED <<status, told, forsaken, pending, snaps>>
        /\ \A q \in Runs \ {r} : ids'[q] = ids[q]
    BY <1>4 DEF NotifyInterrupted, TypeOK, processVars, repoVars
  <2>2. pc'[r] = "none" /\ \A q \in Runs \ {r} : pc'[q] = pc[q]
    BY <1>4, <1>p, <1>g DEF NotifyInterrupted
  <2>3. \A q \in Runs \ {r} : steps'[q] = steps[q]
    BY <1>4, StepFacts DEF NotifyInterrupted, Steps, StepStates
  <2>4. status[r] = "failed" /\ Clean(r)
    BY <1>0, <2>1 DEF OneRun, RecordOf, DataOf
  <2>5. RecordFrame(r) /\ SnapsFrame(r)
    BY <2>1, <2>2, <2>3 DEF RecordFrame, SnapsFrame
  <2>6. RecordOf(r)' /\ SkippedOf(r)'
    BY <1>0, <1>1, <2>1, <2>2, <2>4 DEF RecordOf, SkippedOf, Succeeded, InEngine, InSteps
  <2>7. DataOf(r)'
    <3>1. Clean(r)'
      BY <2>1, <2>4 DEF Clean, Tagged
    <3> QED
      BY <1>0, <1>1, <2>1, <2>2, <2>4, <3>1 DEF DataOf, AllMade, Succeeded, BeforeLock
  <2>8. pc'[r] \notin InEngine
    BY <2>2 DEF InEngine, InSteps
  <2> QED
    BY <1>0, <2>5, <2>6, <2>7, <2>8, OneRunSteps DEF OneRun
<1> QED
  BY <1>2, <1>3, <1>4

\* A new run.
LEMMA TriggerStep ==
  ASSUME TypeOK, OrderInv, NEW r \in Runs, \A q \in Runs : OneRun(q),
         NEW j \in Jobs, Trigger(j, r)
  PROVE  OrderInv' /\ \A q \in Runs : OneRun(q)'
<1>1. /\ OrderInv'
      /\ jobOf[r] = None /\ jobOf'[r] = j /\ \A q \in Runs \ {r} : jobOf'[q] = jobOf[q]
      /\ pc'[r] = "queued" /\ \A q \in Runs \ {r} : pc'[q] = pc[q]
      /\ \A q \in Runs \ {r} : Latest(q)' => Latest(q) /\ jobOf[q] # j
  BY OrderOfTrigger
<1>2. UNCHANGED <<status, steps, ids, told, forsaken, pending, snaps>>
  BY DEF Trigger, processVars, repoVars
<1>3. /\ status[r] = "running" /\ NoneFailed(r) /\ ids[r] = {} /\ snaps \cap Tagged(r) = {}
  BY <1>1 DEF OneRun, RecordOf, DataOf
<1>4. OneRun(r)'
  <2>1. j # None
    BY EngineConstants
  <2>2. NoneFailed(r)' /\ (snaps \cap Tagged(r))' = {}
    BY <1>2, <1>3 DEF NoneFailed, Tagged
  <2>3. RecordOf(r)'
    BY <1>1, <1>2, <1>3, <2>1, <2>2 DEF RecordOf
  <2>4. DataOf(r)' /\ SkippedOf(r)'
    BY <1>1, <1>2, <1>3, <2>1, <2>2 DEF DataOf, SkippedOf, AllMade, Succeeded
  <2> QED
    BY <2>3, <2>4 DEF OneRun
<1>5. ASSUME NEW q \in Runs \ {r} PROVE OneRun(q)'
  <2>1. RecordFrame(r) /\ SnapsFrame(r)
    BY <1>1, <1>2 DEF RecordFrame, SnapsFrame
  <2>2. CASE Latest(q)'
    <3>1. jobOf[q] # j /\ Latest(q) /\ jobOf'[q] = jobOf[q]
      BY <1>1, <2>2
    <3> DEFINE i == jobOf[q]
    <3>2. i # j /\ i # None
      BY <3>1 DEF Latest
    <3> HIDE DEF i
    <3>3. \A s \in snaps : s[1] \in Runs
      BY DEF TypeOK
    <3>4. {s \in snaps' : /\ jobOf'[s[1]] = i
                 /\ \E t \in snaps' : jobOf'[t[1]] = i /\ t[2] = s[2] /\ t[1] > s[1]} \subseteq Expired(i)
      BY <1>1, <1>2, <3>2, <3>3 DEF Expired
    <3>5. Expired(jobOf[q])' \subseteq Expired(jobOf[q])
      BY <3>1, <3>4 DEF Expired, i
    <3> QED
      BY <1>1, <2>1, <3>5, OthersKept
  <2>3. CASE ~Latest(q)'
    BY <1>1, <1>2, <2>3
    DEF OneRun, RecordOf, DataOf, SkippedOf, AllMade, Succeeded, NoneFailed, Clean, Tagged,
        LastDump, DumpsOf
  <2> QED
    BY <2>2, <2>3
<1> QED
  BY <1>1, <1>4, <1>5

\* A stop or a timeout marks the context only.
LEMMA NothingStep ==
  ASSUME OrderInv, \A q \in Runs : OneRun(q),
         UNCHANGED <<jobOf, pc, status, steps, ids, told, forsaken, pending, snaps>>
  PROVE  OrderInv' /\ \A q \in Runs : OneRun(q)'
<1>1. \A q \in Runs : Latest(q)' <=> Latest(q)
  BY DEF Latest
<1>2. \A q \in Runs : /\ (NoneFailed(q)' <=> NoneFailed(q)) /\ (AllMade(q)' <=> AllMade(q))
                      /\ (Succeeded(q)' <=> Succeeded(q)) /\ (Clean(q)' <=> Clean(q))
  BY DEF NoneFailed, AllMade, Succeeded, Clean, Tagged
<1>3. \A q \in Runs : RecordOf(q)'
  BY <1>2 DEF OneRun, RecordOf
<1>4. \A q \in Runs : DataOf(q)'
  BY <1>1, <1>2 DEF OneRun, DataOf, LastDump, DumpsOf, Tagged
<1>5. \A q \in Runs : SkippedOf(q)'
  BY <1>1, <1>2 DEF OneRun, SkippedOf, Expired
<1> QED
  BY <1>1, <1>3, <1>4, <1>5 DEF OneRun, OrderInv

\* A cleanup pass deletes superseded snapshots, and removes a mark when nothing expired is left.
LEMMA CleanStep ==
  ASSUME TypeOK, OrderInv, \A q \in Runs : OneRun(q), NEW j \in Jobs, CleanJob(j)
  PROVE  OrderInv' /\ \A q \in Runs : OneRun(q)'
<1>1. UNCHANGED <<jobOf, pc, status, steps, ids, told, forsaken>>
  BY DEF CleanJob, recordVars
<1>2. PICK gone \in SUBSET Expired(j) : snaps' = snaps \ gone
  BY DEF CleanJob
<1>3. (\A i \in Jobs : pending[i] /\ ~pending'[i] => Expired(i)' = {})
  <2>1. CASE snaps' = snaps \ Expired(j) /\ pending' = [pending EXCEPT ![j] = FALSE]
    <3>1. Expired(j)' = {}
      BY <1>1, <2>1, ForgottenAll
    <3>2. \A i \in Jobs \ {j} : pending'[i] = pending[i]
      BY <2>1 DEF TypeOK
    <3> QED
      BY <3>1, <3>2
  <2>2. CASE UNCHANGED pending
    BY <2>2
  <2> QED
    BY <2>1, <2>2 DEF CleanJob
<1>4. \A q \in Runs : Latest(q)' <=> Latest(q)
  BY <1>1 DEF Latest
<1>5. \A q \in Runs : Latest(q) => snaps \cap Tagged(q) \subseteq snaps'
  BY <1>2, ForgetSpares
<1>6. \A q \in Runs : /\ (NoneFailed(q)' <=> NoneFailed(q)) /\ (AllMade(q)' <=> AllMade(q))
                      /\ (Succeeded(q)' <=> Succeeded(q)) /\ (Clean(q) => Clean(q)')
  BY <1>1, <1>2 DEF NoneFailed, AllMade, Succeeded, Clean, Tagged
<1>7. ASSUME NEW q \in Runs PROVE OneRun(q)'
  <2>1. RecordOf(q)'
    BY <1>1, <1>6 DEF OneRun, RecordOf
  <2>2. {q} \X ids[q] \subseteq Tagged(q)
    BY DEF TypeOK, Tagged
  <2>3. Latest(q) /\ {q} \X ids[q] \subseteq snaps => {q} \X ids[q] \subseteq snaps'
    BY <1>5, <2>2
  <2>4. snaps \cap Tagged(q) = {} => (snaps \cap Tagged(q))' = {}
    BY <1>2 DEF Tagged
  <2>5. DataOf(q)'
    BY <1>1, <1>4, <1>6, <2>3, <2>4 DEF OneRun, DataOf, LastDump, DumpsOf
  <2>6. SkippedOf(q)'
    <3>1. SUFFICES ASSUME Latest(q)' PROVE SkippedOf(q)'
      BY DEF SkippedOf
    <3>2. jobOf[q] \in Jobs /\ Latest(q) /\ jobOf' = jobOf
      BY <1>1, <1>4, <3>1 DEF Latest, TypeOK
    <3> DEFINE i == jobOf[q]
    <3>3. i \in Jobs /\ Expired(jobOf[q]) = Expired(i)
      BY <3>2
    <3> HIDE DEF i
    <3>4. {s \in snaps' : /\ jobOf'[s[1]] = i
                 /\ \E t \in snaps' : jobOf'[t[1]] = i /\ t[2] = s[2] /\ t[1] > s[1]} \subseteq Expired(i)
      BY <1>1, <1>2 DEF Expired
    <3>5. Expired(jobOf[q])' \subseteq Expired(jobOf[q])
      BY <3>2, <3>4 DEF Expired, i
    <3>6. pending[jobOf[q]] => pending'[jobOf[q]] \/ Expired(jobOf[q])' = {}
      BY <1>3, <3>2 DEF Expired
    <3> QED
      BY <1>1, <1>4, <1>6, <3>2, <3>5, <3>6 DEF OneRun, SkippedOf
  <2> QED
    BY <2>1, <2>5, <2>6 DEF OneRun
<1> QED
  BY <1>1, <1>4, <1>7, OrderKept

\* A crash: whatever the commands under way had written or deleted by then, it belongs to
\* runs without a result, or is superseded.
LEMMA CrashStep ==
  ASSUME TypeOK, OrderInv, \A q \in Runs : OneRun(q), Crash
  PROVE  OrderInv' /\ \A q \in Runs : OneRun(q)'
<1> DEFINE writing == {r \in Runs : pc[r] = "dumping"}
           forgetting == {r \in Runs : pc[r] = "forgetting"}
           deleting == {r \in Runs : pc[r] \in {"rollback", "discard"}}
<1>1. /\ UNCHANGED <<jobOf, status, steps, ids, pending>>
      /\ told' = {r \in told : pc[r] # "discarded"} /\ pc' = [r \in Runs |-> "none"]
      /\ forsaken' = forsaken \cup {r \in Runs : pc[r] \in {"discard", "discarded"}}
  BY DEF Crash
<1>2. PICK made \in SUBSET {<<r, DumpNow(r)>> : r \in writing}, gone \in SUBSET Doomed :
        snaps' = (snaps \ gone) \cup made
  BY DEF Crash
<1>a. \A s \in Doomed : /\ s \in snaps
                       /\ \/ \E r \in forgetting : s \in Expired(jobOf[r])
                          \/ \E r \in deleting : s \in Tagged(r)
                          \/ \E j \in listed : s \in Expired(j)
  BY DEF Doomed
<1> HIDE DEF writing, forgetting, deleting
<1>3. \A r \in writing \cup forgetting : Latest(r) /\ status[r] = "running" /\ jobOf[r] \in Jobs
  BY DEF writing, forgetting, OneRun, RecordOf, InEngine, InSteps, OrderInv, Latest, TypeOK
<1>4. \A r \in deleting : ~Succeeded(r)
  BY DEF deleting, OneRun, RecordOf, InEngine, InSteps, Succeeded
<1>5. writing \subseteq Runs /\ forgetting \subseteq Runs /\ deleting \subseteq Runs /\ listed \subseteq Jobs
  BY DEF writing, forgetting, deleting, TypeOK
<1>6. \A s \in snaps' \ snaps : s[1] \in writing
  BY <1>2
<1>7. \A q \in Runs : Latest(q)' <=> Latest(q)
  BY <1>1 DEF Latest
<1>8. ASSUME NEW q \in Runs PROVE OneRun(q)'
  <2>0. OneRun(q) /\ pc'[q] = "none"
    BY <1>1
  <2>1. RecordOf(q)'
    BY <1>1, <2>0 DEF OneRun, RecordOf, NoneFailed, InEngine, InSteps
  <2>2. Succeeded(q)' <=> Succeeded(q)
    BY <1>1 DEF Succeeded
  <2>3. q \notin writing => (snaps' \cap Tagged(q)) \subseteq snaps
    BY <1>6 DEF Tagged
  <2>4. ASSUME Succeeded(q), Latest(q) PROVE snaps \cap Tagged(q) \subseteq snaps'
    <3>1. \A j \in Jobs : Expired(j) \cap Tagged(q) = {}
      BY <2>4, ForgetSpares
    <3>2. \A r \in deleting : Tagged(r) \cap Tagged(q) = {}
      BY <1>4, <2>4 DEF Tagged
    <3>3. gone \cap Tagged(q) = {}
      BY <1>2, <1>a, <1>3, <1>5, <3>1, <3>2
    <3> QED
      BY <1>2, <3>3
  <2>5. {q} \X ids[q] \subseteq Tagged(q)
    BY DEF TypeOK, Tagged
  <2>6. AllMade(q)' => Succeeded(q) /\ AllMade(q)
    BY <2>0, <2>2 DEF AllMade
  <2>7. jobOf[q] = None => (snaps \cap Tagged(q))' = {}
    BY <1>3, <2>0, <2>3, EngineConstants DEF OneRun, DataOf, Tagged
  <2>8. status[q] = "failed" => Clean(q)'
    <3>1. SUFFICES ASSUME status[q] = "failed", q \notin forsaken' PROVE Clean(q)'
      BY DEF Clean
    <3>2. Clean(q) /\ pc[q] # "discarded" /\ q \notin forsaken
      BY <1>1, <2>0, <3>1 DEF OneRun, DataOf
    <3>3. q \notin writing
      BY <1>3, <3>1
    <3> QED
      BY <1>1, <2>3, <3>2, <3>3 DEF Clean, Tagged
  <2>9. DataOf(q)'
    <3>1. Latest(q)' /\ AllMade(q)' => {q} \X ids[q] \subseteq snaps'
      BY <1>7, <2>0, <2>4, <2>5, <2>6 DEF OneRun, DataOf
    <3> QED
      BY <1>1, <2>0, <2>6, <2>7, <2>8, <3>1 DEF OneRun, DataOf, BeforeLock, DumpsOf
  <2>10. SkippedOf(q)'
    <3>1. SUFFICES ASSUME Latest(q)', Succeeded(q)' PROVE SkippedOf(q)'
      BY <2>0 DEF SkippedOf
    <3>2. jobOf[q] \in Jobs /\ Latest(q) /\ Succeeded(q)
      BY <1>7, <2>2, <3>1 DEF Latest, TypeOK
    <3> DEFINE i == jobOf[q]
    <3>3. \A s \in snaps' \ snaps : jobOf[s[1]] # i
      <4>1. \A r \in writing : r # q
        BY <1>3, <3>2 DEF Succeeded
      <4> QED
        BY <1>3, <1>5, <1>6, <3>2, <4>1, LatestUnique
    <3> HIDE DEF i
    <3>4. {s \in snaps' : /\ jobOf'[s[1]] = i
                 /\ \E t \in snaps' : jobOf'[t[1]] = i /\ t[2] = s[2] /\ t[1] > s[1]} \subseteq Expired(i)
      BY <1>1, <3>3 DEF Expired
    <3>5. Expired(jobOf[q])' \subseteq Expired(jobOf[q])
      BY <1>1, <3>4 DEF Expired, i
    <3>6. pc[q] # "discarded"
      BY <2>0, <3>2 DEF OneRun, RecordOf, Succeeded
    <3> QED
      BY <1>1, <2>0, <3>2, <3>5, <3>6 DEF OneRun, SkippedOf
  <2> QED
    BY <2>1, <2>9, <2>10 DEF OneRun
<1>9. OrderInv'
  BY <1>1, <1>7 DEF OrderInv, InEngine, InSteps
<1> QED
  BY <1>8, <1>9

-----------------------------------------------------------------------------
(* The theorems.                                                           *)

\* All of a run's own parts of the invariant.
LEMMA InvOfRuns == IInv <=> /\ TypeOK /\ ControlInv /\ OrderInv /\ \A q \in Runs : OneRun(q)
  BY DEF IInv, ControlInv, RecordInv, DataInv, SkippedInv, OneRun

LEMMA NextIInv == ASSUME IInv, [Next]_vars PROVE IInv'
<1>1. TypeOK /\ ControlInv /\ OrderInv /\ RecordInv /\ RecoveringInv /\ \A q \in Runs : OneRun(q)
  BY InvOfRuns DEF IInv
<1>2. SUFFICES TypeOK' /\ ControlInv' /\ OrderInv' /\ \A q \in Runs : OneRun(q)'
  BY DEF IInv, ControlInv, RecordInv, DataInv, SkippedInv, OneRun
<1>3. ASSUME NEW r \in Runs, NEW j \in Jobs, Trigger(j, r)
      PROVE  TypeOK' /\ ControlInv' /\ OrderInv' /\ \A q \in Runs : OneRun(q)'
  BY <1>1, <1>3, TypesOfEarlySteps, ControlOfMoves, TriggerStep
<1>4. ASSUME NEW r \in Runs, Stop(r) \/ Timeout(r)
      PROVE  TypeOK' /\ ControlInv' /\ OrderInv' /\ \A q \in Runs : OneRun(q)'
  <2>1. EndContext(r)
    BY <1>4 DEF Stop, Timeout
  <2>2. UNCHANGED <<jobOf, pc, status, steps, ids, told, forsaken, pending, snaps>>
    BY <2>1 DEF EndContext, recordVars, processVars, repoVars
  <2> QED
    BY <1>1, <1>4, <2>1, <2>2, TypesOfEarlySteps, ControlOfOthers, NothingStep
<1>5. ASSUME NEW r \in Runs,
             \/ GetSlot(r) \/ QueueStopped(r) \/ PreflightOK(r) \/ PreflightFails(r)
             \/ TakeLock(r) \/ LockWaitEnds(r)
      PROVE  TypeOK' /\ ControlInv' /\ OrderInv' /\ \A q \in Runs : OneRun(q)'
  BY <1>1, <1>5, TypesOfEarlySteps, ControlOfGetSlot, ControlOfMoves, ControlOfLock, EarlySteps
<1>6. ASSUME NEW r \in Runs, StartDump(r) \/ DumpOK(r) \/ DumpFails(r) \/ StartForget(r)
      PROVE  TypeOK' /\ ControlInv' /\ OrderInv' /\ \A q \in Runs : OneRun(q)'
  BY <1>1, <1>6, TypesOfDumpSteps, ControlOfMoves, DumpSteps
<1>7. ASSUME NEW r \in Runs,
             \/ ExportOK(r) \/ ForgetOK(r) \/ ForgetLocked(r) \/ ForgetFails(r) \/ ForgetKilled(r)
             \/ Defer(r) \/ Refreshed(r)
      PROVE  TypeOK' /\ ControlInv' /\ OrderInv' /\ \A q \in Runs : OneRun(q)'
  BY <1>1, <1>7, TypesOfDumpSteps, TypesOfLateSteps, ControlOfMoves, ControlOfLock, ForgetSteps
<1>8. ASSUME NEW r \in Runs, Rollback(r) \/ Finish(r) \/ Notified(r)
      PROVE  TypeOK' /\ ControlInv' /\ OrderInv' /\ \A q \in Runs : OneRun(q)'
  BY <1>1, <1>8, TypesOfLateSteps, ControlOfMoves, ControlOfLock, EndSteps
<1>9. ASSUME NEW r \in Runs, RecoverRun(r) \/ Discard(r) \/ NotifyInterrupted(r)
      PROVE  TypeOK' /\ ControlInv' /\ OrderInv' /\ \A q \in Runs : OneRun(q)'
  BY <1>1, <1>9, TypesOfLateSteps, ControlOfMoves, RecoverySteps
<1>10. ASSUME NEW j \in Jobs, CleanJob(j)
       PROVE  TypeOK' /\ ControlInv' /\ OrderInv' /\ \A q \in Runs : OneRun(q)'
  BY <1>1, <1>10, TypesOfOtherSteps, ControlOfOthers, CleanStep
<1>11. CASE Crash
  BY <1>1, <1>11, TypesOfOtherSteps, ControlOfOthers, CrashStep
<1>12. CASE Recovered \/ StartCleanup \/ EndCleanup \/ AskMaintenance \/ StartMaintenance \/ EndMaintenance
  <2>1. UNCHANGED <<jobOf, pc, status, steps, ids, told, forsaken, pending, snaps>>
    BY <1>12 DEF Recovered, StartCleanup, EndCleanup, AskMaintenance, StartMaintenance,
                 EndMaintenance, recordVars, processVars, repoVars
  <2> QED
    BY <1>1, <1>12, <2>1, TypesOfOtherSteps, ControlOfOthers, NothingStep
<1>13. CASE UNCHANGED vars
  <2>1. UNCHANGED <<jobOf, status, steps, ids, told, pending, pc, ended, orphans, active, listed,
                    phase, crashes, forsaken, shared, exclusive, queued, snaps, staleLock>>
    BY <1>13 DEF vars, recordVars, processVars, lockVars, processVars, repoVars
  <2> QED
    BY <1>1, <2>1, NothingStep DEF TypeOK, ControlInv, SlotsExact, LockInv, RecoveringInv
<1> QED
  BY <1>3, <1>4, <1>5, <1>6, <1>7, <1>8, <1>9, <1>10, <1>11, <1>12, <1>13 DEF Next, RunStep

LEMMA Invariance == Spec => []IInv
  BY InitIInv, NextIInv, PTL DEF Spec

\* Every way out of a run, errors, stops, timeouts and crashes included, gives its slot
\* back exactly once, for any number of slots and runs (limiter).
THEOREM SlotsCorrect == Spec => []SlotsExact
<1>1. IInv => SlotsExact
  BY DEF IInv
<1> QED
  BY <1>1, Invariance, PTL

\* The variables have their types, and no restic of a run works in the location while
\* maintenance or a cleanup pass has it (engine.go, steps).
THEOREM MaintenanceCorrect == Spec => []AloneDuringMaintenance
<1>1. ASSUME IInv PROVE AloneDuringMaintenance
  <2>1. ASSUME exclusive[Repo] # {}
        PROVE  /\ \A r \in Runs : pc[r] \notin WithLock
               /\ Cardinality(exclusive[Repo]) = 1
    <3>1. {r \in Runs : pc[r] \in WithLock} = {}
      BY <1>1, <2>1 DEF IInv, LockInv
    <3>2. \E p : exclusive[Repo] = {p}
      BY <1>1, <2>1 DEF IInv, LockInv
    <3> QED
      BY <3>1, <3>2, FS_Singleton
  <2> QED
    BY <1>1, <2>1 DEF IInv, AloneDuringMaintenance, WithLock
<1> QED
  BY <1>1, Invariance, PTL

\* A run recorded as successful has a snapshot of every dump, for any number of runs,
\* databases and crashes, until a newer run of its job may supersede them.
THEOREM SuccessCorrect == Spec => []SuccessIsComplete
<1>1. ASSUME IInv PROVE SuccessIsComplete
  BY <1>1 DEF IInv, DataInv, DataOf, AllMade, Succeeded, SuccessIsComplete
<1> QED
  BY <1>1, Invariance, PTL

\* A failed run that is dealt with has left no snapshot, or its log says so (rollback,
\* discardInterrupted), unless the process died while Recover's goroutine had it in hand.
THEOREM LeftoversCorrect == Spec => []NoSilentLeftovers
<1>1. ASSUME IInv PROVE NoSilentLeftovers
  BY <1>1 DEF IInv, DataInv, DataOf, Clean, LeftAlone, NoSilentLeftovers
<1> QED
  BY <1>1, Invariance, PTL

\* A forget that was skipped because of another backup stays marked until it is made up
\* for (deferForget, cleanupJob).
THEOREM DeferredForgetCorrect == Spec => []SkippedForgetIsMarked
<1>1. ASSUME IInv PROVE SkippedForgetIsMarked
  BY <1>1 DEF IInv, SkippedInv, SkippedOf, Succeeded, SkippedForgetIsMarked
<1> QED
  BY <1>1, Invariance, PTL
=============================================================================
