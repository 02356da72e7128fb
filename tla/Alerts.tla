------------------------------- MODULE Alerts -------------------------------
(***************************************************************************)
(* "No success for too long": alert_svc, the end of a run (run_svc) that    *)
(* takes an alert back, and the daily deletion of old run records          *)
(* (scheduler), on which the check for stale jobs relies.                  *)
(*                                                                         *)
(* A row per alerted job makes an alert happen once.  The check works on   *)
(* what it has read while runs end, jobs are edited and the process dies.  *)
(* What a message says and whether it arrives is left out.                 *)
(***************************************************************************)
EXTENDS Naturals, FiniteSets, FiniteSetsExt

CONSTANTS Jobs,
          MaxTime,      \* bound: the last instant
          Limit,        \* setting: the time without success that is too long
          Retention,    \* setting: run records that started before that are deleted
          MaxDuration,  \* a run times out by then
          MaxRuns,      \* bound: records of a job at a time
          MaxFailures,  \* bound: failing accesses to the database
          MaxCrashes,   \* bound: crashes of the process
          None

ASSUME AlertsConstants ==
  {MaxTime, Limit, Retention, MaxDuration, MaxRuns, MaxFailures, MaxCrashes} \subseteq Nat

Times == 0 .. MaxTime

VARIABLES
  now,      \* the clock
  row,      \* [Jobs -> [created, paused]] in the database; None: no such job
  used,     \* jobs that have existed: an ID is not given out again
  runs,     \* records of runs: [job, n, started, ended, status]
  place,    \* where the goroutine of a job's run is: "none", "running", "saved", "recovered"
  alerted,  \* jobs with an alert row
  check,    \* the check: [at, listed, asOf, todo]; "idle" if none is under way
  failures, crashes,
  \* history
  lastOK    \* [Jobs -> start and end of the last success, whose record may be deleted], or None

checkVars == <<alerted, check, failures>>
alertsVars == <<now, row, used, runs, place, checkVars, crashes, lastOK>>

Idle == [at |-> "idle", listed |-> <<>>, asOf |-> 0, todo |-> {}]

AlertsInit ==
  /\ now = 0
  /\ row = [j \in Jobs |-> None] /\ used = {} /\ runs = {}
  /\ place = [j \in Jobs |-> "none"]
  /\ alerted = {} /\ check = Idle /\ failures = 0 /\ crashes = 0
  /\ lastOK = [j \in Jobs |-> None]

Fail == failures < MaxFailures /\ failures' = failures + 1

-----------------------------------------------------------------------------
(* Jobs and runs.                                                          *)

RunsOf(j) == {r \in runs : r.job = j}
Newest(S) == {r \in S : \A s \in S : s.n <= r.n}
LastSucceeded(j) == Newest({r \in RunsOf(j) : r.status = "success"})
PreviousFinished(j) == Newest(RunsOf(j) \ Newest(RunsOf(j)))

Advance ==
  /\ now < MaxTime
  /\ \A r \in runs : r.status = "running" => now < r.started + MaxDuration
  /\ now' = now + 1
  /\ UNCHANGED <<row, used, runs, place, checkVars, crashes, lastOK>>

\* A job is created, or paused or resumed, or deleted.
SaveJob(j) ==
  /\ \/ j \notin used /\ row' = [row EXCEPT ![j] = [created |-> now, paused |-> FALSE]]
     \/ row[j] # None /\ row' = [row EXCEPT ![j].paused = ~@]
     \/ row[j] # None /\ row' = [row EXCEPT ![j] = None]
  /\ used' = used \cup {j}
  /\ UNCHANGED <<now, runs, place, checkVars, crashes, lastOK>>

Trigger(j) ==
  /\ row[j] # None /\ place[j] = "none"
  /\ LET n == 1 + Max({r.n : r \in RunsOf(j)} \cup {0})
     IN /\ n <= MaxRuns
        /\ runs' = runs \cup {[job |-> j, n |-> n, started |-> now, ended |-> 0,
                               status |-> "running"]}
  /\ place' = [place EXCEPT ![j] = "running"]
  /\ UNCHANGED <<now, row, used, checkVars, crashes, lastOK>>

Ended(r, status) == [r EXCEPT !.ended = now, !.status = status]

\* The result is saved; what follows a success is to come.
Finish(j, status) ==
  /\ place[j] = "running"
  /\ runs' = {IF r.job = j /\ r.status = "running" THEN Ended(r, status) ELSE r : r \in runs}
  /\ place' = [place EXCEPT ![j] = IF status = "success" THEN "saved" ELSE "none"]
  /\ IF status = "success"
     THEN \E r \in RunsOf(j) : /\ r.status = "running"
                               /\ lastOK' = [lastOK EXCEPT ![j] = [started |-> r.started, ended |-> now]]
     ELSE UNCHANGED lastOK
  /\ UNCHANGED <<now, row, used, checkVars, crashes>>

Cleared(j) == alerted \ {j}

\* A success takes the alert back: something to recover from was an alert or the failure of
\* the run before.  When the row cannot be removed, or the run before cannot be read, it
\* counts as none.
AfterSuccess(j) ==
  /\ place[j] = "saved"
  /\ \/ alerted' = Cleared(j) /\ UNCHANGED failures
     \/ UNCHANGED alerted /\ Fail
  /\ LET wasStale == j \in alerted /\ failures' = failures
         failedBefore == \E r \in PreviousFinished(j) : r.status = "failed"
     IN \E recovered \in {wasStale, wasStale \/ failedBefore} :
          place' = [place EXCEPT ![j] = IF recovered THEN "recovered" ELSE "none"]
  /\ UNCHANGED <<now, row, used, runs, check, crashes, lastOK>>

TellRecovered(j) ==
  /\ place[j] = "recovered"
  /\ place' = [place EXCEPT ![j] = "none"]
  /\ UNCHANGED <<now, row, used, runs, checkVars, crashes, lastOK>>

\* The daily deletion of old records.
Cleanup ==
  /\ runs' = {r \in runs : r.status = "running" \/ r.started + Retention >= now}
  /\ runs' # runs
  /\ UNCHANGED <<now, row, used, place, checkVars, crashes, lastOK>>

-----------------------------------------------------------------------------
(* The check.  Ticks start it again and again, never a second one beside it. *)

ListJobs ==
  /\ check.at = "idle"
  /\ check' = [at |-> "drop", asOf |-> 0, todo |-> {},
               listed |-> [j \in {i \in Jobs : row[i] # None} |-> row[j]]]
  /\ UNCHANGED <<now, row, used, runs, place, alerted, failures, crashes, lastOK>>

\* Rows of jobs that are gone.
DropDeleted ==
  LET kept == alerted \cap DOMAIN check.listed
  IN /\ check.at = "drop"
     /\ alerted' = kept
     /\ check' = [check EXCEPT !.at = "judge"]
     /\ UNCHANGED <<now, row, used, runs, place, failures, crashes, lastOK>>

\* Mutant of Since: a success counts from its start.
SinceStart(j, created) == IF LastSucceeded(j) = {} THEN created
                          ELSE (CHOOSE r \in LastSucceeded(j) : TRUE).started
\* A job without success counts from its creation.
Since(j, created) == IF LastSucceeded(j) = {} THEN created
                     ELSE (CHOOSE r \in LastSucceeded(j) : TRUE).ended
Stale(j, jobRow) == ~jobRow.paused /\ Since(j, jobRow.created) + Limit < now

Judge ==
  /\ check.at = "judge"
  /\ check' = [check EXCEPT !.at = "create", !.asOf = now,
                 !.todo = {j \in DOMAIN check.listed : Stale(j, check.listed[j])}]
  /\ UNCHANGED <<now, row, used, runs, place, alerted, failures, crashes, lastOK>>

\* The row comes first and the message after it, so that a message is not sent again.
CreateRow(j) ==
  /\ check.at = "create" /\ j \in check.todo
  /\ alerted' = alerted \cup {j}
  /\ check' = [check EXCEPT !.at = IF j \in alerted THEN "create" ELSE "tell", !.todo = @ \ {j}]
  /\ UNCHANGED <<now, row, used, runs, place, failures, crashes, lastOK>>

\* Sent, or given up after the last try: the next job.
TellStale ==
  /\ check.at = "tell"
  /\ check' = [check EXCEPT !.at = "create"]
  /\ UNCHANGED <<now, row, used, runs, place, alerted, failures, crashes, lastOK>>

EndCheck ==
  /\ check.at = "create" /\ check.todo = {}
  /\ check' = Idle
  /\ UNCHANGED <<now, row, used, runs, place, alerted, failures, crashes, lastOK>>

\* Mutant of GiveUp: the background task stays marked as busy.
GiveUpBusy == [Idle EXCEPT !.at = "busy"]
GiveUp == Idle

\* An access to the database fails and the check with it.
CheckFails ==
  /\ check.at \in {"drop", "judge", "create"} /\ Fail
  /\ check' = GiveUp
  /\ UNCHANGED <<now, row, used, runs, place, alerted, crashes, lastOK>>

-----------------------------------------------------------------------------
Recovered(r) == IF r.status = "running" THEN Ended(r, "failed") ELSE r

\* The process dies and starts again; what was running has failed.
Crash ==
  /\ crashes < MaxCrashes /\ crashes' = crashes + 1
  /\ runs' = {Recovered(r) : r \in runs}
  /\ place' = [j \in Jobs |-> "none"] /\ check' = Idle
  /\ UNCHANGED <<now, row, used, alerted, failures, lastOK>>

CheckNext == ListJobs \/ DropDeleted \/ Judge \/ (\E j \in Jobs : CreateRow(j)) \/ TellStale \/ EndCheck

AlertsNext ==
  \/ Advance \/ Cleanup \/ Crash
  \/ \E j \in Jobs :
       \/ SaveJob(j) \/ Trigger(j) \/ AfterSuccess(j) \/ TellRecovered(j)
       \/ \E status \in {"success", "failed"} : Finish(j, status)
  \/ CheckNext \/ CheckFails

\* Ticks go on, and each starts the check if none is under way.
Fairness == WF_alertsVars(CheckNext)
AlertsSpec == AlertsInit /\ [][AlertsNext]_alertsVars /\ Fairness

-----------------------------------------------------------------------------
(* Properties.                                                             *)

TypeOK ==
  /\ now \in Times /\ failures \in 0 .. MaxFailures /\ crashes \in 0 .. MaxCrashes
  /\ row \in [Jobs -> [created : Times, paused : BOOLEAN] \cup {None}]
  /\ \A j \in Jobs : row[j] # None => j \in used
  /\ runs \subseteq [job : used, n : 1 .. MaxRuns, started : Times, ended : Times,
                    status : {"running", "success", "failed"}]
  /\ place \in [Jobs -> {"none", "running", "saved", "recovered"}]
  /\ \A j \in Jobs : place[j] = "running" <=> \E r \in RunsOf(j) : r.status = "running"
  /\ alerted \subseteq used
  /\ check.at \in {"idle", "drop", "judge", "create", "tell"} /\ check.asOf \in Times
  /\ check.todo \subseteq DOMAIN check.listed
  /\ lastOK \in [Jobs -> [started : Times, ended : Times] \cup {None}]

\* The check never sets out to report a job that has had a success in time, although records
\* are deleted before the check and while it works: a wrong report needs a success whose
\* record the retention no longer covered when the jobs were judged (stale, cleanupRuns).
Expired(success) == success.started + Retention < check.asOf
NoFalseAlarm ==
  TypeOK /\ \A j \in check.todo :
    \/ lastOK[j] = None
    \/ lastOK[j].ended + Limit < check.asOf
    \/ lastOK[j].ended >= check.asOf
    \/ Expired(lastOK[j])

\* A job without success for too long gets its row, unless it succeeds, is paused or deleted
\* first; a row of a deleted job goes away, one that was raised from an old list too.
AlertsSettle ==
  \A j \in Jobs :
    /\ (row[j] # None /\ Stale(j, row[j])) ~>
         (j \in alerted \/ row[j] = None \/ ~Stale(j, row[j]))
    /\ (j \in alerted /\ row[j] = None) ~> (j \notin alerted)
=============================================================================
