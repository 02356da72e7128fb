----------------------------- MODULE Scheduler -----------------------------
(***************************************************************************)
(* When things start: src/internal/task/scheduler and pkg/schedule.  The   *)
(* scheduler ticks at moments nobody controls (a slow database, a suspended *)
(* host), reads jobs and time zone from the database, and starts what has  *)
(* become due since the tick before.  Jobs and the fixed plans (weekly     *)
(* maintenance, daily cleanup) are its targets.                            *)
(*                                                                         *)
(* Time is counted in wall-clock minutes that matter: Wall maps an instant *)
(* to what the clock on the wall shows, where daylight saving shows some   *)
(* readings twice.  A schedule is the set of readings at which it runs.    *)
(***************************************************************************)
EXTENDS Integers, FiniteSets, FiniteSetsExt

CONSTANTS Jobs, Plans,  \* backup jobs; the fixed plans
          Specs,        \* schedules a job can have
          FixedHour,    \* those that run at fixed hours only
          PlanSpec,     \* [Plans -> Specs]
          Readings,     \* [Specs -> set of wall-clock readings]
          Zones, Wall,  \* time zones; [Zones -> [Times -> reading]]
          MaxTime,      \* bound: the last instant
          Grace,        \* a start found later than this is missed
          MaxDisturbances,  \* bound: edits, restarts, failed ticks and starts, clock changes
          None

ASSUME SchedulerConstants ==
  /\ Jobs \cap Plans = {} /\ FixedHour \subseteq Specs
  /\ PlanSpec \in [Plans -> Specs] /\ DOMAIN Readings = Specs
  /\ MaxTime \in Nat /\ Grace \in Nat /\ MaxDisturbances \in Nat

Times == 0 .. MaxTime
Never == MaxTime + 1
Targets == Jobs \cup Plans

\* None stands for nothing that is there.
ASSUME NoneAssumption ==
  /\ None \notin Specs /\ None \notin Zones /\ None \notin Times
  /\ None \notin [spec : Specs, paused : BOOLEAN]
  /\ None \notin [spec : Specs, zone : Zones, next : Times \cup {Never}]

VARIABLES
  now,         \* the clock
  zone,        \* setting: time zone
  row,         \* [Jobs -> [spec, paused]] in the database; None: no such job
  lastTick,    \* None before the first tick of the process
  seen,        \* the time zone of the last tick that could read it, None before it
  mem,         \* [Targets -> [spec, zone, next]] what the scheduler remembers, or None
  busy,        \* targets that are still at work: running jobs, background tasks
  disturbances,
  \* history
  peak,        \* the latest instant the clock has shown
  boot,        \* the first tick of the process (the earliest instant it saw), or None
  readAt,      \* the last tick that could read the database, or the earliest since (the clock set back)
  owed,        \* due times, as <<target, instant>>, that must start something
  fired        \* [Targets -> [Times -> starts, recorded skips and starts that failed]]

historyVars == <<peak, boot, readAt, owed, fired>>
schedulerVars == <<now, zone, row, lastTick, seen, mem, busy, disturbances, historyVars>>

NothingFired == [x \in Targets |-> [t \in Times |-> 0]]

SchedulerInit ==
  /\ now = 0 /\ zone \in Zones
  /\ row \in [Jobs -> [spec : Specs, paused : {FALSE}]]
  /\ lastTick = None /\ seen = None /\ mem = [x \in Targets |-> None] /\ busy = {}
  /\ disturbances = 0
  /\ peak = 0 /\ boot = None /\ readAt = None /\ owed = {} /\ fired = NothingFired

-----------------------------------------------------------------------------
(* When a schedule is due.                                                 *)

Matches(s, z, t) == Wall[z][t] \in Readings[s]

\* The next run strictly after an instant.  A schedule of fixed hours passes over readings
\* that the instant itself has: the repetition of an hour when daylight saving ends.
NextRun(s, z, after) ==
  Min({t \in Times : /\ t > after /\ Matches(s, z, t)
                     /\ s \in FixedHour => Wall[z][t] # Wall[z][after]} \cup {Never})

\* What it is for: an instant with the reading, the first with it if the hours are fixed.
Due(s, z, t) ==
  /\ Matches(s, z, t)
  /\ s \in FixedHour => \A u \in Times : u < t => Wall[z][u] # Wall[z][t]

\* The schedule of a target that may start now; None when the job is paused or deleted.
SpecOf(x) ==
  IF x \in Plans THEN PlanSpec[x]
  ELSE IF row[x] = None THEN None
  ELSE IF row[x].paused THEN None ELSE row[x].spec

-----------------------------------------------------------------------------
(* Tick.                                                                   *)

\* New and changed targets count from the tick before, the first tick from now.
Base == IF lastTick = None \/ (lastTick # None /\ lastTick > now) THEN now ELSE lastTick

\* Mutant of NextOf: new and changed targets count from now.
NextFromNow(x, from) ==
  IF mem[x] # None /\ mem[x].spec = SpecOf(x) /\ mem[x].zone = zone /\ seen = zone
    THEN mem[x].next ELSE NextRun(SpecOf(x), zone, now)

\* The remembered time is for the schedule and the zone that were just read, and the zone
\* is that of the tick before.
Known(x) == mem[x] # None /\ mem[x].spec = SpecOf(x) /\ mem[x].zone = zone /\ seen = zone
NextOf(x, from) == IF Known(x) THEN mem[x].next ELSE NextRun(SpecOf(x), zone, from)

Missed(next) == now - next > Grace

\* Mutant of Remember: the time after a start is computed from the tick before.
RememberFromBase(x, next, from) ==
  [spec |-> SpecOf(x), zone |-> zone,
   next |-> IF next <= now THEN NextRun(SpecOf(x), zone, from) ELSE next]
Remember(x, next, from) ==
  [spec |-> SpecOf(x), zone |-> zone,
   next |-> IF next <= now THEN NextRun(SpecOf(x), zone, now) ELSE next]

\* One round.  scope is what could be read: everything; only the plans, when the list of jobs
\* cannot be read; nothing, when the settings cannot.  What is due and still at work is not
\* started a second time: a job is recorded as skipped, a plan is passed over.  A start that
\* fails (broken) is only logged: its time has passed all the same.
Tick(scope, broken) ==
  LET active == {x \in scope : SpecOf(x) # None}
      next == [x \in active |-> NextOf(x, Base)]
      starts == {x \in active : next[x] <= now /\ ~Missed(next[x])}
      late == now - (IF readAt # None THEN readAt ELSE IF boot # None THEN boot ELSE now) > Grace
      excused == starts \cup {x \in Targets : late \/ (x \notin scope /\ ~Known(x))}
  IN /\ lastTick' = now /\ seen' = IF scope = {} THEN seen ELSE zone
     /\ mem' = [x \in Targets |-> IF x \in active THEN Remember(x, next[x], Base)
                                  ELSE IF x \in scope THEN None ELSE mem[x]]
     /\ busy' = busy \cup (starts \ broken)
     /\ fired' = [x \in Targets |->
                    IF x \in starts THEN [fired[x] EXCEPT ![next[x]] = @ + 1] ELSE fired[x]]
     /\ owed' = {o \in owed : o[2] > now \/ o[1] \notin excused}
     /\ boot' = IF boot = None THEN now ELSE boot
     /\ readAt' = IF scope = Targets \/ (readAt # None /\ readAt > now) THEN now ELSE readAt
     /\ UNCHANGED <<now, zone, row, peak>>

TickReads == Tick(Targets, {}) /\ UNCHANGED disturbances

-----------------------------------------------------------------------------
(* Everybody else.                                                         *)

Disturb == disturbances < MaxDisturbances /\ disturbances' = disturbances + 1

TickFails ==
  /\ Disturb
  /\ \/ \E scope \in {{}, Plans} : Tick(scope, {})
     \/ Tick(Targets, Jobs)

\* The clock goes on, by itself; what becomes due is owed if the scheduler is running.
Advance ==
  /\ now < MaxTime
  /\ now' = now + 1 /\ peak' = Max({peak, now + 1})
  /\ owed' = owed \cup {<<x, now + 1>> : x \in {y \in Targets : /\ lastTick # None /\ now + 1 > peak
                                                                /\ SpecOf(y) # None
                                                                /\ Due(SpecOf(y), zone, now + 1)}}
  /\ UNCHANGED <<zone, row, lastTick, seen, mem, busy, disturbances, boot, readAt, fired>>

\* The clock is set back: times that have passed come again.
SetBack ==
  /\ Disturb /\ now > 0
  /\ now' = now - 1
  /\ fired' = NothingFired
  /\ boot' = IF boot = None THEN None ELSE Min({boot, now - 1})
  /\ UNCHANGED <<zone, row, lastTick, seen, mem, busy, peak, readAt, owed>>

\* A job is saved (created, edited, paused, resumed).  A new job has a new ID: one that the
\* scheduler does not remember and that has no run.
Save(j) ==
  /\ Disturb
  /\ row[j] = None => mem[j] = None /\ j \notin busy
  /\ \E r \in [spec : Specs, paused : BOOLEAN] \ {row[j]} : row' = [row EXCEPT ![j] = r]
  /\ owed' = {o \in owed : o[1] # j}
  /\ UNCHANGED <<now, zone, lastTick, seen, mem, busy, peak, boot, readAt, fired>>

Delete(j) ==
  /\ Disturb /\ row[j] # None
  /\ row' = [row EXCEPT ![j] = None]
  /\ owed' = {o \in owed : o[1] # j}
  /\ UNCHANGED <<now, zone, lastTick, seen, mem, busy, peak, boot, readAt, fired>>

SetZone ==
  /\ Disturb
  /\ zone' \in Zones \ {zone}
  /\ owed' = {}
  /\ UNCHANGED <<now, row, lastTick, seen, mem, busy, peak, boot, readAt, fired>>

\* The panel starts a job; a run or a background task ends.
Trigger(j) ==
  /\ row[j] # None /\ j \notin busy
  /\ busy' = busy \cup {j}
  /\ UNCHANGED <<now, zone, row, lastTick, seen, mem, disturbances, historyVars>>

Finish(x) ==
  /\ x \in busy
  /\ busy' = busy \ {x}
  /\ UNCHANGED <<now, zone, row, lastTick, seen, mem, disturbances, historyVars>>

Restart ==
  /\ Disturb
  /\ lastTick' = None /\ seen' = None /\ mem' = [x \in Targets |-> None] /\ busy' = {}
  /\ boot' = None /\ readAt' = None /\ owed' = {}
  /\ UNCHANGED <<now, zone, row, peak, fired>>

-----------------------------------------------------------------------------
SchedulerNext ==
  \/ TickReads \/ TickFails
  \/ Advance \/ SetBack
  \/ \E j \in Jobs : Save(j) \/ Delete(j) \/ Trigger(j)
  \/ SetZone \/ Restart
  \/ \E x \in Targets : Finish(x)

SchedulerSpec == SchedulerInit /\ [][SchedulerNext]_schedulerVars

-----------------------------------------------------------------------------
(* Properties.                                                             *)

SchedulerTypeOK ==
  /\ now \in Times /\ zone \in Zones /\ peak \in now .. MaxTime
  /\ row \in [Jobs -> [spec : Specs, paused : BOOLEAN] \cup {None}]
  /\ seen \in Zones \cup {None}
  /\ lastTick \in Times \cup {None} /\ boot \in Times \cup {None} /\ readAt \in Times \cup {None}
  /\ mem \in [Targets -> [spec : Specs, zone : Zones, next : Times \cup {Never}] \cup {None}]
  /\ busy \subseteq Targets
  /\ disturbances \in 0 .. MaxDisturbances
  /\ owed \subseteq Targets \X Times
  /\ fired \in [Targets -> [Times -> Nat]]

\* No due time starts (or records) anything twice, across edits that are undone, changes of
\* the time zone, failed ticks, long runs and restarts; only a clock that is set back makes
\* times come again.
StartedOnce == SchedulerTypeOK /\ \A x \in Targets, t \in Times : fired[x][t] <= 1

\* Nothing is lost without cause: what was due since the tick before was started (or tried, or
\* recorded as skipped), whenever the tick comes and although next times are remembered,
\* recomputed on changes and dropped for pauses; unless the scheduler could not look for
\* longer than the grace period, or could not read a change.
NothingLost == readAt # None => \A o \in owed : o[2] > readAt

=============================================================================
