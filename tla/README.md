# opsnap: models, checks and proofs

opsnap is a self-hosted panel that backs up servers and databases with restic: it schedules jobs, runs them,
keeps the keys of the storage locations, and reports. This directory holds TLA+ models of its core, the TLC
configurations that check them on small instances, and TLAPS proofs of the properties that matter most. All
paths below are relative to `src/`; `internal/service/x_svc` is written `x_svc`, `internal/pkg/x` is `pkg/x`.

## 1. The system

One Go process, one SQLite database, restic, rclone, rsync and the dump tools as child processes. `cmd/app/main.go` starts
it: migrate, verify the master key, recover interrupted runs, start the scheduler, serve HTTP.

| Part | State it keeps | Operations | What makes it correct |
|---|---|---|---|
| `pkg/repolock` | per location: readers, writer, queued writers; one wake-up channel | Acquire, TryAcquire, release | exclusion, no lost wake-up, no starved maintenance, counters exact |
| `run_svc` | run records, live executions, slots, forget marks | Trigger, Stop, the engine's steps, Recover, CleanupForgetPending | a success is complete, a failure leaves nothing unsaid, slots and locks returned, every run ends |
| `run_svc` live log | lines, those who read them, the saved record | append, StreamLog, close | no line lost or repeated, every reader is told the end |
| `repo_svc` | the record of a location and the keys in the repository | Create, RotateKey, recovery keys, check, prune, unlock | the saved key always opens; the record says what is there |
| `masterkey_svc`, `pkg/secret` | master key in memory, check value, every ciphertext | Verify, Rotate, BeginWrite | all ciphertexts open with one key, at any moment and after any crash |
| `task/scheduler` | next due time per job, last tick, busy flags | Tick | each due time starts one run or is recorded as skipped, or was missed |
| `alert_svc` | rows of stale jobs | Check, Clear by a success | no false alarm; every alarm settles |
| `notify_svc` | settings, headers stored encrypted | Send with retries, test | what the caller is told of a message is true |
| `job_svc` | jobs with their database password | Create, Update, Delete, Duplicate, Pause, Test, browse | what was accepted can be built and, once tested, run |
| `server_svc`, `credential_svc` | servers, private and shared credentials, host keys | Create, Update, Delete, tests | a password goes only where it was typed for; shared credentials survive |
| `auth_svc`, `sso_svc`, API keys | sessions, failed attempts, OIDC settings and binding, pending logins | Login, StartLogin, Callback, bind, unbind, change of the password | lockout; never a panel nobody can log in to |
| `snapshot_svc` | open requests with their pipes and restic | list, browse, exports, check, download | a response that looks complete is; the location is given back |
| `pkg/sshconn` | hops, the connection, forwarded ports | DialConfig, forward, Close | a secret only to a confirmed host; the failing hop is named; nothing stays open |
| `pkg/rsh`, `pkg/executor` | the bridge, sessions, child processes | run, frames, kill | a command ends with one result, and with all its output |
| `pkg/cmdbuild`, `repo_entity` | none | commands, variables, secrets | every secret is masked, none is an argument |

How they interact: the scheduler and the API call `run_svc.Trigger`; a run reads its job, server and location, holds
the location's lock shared, dials the server, copies files or dumps through a forwarded port, and executes restic; `repo_svc`
takes the same lock exclusively for maintenance and key changes, `snapshot_svc` takes it shared; saving or revealing a secret
holds the read side of the master key's lock, a rotation the write side; a run's end calls `notify_svc` and clears the
job's alert; the scheduler starts maintenance, the deletion of old records, the deferred forgets and the stale check in the
background. Everything shares the database: mostly single statements, and one foreign key, from a server to its credential
(`configs/config.yaml:12` turns foreign keys on); every other reference is checked by code.

What is hard: goroutines that wait (slot, lock, command, pipe, network) and can be stopped at any time; sequences of
commands and database updates that may fail or be killed between any two steps; values read before a lock and used under it;
restic's own lock inside the repository, which refuses a forget while another backup runs; peers (servers, browsers, OIDC
providers) that answer late, wrongly or never; crashes, after which the database, the mirrors and the repository are all
that is left. `PROJECT.json` lists these hazards line by line with the property that covers each.

## 2. Modules

| Module | Models | State and actions in terms of the code |
|---|---|---|
| `RWLock` | the abstract lock: who holds it, which exclusive requests are queued | used by `RunEngine`, `RepoKeys` and `Download` in place of `RepoLock` |
| `RepoLock` | `pkg/repolock/repolock.go` | the four fields of `state`; one action per critical section of the mutex. "waiting" is blocked in the select, "woken" has seen the channel closed. `RepoLock` implements `RWLock` |
| `RunEngine` | `run_svc/engine.go`, `run.go`, `limiter.go`, `forget.go`, `forget_pending.go` | the record (`status`, `steps`, `ids`), where each goroutine is (`pc`), slots, the location's lock, the snapshots with their run tag, restic's stale lock |
| `MasterKey` | `pkg/secret`, `masterkey_svc`, `masterkey_repo`, the callers of BeginWrite | a ciphertext is the key that made it; `readers`/`rot` are the RWMutex |
| `Notify` (extends `MasterKey`) | `notify_svc` | the saved settings and one message: what it read, the header it holds encrypted, the attempts. Every other step is one of `MasterKey` |
| `RepoKeys` | key handling of `repo_svc` | keys in the repository, the two keys of the record, one request per process with its copy of the record |
| `Scheduler` | `task/scheduler`, `pkg/schedule` | the clock, the rows of jobs, the time zone; `lastTick`, `seen` (`tz`), `mem` (`jobs`, `maintAt`, `retAt`), `busy`. One action per tick, split by what it can read |
| `Alerts` | `alert_svc`, the end of a run (`engine.go:603-682`), the deletion of old records | job rows, run records, alert rows, where a run's goroutine is, and the check with what it has read; one action per access to the database |
| `Login` | `auth_svc`, `sso_svc`, their entities, API keys | the administrator's row, the one row of `sso_svc`, sessions, the key, pending authorizations, the browsers' cookies; one action per step between two mutex operations or database accesses |
| `Resources` | saving and deleting in `server_svc`, `credential_svc`, `repo_svc`, `job_svc` | the four tables and requests with what they have read; one action per write |
| `Snapshots`, `Download` | `snapshot_svc`, `snapshot_ctr` | what an ID means, and the request: lock, commands, the goroutine that copies restic's output, the archive writer, the client |
| `SshConn` | `pkg/sshconn` | the chain of hops and how far it got, what is open, forwarded connections |
| `Rsh` (extends `SshConn`) | `pkg/rsh` | the bridge, the goroutine of its connection, the frames on the socket, the child `opsnap rsh`, the command on the server |
| `LiveLog` | `run_svc/livelog.go`, `StreamLog` | the lines, the saved record, the streams with their cursor |
| `Execution` (composes the three) | a run in `engine.go` between connection and cleanup | the mirror and the file that names its source, the run's context, rsync or the dump |
| `Commands` | `pkg/cmdbuild`, `repo_svc/backend.go`, `repo_entity` | pure: each builder gives a command or refuses; texts are secret or plain |
| `JobConfig` (extends `Commands`) | forms: `job_svc/build.go`, validation in `job_entity`, `pkg/schedule`, retention rules | pure: `assemble`, `Validate` |
| `Jobs` (composes the two) | `job_svc` Create, Test, browsing, paths; the commands a run builds | the world outside (servers, databases, directories), the saved job, the request, the run |
| `MC*` | small instances | |
| `RepoLockProofs`, `MasterKeyProofs`, `RepoKeysProofs`, `LoginProofs`, `RunEngineProofs`, `ExecutionProofs`, `ResourcesProofs`, `JobsProofs` | theorems | |

`RunEngine`, `RepoKeys` and `Download` compose with the lock by instantiating `RWLock`; that `RepoLock` implements `RWLock` is both
checked (`ImplementsRWLock`) and proved (`RefinesRWLock`), so what they show holds with the lock of the code.

Abstractions worth knowing:

- *Data.* A snapshot is a pair (run, dump); a ciphertext is its key; a restic key is both password and ID.
- *Retention.* In `RunEngine` one rule, "one per day", and all runs on one day: a dump is expired as soon as a newer run of the
  job has the same dump. This is the tightest rule and the one under which deletions collide.
- *restic.* A command that holds restic's own lock for certain (a running backup, a stale lock) refuses a forget;
  one that may hold it (a forget, a query) may. A killed restic may leave its lock. With `ResticFails` it may also
  fail by itself after any part of its deletions. Children die with the process.
- *Database.* In `RunEngine` saves succeed; in `RepoKeys` every update may fail, within `MaxFailures`; in `Resources` and
  `Login` a request may break off between any two writes.
- *Notification.* In `RunEngine` the step is "settled", sent or given up; `Notify` has its attempts.
- *Probes and key listings* are folded into the command they precede.
- *Time* (`Scheduler`). Instants are numbers; a time zone maps them to readings of the wall clock and a schedule is a set of
  readings, so that the hour that daylight saving repeats is two instants with one reading. A tick may come at any
  instant: the waits between ticks are the code's wish, not a guarantee. `fired` counts what the scheduler decides to
  start; whether that becomes a run, a skipped record, a background task or an error is decided by `Trigger` and `busy`.
- *Alerts.* A job's name, the message and whether it arrives are left out; a run either fails or succeeds. `Retention` and `Limit`
  are independent, as in the settings.
- *Keys* (`RepoKeys`). A restic command that fails by itself (killed when its time is up, connection lost) may or may not have done its
  work; `unsaid` remembers the keys that one has added or removed although it was reported as failed.
- *Contexts.* "ended" is a stop or a timeout; as in the code it is looked at where a command starts or waits.
- *Login.* A password is its version, a session is what it rests on; the provider answers with any account or not at all.
- *Resources.* A password is the target it was typed for; a request's reads at its start are one step. Requests overlap freely,
  those on one server too; `home` remembers which server a credential was filled in for, `contested` the servers that two
  requests have changed at once.
- *Download.* Files and parts of an export are entries that pass a pipe one at a time. Of a client only reading, stopping
  and going away matter. `Stored` is what a snapshot has, `Contents` which paths are in it, `Under` what is below a path.
- *Transport.* Of a host only the key it presents and whether it lets one in; the SOCKS5, HTTP and SSH protocols
  are a step each. The connection may go at any time, between an exit status and the last output too. The standard input of a remote command is copied by goroutines nobody waits for and is left out.
- *Commands, Jobs.* A text is secret or plain; a validated field holds the class of its text ("dashed", "relative"), and the
  classes are what the validations tell apart. What the server or a database answers is chosen by the world. Programs may print
  their variables and arguments, not their standard input.

## 3. Runs

| Run | Instance | Result |
|---|---|---|
| `location` | the lock: 3 callers, 2 locations; a download: 1 request, 2 jobs, 3 snapshots, 6 IDs and prefixes, 4 paths, maintenance; with fairness | passes, 14 and 221 thousand states |
| `runs` | 2 jobs (files; two databases), 2 runs, 2 slots, failing restic, 2 crashes | passes, 2.2 million |
| `runs_queue` | the same jobs with one database, one slot, 1 crash, with fairness | passes, 212 thousand |
| `master_key` | 2 requests, the header of notifications and a job password, 2 keys, 2 retries, 1 crash, with fairness | passes, 1 million |
| `runs_recover` | 1 run, 2 crashes | `InterruptedLeaveNothingUnsaid` violated |
| `repo_keys` | 2 key requests (symmetric), 1 user, 3 generated keys, 2 failures, 1 crash | passes, 1.3 million |
| `scheduler` | 1 job, 1 fixed plan, 7 instants, a zone that repeats two readings and one that does not, grace of 1, 3 disturbances | passes, 734 thousand |
| `alerts` | 1 job, 2 records at a time, 5 instants, 1 failing access, 1 crash, with fairness | passes, 805 thousand |
| `login` | 2 requests, 2 registrations, 2 accounts, 1 browser, 2 wrong passwords, 2 authorizations, 2 passwords, 2 sessions, 1 restart | passes, 1.4 million |
| `resources` | 2 requests at a time and 4 in all, 2 servers, 1 location, 2 jobs, 2 targets, 2 credentials | passes, 2.4 million |
| `transport` | 5 chains of up to 4 hops, 2 host keys, 2 users of a port, 7 states of the mirror, 2 sources, a viewer, 1 failed save, stop and deadline, with fairness | passes, 846 thousand |
| `jobs` | 5 forms in order, each field out of order in turn, 5 kinds of location, 14 worlds, 2 changes of the world | passes, 75 thousand |

What the runs ask:

- `location`: of the lock, exclusion, no waiter sleeps when it could go on, the abstract lock, maintenance gets its turn. Of a request, a
  complete response is complete and of the right snapshot (`ResponseIsTrue`); every request ends and maintenance gets its turn. The two
  machines share no variable, and a behaviour leaves the initial state of one of them only, so the states are those of both, not their product.
- `runs`: maintenance is alone; a run recorded as a success has every snapshot, and deletions left what retention keeps; a failed run's
  snapshots are gone or its log says they are not, unless the process died again during recovery (`forsaken`); a forget that was
  skipped is marked for the cleanup pass. `runs_queue`: slots are exact, and every run ends.
- `master_key`: the database holds one key at any moment; what a request holds under the lock stays readable; rotations
  end; what is said of a message is true (`SentOrSaid`), although its header is read without the lock.
- `repo_keys`: the saved key opens, unless a restic reported as failed has removed it; the record says which keys there are; a key in use
  is not taken away.
- `scheduler`: a due time starts its target once and is never lost. `alerts`: no job that is well is reported as long as the record of
  its success is within the retention, and alarms settle.
- `login`: there always is a way in; a changed password ends sessions that rest on the old one; nobody gets in by guessing
  or with an account that was never bound.
- `resources`: a private credential belongs to the server it was filled in for; a password goes only where it was typed for;
  deleted rows are not referred to; the library keeps what it was not told to delete. The first two and the last leave out rows of a server
  that two requests have changed at once, and only those.
- `transport`: the hop that failed is blamed, and no secret went to an unconfirmed host (`BlameIsRight`); a closed forwarder cuts
  what goes through it; an exit code is that of the command and follows all its output that came; a stream of the log has everything; the mirror is what
  its file says; a run ends with nothing left open.
- `jobs`: secrets are masked wherever they may be printed; what validation accepts can be built; after a test that was all right
  only what the test does not look at can end the run before its export (`Foreseen`); a path that could not be looked at is named.
- `runs_recover` ends in a violation: it checks a sentence of the repository that the code does not keep when recovery is interrupted; section 5
  has the sentence and what happens. `runs` checks the same thing with exactly that case left out, by a history variable.

Why the bounds suffice. Three callers let a queued exclusive request meet a holder and a newcomer, and two locations
share one wake-up channel. Two runs are needed for one backup's lock to refuse another's forget and for a snapshot to
be superseded; two crashes interrupt a recovery; two dumps make a partial export. Two master keys are one rotation between any two
steps of a save or a message (three, without messages, were checked before; rotations follow each other without
interference, and the theorems are for any number); two retries stand for the code's three. Two key requests race for
one location; three generated keys are one creation, one rotation and one recovery key; a second failure hits the undo of the
first. Seven instants hold a repeated hour and gaps longer than the grace period before, inside and after it; three disturbances allow
a change of the time zone, a tick that half fails, and the change back. Five instants let a record of a success be deleted,
within the limit and after it, and an alert be raised, taken back and raised again. Two registrations, accounts and
authorizations let one of each be replaced while the other is under way. Four requests are two creations and two overlapping
changes. One download meets runs that forget (any number) and maintenance; a second one would only share the
lock, which is `RWLock`'s. Chains of four hops have both kinds of proxy in front of and behind an SSH host. The
mirror starts in every state in which `MirrorOfSource` holds, so one run stands for any number of them and of crashes. Forms deviate in one field,
or in two where fields are read together. Every bound is a CONSTANT used in a guard: `MaxRuns`, `MaxCrashes`, `MaxKey`, `MaxKeys`,
`MaxRetries`, `MaxFailures`, `MaxTime`, `MaxDisturbances`, `MaxDuration`, `MaxStarts`, `MaxPending`, `MaxPasswords`, `MaxSessions`, `MaxRestarts`,
`MaxCredentials`, `MaxRequests`, `MaxChunks`, `MaxChanges`; `Limit` and `Databases` are settings. `CHECK_DEADLOCK FALSE` is set where a bounded model
may come to an end (no more runs, keys or requests); the jobs never stop and are checked for deadlock. (In `location` it is the download that ends; that nobody waits for ever
for the lock is `NoLostWakeup` and `MaintenanceNotStarved`.)

Each property of a passing run is listed in `PROJECT.json` with a mutant of the code's model that violates it. The mutants
stand in the modules next to the definition they change, as plausible mistakes: a wake-up left out, a slot
returned twice, a record not read again under the lock, a lock kept by an early return.

Fairness. `RepoLock`: holders release (every caller defers it) and woken goroutines run; nobody has to ask, no context
has to end. `RunEngine`: each run's goroutine and its commands go on, and each run's timeout comes
(`engine.go:152-158` starts one for every run); nothing forces a trigger, a stop, a crash or maintenance. `MasterKey` and
`Notify`: a request that holds the lock ends and a rotation goes on; nothing is assumed of messages. `Alerts`: the check goes on
and is started again (every tick does, scheduler.go:187). `Download`: the handler's goroutines run, restic goes on while its
output is taken, a write that makes no progress times out (`idle.go:11`), a closed connection is noticed, maintenance ends; nothing is
assumed of the client. `Execution`: goroutines and `opsnap rsh` run, a hop answers or its time is up, the run's deadline
comes, what is killed dies and what goes through a closed connection ends; nothing is assumed of the server, of rsync, of
the users of a port or of viewers. Weak fairness is enough everywhere, since a guard, once true, stays true until the step is
taken or somebody else makes progress; the order in which `sync.RWMutex` admits is in the model (no reader enters while a writer
waits). The other modules assume no fairness and have only safety properties.

## 4. Proofs

For every value of the constants, under the named assumptions of the modules:

- `RepoLockProofs` proves type correctness, `LockAccounting`, `MutualExclusion`, `NoLostWakeup`, and that the lock implements
  `RWLock`. The inductive invariant is the accounting itself: each counter is the cardinality of the callers it counts.
  Without it no step preserves mutual exclusion, because the guards look only at counters. Finite sets of callers
  (`ProcsFinite`) make the counting lemmas applicable. `NoLostWakeup` is inductive on top of it, since every step that may
  turn `CanLock` true broadcasts. The refinement maps counters to sets of callers, step by step.
- `MasterKeyProofs` proves that what is stored opens with the check value's key (`OneKeyInDatabase`), that the process
  can open it except between commit and `SetDefault` (`DefaultOpensDatabase`), and the contract of BeginWrite (`HeldStaysReadable`).
  The strengthening says that while a rotation has the lock nobody reads, and that a ciphertext in hand under the lock is of the
  current key. These theorems are about `MasterKey`'s specification.
- The same module proves that the specification with messages implies `MasterKey`'s (`MessagesLeaveKeys`), so that the theorems above
  hold beside notify_svc, which takes no lock; and `SentOrSaid`. The step to it is that a header in hand opens as long as the key
  has not changed since it was read (`HeaderOpens`), which rests on `DefaultOpensDatabase` when it is read and on
  the fact that only a commit ends it (`KeyChanges`).
- `RepoKeysProofs` proves `SavedKeyOpens`, `KeyInUseStays`, `AsRecorded` and type correctness for any restic: what a command did that was
  reported as failed is in `unsaid`, and the theorems except those keys only where the property says so (`KeyInUseStays` excepts none). The inductive
  invariant `IInv` says what each place of a request knows: which keys are in the repository (`Known`, `TwoKeys`), that
  who works on the keys holds the location (`Holding`) and nobody else does (`Reading`, `Creating`). TLC checked
  `IInv` before it was proved. `KeyInUseStays` adds whose key is in use: a user is in the middle of a command and so holds the
  location (`UsersHold`), which the remover of a key holds alone. `AsRecorded` adds an account of every key in the repository: the record names
  it, or the request at work will name or remove it (`AccountInv`), and it removes what it added only after a failure, so that
  not removing it would be the second (`RecoveryInv`). The account is kept as long as
  the saved key opens, and it has `unsaid` beside the record.
- `LoginProofs` proves all three properties of `Login`, with no bound on requests, browsers, providers or accounts. Each mutex has its own
  invariant: who compares a password has `mu` and the row is still as it was read (`ComparesFresh`), who saves the provider has
  `writeMu` and the row is still as it was read (`SavesFresh`); OIDC logins hold neither, so what they know is only that a provider
  was saved when they set out (`FlowsConfigured`) and that their account was bound once (`BoundOnce`). The saved
  count knows of every wrong password told (`GuessCount`). That a full table of authorizations has an oldest entry to lose
  (`SomeOldest`) is the least-number principle.
- `RunEngineProofs` proves all five safety properties of `RunEngine`, for any number of runs, jobs, slots and crashes. The inductive invariant
  has a part for each thing a step relies on without looking at it: what each goroutine holds of the location's lock
  (`LockInv`); that during recovery no goroutine lives and nobody holds anything (`RecoveringInv`); that a live run is the
  latest of its job (`OrderInv`), so that what its retention spares is not expired by a later one before it has ended; what a record at
  each place already says (`RecordInv`); what a run in dumping, in forgetting or in rollback has in the repository (`DataInv`); and
  who is about to write the mark of a refused forget (`SkippedInv`). None of the five follows from another,
  and all of them rest on the parts. `LeftoversCorrect` has the second crash in it: what it excepts is `forsaken`, the runs whose
  leftovers were being dealt with when the process died.
- `ExecutionProofs` proves the five safety properties of the transport. A step of `Execution` is one of the connection, of the
  bridge or of the log (`ConnSteps`, `RshSteps`, `LogSteps`), and every invariant is about one of these, so each proof looks at
  its own steps and a frame lemma deals with the rest. `DialInv` says how far a chain got and whose key was seen; `RshInv` that what
  rsync was given and what is still on the socket is what was forwarded, that nothing follows an exit frame, and that the output was
  forwarded to its end or to the loss of the connection; `MirrorInv` which steps of a run
  may touch the mirror while its file is missing; `LogInv` that what a stream has sent, with what it still has to send, is the log.
  The warnings among the lines are a recursive function (`Warnings`), and that it distributes over concatenation
  (`WarningsOfConcat`) is an induction: the library's theorem cannot be instantiated here, so `Induction` is proved from the least-number
  principle (`WFMin`) for sets of numbers, which is enough.
- `ResourcesProofs` proves the four properties of `Resources` for any overlapping requests. `NothingDangles` needs only what a deletion in progress
  has checked. The other three are about rows whose own server (`home`) is not `contested`: that a server is not says that whoever changes it
  is alone with it, from the start of the request to its end, so that what it read still holds. The invariant has to
  know, for each request, that what it read is still there: the server it edits (`EditInv`), the credential it took over or is about
  to drop (`CredentialInv`, `ClaimInv`), what it decided at its start (`PlanInv`). The proof goes by the forms of a request, not by the
  actions alone: how it begins, what it writes, how it ends. `IdentifiersAssumption`
  says that the constants for rows of different tables, and for no row, are different.

- `JobsProofs` proves the four properties of `Jobs`, for any names, paths, forms and states of the world. It assumes that an empty name counts
  as blank (`NoName`), and that forms are filled in and a database answers in one of the four ways the code tells apart (`FormsFilled`).
  `SecretsHidden` rests on what each builder makes: a command is `Tidy` when no argument is a secret and every variable with
  a secret in it has a name that `secretEnv` knows; a backend is `Neat` likewise, which is shown for each kind of location that
  validation accepts (an address with a password in it is what it rejects). `SavedOrSaid` follows a save (`ShapeInv`): what is left to look at, was
  confirmed or was bad is together all the paths. `ValidJobsBuild` compares validation with the builders condition by
  condition (`DumpBuilds`, `CopyBuilds`) and needs that the run's job is the one that was validated (`JobIs`). `TestPredictsRun` is about
  two actors that never meet: `Fine` is what a run needs of the world, `CalmInv` says what a test in progress has seen of it as long as
  nothing changed, `TestedInv` that a test that was all right leaves it so, and `RunInv` that a run which was predicted still has it.
  Only its own conditions can end such a run, and `Fine` excludes each that a test looks at; the others are the cases of `Foreseen`.

Three proof modules extend a second component with variables of its own. So that two state machines can stand beside each other,
`Scheduler`, `Alerts` and `Download` carry their name in `SchedulerInit`, `AlertsNext`, `DownloadSpec` and so on.

- `MasterKeyProofs` (`StartedOnceCorrect`, `NothingLostCorrect`), which extends `Scheduler` as well: `StartedOnce` and `NothingLost` hold for any schedules, wall clocks, instants and movements of the clock. The first rests on
  what has been started being past for the clock, the last tick and the remembered time (`FiredInv`), since a next run is strictly
  after what it is counted from (`NextRunFacts`). The second on what is remembered: a remembered time lies after the last complete reading and
  passes over nothing that was still to come when it was computed (`MemoryInv`), so what is owed is either remembered or after
  the last tick (`OwedInv`). The attempt showed that `NothingLost` was false of larger instances: a clock set back by more than the grace
  period, a tick there that cannot read, a change of the time zone, and the next tick misses what it counts from the tick before
  (four disturbances; the run has three). `readAt` now follows a clock that is set back as the code's `lastTick` does.
- `JobsProofs` (`NoFalseAlarmCorrect`), which extends `Alerts` as well: nobody is reported who is well, for any jobs, records, failures and crashes. The inductive
  invariant says that records are in the order of their starts (`OrderInv`), that a run ends within `MaxDuration` (`DurationInv`), and that
  the last success of a job is on record, and the newest one, as long as the retention covers it (`SuccessInv`): a deletion takes it only
  afterwards. What the check has read held at the moment it read. Nothing is assumed of `Retention` and `Limit`.
- `RepoLockProofs` (`ResponseCorrect`), which extends `Download` as well: a response that ends as complete is. The invariant follows the entries of a
  dump from restic to the client: what is still to come, in the pipe, in the reader's hand and sent are together what the snapshot has below
  the path, each once (a conservation law, from which "once" and "all" both follow). That the paths left after verification do not
  overlap is the assumption that paths are a tree (`DownloadConstants`); that every path asked for lies inside one that is
  downloaded needs a longest one, so sets of paths are finite.

`LockAccounting`, `DefaultOpensDatabase` and the type invariants of `RepoLock`, `MasterKey` and `RepoKeys` hold by these theorems and are not run
again. Elsewhere the type invariant is a conjunct of a property: of `StartedOnce`, `NoFalseAlarm`, `OnlyBoundAccounts`,
`AloneDuringMaintenance`, `OneOwner` and `ResponseIsTrue`; all of these are proved.

A remark on how the models are written: TLC takes the first arm of a CASE that is true, but the language says some arm that
is true, and the provers go by the language. Where arms overlap (`RecoverRun`, `OpenFS`, `Connect`, `Reason`, `Wait`) the order of the
code's conditions is therefore written with IF.

Only model-checked: the liveness properties
(`MaintenanceNotStarved`, `EveryRunEnds`, `RotationEnds`, `AlertsSettle`, `DownloadsEnd`, `EverythingEnds`), as
fairness and ENABLED are out of the prover's reach.

## 5. Where the code and its documentation differ, and other observations

Five sentences of the repository are not kept in one case each. The passing properties are stated so that they hold of the code as it is, and
leave out exactly that case.

- run.go:437 says that interrupted runs leave no snapshots either, and that what was done goes to their logs. Recover saves the
  record as failed first (run.go:415-417) and cleans up in the background; if the process dies before that has ended, the
  next start finds no running record (run.go:400). The snapshots stay, no log says so, and nobody is notified. The run
  `runs_recover` finds it (`InterruptedLeaveNothingUnsaid`); `NoSilentLeftovers` leaves it out by `forsaken`.
- repo.go:646 says that a failing step leaves the keys as they were. If the removal of the old key took effect but is reported
  as failed, for restic is killed at `keyOpTimeout` (repo.go:655-656), the restored record (repo.go:685-692) opens nothing. `SavedKeyOpens` and
  `AsRecorded` leave out the keys in `unsaid`.
- credential.go:30 says that a private credential belongs to one server. Two overlapping saves of one server each write
  the credential and decide what to delete from what they read (server.go:206-237): one puts it into the library, another
  server chooses it, and the other save makes it private again. `OneOwner`, `PasswordForTarget` and `LibraryStays` leave out the rows whose
  server is `contested`.
- The last line of a job's test says "location reachable and mounted" (conn.go:232). Only the mount is looked at
  (build.go:174-188), which a location over the network does not have; a run may fail at once where the test was all right. `TestPredictsRun`
  has the causes that a test does not look at in `Foreseen`.
- The specification (docs/specs/2026-10-15-opsnap-v1.md:169) says that an alert means no success within the limit. With a
  retention shorter than the limit, which the settings allow (setting.go:50, notify.go:30), the record of the success is gone and a job
  counts from its creation (alert.go:108). `NoFalseAlarm` leaves out such a success (`Expired`).

Others. Against a comment or a document:

- run.go:5 says that no failure, timeout or stop leaves a snapshot. The rollback's forget (engine.go:594) is tried
  once, and another backup's lock refuses it. What holds is `NoSilentLeftovers`: the log tells, with the exception above.
- retention.go:20 says one per day is kept. A run stopped during its forget (engine.go:193-198) has deleted the older one and then
  deletes its own.
- secret.go:108-113 says saves and rotations exclude each other. job.go:240 prepares the password before it takes the lock, so
  that a job saved across a rotation holds a password nobody can read (`LateItems` of `MasterKey`).
- schedule.go:120 says a schedule of fixed times runs only at the first of two equal readings. A start found late, in the repeated
  hour, is computed on from a later reading (scheduler.go:254) and runs again at the repetition. Two readings of one
  fixed hour (`0,30 2 * * *`) do the same without a late tick.

Elsewhere:

- The check creates alert rows from what it read before (alert.go:137): if the job succeeds in between and has cleared its row
  already, or the process dies or the database fails between the saved result and `Clear` (engine.go:665), a row stays for a
  job that is well; the next stretch without success is then not reported, although alert.go:36 promises one message
  for each, and the next success reports a recovery from nothing. A "stale" message that is still being retried may arrive after
  the "recovered" one (alert.go:137-150).
- A resumed job counts from the tick before (scheduler.go:155-159), so it may start for a time, less than a polling interval
  ago, at which it was still paused. A tick records its time before it reads the settings (scheduler.go:160-166), so after one that
  fails, due times of new or changed jobs are dropped; `NothingLost` makes an exception for what a tick could not read.
- A notification whose header was read before a rotation's commit and decrypted after it is lost; the caller is told.
- The mark of a skipped forget is written with the run's context (engine.go:560): a stop at that moment loses it, and only the log tells.
- A deletion asks what refers to a row and then deletes it (repo.go:354, server.go:251): what is saved in between refers to nothing.
- Two overlapping edits of a server may also send a password to a target it was not typed for, or take a credential out of the library that the other
  has put there (the rows that `Contested` leaves out).
- When the connection is lost between the exit status of a remote command and its last output, the session's `Wait` returns without an error
  (rsh.go:227-231) and `opsnap rsh` ends with the command's code after a part of its output; rsync's own protocol has to notice.
- `Stop` and `StreamLog` between the creation of a run's record and its registration (run.go:228-239) answer that it is not running,
  although its status is.
- A run's deadline that comes while it connects is recorded at the server as a timeout of the server (`sshconn/server.go:64`).
- Two MySQL databases whose names differ only in a slash or backslash against an underscore have the same file name in
  their snapshots (engine.go:415-421), and forget groups them.
- A bracketed IPv6 address passes the validation of a job and fails when it runs; so do, with "all databases", names that contain "=" or
  begin with "-".
- A download drops paths that lie inside another selected one before it looks for any (download.go:78-84), so a path that the snapshot
  lacks goes unreported when its directory is selected too, although download.go:49-50 and `api/snapshot/snapshot.go:106-107` say that every
  path exists. The archive is complete all the same; `ResponseIsTrue` asks that each path lies inside a selected one that exists.
- Where looking at one path times out, wrong paths found before it are not reported (paths.go:183-186). `SavedOrSaid` holds: the
  answer names all of them as not looked at.

## 6. Not modelled, and why

The panel (`frontend`), routing and handlers, the schema and generated API documents (`docs/docs.go`, a fifth of the Go code) keep no
protocol of their own. Redaction, notification texts, parsing of restic's and rsync's output, the recovery bundle's text, error
codes and generated passwords are formatting. The overview only queries. The bytes of SOCKS5, HTTP CONNECT and SSH, SFTP
browsing and the generation of keys are left out of the transport: the properties tell only their results apart. `sshconntest` is a
server for tests. Settings other than those named as constants are single rows read when needed.

## 7. Plan

Done: every module above is checked, and every safety property that a run checks is proved.

Next: the behaviour behind the hazards that no property covers yet (`PROJECT.json`), and the parts that section 6 leaves out.
