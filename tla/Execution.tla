----------------------------- MODULE Execution -----------------------------
(***************************************************************************)
(* One run of a job whose server is reached over SSH, as run_svc executes  *)
(* it (engine.go): it connects (SshConn), and copies files into a local    *)
(* mirror with rsync through the bridge (Rsh) or dumps a database through  *)
(* a forwarded port (SshConn), writes its log (LiveLog), and gives back    *)
(* everything it opened.  Locks, slots, snapshots and restic are           *)
(* RunEngine's; here a step of them succeeds or fails.                     *)
(*                                                                         *)
(* The mirror is left by earlier runs and by crashes in any state in which *)
(* MirrorOfSource holds: Starts has them, and a crash is a run of which   *)
(* no more steps are taken.                                                *)
(***************************************************************************)
EXTENDS Rsh, LiveLog

CONSTANTS Sources, \* what a job copies: a server and paths
          NoSource, \* the file beside the mirror is absent or half written
          Starts   \* the runs considered: path, job, mirror left before, viewers, users
ASSUME StartsAssumption ==
  /\ NoSource \notin Sources
  /\ \A s \in Starts :
       /\ s.path \in Chains /\ s.viewers \subseteq Viewers /\ s.users \subseteq Locals
       /\ s.job \in [kind : {"files"}, source : Sources] \cup [kind : {"database"}, source : {NoSource}]
       /\ s.recorded \in Sources \cup {NoSource}
       /\ IF s.recorded = NoSource THEN \E x \in Sources : s.contents \subseteq {x}
          ELSE s.contents \subseteq {s.recorded}

VARIABLES
  at,        \* where the run is
  job,       \* [kind, source]
  recorded,  \* the source that <mirror>.source names
  contents,  \* the sources the files in the mirror are from
  rsync,     \* "off", "running", or how it ended: a code of Rsh or "killed"
  outcome,   \* what the run will record: "none", "success", "warning" or "failed"
  snapshot,  \* the sources the run's snapshot of the mirror has
  stopping   \* a request to stop: "none", "asked" or "sent"

engineVars == <<at, job, recorded, contents, rsync, outcome, snapshot, stopping>>
vars == <<engineVars, connVars, rshVars, logVars>>

Init ==
  /\ RshInit
  /\ at = "idle" /\ rsync = "off" /\ outcome = "none" /\ snapshot = {} /\ stopping = "none"
  /\ \E s \in Starts :
       /\ ConnInit(s.path, s.users) /\ LogInit(s.viewers)
       /\ job = s.job /\ recorded = s.recorded /\ contents = s.contents

---------------------------------------------------------------------------
(* Starting, and being stopped. *)

\* Trigger saves the record, then registers the run; until then it is not known as running.
Trigger ==
  /\ at = "idle" /\ at' = "created"
  /\ record' = [record EXCEPT !.status = "running"]
  /\ UNCHANGED <<job, recorded, contents, rsync, outcome, snapshot, stopping, connVars,
                 rshVars, lines, logDone, registered, status, lostSaves, streams>>

Register ==
  /\ at = "created" /\ at' = "preflight" /\ registered' = TRUE /\ Add(<<"info">>)
  /\ UNCHANGED <<job, recorded, contents, rsync, outcome, snapshot, stopping, connVars,
                 rshVars, logDone, status, record, lostSaves>>

\* Stop leaves a line in the log, then cancels the run.
AskStop ==
  /\ registered /\ stopping = "none" /\ stopping' = "asked" /\ Add(<<"warn">>)
  /\ UNCHANGED <<at, job, recorded, contents, rsync, outcome, snapshot, connVars, rshVars,
                 logDone, registered, status, record, lostSaves>>

SendStop ==
  /\ stopping = "asked" /\ stopping' = "sent"
  /\ IF ctx = "live" THEN EndContext("canceled") ELSE UNCHANGED connVars
  /\ UNCHANGED <<at, job, recorded, contents, rsync, outcome, snapshot, rshVars, logVars>>

Steps == {"preflight", "dialling", "mirror", "truncate", "mark", "serve", "rsync", "copying",
          "flush", "closing", "copied", "forward", "dumping", "backup"}

Deadline ==
  /\ at \in Steps /\ EndContext("deadline")
  /\ UNCHANGED <<engineVars, rshVars, logVars>>

\* A step that leaves the transport and the log alone.
Only(pc) ==
  /\ at' = pc
  /\ UNCHANGED <<job, outcome, stopping, connVars, rshVars>>

GiveUp ==
  /\ at' = "finish" /\ outcome' = "failed" /\ Add(<<"warn">>)
  /\ UNCHANGED <<job, snapshot, stopping, connVars, logDone, registered, status, record, lostSaves>>

---------------------------------------------------------------------------
(* Connecting. *)

Connect ==
  /\ at = "preflight"
  /\ \/ /\ Dial /\ at' = "dialling"
        /\ UNCHANGED <<job, recorded, contents, rsync, outcome, snapshot, stopping, rshVars, logVars>>
     \/ GiveUp /\ UNCHANGED <<recorded, contents, rsync, rshVars>>

DialStep ==
  /\ at = "dialling" /\ Dialling
  /\ UNCHANGED <<engineVars, rshVars, logVars>>

DialReturns ==
  /\ at = "dialling"
  /\ \/ step = "up" /\ Only(IF job.kind = "files" THEN "mirror" ELSE "forward")
        /\ UNCHANGED <<recorded, contents, rsync, snapshot, logVars>>
     \/ step = "down" /\ GiveUp /\ UNCHANGED <<recorded, contents, rsync, rshVars>>

---------------------------------------------------------------------------
(* Files: prepareMirror, rsync through the bridge, a snapshot of the mirror. *)

\* Mutant of ClearMirror: a changed source is not noticed.
KeepMirror ==
  /\ at = "mirror" /\ UNCHANGED <<recorded, rsync, contents>>
  /\ Only("truncate") /\ UNCHANGED <<snapshot, logVars>>

\* What another source, or an unknown one, has left is removed; that may fail half way.
ClearMirror ==
  /\ at = "mirror" /\ UNCHANGED <<recorded, rsync>>
  /\ \/ /\ contents' = IF recorded = job.source THEN contents ELSE {}
        /\ Only("truncate") /\ UNCHANGED <<snapshot, logVars>>
     \/ GiveUp /\ UNCHANGED <<contents, rshVars>>

\* WriteFile truncates the file and writes it.
TruncateSource ==
  /\ at = "truncate" /\ recorded' = NoSource /\ Only("mark")
  /\ UNCHANGED <<contents, rsync, snapshot, logVars>>

WriteSource ==
  /\ at = "mark" /\ UNCHANGED <<contents, rsync>>
  /\ \/ recorded' = job.source /\ Only("serve") /\ UNCHANGED <<snapshot, logVars>>
     \/ GiveUp /\ UNCHANGED <<recorded, rshVars>>

StartBridge ==
  /\ at = "serve" /\ UNCHANGED <<recorded, contents, rsync>>
  /\ \/ Serve /\ at' = "rsync" /\ UNCHANGED <<job, outcome, snapshot, stopping, connVars, logVars>>
     \/ GiveUp /\ UNCHANGED rshVars

\* The runner starts nothing when the run has been stopped.
StartRsync ==
  /\ at = "rsync" /\ UNCHANGED recorded
  /\ IF ctx = "live" THEN rsync' = "running" /\ contents' = contents \cup {job.source} /\ Only("copying")
     ELSE rsync' = "killed" /\ UNCHANGED contents /\ Only("flush")
  /\ UNCHANGED <<snapshot, logVars>>

RsyncCalls ==
  /\ rsync = "running" /\ StartChild
  /\ UNCHANGED <<engineVars, connVars, logVars>>

\* rsync fails by itself at any time, and succeeds only if the command it started has.
RsyncEnds ==
  /\ rsync = "running"
  /\ \/ rsync' = "error"
     \/ child.code \in {"ok", "vanished"} /\ rsync' = child.code
  /\ UNCHANGED <<at, job, recorded, contents, outcome, snapshot, stopping, connVars, rshVars, logVars>>

KillRsync ==
  /\ rsync = "running" /\ ctx # "live" /\ rsync' = "killed" /\ KillChild
  /\ UNCHANGED <<at, job, recorded, contents, outcome, snapshot, stopping, connVars, logVars,
                 bridge, tracked, cut, handler, copier, frames, remote, written, forwarded, delivered>>

RsyncReturns ==
  /\ at = "copying" /\ rsync # "running" /\ Only("flush")
  /\ UNCHANGED <<recorded, contents, rsync, snapshot, logVars>>

\* The progress is saved.
Flush ==
  /\ at = "flush" /\ Only("closing") /\ Save(status, <<>>, lostSaves = 0)
  /\ UNCHANGED <<recorded, contents, rsync, snapshot, logDone, registered, status>>

ShutBridge ==
  /\ at = "closing"
  /\ \/ CloseBridge /\ UNCHANGED at
     \/ CutBridge /\ at' = "copied"
  /\ UNCHANGED <<job, recorded, contents, rsync, outcome, snapshot, stopping, connVars, logVars>>

\* 24, files that vanished, is a warning; anything else a failure.
JudgeRsync ==
  /\ at = "copied" /\ UNCHANGED <<recorded, contents, rsync>>
  /\ IF rsync \in {"ok", "vanished"}
     THEN /\ Only("backup") /\ Add(IF rsync = "ok" THEN <<>> ELSE <<"warn">>)
          /\ UNCHANGED <<snapshot, logDone, registered, status, record, lostSaves>>
     ELSE GiveUp /\ UNCHANGED rshVars

Backup ==
  /\ at = "backup" /\ UNCHANGED <<recorded, contents, rsync>>
  /\ \/ /\ ctx = "live" /\ snapshot' = contents
        /\ at' = "finish" /\ outcome' = IF rsync = "vanished" THEN "warning" ELSE "success"
        /\ UNCHANGED <<job, stopping, connVars, rshVars, logVars>>
     \/ GiveUp /\ UNCHANGED rshVars

---------------------------------------------------------------------------
(* A database: the dump reads through the forwarded port. *)

StartForward ==
  /\ at = "forward" /\ UNCHANGED <<recorded, contents, rsync>>
  /\ \/ /\ Forward /\ at' = "dumping"
        /\ UNCHANGED <<job, outcome, snapshot, stopping, rshVars, logVars>>
     \/ GiveUp /\ UNCHANGED rshVars

\* Programs on this machine connect to the port, the dump among them; none is forced to end.
ServeLocal ==
  /\ \E l \in Locals : Serving(l)
  /\ UNCHANGED <<engineVars, rshVars, logVars>>

DumpSucceeds ==
  /\ at = "dumping" /\ ctx = "live" /\ at' = "finish" /\ outcome' = "success"
  /\ UNCHANGED <<job, recorded, contents, rsync, snapshot, stopping, connVars, rshVars, logVars>>

\* It fails, or is killed because the run's context has ended.
DumpFails ==
  /\ at = "dumping" /\ GiveUp
  /\ UNCHANGED <<recorded, contents, rsync, rshVars>>

---------------------------------------------------------------------------
(* The end: finish, cleanup, and the end of the goroutine. *)

\* The setting may ask for an empty mirror after a snapshot.
ClearAfterwards ==
  /\ at = "finish" /\ Only("record")
  /\ contents' \in {contents, IF snapshot # {} THEN {} ELSE contents}
  /\ UNCHANGED <<recorded, rsync, snapshot, logVars>>

Finish ==
  /\ at = "record" /\ Only("notify") /\ status' = outcome
  /\ Save(outcome, <<"info">>, lostSaves = 0)
  /\ UNCHANGED <<recorded, contents, rsync, snapshot, logDone, registered>>

\* A notification that could not be sent is noted in the record.
Notify ==
  /\ at = "notify" /\ Only("endlog")
  /\ \E failed \in {<<>>, <<"warn">>} : Save(status, failed, lostSaves = 0)
  /\ UNCHANGED <<recorded, contents, rsync, snapshot, logDone, registered, status>>

CloseLog ==
  /\ at = "endlog" /\ Only("cleanup") /\ EndLog
  /\ UNCHANGED <<recorded, contents, rsync, snapshot, lines, registered, status, record, lostSaves>>

\* The closers in reverse: the forwarded port, then the connection.
Cleanup ==
  /\ at = "cleanup"
  /\ \/ (CloseForwarder \/ CutForwarded) /\ UNCHANGED at
     \/ fwd \in {"off", "closed"} /\ CloseConn /\ UNCHANGED at
     \/ CloseChain /\ at' = "unregister"
     \/ step \in {"off", "down"} /\ at' = "unregister" /\ UNCHANGED connVars
  /\ UNCHANGED <<job, recorded, contents, rsync, outcome, snapshot, stopping, rshVars, logVars>>

Unregister ==
  /\ at = "unregister" /\ Only("over") /\ registered' = FALSE
  /\ UNCHANGED <<recorded, contents, rsync, snapshot, lines, logDone, status, record, lostSaves, streams>>

---------------------------------------------------------------------------

ChildStep == ChildSteps /\ UNCHANGED <<engineVars, connVars, logVars>>
BridgeStep == Bridging /\ UNCHANGED <<engineVars, connVars, logVars>>
RemoteStep == (RemoteWrites \/ RemoteEnds) /\ UNCHANGED <<engineVars, connVars, logVars>>
ViewerStep(v) == (Subscribe(v) \/ Leave(v)) /\ UNCHANGED <<engineVars, connVars, rshVars>>
StreamStep(v) == Reading(v) /\ UNCHANGED <<engineVars, connVars, rshVars>>

Engine == \/ Trigger \/ Register \/ Connect \/ DialReturns
          \/ ClearMirror \/ TruncateSource \/ WriteSource \/ StartBridge \/ StartRsync \/ RsyncReturns
          \/ Flush \/ ShutBridge \/ JudgeRsync \/ Backup \/ StartForward
          \/ ClearAfterwards \/ Finish \/ Notify \/ CloseLog \/ Cleanup \/ Unregister

Next == \/ Engine \/ DialStep \/ DumpSucceeds \/ DumpFails \/ AskStop \/ SendStop \/ Deadline
        \/ RsyncCalls \/ RsyncEnds \/ KillRsync \/ ChildStep \/ BridgeStep \/ RemoteStep \/ ServeLocal
        \/ \E v \in Viewers : ViewerStep(v) \/ StreamStep(v)

(***************************************************************************)
(* Fairness: the goroutines of this process and the process opsnap rsh     *)
(* run; a hop answers or its time is up; the deadline of the run comes,    *)
(* and what it kills dies; what goes through a closed connection ends.     *)
(* Nothing is assumed of the server, of rsync, of those who use the port   *)
(* or of viewers who leave.                                                *)
(***************************************************************************)
Fairness ==
  /\ WF_vars(Engine) /\ WF_vars(DialStep) /\ WF_vars(SendStop) /\ WF_vars(Deadline)
  /\ WF_vars(KillRsync) /\ WF_vars(ctx # "live" /\ DumpFails)
  /\ WF_vars(ChildStep) /\ WF_vars(BridgeStep) /\ WF_vars(~ClientUp /\ RemoteStep)
  /\ \A l \in Locals : WF_vars((TrackLocal(l) \/ TrackRemote(l) \/ (~ClientUp /\ DialRemote(l))
                                \/ (Cut(l) /\ CopyEnds(l))) /\ UNCHANGED <<engineVars, rshVars, logVars>>)
  /\ \A v \in Viewers : WF_vars(StreamStep(v))

Spec == Init /\ [][Next]_vars /\ Fairness

---------------------------------------------------------------------------
(* Properties. *)

\* The file beside the mirror never names a source while files of another are in the mirror,
\* however often preparing it was cut off, and a snapshot only has files of the job's
\* present source (prepareMirror: what a removed path or a former server left would be in
\* every later snapshot).
MirrorOfSource ==
  /\ recorded \in Sources => contents \subseteq {recorded}
  /\ snapshot \subseteq {job.source}

\* Every run ends and leaves nothing behind: no connection, port, bridge, session or child
\* process, and nobody who still waits for its log (StreamLog, Bridge.Close, cleanup).
AtRest ==
  /\ at = "over" /\ open = {} /\ bridge \in {"off", "closed"} /\ fwd \in {"off", "closed"}
  /\ ~HandlerLives /\ child.pc \in {"none", "ended"} /\ remote.pc # "running"
  /\ \A l \in Locals : At(l) \in {"none", "done"}
  /\ \A v \in Viewers : streams[v].pc \notin {"reading", "sending", "waiting"}
EverythingEnds == <>[]AtRest
=============================================================================
