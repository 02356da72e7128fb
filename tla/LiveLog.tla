------------------------------ MODULE LiveLog ------------------------------
(***************************************************************************)
(* The log of one run (run_svc/livelog.go) and those who read it: the run  *)
(* appends lines and ends the log, a stream (StreamLog) sends what is new, *)
(* waits on the channel that is closed and replaced at every change, and   *)
(* ends with the run's result.  A run that is not registered as running is *)
(* read from its saved record.                                             *)
(*                                                                         *)
(* A line is its level; that secrets are masked before is left out.        *)
(***************************************************************************)
EXTENDS Naturals, Sequences, SequencesExt

CONSTANTS Viewers,     \* open streams
          WarningsOnly \* those of them that only want warnings and errors
ASSUME ViewersAssumption == WarningsOnly \subseteq Viewers

VARIABLES
  lines,      \* liveLog.lines: "info" and "warn"
  logDone,    \* liveLog.done
  registered, \* byRun has the run
  status,     \* the status of the run in memory
  record,     \* the saved row: [status, log]
  lostSaves,  \* saves of the record that have failed
  streams     \* [Viewers -> [pc, cursor, batch, last, sent, woken, end]]

logVars == <<lines, logDone, registered, status, record, lostSaves, streams>>

NoStream == [pc |-> "none", cursor |-> 0, batch |-> <<>>, last |-> FALSE, sent |-> <<>>,
             woken |-> FALSE, end |-> "none"]

LogInit(viewers) ==
  /\ lines = <<>> /\ logDone = FALSE /\ registered = FALSE /\ status = "running"
  /\ record = [status |-> "none", log |-> <<>>] /\ lostSaves = 0
  /\ streams = [v \in Viewers |-> IF v \in viewers THEN NoStream ELSE [NoStream EXCEPT !.pc = "gone"]]

---------------------------------------------------------------------------
(* What the run does; these are parts of its steps. *)

\* broadcast: whoever has got the channel will find it closed.
Woken == [v \in Viewers |-> [streams[v] EXCEPT !.woken = @ \/ streams[v].pc \in {"sending", "waiting"}]]

Accepts == ~logDone

Add(new) ==
  IF Accepts /\ new # <<>> THEN lines' = lines \o new /\ streams' = Woken
  ELSE UNCHANGED <<lines, streams>>

\* The record is saved with the lines there are; a failed save only adds a warning.
Save(now, new, mayFail) ==
  \/ record' = [status |-> now, log |-> lines \o new] /\ Add(new) /\ UNCHANGED lostSaves
  \/ mayFail /\ lostSaves' = lostSaves + 1 /\ Add(new \o <<"warn">>) /\ UNCHANGED record

EndLog == logDone' = TRUE /\ streams' = Woken

---------------------------------------------------------------------------
(* StreamLog. *)

\* SelectSeq, as a function that can be reasoned about.
Warnings(some) ==
  LET kept[n \in 0 .. Len(some)] ==
        IF n = 0 THEN <<>>
        ELSE IF some[n] = "warn" THEN Append(kept[n - 1], some[n]) ELSE kept[n - 1]
  IN  kept[Len(some)]

Wanted(v, some) == IF v \in WarningsOnly THEN Warnings(some) ELSE some
Move(v, pc) == streams' = [streams EXCEPT ![v].pc = pc]

\* The run is looked up once; its log is read from memory, or all of it from the record.
Subscribe(v) ==
  /\ streams[v].pc = "none" /\ record.status # "none"
  /\ IF registered THEN Move(v, "reading")
     ELSE streams' = [streams EXCEPT ![v].pc = "saved", ![v].sent = Wanted(v, record.log),
                                     ![v].end = record.status]
  /\ UNCHANGED <<lines, logDone, registered, status, record, lostSaves>>

\* Mutant of Advance: the cursor counts the lines sent.
AdvanceBySent(v, batch) == streams[v].cursor + Len(Wanted(v, batch))
Advance(v, batch) == streams[v].cursor + Len(batch)

\* since: the new lines, the channel of the next change and whether the log has ended, at once.
Since(v) ==
  /\ streams[v].pc = "reading"
  /\ LET new == SubSeq(lines, streams[v].cursor + 1, Len(lines))
     IN  streams' = [streams EXCEPT ![v].pc = "sending", ![v].batch = Wanted(v, new),
                       ![v].cursor = Advance(v, new), ![v].last = logDone, ![v].woken = FALSE]
  /\ UNCHANGED <<lines, logDone, registered, status, record, lostSaves>>

\* The lines are out: a log that has ended ends the stream with the result of the run.
Sent(v) == [streams[v] EXCEPT !.sent = @ \o streams[v].batch, !.batch = <<>>]
Onward(v, waiting) ==
  streams' = [streams EXCEPT ![v] =
                IF streams[v].last THEN [Sent(v) EXCEPT !.pc = "ended", !.end = status] ELSE waiting]

\* Mutant of Emit: the channel is only asked for when the lines have been sent.
EmitThenListen(v) ==
  /\ streams[v].pc = "sending"
  /\ Onward(v, [Sent(v) EXCEPT !.pc = "waiting", !.woken = FALSE])
  /\ UNCHANGED <<lines, logDone, registered, status, record, lostSaves>>

\* Sending fails when the viewer has gone.
Emit(v) ==
  /\ streams[v].pc = "sending"
  /\ Onward(v, [Sent(v) EXCEPT !.pc = "waiting"]) \/ Move(v, "gone")
  /\ UNCHANGED <<lines, logDone, registered, status, record, lostSaves>>

\* The channel is closed.  A ping, every 15 seconds, also reads again; nothing relies on it.
Await(v) ==
  /\ streams[v].pc = "waiting" /\ streams[v].woken
  /\ Move(v, "reading")
  /\ UNCHANGED <<lines, logDone, registered, status, record, lostSaves>>

Leave(v) ==
  /\ streams[v].pc = "waiting" /\ Move(v, "gone")
  /\ UNCHANGED <<lines, logDone, registered, status, record, lostSaves>>

Reading(v) == Since(v) \/ Emit(v) \/ Await(v)

---------------------------------------------------------------------------
(* Properties. *)

\* A stream of the running log that ended has sent every line it was asked for, once and in
\* order, and the result the run has (StreamLog, since, close).  What is saved is always
\* the beginning of the log, and once the run is no longer registered the record has its
\* result, unless both saves at the end failed.
StreamFaithful ==
  /\ \A v \in Viewers : streams[v].pc = "ended" =>
       streams[v].sent = Wanted(v, lines) /\ streams[v].end = status /\ status # "running"
  /\ IsPrefix(record.log, lines)
  /\ logDone /\ lostSaves < 2 => record.status = status
=============================================================================
