-------------------------------- MODULE Rsh --------------------------------
(***************************************************************************)
(* rsync through the connection opsnap has already made (pkg/rsh): the     *)
(* bridge listens on a unix socket, rsync starts `opsnap rsh`, which sends *)
(* the command over the socket, and a goroutine of the bridge runs it in a *)
(* session of the connection and answers with frames: the standard output  *)
(* and, last, the exit code.                                               *)
(*                                                                         *)
(* An exit code is "ok" (0), "vanished" (24), "error" (any other of the    *)
(* command) or "local" (255, the forwarding failed).  What rsync and the   *)
(* command on the server do is chosen by the environment.  The standard    *)
(* input is copied by goroutines that nobody waits for; it is left out.    *)
(***************************************************************************)
EXTENDS SshConn

CONSTANT MaxChunks  \* pieces of standard output the command writes
ASSUME ChunksAssumption == MaxChunks \in Nat

VARIABLES
  bridge,    \* "off", "open", "closing" or "closed"
  tracked,   \* the connection is one that Close has found in conns
  cut,       \* the bridge's end of the connection is closed
  handler,   \* [pc, code]: the goroutine of the connection
  copier,    \* the session's copy of the output: "off", "on", "eof", "failed" or "cut"
  frames,    \* what is in the socket, towards the child
  child,     \* [pc, code, said]: the process opsnap rsh
  remote,    \* [pc, code]: the command on the server
  written, forwarded, delivered  \* pieces of output: by the command, the bridge, the child

rshVars == <<bridge, tracked, cut, handler, copier, frames, child, remote, written, forwarded, delivered>>

RshInit ==
  /\ bridge = "off" /\ tracked = FALSE /\ cut = FALSE
  /\ handler = [pc |-> "none", code |-> "none"] /\ copier = "off" /\ frames = <<>>
  /\ child = [pc |-> "none", code |-> "none", said |-> FALSE]
  /\ remote = [pc |-> "none", code |-> "none"]
  /\ written = 0 /\ forwarded = 0 /\ delivered = 0

---------------------------------------------------------------------------
(* The child process. *)

StartChild ==
  /\ bridge = "open" /\ child.pc = "none"
  /\ child' = [child EXCEPT !.pc = "connected"]
  /\ UNCHANGED <<bridge, tracked, cut, handler, copier, frames, remote, written, forwarded, delivered>>

ChildEnds(code) == child' = [child EXCEPT !.pc = "ended", !.code = code]

\* The write fails when the bridge has closed the connection.
SendHello ==
  /\ child.pc = "connected"
  /\ IF cut THEN ChildEnds("local") ELSE child' = [child EXCEPT !.pc = "reading", !.said = TRUE]
  /\ UNCHANGED <<bridge, tracked, cut, handler, copier, frames, remote, written, forwarded, delivered>>

\* readFrames: output is handed to rsync, which may have gone; the exit frame ends the
\* process with its code; a connection that ends before it is a local failure.
ReadFrame ==
  /\ child.pc = "reading"
  /\ \/ /\ frames # <<>> /\ frames' = Tail(frames)
        /\ IF Head(frames) = "out"
           THEN \/ delivered' = delivered + 1 /\ UNCHANGED child
                \/ ChildEnds("local") /\ UNCHANGED delivered
           ELSE ChildEnds(Head(frames)) /\ UNCHANGED delivered
     \/ frames = <<>> /\ cut /\ ChildEnds("local") /\ UNCHANGED <<frames, delivered>>
  /\ UNCHANGED <<bridge, tracked, cut, handler, copier, remote, written, forwarded>>

\* The process group of rsync is killed.
KillChild == IF child.pc \in {"connected", "reading"} THEN ChildEnds("killed") ELSE UNCHANGED child

---------------------------------------------------------------------------
(* The bridge. *)

Serve ==
  /\ bridge = "off" /\ bridge' = "open"
  /\ UNCHANGED <<tracked, cut, handler, copier, frames, child, remote, written, forwarded, delivered>>

Handle(pc) == handler' = [handler EXCEPT !.pc = pc]
HandlerLives == handler.pc \notin {"none", "done"}

\* A connection accepted while the bridge closes is closed at once.
Accept ==
  /\ handler.pc = "none" /\ child.pc # "none" /\ bridge \in {"open", "closing"}
  /\ IF bridge = "open" THEN Handle("hello") /\ UNCHANGED cut ELSE Handle("done") /\ cut' = TRUE
  /\ UNCHANGED <<bridge, tracked, copier, frames, child, remote, written, forwarded, delivered>>

\* The first line comes, or the child is gone, or it does not come within 10 seconds.
ReadHello ==
  /\ handler.pc = "hello"
  /\ \/ child.said /\ Handle("session") /\ UNCHANGED cut
     \/ ~child.said /\ Handle("done") /\ cut' = TRUE
  /\ UNCHANGED <<bridge, tracked, copier, frames, child, remote, written, forwarded, delivered>>

\* run: a session is opened and the command started, which a closed connection or the
\* server may refuse.
OpenSession ==
  /\ handler.pc = "session"
  /\ \/ /\ ClientUp /\ Handle("wait") /\ copier' = "on" /\ remote' = [remote EXCEPT !.pc = "running"]
     \/ /\ handler' = [pc |-> "exit", code |-> "local"] /\ UNCHANGED <<copier, remote>>
  /\ UNCHANGED <<bridge, tracked, cut, frames, child, written, forwarded, delivered>>

\* The session's copy of the output: each piece becomes a frame, unless the socket is gone.
\* A lost connection ends it like the end of the output, with what has not come left out.
CopyOutput ==
  /\ copier = "on"
  /\ \/ /\ forwarded < written
        /\ IF cut \/ child.pc = "ended" THEN copier' = "failed" /\ UNCHANGED <<frames, forwarded>>
           ELSE frames' = Append(frames, "out") /\ forwarded' = forwarded + 1 /\ UNCHANGED copier
     \/ forwarded = written /\ remote.pc = "ended" /\ copier' = "eof" /\ UNCHANGED <<frames, forwarded>>
     \/ forwarded < written /\ ~ClientUp /\ copier' = "cut" /\ UNCHANGED <<frames, forwarded>>
  /\ UNCHANGED <<bridge, tracked, cut, handler, child, remote, written, delivered>>

\* Mutant of OutputCopied: the exit status alone ends the wait.
StatusIsEnough == TRUE
OutputCopied == copier \in {"eof", "failed", "cut"}

\* Wait returns when the exit status is there and the output is copied; without a status,
\* or when only the copy failed, the code is 255.
Wait ==
  /\ handler.pc = "wait" /\ remote.pc = "ended" /\ OutputCopied
  /\ handler' = [pc |-> "exit",
                 code |-> IF remote.code \in {"vanished", "error"} THEN remote.code
                          ELSE IF remote.code = "lost" \/ copier = "failed" THEN "local"
                          ELSE "ok"]
  /\ UNCHANGED <<bridge, tracked, cut, copier, frames, child, remote, written, forwarded, delivered>>

\* The exit frame is written and the connection closed; what is in the socket stays readable.
SendExit ==
  /\ handler.pc = "exit" /\ Handle("done") /\ cut' = TRUE
  /\ frames' = IF cut THEN frames ELSE Append(frames, handler.code)
  /\ UNCHANGED <<bridge, tracked, copier, child, remote, written, forwarded, delivered>>

\* Close marks the bridge and takes the connections it knows of, then closes the listener,
\* with what waits on it, and those connections.
CloseBridge ==
  /\ bridge = "open" /\ bridge' = "closing" /\ tracked' = HandlerLives
  /\ UNCHANGED <<cut, handler, copier, frames, child, remote, written, forwarded, delivered>>

CutBridge ==
  /\ bridge = "closing" /\ bridge' = "closed"
  /\ cut' = (cut \/ tracked \/ handler.pc = "none")
  /\ UNCHANGED <<tracked, handler, copier, frames, child, remote, written, forwarded, delivered>>

---------------------------------------------------------------------------
(* The command on the server. *)

RemoteWrites ==
  /\ remote.pc = "running" /\ written < MaxChunks /\ written' = written + 1
  /\ UNCHANGED <<bridge, tracked, cut, handler, copier, frames, child, remote, forwarded, delivered>>

\* Without an exit status when a signal or the loss of the connection ends it.
RemoteEnds ==
  /\ remote.pc = "running"
  /\ \E code \in {"ok", "vanished", "error", "lost"} :
       /\ code = "lost" \/ ClientUp
       /\ remote' = [pc |-> "ended", code |-> code]
  /\ UNCHANGED <<bridge, tracked, cut, handler, copier, frames, child, written, forwarded, delivered>>

Bridging == Accept \/ ReadHello \/ OpenSession \/ CopyOutput \/ Wait \/ SendExit
ChildSteps == SendHello \/ ReadFrame

---------------------------------------------------------------------------
(* Properties. *)

\* When the process rsync started ends as the command on the server would, the command has
\* ended so, and all the bridge got of its output has been handed to rsync before (run and
\* readFrames: the exit frame comes last, a cut connection is 255).  That is all it wrote,
\* unless the connection was lost after the exit status and before the last output: Wait
\* then returns as if the output had ended (rsh.go:227-231), and rsync is left to see it.
ExitIsTrue ==
  child.code \in {"ok", "vanished"} =>
    remote.code = child.code /\ delivered = forwarded /\ (forwarded = written \/ copier = "cut")
=============================================================================
