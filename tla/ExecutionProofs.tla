-------------------------- MODULE ExecutionProofs --------------------------
(***************************************************************************)
(* What holds of every run over SSH, for every path, mirror, user of the   *)
(* forwarded port and viewer, and for any amount of output.                *)
(*                                                                         *)
(* A step of the run is, for each of the parts it is made of, a step of    *)
(* that part or none (ConnSteps, RshSteps, LogSteps); so each part has an  *)
(* inductive invariant of its own.                                         *)
(***************************************************************************)
EXTENDS Execution, SequenceTheorems, WellFoundedInduction, TLAPS

-----------------------------------------------------------------------------
(* The connection: results, blame and what is open.                        *)

DialSteps == {"off", "connect", "greet", "auth", "failing", "down", "up"}

\* What a hop went wrong with, and the error that says so.
ErrorFits ==
  /\ err \in {"mismatch", "unconfirmed", "auth", "proxyAuth", "ctx", "net"}
  /\ fault.hop = IF err = "proxyAuth" THEN hop - 1 ELSE hop
  /\ err \in {"mismatch", "unconfirmed"} => fault.why = err
  /\ err \in {"auth", "proxyAuth"} => fault.why = "auth"
  /\ err = "proxyAuth" => hop > 1 /\ chain[hop - 1].kind = "http"
  /\ err = "ctx" => fault.why = "timeout" \/ (fault.why = "canceled" /\ ctx = "canceled")
  /\ err = "net" => fault.why = "unreachable"

Words == {"none", "auth_failed", "fingerprint_mismatch", "fingerprint_unconfirmed", "canceled",
          "timeout", "unreachable"}

\* The first n hops have succeeded, every SSH host among them with its confirmed key.
Keys == HostKeys \cup {NoKey}
Success(i) == [hop : {i}, ok : {TRUE}, reason : Words,
               key : IF chain[i].kind = "ssh" THEN {chain[i].fingerprint} ELSE Keys]
Passed(n) == \A i \in 1 .. n : results[i] \in Success(i)

\* The first result that tells of a failure is that of the hop that caused it.
Blamed ==
  /\ fault.hop \in 1 .. hop /\ Len(results) = fault.hop /\ Passed(fault.hop - 1)
  /\ results[fault.hop] \in [hop : {fault.hop}, ok : {FALSE}, reason : Reasons(fault.why), key : Keys]
  /\ \A i \in fault.hop .. hop - 1 : chain[i].kind # "ssh"

\* What a connection opens on its way, as it is called in closers.
Opened ==
  {<<"stream", Max({1} \cup {i \in 2..h : chain[i - 1].kind = "ssh"})>> : h \in 1 .. Target}
    \cup {<<"client", h>> : h \in 1 .. Target}

Results == [hop : Nat, ok : BOOLEAN, reason : Words, key : Keys]

DialInv ==
  /\ chain \in Chains /\ hop \in 1 .. Target /\ step \in DialSteps
  /\ presented \in Keys /\ results \in Seq(Results)
  /\ ctx \in {"live", "canceled", "deadline"}
  /\ closers \in Seq(Opened) /\ open \subseteq ToSet(closers)
  /\ step \in {"off", "connect", "greet", "auth", "failing"} =>
       Len(results) = hop - 1 /\ Passed(hop - 1)
  /\ step = "auth" => chain[hop].kind = "ssh" /\ presented = chain[hop].fingerprint
  /\ step = "up" => Len(results) = hop /\ Passed(hop)
  /\ step = "failing" => ErrorFits
  /\ step = "down" => Blamed /\ open = {}
  /\ \A o \in offered : o.hop \in 1 .. hop /\ o.key = chain[o.hop].fingerprint

-----------------------------------------------------------------------------
(* The forwarded port.                                                     *)

Ends == {"none", "open", "closed"}
Served == [pc : {"none", "accepted", "dialling", "dialled", "copying", "done"},
           local : Ends, remote : Ends]

ForwardInv ==
  /\ fwd \in {"off", "open", "closing", "closed"} /\ serving \in [Locals -> Served]
  /\ \A l \in Locals :
       /\ At(l) \in {"dialling", "dialled", "copying"} => <<l, "local">> \in active
       /\ At(l) = "copying" => <<l, "remote">> \in active
       /\ At(l) = "copying" /\ fwd = "closing" => {<<l, "local">>, <<l, "remote">>} \subseteq doomed
       /\ At(l) = "copying" /\ fwd = "closed" => Cut(l)

-----------------------------------------------------------------------------
(* rsync through the connection.                                           *)

Endings == {"ok", "vanished", "error", "local"}

\* An exit frame is in the socket; nothing comes after it.
Exited == frames # <<>> /\ frames[Len(frames)] # "out"
Outputs == IF Exited THEN Len(frames) - 1 ELSE Len(frames)

RshTypes ==
  /\ written \in Nat /\ forwarded \in Nat /\ delivered \in Nat
  /\ frames \in Seq({"out"} \cup Endings)
  /\ cut \in BOOLEAN /\ copier \in {"off", "on", "eof", "failed", "cut"}
  /\ handler \in [pc : {"none", "hello", "session", "wait", "exit", "done"}, code : Endings \cup {"none"}]
  /\ child \in [pc : {"none", "connected", "reading", "ended"},
                code : Endings \cup {"none", "killed"}, said : BOOLEAN]
  /\ remote \in [pc : {"none", "running", "ended"}, code : {"none", "ok", "vanished", "error", "lost"}]

\* The handler and the copy of the output.
HandlerInv ==
  /\ handler.pc \in {"none", "hello", "session"} => copier = "off" /\ remote.pc = "none"
  /\ handler.pc \in {"none", "hello", "session", "wait"} => handler.code = "none" /\ ~Exited
  /\ handler.pc \in {"exit", "done"} => copier # "on"
  /\ handler.pc = "exit" => ~Exited /\ handler.code # "none"
  /\ remote.pc = "ended" => remote.code # "none"
  /\ copier = "eof" => remote.pc = "ended" /\ forwarded = written
  /\ copier = "failed" => cut \/ child.pc = "ended"
  /\ handler.code \in {"ok", "vanished"} =>
       remote.pc = "ended" /\ remote.code = handler.code /\ copier \in {"eof", "failed", "cut"}

\* What the child still has to read.
FramesInv ==
  /\ \A i \in 1 .. Len(frames) - 1 : frames[i] = "out"
  /\ child.pc # "ended" => delivered + Outputs = forwarded
  /\ Exited => handler.pc = "done" /\ frames[Len(frames)] = handler.code
  /\ Exited /\ child.pc # "ended" => copier # "failed"
  /\ child.pc # "ended" => child.code = "none"
  /\ child.code \in {"ok", "vanished"} =>
       /\ remote.pc = "ended" /\ remote.code = child.code /\ copier # "on"
       /\ delivered = forwarded /\ (forwarded = written \/ copier = "cut")

RshInv == RshTypes /\ HandlerInv /\ FramesInv

-----------------------------------------------------------------------------
(* The mirror.                                                             *)

FilePlaces == {"mirror", "truncate", "mark", "serve", "rsync", "copying", "flush", "closing",
               "copied", "backup"}

MirrorInv ==
  /\ MirrorOfSource
  /\ job \in [kind : {"files"}, source : Sources] \cup [kind : {"database"}, source : {NoSource}]
  /\ recorded \in Sources \cup {NoSource}
  /\ at \in FilePlaces => job.source \in Sources
  /\ at \in FilePlaces \ {"mirror"} => contents \subseteq {job.source}
  /\ at \in FilePlaces \ {"mirror", "truncate", "mark"} => recorded = job.source
  /\ at = "mark" => recorded = NoSource
  /\ rsync = "running" => at = "copying"

-----------------------------------------------------------------------------
(* The log.                                                                *)

Levels == {"info", "warn"}
Outcomes == {"success", "warning", "failed"}
Statuses == {"none", "running"} \cup Outcomes
Streams == [pc : {"none", "gone", "saved", "reading", "sending", "waiting", "ended"},
            cursor : Nat, batch : Seq(Levels), last : BOOLEAN, sent : Seq(Levels),
            woken : BOOLEAN, end : Statuses]

\* What a stream has sent is what it was asked for of the lines it has taken note of.
Fits(v, s) ==
  /\ s.cursor \in 0 .. Len(lines)
  /\ s.pc = "none" => s.sent = <<>> /\ s.cursor = 0
  /\ s.pc \in {"reading", "waiting"} => s.sent = Wanted(v, SubSeq(lines, 1, s.cursor))
  /\ s.pc = "sending" => /\ s.sent \o s.batch = Wanted(v, SubSeq(lines, 1, s.cursor))
                         /\ s.last => logDone /\ s.cursor = Len(lines)
  /\ s.pc = "ended" => logDone /\ s.end = status /\ s.sent = Wanted(v, lines)

StreamsInv ==
  /\ lines \in Seq(Levels) /\ logDone \in BOOLEAN /\ status \in {"running"} \cup Outcomes
  /\ record \in [status : Statuses, log : Seq(Levels)]
  /\ streams \in [Viewers -> Streams] /\ \A v \in Viewers : Fits(v, streams[v])

Ending == {"endlog", "cleanup", "unregister", "over"}

RecordInv ==
  /\ lostSaves \in {0, 1} /\ IsPrefix(record.log, lines)
  /\ logDone => at \in Ending \ {"endlog"}
  /\ at \in {"finish", "record"} => outcome \in Outcomes
  /\ at \in Ending \cup {"notify"} => status \in Outcomes
  /\ at = "notify" => record.status = status \/ lostSaves = 1
  /\ at \in Ending => record.status = status

LogInv == StreamsInv /\ RecordInv
-----------------------------------------------------------------------------
(* A step of the run, seen by its parts.                                   *)

ConnNext ==
  \/ Dial \/ Dialling \/ (\E how \in {"canceled", "deadline"} : EndContext(how))
  \/ Forward \/ (\E l \in Locals : Serving(l)) \/ CloseForwarder \/ CutForwarded
  \/ CloseConn \/ CloseChain

LEMMA ConnSteps == [Next]_vars => [ConnNext]_connVars
<1> SUFFICES ASSUME [Next]_vars PROVE [ConnNext]_connVars
  OBVIOUS
<1>1. CASE UNCHANGED vars
  BY <1>1 DEF vars
<1>2. CASE Trigger \/ Register \/ TruncateSource \/ RsyncReturns \/ Flush \/ ShutBridge
  BY <1>2 DEF Trigger, Register, TruncateSource, RsyncReturns, Flush, ShutBridge, Only
<1>3. CASE ClearMirror \/ WriteSource \/ StartBridge \/ StartRsync \/ JudgeRsync \/ Backup
  BY <1>3 DEF ClearMirror, WriteSource, StartBridge, StartRsync, JudgeRsync, Backup, GiveUp, Only
<1>4. CASE Connect \/ DialReturns \/ StartForward \/ DumpSucceeds \/ DumpFails \/ DialStep
  BY <1>4 DEF Connect, DialReturns, StartForward, DumpSucceeds, DumpFails, DialStep, GiveUp, Only, ConnNext
<1>5. CASE ClearAfterwards \/ Finish \/ Notify \/ CloseLog \/ Unregister
  BY <1>5 DEF ClearAfterwards, Finish, Notify, CloseLog, Unregister, Only
<1>6. CASE Cleanup \/ ServeLocal \/ AskStop \/ SendStop \/ Deadline
  BY <1>6 DEF Cleanup, ServeLocal, AskStop, SendStop, Deadline, ConnNext
<1>7. CASE RsyncCalls \/ RsyncEnds \/ KillRsync \/ ChildStep \/ BridgeStep \/ RemoteStep
  BY <1>7 DEF RsyncCalls, RsyncEnds, KillRsync, ChildStep, BridgeStep, RemoteStep
<1>8. CASE \E v \in Viewers : ViewerStep(v) \/ StreamStep(v)
  BY <1>8 DEF ViewerStep, StreamStep
<1> QED
  BY <1>1, <1>2, <1>3, <1>4, <1>5, <1>6, <1>7, <1>8 DEF Next, Engine

RshNext ==
  \/ StartChild \/ ChildSteps \/ Serve \/ Bridging \/ CloseBridge \/ CutBridge
  \/ RemoteWrites \/ RemoteEnds
  \/ /\ KillChild
     /\ UNCHANGED <<bridge, tracked, cut, handler, copier, frames, remote, written, forwarded,
                    delivered>>

LEMMA RshSteps == [Next]_vars => [RshNext]_rshVars
<1> SUFFICES ASSUME [Next]_vars PROVE [RshNext]_rshVars
  OBVIOUS
<1>1. CASE UNCHANGED vars
  BY <1>1 DEF vars
<1>2. CASE Trigger \/ Register \/ TruncateSource \/ RsyncReturns \/ Flush \/ ShutBridge
  BY <1>2 DEF Trigger, Register, TruncateSource, RsyncReturns, Flush, ShutBridge, Only, RshNext
<1>3. CASE ClearMirror \/ WriteSource \/ StartBridge \/ StartRsync \/ JudgeRsync \/ Backup
  BY <1>3 DEF ClearMirror, WriteSource, StartBridge, StartRsync, JudgeRsync, Backup, Only, RshNext
<1>4. CASE Connect \/ DialReturns \/ StartForward \/ DumpSucceeds \/ DumpFails \/ DialStep
  BY <1>4 DEF Connect, DialReturns, StartForward, DumpSucceeds, DumpFails, DialStep, Only
<1>5. CASE ClearAfterwards \/ Finish \/ Notify \/ CloseLog \/ Unregister
  BY <1>5 DEF ClearAfterwards, Finish, Notify, CloseLog, Unregister, Only
<1>6. CASE Cleanup \/ ServeLocal \/ AskStop \/ SendStop \/ Deadline
  BY <1>6 DEF Cleanup, ServeLocal, AskStop, SendStop, Deadline
<1>7. CASE RsyncCalls \/ RsyncEnds \/ KillRsync \/ ChildStep \/ BridgeStep \/ RemoteStep
  BY <1>7 DEF RsyncCalls, RsyncEnds, KillRsync, ChildStep, BridgeStep, RemoteStep, RshNext
<1>8. CASE \E v \in Viewers : ViewerStep(v) \/ StreamStep(v)
  BY <1>8 DEF ViewerStep, StreamStep
<1> QED
  BY <1>1, <1>2, <1>3, <1>4, <1>5, <1>6, <1>7, <1>8 DEF Next, Engine

-----------------------------------------------------------------------------
(* The forwarded port.                                                     *)

\* What a connection becomes, and that it is the only one that does.
LEMMA SetFacts ==
  ASSUME serving \in [Locals -> Served], NEW l \in Locals
  PROVE  \A new \in Served : serving' = [serving EXCEPT ![l] = new] =>
           /\ serving' \in [Locals -> Served] /\ serving'[l] = new
           /\ \A k \in Locals \ {l} : serving'[k] = serving[k]
  OBVIOUS

LEMMA ServingFacts ==
  ASSUME serving \in [Locals -> Served], NEW l \in Locals, Serving(l)
  PROVE  /\ serving' \in [Locals -> Served] /\ \A k \in Locals \ {l} : serving'[k] = serving[k]
         /\ \/ At(l)' \in {"accepted", "done"} /\ active' \in {active, active \ {<<l, "local">>, <<l, "remote">>}}
            \/ fwd = "open" /\ At(l)' = "dialling" /\ active' = active \cup {<<l, "local">>}
            \/ At(l) = "dialling" /\ At(l)' = "dialled" /\ active' = active
            \/ /\ fwd = "open" /\ At(l) = "dialled" /\ At(l)' = "copying"
               /\ active' = active \cup {<<l, "remote">>}
<1>1. CASE AcceptLocal(l)
  BY <1>1, SetFacts DEF AcceptLocal, Set, At, Served, Ends
<1>2. ASSUME Drop(l)
      PROVE  /\ serving' \in [Locals -> Served] /\ \A k \in Locals \ {l} : serving'[k] = serving[k]
             /\ At(l)' = "done" /\ active' = active \ {<<l, "local">>, <<l, "remote">>}
  BY <1>2, SetFacts DEF Drop, Set, At, Served, Ends
<1>3. CASE TrackLocal(l)
  BY <1>2, <1>3 DEF TrackLocal, MayTrack, At, Served
<1>4. CASE DialRemote(l)
  BY <1>2, <1>4 DEF DialRemote, At, Served, Ends
<1>5. CASE TrackRemote(l)
  BY <1>2, <1>5 DEF TrackRemote, MayTrack, At, Served
<1>6. CASE CopyEnds(l)
  BY <1>2, <1>6 DEF CopyEnds
<1> QED
  BY <1>1, <1>3, <1>4, <1>5, <1>6 DEF Serving

LEMMA ForwardKept == ForwardInv /\ [ConnNext]_connVars => ForwardInv'
<1> SUFFICES ASSUME ForwardInv, [ConnNext]_connVars PROVE ForwardInv'
  OBVIOUS
<1>1. CASE UNCHANGED forwardVars
  BY <1>1 DEF ForwardInv, forwardVars, At, Cut
<1>2. CASE UNCHANGED connVars \/ Dial \/ Dialling \/ \E how \in {"canceled", "deadline"} : EndContext(how)
  <2>1. UNCHANGED forwardVars
    BY <1>2 DEF connVars, Dial, Dialling, Connected, ConnectFails, Interrupted, GreetProxy, GreetHost,
             Authenticate, Fail, EndContext, HopUp, Failed, ProxyRefused
  <2> QED
    BY <1>1, <2>1
<1>3. CASE Forward \/ CloseConn
  BY <1>3 DEF Forward, CloseConn, ForwardInv, At, Cut
<1>4. ASSUME NEW l \in Locals, Serving(l) PROVE ForwardInv'
  <2>1. fwd' = fwd /\ doomed' = doomed
    BY <1>4 DEF Serving, AcceptLocal, TrackLocal, DialRemote, TrackRemote, CopyEnds
  <2>2. \A k \in Locals \ {l} : At(k)' = At(k) /\ Cut(k)' = Cut(k)
    BY <1>4, ServingFacts DEF ForwardInv, At, Cut
  <2>3. \A k \in Locals \ {l}, end \in {"local", "remote"} : <<k, end>> \in active' <=> <<k, end>> \in active
    BY <1>4, ServingFacts DEF ForwardInv
  <2>4. /\ At(l)' \in {"dialling", "dialled", "copying"} => <<l, "local">> \in active'
        /\ At(l)' = "copying" => <<l, "remote">> \in active' /\ fwd = "open"
    BY <1>4, ServingFacts DEF ForwardInv
  <2>5. serving' \in [Locals -> Served]
    BY <1>4, ServingFacts DEF ForwardInv
  <2> QED
    BY <2>1, <2>2, <2>3, <2>4, <2>5 DEF ForwardInv
<1>5. CASE CloseForwarder
  BY <1>5 DEF CloseForwarder, ForwardInv, At
<1>6. CASE CutForwarded
  <2>1. /\ serving' \in [Locals -> Served]
        /\ \A l \in Locals : /\ serving'[l].pc = serving[l].pc
                             /\ serving'[l].local = Closed(l, "local")
                             /\ serving'[l].remote = Closed(l, "remote")
    BY <1>6 DEF CutForwarded, ForwardInv, Served, Closed, Ends
  <2> QED
    BY <1>6, <2>1 DEF CutForwarded, ForwardInv, At, Cut, Closed
<1>7. CASE CloseChain
  <2>1. /\ serving' \in [Locals -> Served]
        /\ \A l \in Locals : /\ serving'[l].pc = serving[l].pc /\ serving'[l].local = serving[l].local
                             /\ serving[l].remote = "closed" => serving'[l].remote = "closed"
    BY <1>7 DEF CloseChain, ForwardInv, Served, Ends
  <2> QED
    BY <1>7, <2>1 DEF CloseChain, ForwardInv, At, Cut
<1> QED
  BY <1>2, <1>3, <1>4, <1>5, <1>6, <1>7 DEF ConnNext

LEMMA ForwardInit == Init => ForwardInv
  BY DEF Init, ConnInit, ForwardInv, Served, Ends, Unserved, At

-----------------------------------------------------------------------------
(* Dialling.                                                               *)

LEMMA ToSetConcat ==
  ASSUME NEW S, NEW s \in Seq(S), NEW t \in Seq(S)
  PROVE  ToSet(s \o t) = ToSet(s) \cup ToSet(t)
<1>1. ASSUME NEW i \in DOMAIN s PROVE s[i] \in ToSet(s \o t)
  BY ConcatProperties, LenProperties DEF ToSet
<1>2. ASSUME NEW i \in DOMAIN t PROVE t[i] \in ToSet(s \o t)
  <2>1. Len(s) + i \in DOMAIN (s \o t) /\ (s \o t)[Len(s) + i] = t[i]
    BY ConcatProperties, LenProperties
  <2> QED
    BY <2>1 DEF ToSet
<1>3. ASSUME NEW i \in DOMAIN (s \o t) PROVE (s \o t)[i] \in ToSet(s) \cup ToSet(t)
  <2>1. /\ i \in 1 .. Len(s) + Len(t)
        /\ (s \o t)[i] = IF i <= Len(s) THEN s[i] ELSE t[i - Len(s)]
        /\ DOMAIN s = 1 .. Len(s) /\ DOMAIN t = 1 .. Len(t)
    BY ConcatProperties, LenProperties
  <2> QED
    BY <2>1, LenProperties DEF ToSet
<1> QED
  BY <1>1, <1>2, <1>3 DEF ToSet

LEMMA ToSetAppend ==
  ASSUME NEW S, NEW s \in Seq(S), NEW e \in S
  PROVE  ToSet(Append(s, e)) = ToSet(s) \cup {e}
<1>1. <<e>> \in Seq(S) /\ ToSet(<<e>>) = {e}
  BY DEF ToSet
<1>2. Append(s, e) = s \o <<e>>
  BY AppendIsConcat
<1>3. ToSet(s \o <<e>>) = ToSet(s) \cup ToSet(<<e>>)
  BY <1>1, ToSetConcat
<1> QED
  BY <1>1, <1>2, <1>3

\* The path, and where on it the connection is.
LEMMA PathFacts ==
  ASSUME DialInv
  PROVE  /\ Target \in Nat \ {0} /\ hop \in 1 .. Target /\ Target = Len(chain)
         /\ \A i \in 1 .. Target : chain[i] \in Hops
         /\ chain[Target].kind = "ssh"
         /\ Stream \in Opened /\ Client(hop) \in Opened
<1>1. chain \in Seq(Hops) /\ Len(chain) > 0 /\ chain[Len(chain)].kind = "ssh"
  BY ChainConstants DEF DialInv, Last
<1>2. Len(chain) \in Nat \ {0} /\ \A i \in 1 .. Len(chain) : chain[i] \in Hops
  BY <1>1, LenProperties, ElementOfSeq
<1>3. hop \in 1 .. Target
  BY DEF DialInv
<1>4. Stream \in Opened
  BY <1>3 DEF Stream, Opened
<1>5. Client(hop) \in Opened
  BY <1>3 DEF Client, Opened
<1> QED
  BY <1>1, <1>2, <1>3, <1>4, <1>5 DEF Target

\* The error that says which hop it was and why.
LEMMA FailedSteps ==
  ASSUME DialInv, ConnectFails \/ Interrupted \/ GreetProxy \/ GreetHost \/ Authenticate,
         step' = "failing"
  PROVE  /\ ErrorFits' /\ UNCHANGED <<chain, hop, results, ctx, closers>>
         /\ step \in {"connect", "greet", "auth"}
         /\ open' \subseteq open /\ presented' \in Keys
         /\ \A o \in offered' \ offered : step = "auth" /\ o = [hop |-> hop, key |-> presented]
<1>1. /\ hop \in Nat \ {0} /\ presented \in Keys
      /\ ctx \in {"live", "canceled", "deadline"}
  BY PathFacts DEF DialInv
<1>2. ~ \E more : HopUp(more)
  BY DEF HopUp
<1>3. ASSUME NEW error \in {"mismatch", "unconfirmed", "auth", "net"}, NEW why, Failed(error, hop, why),
             (error = "net" /\ why = "unreachable") \/ (error # "net" /\ why = error)
      PROVE  ErrorFits' /\ UNCHANGED <<chain, hop, results, ctx, closers>>
  <2>1. err' = error /\ fault' = [hop |-> hop, why |-> why] /\ UNCHANGED <<chain, hop, results, ctx, closers>>
    BY <1>3 DEF Failed
  <2>2. fault'.hop = hop /\ fault'.why = why
    BY <2>1
  <2> QED
    BY <1>1, <1>3, <2>1, <2>2 DEF ErrorFits
<1>4. CASE ConnectFails
  <2>1. CASE Failed("net", hop, "unreachable")
    BY <1>1, <1>3, <1>4, <2>1 DEF ConnectFails
  <2>2. CASE Through = "http" /\ ProxyRefused
    <3>1. hop > 1 /\ chain[hop - 1].kind = "http"
      BY <1>1, <2>2 DEF Through
    <3>2. /\ err' = "proxyAuth" /\ fault' = [hop |-> hop - 1, why |-> "auth"]
          /\ UNCHANGED <<chain, hop, results, ctx, closers>>
      BY <2>2 DEF ProxyRefused, Failed
    <3>3. fault'.hop = hop - 1 /\ fault'.why = "auth"
      BY <3>2
    <3>4. ErrorFits'
      BY <1>1, <3>1, <3>2, <3>3 DEF ErrorFits
    <3> QED
      BY <1>1, <1>4, <3>2, <3>4 DEF ConnectFails
  <2> QED
    BY <1>4, <2>1, <2>2 DEF ConnectFails
<1>5. CASE Interrupted
  <2> DEFINE why == IF ctx = "canceled" THEN "canceled" ELSE "timeout"
  <2>1. /\ err' = "ctx" /\ fault' = [hop |-> hop, why |-> why]
        /\ UNCHANGED <<chain, hop, results, ctx, closers>>
        /\ open' \subseteq open /\ offered' = offered /\ presented' = presented
    BY <1>5 DEF Interrupted, Failed
  <2>2. why = "timeout" \/ (why = "canceled" /\ ctx = "canceled")
    OBVIOUS
  <2> HIDE DEF why
  <2>3. fault'.hop = hop /\ fault'.why = why
    BY <2>1
  <2>4. ErrorFits'
    BY <1>1, <2>1, <2>2, <2>3 DEF ErrorFits
  <2> QED
    BY <1>1, <1>5, <2>1, <2>4 DEF Interrupted
<1>6. CASE GreetProxy
  BY <1>1, <1>2, <1>3, <1>6 DEF GreetProxy
<1>7. CASE GreetHost
  <2>1. /\ \E error, why \in {"mismatch", "unconfirmed", "auth", "net", "unreachable"} :
              /\ Failed(error, hop, why)
              /\ \/ error = "net" /\ why = "unreachable"
                 \/ error \in {"mismatch", "unconfirmed", "auth"} /\ why = error
        /\ offered' = offered /\ open' = open /\ presented' \in Keys /\ step = "greet"
    BY <1>1, <1>7 DEF GreetHost, Keys
  <2> QED
    BY <1>3, <2>1
<1>8. CASE Authenticate
  BY <1>1, <1>2, <1>3, <1>8 DEF Authenticate
<1> QED
  BY <1>4, <1>5, <1>6, <1>7, <1>8

\* How a dial can go on: a hop is up, its key is accepted, or it has failed.
LEMMA DiallingSteps ==
  ASSUME ConnectFails \/ Interrupted \/ GreetProxy \/ GreetHost \/ Authenticate
  PROVE  \/ step' = "failing"
         \/ step = "greet" /\ chain[hop].kind # "ssh" /\ HopUp(<<>>) /\ offered' = offered
         \/ /\ step = "auth" /\ HopUp(<<Client(hop)>>)
            /\ \A o \in offered' \ offered : o = [hop |-> hop, key |-> presented]
         \/ /\ step = "greet" /\ step' = "auth" /\ chain[hop].kind = "ssh"
            /\ presented' = chain[hop].fingerprint /\ presented' \in HostKeys
            /\ UNCHANGED <<chain, hop, results, ctx, closers, open, offered>>
  BY DEF ConnectFails, Interrupted, GreetProxy, GreetHost, Authenticate, Failed, ProxyRefused, KeyKnown

\* What is reported is what happened.
LEMMA ReasonFits ==
  ASSUME ErrorFits, ctx \in {"live", "canceled", "deadline"}
  PROVE  Reason \in Reasons(fault.why) /\ Reason \in Words
<1>1. /\ Reasons("auth") = {"auth_failed"} /\ Reasons("mismatch") = {"fingerprint_mismatch"}
      /\ Reasons("unconfirmed") = {"fingerprint_unconfirmed"} /\ Reasons("canceled") = {"canceled"}
      /\ Reasons("timeout") = {"timeout", "canceled"} /\ Reasons("unreachable") = {"unreachable", "canceled"}
  BY DEF Reasons
<1>2. /\ Reason \in Words
      /\ err = "mismatch" => Reason = "fingerprint_mismatch"
      /\ err = "unconfirmed" => Reason = "fingerprint_unconfirmed"
      /\ err \in {"auth", "proxyAuth"} => Reason = "auth_failed"
      /\ err \in {"ctx", "net"} /\ ctx = "canceled" => Reason = "canceled"
      /\ err = "ctx" /\ ctx # "canceled" => Reason = "timeout"
      /\ err = "net" /\ ctx # "canceled" => Reason = "unreachable"
  BY DEF Reason, ErrorFits, Words
<1>4. CASE err \in {"mismatch", "unconfirmed"}
  <2>1. fault.why = err
    BY <1>4 DEF ErrorFits
  <2> QED
    BY <1>1, <1>2, <1>4, <2>1
<1>5. CASE err \in {"auth", "proxyAuth"}
  <2>1. fault.why = "auth"
    BY <1>5 DEF ErrorFits
  <2> QED
    BY <1>1, <1>2, <1>5, <2>1
<1>6. CASE err \in {"ctx", "net"}
  <2>1. \/ fault.why = "unreachable" /\ err = "net"
        \/ fault.why = "timeout" /\ err = "ctx"
        \/ fault.why = "canceled" /\ ctx = "canceled"
    BY <1>6 DEF ErrorFits
  <2> QED
    BY <1>1, <1>2, <1>6, <2>1
<1> QED
  BY <1>4, <1>5, <1>6 DEF ErrorFits

\* The path stays, and with it the names of what may be open.
LEMMA SamePath ==
  ASSUME chain' = chain
  PROVE  Target' = Target /\ Opened' = Opened /\ \A i : Success(i)' = Success(i)
  BY DEF Target, Opened, Success

\* What has opened so far cannot be left behind by the error of a hop.
LEMMA FailStep == ASSUME DialInv, Fail PROVE DialInv'
<1> DEFINE i == IF err = "proxyAuth" THEN hop - 1 ELSE hop
           new == [hop |-> i, ok |-> FALSE, reason |-> Reason, key |-> presented]
           before == SubSeq(results, 1, i - 1)
<1>1. /\ ErrorFits /\ hop \in 1 .. Target /\ hop \in Nat \ {0} /\ Len(results) = hop - 1 /\ Passed(hop - 1)
      /\ results \in Seq(Results) /\ ctx \in {"live", "canceled", "deadline"}
      /\ presented \in Keys /\ open \subseteq ToSet(closers)
  <2>1. hop \in 1 .. Target /\ hop \in Nat \ {0}
    BY PathFacts
  <2> QED
    BY <2>1 DEF Fail, DialInv
<1>2. /\ step' = "down" /\ open' = open \ ToSet(closers) /\ results' = Append(before, new)
      /\ UNCHANGED <<chain, hop, err, presented, fault, offered, ctx, closers>>
  BY DEF Fail
<1>3. i \in {hop - 1, hop} /\ fault.hop = i /\ (i # hop => err = "proxyAuth")
  BY <1>1 DEF ErrorFits
<1>4. err = "proxyAuth" => hop > 1 /\ chain[hop - 1].kind = "http"
  BY <1>1 DEF ErrorFits
<1>5. new \in Results /\ new \in [hop : {i}, ok : {FALSE}, reason : Reasons(fault.why), key : Keys]
  <2>1. Reason \in Reasons(fault.why) /\ Reason \in Words
    BY <1>1, ReasonFits
  <2> HIDE DEF i
  <2>2. i \in Nat
    BY <1>1, <1>3
  <2>3. new \in Results
    BY <1>1, <2>1, <2>2 DEF Results
  <2> QED
    BY <1>1, <2>1, <2>3
<1> HIDE DEF i, new
<1>7. i \in 1 .. hop /\ \A k \in i .. hop - 1 : chain[k].kind # "ssh"
  BY <1>1, <1>3, <1>4
<1>8. /\ before \in Seq(Results) /\ Len(before) = i - 1
      /\ \A k \in 1 .. i - 1 : before[k] = results[k]
  <2>1. \A k \in 1 .. i - 1 : results[k] \in Results
    BY <1>1, <1>3, <1>7, ElementOfSeq
  <2>2. i - 1 \in Int /\ 1 \in Int
    BY <1>1, <1>3, <1>7
  <2> QED
    BY <1>1, <1>3, <1>7, <2>1, <2>2, SubSeqProperties
<1> HIDE DEF before
<1>9. /\ results' \in Seq(Results) /\ Len(results') = i /\ results'[i] = new
      /\ \A k \in 1 .. i - 1 : results'[k] = results[k]
  BY <1>1, <1>2, <1>5, <1>7, <1>8, AppendProperties
<1>10. \A k \in 1 .. i - 1 : results'[k] \in Success(k)'
  BY <1>1, <1>2, <1>3, <1>7, <1>9, SamePath DEF Passed
<1>11. Blamed'
  <2>1. fault' = fault /\ fault'.hop = i
    BY <1>2, <1>3, <1>7
  <2>2. Passed(fault.hop - 1)'
    BY <1>10, <2>1 DEF Passed
  <2> QED
    BY <1>2, <1>5, <1>7, <1>9, <2>1, <2>2 DEF Blamed
<1>12. open' = {}
  BY <1>1, <1>2
<1> QED
  BY <1>1, <1>2, <1>9, <1>11, <1>12, SamePath DEF DialInv, DialSteps

\* One more hop has succeeded.
LEMMA PassedOn ==
  ASSUME DialInv, step \in {"greet", "auth"}, NEW more \in Seq(Opened), HopUp(more),
         chain[hop].kind = "ssh" => presented = chain[hop].fingerprint,
         \A o \in offered' \ offered : step = "auth" /\ o = [hop |-> hop, key |-> presented]
  PROVE  DialInv'
<1> DEFINE new == [hop |-> hop, ok |-> TRUE, reason |-> "none", key |-> presented]
<1>1. hop \in Nat /\ Len(results) = hop - 1 /\ results \in Seq(Results) /\ Passed(hop - 1)
  BY PathFacts DEF DialInv
<1>2. new \in Results /\ new \in Success(hop)
  <2>1. presented \in Keys
    BY DEF DialInv
  <2> QED
    BY <1>1, <2>1 DEF Results, Success, Words
<1>3. results' = Append(results, new) /\ chain' = chain
  BY DEF HopUp
<1> HIDE DEF new
<1>4. /\ Append(results, new) \in Seq(Results) /\ Len(Append(results, new)) = hop
      /\ \A i \in 1 .. hop - 1 : Append(results, new)[i] = results[i]
      /\ Append(results, new)[hop] = new
  BY <1>1, <1>2, AppendProperties
<1>5. \A i \in 1 .. hop : results'[i] \in Success(i)'
  BY <1>1, <1>2, <1>3, <1>4, SamePath DEF Passed
<1>6. closers' \in Seq(Opened) /\ open' \subseteq ToSet(closers')
  <2>1. closers' = closers \o more /\ open' = open \cup ToSet(more)
    BY DEF HopUp
  <2> QED
    BY <2>1, ToSetConcat, ConcatProperties DEF DialInv
<1>7. /\ presented' = NoKey /\ ctx' = ctx
      /\ IF hop = Target THEN step' = "up" /\ hop' = hop ELSE step' = "connect" /\ hop' = hop + 1
  BY DEF HopUp
<1>8. Target' = Target /\ Opened' = Opened /\ hop \in 1 .. Target /\ Target \in Nat
  BY <1>3, PathFacts, SamePath
<1>9. \A o \in offered' : o.hop \in 1 .. hop /\ o.key = chain[o.hop].fingerprint
  <2>1. \A o \in offered : o.hop \in 1 .. hop /\ o.key = chain[o.hop].fingerprint
    BY DEF DialInv
  <2>2. chain[hop].kind = "ssh" \/ step # "auth"
    BY DEF DialInv
  <2> QED
    BY <1>8, <2>1, <2>2
<1>10. chain \in Chains /\ ctx \in {"live", "canceled", "deadline"}
  BY DEF DialInv
<1>11. CASE hop = Target
  <2>1. step' = "up" /\ hop' = hop
    BY <1>7, <1>11
  <2>2. Passed(hop)'
    BY <1>5, <2>1 DEF Passed
  <2> QED
    BY <1>3, <1>4, <1>6, <1>7, <1>8, <1>9, <1>10, <2>1, <2>2 DEF DialInv, DialSteps, Keys
<1>12. CASE hop # Target
  <2>1. step' = "connect" /\ hop' = hop + 1 /\ hop' - 1 = hop /\ hop' \in 1 .. Target
    BY <1>1, <1>7, <1>8, <1>12
  <2>2. Passed(hop - 1)'
    BY <1>5, <2>1 DEF Passed
  <2> QED
    BY <1>1, <1>3, <1>4, <1>6, <1>7, <1>8, <1>9, <1>10, <2>1, <2>2 DEF DialInv, DialSteps, Keys
<1> QED
  BY <1>11, <1>12

\* A step that goes on with the same hop, and may close something or end the context.
LEMMA DialFrame ==
  ASSUME DialInv, UNCHANGED <<chain, hop, step, err, presented, results, fault, offered, closers>>,
         open' \subseteq open, ctx' \in {"live", "canceled", "deadline"}, ctx = "live" \/ ctx' = ctx
  PROVE  DialInv'
<1>1. Target' = Target /\ Opened' = Opened
  BY SamePath
<1>2. (Passed(hop) => Passed(hop)') /\ (Passed(hop - 1) => Passed(hop - 1)')
  BY SamePath DEF Passed
<1>4. step = "failing" => ErrorFits'
  BY DEF DialInv, ErrorFits
<1>5. step = "down" => Blamed'
  BY SamePath DEF DialInv, Blamed, Passed
<1> QED
  BY <1>1, <1>2, <1>4, <1>5 DEF DialInv, DialSteps

LEMMA DialKept == DialInv /\ [ConnNext]_connVars => DialInv'
<1> SUFFICES ASSUME DialInv, [ConnNext]_connVars PROVE DialInv'
  OBVIOUS
<1>1. CASE UNCHANGED dialVars
  <2>1. ctx \in {"live", "canceled", "deadline"}
    BY DEF DialInv
  <2> QED
    BY <1>1, <2>1, DialFrame DEF dialVars
<1>2. CASE UNCHANGED connVars \/ Forward \/ (\E l \in Locals : Serving(l)) \/ CloseForwarder
           \/ CutForwarded \/ CloseConn
  BY <1>1, <1>2 DEF connVars, Forward, Serving, AcceptLocal, TrackLocal, DialRemote, TrackRemote,
       CopyEnds, CloseForwarder, CutForwarded, CloseConn
<1>3. CASE Dial
  BY <1>3, SamePath DEF Dial, DialInv, DialSteps, Passed
<1>4. CASE \E how \in {"canceled", "deadline"} : EndContext(how)
  BY <1>4, DialFrame DEF EndContext
<1>5. CASE CloseChain
  <2>1. ctx \in {"live", "canceled", "deadline"}
    BY DEF DialInv
  <2> QED
    BY <1>5, <2>1, DialFrame DEF CloseChain
<1>6. CASE Connected
  <2>1. /\ step' = "greet" /\ closers' = Append(closers, Stream) /\ open' = open \cup {Stream}
        /\ UNCHANGED <<chain, hop, presented, results, offered, ctx>> /\ step = "connect"
    BY <1>6 DEF Connected
  <2>2. closers' \in Seq(Opened) /\ open' \subseteq ToSet(closers')
    BY <2>1, PathFacts, ToSetAppend, AppendProperties DEF DialInv
  <2> QED
    BY <2>1, <2>2, SamePath DEF DialInv, DialSteps, Passed
<1>7. CASE ConnectFails \/ Interrupted \/ GreetProxy \/ GreetHost \/ Authenticate
  <2>1. CASE step' = "failing"
    <3>1. /\ ErrorFits' /\ UNCHANGED <<chain, hop, results, ctx, closers>>
          /\ step \in {"connect", "greet", "auth"}
          /\ open' \subseteq open /\ presented' \in Keys
          /\ \A o \in offered' \ offered : step = "auth" /\ o = [hop |-> hop, key |-> presented]
      BY <1>7, <2>1, FailedSteps
    <3>2. \A o \in offered' : o.hop \in 1 .. hop /\ o.key = chain[o.hop].fingerprint
      BY <3>1, PathFacts DEF DialInv
    <3> QED
      BY <2>1, <3>1, <3>2, SamePath DEF DialInv, DialSteps, Passed
  <2>3. CASE step = "greet" /\ chain[hop].kind # "ssh" /\ HopUp(<<>>) /\ offered' = offered
    <3>1. <<>> \in Seq(Opened)
      BY EmptySeq
    <3> QED
      BY <2>3, <3>1, PassedOn
  <2>4. CASE /\ step = "auth" /\ HopUp(<<Client(hop)>>)
             /\ \A o \in offered' \ offered : o = [hop |-> hop, key |-> presented]
    <3>1. <<Client(hop)>> \in Seq(Opened)
      BY PathFacts
    <3> QED
      BY <2>4, <3>1, PassedOn DEF DialInv
  <2>5. CASE /\ step = "greet" /\ step' = "auth" /\ chain[hop].kind = "ssh"
             /\ presented' = chain[hop].fingerprint /\ presented' \in HostKeys
             /\ UNCHANGED <<chain, hop, results, ctx, closers, open, offered>>
    BY <2>5, SamePath DEF DialInv, DialSteps, Passed, Keys
  <2> QED
    BY <1>7, <2>1, <2>3, <2>4, <2>5, DiallingSteps
<1>8. CASE Fail
  BY <1>8, FailStep
<1> QED
  BY <1>2, <1>3, <1>4, <1>5, <1>6, <1>7, <1>8 DEF ConnNext, Dialling

LEMMA DialInit == Init => DialInv
<1> SUFFICES ASSUME Init PROVE DialInv
  OBVIOUS
<1>1. /\ chain \in Chains /\ hop = 1 /\ step = "off" /\ presented = NoKey /\ results = <<>>
      /\ offered = {} /\ ctx = "live" /\ closers = <<>> /\ open = {}
  BY StartsAssumption DEF Init, ConnInit
<1>2. Len(chain) \in Nat \ {0}
  BY <1>1, ChainConstants, LenProperties
<1> QED
  BY <1>1, <1>2 DEF DialInv, DialSteps, Target, Passed, Keys

\* The blame and the secrets.
LEMMA DialImplies == DialInv => BlameIsRight
<1> SUFFICES ASSUME DialInv PROVE BlameIsRight
  OBVIOUS
<1>1. hop \in Nat /\ \A o \in offered : o.hop \in 1 .. hop /\ o.key = chain[o.hop].fingerprint
  BY PathFacts DEF DialInv
<1>2. ASSUME NEW o \in offered, NEW i \in 1 .. (o.hop - 1), chain[i].kind = "ssh"
      PROVE  results[i].key = chain[i].fingerprint
  <2>1. i \in 1 .. hop - 1
    BY <1>1
  <2>2. results[i] \in Success(i) \/ chain[i].kind # "ssh"
    <3>1. CASE step = "down"
      BY <1>2, <2>1, <3>1 DEF DialInv, Blamed, Passed
    <3>2. CASE step # "down"
      BY <1>1, <2>1, <3>2 DEF DialInv, DialSteps, Passed
    <3> QED
      BY <3>1, <3>2
  <2> QED
    BY <1>2, <2>2 DEF Success
<1>3. ASSUME step = "down"
      PROVE  /\ Last(results).hop = fault.hop /\ Last(results).reason \in Reasons(fault.why)
             /\ \A i \in DOMAIN results : results[i].hop = i /\ (results[i].ok = (i < Len(results)))
             /\ open = {}
  <2>1. Blamed /\ open = {} /\ results \in Seq(Results) /\ DOMAIN results = 1 .. Len(results)
    BY <1>3, LenProperties DEF DialInv
  <2>2. ASSUME NEW i \in 1 .. Len(results)
        PROVE  results[i].hop = i /\ (results[i].ok = (i < Len(results)))
    <3>1. fault.hop \in Nat /\ Len(results) = fault.hop
      BY <1>1, <2>1 DEF Blamed
    <3>2. CASE i = fault.hop
      <4>1. results[i].hop = i /\ results[i].ok = FALSE
        BY <2>1, <3>2 DEF Blamed, Keys
      <4>2. (i < Len(results)) = FALSE
        BY <3>1, <3>2
      <4> QED
        BY <4>1, <4>2, Zenon
    <3>3. CASE i # fault.hop
      <4>1. i \in 1 .. fault.hop - 1 /\ i < Len(results)
        BY <3>1, <3>3
      <4>2. results[i] \in Success(i)
        BY <2>1, <4>1 DEF Blamed, Passed
      <4> QED
        BY <4>1, <4>2 DEF Success
    <3> QED
      BY <3>2, <3>3
  <2> QED
    BY <2>1, <2>2 DEF Blamed, Last
<1> QED
  BY <1>1, <1>2, <1>3 DEF BlameIsRight, SecretsToKnownHosts

-----------------------------------------------------------------------------
(* rsync through the connection.                                           *)

\* One more frame behind those in the socket.
LEMMA FramesAppend ==
  ASSUME RshInv, ~Exited, NEW f \in {"out"} \cup Endings, frames' = Append(frames, f)
  PROVE  /\ frames' \in Seq({"out"} \cup Endings) /\ Len(frames) \in Nat /\ Outputs = Len(frames)
         /\ Len(frames') = Len(frames) + 1 /\ frames'[Len(frames')] = f
         /\ \A i \in 1 .. Len(frames') - 1 : frames'[i] = "out"
         /\ Exited' <=> f # "out"
         /\ Outputs' = IF f = "out" THEN Len(frames) + 1 ELSE Len(frames)
<1>1. frames \in Seq({"out"} \cup Endings) /\ Len(frames) \in Nat
  BY LenProperties DEF RshInv, RshTypes
<1>2. \A i \in 1 .. Len(frames) : frames[i] = "out"
  <2>1. frames # <<>> => frames[Len(frames)] = "out"
    BY DEF Exited
  <2>2. \A i \in 1 .. Len(frames) - 1 : frames[i] = "out"
    BY DEF RshInv, FramesInv
  <2>3. \A i \in 1 .. Len(frames) : i = Len(frames) \/ i \in 1 .. Len(frames) - 1
    BY <1>1
  <2>4. Len(frames) # 0 => frames # <<>>
    BY <1>1, EmptySeq
  <2> QED
    BY <1>1, <2>1, <2>2, <2>3, <2>4
<1>3. /\ frames' \in Seq({"out"} \cup Endings) /\ frames' # <<>> /\ Len(frames') = Len(frames) + 1
      /\ \A i \in 1 .. Len(frames) : frames'[i] = frames[i]
      /\ frames'[Len(frames) + 1] = f
  BY <1>1, AppendProperties
<1>4. Exited' <=> f # "out"
  BY <1>3 DEF Exited
<1> QED
  BY <1>1, <1>2, <1>3, <1>4 DEF Outputs

\* The first frame is taken.
LEMMA FramesTail ==
  ASSUME RshInv, frames # <<>>, frames' = Tail(frames)
  PROVE  /\ frames' \in Seq({"out"} \cup Endings) /\ Len(frames) \in Nat \ {0}
         /\ \A i \in 1 .. Len(frames') - 1 : frames'[i] = "out"
         /\ Head(frames) \in {"out"} \cup Endings
         /\ Head(frames) = "out" => /\ (Exited' <=> Exited) /\ Outputs' = Outputs - 1
                                    /\ Exited => frames'[Len(frames')] = frames[Len(frames)]
         /\ Head(frames) # "out" => /\ Exited /\ frames[Len(frames)] = Head(frames)
                                    /\ Outputs = 0 /\ ~Exited'
<1> DEFINE n == Len(frames)
<1>1. frames \in Seq({"out"} \cup Endings) /\ n \in Nat \ {0} /\ Head(frames) = frames[1]
      /\ \A i \in 1 .. n - 1 : frames[i] = "out"
  BY EmptySeq DEF RshInv, RshTypes, FramesInv
<1>2. /\ Head(frames) \in {"out"} \cup Endings /\ frames' \in Seq({"out"} \cup Endings)
      /\ Len(frames') = n - 1 /\ \A i \in 1 .. n - 1 : frames'[i] = frames[i + 1]
  BY <1>1, HeadTailProperties
<1> HIDE DEF n
<1>3. \A i \in 1 .. Len(frames') - 1 : frames'[i] = "out"
  BY <1>1, <1>2
<1>4. ASSUME n > 1
      PROVE  /\ Head(frames) = "out" /\ frames' # <<>> /\ frames'[Len(frames')] = frames[n]
             /\ (Exited' <=> Exited) /\ Outputs' = Outputs - 1
  <2>1. Head(frames) = "out" /\ frames'[Len(frames')] = frames[n] /\ Len(frames') # 0
    BY <1>1, <1>2, <1>4
  <2>2. frames' # <<>>
    BY <2>1, EmptySeq
  <2>3. Exited' <=> Exited
    BY <2>1, <2>2 DEF Exited, n
  <2> QED
    BY <1>1, <1>2, <2>1, <2>2, <2>3 DEF Outputs, n
<1>5. ASSUME n = 1
      PROVE  /\ frames' = <<>> /\ ~Exited' /\ Outputs' = 0 /\ frames[n] = Head(frames)
             /\ IF Head(frames) = "out" THEN ~Exited /\ Outputs = 1 ELSE Exited /\ Outputs = 0
  <2>1. frames' = <<>>
    BY <1>2, <1>5, EmptySeq
  <2>2. ~Exited' /\ Len(frames') = 0
    BY <1>2, <1>5, <2>1 DEF Exited
  <2>3. frames[n] = Head(frames)
    BY <1>1, <1>5
  <2>4. Exited <=> Head(frames) # "out"
    BY <2>3 DEF Exited, n
  <2> QED
    BY <1>5, <2>1, <2>2, <2>3, <2>4 DEF Outputs, n
<1>6. n = 1 \/ n > 1
  BY <1>1
<1>7. CASE n = 1
  BY <1>1, <1>2, <1>3, <1>5, <1>7 DEF n
<1>8. CASE n > 1
  BY <1>1, <1>2, <1>3, <1>4, <1>8 DEF n
<1> QED
  BY <1>6, <1>7, <1>8

\* The process opsnap rsh ends, or goes on.
LEMMA ChildFacts ==
  ASSUME RshInv
  PROVE  /\ \A code \in Endings \cup {"killed"} : ChildEnds(code) =>
              /\ child'.pc = "ended" /\ child'.code = code
              /\ child' \in [pc : {"none", "connected", "reading", "ended"},
                             code : Endings \cup {"none", "killed"}, said : BOOLEAN]
         /\ child.pc \in {"none", "connected", "reading", "ended"}
         /\ handler.pc \in {"none", "hello", "session", "wait", "exit", "done"}
         /\ remote.pc \in {"none", "running", "ended"}
  BY DEF RshInv, RshTypes, ChildEnds

\* A step of the child that reads nothing.
LEMMA ChildMoves ==
  ASSUME RshInv,
         UNCHANGED <<cut, handler, copier, frames, remote, written, forwarded, delivered>>,
         child' \in [pc : {"none", "connected", "reading", "ended"},
                     code : Endings \cup {"none", "killed"}, said : BOOLEAN],
         \/ child'.pc # "ended" /\ child.pc # "ended" /\ child'.code = "none"
         \/ child'.pc = "ended" /\ child'.code \notin {"ok", "vanished"}
  PROVE  RshInv'
<1>1. RshTypes'
  BY DEF RshInv, RshTypes
<1>2. Exited' = Exited /\ Outputs' = Outputs
  BY DEF Exited, Outputs
<1>3. HandlerInv'
  BY <1>2 DEF RshInv, HandlerInv
<1>4. FramesInv'
  BY <1>2 DEF RshInv, FramesInv
<1> QED
  BY <1>1, <1>3, <1>4 DEF RshInv

\* A step of the bridge or of the command that leaves the frames and the child alone.
LEMMA BridgeMoves ==
  ASSUME RshInv, RshTypes', UNCHANGED <<frames, child, delivered>>, HandlerInv',
         forwarded' = forwarded,
         Exited => handler' = handler,
         child.code \in {"ok", "vanished"} => remote' = remote /\ written' = written /\ copier' = copier,
         Exited /\ child.pc # "ended" => copier' # "failed"
  PROVE  RshInv'
<1>1. Exited' = Exited /\ Outputs' = Outputs
  BY DEF Exited, Outputs
<1>2. FramesInv'
  BY <1>1 DEF RshInv, FramesInv
<1> QED
  BY <1>2 DEF RshInv

LEMMA ChildKept == ASSUME RshInv, StartChild \/ SendHello \/ ReadFrame PROVE RshInv'
<1>1. CASE StartChild
  <2>1. /\ child' \in [pc : {"none", "connected", "reading", "ended"},
                       code : Endings \cup {"none", "killed"}, said : BOOLEAN]
        /\ child'.pc = "connected" /\ child'.code = child.code /\ child.pc = "none"
    BY <1>1 DEF StartChild, RshInv, RshTypes
  <2>2. child.code = "none"
    BY <2>1 DEF RshInv, FramesInv
  <2> QED
    BY <1>1, <2>1, <2>2, ChildMoves DEF StartChild
<1>2. CASE SendHello
  <2>1. CASE ChildEnds("local")
    BY <1>2, <2>1, ChildMoves, ChildFacts DEF SendHello, Endings
  <2>2. CASE child' = [child EXCEPT !.pc = "reading", !.said = TRUE]
    <3>1. /\ child' \in [pc : {"none", "connected", "reading", "ended"},
                         code : Endings \cup {"none", "killed"}, said : BOOLEAN]
          /\ child'.pc = "reading" /\ child'.code = child.code /\ child.pc = "connected"
      BY <1>2, <2>2 DEF SendHello, RshInv, RshTypes
    <3>2. child.code = "none"
      BY <3>1 DEF RshInv, FramesInv
    <3> QED
      BY <1>2, <3>1, <3>2, ChildMoves DEF SendHello
  <2> QED
    BY <1>2, <2>1, <2>2 DEF SendHello
<1>3. CASE ReadFrame
  <2> USE <1>3
  <2>1. CASE frames = <<>>
    BY <2>1, ChildMoves, ChildFacts DEF ReadFrame, Endings
  <2>2. CASE frames # <<>>
    <3>1. frames' = Tail(frames) /\ child.pc = "reading"
          /\ UNCHANGED <<cut, handler, copier, remote, written, forwarded>>
      BY <2>2 DEF ReadFrame
    <3>2. /\ frames' \in Seq({"out"} \cup Endings) /\ Len(frames) \in Nat \ {0}
          /\ \A i \in 1 .. Len(frames') - 1 : frames'[i] = "out"
          /\ Head(frames) \in {"out"} \cup Endings
          /\ Head(frames) = "out" => /\ (Exited' <=> Exited) /\ Outputs' = Outputs - 1
                                     /\ Exited => frames'[Len(frames')] = frames[Len(frames)]
          /\ Head(frames) # "out" => /\ Exited /\ frames[Len(frames)] = Head(frames)
                                     /\ Outputs = 0 /\ ~Exited'
      BY <2>2, <3>1, FramesTail
    <3>3. Outputs \in Int /\ delivered + Outputs = forwarded /\ delivered \in Nat /\ child.code = "none"
      BY <3>1, <3>2 DEF RshInv, FramesInv, RshTypes, Outputs
    <3>4. Exited' => Exited
      BY <3>2
    <3>5. HandlerInv'
      BY <3>1, <3>4 DEF RshInv, HandlerInv
    <3>6. CASE Head(frames) = "out" /\ delivered' = delivered + 1 /\ child' = child
      <4>1. RshTypes'
        BY <3>1, <3>2, <3>3, <3>6 DEF RshInv, RshTypes
      <4>2. delivered' + Outputs' = forwarded'
        BY <3>1, <3>2, <3>3, <3>6
      <4>3. FramesInv'
        BY <3>1, <3>2, <3>3, <3>6, <4>2 DEF RshInv, FramesInv
      <4> QED
        BY <3>5, <3>6, <4>1, <4>3 DEF RshInv
    <3>7. CASE Head(frames) = "out" /\ ChildEnds("local") /\ delivered' = delivered
      <4>1. /\ child'.pc = "ended" /\ child'.code = "local"
            /\ child' \in [pc : {"none", "connected", "reading", "ended"},
                           code : Endings \cup {"none", "killed"}, said : BOOLEAN]
        BY <3>7, ChildFacts DEF Endings
      <4>2. RshTypes'
        BY <3>1, <3>2, <3>7, <4>1 DEF RshInv, RshTypes
      <4>3. FramesInv'
        BY <3>1, <3>2, <4>1 DEF RshInv, FramesInv
      <4> QED
        BY <3>5, <4>1, <4>2, <4>3 DEF RshInv
    <3>8. CASE Head(frames) # "out" /\ ChildEnds(Head(frames)) /\ delivered' = delivered
      <4>1. /\ child'.pc = "ended" /\ child'.code = Head(frames)
            /\ child' \in [pc : {"none", "connected", "reading", "ended"},
                           code : Endings \cup {"none", "killed"}, said : BOOLEAN]
        BY <3>2, <3>8, ChildFacts
      <4>2. RshTypes'
        BY <3>1, <3>2, <3>8, <4>1 DEF RshInv, RshTypes
      <4>3. handler.code = Head(frames) /\ copier # "failed"
        BY <3>1, <3>2, <3>8 DEF RshInv, FramesInv
      <4>4. Head(frames) \in {"ok", "vanished"} =>
              /\ remote.pc = "ended" /\ remote.code = Head(frames) /\ copier # "on"
              /\ forwarded = written \/ copier = "cut"
        BY <4>3 DEF RshInv, HandlerInv
      <4>5. FramesInv'
        BY <3>1, <3>2, <3>3, <3>8, <4>1, <4>4 DEF RshInv, FramesInv
      <4> QED
        BY <3>5, <4>1, <4>2, <4>5 DEF RshInv
    <3> QED
      BY <2>2, <3>6, <3>7, <3>8 DEF ReadFrame
  <2> QED
    BY <2>1, <2>2
<1> QED
  BY <1>1, <1>2, <1>3

LEMMA KillKept ==
  ASSUME RshInv, KillChild,
         UNCHANGED <<cut, handler, copier, frames, remote, written, forwarded, delivered>>
  PROVE  RshInv'
<1>1. CASE ChildEnds("killed")
  BY <1>1, ChildMoves, ChildFacts DEF Endings
<1>2. CASE child' = child
  BY <1>2 DEF RshInv, RshTypes, HandlerInv, FramesInv, Exited, Outputs
<1> QED
  BY <1>1, <1>2 DEF KillChild

LEMMA BridgeKept ==
  ASSUME RshInv, Serve \/ Accept \/ ReadHello \/ OpenSession \/ Wait \/ CloseBridge \/ CutBridge
  PROVE  RshInv'
<1> USE ChildFacts
<1>1. CASE Serve \/ CloseBridge
  <2>1. UNCHANGED <<cut, handler, copier, frames, child, remote, written, forwarded, delivered>>
    BY <1>1 DEF Serve, CloseBridge
  <2>2. RshTypes'
    BY <2>1 DEF RshInv, RshTypes
  <2>3. Exited' = Exited
    BY <2>1 DEF Exited
  <2>4. HandlerInv'
    BY <2>1, <2>3 DEF RshInv, HandlerInv
  <2>5. Exited /\ child.pc # "ended" => copier' # "failed"
    BY <2>1 DEF RshInv, FramesInv
  <2> QED
    BY <2>1, <2>2, <2>4, <2>5, BridgeMoves
<1>2. CASE CutBridge
  <2>1. cut' \in BOOLEAN /\ (cut => cut') /\ UNCHANGED <<handler, copier, frames, child, remote, written,
                                                        forwarded, delivered>>
    BY <1>2 DEF CutBridge, RshInv, RshTypes
  <2>2. RshTypes' /\ HandlerInv'
    BY <2>1 DEF RshInv, RshTypes, HandlerInv, Exited
  <2> QED
    BY <2>1, <2>2, BridgeMoves DEF RshInv, FramesInv
<1>3. ASSUME handler.pc \in {"none", "hello"}, NEW pc \in {"hello", "session", "done"}, Handle(pc), cut' \in {cut, TRUE},
             UNCHANGED <<copier, frames, child, remote, written, forwarded, delivered>>
      PROVE  RshInv'
  <2>1. /\ handler'.pc = pc /\ handler'.code = handler.code
        /\ handler' \in [pc : {"none", "hello", "session", "wait", "exit", "done"}, code : Endings \cup {"none"}]
    BY <1>3 DEF Handle, RshInv, RshTypes
  <2>2. ~Exited /\ handler.code = "none" /\ copier = "off" /\ remote.pc = "none"
    BY <1>3 DEF RshInv, HandlerInv
  <2>3. cut' \in BOOLEAN /\ (cut => cut')
    <3>1. cut \in BOOLEAN
      BY DEF RshInv, RshTypes
    <3>2. CASE cut' = cut
      BY <3>1, <3>2
    <3>3. CASE cut' = TRUE
      BY <3>3
    <3> QED
      BY <1>3, <3>2, <3>3
  <2>4. RshTypes'
    BY <1>3, <2>1, <2>3 DEF RshInv, RshTypes
  <2>5. Exited' = Exited
    BY <1>3 DEF Exited
  <2>6. HandlerInv'
    BY <1>3, <2>1, <2>2, <2>5 DEF RshInv, HandlerInv
  <2> QED
    BY <1>3, <2>2, <2>4, <2>6, BridgeMoves
<1>4. CASE Accept
  BY <1>3, <1>4 DEF Accept
<1>5. CASE ReadHello
  BY <1>3, <1>5 DEF ReadHello
<1>6. CASE OpenSession
  <2>1. ~Exited /\ handler.code = "none" /\ copier = "off" /\ remote.pc = "none" /\ handler.pc = "session"
        /\ UNCHANGED <<cut, frames, child, written, forwarded, delivered>>
    BY <1>6 DEF OpenSession, RshInv, HandlerInv
  <2>2. child.code \notin {"ok", "vanished"}
    BY <2>1 DEF RshInv, FramesInv
  <2>3. CASE Handle("wait") /\ copier' = "on" /\ remote' = [remote EXCEPT !.pc = "running"]
    <3>1. /\ handler'.pc = "wait" /\ handler'.code = "none"
          /\ handler' \in [pc : {"none", "hello", "session", "wait", "exit", "done"}, code : Endings \cup {"none"}]
          /\ remote' \in [pc : {"none", "running", "ended"}, code : {"none", "ok", "vanished", "error", "lost"}]
      BY <2>1, <2>3 DEF Handle, RshInv, RshTypes
    <3>2. RshTypes' /\ HandlerInv'
      BY <2>1, <2>3, <3>1 DEF RshInv, RshTypes, HandlerInv, Exited
    <3>3. copier' # "failed" /\ forwarded' = forwarded
      BY <2>1, <2>3
    <3> QED
      BY <2>1, <2>2, <3>2, <3>3, BridgeMoves
  <2>4. CASE handler' = [pc |-> "exit", code |-> "local"] /\ UNCHANGED <<copier, remote>>
    <3>1. RshTypes' /\ HandlerInv'
      BY <2>1, <2>4 DEF RshInv, RshTypes, HandlerInv, Exited, Endings
    <3>2. copier' = copier /\ remote' = remote /\ copier' # "failed"
      BY <2>1, <2>4
    <3> QED
      BY <2>1, <3>1, <3>2, BridgeMoves
  <2> QED
    BY <1>6, <2>3, <2>4 DEF OpenSession
<1>7. CASE Wait
  <2> DEFINE code == IF remote.code \in {"vanished", "error"} THEN remote.code
                     ELSE IF remote.code = "lost" \/ copier = "failed" THEN "local" ELSE "ok"
  <2>1. /\ handler.pc = "wait" /\ remote.pc = "ended" /\ copier \in {"eof", "failed", "cut"}
        /\ handler' = [pc |-> "exit", code |-> code]
        /\ UNCHANGED <<cut, copier, frames, child, remote, written, forwarded, delivered>>
    BY <1>7 DEF Wait, OutputCopied
  <2>2. ~Exited
    BY <2>1 DEF RshInv, HandlerInv
  <2>3. code \in Endings
    BY DEF RshInv, RshTypes, Endings
  <2>4. code \in {"ok", "vanished"} => remote.code = code
    BY <2>1 DEF RshInv, RshTypes, HandlerInv
  <2> HIDE DEF code
  <2>6. handler'.pc = "exit" /\ handler'.code = code
    BY <2>1
  <2>7. RshTypes'
    BY <2>1, <2>3 DEF RshInv, RshTypes
  <2>8. code # "none"
    BY <2>3 DEF Endings
  <2>9. HandlerInv'
    BY <2>1, <2>2, <2>4, <2>6, <2>8 DEF RshInv, HandlerInv, Exited
  <2> QED
    BY <2>1, <2>2, <2>7, <2>9, BridgeMoves
<1> QED
  BY <1>1, <1>2, <1>4, <1>5, <1>6, <1>7

LEMMA OutputKept ==
  ASSUME RshInv, CopyOutput \/ SendExit \/ RemoteWrites \/ RemoteEnds
  PROVE  RshInv'
<1> USE ChildFacts
<1>1. CASE CopyOutput
  <2>1. copier = "on" /\ UNCHANGED <<cut, handler, child, remote, written, delivered>>
    BY <1>1 DEF CopyOutput
  <2>2. handler.pc = "wait"
    BY <2>1 DEF RshInv, RshTypes, HandlerInv
  <2>3. handler.code = "none" /\ ~Exited /\ child.code \notin {"ok", "vanished"}
    BY <2>1, <2>2 DEF RshInv, HandlerInv, FramesInv
  <2>4. CASE UNCHANGED <<frames, forwarded>>
    <3>1. \/ copier' = "failed" /\ (cut \/ child.pc = "ended")
          \/ copier' = "eof" /\ remote.pc = "ended" /\ forwarded = written
          \/ copier' = "cut"
      BY <1>1, <2>4 DEF CopyOutput
    <3>2. RshTypes' /\ HandlerInv'
      BY <2>1, <2>2, <2>3, <2>4, <3>1 DEF RshInv, RshTypes, HandlerInv, Exited
    <3> QED
      BY <2>1, <2>3, <2>4, <3>2, BridgeMoves
  <2>5. CASE frames' = Append(frames, "out") /\ forwarded' = forwarded + 1 /\ copier' = copier /\ child.pc # "ended"
    <3>1. /\ frames' \in Seq({"out"} \cup Endings) /\ Len(frames) \in Nat /\ Outputs = Len(frames)
          /\ \A i \in 1 .. Len(frames') - 1 : frames'[i] = "out"
          /\ ~Exited' /\ Outputs' = Len(frames) + 1
      BY <2>3, <2>5, FramesAppend
    <3>2. RshTypes' /\ HandlerInv'
      <4>1. RshTypes'
        BY <2>1, <2>5, <3>1 DEF RshInv, RshTypes
      <4>2. copier' = "on" /\ ~Exited'
        BY <2>1, <2>5, <3>1
      <4>3. HandlerInv'
        BY <2>1, <2>2, <2>3, <4>2 DEF RshInv, HandlerInv
      <4> QED
        BY <4>1, <4>3
    <3>3. delivered' + Outputs' = forwarded'
      <4>1. delivered + Outputs = forwarded
        BY <2>5 DEF RshInv, FramesInv
      <4>2. delivered \in Nat /\ forwarded \in Nat
        BY DEF RshInv, RshTypes
      <4> QED
        BY <2>1, <2>5, <3>1, <4>1, <4>2
    <3>4. FramesInv'
      BY <2>1, <2>5, <3>1, <3>3 DEF RshInv, FramesInv
    <3> QED
      BY <3>2, <3>4 DEF RshInv
  <2> QED
    BY <1>1, <2>4, <2>5 DEF CopyOutput
<1>2. CASE SendExit
  <2>1. /\ handler.pc = "exit" /\ Handle("done") /\ cut' = TRUE
        /\ UNCHANGED <<copier, child, remote, written, forwarded, delivered>>
        /\ frames' = IF cut THEN frames ELSE Append(frames, handler.code)
    BY <1>2 DEF SendExit
  <2>2. /\ handler'.pc = "done" /\ handler'.code = handler.code /\ handler.code \in Endings /\ ~Exited
        /\ copier # "on"
        /\ handler' \in [pc : {"none", "hello", "session", "wait", "exit", "done"}, code : Endings \cup {"none"}]
    BY <2>1 DEF Handle, RshInv, RshTypes, HandlerInv
  <2>3. CASE cut
    <3>1. frames' = frames /\ Exited' = Exited /\ Outputs' = Outputs
      BY <2>1, <2>3 DEF Exited, Outputs
    <3>2. RshTypes' /\ HandlerInv'
      BY <2>1, <2>2, <3>1 DEF RshInv, RshTypes, HandlerInv
    <3>3. FramesInv'
      BY <2>1, <2>2, <3>1 DEF RshInv, FramesInv
    <3> QED
      BY <3>2, <3>3 DEF RshInv
  <2>4. CASE ~cut
    <3>1. frames' = Append(frames, handler.code) /\ handler.code # "out"
      BY <2>1, <2>2, <2>4 DEF Endings
    <3>2. /\ frames' \in Seq({"out"} \cup Endings) /\ Outputs' = Outputs
          /\ \A i \in 1 .. Len(frames') - 1 : frames'[i] = "out"
          /\ frames'[Len(frames')] = handler.code
      BY <2>2, <3>1, FramesAppend
    <3>3. RshTypes' /\ HandlerInv'
      BY <2>1, <2>2, <3>2 DEF RshInv, RshTypes, HandlerInv
    <3>4. child.pc # "ended" => copier # "failed"
      BY <2>4 DEF RshInv, HandlerInv
    <3>5. FramesInv'
      BY <2>1, <2>2, <3>2, <3>4 DEF RshInv, FramesInv
    <3> QED
      BY <3>3, <3>5 DEF RshInv
  <2> QED
    BY <2>3, <2>4
<1>3. CASE RemoteWrites
  <2>1. /\ remote.pc = "running" /\ written' = written + 1
        /\ UNCHANGED <<cut, handler, copier, frames, child, remote, forwarded, delivered>>
    BY <1>3 DEF RemoteWrites
  <2>2. child.code \notin {"ok", "vanished"}
    BY <2>1 DEF RshInv, FramesInv
  <2>3. RshTypes' /\ HandlerInv'
    BY <2>1 DEF RshInv, RshTypes, HandlerInv, Exited
  <2> QED
    BY <2>1, <2>2, <2>3, BridgeMoves DEF RshInv, FramesInv
<1>4. CASE RemoteEnds
  <2>1. /\ remote.pc = "running" /\ remote'.pc = "ended" /\ remote'.code # "none"
        /\ remote' \in [pc : {"none", "running", "ended"}, code : {"none", "ok", "vanished", "error", "lost"}]
        /\ UNCHANGED <<cut, handler, copier, frames, child, written, forwarded, delivered>>
    BY <1>4 DEF RemoteEnds
  <2>2. child.code \notin {"ok", "vanished"} /\ handler.code \notin {"ok", "vanished"}
    BY <2>1 DEF RshInv, FramesInv, HandlerInv
  <2>3. RshTypes' /\ HandlerInv'
    BY <2>1, <2>2 DEF RshInv, RshTypes, HandlerInv, Exited
  <2> QED
    BY <2>1, <2>2, <2>3, BridgeMoves DEF RshInv, FramesInv
<1> QED
  BY <1>1, <1>2, <1>3, <1>4

LEMMA RshKept == RshInv /\ [RshNext]_rshVars => RshInv'
<1> SUFFICES ASSUME RshInv, [RshNext]_rshVars PROVE RshInv'
  OBVIOUS
<1>1. CASE UNCHANGED rshVars
  BY <1>1 DEF rshVars, RshInv, RshTypes, HandlerInv, FramesInv, Exited, Outputs
<1> QED
  BY <1>1, ChildKept, BridgeKept, OutputKept, KillKept DEF RshNext, ChildSteps, Bridging

LEMMA RshStart == Init => RshInv
<1> SUFFICES ASSUME Init PROVE RshInv
  OBVIOUS
<1>1. RshInit
  BY DEF Init
<1>2. ~Exited /\ Outputs = 0
  BY <1>1 DEF RshInit, Exited, Outputs
<1>3. /\ handler = [pc |-> "none", code |-> "none"] /\ remote = [pc |-> "none", code |-> "none"]
      /\ child = [pc |-> "none", code |-> "none", said |-> FALSE]
      /\ cut = FALSE /\ copier = "off" /\ frames = <<>>
      /\ written = 0 /\ forwarded = 0 /\ delivered = 0
  BY <1>1 DEF RshInit
<1>4. child \in [pc : {"none", "connected", "reading", "ended"},
                code : Endings \cup {"none", "killed"}, said : BOOLEAN]
  <2> DEFINE no == FALSE
  <2>1. no \in BOOLEAN /\ child = [pc |-> "none", code |-> "none", said |-> no]
    BY <1>3
  <2> HIDE DEF no
  <2> QED
    BY <2>1
<1>5. RshTypes
  BY <1>3, <1>4, EmptySeq DEF RshTypes
<1>6. child.pc = "none" /\ child.code = "none" /\ handler.code = "none" /\ handler.pc = "none"
      /\ remote.pc = "none"
  BY <1>3
<1>7. HandlerInv
  BY <1>2, <1>3, <1>6 DEF HandlerInv
<1>8. FramesInv
  BY <1>2, <1>3, <1>6 DEF FramesInv
<1> QED
  BY <1>5, <1>7, <1>8 DEF RshInv

LEMMA RshImplies == RshInv => ExitIsTrue
  BY DEF RshInv, FramesInv, ExitIsTrue


LEMMA ForwardImplies == ForwardInv => ForwardCut
  BY DEF ForwardInv, ForwardCut, Cut

-----------------------------------------------------------------------------
(* The mirror. *)

LEMMA MirrorInit == Init => MirrorInv
<1> SUFFICES ASSUME Init PROVE MirrorInv
  OBVIOUS
<1>1. PICK s \in Starts : job = s.job /\ recorded = s.recorded /\ contents = s.contents
  BY DEF Init
<1>2. /\ job \in [kind : {"files"}, source : Sources] \cup [kind : {"database"}, source : {NoSource}]
      /\ recorded \in Sources \cup {NoSource}
      /\ recorded \in Sources => contents \subseteq {recorded}
  BY <1>1, StartsAssumption
<1>3. at = "idle" /\ rsync = "off" /\ snapshot = {}
  BY DEF Init
<1> QED
  BY <1>2, <1>3 DEF MirrorInv, MirrorOfSource, FilePlaces

\* The run goes on without touching the mirror.
LEMMA MirrorMoves ==
  ASSUME MirrorInv, UNCHANGED <<job, recorded, contents, snapshot>>,
         rsync' = rsync \/ rsync' # "running", rsync' = "running" => at' = at,
         \/ at' = at
         \/ at' \notin FilePlaces
         \/ at' = "mirror" /\ job.source \in Sources
         \/ at = "serve" /\ at' = "rsync"
         \/ at = "rsync" /\ at' = "flush"
         \/ at = "copying" /\ at' = "flush"
         \/ at = "flush" /\ at' = "closing"
         \/ at = "closing" /\ at' = "copied"
         \/ at = "copied" /\ at' = "backup"
  PROVE  MirrorInv'
  BY DEF MirrorInv, MirrorOfSource, FilePlaces

LEMMA MirrorKept == MirrorInv /\ [Next]_vars => MirrorInv'
<1> SUFFICES ASSUME MirrorInv, [Next]_vars PROVE MirrorInv'
  OBVIOUS
<1>1. CASE UNCHANGED engineVars
  BY <1>1, MirrorMoves DEF engineVars
<1>2. CASE AskStop \/ SendStop
  BY <1>2, MirrorMoves DEF AskStop, SendStop
<1>3. CASE Trigger \/ Register \/ Connect \/ StartForward \/ DumpSucceeds \/ DumpFails
  <2>1. /\ UNCHANGED <<job, recorded, contents, rsync, snapshot>> /\ at' \notin FilePlaces
        /\ at \notin FilePlaces
    BY <1>3 DEF Trigger, Register, Connect, StartForward, DumpSucceeds, DumpFails, GiveUp, FilePlaces
  <2>2. rsync # "running"
    BY <2>1 DEF MirrorInv, FilePlaces
  <2> QED
    BY <2>1, <2>2, MirrorMoves
<1>4. CASE DialReturns
  <2>1. /\ UNCHANGED <<job, recorded, contents, rsync, snapshot>> /\ at = "dialling"
        /\ at' \in {"finish", "forward"} \/ (at' = "mirror" /\ job.kind = "files")
    BY <1>4 DEF DialReturns, Only, GiveUp
  <2>2. rsync # "running" /\ (job.kind = "files" => job.source \in Sources)
    BY <2>1 DEF MirrorInv
  <2> QED
    BY <2>1, <2>2, MirrorMoves DEF FilePlaces
<1>5. CASE ClearMirror
  <2>1. /\ UNCHANGED <<job, recorded, rsync>> /\ at = "mirror" /\ at' \in {"truncate", "finish"}
        /\ snapshot' = snapshot
        /\ contents' = contents \/ contents' = {}
        /\ at' = "truncate" => contents' = IF recorded = job.source THEN contents ELSE {}
    BY <1>5 DEF ClearMirror, Only, GiveUp
  <2> QED
    BY <2>1 DEF MirrorInv, MirrorOfSource, FilePlaces
<1>6. CASE TruncateSource \/ WriteSource
  <2>1. CASE TruncateSource
    BY <2>1, StartsAssumption DEF TruncateSource, Only, MirrorInv, MirrorOfSource, FilePlaces
  <2>2. CASE WriteSource
    <3>1. /\ UNCHANGED <<job, contents, rsync, snapshot>> /\ at = "mark"
          /\ \/ recorded' = job.source /\ at' = "serve"
             \/ recorded' = recorded /\ at' = "finish"
      BY <2>2 DEF WriteSource, Only, GiveUp
    <3> QED
      BY <3>1 DEF MirrorInv, MirrorOfSource, FilePlaces
  <2> QED
    BY <1>6, <2>1, <2>2
<1>7. CASE StartRsync
  <2>1. /\ UNCHANGED <<job, recorded, snapshot>> /\ at = "rsync"
        /\ \/ rsync' = "running" /\ contents' = contents \cup {job.source} /\ at' = "copying"
           \/ rsync' = "killed" /\ contents' = contents /\ at' = "flush"
    BY <1>7 DEF StartRsync, Only
  <2> QED
    BY <2>1 DEF MirrorInv, MirrorOfSource, FilePlaces
<1>8. CASE RsyncEnds \/ KillRsync
  <2>1. UNCHANGED <<at, job, recorded, contents, snapshot>> /\ rsync' \in {"error", "ok", "vanished", "killed"}
    BY <1>8 DEF RsyncEnds, KillRsync
  <2> QED
    BY <2>1, MirrorMoves
<1>9. CASE StartBridge \/ RsyncReturns \/ Flush \/ ShutBridge \/ JudgeRsync
  <2>1. /\ UNCHANGED <<job, recorded, contents, rsync, snapshot>> /\ (rsync # "running" \/ at' = at)
        /\ \/ at = "serve" /\ at' = "rsync"
           \/ at = "copying" /\ at' = "flush"
           \/ at = "flush" /\ at' = "closing"
           \/ at = "closing" /\ at' \in {"closing", "copied"}
           \/ at = "copied" /\ at' = "backup"
           \/ at' = "finish"
    BY <1>9 DEF StartBridge, RsyncReturns, Flush, ShutBridge, JudgeRsync, Only, GiveUp, MirrorInv
  <2> QED
    BY <2>1, MirrorMoves DEF FilePlaces
<1>10. CASE Backup
  <2>1. /\ UNCHANGED <<job, recorded, contents, rsync>> /\ at = "backup" /\ at' = "finish"
        /\ snapshot' \in {snapshot, contents}
    BY <1>10 DEF Backup, GiveUp
  <2> QED
    BY <2>1 DEF MirrorInv, MirrorOfSource, FilePlaces
<1>11. CASE ClearAfterwards
  <2>1. /\ UNCHANGED <<job, recorded, rsync, snapshot>> /\ at = "finish" /\ at' = "record"
        /\ contents' \in {contents, {}}
    BY <1>11 DEF ClearAfterwards, Only
  <2> QED
    BY <2>1 DEF MirrorInv, MirrorOfSource, FilePlaces
<1>12. CASE Finish \/ Notify \/ CloseLog \/ Cleanup \/ Unregister
  <2>1. /\ UNCHANGED <<job, recorded, contents, rsync, snapshot>> /\ at \notin FilePlaces
        /\ at' \notin FilePlaces
    BY <1>12 DEF Finish, Notify, CloseLog, Cleanup, Unregister, Only, FilePlaces
  <2>2. rsync # "running"
    BY <2>1 DEF MirrorInv, FilePlaces
  <2> QED
    BY <2>1, <2>2, MirrorMoves
<1>13. CASE DialStep \/ Deadline \/ RsyncCalls \/ ChildStep \/ BridgeStep \/ RemoteStep \/ ServeLocal
  BY <1>1, <1>13 DEF DialStep, Deadline, RsyncCalls, ChildStep, BridgeStep, RemoteStep, ServeLocal
<1>14. CASE \E v \in Viewers : ViewerStep(v) \/ StreamStep(v)
  BY <1>1, <1>14 DEF ViewerStep, StreamStep
<1>15. CASE UNCHANGED vars
  BY <1>1, <1>15 DEF vars
<1> QED
  BY <1>2, <1>3, <1>4, <1>5, <1>6, <1>7, <1>8, <1>9, <1>10, <1>11, <1>12, <1>13, <1>14, <1>15
     DEF Next, Engine
-----------------------------------------------------------------------------
(* What a viewer of warnings is sent.  Induction over the numbers follows  *)
(* from there being a least number in every set of numbers that is not     *)
(* empty.                                                                  *)

Below == {p \in Nat \X Nat : p[1] < p[2]}
LEMMA BelowWellFounded == IsWellFoundedOn(Below, Nat)
  BY NatLessThanWellFounded DEF OpToRel, Below

\* A property of numbers that 0 has, and each number that follows one that has it.
LEMMA Induction ==
  ASSUME NEW T, 0 \in T, \A n \in Nat : n \in T => n + 1 \in T
  PROVE  Nat \subseteq T
<1> SUFFICES ASSUME Nat \ T # {} PROVE FALSE
  OBVIOUS
<1>1. PICK n \in Nat \ T : \A m \in Nat \ T : <<m, n>> \notin Below
  BY BelowWellFounded, WFMin
<1>2. n # 0 /\ n - 1 \in Nat
  OBVIOUS
<1>3. <<n - 1, n>> \in Below
  BY <1>2 DEF Below
<1>4. n - 1 \in T
  BY <1>1, <1>2, <1>3
<1> QED
  BY <1>2, <1>4

Step(kept, line) == IF line = "warn" THEN Append(kept, line) ELSE kept
Keeps(some, n, f) == f = [i \in 0 .. n |-> IF i = 0 THEN <<>> ELSE Step(f[i - 1], some[i])]

LEMMA KeepsExists == ASSUME NEW some PROVE \A n \in Nat : \E f : Keeps(some, n, f)
<1> DEFINE T == {n \in Nat : \E f : Keeps(some, n, f)}
<1>1. 0 \in T
  <2>1. Keeps(some, 0, [i \in 0 .. 0 |-> <<>>])
    BY DEF Keeps
  <2> QED
    BY <2>1
<1>2. ASSUME NEW n \in T PROVE n + 1 \in T
  <2>1. PICK f : Keeps(some, n, f)
    OBVIOUS
  <2> DEFINE g == [i \in 0 .. n + 1 |-> IF i <= n THEN f[i] ELSE Step(f[n], some[n + 1])]
             h == [i \in 0 .. n + 1 |-> IF i = 0 THEN <<>> ELSE Step(g[i - 1], some[i])]
  <2>2. f = [i \in 0 .. n |-> IF i = 0 THEN <<>> ELSE Step(f[i - 1], some[i])]
    BY <2>1 DEF Keeps
  <2>3. ASSUME NEW i \in 0 .. n + 1 PROVE g[i] = h[i]
    <3>1. CASE i = 0
      BY <2>2, <3>1
    <3>2. CASE i \in 1 .. n
      <4>1. g[i] = f[i] /\ g[i - 1] = f[i - 1]
        BY <3>2
      <4>2. f[i] = Step(f[i - 1], some[i])
        BY <2>2, <3>2
      <4> QED
        BY <3>2, <4>1, <4>2
    <3>3. CASE i = n + 1
      BY <3>3
    <3> QED
      BY <3>1, <3>2, <3>3
  <2>4. g = h
    BY <2>3
  <2>5. Keeps(some, n + 1, g)
    BY <2>4 DEF Keeps
  <2> QED
    BY <2>5
<1> HIDE DEF T
<1>3. \A n \in Nat : n \in T => n + 1 \in T
  BY <1>2
<1>4. Nat \subseteq T
  BY <1>1, <1>3, Induction
<1> QED
  BY <1>4 DEF T

\* Two selections agree as long as the lines do.
LEMMA KeepsAgree ==
  ASSUME NEW some, NEW other, NEW n \in Nat, NEW m \in Nat, n <= m, NEW f, NEW g,
         Keeps(some, n, f), Keeps(other, m, g), \A i \in 1 .. n : some[i] = other[i]
  PROVE  f[n] = g[n]
<1> DEFINE T == {i \in Nat : i <= n => f[i] = g[i]}
<1>1. /\ f = [i \in 0 .. n |-> IF i = 0 THEN <<>> ELSE Step(f[i - 1], some[i])]
      /\ g = [i \in 0 .. m |-> IF i = 0 THEN <<>> ELSE Step(g[i - 1], other[i])]
  BY DEF Keeps
<1>2. 0 \in T
  <2>1. f[0] = <<>> /\ g[0] = <<>>
    BY <1>1
  <2> QED
    BY <2>1
<1>3. ASSUME NEW i \in T PROVE i + 1 \in T
  <2> SUFFICES ASSUME i + 1 <= n PROVE f[i + 1] = g[i + 1]
    OBVIOUS
  <2>1. f[i + 1] = Step(f[i], some[i + 1]) /\ g[i + 1] = Step(g[i], other[i + 1])
    BY <1>1
  <2> QED
    BY <2>1
<1> HIDE DEF T
<1>4. Nat \subseteq T
  BY <1>2, <1>3, Induction
<1> QED
  BY <1>4 DEF T

LEMMA WarningsIs ==
  ASSUME NEW some, Len(some) \in Nat
  PROVE  \E f : Keeps(some, Len(some), f) /\ Warnings(some) = f[Len(some)]
<1> DEFINE f == CHOOSE f : Keeps(some, Len(some), f)
<1>1. Keeps(some, Len(some), f)
  BY KeepsExists
<1>2. Warnings(some) = f[Len(some)]
  BY DEF Warnings, Keeps, Step
<1> QED
  BY <1>1, <1>2

LEMMA WarningsOfNone == Warnings(<<>>) = <<>>
<1>1. PICK f : Keeps(<<>>, 0, f) /\ Warnings(<<>>) = f[0]
  BY WarningsIs
<1> QED
  BY <1>1 DEF Keeps

LEMMA WarningsOfAppend ==
  ASSUME NEW some \in Seq(Levels), NEW line \in Levels
  PROVE  Warnings(Append(some, line)) = Step(Warnings(some), line)
<1> DEFINE n == Len(some)
           more == Append(some, line)
<1>1. n \in Nat /\ Len(more) = n + 1 /\ more[n + 1] = line /\ \A i \in 1 .. n : some[i] = more[i]
  BY AppendProperties
<1> HIDE DEF n, more
<1>2. PICK f : Keeps(some, n, f) /\ Warnings(some) = f[n]
  BY <1>1, WarningsIs DEF n
<1>3. PICK g : Keeps(more, n + 1, g) /\ Warnings(more) = g[n + 1]
  BY <1>1, WarningsIs
<1>4. f[n] = g[n]
  BY <1>1, <1>2, <1>3, KeepsAgree
<1>5. g[n + 1] = Step(g[n], more[n + 1])
  BY <1>1, <1>3 DEF Keeps
<1> QED
  BY <1>1, <1>2, <1>3, <1>4, <1>5 DEF more

\* What is selected of lines and of more lines is selected of the two together.
LEMMA WarningsOfConcat ==
  ASSUME NEW a \in Seq(Levels), NEW b \in Seq(Levels)
  PROVE  /\ Warnings(b) \in Seq(Levels)
         /\ Warnings(a \o b) = Warnings(a) \o Warnings(b)
<1> DEFINE Typed(s) == Warnings(s) \in Seq(Levels)
           Splits(s, t) == Warnings(s \o t) = Warnings(s) \o Warnings(t)
           T == {n \in Nat : \A t \in Seq(Levels) : Len(t) = n => Typed(t)}
           U == {n \in Nat : \A s, t \in Seq(Levels) : Len(t) = n => Splits(s, t)}
<1>1. ASSUME NEW t \in Seq(Levels), NEW n \in Nat, Len(t) = n + 1
      PROVE  \E s \in Seq(Levels), x \in Levels : t = Append(s, x) /\ Len(s) = n
  <2>1. t # <<>>
    BY <1>1, EmptySeq
  <2>2. PICK s \in Seq(Levels), x \in Levels : t = Append(s, x)
    BY <2>1, SequenceEmptyOrAppend
  <2>3. Len(s) = n
    BY <1>1, <2>2, AppendProperties, LenProperties
  <2> QED
    BY <2>2, <2>3
<1>2. \A t \in Seq(Levels) : Len(t) = 0 => t = <<>>
  BY EmptySeq
<1>3. Typed(<<>>)
  BY WarningsOfNone, EmptySeq
<1>4. ASSUME NEW s \in Seq(Levels), NEW x \in Levels, Typed(s) PROVE Typed(Append(s, x))
  BY <1>4, WarningsOfAppend, AppendProperties DEF Step
<1> HIDE DEF Typed
<1>5. 0 \in T
  BY <1>2, <1>3
<1>6. ASSUME NEW n \in T PROVE n + 1 \in T
  <2> SUFFICES ASSUME NEW t \in Seq(Levels), Len(t) = n + 1 PROVE Typed(t)
    OBVIOUS
  <2>1. PICK s \in Seq(Levels), x \in Levels : t = Append(s, x) /\ Len(s) = n
    BY <1>1
  <2>2. Typed(s)
    BY <2>1
  <2> QED
    BY <1>4, <2>1, <2>2
<1> HIDE DEF T
<1>7. Nat \subseteq T
  BY <1>5, <1>6, Induction
<1>8. \A t \in Seq(Levels) : Typed(t)
  BY <1>7, LenProperties DEF T
<1>9. ASSUME NEW s \in Seq(Levels) PROVE Splits(s, <<>>)
  <2>1. s \o <<>> = s /\ Warnings(s) \o <<>> = Warnings(s)
    BY <1>8, ConcatEmptySeq DEF Typed
  <2> QED
    BY <2>1, WarningsOfNone
<1>10. ASSUME NEW s \in Seq(Levels), NEW t \in Seq(Levels), NEW x \in Levels, Splits(s, t)
       PROVE  Splits(s, Append(t, x))
  <2>1. s \o t \in Seq(Levels) /\ Warnings(s) \in Seq(Levels) /\ Warnings(t) \in Seq(Levels)
    BY <1>8, ConcatProperties DEF Typed
  <2>2. ASSUME NEW p \in Seq(Levels), NEW q \in Seq(Levels) PROVE p \o Append(q, x) = Append(p \o q, x)
    <3>1. <<x>> \in Seq(Levels) /\ p \o q \in Seq(Levels)
      BY ConcatProperties
    <3> QED
      BY <3>1, AppendIsConcat, ConcatAssociative
  <2>3. Warnings(s \o Append(t, x)) = Step(Warnings(s \o t), x)
    BY <2>1, <2>2, WarningsOfAppend
  <2>4. Step(Warnings(s) \o Warnings(t), x) = Warnings(s) \o Step(Warnings(t), x)
    BY <2>1, <2>2 DEF Step
  <2> QED
    BY <1>10, <2>3, <2>4, WarningsOfAppend
<1> HIDE DEF Splits
<1>11. 0 \in U
  BY <1>2, <1>9
<1>12. ASSUME NEW n \in U PROVE n + 1 \in U
  <2> SUFFICES ASSUME NEW s \in Seq(Levels), NEW t \in Seq(Levels), Len(t) = n + 1 PROVE Splits(s, t)
    OBVIOUS
  <2>1. PICK r \in Seq(Levels), x \in Levels : t = Append(r, x) /\ Len(r) = n
    BY <1>1
  <2>2. Splits(s, r)
    BY <2>1
  <2> QED
    BY <1>10, <2>1, <2>2
<1> HIDE DEF U
<1>13. Nat \subseteq U
  BY <1>11, <1>12, Induction
<1> QED
  BY <1>8, <1>13, LenProperties DEF U, Typed, Splits

LEMMA WantedConcat ==
  ASSUME NEW v \in Viewers, NEW a \in Seq(Levels), NEW b \in Seq(Levels)
  PROVE  /\ Wanted(v, b) \in Seq(Levels) /\ Wanted(v, <<>>) = <<>>
         /\ Wanted(v, a \o b) = Wanted(v, a) \o Wanted(v, b)
  BY WarningsOfConcat, WarningsOfNone DEF Wanted

\* Lines that are added leave those before them.
LEMMA LinesAdded ==
  ASSUME NEW old \in Seq(Levels), NEW new \in Seq(Levels)
  PROVE  /\ old \o new \in Seq(Levels) /\ Len(old) <= Len(old \o new) /\ IsPrefix(old, old \o new)
         /\ \A n \in 0 .. Len(old) : SubSeq(old \o new, 1, n) = SubSeq(old, 1, n)
<1>1. old \o new \in Seq(Levels) /\ Len(old \o new) = Len(old) + Len(new) /\ Len(old) \in Nat /\ Len(new) \in Nat
  BY ConcatProperties, LenProperties
<1>2. ASSUME NEW n \in 0 .. Len(old) PROVE SubSeq(old \o new, 1, n) = SubSeq(old, 1, n)
  <2>1. CASE n = 0
    BY <2>1, SubSeqEmpty
  <2>2. CASE n # 0
    BY <1>1, <2>2, SubSeqOfConcat1
  <2> QED
    BY <2>1, <2>2
<1> QED
  BY <1>1, <1>2 DEF IsPrefix

LEMMA PrefixKept ==
  ASSUME NEW a \in Seq(Levels), NEW b \in Seq(Levels), NEW c \in Seq(Levels),
         IsPrefix(a, b), IsPrefix(b, c)
  PROVE  IsPrefix(a, c)
<1>1. /\ Len(a) \in Nat /\ Len(b) \in Nat /\ Len(c) \in Nat /\ Len(a) <= Len(b) /\ Len(b) <= Len(c)
      /\ SubSeq(a, 1, Len(a)) = SubSeq(b, 1, Len(a)) /\ SubSeq(b, 1, Len(b)) = SubSeq(c, 1, Len(b))
  BY LenProperties DEF IsPrefix
<1>2. b = SubSeq(c, 1, Len(b))
  BY <1>1, SubSeqFull
<1>3. SubSeq(c, 1, Len(a)) = SubSeq(b, 1, Len(a))
  <2>1. CASE Len(a) = 0
    BY <2>1, SubSeqEmpty
  <2>2. CASE Len(a) # 0
    BY <1>1, <1>2, <2>2, SubSeqOfSubSeq
  <2> QED
    BY <2>1, <2>2
<1> QED
  BY <1>1, <1>3 DEF IsPrefix

LEMMA SelfPrefix == ASSUME NEW a \in Seq(Levels) PROVE IsPrefix(a, a)
  BY LenProperties DEF IsPrefix

Same(s, r) == /\ r.pc = s.pc /\ r.cursor = s.cursor /\ r.batch = s.batch /\ r.last = s.last
              /\ r.sent = s.sent /\ r.end = s.end

LEMMA WokenOnly ==
  ASSUME streams \in [Viewers -> Streams]
  PROVE  Woken \in [Viewers -> Streams] /\ \A v \in Viewers : Same(streams[v], Woken[v])
<1> DEFINE w(v) == streams[v].woken \/ streams[v].pc \in {"sending", "waiting"}
<1>1. ASSUME NEW v \in Viewers PROVE Woken[v] \in Streams /\ Same(streams[v], Woken[v])
  <2>1. Woken[v] = [streams[v] EXCEPT !.woken = w(v)]
    BY DEF Woken
  <2>2. w(v) \in BOOLEAN
    OBVIOUS
  <2> HIDE DEF w
  <2> QED
    BY <2>1, <2>2 DEF Streams, Same
<1>2. Woken = [v \in Viewers |-> Woken[v]]
  BY DEF Woken
<1> QED
  BY <1>1, <1>2

\* The run adds to the log.
LEMMA StreamsAdd ==
  ASSUME StreamsInv, NEW new \in Seq(Levels), Add(new), logDone' = logDone,
         status' = status \/ (~logDone /\ status' \in Outcomes),
         record' \in [status : Statuses, log : Seq(Levels)]
  PROVE  StreamsInv' /\ IsPrefix(lines, lines')
<1>1. lines \in Seq(Levels) /\ streams \in [Viewers -> Streams] /\ \A v \in Viewers : Fits(v, streams[v])
  BY DEF StreamsInv
<1>2. /\ lines' \in Seq(Levels) /\ Len(lines) <= Len(lines') /\ IsPrefix(lines, lines')
      /\ \A n \in 0 .. Len(lines) : SubSeq(lines', 1, n) = SubSeq(lines, 1, n)
      /\ logDone => lines' = lines
  <2>1. CASE lines' = lines
    BY <1>1, <2>1, SelfPrefix, LenProperties
  <2>2. CASE ~logDone /\ lines' = lines \o new
    BY <1>1, <2>2, LinesAdded
  <2> QED
    BY <2>1, <2>2 DEF Add, Accepts
<1>3. streams' \in [Viewers -> Streams] /\ \A v \in Viewers : Same(streams[v], streams'[v])
  BY <1>1, WokenOnly DEF Add, Same
<1>4. ASSUME NEW v \in Viewers PROVE Fits(v, streams[v])'
  <2> DEFINE s == streams[v]
             r == streams'[v]
  <2>1. Fits(v, s) /\ Same(s, r)
    BY <1>1, <1>3
  <2>2. Len(lines) \in Nat /\ Len(lines') \in Nat
    BY <1>1, <1>2, LenProperties
  <2> HIDE DEF s, r
  <2>3. /\ r.cursor \in 0 .. Len(lines')
        /\ SubSeq(lines', 1, r.cursor) = SubSeq(lines, 1, s.cursor)
    BY <1>2, <2>1, <2>2 DEF Fits, Same
  <2>4. /\ r.pc = "none" => r.sent = <<>> /\ r.cursor = 0
        /\ r.pc \in {"reading", "waiting"} => r.sent = Wanted(v, SubSeq(lines', 1, r.cursor))
        /\ r.pc = "sending" => /\ r.sent \o r.batch = Wanted(v, SubSeq(lines', 1, r.cursor))
                               /\ r.last => logDone' /\ r.cursor = Len(lines')
        /\ r.pc = "ended" => logDone' /\ r.end = status' /\ r.sent = Wanted(v, lines')
    BY <1>2, <2>1, <2>3 DEF Fits, Same
  <2> QED
    BY <2>3, <2>4 DEF Fits, r
<1>5. status' \in {"running"} \cup Outcomes
  BY DEF StreamsInv
<1> QED
  BY <1>2, <1>3, <1>4, <1>5 DEF StreamsInv

\* The log ends, and every stream that listens is told.
LEMMA StreamsEnd ==
  ASSUME StreamsInv, EndLog, UNCHANGED <<lines, status, record>>
  PROVE  StreamsInv'
<1>1. streams' \in [Viewers -> Streams] /\ \A v \in Viewers : Same(streams[v], streams'[v])
  BY WokenOnly DEF EndLog, StreamsInv
<1>2. ASSUME NEW v \in Viewers PROVE Fits(v, streams[v])'
  <2> DEFINE s == streams[v]
             r == streams'[v]
  <2>1. Fits(v, s) /\ Same(s, r)
    BY <1>1 DEF StreamsInv
  <2>2. logDone' /\ lines' = lines /\ status' = status
    BY DEF EndLog
  <2> HIDE DEF s, r
  <2>3. /\ r.cursor \in 0 .. Len(lines')
        /\ r.pc = "none" => r.sent = <<>> /\ r.cursor = 0
        /\ r.pc \in {"reading", "waiting"} => r.sent = Wanted(v, SubSeq(lines', 1, r.cursor))
        /\ r.pc = "sending" => /\ r.sent \o r.batch = Wanted(v, SubSeq(lines', 1, r.cursor))
                               /\ r.last => logDone' /\ r.cursor = Len(lines')
        /\ r.pc = "ended" => logDone' /\ r.end = status' /\ r.sent = Wanted(v, lines')
    BY <2>1, <2>2 DEF Fits, Same
  <2> QED
    BY <2>3 DEF Fits, r
<1>3. logDone' \in BOOLEAN
  BY DEF EndLog
<1> QED
  BY <1>1, <1>2, <1>3 DEF StreamsInv

\* One stream moves on, and the log stays as it is.
LEMMA OneStream ==
  ASSUME StreamsInv, NEW v \in Viewers, NEW r \in Streams, Fits(v, r),
         streams' = [streams EXCEPT ![v] = r], UNCHANGED <<lines, logDone, status, record>>
  PROVE  StreamsInv'
<1>1. streams' \in [Viewers -> Streams]
  BY DEF StreamsInv
<1>2. ASSUME NEW w \in Viewers PROVE Fits(w, streams[w])'
  <2> DEFINE s == streams'[w]
  <2>1. Fits(w, s)
    BY DEF StreamsInv
  <2> HIDE DEF s
  <2>2. /\ s.cursor \in 0 .. Len(lines)
        /\ s.pc = "none" => s.sent = <<>> /\ s.cursor = 0
        /\ s.pc \in {"reading", "waiting"} => s.sent = Wanted(w, SubSeq(lines, 1, s.cursor))
        /\ s.pc = "sending" => s.sent \o s.batch = Wanted(w, SubSeq(lines, 1, s.cursor))
        /\ s.pc = "sending" /\ s.last => s.cursor = Len(lines)
        /\ s.pc = "ended" => s.end = status /\ s.sent = Wanted(w, lines)
    BY <2>1 DEF Fits
  <2>3. (s.pc = "sending" /\ s.last) \/ s.pc = "ended" => logDone'
    BY <2>1 DEF Fits
  <2> QED
    BY <2>2, <2>3 DEF Fits, s
<1> QED
  BY <1>1, <1>2 DEF StreamsInv

\* A stream that is no longer read from the log.
LEMMA StreamMoves ==
  ASSUME StreamsInv, NEW v \in Viewers, NEW pc \in {"gone", "reading"},
         Move(v, pc), UNCHANGED <<lines, logDone, status, record>>,
         pc = "reading" => streams[v].pc \in {"none", "waiting"}
  PROVE  StreamsInv'
<1> DEFINE s == streams[v]
           r == [s EXCEPT !.pc = pc]
<1>1. s \in Streams /\ Fits(v, s) /\ lines \in Seq(Levels)
  BY DEF StreamsInv
<1>2. streams' = [streams EXCEPT ![v] = r]
  BY DEF Move
<1>3. pc = "reading" => s.pc \in {"none", "waiting"}
  OBVIOUS
<1> HIDE DEF s
<1>4. r \in Streams /\ r.pc = pc /\ r.cursor = s.cursor /\ r.sent = s.sent
  BY <1>1 DEF Streams
<1>5. s.pc = "none" => s.sent = Wanted(v, SubSeq(lines, 1, s.cursor))
  <2>1. SubSeq(lines, 1, 0) = <<>> /\ Wanted(v, <<>>) = <<>>
    BY <1>1, WantedConcat, SubSeqEmpty
  <2> QED
    BY <1>1, <2>1 DEF Fits
<1> HIDE DEF r
<1>6. Fits(v, r)
  BY <1>1, <1>3, <1>4, <1>5 DEF Fits
<1> QED
  BY <1>2, <1>4, <1>6, OneStream

LEMMA SubscribeKept ==
  ASSUME StreamsInv, NEW v \in Viewers, Subscribe(v)
  PROVE  StreamsInv'
<1>1. CASE registered
  BY <1>1, StreamMoves DEF Subscribe
<1>2. CASE ~registered
  <2> DEFINE s == streams[v]
             r == [s EXCEPT !.pc = "saved", !.sent = Wanted(v, record.log), !.end = record.status]
  <2>1. s \in Streams /\ Fits(v, s) /\ record.log \in Seq(Levels) /\ record.status \in Statuses
    BY DEF StreamsInv
  <2>2. Wanted(v, record.log) \in Seq(Levels)
    BY <2>1, WantedConcat
  <2>3. streams' = [streams EXCEPT ![v] = r] /\ UNCHANGED <<lines, logDone, status, record>>
    BY <1>2 DEF Subscribe
  <2> HIDE DEF s
  <2>4. r \in Streams /\ r.pc = "saved" /\ r.cursor = s.cursor
    BY <2>1, <2>2 DEF Streams
  <2> HIDE DEF r
  <2>5. Fits(v, r)
    BY <2>1, <2>4 DEF Fits
  <2> QED
    BY <2>3, <2>4, <2>5, OneStream
<1> QED
  BY <1>1, <1>2

LEMMA SinceKept ==
  ASSUME StreamsInv, NEW v \in Viewers, Since(v), logDone \in BOOLEAN
  PROVE  StreamsInv'
<1> DEFINE s == streams[v]
           new == SubSeq(lines, s.cursor + 1, Len(lines))
           r == [s EXCEPT !.pc = "sending", !.batch = Wanted(v, new), !.cursor = s.cursor + Len(new),
                          !.last = logDone, !.woken = FALSE]
<1>1. /\ s \in Streams /\ Fits(v, s) /\ lines \in Seq(Levels) /\ s.pc = "reading"
      /\ streams' = [streams EXCEPT ![v] = r] /\ UNCHANGED <<lines, logDone, status, record>>
  BY DEF StreamsInv, Since, Advance
<1> HIDE DEF s
<1>2. Len(lines) \in Nat /\ s.cursor \in 0 .. Len(lines) /\ s.sent = Wanted(v, SubSeq(lines, 1, s.cursor))
  BY <1>1, LenProperties DEF Fits
<1>3. /\ new \in Seq(Levels) /\ Len(new) = Len(lines) - s.cursor
      /\ SubSeq(lines, 1, s.cursor) \in Seq(Levels)
      /\ SubSeq(lines, 1, s.cursor) \o new = lines /\ SubSeq(lines, 1, Len(lines)) = lines
  <2>1. \A i \in 1 .. Len(lines) : lines[i] \in Levels
    BY <1>1, ElementOfSeq
  <2>2. new \in Seq(Levels) /\ Len(new) = Len(lines) - s.cursor
    BY <1>2, <2>1, SubSeqProperties
  <2>3. SubSeq(lines, 1, s.cursor) \in Seq(Levels)
    BY <1>2, <2>1, SubSeqProperties
  <2>4. SubSeq(lines, 1, s.cursor) \o new = SubSeq(lines, 1, Len(lines))
    <3>1. 1 \in 1 .. Len(lines) + 1 /\ s.cursor \in 1 - 1 .. Len(lines) /\ Len(lines) \in s.cursor .. Len(lines)
      BY <1>2
    <3> QED
      BY <1>1, <3>1, ConcatAdjacentSubSeq
  <2> QED
    BY <1>1, <2>2, <2>3, <2>4, SubSeqFull
<1> HIDE DEF new
<1>4. /\ Wanted(v, new) \in Seq(Levels)
      /\ s.sent \o Wanted(v, new) = Wanted(v, lines)
  BY <1>2, <1>3, WantedConcat
<1>5. s.cursor + Len(new) = Len(lines)
  BY <1>2, <1>3
<1>6. /\ r \in Streams /\ r.pc = "sending" /\ r.batch = Wanted(v, new) /\ r.sent = s.sent
      /\ r.cursor = Len(lines)
  <2> DEFINE no == FALSE
  <2>1. no \in BOOLEAN /\ r = [s EXCEPT !.pc = "sending", !.batch = Wanted(v, new), !.cursor = s.cursor + Len(new),
                                        !.last = logDone, !.woken = no]
    OBVIOUS
  <2> HIDE DEF no, r
  <2> QED
    BY <1>1, <1>2, <1>4, <1>5, <2>1 DEF Streams
<1>7. r.last = logDone
  <2> HIDE DEF new
  <2> QED
    BY <1>1 DEF Streams
<1> HIDE DEF r
<1>8. Fits(v, r)
  <2>1. r.sent \o r.batch = Wanted(v, SubSeq(lines, 1, r.cursor))
    BY <1>3, <1>4, <1>6
  <2>2. r.last => logDone /\ r.cursor = Len(lines)
    BY <1>6, <1>7
  <2>3. r.cursor \in 0 .. Len(lines)
    BY <1>2, <1>6
  <2> QED
    BY <1>6, <2>1, <2>2, <2>3 DEF Fits
<1> QED
  BY <1>1, <1>6, <1>8, OneStream

LEMMA EmitKept ==
  ASSUME StreamsInv, NEW v \in Viewers, Emit(v)
  PROVE  StreamsInv'
<1> DEFINE s == streams[v]
           t == [s EXCEPT !.sent = s.sent \o s.batch, !.batch = <<>>]
<1>1. s \in Streams /\ Fits(v, s) /\ lines \in Seq(Levels) /\ s.pc = "sending" /\ Sent(v) = t
      /\ status \in Statuses
      /\ UNCHANGED <<lines, logDone, status, record>>
  BY DEF StreamsInv, Emit, Sent, Statuses
<1>2. CASE Move(v, "gone")
  BY <1>1, <1>2, StreamMoves
<1>3. CASE Onward(v, [Sent(v) EXCEPT !.pc = "waiting"])
  <2> DEFINE done == [t EXCEPT !.pc = "ended", !.end = status]
             more == [t EXCEPT !.pc = "waiting"]
             r == IF s.last THEN done ELSE more
  <2>1. streams' = [streams EXCEPT ![v] = r]
    BY <1>1, <1>3 DEF Onward
  <2> HIDE DEF s
  <2>2. s.sent \o s.batch \in Seq(Levels) /\ <<>> \in Seq(Levels)
    BY <1>1, ConcatProperties, EmptySeq DEF Streams
  <2>3. t \in Streams /\ t.cursor = s.cursor /\ t.sent = s.sent \o s.batch
    BY <1>1, <2>2 DEF Streams
  <2> HIDE DEF t
  <2>4. /\ done \in Streams /\ done.pc = "ended" /\ done.end = status /\ done.sent = s.sent \o s.batch
        /\ done.cursor = s.cursor
        /\ more \in Streams /\ more.pc = "waiting" /\ more.sent = s.sent \o s.batch
        /\ more.cursor = s.cursor
    BY <1>1, <2>3 DEF Streams
  <2> HIDE DEF done, more
  <2>5. Fits(v, more)
    BY <1>1, <2>4 DEF Fits
  <2>6. s.last => Fits(v, done)
    BY <1>1, <2>4, SubSeqFull DEF Fits
  <2> QED
    BY <1>1, <2>1, <2>4, <2>5, <2>6, OneStream
<1> QED
  BY <1>2, <1>3 DEF Emit

LEMMA StreamKept ==
  ASSUME StreamsInv, logDone \in BOOLEAN, NEW v \in Viewers, ViewerStep(v) \/ StreamStep(v)
  PROVE  StreamsInv'
<1>1. CASE Leave(v)
  BY <1>1, StreamMoves DEF Leave
<1>2. CASE Await(v)
  BY <1>2, StreamMoves DEF Await
<1> QED
  BY <1>1, <1>2, SubscribeKept, SinceKept, EmitKept DEF ViewerStep, StreamStep, Reading

\* What a step does to the log: nothing, a line, a save, the end, or a step of one stream.
Quiet == UNCHANGED <<lines, logDone, status, record, lostSaves, streams>>
Adds == /\ \E new \in {<<"info">>, <<"warn">>, <<>>} : Add(new)
        /\ UNCHANGED <<logDone, status, record, lostSaves>>

LEMMA LogSteps ==
  ASSUME [Next]_vars
  PROVE  \/ Quiet /\ at' = at /\ outcome' = outcome
         \/ Quiet /\ at' \notin Ending \cup {"notify"} /\ at \notin Ending \cup {"notify"}
            /\ (at' \in {"finish", "record"} =>
                  outcome' \in Outcomes \/ (at \in {"finish", "record"} /\ outcome' = outcome))
         \/ Quiet /\ at \in Ending \ {"endlog"} /\ at' \in Ending \ {"endlog"}
         \/ Adds /\ at' = at /\ outcome' = outcome
         \/ Adds /\ at' \notin Ending \cup {"notify"} /\ at \notin Ending \cup {"notify"}
            /\ (at' \in {"finish", "record"} => outcome' \in Outcomes)
         \/ Trigger \/ Flush \/ Finish \/ Notify \/ CloseLog
         \/ \E v \in Viewers : ViewerStep(v) \/ StreamStep(v)
<1>1. CASE UNCHANGED vars
  BY <1>1 DEF vars, engineVars, logVars, Quiet
<1>2. CASE Register \/ AskStop
  BY <1>2 DEF Register, AskStop, Adds, Ending
<1>3. CASE SendStop \/ Deadline \/ DialStep \/ RsyncCalls \/ RsyncEnds \/ KillRsync
  BY <1>3 DEF SendStop, Deadline, DialStep, RsyncCalls, RsyncEnds, KillRsync, engineVars, logVars, Quiet
<1>4. CASE ChildStep \/ BridgeStep \/ RemoteStep \/ ServeLocal
  BY <1>4 DEF ChildStep, BridgeStep, RemoteStep, ServeLocal, engineVars, logVars, Quiet
<1>5. CASE Connect \/ StartForward \/ DumpFails
  BY <1>5 DEF Connect, StartForward, DumpFails, GiveUp, Ending, Outcomes, logVars, Quiet, Adds
<1>6. CASE DialReturns \/ ClearMirror \/ WriteSource
  BY <1>6 DEF DialReturns, ClearMirror, WriteSource, Only, GiveUp, Ending, Outcomes, logVars, Quiet, Adds
<1>7. CASE StartBridge \/ JudgeRsync \/ Backup
  BY <1>7 DEF StartBridge, JudgeRsync, Backup, Only, GiveUp, Ending, Outcomes, logVars, Quiet, Adds
<1>8. CASE TruncateSource \/ StartRsync \/ RsyncReturns \/ ShutBridge \/ DumpSucceeds
  BY <1>8 DEF TruncateSource, StartRsync, RsyncReturns, ShutBridge, DumpSucceeds, Only, Ending, Outcomes,
              logVars, Quiet
<1>9. CASE ClearAfterwards
  BY <1>9 DEF ClearAfterwards, Only, Ending, logVars, Quiet
<1>10. CASE Cleanup \/ Unregister
  BY <1>10 DEF Cleanup, Unregister, Only, Ending, logVars, Quiet
<1> QED
  BY <1>1, <1>2, <1>3, <1>4, <1>5, <1>6, <1>7, <1>8, <1>9, <1>10 DEF Next, Engine

LEMMA QuietKept == ASSUME StreamsInv, Quiet PROVE StreamsInv'
<1>1. ASSUME NEW v \in Viewers PROVE Fits(v, streams[v])'
  <2>1. Fits(v, streams[v])
    BY DEF StreamsInv
  <2> QED
    BY <2>1 DEF Fits, Quiet
<1> QED
  BY <1>1 DEF StreamsInv, Quiet

\* The record is saved, with the lines there are and one more.
LEMMA SaveKept ==
  ASSUME StreamsInv, lostSaves \in {0, 1}, IsPrefix(record.log, lines),
         NEW new \in Seq(Levels), ~logDone, logDone' = logDone,
         status' = status \/ status' \in Outcomes, Save(status', new, lostSaves = 0)
  PROVE  /\ StreamsInv' /\ lostSaves' \in {0, 1} /\ IsPrefix(record.log, lines)'
         /\ \/ record'.status = status' /\ lostSaves' = lostSaves
            \/ record' = record /\ lostSaves = 0 /\ lostSaves' = 1
<1>1. lines \in Seq(Levels) /\ record.log \in Seq(Levels) /\ status' \in {"running"} \cup Outcomes
  BY DEF StreamsInv
<1>2. CASE record' = [status |-> status', log |-> lines \o new] /\ Add(new) /\ UNCHANGED lostSaves
  <2>1. lines \o new \in Seq(Levels) /\ lines \o <<>> = lines
    BY <1>1, ConcatProperties, ConcatEmptySeq
  <2>2. record' \in [status : Statuses, log : Seq(Levels)] /\ record'.log = lines \o new /\ record'.status = status'
    BY <1>1, <1>2, <2>1 DEF Statuses
  <2>3. lines' = lines \o new
    BY <1>2, <2>1 DEF Add, Accepts
  <2>4. IsPrefix(record'.log, lines')
    BY <2>1, <2>2, <2>3, SelfPrefix
  <2> QED
    BY <1>2, <2>2, <2>4, StreamsAdd
<1>3. CASE lostSaves = 0 /\ lostSaves' = lostSaves + 1 /\ Add(new \o <<"warn">>) /\ UNCHANGED record
  <2>1. new \o <<"warn">> \in Seq(Levels)
    BY ConcatProperties DEF Levels
  <2>2. record' \in [status : Statuses, log : Seq(Levels)]
    BY <1>3 DEF StreamsInv
  <2>3. StreamsInv' /\ IsPrefix(lines, lines')
    BY <1>3, <2>1, <2>2, StreamsAdd
  <2>4. lines' \in Seq(Levels)
    BY <2>3 DEF StreamsInv
  <2>5. IsPrefix(record.log, lines')
    BY <1>1, <2>3, <2>4, PrefixKept
  <2> QED
    BY <1>3, <2>3, <2>5
<1> QED
  BY <1>2, <1>3 DEF Save

LEMMA OneLine == {<<"info">>, <<"warn">>, <<>>} \subseteq Seq(Levels)
<1>1. <<"info">> \in Seq(Levels) /\ <<"warn">> \in Seq(Levels)
  BY DEF Levels
<1> QED
  BY <1>1, EmptySeq

LEMMA LogKept == LogInv /\ [Next]_vars => LogInv'
<1> SUFFICES ASSUME LogInv, [Next]_vars PROVE LogInv'
  OBVIOUS
<1>1. /\ StreamsInv /\ lostSaves \in {0, 1} /\ IsPrefix(record.log, lines)
      /\ logDone => at \in Ending \ {"endlog"}
      /\ lines \in Seq(Levels) /\ record.log \in Seq(Levels) /\ status \in {"running"} \cup Outcomes
      /\ record \in [status : Statuses, log : Seq(Levels)]
  BY DEF LogInv, RecordInv, StreamsInv
<1>2. ASSUME Quiet,
             \/ at' = at /\ outcome' = outcome
             \/ at' \notin Ending \cup {"notify"} /\ at \notin Ending \cup {"notify"}
                /\ (at' \in {"finish", "record"} =>
                      outcome' \in Outcomes \/ (at \in {"finish", "record"} /\ outcome' = outcome))
             \/ at \in Ending \ {"endlog"} /\ at' \in Ending \ {"endlog"}
      PROVE  LogInv'
  <2>1. StreamsInv'
    BY <1>1, <1>2, QuietKept
  <2>2. RecordInv'
    BY <1>2 DEF Quiet, LogInv, RecordInv, Ending
  <2> QED
    BY <2>1, <2>2 DEF LogInv
<1>3. ASSUME Adds,
             \/ at' = at /\ outcome' = outcome
             \/ at' \notin Ending \cup {"notify"} /\ at \notin Ending \cup {"notify"}
                /\ (at' \in {"finish", "record"} => outcome' \in Outcomes)
      PROVE  LogInv'
  <2>1. PICK new \in {<<"info">>, <<"warn">>, <<>>} : Add(new)
    BY <1>3 DEF Adds
  <2>2. new \in Seq(Levels) /\ UNCHANGED <<logDone, status, record, lostSaves>>
    BY <1>3, OneLine DEF Adds
  <2>3. StreamsInv' /\ IsPrefix(lines, lines')
    BY <1>1, <2>1, <2>2, StreamsAdd
  <2>4. lines' \in Seq(Levels)
    BY <2>3 DEF StreamsInv
  <2>5. IsPrefix(record'.log, lines')
    BY <1>1, <2>2, <2>3, <2>4, PrefixKept
  <2>6. RecordInv'
    BY <1>3, <2>2, <2>5 DEF LogInv, RecordInv, Ending
  <2> QED
    BY <2>3, <2>6 DEF LogInv
<1>4. CASE Trigger
  <2>1. /\ at = "idle" /\ at' = "created" /\ record' = [record EXCEPT !.status = "running"]
        /\ UNCHANGED <<lines, logDone, status, lostSaves, streams>>
    BY <1>4 DEF Trigger
  <2>2. record' \in [status : Statuses, log : Seq(Levels)] /\ record'.log = record.log
    BY <1>1, <2>1 DEF Statuses
  <2>3. ASSUME NEW v \in Viewers PROVE Fits(v, streams[v])'
    <3>1. Fits(v, streams[v])
      BY <1>1 DEF StreamsInv
    <3> QED
      BY <2>1, <3>1 DEF Fits
  <2>4. StreamsInv'
    BY <1>1, <2>1, <2>2, <2>3 DEF StreamsInv
  <2>5. RecordInv'
    BY <2>1, <2>2 DEF LogInv, RecordInv, Ending
  <2> QED
    BY <2>4, <2>5 DEF LogInv
<1>5. CASE Flush \/ Finish \/ Notify
  <2>1. /\ at \in {"flush", "record", "notify"} /\ logDone' = logDone
        /\ status' = status \/ (at = "record" /\ status' = outcome)
        /\ \E new \in {<<>>, <<"info">>, <<"warn">>} : Save(status', new, lostSaves = 0)
        /\ at' = IF at = "flush" THEN "closing" ELSE IF at = "record" THEN "notify" ELSE "endlog"
        /\ outcome' = outcome
        /\ at = "record" => status' = outcome
    BY <1>5 DEF Flush, Finish, Notify, Only
  <2>2. ~logDone /\ (status' = status \/ status' \in Outcomes)
    BY <2>1 DEF LogInv, RecordInv, Ending
  <2>3. PICK new \in {<<>>, <<"info">>, <<"warn">>} : Save(status', new, lostSaves = 0)
    BY <2>1
  <2>4. new \in Seq(Levels)
    BY OneLine
  <2>5. /\ StreamsInv' /\ lostSaves' \in {0, 1} /\ IsPrefix(record.log, lines)'
        /\ \/ record'.status = status' /\ lostSaves' = lostSaves
           \/ record' = record /\ lostSaves = 0 /\ lostSaves' = 1
    BY <1>1, <2>1, <2>2, <2>3, <2>4, SaveKept
  <2>6. RecordInv'
    BY <2>1, <2>2, <2>5 DEF LogInv, RecordInv, Ending
  <2> QED
    BY <2>5, <2>6 DEF LogInv
<1>6. CASE CloseLog
  <2>1. /\ at = "endlog" /\ at' = "cleanup" /\ EndLog
        /\ UNCHANGED <<lines, status, record, lostSaves>>
    BY <1>6 DEF CloseLog, Only
  <2>2. StreamsInv'
    BY <1>1, <2>1, StreamsEnd
  <2>3. RecordInv'
    BY <2>1 DEF LogInv, RecordInv, Ending
  <2> QED
    BY <2>2, <2>3 DEF LogInv
<1>7. ASSUME NEW v \in Viewers, ViewerStep(v) \/ StreamStep(v) PROVE LogInv'
  <2>1. UNCHANGED <<at, outcome, lines, logDone, status, record, lostSaves>>
    BY <1>7 DEF ViewerStep, StreamStep, Subscribe, Leave, Reading, Since, Emit, Await, engineVars
  <2>2. StreamsInv'
    BY <1>1, <1>7, StreamKept DEF StreamsInv
  <2>3. RecordInv'
    BY <2>1 DEF LogInv, RecordInv, Ending
  <2> QED
    BY <2>2, <2>3 DEF LogInv
<1> QED
  BY <1>2, <1>3, <1>4, <1>5, <1>6, <1>7, LogSteps

LEMMA LogStart == Init => LogInv
<1> SUFFICES ASSUME Init PROVE LogInv
  OBVIOUS
<1>1. PICK viewers : LogInit(viewers)
  BY DEF Init
<1>2. /\ lines = <<>> /\ logDone = FALSE /\ status = "running" /\ lostSaves = 0 /\ at = "idle"
      /\ record = [status |-> "none", log |-> <<>>]
      /\ streams = [v \in Viewers |-> IF v \in viewers THEN NoStream ELSE [NoStream EXCEPT !.pc = "gone"]]
  BY <1>1 DEF LogInit, Init
<1>3. <<>> \in Seq(Levels) /\ Len(<<>>) = 0
  BY EmptySeq
<1>4. NoStream \in Streams /\ [NoStream EXCEPT !.pc = "gone"] \in Streams
  <2> DEFINE no == FALSE
  <2>1. no \in BOOLEAN /\ NoStream = [pc |-> "none", cursor |-> 0, batch |-> <<>>, last |-> no, sent |-> <<>>,
                                      woken |-> no, end |-> "none"]
    BY DEF NoStream
  <2> HIDE DEF no
  <2> QED
    BY <1>3, <2>1 DEF Streams, Statuses
<1>5. ASSUME NEW v \in Viewers PROVE streams[v] \in Streams /\ Fits(v, streams[v])
  <2>1. streams[v] \in Streams /\ streams[v].cursor = 0 /\ streams[v].sent = <<>> /\ streams[v].pc \in {"none", "gone"}
    BY <1>2, <1>4 DEF NoStream
  <2>2. Len(lines) = 0
    BY <1>2, <1>3
  <2> QED
    BY <2>1, <2>2 DEF Fits
<1>6. StreamsInv
  BY <1>2, <1>3, <1>5 DEF StreamsInv, Statuses
<1>7. IsPrefix(record.log, lines)
  BY <1>2, <1>3, SelfPrefix
<1> QED
  BY <1>2, <1>6, <1>7 DEF LogInv, RecordInv, Ending

LEMMA LogImplies == LogInv => StreamFaithful
<1> SUFFICES ASSUME LogInv PROVE StreamFaithful
  OBVIOUS
<1>1. ASSUME NEW v \in Viewers, streams[v].pc = "ended"
      PROVE  streams[v].sent = Wanted(v, lines) /\ streams[v].end = status /\ logDone
  BY <1>1 DEF LogInv, StreamsInv, Fits
<1>2. logDone => status # "running" /\ record.status = status
  BY DEF LogInv, RecordInv, Ending, Outcomes
<1> QED
  BY <1>1, <1>2 DEF StreamFaithful, LogInv, RecordInv

-----------------------------------------------------------------------------
(* The theorems.                                                           *)

\* The first result that tells of a failure is of the hop that failed, with its reason, for
\* every path of SSH hosts and proxies; and a secret is only offered to a host whose
\* confirmed key was presented (dialChain, blame, explain).
THEOREM BlameCorrect == Spec => []BlameIsRight
  BY DialInit, DialKept, ConnSteps, DialImplies, PTL DEF Spec

\* What uses the forwarded port is cut off when the port is closed, for any number of users
\* (Forwarder.Close, track).
THEOREM ForwardCorrect == Spec => []ForwardCut
  BY ForwardInit, ForwardKept, ConnSteps, ForwardImplies, PTL DEF Spec

\* rsync is told of success only when the command on the server succeeded and what the bridge
\* got of its output was handed over: all of it, unless the connection was lost between the
\* exit status and the last output; for any amount of output and however the ends are cut
\* (run, readFrames).
THEOREM ExitCorrect == Spec => []ExitIsTrue
  BY RshStart, RshKept, RshSteps, RshImplies, PTL DEF Spec

\* The mirror never claims a source it does not only have files of, and no snapshot has a
\* file of another source than the job's, for any number of sources and wherever earlier
\* runs were cut off (prepareMirror).
THEOREM MirrorCorrect == Spec => []MirrorOfSource
<1>1. MirrorInv => MirrorOfSource
  BY DEF MirrorInv
<1> QED
  BY <1>1, MirrorInit, MirrorKept, PTL DEF Spec

\* A stream that ended has sent every line asked for, once and in order, and the run's
\* result, for any number of viewers and any log (StreamLog, since, finishRun).
THEOREM StreamCorrect == Spec => []StreamFaithful
  BY LogStart, LogKept, LogImplies, PTL DEF Spec
=============================================================================
