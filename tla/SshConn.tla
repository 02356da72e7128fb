------------------------------ MODULE SshConn ------------------------------
(***************************************************************************)
(* The connection to a server (pkg/sshconn): DialConfig goes along a chain *)
(* of hops, each an SSH jump host, a SOCKS5 proxy or an HTTP proxy, the    *)
(* target last, and gives one result per hop; Conn is the connection it    *)
(* returns, and forwarder a local port forwarded through it.               *)
(*                                                                         *)
(* What a peer answers is chosen by the environment; fault remembers which *)
(* hop went wrong and how, for the properties only.                        *)
(***************************************************************************)
EXTENDS Naturals, Sequences, SequencesExt

CONSTANTS Chains,   \* the configured paths: sequences of hops, the target last
          HostKeys, \* what an SSH host may present
          NoKey,    \* no fingerprint has been confirmed yet
          Locals    \* connections made to the forwarded port

\* A secret may be "broken", a private key that cannot be parsed.
\* The callers only connect to a target that is an SSH host.
Hops == [kind : {"ssh", "socks5", "http"}, fingerprint : HostKeys \cup {NoKey},
         secret : {"none", "good", "broken"}]
ASSUME ChainConstants ==
  /\ NoKey \notin HostKeys
  /\ \A c \in Chains : c \in Seq(Hops) /\ Len(c) > 0 /\ Last(c).kind = "ssh"

VARIABLES
  chain, hop,  \* the path, and the hop being connected to
  step,        \* "off", "connect", "greet", "auth", "failing", "down" or "up"
  err,         \* the error a step ended with
  presented,   \* the key the SSH host of this hop has presented
  results,     \* one record per hop tried: [hop, ok, reason, key]
  fault,       \* which hop went wrong and how
  offered,     \* the hops whose secret was sent to a host, with the key it presented
  ctx,         \* the caller's context: "live", "canceled" or "deadline"
  closers,     \* what closing the connection closes, in the order it was opened
  open,        \* the streams and clients not closed yet
  connClosed,  \* Conn.closed
  fwd,         \* the forwarder: "off", "open", "closing" or "closed"
  doomed,      \* what its Close has collected and not closed yet
  active,      \* the connections it knows of
  serving      \* [Locals -> [pc, local, remote]]: the goroutine of each connection

dialVars == <<chain, hop, step, err, presented, results, fault, offered, ctx, closers, open>>
forwardVars == <<connClosed, fwd, doomed, active, serving>>
connVars == <<dialVars, forwardVars>>

NoFault == [hop |-> 0, why |-> "none"]
Unserved == [pc |-> "none", local |-> "none", remote |-> "none"]

\* A connection along path, and those that may use a forwarded port.
ConnInit(path, users) ==
  /\ chain = path /\ hop = 1 /\ step = "off" /\ err = "none" /\ presented = NoKey
  /\ results = <<>>
  /\ fault = NoFault /\ offered = {} /\ ctx = "live" /\ closers = <<>> /\ open = {}
  /\ connClosed = FALSE /\ fwd = "off" /\ doomed = {} /\ active = {}
  /\ serving = [l \in Locals |-> IF l \in users THEN Unserved ELSE [Unserved EXCEPT !.pc = "done"]]

---------------------------------------------------------------------------
(* Dialling. *)

Target == Len(chain)
Through == IF hop = 1 THEN "direct" ELSE chain[hop - 1].kind

\* Behind a proxy the stream is the one to the proxy.
Stream == <<"stream", Max({1} \cup {i \in 2..hop : chain[i - 1].kind = "ssh"})>>
Client(i) == <<"client", i>>

Dial ==
  /\ step = "off" /\ step' = "connect"
  /\ UNCHANGED <<chain, hop, err, presented, results, fault, offered, ctx, closers, open, forwardVars>>

Connected ==
  /\ step = "connect" /\ ctx = "live"
  /\ closers' = Append(closers, Stream) /\ open' = open \cup {Stream}
  /\ step' = "greet"
  /\ UNCHANGED <<chain, hop, err, presented, results, fault, offered, ctx, forwardVars>>

\* A step has failed; error is what it returns, and hop i has caused it.
Failed(error, i, why) ==
  /\ step' = "failing" /\ err' = error /\ fault' = [hop |-> i, why |-> why]
  /\ UNCHANGED <<chain, hop, results, ctx, closers, forwardVars>>

\* Mutant of ProxyRefused: the 407 of an HTTP proxy is an error like any other.
PlainRefusal == Failed("net", hop - 1, "auth")
ProxyRefused == Failed("proxyAuth", hop - 1, "auth")

\* Nobody answers, or a proxy cannot reach the next address; an HTTP proxy that answers 407
\* wants other credentials.
ConnectFails ==
  /\ step = "connect" /\ ctx = "live"
  /\ \/ Failed("net", hop, "unreachable")
     \/ Through = "http" /\ ProxyRefused
  /\ UNCHANGED <<offered, open, presented>>

\* The context of the hop ends, by its own timeout or the caller's: the stream is closed.
Interrupted ==
  /\ step \in {"connect", "greet", "auth"}
  /\ Failed("ctx", hop, IF ctx = "canceled" THEN "canceled" ELSE "timeout")
  /\ open' = open \ {Stream}
  /\ UNCHANGED <<offered, presented>>

HopUp(more) ==
  /\ results' = Append(results, [hop |-> hop, ok |-> TRUE, reason |-> "none", key |-> presented])
  /\ presented' = NoKey
  /\ IF hop = Target THEN step' = "up" /\ hop' = hop ELSE step' = "connect" /\ hop' = hop + 1
  /\ closers' = closers \o more /\ open' = open \cup ToSet(more)
  /\ UNCHANGED <<chain, err, fault, ctx, forwardVars>>

\* SOCKS5 negotiates when the stream is there, HTTP only when it is asked to connect.
GreetProxy ==
  /\ step = "greet" /\ chain[hop].kind # "ssh" /\ UNCHANGED offered
  /\ \/ ctx = "live" /\ HopUp(<<>>)
     \/ /\ chain[hop].kind = "socks5" /\ ctx = "live" /\ UNCHANGED <<open, presented>>
        /\ \/ Failed("auth", hop, "auth")
           \/ Failed("net", hop, "unreachable")

KeyKnown(key) == key = chain[hop].fingerprint

\* The key exchange: the private key is parsed before, the host key is compared in it.
GreetHost ==
  /\ step = "greet" /\ chain[hop].kind = "ssh" /\ UNCHANGED <<offered, open>>
  /\ IF chain[hop].secret = "broken" THEN Failed("auth", hop, "auth") /\ UNCHANGED presented
     ELSE /\ ctx = "live"
          /\ \/ Failed("net", hop, "unreachable") /\ UNCHANGED presented
             \/ \E key \in HostKeys :
                  /\ presented' = key
                  /\ IF KeyKnown(key)
                     THEN /\ step' = "auth"
                          /\ UNCHANGED <<chain, hop, err, results, fault, ctx, closers, forwardVars>>
                     ELSE LET why == IF chain[hop].fingerprint = NoKey THEN "unconfirmed" ELSE "mismatch"
                          IN  Failed(why, hop, why)

Authenticate ==
  /\ step = "auth" /\ ctx = "live"
  /\ offered' = IF chain[hop].secret = "none" THEN offered
                ELSE offered \cup {[hop |-> hop, key |-> presented]}
  /\ \/ HopUp(<<Client(hop)>>)
     \/ Failed("auth", hop, "auth") /\ UNCHANGED <<open, presented>>
     \/ Failed("net", hop, "unreachable") /\ UNCHANGED <<open, presented>>

Reason ==
  IF err = "mismatch" THEN "fingerprint_mismatch"
  ELSE IF err = "unconfirmed" THEN "fingerprint_unconfirmed"
  ELSE IF err \in {"auth", "proxyAuth"} THEN "auth_failed"
  ELSE IF ctx = "canceled" THEN "canceled"
  ELSE IF err = "ctx" THEN "timeout" ELSE "unreachable"

\* The error of a proxy replaces the result of the proxy; what was opened is closed.
Fail ==
  /\ step = "failing" /\ step' = "down"
  /\ open' = open \ ToSet(closers)
  /\ results' = LET i == IF err = "proxyAuth" THEN hop - 1 ELSE hop
                IN  Append(SubSeq(results, 1, i - 1), [hop |-> i, ok |-> FALSE, reason |-> Reason, key |-> presented])
  /\ UNCHANGED <<chain, hop, err, presented, fault, offered, ctx, closers, forwardVars>>

EndContext(how) ==
  /\ ctx = "live" /\ ctx' = how
  /\ UNCHANGED <<chain, hop, step, err, presented, results, fault, offered, closers, open, forwardVars>>

Dialling == Connected \/ ConnectFails \/ Interrupted \/ GreetProxy \/ GreetHost \/ Authenticate \/ Fail

\* A client that can open channels.
ClientUp == step = "up" /\ Client(Target) \in open

---------------------------------------------------------------------------
(* Forwarding a port. *)

Forward ==
  /\ step = "up" /\ ~connClosed /\ fwd = "off"
  /\ fwd' = "open"
  /\ UNCHANGED <<dialVars, connClosed, doomed, active, serving>>

Set(l, record) == serving' = [serving EXCEPT ![l] = record]
At(l) == serving[l].pc

AcceptLocal(l) ==
  /\ fwd \in {"open", "closing"} /\ At(l) = "none"
  /\ Set(l, [pc |-> "accepted", local |-> "open", remote |-> "none"])
  /\ UNCHANGED <<dialVars, connClosed, fwd, doomed, active>>

\* Both ends are closed and forgotten.
Drop(l) ==
  /\ Set(l, [pc |-> "done", local |-> "closed", remote |-> "closed"])
  /\ active' = active \ {<<l, "local">>, <<l, "remote">>}

\* Mutant of MayTrack: a connection is registered whatever has happened to the forwarder.
Always == TRUE
MayTrack == fwd = "open"

TrackLocal(l) ==
  /\ At(l) = "accepted"
  /\ IF MayTrack THEN /\ active' = active \cup {<<l, "local">>}
                      /\ serving' = [serving EXCEPT ![l].pc = "dialling"]
                 ELSE Drop(l)
  /\ UNCHANGED <<dialVars, connClosed, fwd, doomed>>

\* The channel is opened without the lock: the forwarder may be closed meanwhile.
DialRemote(l) ==
  /\ At(l) = "dialling"
  /\ \/ /\ ClientUp
        /\ serving' = [serving EXCEPT ![l].pc = "dialled", ![l].remote = "open"]
        /\ UNCHANGED active
     \/ Drop(l)
  /\ UNCHANGED <<dialVars, connClosed, fwd, doomed>>

TrackRemote(l) ==
  /\ At(l) = "dialled"
  /\ IF MayTrack THEN /\ active' = active \cup {<<l, "remote">>}
                      /\ serving' = [serving EXCEPT ![l].pc = "copying"]
                 ELSE Drop(l)
  /\ UNCHANGED <<dialVars, connClosed, fwd, doomed>>

\* One direction has ended, by its peer or because an end was closed; both are closed then.
CopyEnds(l) ==
  /\ At(l) = "copying" /\ Drop(l)
  /\ UNCHANGED <<dialVars, connClosed, fwd, doomed>>

\* Close marks the forwarder and collects what it knows of, then closes it.
CloseForwarder ==
  /\ fwd = "open" /\ fwd' = "closing" /\ doomed' = active
  /\ UNCHANGED <<dialVars, connClosed, active, serving>>

Closed(l, end) == IF <<l, end>> \in doomed THEN "closed" ELSE serving[l][end]
CutForwarded ==
  /\ fwd = "closing" /\ fwd' = "closed" /\ doomed' = {}
  /\ serving' = [l \in Locals |-> [serving[l] EXCEPT !.local = Closed(l, "local"),
                                                     !.remote = Closed(l, "remote")]]
  /\ UNCHANGED <<dialVars, connClosed, active>>

\* Close of the connection: from now on no forwarder can be added; those there are closed,
\* then the chain, which ends the channels through it.
CloseConn ==
  /\ step = "up" /\ ~connClosed /\ connClosed' = TRUE
  /\ UNCHANGED <<dialVars, fwd, doomed, active, serving>>

CloseChain ==
  /\ connClosed /\ fwd \in {"off", "closed"} /\ Client(Target) \in open
  /\ open' = open \ ToSet(closers)
  /\ serving' = [l \in Locals |-> [serving[l] EXCEPT !.remote = IF @ = "open" THEN "closed" ELSE @]]
  /\ UNCHANGED <<chain, hop, step, err, presented, results, fault, offered, ctx, closers,
                 connClosed, fwd, doomed, active>>

\* Both directions of a copy end when both of its connections are closed.
Cut(l) == serving[l].local = "closed" /\ serving[l].remote = "closed"

Serving(l) == AcceptLocal(l) \/ TrackLocal(l) \/ DialRemote(l) \/ TrackRemote(l) \/ CopyEnds(l)

---------------------------------------------------------------------------
(* Properties. *)

Reasons(why) ==
  CASE why = "auth"        -> {"auth_failed"}
    [] why = "mismatch"    -> {"fingerprint_mismatch"}
    [] why = "unconfirmed" -> {"fingerprint_unconfirmed"}
    [] why = "canceled"    -> {"canceled"}
    [] why = "timeout"     -> {"timeout", "canceled"}
    [] why = "unreachable" -> {"unreachable", "canceled"}

\* A secret is sent only to a host that showed the confirmed key, and only after every SSH
\* hop before it did (hostKeyCallback comes before authentication, hop after hop).
SecretsToKnownHosts ==
  \A o \in offered :
    /\ o.key = chain[o.hop].fingerprint
    /\ \A i \in 1 .. (o.hop - 1) : chain[i].kind = "ssh" => results[i].key = chain[i].fingerprint

\* A failed connection is blamed on the hop that caused it and on what it did, the hops
\* before it have succeeded and none after it was tried; nothing stays open (DialConfig and
\* prevHopError: a 407 belongs to the proxy, not to the hop behind it).
BlameIsRight ==
  /\ SecretsToKnownHosts
  /\ step = "down" =>
      /\ Last(results).hop = fault.hop /\ Last(results).reason \in Reasons(fault.why)
      /\ \A i \in DOMAIN results : results[i].hop = i /\ (results[i].ok = (i < Len(results)))
      /\ open = {}

\* When the forwarder is closed no connection through it goes on: those it knew of are cut
\* and those that were being made are refused (track after Close).
ForwardCut == fwd = "closed" => \A l \in Locals : At(l) = "copying" => Cut(l)
=============================================================================
