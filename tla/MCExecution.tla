---------------------------- MODULE MCExecution ----------------------------
(***************************************************************************)
(* Three families of runs: a database behind every kind of path; files,    *)
(* with the mirror in every state a run can find it in; a run that is      *)
(* watched.                                                                *)
(***************************************************************************)
EXTENDS Execution

CONSTANTS k1, k2, l1, l2, s1, s2, v1, v2

Ssh(fingerprint, secret) == [kind |-> "ssh", fingerprint |-> fingerprint, secret |-> secret]
Proxy(kind) == [kind |-> kind, fingerprint |-> NoKey, secret |-> "good"]
MCHostKeys == {k1, k2}
Direct == <<Ssh(k1, "good")>>
MCChains == {Direct, <<Ssh(NoKey, "good")>>,
             <<Ssh(k1, "good"), Ssh(k2, "broken")>>, <<Proxy("http"), Ssh(k1, "good")>>,
             <<Proxy("socks5"), Ssh(k1, "none"), Proxy("http"), Ssh(k2, "good")>>}

Run(path, kind, source, mirror, users, viewers) ==
  [path |-> path, job |-> [kind |-> kind, source |-> source],
   recorded |-> mirror[1], contents |-> mirror[2], users |-> users, viewers |-> viewers]
Fresh == <<NoSource, {}>>
Mirrors == {Fresh, <<NoSource, {s1}>>, <<NoSource, {s2}>>, <<s1, {}>>, <<s1, {s1}>>, <<s2, {}>>, <<s2, {s2}>>}
MCStarts ==
  {Run(p, "database", NoSource, Fresh, IF p = Direct THEN {l1, l2} ELSE {l1}, {}) : p \in MCChains}
  \cup {Run(Direct, "files", s1, m, {}, {}) : m \in Mirrors}
  \cup {Run(Direct, "database", NoSource, Fresh, {}, {v}) : v \in {v1, v2}}
=============================================================================
