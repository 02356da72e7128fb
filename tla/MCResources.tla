---------------------------- MODULE MCResources ----------------------------
(* Two requests at a time on two servers, one location and two jobs. *)
EXTENDS Resources, TLC

CONSTANTS r1, r2, s1, s2, j1, j2, t1, t2
MCRequests == {r1, r2}
MCServers == {s1, s2}
MCJobs == {j1, j2}
MCTargets == {t1, t2}
MCSymmetry == Permutations(MCRequests) \cup Permutations(MCTargets)
=============================================================================
