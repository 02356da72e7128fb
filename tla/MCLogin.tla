------------------------------ MODULE MCLogin ------------------------------
(* Two requests at a time, two providers that use the same account name. *)
EXTENDS Login, TLC

CONSTANTS r1, r2, a1, a2, s1, s2
MCRequests == {r1, r2}
MCApps == {a1, a2}
MCSubs == {s1, s2}
MCIssuer == [a \in MCApps |-> a]
MCSymmetry == Permutations(MCRequests) \cup Permutations(MCApps) \cup Permutations(MCSubs)
=============================================================================
