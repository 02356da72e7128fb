----------------------------- MODULE MCRepoKeys -----------------------------
(* Two requests that change keys, or one, and one user of the key. *)
EXTENDS RepoKeys, TLC

CONSTANTS o1, o2, u1
MCOps == {o1, o2}
MCUsers == {u1}
MCExisting == -1
OpSymmetry == Permutations(MCOps)
=============================================================================
