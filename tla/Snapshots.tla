----------------------------- MODULE Snapshots -----------------------------
(***************************************************************************)
(* What a request about a snapshot finds in the repository (snapshot_svc): *)
(* the snapshots of a job, the one an ID or the beginning of one means,    *)
(* its files, and what the panel shows of them.  Pure definitions; a       *)
(* repository is the set of snapshots in it.                               *)
(***************************************************************************)
EXTENDS Naturals, FiniteSets

CONSTANTS Jobs, FileJobs, \* jobs, and those that back up files; the others back up databases
          Snaps,          \* snapshots there may be
          JobOf,          \* [Snaps -> the job in the tag]
          Given,          \* IDs a request may give: whole ones, beginnings of one, and others
          StartWith,      \* [Given -> the snapshots whose IDs start with it]
          Paths,          \* files and directories of snapshots
          Contents,       \* [Snaps -> the paths in it]
          Parent,         \* [Paths -> the directory it is in]
          Files,          \* paths that are files
          Root

ASSUME SnapshotConstants ==
  /\ FileJobs \subseteq Jobs /\ JobOf \in [Snaps -> Jobs]
  /\ Snaps \subseteq Given /\ StartWith \in [Given -> SUBSET Snaps]
  /\ \A s \in Snaps : StartWith[s] = {s}   \* IDs are equally long
  /\ Contents \in [Snaps -> SUBSET Paths] /\ Files \subseteq Paths
  /\ Parent \in [Paths -> (Paths \ Files) \cup {Root}]

NotFound == {}

\* restic lists the snapshots with the job's tag.
OfJob(repo, j) == {s \in repo : JobOf[s] = j}

\* The snapshot an ID means, if there is one: the beginning of several IDs means none.
Resolve(repo, j, id) ==
  LET found == OfJob(repo, j) \cap StartWith[id]
  IN IF Cardinality(found) = 1 THEN found ELSE NotFound

\* What restic lists of a directory: its content, itself or what is deeper in it as well,
\* depending on the version; nothing if there is no such directory.
Within(p, dir) == dir = Root \/ p = dir \/ Parent[p] = dir
Ls(s, dir) == {p \in Contents[s] : Within(p, dir)}

Children(s, dir) == {p \in Ls(s, dir) : p # dir /\ Parent[p] = dir}
Exports(s) == {p \in Ls(s, Root) : p \in Files}

\* A path can be downloaded if restic lists it; of a database's snapshot only a file.
Usable(s, j, p) == p \in Ls(s, p) /\ (j \in FileJobs \/ p \in Files)

\* A rule keeps something of what there is.  Which one is restic's decision.
Keeps(list) == {kept \in SUBSET list : list # {} => kept # {}}
=============================================================================
