---------------------------- MODULE MCLocation ----------------------------
(***************************************************************************)
(* The lock of a location as the code has it, and a download, which holds  *)
(* it as RWLock.  The two machines share no variable: a behaviour leaves   *)
(* the initial state of one of them only, so the states checked are those  *)
(* of the one and those of the other.                                      *)
(*                                                                         *)
(* The lock: three callers, so that a queued exclusive request meets a     *)
(* holder and a newcomer, over two repositories, which share one wake-up   *)
(* channel.                                                                *)
(*                                                                         *)
(* The download: of a job with files or one with a database.  The IDs of   *)
(* all three snapshots begin alike; two of the job's begin with p12, two   *)
(* of different jobs with p23.  A directory, a directory in it and a file  *)
(* beside it; the later snapshot has only the first directory.             *)
(***************************************************************************)
EXTENDS RepoLock, Download

CONSTANTS p1, p2, p3, r1, r2,
          files, db, s1, s2, s3, p12, p23, wrong, dir, sub, file, dump, e1, e2, e3, e4

MCProcs == {p1, p2, p3}
MCRepos == {r1, r2}

MCSnaps == {s1, s2, s3}
MCJobOf == [s \in MCSnaps |-> IF s = s3 THEN db ELSE files]
MCGiven == MCSnaps \cup {p12, p23, wrong}
MCStartWith == [g \in MCGiven |-> CASE g = p12 -> {s1, s2} [] g = p23 -> {s2, s3}
                                    [] g = wrong -> {} [] OTHER -> {g}]
MCPaths == {dir, sub, file, dump}
MCContents == [s \in MCSnaps |-> CASE s = s1 -> {dir, sub, file} [] s = s2 -> {dir} [] s = s3 -> {dump}]
MCParent == [p \in MCPaths |-> IF p = sub THEN dir ELSE Root]
MCUnder == [p \in MCPaths |-> CASE p = dir -> {e1, e2} [] p = sub -> {e2}
                                 [] p = file -> {e3} [] p = dump -> {e4}]
MCStored == [s \in MCSnaps |-> CASE s = s1 -> {e1, e2, e3} [] s = s2 -> {e1} [] s = s3 -> {e4}]

LocationInit == Init /\ DownloadInit
LocationNext == \/ DownloadInit /\ Next /\ UNCHANGED downloadVars
                \/ Init /\ DownloadNext /\ UNCHANGED vars
LocationSpec == /\ LocationInit /\ [][LocationNext]_<<vars, downloadVars>>
                /\ Fairness /\ DownloadFairness
=============================================================================
