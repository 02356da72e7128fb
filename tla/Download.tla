------------------------------ MODULE Download ------------------------------
(***************************************************************************)
(* Reading snapshots (snapshot_svc, snapshot_ctr): lists are what restic   *)
(* commands print; a download streams what restic writes, through two      *)
(* pipes and the tar and gzip writers, to a client that may stop reading   *)
(* or go away.  The status line is sent with the first bytes, before it is *)
(* known whether restic will succeed.                                      *)
(*                                                                         *)
(* Every request holds the location's shared lock; maintenance waits for   *)
(* it.  Runs hold it shared as well: they add snapshots and forget some    *)
(* while a request works.  The lock is RWLock, which RepoLock implements.  *)
(* A file or a part of an export is an entry; entries pass through the     *)
(* pipe one at a time.                                                     *)
(***************************************************************************)
EXTENDS Sequences, Snapshots

CONSTANTS Downloads,   \* requests at a time
          Under,       \* [Paths -> the entries there can be below each, itself included]
          Stored,      \* [Snaps -> the entries in it]
          Maintenance, \* the holder of the exclusive lock
          Location,    \* the storage location
          None, Pad    \* what restic writes after the end of an archive

\* Paths and what is below them.
ASSUME DownloadConstants ==
  /\ IsFiniteSet(Paths)
  /\ DOMAIN Under = Paths /\ DOMAIN Stored = Snaps /\ Maintenance \notin Downloads
  /\ \A p, q \in Paths : Under[p] = Under[q] => p = q   \* a directory is an entry itself
  \* Directories form a tree.
  /\ \A p, q \in Paths : \/ Under[p] \cap Under[q] = {}
                          \/ Under[p] \subseteq Under[q] \/ Under[q] \subseteq Under[p]
  \* Entries are none of the words for the state of a goroutine.
  /\ None \notin Snaps /\ Pad \notin {None, "closed"} /\ None # "closed"
  /\ \A p \in Paths : {None, Pad, "closed", "off", "reading", "done", "failed"} \cap Under[p] = {}

VARIABLES
  shared, exclusive, queued,  \* the lock
  present,   \* the snapshots of the location
  request,   \* [Downloads -> [kind, job, id, snap, paths, left]]: the job, the ID given, the
             \* snapshot it means, selected paths and those not yet dumped
  answer,    \* [Downloads -> what a request that reads no data shows, and as kept by the rule]
  phase,     \* [Downloads -> where the handler is]
  restic,    \* [Downloads -> [state, rest]]: the process, and what it has not written yet
  pipe,      \* [Downloads -> what the copying goroutine holds, None, or "closed"]
  reader,    \* [Downloads -> the goroutine that rewrites the archive, or the entry it writes]
  cancelled, \* [Downloads -> has the context of the command ended?]
  client,    \* [Downloads -> "reading", "stopped" or "gone"]
  headers,   \* [Downloads -> has the response begun?]
  sent,      \* [Downloads -> sets of entries sent, one set per dump]
  result     \* [Downloads -> how the response ended]

rwLockVars == <<shared, exclusive, queued>>
downloadVars == <<rwLockVars, present, request, answer, phase, restic, pipe, reader, cancelled,
                  client, headers, sent, result>>

Lock == INSTANCE RWLock WITH Procs <- Downloads \cup {Maintenance}, Repos <- {Location}

Off == [state |-> "off", rest |-> {}]
NoRequest == [kind |-> None, job |-> None, id |-> None, snap |-> None, paths |-> {}, left |-> {}]
Nothing == [shown |-> {}, kept |-> {}]
Each(value) == [d \in Downloads |-> value]

DownloadInit ==
  /\ Lock!Init
  /\ present = Snaps
  /\ request = Each(NoRequest) /\ answer = Each(Nothing) /\ phase = Each("idle")
  /\ restic = Each(Off) /\ pipe = Each(None) /\ reader = Each("off")
  /\ cancelled = Each(FALSE) /\ client = Each("reading")
  /\ headers = Each(FALSE) /\ sent = Each(<<>>) /\ result = Each("open")

Set(f, d, value) == [f EXCEPT ![d] = value]
commandVars == <<restic, pipe, reader, cancelled>>
responseVars == <<client, headers, sent, result>>

\* Paths inside another selected one are dropped.
Selected(paths) ==
  {p \in paths : ~\E q \in paths : q # p /\ Under[p] \subseteq Under[q]}

---------------------------------------------------------------------------
(* A request takes the shared lock or is refused; it gives the lock back    *)
(* whatever happens.                                                        *)

Kinds == {"list", "browse", "exports", "check", "download"}
Reads(kind) == kind \in {"check", "download"}  \* these select paths; to browse is to select one

Asked(kind, job, id, paths) ==
  [kind |-> kind, job |-> job, id |-> IF kind = "list" THEN None ELSE id, snap |-> None, paths |-> paths,
   left |-> IF job \in FileJobs THEN Selected(paths) ELSE paths]

Open(d, asked) ==
  /\ Lock!GrantShared(d, Location)
  /\ request' = Set(request, d, asked)
  /\ phase' = Set(phase, d, "checking")
  /\ UNCHANGED <<present, answer, commandVars, responseVars>>

\* A path that cannot be one is refused at once, any request while maintenance runs or waits.
Refuse(d, wellFormed) ==
  /\ phase[d] = "idle"
  /\ wellFormed => exclusive[Location] \cup queued[Location] # {}
  /\ phase' = Set(phase, d, "done") /\ result' = Set(result, d, "error")
  /\ UNCHANGED <<rwLockVars, present, request, answer, commandVars, client, headers, sent>>

\* An error before the response has begun is an answer of its own; after that the
\* connection is cut.
Fail(d) ==
  /\ Lock!Release(d, Location)
  /\ phase' = Set(phase, d, "done")
  /\ result' = Set(result, d, IF headers[d] THEN "aborted" ELSE "error")
  /\ UNCHANGED <<present, request, answer, commandVars, client, headers, sent>>

\* The preflight or a command of restic fails, or its output cannot be read.
CheckFails(d) == phase[d] \in {"checking", "listed", "resolved"} /\ Fail(d)

Answer(d, shown, kept) ==
  /\ Lock!Release(d, Location)
  /\ answer' = Set(answer, d, [shown |-> shown, kept |-> kept])
  /\ headers' = Set(headers, d, TRUE)
  /\ phase' = Set(phase, d, "done") /\ result' = Set(result, d, "answered")
  /\ UNCHANGED <<present, request, commandVars, client, sent>>

List(d) ==
  /\ phase[d] = "checking" /\ request[d].kind = "list"
  /\ answer' = Set(answer, d, [shown |-> OfJob(present, request[d].job), kept |-> {}])
  /\ phase' = Set(phase, d, "listed")
  /\ UNCHANGED <<rwLockVars, present, request, commandVars, responseVars>>

\* What the job's rule would keep is a command of its own; the list does without it.
Explain(d) ==
  /\ phase[d] = "listed"
  /\ LET now == OfJob(present, request[d].job)
     IN \E kept \in Keeps(now) \cup {{}} : Answer(d, answer[d].shown, answer[d].shown \cap kept)

\* Exports are of databases, one at a time.
Fits(asked) ==
  /\ asked.kind = "exports" => asked.job \notin FileJobs
  /\ Reads(asked.kind) /\ asked.job \notin FileJobs => \E p \in Paths : asked.paths = {p}

FindSnapshot(d) ==
  /\ phase[d] = "checking" /\ request[d].kind # "list"
  /\ LET found == Resolve(present, request[d].job, request[d].id)
     IN \/ (~Fits(request[d]) \/ found = NotFound) /\ Fail(d)
        \/ /\ Fits(request[d]) /\ found # NotFound
           /\ \E s \in found : request' = [request EXCEPT ![d].snap = s]
           /\ phase' = Set(phase, d, "resolved")
           /\ UNCHANGED <<rwLockVars, present, answer, commandVars, responseVars>>

\* A list of files is the answer, or what the selected paths are checked with.  The snapshot
\* may have been forgotten meanwhile.
LookInside(d) ==
  LET r == request[d]
  IN /\ phase[d] = "resolved"
     /\ \/ r.snap \notin present /\ Fail(d)
        \/ /\ r.snap \in present /\ r.kind \in {"browse", "exports"}
           /\ \E dir \in IF r.paths = {} THEN {Root} ELSE r.paths :
                Answer(d, IF r.kind = "browse" THEN Children(r.snap, dir) ELSE Exports(r.snap), {})
        \/ /\ r.snap \in present /\ Reads(r.kind)
           /\ (\E p \in r.left : ~Usable(r.snap, r.job, p)) /\ Fail(d)
        \/ /\ r.snap \in present /\ r.kind = "check"
           /\ (\A p \in r.left : Usable(r.snap, r.job, p)) /\ Answer(d, {}, {})
        \/ /\ r.snap \in present /\ r.kind = "download"
           /\ \A p \in r.left : Usable(r.snap, r.job, p)
           /\ phase' = Set(phase, d, "next")
           /\ UNCHANGED <<rwLockVars, present, request, answer, commandVars, responseVars>>

\* An archive of files, or one export as it is.
Archive(d) == request[d].job \in FileJobs

\* A run that holds the lock as well forgets a snapshot.  (One that it adds is not in what the
\* request has read.)
Forget(s) ==
  /\ Maintenance \notin exclusive[Location] /\ s \in present
  /\ present' = present \ {s}
  /\ UNCHANGED <<rwLockVars, request, answer, phase, commandVars, responseVars>>

---------------------------------------------------------------------------
(* One dump: restic, the goroutine that copies its output into the pipe,    *)
(* and for an archive the goroutine that reads the pipe.                    *)

StartDump(d) ==
  /\ phase[d] = "next" /\ request[d].left # {}
  /\ LET p == CHOOSE q \in request[d].left : TRUE
     IN  /\ request' = [request EXCEPT ![d].left = @ \ {p}]
         /\ restic' = Set(restic, d, IF request[d].snap \in present
                                    THEN [state |-> "running",
                                          rest |-> (Under[p] \cap Stored[request[d].snap]) \cup {Pad}]
                                    ELSE [state |-> "failed", rest |-> {}])
  /\ phase' = Set(phase, d, "dumping")
  /\ pipe' = Set(pipe, d, None) /\ reader' = Set(reader, d, "reading")
  /\ sent' = Set(sent, d, Append(sent[d], {}))
  /\ UNCHANGED <<rwLockVars, present, answer, cancelled, client, headers, result>>

Running(d) == restic[d].state = "running"

\* The padding follows the last entry.
ResticWrites(d) ==
  /\ Running(d) /\ pipe[d] = None
  /\ \E e \in restic[d].rest :
       /\ e = Pad => restic[d].rest = {Pad}
       /\ pipe' = Set(pipe, d, e)
       /\ restic' = [restic EXCEPT ![d].rest = @ \ {e}]
  /\ UNCHANGED <<rwLockVars, present, answer, request, phase, reader, cancelled, responseVars>>

\* The process ends: with code 0 when all is written, with another one at any time
\* (it has to when nobody takes its output), or killed.
ResticEnds(d, state) ==
  /\ Running(d)
  /\ state = "ok" => restic[d].rest = {}
  /\ state = "killed" => cancelled[d]
  /\ restic' = [restic EXCEPT ![d].state = state]
  /\ UNCHANGED <<rwLockVars, present, answer, request, phase, pipe, reader, cancelled, responseVars>>

\* Mutant of Drains: the reader leaves when it has seen the end of the archive.
LeavesAtEnd(d) == FALSE
Drains(d) == TRUE

ReaderTakes(d) ==
  /\ reader[d] = "reading" /\ pipe[d] \notin {None, "closed"}
  /\ pipe[d] = Pad => Drains(d)
  /\ pipe' = Set(pipe, d, None)
  /\ reader' = Set(reader, d, IF pipe[d] = Pad THEN "reading" ELSE pipe[d])
  /\ UNCHANGED <<rwLockVars, present, answer, request, phase, restic, cancelled, responseVars>>

Writing(d) == reader[d] \notin {"off", "reading", "done", "failed"}

\* The first write sends the headers.
Send(d) ==
  /\ Writing(d) /\ client[d] = "reading"
  /\ headers' = Set(headers, d, TRUE)
  /\ sent' = Set(sent, d, [sent[d] EXCEPT ![Len(sent[d])] = @ \cup {reader[d]}])
  /\ reader' = Set(reader, d, "reading")
  /\ UNCHANGED <<rwLockVars, present, answer, request, phase, restic, pipe, cancelled, client, result>>

Closed(d) == "closed"

\* A failed reader stops restic and closes the pipe.  (An export has no reader of its own:
\* closing the output is all that stops restic.)
ReaderFails(d) ==
  /\ reader' = Set(reader, d, "failed")
  /\ pipe' = Set(pipe, d, Closed(d))
  /\ cancelled' = Set(cancelled, d, cancelled[d] \/ Archive(d))
  /\ UNCHANGED <<rwLockVars, present, answer, request, phase, restic, client, sent, result>>

\* The write times out when the client has not read for a while, or fails at once.
TimesOut(d) == client[d] # "reading"
WriteFails(d) == Writing(d) /\ TimesOut(d) /\ headers' = Set(headers, d, TRUE) /\ ReaderFails(d)

\* The archive cannot be read: damaged, or cut within an entry.
Unreadable(d) ==
  /\ reader[d] = "reading" /\ Archive(d) /\ UNCHANGED headers
  /\ \/ pipe[d] \notin {None, "closed", Pad}
     \/ phase[d] = "joining" /\ restic[d].rest \ {Pad} # {}
  /\ ReaderFails(d)

Ended(d) == restic[d].state \in {"ok", "failed", "killed"}

\* restic has ended and its output is copied, or can no longer be.
CommandReturns(d) ==
  /\ phase[d] = "dumping" /\ Ended(d)
  /\ pipe[d] \in {None, "closed"}
  /\ phase' = Set(phase, d, "joining")
  /\ UNCHANGED <<rwLockVars, present, answer, request, commandVars, responseVars>>

\* The end of the pipe, at the end of the archive or between two entries.
ReaderEnds(d) ==
  /\ reader[d] = "reading" /\ phase[d] = "joining" /\ pipe[d] = None
  /\ reader' = Set(reader, d, "done")
  /\ UNCHANGED <<rwLockVars, present, answer, request, phase, restic, pipe, cancelled, responseVars>>

\* Mutant of Dumped: an archive that reads well is complete.
ReadWell(d) == reader[d] = "done" /\ ~cancelled[d]
Dumped(d) ==
  /\ reader[d] = "done" /\ restic[d].state = "ok"
  /\ Archive(d) => ~cancelled[d]

Join(d) ==
  /\ phase[d] = "joining" /\ reader[d] \in {"done", "failed"}
  /\ \/ ~Dumped(d) /\ Fail(d)
     \/ /\ Dumped(d)
        /\ phase' = Set(phase, d, "next")
        /\ UNCHANGED <<rwLockVars, present, answer, request, commandVars, responseVars>>

\* The ends of the archive and of the compression, and the headers when nothing was sent.  An
\* export sent as it is stored has nothing left to write: it ends whatever its client does.
Finish(d) ==
  /\ phase[d] = "next" /\ request[d].left = {}
  /\ \/ /\ Archive(d) => client[d] = "reading"
        /\ Lock!Release(d, Location)
        /\ headers' = Set(headers, d, TRUE)
        /\ result' = Set(result, d, "complete") /\ phase' = Set(phase, d, "done")
        /\ UNCHANGED <<present, answer, request, commandVars, client, sent>>
     \/ TimesOut(d) /\ Fail(d)

\* The client stops reading, goes on, or goes away, which the server notices.
ClientStops(d) == client[d] = "reading" /\ client' = Set(client, d, "stopped")
ClientReads(d) == client[d] = "stopped" /\ client' = Set(client, d, "reading")
ClientLeaves(d) == client[d] # "gone" /\ client' = Set(client, d, "gone")
Client(d) ==
  /\ phase[d] \notin {"idle", "done"}
  /\ ClientStops(d) \/ ClientReads(d) \/ ClientLeaves(d)
  /\ UNCHANGED <<rwLockVars, present, answer, request, phase, commandVars, headers, sent, result>>

NoticeGone(d) ==
  /\ client[d] = "gone" /\ ~cancelled[d] /\ phase[d] \notin {"idle", "done"}
  /\ cancelled' = Set(cancelled, d, TRUE)
  /\ UNCHANGED <<rwLockVars, present, answer, request, phase, restic, pipe, reader, responseVars>>

---------------------------------------------------------------------------
(* Maintenance of the location: it queues, runs alone and ends. *)

MaintenanceAsks ==
  /\ Maintenance \notin exclusive[Location] \cup queued[Location]
  /\ Lock!Queue(Maintenance, Location) \/ Lock!GrantExclusive(Maintenance, Location)
  /\ UNCHANGED <<present, answer, request, phase, commandVars, responseVars>>

MaintenanceStarts ==
  /\ Maintenance \in queued[Location] /\ Lock!GrantExclusive(Maintenance, Location)
  /\ UNCHANGED <<present, answer, request, phase, commandVars, responseVars>>

MaintenanceEnds ==
  /\ Maintenance \in exclusive[Location] /\ Lock!Release(Maintenance, Location)
  /\ UNCHANGED <<present, answer, request, phase, commandVars, responseVars>>

Handler(d) ==
  \/ List(d) \/ Explain(d) \/ FindSnapshot(d) \/ LookInside(d) \/ StartDump(d) \/ CommandReturns(d) \/ Join(d) \/ Finish(d)
  \/ ReaderTakes(d) \/ Send(d) \/ WriteFails(d) \/ ReaderEnds(d)
Restic(d) == ResticWrites(d) \/ \E state \in {"ok", "failed", "killed"} : ResticEnds(d, state)
ResticGoesOn(d) ==
  \/ ResticWrites(d) \/ ResticEnds(d, "ok") \/ ResticEnds(d, "killed")
  \/ pipe[d] = "closed" /\ ResticEnds(d, "failed")

DownloadNext ==
  \/ \E d \in Downloads :
       \/ /\ phase[d] = "idle"
          /\ \E kind \in Kinds, job \in Jobs, id \in Given, paths \in SUBSET Paths :
            /\ kind = "browse" => Cardinality(paths) <= 1
            /\ Reads(kind) => paths # {}
            /\ kind \in {"list", "exports"} => paths = {}
            /\ Open(d, Asked(kind, job, id, paths))
       \/ \E wellFormed \in BOOLEAN : Refuse(d, wellFormed)
       \/ CheckFails(d) \/ Handler(d) \/ Restic(d) \/ Unreadable(d) \/ Client(d) \/ NoticeGone(d)
  \/ \E s \in Snaps : Forget(s)
  \/ MaintenanceAsks \/ MaintenanceStarts \/ MaintenanceEnds

DownloadSpec == DownloadInit /\ [][DownloadNext]_downloadVars

\* The goroutines run; restic goes on as long as its output is taken, and ends; a write that makes no progress times out;
\* a closed connection is noticed.  Nothing is assumed of the client.
DownloadFairness ==
  /\ \A d \in Downloads :
       /\ WF_downloadVars(Handler(d)) /\ WF_downloadVars(ResticGoesOn(d))
       /\ WF_downloadVars(WriteFails(d)) /\ WF_downloadVars(NoticeGone(d))
  /\ WF_downloadVars(MaintenanceStarts) /\ WF_downloadVars(MaintenanceEnds)
DownloadFairSpec == DownloadSpec /\ DownloadFairness

---------------------------------------------------------------------------
(* Properties. *)

\* Requests and responses have their types.
DownloadTypeOK ==
  \A d \in Downloads :
    /\ request[d].left \subseteq request[d].paths /\ request[d].paths \subseteq Paths
    /\ client[d] \in {"reading", "stopped", "gone"}
    /\ result[d] \in {"open", "answered", "complete", "aborted", "error"}
    /\ (result[d] = "open") = (phase[d] # "done")

\* What the response tells the client is true.  It ends as complete only when every entry that
\* the snapshot has below a selected path was sent, once, although the snapshot may be forgotten
\* between two dumps; an error comes instead of a response, never after something was sent
\* (Download of the controller: never a file that only looks complete).  Nothing is of another
\* job's snapshot or of one that the ID does not mean, and a list of files has what is in that
\* directory of that snapshot.
Entries(paths) == UNION {Under[p] : p \in paths}
Once(parts) == \A i, j \in DOMAIN parts : i # j => parts[i] \cap parts[j] = {}
Own(r) == r.snap # None => JobOf[r.snap] = r.job /\ r.snap \in StartWith[r.id]
ResponseIsTrue ==
  DownloadTypeOK /\ \A d \in Downloads : LET r == request[d] IN
    /\ result[d] = "complete" =>
         /\ UNION {sent[d][i] : i \in DOMAIN sent[d]} = Entries(r.paths) \cap Stored[r.snap]
         /\ Once(sent[d])
         /\ \A p \in r.paths : \E q \in r.paths \cap Contents[r.snap] : Under[p] \subseteq Under[q]
    /\ result[d] = "error" => ~headers[d] /\ \A i \in DOMAIN sent[d] : sent[d][i] = {}
    /\ Own(r) /\ (r.snap = None => sent[d] = <<>>)
    /\ result[d] = "answered" =>
         /\ r.kind = "list" => \A s \in answer[d].shown : JobOf[s] = r.job
         /\ r.kind \in {"browse", "exports"} => answer[d].shown \subseteq Contents[r.snap]
         /\ r.kind = "exports" => r.job \notin FileJobs /\ answer[d].shown \subseteq Files

\* Every request ends and gives the lock back, whatever the client does, so maintenance
\* that waits gets its turn (downloadIdleTimeout: a download put on hold would block the
\* maintenance, which would block every later backup).
DownloadsEnd ==
  /\ \A d \in Downloads : phase[d] = "checking" ~> d \notin shared[Location]
  /\ Maintenance \in queued[Location] ~> Maintenance \in exclusive[Location]
=============================================================================
