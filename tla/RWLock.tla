------------------------------- MODULE RWLock -------------------------------
(***************************************************************************)
(* What a lock per repository promises, without counters or channels:      *)
(* who holds it and which exclusive requests are queued.  RepoLock, the    *)
(* lock of src/internal/pkg/repolock, is shown to implement it.            *)
(***************************************************************************)
CONSTANTS Procs,  \* callers, each with at most one request at a time
          Repos   \* repositories ("storage locations")

VARIABLES shared,     \* [Repos -> SUBSET Procs]: holders of the shared lock
          exclusive,  \* [Repos -> SUBSET Procs]: holders of the exclusive lock
          queued      \* [Repos -> SUBSET Procs]: exclusive requests that wait

vars == <<shared, exclusive, queued>>

Init ==
  /\ shared    = [r \in Repos |-> {}]
  /\ exclusive = [r \in Repos |-> {}]
  /\ queued    = [r \in Repos |-> {}]

\* A shared request is admitted only behind every exclusive one.
GrantShared(p, r) ==
  /\ exclusive[r] = {} /\ queued[r] = {}
  /\ shared' = [shared EXCEPT ![r] = @ \cup {p}]
  /\ UNCHANGED <<exclusive, queued>>

GrantExclusive(p, r) ==
  /\ shared[r] = {} /\ exclusive[r] = {}
  /\ exclusive' = [exclusive EXCEPT ![r] = {p}]
  /\ queued' = [queued EXCEPT ![r] = @ \ {p}]
  /\ UNCHANGED shared

\* An exclusive request queues only when it cannot be granted.
Queue(p, r) ==
  /\ shared[r] \cup exclusive[r] # {}
  /\ queued' = [queued EXCEPT ![r] = @ \cup {p}]
  /\ UNCHANGED <<shared, exclusive>>

Withdraw(p, r) ==
  /\ p \in queued[r]
  /\ queued' = [queued EXCEPT ![r] = @ \ {p}]
  /\ UNCHANGED <<shared, exclusive>>

Release(p, r) ==
  /\ p \in shared[r] \cup exclusive[r]
  /\ shared' = [shared EXCEPT ![r] = @ \ {p}]
  /\ exclusive' = [exclusive EXCEPT ![r] = @ \ {p}]
  /\ UNCHANGED queued

Next ==
  \E p \in Procs, r \in Repos :
    \/ GrantShared(p, r)
    \/ GrantExclusive(p, r)
    \/ Queue(p, r)
    \/ Withdraw(p, r)
    \/ Release(p, r)

Spec == Init /\ [][Next]_vars
=============================================================================
