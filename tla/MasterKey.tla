----------------------------- MODULE MasterKey -----------------------------
(***************************************************************************)
(* The master key that encrypts every stored credential: pkg/secret and    *)
(* masterkey_svc.  Requests that save or reveal a credential hold a        *)
(* read-write lock for reading; a rotation holds it for writing while it   *)
(* re-encrypts everything in one transaction and then puts the new key in  *)
(* place.  Jobs are the exception: job_svc reads or encrypts the password  *)
(* before it takes the lock (LateItems).                                   *)
(*                                                                         *)
(* A ciphertext is the key it was made with.                               *)
(***************************************************************************)
EXTENDS Integers, FiniteSets

CONSTANTS Items,      \* credentials that can be stored
          LateItems,  \* those that job_svc saves: database passwords
          Requests,   \* requests that save or reveal, one at a time each
          MaxKey,     \* bound: master keys the administrator ever uses
          MaxCrashes  \* bound: crashes of the process

ASSUME MasterKeyConstants ==
  LateItems \subseteq Items /\ MaxKey \in Nat \ {0} /\ MaxCrashes \in Nat

Keys == 1 .. MaxKey
NoKey == 0

VARIABLES
  stored,   \* [Items -> key of the ciphertext in the database]; NoKey: no credential
  check,    \* key of the check value in the database; NoKey: none yet
  default,  \* secret.Default(); NoKey while the process is down
  readers,  \* requests that hold the lock for reading
  pc,       \* [Requests -> {"idle", "early", "locked", "prepared"}]
  item,     \* [Requests -> Items]: what the request is about
  cipher,   \* [Requests -> key of the ciphertext it has in hand]
  rot,      \* the rotation: "idle", "waiting" for the lock, "locked", "rekeyed"
  next,     \* the rotation's new key
  crashes

requestVars == <<readers, pc, item, cipher>>
rotateVars == <<rot, next>>
vars == <<stored, check, default, requestVars, rotateVars, crashes>>

Init ==
  /\ stored = [i \in Items |-> NoKey] /\ check = NoKey
  /\ default = NoKey
  /\ readers = {}
  /\ pc = [q \in Requests |-> "idle"]
  /\ item \in [Requests -> Items]
  /\ cipher = [q \in Requests |-> NoKey]
  /\ rot = "idle" /\ next = NoKey /\ crashes = 0

Up == default # NoKey

\* Start with the key of the environment: Verify writes the check value the first time,
\* later it refuses every key that does not open it.
Start(k) ==
  /\ ~Up
  /\ check \in {NoKey, k}
  /\ default' = k /\ check' = k
  /\ UNCHANGED <<stored, requestVars, rotateVars, crashes>>

Crash ==
  /\ Up /\ crashes < MaxCrashes
  /\ crashes' = crashes + 1
  /\ default' = NoKey
  /\ readers' = {}
  /\ pc' = [q \in Requests |-> "idle"]
  /\ cipher' = [q \in Requests |-> NoKey]
  /\ rot' = "idle" /\ next' = NoKey
  /\ UNCHANGED <<stored, check, item>>

-----------------------------------------------------------------------------
(* Requests.                                                               *)

\* Mutant of CanRead: the lock is shared with a rotation that has it.
CanReadAlways == Up

\* A read lock is refused while a rotation has the lock or waits for it (sync.RWMutex).
CanRead == Up /\ rot = "idle"

\* The ciphertext a request works with: the stored one, which it keeps or reveals, a new
\* one, or none when the credential is given up.
Ciphertexts(i) == {stored[i], default, NoKey}

Begin(q, i) ==
  /\ pc[q] = "idle" /\ i \notin LateItems
  /\ CanRead
  /\ readers' = readers \cup {q}
  /\ pc' = [pc EXCEPT ![q] = "locked"]
  /\ item' = [item EXCEPT ![q] = i]
  /\ UNCHANGED <<stored, check, default, cipher, rotateVars, crashes>>

Prepare(q) ==
  /\ pc[q] = "locked"
  /\ \E c \in Ciphertexts(item[q]) : cipher' = [cipher EXCEPT ![q] = c]
  /\ pc' = [pc EXCEPT ![q] = "prepared"]
  /\ UNCHANGED <<stored, check, default, readers, item, rotateVars, crashes>>

\* job_svc: Update and Create find the job and prepare the password, check the server
\* and its paths for up to 20 seconds, and only then take the lock.
PrepareEarly(q, i) ==
  /\ Up /\ pc[q] = "idle" /\ i \in LateItems
  /\ \E c \in Ciphertexts(i) : cipher' = [cipher EXCEPT ![q] = c]
  /\ pc' = [pc EXCEPT ![q] = "early"]
  /\ item' = [item EXCEPT ![q] = i]
  /\ UNCHANGED <<stored, check, default, readers, rotateVars, crashes>>

BeginLate(q) ==
  /\ pc[q] = "early"
  /\ CanRead
  /\ readers' = readers \cup {q}
  /\ pc' = [pc EXCEPT ![q] = "prepared"]
  /\ UNCHANGED <<stored, check, default, item, cipher, rotateVars, crashes>>

\* Mutant of End: an early return forgets to give the lock back.
EndWithLock(q) ==
  /\ pc[q] = "prepared"
  /\ \/ stored' = [stored EXCEPT ![item[q]] = cipher[q]] /\ readers' = readers \ {q}
     \/ UNCHANGED <<stored, readers>>
  /\ pc' = [pc EXCEPT ![q] = "idle"] /\ cipher' = [cipher EXCEPT ![q] = NoKey]
  /\ UNCHANGED <<check, default, item, rotateVars, crashes>>

\* The credential is saved, or not (it was only revealed, or a check failed), and the
\* deferred unlock runs.
End(q) ==
  /\ pc[q] = "prepared"
  /\ stored' \in {stored, [stored EXCEPT ![item[q]] = cipher[q]]}
  /\ readers' = readers \ {q}
  /\ pc' = [pc EXCEPT ![q] = "idle"] /\ cipher' = [cipher EXCEPT ![q] = NoKey]
  /\ UNCHANGED <<check, default, item, rotateVars, crashes>>

-----------------------------------------------------------------------------
(* The rotation.                                                           *)

AskRotate(k) ==
  /\ Up /\ rot = "idle"
  /\ rot' = "waiting" /\ next' = k
  /\ UNCHANGED <<stored, check, default, requestVars, crashes>>

BeginRotate ==
  /\ rot = "waiting" /\ readers = {}
  /\ rot' = "locked"
  /\ UNCHANGED <<stored, check, default, requestVars, next, crashes>>

\* Mutant of Rekey: the check value is not part of the transaction.
RekeyWithoutCheck ==
  /\ rot = "locked" /\ next # check
  /\ \A i \in Items : stored[i] \in {NoKey, default}
  /\ stored' = [i \in Items |-> IF stored[i] = NoKey THEN NoKey ELSE next]
  /\ rot' = "rekeyed"
  /\ UNCHANGED <<check, default, requestVars, next, crashes>>

\* The transaction of Rekey commits: every ciphertext could be opened.
Rekey ==
  /\ rot = "locked" /\ next # check
  /\ \A i \in Items : stored[i] \in {NoKey, default}
  /\ stored' = [i \in Items |-> IF stored[i] = NoKey THEN NoKey ELSE next]
  /\ check' = next
  /\ rot' = "rekeyed"
  /\ UNCHANGED <<default, requestVars, next, crashes>>

\* It is the same key, some ciphertext does not open, or the database fails.
RotateFails ==
  /\ rot = "locked"
  /\ rot' = "idle" /\ next' = NoKey
  /\ UNCHANGED <<stored, check, default, requestVars, crashes>>

SetDefault ==
  /\ rot = "rekeyed"
  /\ default' = next
  /\ rot' = "idle" /\ next' = NoKey
  /\ UNCHANGED <<stored, check, requestVars, crashes>>

-----------------------------------------------------------------------------
Request(q) ==
  \/ \E i \in Items : Begin(q, i) \/ PrepareEarly(q, i)
  \/ Prepare(q) \/ BeginLate(q) \/ End(q)
Rotate == BeginRotate \/ Rekey \/ RotateFails \/ SetDefault

Next ==
  \/ \E k \in Keys : Start(k) \/ AskRotate(k)
  \/ Crash
  \/ \E q \in Requests : Request(q)
  \/ Rotate

\* Requests that have the lock end (every BeginWrite is followed by a deferred unlock)
\* and a rotation goes on.
Fairness == WF_vars(Rotate) /\ \A q \in Requests : WF_vars(Prepare(q) \/ End(q))

Spec == Init /\ [][Next]_vars
FairSpec == Spec /\ Fairness

-----------------------------------------------------------------------------
(* Properties.                                                             *)

TypeOK ==
  /\ stored \in [Items -> Keys \cup {NoKey}] /\ check \in Keys \cup {NoKey}
  /\ default \in Keys \cup {NoKey}
  /\ readers = {q \in Requests : pc[q] \in {"locked", "prepared"}}
  /\ pc \in [Requests -> {"idle", "early", "locked", "prepared"}]
  /\ item \in [Requests -> Items]
  /\ cipher \in [Requests -> Keys \cup {NoKey}]
  /\ rot \in {"idle", "waiting", "locked", "rekeyed"}
  /\ next \in Keys \cup {NoKey}
  /\ crashes \in Nat

\* All that is stored opens with the one key the check value opens with, so that a start
\* that Verify admits can read everything: at any time, between the steps of a rotation
\* and across crashes.  (Not for the passwords of jobs, which are
\* prepared before the save has the lock, LateItems.)
OneKeyInDatabase == \A i \in Items \ LateItems : stored[i] \in {NoKey, check}

\* The running process opens what is stored, except between the commit of a rotation and
\* the replacement of the key in memory.
DefaultOpensDatabase ==
  Up /\ rot # "rekeyed" =>
    default = check /\ \A i \in Items \ LateItems : stored[i] \in {NoKey, default}

\* The contract of BeginWrite (secret.go): a ciphertext that a request took under the
\* lock, to save or to reveal it, still opens when the request uses it.
HeldStaysReadable ==
  \A q \in Requests :
    q \in readers /\ item[q] \notin LateItems => cipher[q] \in {NoKey, default}

\* A rotation that waits gets its turn: new requests queue behind it, those under way end.
RotationEnds == rot = "waiting" ~> rot = "idle"

=============================================================================
