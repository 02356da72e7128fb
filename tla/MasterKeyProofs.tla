-------------------------- MODULE MasterKeyProofs --------------------------
(***************************************************************************)
(* One key in the database and in memory, whatever requests, rotations and *)
(* crashes interleave; and what is said of a message, which takes no lock, *)
(* so that what it tells of a rotation must follow from what the master    *)
(* key guarantees to everybody.  Then the other work of the process that   *)
(* goes on by itself, the ticks of the scheduler, which share nothing with *)
(* the key.                                                                *)
(***************************************************************************)
EXTENDS Notify, Scheduler, WellFoundedInduction, TLAPS

\* The strengthening: while a rotation has the lock there is no request inside, and its
\* new key is the database's as soon as the transaction has committed.
RotationAlone ==
  /\ rot # "idle" => Up /\ next \in Keys
  /\ rot \in {"locked", "rekeyed"} => readers = {}
  /\ rot = "rekeyed" => next = check
RequestsInside ==
  /\ readers # {} => Up
  /\ \A q \in Requests : /\ pc[q] = "early" => item[q] \in LateItems
                         /\ pc[q] \in {"idle", "locked"} => cipher[q] = NoKey

IInv ==
  /\ TypeOK /\ RotationAlone /\ RequestsInside
  /\ OneKeyInDatabase /\ DefaultOpensDatabase /\ HeldStaysReadable

LEMMA InitIInv == Init => IInv
  BY DEF Init, IInv, TypeOK, RotationAlone, RequestsInside, OneKeyInDatabase,
         DefaultOpensDatabase, HeldStaysReadable, Up, NoKey

\* What a request may take into its hand while it is inside.
LEMMA InsideReads ==
  ASSUME IInv, NEW q \in readers, NEW i \in Items \ LateItems
  PROVE  Up /\ rot # "rekeyed" /\ default = check /\ stored[i] \in {NoKey, default}
  BY DEF IInv, RotationAlone, RequestsInside, DefaultOpensDatabase

LEMMA NextIInv == IInv /\ [Next]_vars => IInv'
<1> SUFFICES ASSUME IInv, [Next]_vars
             PROVE  IInv'
  OBVIOUS
<1> USE DEF Up, NoKey
<1>1. ASSUME NEW k \in Keys, Start(k)
      PROVE  IInv'
  <2>1. TypeOK'
    BY <1>1 DEF IInv, TypeOK, Start, requestVars, rotateVars
  <2>2. readers' = {} /\ rot' = "idle" /\ default' = k /\ check' = k /\ k # 0
    BY <1>1 DEF IInv, RotationAlone, RequestsInside, Start, requestVars, rotateVars, Keys
  <2>3. OneKeyInDatabase'
    BY <1>1, <2>2 DEF IInv, OneKeyInDatabase, Start
  <2>4. RequestsInside'
    BY <1>1, <2>2 DEF IInv, RequestsInside, Start, requestVars
  <2> QED
    BY <2>1, <2>2, <2>3, <2>4
    DEF IInv, RotationAlone, OneKeyInDatabase, DefaultOpensDatabase, HeldStaysReadable
<1>2. ASSUME NEW k \in Keys, AskRotate(k)
      PROVE  IInv'
  <2>1. TypeOK'
    BY <1>2 DEF IInv, TypeOK, AskRotate, requestVars
  <2> QED
    BY <1>2, <2>1
    DEF IInv, AskRotate, requestVars, RotationAlone, RequestsInside, OneKeyInDatabase,
        DefaultOpensDatabase, HeldStaysReadable
<1>3. CASE Crash
  <2>1. TypeOK'
    BY <1>3, MasterKeyConstants DEF IInv, TypeOK, Crash
  <2> QED
    BY <1>3, <2>1
    DEF IInv, Crash, RotationAlone, RequestsInside, OneKeyInDatabase, DefaultOpensDatabase,
        HeldStaysReadable, TypeOK
<1>4. ASSUME NEW q \in Requests, NEW i \in Items, Begin(q, i)
      PROVE  IInv'
  <2>1. TypeOK'
    BY <1>4 DEF IInv, TypeOK, Begin, rotateVars
  <2>2. Up /\ rot = "idle" /\ default = check
    BY <1>4 DEF Begin, CanRead, IInv, DefaultOpensDatabase
  <2> QED
    BY <1>4, <2>1, <2>2
    DEF IInv, Begin, rotateVars, RotationAlone, RequestsInside, OneKeyInDatabase,
        DefaultOpensDatabase, HeldStaysReadable, TypeOK
<1>5. ASSUME NEW q \in Requests, Prepare(q)
      PROVE  IInv'
  <2>1. q \in readers
    BY <1>5 DEF Prepare, IInv, TypeOK
  <2>2. PICK c \in Ciphertexts(item[q]) : cipher' = [cipher EXCEPT ![q] = c]
    BY <1>5 DEF Prepare
  <2>3. c \in Keys \cup {NoKey} /\ (item[q] \notin LateItems => c \in {NoKey, default})
    BY <2>1, <2>2, InsideReads DEF Ciphertexts, IInv, TypeOK
  <2>4. TypeOK'
    BY <1>5, <2>1, <2>2, <2>3 DEF IInv, TypeOK, Prepare, rotateVars
  <2> QED
    BY <1>5, <2>1, <2>2, <2>3, <2>4
    DEF IInv, Prepare, rotateVars, RotationAlone, RequestsInside, OneKeyInDatabase,
        DefaultOpensDatabase, HeldStaysReadable, TypeOK
<1>6. ASSUME NEW q \in Requests, NEW i \in Items, PrepareEarly(q, i)
      PROVE  IInv'
  <2>1. PICK c \in Ciphertexts(i) : cipher' = [cipher EXCEPT ![q] = c]
    BY <1>6 DEF PrepareEarly
  <2>2. c \in Keys \cup {NoKey}
    BY <2>1 DEF Ciphertexts, IInv, TypeOK
  <2>3. TypeOK'
    BY <1>6, <2>1, <2>2 DEF IInv, TypeOK, PrepareEarly, rotateVars
  <2> QED
    BY <1>6, <2>1, <2>2, <2>3
    DEF IInv, PrepareEarly, rotateVars, RotationAlone, RequestsInside, OneKeyInDatabase,
        DefaultOpensDatabase, HeldStaysReadable, TypeOK
<1>7. ASSUME NEW q \in Requests, BeginLate(q)
      PROVE  IInv'
  <2>1. TypeOK'
    BY <1>7 DEF IInv, TypeOK, BeginLate, rotateVars
  <2>2. Up /\ rot = "idle" /\ item[q] \in LateItems
    BY <1>7 DEF BeginLate, CanRead, IInv, RequestsInside
  <2> QED
    BY <1>7, <2>1, <2>2
    DEF IInv, BeginLate, rotateVars, RotationAlone, RequestsInside, OneKeyInDatabase,
        DefaultOpensDatabase, HeldStaysReadable, TypeOK
<1>8. ASSUME NEW q \in Requests, End(q)
      PROVE  IInv'
  <2>1. q \in readers /\ cipher[q] \in Keys \cup {NoKey}
    BY <1>8 DEF End, IInv, TypeOK
  <2>2. Up /\ rot # "rekeyed" /\ default = check
    BY <2>1 DEF IInv, RotationAlone, RequestsInside, DefaultOpensDatabase
  <2>3. stored' \in [Items -> Keys \cup {NoKey}]
    BY <1>8, <2>1 DEF End, IInv, TypeOK
  <2>4. TypeOK'
    BY <1>8, <2>1, <2>3 DEF IInv, TypeOK, End, rotateVars
  <2>5. ASSUME NEW i \in Items \ LateItems
        PROVE  stored'[i] \in {NoKey, default}
    BY <1>8, <2>1, <2>2 DEF End, IInv, TypeOK, OneKeyInDatabase, HeldStaysReadable
  <2> QED
    BY <1>8, <2>1, <2>2, <2>4, <2>5
    DEF IInv, End, rotateVars, RotationAlone, RequestsInside, OneKeyInDatabase,
        DefaultOpensDatabase, HeldStaysReadable, TypeOK
<1>9. CASE BeginRotate
  <2>1. TypeOK'
    BY <1>9 DEF IInv, TypeOK, BeginRotate, requestVars
  <2> QED
    BY <1>9, <2>1
    DEF IInv, BeginRotate, requestVars, RotationAlone, RequestsInside, OneKeyInDatabase,
        DefaultOpensDatabase, HeldStaysReadable
<1>10. CASE Rekey
  <2>1. Up /\ next \in Keys /\ readers = {}
    BY <1>10 DEF IInv, RotationAlone, Rekey
  <2>2. TypeOK'
    BY <1>10, <2>1 DEF IInv, TypeOK, Rekey, requestVars
  <2> QED
    BY <1>10, <2>1, <2>2
    DEF IInv, Rekey, requestVars, RotationAlone, RequestsInside, OneKeyInDatabase,
        DefaultOpensDatabase, HeldStaysReadable, TypeOK
<1>11. CASE RotateFails
  <2>1. TypeOK'
    BY <1>11 DEF IInv, TypeOK, RotateFails, requestVars
  <2> QED
    BY <1>11, <2>1
    DEF IInv, RotateFails, requestVars, RotationAlone, RequestsInside, OneKeyInDatabase,
        DefaultOpensDatabase, HeldStaysReadable
<1>12. CASE SetDefault
  <2>1. Up /\ next \in Keys /\ next = check /\ readers = {}
    BY <1>12 DEF IInv, RotationAlone, SetDefault
  <2>2. TypeOK'
    BY <1>12, <2>1 DEF IInv, TypeOK, SetDefault, requestVars
  <2> QED
    BY <1>12, <2>1, <2>2
    DEF IInv, SetDefault, requestVars, RotationAlone, RequestsInside, OneKeyInDatabase,
        DefaultOpensDatabase, HeldStaysReadable, Keys
<1>13. CASE UNCHANGED vars
  BY <1>13
  DEF IInv, vars, requestVars, rotateVars, TypeOK, RotationAlone, RequestsInside,
      OneKeyInDatabase, DefaultOpensDatabase, HeldStaysReadable
<1> QED
  BY <1>1, <1>2, <1>3, <1>4, <1>5, <1>6, <1>7, <1>8, <1>9, <1>10, <1>11, <1>12, <1>13
  DEF Next, Request, Rotate

\* IInv is an invariant; each theorem below is one of its parts.
LEMMA Inductive == Spec => []IInv
  BY InitIInv, NextIInv, PTL DEF Spec

\* Every variable keeps its type, and the requests that hold the lock are those inside.
THEOREM TypeCorrect == Spec => []TypeOK
<1>1. IInv => TypeOK
  BY DEF IInv
<1> QED
  BY <1>1, Inductive, PTL

\* One key opens all that is stored, at every moment, crashes included.
THEOREM OneKeyCorrect == Spec => []OneKeyInDatabase
<1>1. IInv => OneKeyInDatabase
  BY DEF IInv
<1> QED
  BY <1>1, Inductive, PTL

\* The running process has the database's key, except between commit and replacement.
THEOREM DefaultCorrect == Spec => []DefaultOpensDatabase
<1>1. IInv => DefaultOpensDatabase
  BY DEF IInv
<1> QED
  BY <1>1, Inductive, PTL

\* The contract of BeginWrite: what is read or encrypted under the lock stays readable.
THEOREM BeginWriteCorrect == Spec => []HeldStaysReadable
<1>1. IInv => HeldStaysReadable
  BY DEF IInv
<1> QED
  BY <1>1, Inductive, PTL

-----------------------------------------------------------------------------
(* Messages beside saves and rotations.                                    *)

notifyVars == <<vars, settings, msg>>

\* Every step beside messages is one of MasterKey, and a message touches nothing of it.
LEMMA StepIsMasterKeys == [NotifyNext]_notifyVars => [Next]_vars
  BY DEF NotifyNext, Elsewhere, Message, Load, Decrypt, Post, EndContext, Note, notifyVars

\* Messages are of the running process.
OfProcess == ~Up => msg.at = "idle"

\* The header in hand opens, unless the key has changed since it was read.
HeaderOpens ==
  msg.at = "loaded" /\ ~msg.rotated => rot # "rekeyed" /\ msg.held \in {NoKey, default}

Messages ==
  [at : {"idle", "loaded", "posting", "done"}, kind : {"event", "test"},
   read : {"none", "on", "failed"}, held : Keys \cup {NoKey}, tries : Nat, ended : BOOLEAN,
   result : {"none", "sent", "quiet", "error", "status"}, got : BOOLEAN, rotated : BOOLEAN]

MessageType ==
  /\ msg \in Messages
  /\ msg.at \in {"loaded", "posting"} => msg.read = "on"
  /\ msg.at = "loaded" => msg.tries = 0
  /\ msg.at = "posting" => msg.tries <= MaxRetries /\ (msg.kind = "test" => msg.tries = 0)

MInv == MessageType /\ OfProcess /\ HeaderOpens /\ SentOrSaid

LEMMA InitMInv == NotifyInit => MInv
  BY NotifyConstants
  DEF NotifyInit, Init, Idle, MInv, MessageType, Messages, OfProcess, HeaderOpens, SentOrSaid, NoKey, Keys

\* What the steps of MasterKey do to the key a message relies on.
LEMMA KeyChanges ==
  ASSUME IInv, Next, Up, default' # NoKey, check' = check, rot # "rekeyed"
  PROVE  default' = default /\ rot' # "rekeyed"
  BY DEF IInv, RotationAlone, Next, Start, AskRotate, Crash, Request, Begin, PrepareEarly, Prepare,
         BeginLate, End, Rotate, BeginRotate, Rekey, RotateFails, SetDefault, Up, rotateVars,
         requestVars, NoKey

LEMMA ElsewhereMInv ==
  ASSUME IInv, MInv, Elsewhere
  PROVE  MInv'
<1>1. CASE default' = NoKey \/ msg.at = "idle"
  BY <1>1, NotifyConstants
  DEF Elsewhere, Idle, MInv, MessageType, Messages, OfProcess, HeaderOpens, SentOrSaid, Up, NoKey, Keys
<1>2. CASE ~(default' = NoKey \/ msg.at = "idle")
  <2> DEFINE changed == msg.rotated \/ (msg.at = "loaded" /\ check' # check)
  <2>1. msg' = [msg EXCEPT !.rotated = changed] /\ Up /\ Up'
    BY <1>2 DEF Elsewhere, MInv, OfProcess, Up
  <2>2. MessageType'
    BY <2>1 DEF MInv, MessageType, Messages
  <2>3. HeaderOpens'
    <3>1. msg'.at = msg.at /\ msg'.held = msg.held /\ msg'.rotated = changed
      BY <2>1 DEF MInv, MessageType, Messages
    <3> QED
      BY <1>2, <2>1, <3>1, KeyChanges DEF Elsewhere, MInv, HeaderOpens
  <2>4. SentOrSaid'
    BY <2>1 DEF MInv, MessageType, Messages, SentOrSaid
  <2> QED
    BY <2>1, <2>2, <2>3, <2>4 DEF MInv, OfProcess
<1> QED
  BY <1>1, <1>2

LEMMA MessageMInv ==
  ASSUME IInv, MInv, Message \/ EndContext
  PROVE  MInv'
<1> USE NotifyConstants DEF Keys, NoKey
<1>0. UNCHANGED <<stored, check, default, rot>> /\ (Up' <=> Up)
  BY DEF Message, Load, Decrypt, Post, Note, EndContext, vars, rotateVars, Up
<1>1. ASSUME NEW kind \in {"event", "test"}, Load(kind)
      PROVE  MInv'
  <2>1. Up /\ (rot # "rekeyed" => stored[Header] \in {NoKey, default})
    BY <1>1 DEF Load, IInv, DefaultOpensDatabase
  <2>2. stored[Header] \in Keys \cup {NoKey}
    BY DEF IInv, TypeOK
  <2>3. CASE settings = "on" /\ msg'.at = "loaded"
    <3>1. /\ msg'.kind = kind /\ msg'.read = "on" /\ msg'.held = stored[Header] /\ msg'.tries = 0
          /\ msg'.ended = FALSE /\ msg'.result = "none" /\ msg'.got = FALSE
          /\ msg'.rotated = (rot = "rekeyed")
      BY <1>1, <2>3 DEF Load, Idle
    <3>2. msg' = [at |-> "loaded", kind |-> kind, read |-> "on", held |-> stored[Header], tries |-> 0,
                  ended |-> FALSE, result |-> "none", got |-> FALSE, rotated |-> rot = "rekeyed"]
      BY <1>1, <2>3 DEF Load, Idle
    <3>3. msg' \in Messages
      BY <2>2, <3>2 DEF Messages
    <3> QED
      BY <1>0, <2>1, <2>3, <3>1, <3>3 DEF MInv, MessageType, OfProcess, HeaderOpens, SentOrSaid
  <2>4. CASE msg' \in {[Idle EXCEPT !.at = "done", !.kind = kind, !.read = "none", !.result = "quiet"],
                       [Idle EXCEPT !.at = "done", !.kind = kind, !.read = "none", !.result = "error"],
                       [Idle EXCEPT !.at = "done", !.kind = kind, !.read = "failed", !.result = "error"]}
    <3>1. /\ msg'.at = "done" /\ msg'.kind = kind /\ msg'.tries = 0
          /\ \/ msg'.read = "none" /\ msg'.result \in {"quiet", "error"}
             \/ msg'.read = "failed" /\ msg'.result = "error"
      BY <2>4 DEF Idle
    <3>2. msg' \in Messages
      <4>1. \A read \in {"none", "failed"}, result \in {"quiet", "error"} :
              [at |-> "done", kind |-> kind, read |-> read, held |-> NoKey, tries |-> 0, ended |-> FALSE,
               result |-> result, got |-> FALSE, rotated |-> FALSE] \in Messages
        BY DEF Messages
      <4>2. PICK read \in {"none", "failed"}, result \in {"quiet", "error"} :
              msg' = [Idle EXCEPT !.at = "done", !.kind = kind, !.read = read, !.result = result]
        BY <2>4
      <4> QED
        BY <4>1, <4>2 DEF Idle
    <3>3. msg'.result = "quiet" \/ msg'.kind = "test" \/ msg'.read = "failed"
      BY <1>1, <3>1 DEF Load, Idle
    <3> QED
      BY <1>0, <2>1, <3>1, <3>2, <3>3 DEF MInv, MessageType, OfProcess, HeaderOpens, SentOrSaid
  <2> QED
    BY <1>1, <2>3, <2>4 DEF Load, Idle
<1>2. CASE Decrypt
  <2>0. msg.at = "loaded" /\ msg \in Messages /\ msg.tries = 0 /\ msg.read = "on" /\ Up
    BY <1>2 DEF Decrypt, MInv, MessageType, OfProcess
  <2>1. CASE msg.held \in {NoKey, default}
    <3>1. msg' = [msg EXCEPT !.at = "posting", !.held = NoKey, !.rotated = FALSE]
      BY <1>2, <2>1 DEF Decrypt
    <3>2. msg' \in Messages
      BY <2>0, <3>1 DEF Messages
    <3>3. msg'.at = "posting" /\ msg'.read = "on" /\ msg'.tries = 0
      BY <2>0, <3>1 DEF Messages
    <3> QED
      BY <1>0, <2>0, <3>2, <3>3 DEF MInv, MessageType, OfProcess, HeaderOpens, SentOrSaid
  <2>2. CASE msg.held \notin {NoKey, default}
    <3>1. msg' = [msg EXCEPT !.at = "done", !.result = "error", !.held = NoKey]
      BY <1>2, <2>2 DEF Decrypt
    <3>2. msg' \in Messages
      BY <2>0, <3>1 DEF Messages
    <3>3. msg'.at = "done" /\ msg'.read = "on" /\ msg'.tries = 0 /\ msg'.result = "error"
      BY <2>0, <3>1 DEF Messages
    <3>4. msg.rotated
      BY <2>0, <2>2 DEF MInv, HeaderOpens
    <3>5. msg'.rotated = msg.rotated
      BY <2>0, <3>1 DEF Messages
    <3> QED
      BY <1>0, <2>0, <3>2, <3>3, <3>4, <3>5 DEF MInv, MessageType, OfProcess, HeaderOpens, SentOrSaid
  <2> QED
    BY <2>1, <2>2
<1>3. CASE Post
  <2>1. PICK outcome \in Outcomes :
          LET tries == msg.tries + 1
              done(result) == [msg EXCEPT !.at = "done", !.result = result, !.tries = tries,
                                          !.got = outcome \in {"accepted", "late"}]
          IN \/ msg.kind = "test" /\ outcome \in {"accepted", "refused"} /\ msg' = done("status")
             \/ msg.kind = "test" /\ outcome \in {"lost", "late"} /\ msg' = done("error")
             \/ msg.kind = "event" /\ Success(outcome) /\ msg' = done("sent")
             \/ /\ msg.kind = "event" /\ ~Success(outcome)
                /\ msg' = IF tries > MaxRetries \/ msg.ended THEN done("error")
                          ELSE [msg EXCEPT !.tries = tries]
    BY <1>3 DEF Post
  <2>2. msg.at = "posting" /\ msg \in Messages /\ msg.read = "on"
    BY <1>3 DEF Post, MInv, MessageType
  <2>3. msg.tries \in Nat /\ msg.tries + 1 \in Nat /\ msg.tries + 1 <= MaxRetries + 1
    BY <2>2 DEF MInv, MessageType, Messages
  <2>4. ASSUME NEW result \in {"status", "error", "sent"}, NEW got \in BOOLEAN,
               msg' = [msg EXCEPT !.at = "done", !.result = result, !.tries = msg.tries + 1, !.got = got],
               msg.kind = "test" => msg.tries = 0 /\ result # "sent",
               msg.kind = "event" => result # "status",
               result = "sent" => got,
               msg.kind = "event" /\ result = "error" => msg.tries + 1 > MaxRetries \/ msg.ended
        PROVE  MInv'
    <3>1. msg' \in Messages
      BY <2>2, <2>3, <2>4 DEF Messages
    <3>2. /\ msg'.at = "done" /\ msg'.read = "on" /\ msg'.tries = msg.tries + 1
          /\ msg'.result = result /\ msg'.kind = msg.kind
      BY <2>2, <2>4 DEF Messages
    <3>3. msg'.got = got /\ msg'.ended = msg.ended
      BY <2>2, <2>4 DEF Messages
    <3>4. OfProcess'
      BY <1>0, <2>2, <3>2 DEF MInv, OfProcess
    <3>5. msg.kind \in {"event", "test"}
      BY <2>2 DEF Messages
    <3>6. SentOrSaid'
      BY <2>3, <2>4, <3>2, <3>3, <3>5 DEF SentOrSaid
    <3> QED
      BY <3>1, <3>2, <3>4, <3>6 DEF MInv, MessageType, HeaderOpens
  <2>5. CASE msg' = [msg EXCEPT !.tries = msg.tries + 1] /\ msg.kind = "event" /\ msg.tries + 1 <= MaxRetries
    <3>1. msg' \in Messages
      BY <2>2, <2>3, <2>5 DEF Messages
    <3>2. msg'.at = "posting" /\ msg'.read = "on" /\ msg'.tries = msg.tries + 1 /\ msg'.kind = "event"
      BY <2>2, <2>5 DEF Messages
    <3> QED
      BY <1>0, <2>2, <2>5, <3>1, <3>2 DEF MInv, MessageType, OfProcess, HeaderOpens, SentOrSaid
  <2>6. (outcome \in {"accepted", "late"}) \in BOOLEAN /\ (msg.kind = "test" => msg.tries = 0)
    BY <2>2 DEF MInv, MessageType, Messages
  <2>7. CASE msg.kind = "test" /\ msg'.at = "done"
    <3>1. PICK result \in {"status", "error"} :
            msg' = [msg EXCEPT !.at = "done", !.result = result, !.tries = msg.tries + 1,
                               !.got = outcome \in {"accepted", "late"}]
      BY <2>1, <2>7
    <3> QED
      BY <2>4, <2>6, <2>7, <3>1
  <2>8. CASE msg.kind = "event" /\ Success(outcome)
    <3>1. msg' = [msg EXCEPT !.at = "done", !.result = "sent", !.tries = msg.tries + 1,
                             !.got = outcome \in {"accepted", "late"}]
      BY <2>1, <2>8
    <3>2. outcome \in {"accepted", "late"}
      BY <2>8 DEF Success
    <3> QED
      BY <2>4, <2>6, <2>8, <3>1, <3>2
  <2>9. CASE msg.kind = "event" /\ ~Success(outcome)
    <3>1. CASE msg.tries + 1 > MaxRetries \/ msg.ended
      <4>1. msg' = [msg EXCEPT !.at = "done", !.result = "error", !.tries = msg.tries + 1,
                               !.got = outcome \in {"accepted", "late"}]
        BY <2>1, <2>9, <3>1
      <4> QED
        BY <2>4, <2>6, <2>9, <3>1, <4>1
    <3>2. CASE ~(msg.tries + 1 > MaxRetries \/ msg.ended)
      BY <2>1, <2>3, <2>5, <2>9, <3>2
    <3> QED
      BY <3>1, <3>2
  <2> QED
    BY <2>1, <2>2, <2>7, <2>8, <2>9 DEF Messages
<1>4. CASE EndContext
  BY <1>0, <1>4 DEF EndContext, MInv, MessageType, Messages, OfProcess, HeaderOpens, SentOrSaid
<1>5. CASE Note
  BY <1>5 DEF Note, Idle, MInv, MessageType, Messages, OfProcess, HeaderOpens, SentOrSaid
<1> QED
  BY <1>1, <1>2, <1>3, <1>4, <1>5 DEF Message

LEMMA NextMInv ==
  ASSUME IInv, MInv, [NotifyNext]_notifyVars
  PROVE  MInv'
<1>1. CASE UNCHANGED notifyVars
  BY <1>1 DEF notifyVars, vars, rotateVars, MInv, MessageType, OfProcess, HeaderOpens, SentOrSaid, Up
<1> QED
  BY <1>1, ElsewhereMInv, MessageMInv DEF NotifyNext

-----------------------------------------------------------------------------
\* With messages the process behaves, for the master key, as MasterKey says: whatever is
\* proved of its credentials holds beside notify_svc, which reads them without BeginWrite.
THEOREM MessagesLeaveKeys == NotifySpec => Spec
<1>1. NotifyInit => Init
  BY DEF NotifyInit
<1> QED
  BY <1>1, StepIsMasterKeys, PTL DEF NotifySpec, Spec, notifyVars

\* What a caller is told of a message is true, for any number of attempts and requests, however
\* saves, rotations, crashes and the time limit fall: in particular a header can fail to
\* open only because a rotation came between.
THEOREM SentOrSaidCorrect == NotifySpec => []SentOrSaid
<1>1. NotifyInit => IInv /\ MInv
  BY InitIInv, InitMInv DEF NotifyInit
<1>2. IInv /\ MInv /\ [NotifyNext]_notifyVars => IInv' /\ MInv'
  BY StepIsMasterKeys, NextIInv, NextMInv
<1>3. MInv => SentOrSaid
  BY DEF MInv
<1> QED
  BY <1>1, <1>2, <1>3, PTL DEF NotifySpec, notifyVars

-----------------------------------------------------------------------------
(* When jobs start (Scheduler).  A due time starts its target once, and    *)
(* none is lost without cause, for any jobs, schedules, time zones and     *)
(* instants, however the clock moves and whatever a tick could read.       *)
(*                                                                         *)
(* Once, because what has been started is past for the last tick and for   *)
(* the remembered time, and a next run is strictly after either.           *)
(* None lost, because a remembered time was computed from an instant at    *)
(* which what became due later was still to come.                          *)

\* What has been started is past, for the clock, for the last tick and for what is remembered.
FiredInv ==
  \A x \in Targets, t \in Times : fired[x][t] > 0 =>
    /\ t <= now /\ (lastTick # None => t <= lastTick)
    /\ mem[x] # None => t < mem[x].next

\* How the instants that are remembered are ordered.
ClockInv ==
  /\ now <= peak /\ (lastTick # None => lastTick <= peak)
  /\ lastTick # None <=> boot # None
  /\ readAt # None => lastTick # None
  /\ boot # None => boot <= lastTick
  /\ readAt # None => readAt <= lastTick
  /\ seen # None => lastTick # None
  /\ boot # None => boot <= now

Since == IF readAt # None THEN readAt ELSE boot

\* A remembered time is not one that has passed when the database was read, and passes over
\* nothing that has not been seen.
MemoryInv ==
  \A x \in Targets : mem[x] # None =>
    /\ lastTick # None /\ mem[x].next > Since
    /\ \A t \in Times : t > peak /\ Due(mem[x].spec, mem[x].zone, t) => mem[x].next <= t

\* What is owed is due by the saved schedule, after the last tick or as remembered.
OwedInv ==
  \A o \in owed :
    /\ lastTick # None /\ SpecOf(o[1]) # None /\ Due(SpecOf(o[1]), zone, o[2])
    /\ mem[o[1]] # None /\ mem[o[1]].spec = SpecOf(o[1]) /\ mem[o[1]].zone = zone =>
         mem[o[1]].next <= o[2]
    /\ ~Known(o[1]) => o[2] > lastTick

TicksInv == SchedulerTypeOK /\ FiredInv /\ ClockInv /\ MemoryInv /\ OwedInv
-----------------------------------------------------------------------------
(* When a schedule is due.                                                 *)

Below == {p \in Nat \X Nat : p[1] < p[2]}

\* A set of numbers has a least one.
LEMMA Least ==
  ASSUME NEW S \in SUBSET Nat, S # {}
  PROVE  Min(S) \in S /\ \A n \in S : Min(S) <= n
<1>1. IsWellFoundedOn(Below, Nat)
  BY NatLessThanWellFounded DEF OpToRel, Below
<1>2. PICK m \in S : \A n \in S : <<n, m>> \notin Below
  BY <1>1, WFMin
<1>3. \A n \in S : m \in Nat /\ n \in Nat /\ ~(n < m)
  BY <1>2 DEF Below
<1>4. \E k \in S : \A n \in S : k <= n
  BY <1>3
<1> QED
  BY <1>4 DEF Min

LEMMA Later ==
  ASSUME NEW a \in Nat, NEW b \in Nat
  PROVE  Max({a, b}) \in {a, b} /\ a <= Max({a, b}) /\ b <= Max({a, b})
<1>1. \E m \in {a, b} : \A n \in {a, b} : m >= n
  OBVIOUS
<1> QED
  BY <1>1 DEF Max

LEMMA Earlier ==
  ASSUME NEW a \in Nat, NEW b \in Nat
  PROVE  Min({a, b}) \in {a, b} /\ Min({a, b}) <= a /\ Min({a, b}) <= b
<1>1. \E m \in {a, b} : \A n \in {a, b} : m <= n
  OBVIOUS
<1> QED
  BY <1>1 DEF Min

\* The next run is after the instant asked about, and passes over nothing that is due after it.
LEMMA NextRunFacts ==
  ASSUME NEW s, NEW z, NEW a \in Times
  PROVE  /\ NextRun(s, z, a) \in Times \cup {Never} /\ a < NextRun(s, z, a)
         /\ \A t \in Times : a < t /\ Due(s, z, t) => NextRun(s, z, a) <= t
<1> DEFINE S == {t \in Times : /\ t > a /\ Matches(s, z, t)
                               /\ s \in FixedHour => Wall[z][t] # Wall[z][a]} \cup {Never}
<1>1. S \in SUBSET Nat /\ S # {} /\ \A t \in S : a < t /\ t \in Times \cup {Never}
  BY SchedulerConstants DEF Times, Never
<1>2. Min(S) \in S /\ \A t \in S : Min(S) <= t
  BY <1>1, Least
<1>3. NextRun(s, z, a) = Min(S)
  BY DEF NextRun
<1>4. ASSUME NEW t \in Times, a < t, Due(s, z, t)
      PROVE  t \in S
  <2>1. s \in FixedHour => Wall[z][t] # Wall[z][a]
    BY <1>4 DEF Due
  <2> QED
    BY <1>4, <2>1 DEF Due, Times
<1> HIDE DEF S
<1> QED
  BY <1>1, <1>2, <1>3, <1>4

LEMMA SpecType ==
  ASSUME SchedulerTypeOK, NEW x \in Targets
  PROVE  SpecOf(x) \in Specs \cup {None}
  BY SchedulerConstants, NoneAssumption DEF SchedulerTypeOK, SpecOf, Targets

Remembered == [spec : Specs, zone : Zones, next : Times \cup {Never}]

\* What the invariants are about, as numbers.
LEMMA Numbers ==
  ASSUME SchedulerTypeOK
  PROVE  /\ now \in Nat /\ now \in Times /\ peak \in Nat /\ now <= peak /\ zone \in Zones
         /\ Times \subseteq Nat /\ Never \in Nat /\ Grace \in Nat
         /\ lastTick # None => lastTick \in Times
         /\ readAt # None => readAt \in Times
         /\ boot # None => boot \in Times
         /\ \A x \in Targets : mem[x] # None => mem[x] \in Remembered /\ mem[x].next \in Nat
         /\ \A x \in Targets, t \in Times : fired[x][t] \in Nat
         /\ \A o \in owed : o[1] \in Targets /\ o[2] \in Times
BY SchedulerConstants DEF SchedulerTypeOK, Times, Never, Remembered

-----------------------------------------------------------------------------
(* Tick.                                                                   *)

Scopes == {Targets, Plans, {}}
Active(x, scope) == x \in scope /\ SpecOf(x) # None
Starts(x, scope) == Active(x, scope) /\ NextOf(x, Base) <= now /\ ~Missed(NextOf(x, Base))
Late == now - (IF readAt # None THEN readAt ELSE IF boot # None THEN boot ELSE now) > Grace

\* What a new or changed target counts from, and what it is planned for.
LEMMA BaseFacts ==
  ASSUME TicksInv
  PROVE  /\ Base \in Times /\ Base <= now
         /\ lastTick # None => Base <= lastTick
         /\ lastTick # None /\ lastTick <= now => Base = lastTick
         /\ lastTick = None \/ lastTick > now => Base = now
BY Numbers DEF TicksInv, Base

LEMMA NextFacts ==
  ASSUME TicksInv, NEW x \in Targets, SpecOf(x) # None
  PROVE  /\ NextOf(x, Base) \in Times \cup {Never} /\ NextOf(x, Base) \in Nat
         /\ NextOf(x, Base) <= now => NextOf(x, Base) \in Times
         /\ Remember(x, NextOf(x, Base), Base) \in Remembered
         /\ Remember(x, NextOf(x, Base), Base).next > now
<1>0. Base \in Times /\ SchedulerTypeOK /\ SpecOf(x) \in Specs
  BY BaseFacts, SpecType DEF TicksInv
<1>1. NextRun(SpecOf(x), zone, Base) \in Times \cup {Never}
  BY <1>0, NextRunFacts
<1>2. mem[x] # None => mem[x].next \in Times \cup {Never}
  BY <1>0, Numbers DEF Remembered
<1>3. NextOf(x, Base) \in Times \cup {Never}
  BY <1>1, <1>2 DEF NextOf, Known
<1>4. NextRun(SpecOf(x), zone, now) \in Times \cup {Never} /\ now < NextRun(SpecOf(x), zone, now)
  BY <1>0, Numbers, NextRunFacts
<1>5. NextOf(x, Base) \in Nat /\ (NextOf(x, Base) <= now => NextOf(x, Base) \in Times)
  BY <1>0, <1>3, Numbers, SchedulerConstants DEF Times, Never
<1>6. now \in Nat /\ zone \in Zones
  BY <1>0, Numbers
<1> QED
  BY <1>0, <1>3, <1>4, <1>5, <1>6 DEF Remember, Remembered

\* A tick, one target at a time.
LEMMA TickFacts ==
  ASSUME TicksInv, NEW scope \in Scopes, NEW broken \in SUBSET Jobs, Tick(scope, broken)
  PROVE  /\ now' = now /\ zone' = zone /\ row' = row /\ peak' = peak /\ lastTick' = now
         /\ seen' = IF scope = {} THEN seen ELSE zone
         /\ mem' = [x \in Targets |-> IF Active(x, scope) THEN Remember(x, NextOf(x, Base), Base)
                                      ELSE IF x \in scope THEN None ELSE mem[x]]
         /\ fired' = [x \in Targets |->
                        IF Starts(x, scope) THEN [fired[x] EXCEPT ![NextOf(x, Base)] = @ + 1] ELSE fired[x]]
         /\ busy' \subseteq Targets
         /\ owed' \subseteq owed
         /\ \A o \in owed' : \/ o[2] > now
                             \/ ~Starts(o[1], scope) /\ ~Late /\ (o[1] \in scope \/ Known(o[1]))
         /\ boot' = IF boot = None THEN now ELSE boot
         /\ readAt' = IF scope = Targets \/ (readAt # None /\ readAt > now) THEN now ELSE readAt
<1>0. scope \subseteq Targets /\ busy \subseteq Targets
  BY DEF Scopes, TicksInv, SchedulerTypeOK, Targets
<1> DEFINE active == {x \in scope : SpecOf(x) # None}
           due == [x \in active |-> NextOf(x, Base)]
           starts == {x \in active : due[x] <= now /\ ~Missed(due[x])}
<1>1. \A x \in Targets : /\ x \in active <=> Active(x, scope)
                         /\ x \in active => due[x] = NextOf(x, Base)
                         /\ x \in starts <=> Starts(x, scope)
  BY <1>0 DEF Active, Starts
<1>2. starts \subseteq Targets
  BY <1>0
<1>3. /\ mem' = [x \in Targets |-> IF x \in active THEN Remember(x, due[x], Base)
                                   ELSE IF x \in scope THEN None ELSE mem[x]]
      /\ fired' = [x \in Targets |->
                     IF x \in starts THEN [fired[x] EXCEPT ![due[x]] = @ + 1] ELSE fired[x]]
      /\ busy' = busy \cup (starts \ broken)
      /\ owed' = {o \in owed :
                    \/ o[2] > now
                    \/ o[1] \notin starts \cup {x \in Targets : Late \/ (x \notin scope /\ ~Known(x))}}
  BY DEF Tick, Late
<1>4. \A o \in owed : o[1] \in Targets
  BY Numbers DEF TicksInv
<1>5. /\ now' = now /\ zone' = zone /\ row' = row /\ peak' = peak /\ lastTick' = now
      /\ seen' = IF scope = {} THEN seen ELSE zone
      /\ boot' = IF boot = None THEN now ELSE boot
      /\ readAt' = IF scope = Targets \/ (readAt # None /\ readAt > now) THEN now ELSE readAt
  BY DEF Tick
<1> HIDE DEF active, due, starts
<1>6. mem' = [x \in Targets |-> IF Active(x, scope) THEN Remember(x, NextOf(x, Base), Base)
                                ELSE IF x \in scope THEN None ELSE mem[x]]
  BY <1>1, <1>3
<1>7. fired' = [x \in Targets |->
                  IF Starts(x, scope) THEN [fired[x] EXCEPT ![NextOf(x, Base)] = @ + 1] ELSE fired[x]]
  <2>1. \A x \in Targets : Starts(x, scope) => x \in active
    BY <1>1 DEF Starts
  <2> QED
    BY <1>1, <1>3, <2>1
<1>8. \A o \in owed' : \/ o[2] > now
                       \/ ~Starts(o[1], scope) /\ ~Late /\ (o[1] \in scope \/ Known(o[1]))
  BY <1>1, <1>3, <1>4
<1> QED
  BY <1>0, <1>2, <1>3, <1>5, <1>6, <1>7, <1>8

LEMMA TickType ==
  ASSUME TicksInv, NEW scope \in Scopes, NEW broken \in SUBSET Jobs, Tick(scope, broken),
         disturbances' \in 0 .. MaxDisturbances
  PROVE  SchedulerTypeOK'
<1>0. SchedulerTypeOK /\ now \in Times
  BY Numbers DEF TicksInv
<1>1. mem' \in [Targets -> Remembered \cup {None}]
  <2>1. \A x \in Targets : Active(x, scope) => Remember(x, NextOf(x, Base), Base) \in Remembered
    BY NextFacts DEF Active
  <2> QED
    BY <1>0, <2>1, TickFacts DEF SchedulerTypeOK, Remembered
<1>2. fired' \in [Targets -> [Times -> Nat]]
  <2>1. ASSUME NEW x \in Targets, Starts(x, scope)
        PROVE  [fired[x] EXCEPT ![NextOf(x, Base)] = @ + 1] \in [Times -> Nat]
    BY <1>0, <2>1, NextFacts DEF Starts, Active, SchedulerTypeOK
  <2> QED
    BY <1>0, <2>1, TickFacts DEF SchedulerTypeOK
<1>3. seen' \in Zones \cup {None}
  BY <1>0, TickFacts DEF SchedulerTypeOK
<1>4. boot' \in Times \cup {None} /\ readAt' \in Times \cup {None} /\ lastTick' \in Times
  BY <1>0, TickFacts DEF SchedulerTypeOK
<1>5. /\ now' = now /\ zone' = zone /\ row' = row /\ peak' = peak
      /\ busy' \subseteq Targets /\ owed' \subseteq owed
  BY TickFacts
<1> QED
  BY <1>0, <1>1, <1>2, <1>3, <1>4, <1>5 DEF SchedulerTypeOK, Remembered

\* Nothing that is planned now has been started before.
LEMMA NewStart ==
  ASSUME TicksInv, NEW x \in Targets, SpecOf(x) # None, NEW t \in Times, fired[x][t] > 0
  PROVE  t < NextOf(x, Base)
<1>0. /\ t <= now /\ (lastTick # None => t <= lastTick)
      /\ mem[x] # None => t < mem[x].next
  BY DEF TicksInv, FiredInv
<1>1. Base < NextRun(SpecOf(x), zone, Base)
  BY BaseFacts, NextRunFacts
<1>2. t <= Base
  BY <1>0, BaseFacts, Numbers DEF TicksInv
<1>3. t \in Nat /\ Base \in Nat /\ NextRun(SpecOf(x), zone, Base) \in Nat
  BY BaseFacts, NextRunFacts, Numbers DEF TicksInv
<1> QED
  BY <1>0, <1>1, <1>2, <1>3 DEF NextOf, Known

LEMMA TickFired ==
  ASSUME TicksInv, NEW scope \in Scopes, NEW broken \in SUBSET Jobs, Tick(scope, broken)
  PROVE  FiredInv'
<1> SUFFICES ASSUME NEW x \in Targets, NEW t \in Times, fired'[x][t] > 0
             PROVE  t <= now /\ (mem'[x] # None => t < mem'[x].next)
  BY TickFacts DEF FiredInv
<1>0. SchedulerTypeOK /\ t \in Nat /\ now \in Nat
  BY Numbers DEF TicksInv
<1>1. fired[x][t] > 0 \/ (Starts(x, scope) /\ t = NextOf(x, Base))
  BY <1>0, TickFacts DEF SchedulerTypeOK
<1>2. t <= now
  BY <1>1 DEF TicksInv, FiredInv, Starts
<1>3. CASE Active(x, scope)
  <2>1. mem'[x] = Remember(x, NextOf(x, Base), Base)
    BY <1>3, TickFacts
  <2>2. Remember(x, NextOf(x, Base), Base).next > now /\ Remember(x, NextOf(x, Base), Base) \in Remembered
    BY <1>3, NextFacts DEF Active
  <2>3. Remember(x, NextOf(x, Base), Base).next \in Nat
    BY <2>2, <1>0, Numbers, SchedulerConstants DEF Remembered, Times, Never
  <2> QED
    BY <1>0, <1>2, <2>1, <2>2, <2>3
<1>4. CASE ~Active(x, scope)
  <2>1. mem'[x] \in {None, mem[x]} /\ fired[x][t] > 0
    BY <1>1, <1>4, TickFacts DEF Starts
  <2> QED
    BY <1>2, <2>1 DEF TicksInv, FiredInv
<1> QED
  BY <1>3, <1>4

LEMMA TickClock ==
  ASSUME TicksInv, NEW scope \in Scopes, NEW broken \in SUBSET Jobs, Tick(scope, broken)
  PROVE  ClockInv'
<1>0. now \in Nat /\ now \in Times /\ None \notin Times /\ now <= peak
      /\ (boot # None => boot \in Nat) /\ (readAt # None => readAt \in Nat)
  BY Numbers, NoneAssumption DEF TicksInv
<1> QED
  BY <1>0, TickFacts DEF TicksInv, ClockInv

\* Every target that is started was started for a time of its own.
LEMMA TickOnce ==
  ASSUME TicksInv, NEW scope \in Scopes, NEW broken \in SUBSET Jobs, Tick(scope, broken),
         NEW x \in Targets, NEW t \in Times, fired[x][t] <= 1
  PROVE  fired'[x][t] <= 1
<1>0. SchedulerTypeOK /\ fired[x][t] \in Nat
  BY Numbers DEF TicksInv
<1>1. CASE Starts(x, scope) /\ t = NextOf(x, Base)
  <2>1. ~(fired[x][t] > 0)
    BY <1>0, <1>1, NewStart, NextFacts DEF Starts, Active
  <2>2. fired'[x][t] = fired[x][t] + 1
    BY <1>0, <1>1, TickFacts DEF SchedulerTypeOK
  <2> QED
    BY <1>0, <2>1, <2>2
<1>2. CASE ~(Starts(x, scope) /\ t = NextOf(x, Base))
  BY <1>0, <1>2, TickFacts DEF SchedulerTypeOK
<1> QED
  BY <1>1, <1>2

\* What a tick plans for an active target passes over nothing that has not been seen.
LEMMA PlannedAhead ==
  ASSUME TicksInv, NEW x \in Targets, SpecOf(x) # None, NEW t \in Times, t > peak, Due(SpecOf(x), zone, t)
  PROVE  Remember(x, NextOf(x, Base), Base).next <= t
<1>0. now \in Times /\ Base \in Times /\ Base < t /\ now < t
  BY BaseFacts, Numbers DEF TicksInv
<1>1. NextRun(SpecOf(x), zone, Base) <= t /\ NextRun(SpecOf(x), zone, now) <= t
  BY <1>0, NextRunFacts
<1>2. Known(x) => mem[x].next <= t
  BY DEF Known, TicksInv, MemoryInv
<1> QED
  BY <1>1, <1>2 DEF Remember, NextOf

LEMMA TickMemory ==
  ASSUME TicksInv, NEW scope \in Scopes, NEW broken \in SUBSET Jobs, Tick(scope, broken)
  PROVE  MemoryInv'
<1> SUFFICES ASSUME NEW x \in Targets, mem'[x] # None
             PROVE  /\ lastTick' # None /\ mem'[x].next > Since'
                    /\ \A t \in Times : t > peak /\ Due(mem'[x].spec, mem'[x].zone, t) => mem'[x].next <= t
  BY TickFacts DEF MemoryInv, Due, Matches
<1>0. /\ now \in Nat /\ now \in Times /\ zone' = zone /\ lastTick' = now /\ None \notin Times
      /\ boot' = IF boot = None THEN now ELSE boot
      /\ readAt' = IF scope = Targets \/ (readAt # None /\ readAt > now) THEN now ELSE readAt
      /\ (boot # None => boot \in Nat) /\ (readAt # None => readAt \in Nat)
      /\ (mem[x] # None => mem[x].next \in Nat)
  BY Numbers, TickFacts, NoneAssumption DEF TicksInv
<1>1. Since' \in Nat /\ Since' <= now
  BY <1>0 DEF Since, TicksInv, ClockInv
<1>2. CASE Active(x, scope)
  <2>1. mem'[x] = Remember(x, NextOf(x, Base), Base)
    BY <1>2, TickFacts
  <2>2. Remember(x, NextOf(x, Base), Base).next > now /\ Remember(x, NextOf(x, Base), Base) \in Remembered
    BY <1>2, NextFacts DEF Active
  <2>3. Remember(x, NextOf(x, Base), Base).next \in Nat
    BY <2>2, Numbers, SchedulerConstants DEF Remembered, Times, Never
  <2>4. mem'[x].next > Since'
    BY <1>0, <1>1, <2>1, <2>2, <2>3
  <2>5. mem'[x].spec = SpecOf(x) /\ mem'[x].zone = zone
    BY <2>1 DEF Remember
  <2>6. \A t \in Times : t > peak /\ Due(mem'[x].spec, mem'[x].zone, t) => mem'[x].next <= t
    BY <1>2, <2>1, <2>5, PlannedAhead DEF Active
  <2> QED
    BY <1>0, <2>4, <2>6
<1>3. CASE ~Active(x, scope)
  <2>1. mem'[x] = mem[x] /\ x \notin scope /\ scope # Targets /\ mem[x] # None
    BY <1>3, TickFacts
  <2>2. Since' <= Since /\ Since \in Nat /\ mem[x].next > Since
    BY <1>0, <2>1 DEF Since, TicksInv, ClockInv, MemoryInv
  <2> QED
    BY <1>0, <1>1, <2>1, <2>2 DEF TicksInv, MemoryInv
<1> QED
  BY <1>2, <1>3

\* What is owed is planned for its time or before,
LEMMA OwedPlanned ==
  ASSUME TicksInv, NEW o \in owed
  PROVE  NextOf(o[1], Base) <= o[2]
<1>0. /\ lastTick # None /\ SpecOf(o[1]) # None /\ Due(SpecOf(o[1]), zone, o[2]) /\ o[2] \in Times
      /\ (~Known(o[1]) => o[2] > lastTick)
  BY Numbers DEF TicksInv, OwedInv
<1>1. CASE Known(o[1])
  BY <1>1 DEF NextOf, Known, TicksInv, OwedInv
<1>2. CASE ~Known(o[1])
  <2>1. Base \in Times /\ Base < o[2]
    BY <1>0, <1>2, BaseFacts, Numbers DEF TicksInv
  <2> QED
    BY <1>0, <1>2, <2>1, NextRunFacts DEF NextOf
<1> QED
  BY <1>1, <1>2

\* and when it is due, a tick that is not late has not missed it.
LEMMA OwedInTime ==
  ASSUME TicksInv, NEW o \in owed, o[2] <= now, ~Late
  PROVE  ~Missed(NextOf(o[1], Base))
<1>0. /\ lastTick # None /\ SpecOf(o[1]) # None /\ o[1] \in Targets /\ o[2] \in Nat
      /\ (~Known(o[1]) => o[2] > lastTick)
  BY Numbers DEF TicksInv, OwedInv
<1>1. boot # None /\ Since \in Nat /\ Since <= lastTick /\ lastTick \in Nat /\ now \in Nat /\ Grace \in Nat
  BY <1>0, Numbers DEF Since, TicksInv, ClockInv
<1>2. now - Since <= Grace
  BY <1>1 DEF Late, Since
<1>3. NextOf(o[1], Base) > Since /\ NextOf(o[1], Base) \in Nat
  <2>1. CASE Known(o[1])
    BY <1>0, <2>1, NextFacts DEF NextOf, Known, TicksInv, MemoryInv
  <2>2. CASE ~Known(o[1])
    <3>1. Base = lastTick /\ Base \in Times
      BY <1>0, <1>1, <2>2, BaseFacts
    <3>2. NextOf(o[1], Base) > Base
      BY <2>2, <3>1, NextRunFacts DEF NextOf
    <3> QED
      BY <1>0, <1>1, <3>1, <3>2, NextFacts
  <2> QED
    BY <2>1, <2>2
<1> QED
  BY <1>1, <1>2, <1>3 DEF Missed

\* So a tick that reads a target starts what is due of it.
LEMMA OwedAhead ==
  ASSUME TicksInv, NEW scope \in Scopes, NEW broken \in SUBSET Jobs, Tick(scope, broken),
         NEW o \in owed', o[1] \in scope
  PROVE  o[2] > now
<1> SUFFICES ASSUME ~(o[2] > now)
             PROVE  FALSE
  OBVIOUS
<1>1. o \in owed /\ ~Starts(o[1], scope) /\ ~Late
  BY TickFacts
<1>2. SpecOf(o[1]) # None /\ o[1] \in Targets /\ o[2] \in Nat /\ now \in Nat
  BY <1>1, Numbers DEF TicksInv, OwedInv
<1>3. NextOf(o[1], Base) <= now
  BY <1>1, <1>2, OwedPlanned, NextFacts
<1>4. ~Missed(NextOf(o[1], Base))
  BY <1>1, <1>2, OwedInTime
<1> QED
  BY <1>1, <1>2, <1>3, <1>4 DEF Starts, Active

LEMMA TickOwed ==
  ASSUME TicksInv, NEW scope \in Scopes, NEW broken \in SUBSET Jobs, Tick(scope, broken)
  PROVE  OwedInv'
<1> SUFFICES ASSUME NEW o \in owed'
             PROVE  /\ lastTick' # None /\ SpecOf(o[1])' # None /\ Due(SpecOf(o[1])', zone', o[2])
                    /\ mem'[o[1]] # None /\ mem'[o[1]].spec = SpecOf(o[1])' /\ mem'[o[1]].zone = zone'
                         => mem'[o[1]].next <= o[2]
                    /\ ~Known(o[1])' => o[2] > lastTick'
  BY DEF OwedInv, Due, Matches
<1>0. /\ lastTick' = now /\ zone' = zone /\ seen' = IF scope = {} THEN seen ELSE zone
      /\ o \in owed /\ now \in Times /\ None \notin Times /\ scope \subseteq Targets
  BY TickFacts, Numbers, NoneAssumption DEF TicksInv, Scopes, Targets
<1>1. /\ SpecOf(o[1]) # None /\ Due(SpecOf(o[1]), zone, o[2]) /\ o[1] \in Targets /\ o[2] \in Times
      /\ mem[o[1]] # None /\ mem[o[1]].spec = SpecOf(o[1]) /\ mem[o[1]].zone = zone
           => mem[o[1]].next <= o[2]
  BY <1>0, Numbers DEF TicksInv, OwedInv
<1>2. SpecOf(o[1])' = SpecOf(o[1])
  BY TickFacts DEF SpecOf
<1>3. CASE o[1] \in scope
  <2>1. o[2] > now
    BY <1>3, OwedAhead
  <2>2. mem'[o[1]] = Remember(o[1], NextOf(o[1], Base), Base)
    BY <1>1, <1>3, TickFacts DEF Active
  <2>3. NextRun(SpecOf(o[1]), zone, now) <= o[2] /\ NextOf(o[1], Base) <= o[2]
    BY <1>0, <1>1, <2>1, NextRunFacts, OwedPlanned
  <2>4. mem'[o[1]].next <= o[2]
    BY <2>2, <2>3 DEF Remember
  <2> QED
    BY <1>0, <1>1, <1>2, <2>1, <2>4
<1>4. CASE o[1] \notin scope
  <2>1. mem'[o[1]] = mem[o[1]]
    BY <1>1, <1>4, TickFacts DEF Active
  <2>2. o[2] > now \/ Known(o[1])
    BY <1>4, TickFacts
  <2>3. Known(o[1]) => Known(o[1])'
    BY <1>0, <1>2, <2>1 DEF Known
  <2> QED
    BY <1>0, <1>1, <1>2, <2>1, <2>2, <2>3
<1> QED
  BY <1>3, <1>4

LEMMA TickLosesNothing ==
  ASSUME TicksInv, NothingLost, NEW scope \in Scopes, NEW broken \in SUBSET Jobs, Tick(scope, broken)
  PROVE  NothingLost'
<1> SUFFICES ASSUME NEW o \in owed', readAt' # None
             PROVE  o[2] > readAt'
  BY DEF NothingLost
<1>0. /\ o \in owed /\ o[1] \in Targets /\ o[2] \in Nat /\ now \in Nat /\ (readAt # None => readAt \in Nat)
      /\ readAt' = IF scope = Targets \/ (readAt # None /\ readAt > now) THEN now ELSE readAt
  BY TickFacts, Numbers DEF TicksInv
<1>1. CASE scope = Targets
  BY <1>0, <1>1, OwedAhead
<1>2. CASE scope # Targets
  BY <1>0, <1>2 DEF NothingLost
<1> QED
  BY <1>1, <1>2

-----------------------------------------------------------------------------
(* The other steps.                                                        *)

TickStep ==
  \E scope \in Scopes, broken \in SUBSET Jobs :
    Tick(scope, broken) /\ disturbances' \in 0 .. MaxDisturbances

Others ==
  \/ Advance \/ SetBack \/ SetZone \/ Restart
  \/ \E j \in Jobs : Save(j) \/ Delete(j) \/ Trigger(j)
  \/ \E x \in Targets : Finish(x)

LEMMA Steps ==
  ASSUME SchedulerTypeOK, SchedulerNext
  PROVE  TickStep \/ Others
<1>1. CASE TickReads
  <2>1. {} \in SUBSET Jobs /\ Targets \in Scopes /\ disturbances' \in 0 .. MaxDisturbances
    BY <1>1 DEF TickReads, SchedulerTypeOK, Scopes
  <2> QED
    BY <1>1, <2>1 DEF TickReads, TickStep
<1>2. CASE TickFails
  <2>1. /\ {} \in SUBSET Jobs /\ Jobs \in SUBSET Jobs /\ {{}, Plans, Targets} \subseteq Scopes
        /\ disturbances' \in 0 .. MaxDisturbances
    BY <1>2, SchedulerConstants DEF TickFails, Disturb, SchedulerTypeOK, Scopes
  <2>2. CASE \E scope \in {{}, Plans} : Tick(scope, {})
    BY <2>1, <2>2 DEF TickStep
  <2>3. CASE Tick(Targets, Jobs)
    BY <2>1, <2>3 DEF TickStep
  <2> QED
    BY <1>2, <2>2, <2>3 DEF TickFails
<1> QED
  BY <1>1, <1>2 DEF SchedulerNext, Others

LEMMA OthersType ==
  ASSUME SchedulerTypeOK, Others
  PROVE  SchedulerTypeOK'
<1> USE SchedulerConstants
<1>1. CASE Advance
  <2>1. peak' \in {peak, now + 1} /\ peak <= peak' /\ now + 1 <= peak'
    BY <1>1, Numbers, Later DEF Advance
  <2>2. now' \in Times /\ peak' \in now' .. MaxTime
    BY <1>1, <2>1 DEF Advance, SchedulerTypeOK, Times
  <2>3. owed' \subseteq Targets \X Times
    BY <1>1, <2>2 DEF Advance, SchedulerTypeOK
  <2> QED
    BY <1>1, <2>2, <2>3 DEF Advance, SchedulerTypeOK
<1>2. CASE SetBack
  <2>1. now' \in Times /\ peak' \in now' .. MaxTime
    BY <1>2 DEF SetBack, SchedulerTypeOK, Times
  <2>2. boot' \in Times \cup {None}
    <3>1. CASE boot = None
      BY <1>2, <3>1 DEF SetBack
    <3>2. CASE boot # None
      <4>1. boot \in Times /\ boot \in Nat /\ now - 1 \in Nat /\ now - 1 \in Times
        BY <1>2, <2>1, <3>2, Numbers DEF SetBack
      <4>2. boot' \in {boot, now - 1}
        BY <1>2, <3>2, <4>1, Earlier DEF SetBack
      <4> QED
        BY <4>1, <4>2
    <3> QED
      BY <3>1, <3>2
  <2>3. fired' \in [Targets -> [Times -> Nat]]
    BY <1>2 DEF SetBack, NothingFired
  <2> QED
    BY <1>2, <2>1, <2>2, <2>3 DEF SetBack, Disturb, SchedulerTypeOK
<1>3. CASE SetZone
  BY <1>3 DEF SetZone, Disturb, SchedulerTypeOK
<1>4. CASE Restart
  BY <1>4 DEF Restart, Disturb, SchedulerTypeOK
<1>5. ASSUME NEW j \in Jobs, Save(j) \/ Delete(j)
      PROVE  SchedulerTypeOK'
  <2>1. row' \in [Jobs -> [spec : Specs, paused : BOOLEAN] \cup {None}]
    BY <1>5 DEF Save, Delete, SchedulerTypeOK
  <2>2. owed' \subseteq owed /\ disturbances' \in 0 .. MaxDisturbances
    BY <1>5 DEF Save, Delete, Disturb, SchedulerTypeOK
  <2> QED
    BY <1>5, <2>1, <2>2 DEF Save, Delete, SchedulerTypeOK
<1>6. ASSUME NEW j \in Jobs, Trigger(j)
      PROVE  SchedulerTypeOK'
  BY <1>6 DEF Trigger, SchedulerTypeOK, historyVars, Targets
<1>7. ASSUME NEW x \in Targets, Finish(x)
      PROVE  SchedulerTypeOK'
  BY <1>7 DEF Finish, SchedulerTypeOK, historyVars
<1> QED
  BY <1>1, <1>2, <1>3, <1>4, <1>5, <1>6, <1>7 DEF Others

\* Time goes on: what becomes due is later than everything the scheduler has seen.
LEMMA AdvanceKeeps ==
  ASSUME TicksInv, Advance
  PROVE  /\ FiredInv' /\ ClockInv' /\ MemoryInv' /\ OwedInv'
         /\ NothingLost => NothingLost'
<1>0. /\ now \in Nat /\ peak \in Nat /\ now' = now + 1 /\ now + 1 \in Times
      /\ peak' \in {peak, now + 1} /\ peak <= peak' /\ now + 1 <= peak'
      /\ \A t \in Times : t \in Nat
      /\ UNCHANGED <<zone, row, lastTick, seen, mem, boot, readAt, fired>>
      /\ (lastTick # None => lastTick \in Nat /\ lastTick <= peak)
      /\ (boot # None => boot \in Nat) /\ (readAt # None => readAt \in Nat /\ readAt <= lastTick)
  <2>1. now \in Nat /\ peak \in Nat /\ (lastTick # None => lastTick \in Nat)
        /\ (boot # None => boot \in Nat) /\ (readAt # None => readAt \in Nat) /\ \A t \in Times : t \in Nat
    BY Numbers DEF TicksInv
  <2>2. peak' \in {peak, now + 1} /\ peak <= peak' /\ now + 1 <= peak'
    BY <2>1, Later DEF Advance
  <2>3. now + 1 \in Times
    BY <2>1, SchedulerConstants DEF Advance, Times
  <2> QED
    BY <2>1, <2>2, <2>3 DEF Advance, TicksInv, ClockInv
<1>1. FiredInv'
  BY <1>0 DEF TicksInv, FiredInv
<1>2. ClockInv'
  BY <1>0 DEF TicksInv, ClockInv
<1>3. MemoryInv'
  BY <1>0 DEF TicksInv, MemoryInv, Since, Due, Matches
<1>4. \A x \in Targets : SpecOf(x)' = SpecOf(x) /\ Known(x)' = Known(x)
  BY <1>0 DEF SpecOf, Known
<1>5. ASSUME NEW o \in owed'
      PROVE  /\ o[1] \in Targets /\ o[2] \in Times
             /\ \/ o \in owed
                \/ /\ o[2] = now + 1 /\ now + 1 > peak /\ lastTick # None
                   /\ SpecOf(o[1]) # None /\ Due(SpecOf(o[1]), zone, o[2])
  <2>1. \A p \in owed : p[1] \in Targets /\ p[2] \in Times
    BY Numbers DEF TicksInv
  <2> QED
    BY <1>0, <2>1 DEF Advance
<1>6. OwedInv'
  <2> SUFFICES ASSUME NEW o \in owed'
               PROVE  /\ lastTick # None /\ SpecOf(o[1]) # None /\ Due(SpecOf(o[1]), zone, o[2])
                      /\ mem[o[1]] # None /\ mem[o[1]].spec = SpecOf(o[1]) /\ mem[o[1]].zone = zone
                           => mem[o[1]].next <= o[2]
                      /\ ~Known(o[1]) => o[2] > lastTick
    BY <1>0, <1>4, <1>5 DEF OwedInv, Due, Matches
  <2>1. CASE o \in owed
    BY <2>1 DEF TicksInv, OwedInv
  <2>2. CASE o \notin owed
    BY <1>0, <1>5, <2>2 DEF TicksInv, MemoryInv
  <2> QED
    BY <2>1, <2>2
<1>7. NothingLost => NothingLost'
  BY <1>0, <1>5 DEF NothingLost
<1> QED
  BY <1>1, <1>2, <1>3, <1>6, <1>7

LEMMA SetBackKeeps ==
  ASSUME TicksInv, SetBack
  PROVE  /\ FiredInv' /\ ClockInv' /\ MemoryInv' /\ OwedInv'
         /\ NothingLost => NothingLost'
<1>0. /\ now \in Nat /\ now > 0 /\ now' = now - 1 /\ fired' = NothingFired
      /\ UNCHANGED <<zone, row, lastTick, seen, mem, peak, readAt, owed>>
      /\ (boot = None => boot' = None)
      /\ (boot # None => boot' # None /\ boot' \in Nat /\ boot' <= boot /\ boot' <= now - 1 /\ boot \in Nat)
  <2>1. now \in Nat /\ None \notin Times /\ (boot # None => boot \in Times /\ boot \in Nat)
    BY Numbers, NoneAssumption DEF TicksInv
  <2>2. now > 0 /\ now - 1 \in Nat /\ now - 1 \in Times
    BY <2>1, SchedulerConstants DEF SetBack, TicksInv, SchedulerTypeOK, Times
  <2>3. CASE boot = None
    BY <2>1, <2>2, <2>3 DEF SetBack
  <2>4. CASE boot # None
    <3>1. boot' = Min({boot, now - 1})
      BY <2>4 DEF SetBack
    <3>2. boot' \in {boot, now - 1} /\ boot' <= boot /\ boot' <= now - 1
      BY <2>1, <2>2, <2>4, <3>1, Earlier
    <3> QED
      BY <2>1, <2>2, <2>4, <3>2 DEF SetBack
  <2> QED
    BY <2>3, <2>4
<1>1. /\ peak \in Nat /\ (lastTick # None => lastTick \in Nat)
      /\ \A x \in Targets : mem[x] # None => mem[x].next \in Nat
  BY Numbers DEF TicksInv
<1>2. FiredInv'
  BY <1>0 DEF FiredInv, NothingFired
<1>3. ClockInv'
  BY <1>0, <1>1 DEF TicksInv, ClockInv
<1>4. MemoryInv'
  <2>1. readAt = None /\ lastTick # None => Since' <= Since /\ Since \in Nat /\ Since' \in Nat
    BY <1>0 DEF Since, TicksInv, ClockInv
  <2>2. readAt # None => Since' = Since
    BY <1>0 DEF Since
  <2>3. \A x \in Targets : mem[x] # None => mem[x].next > Since'
    BY <1>1, <2>1, <2>2 DEF TicksInv, MemoryInv
  <2> QED
    BY <1>0, <2>3 DEF TicksInv, MemoryInv, Due, Matches
<1>5. OwedInv'
  BY <1>0 DEF TicksInv, OwedInv, SpecOf, Known, Due, Matches
<1> QED
  BY <1>0, <1>2, <1>3, <1>4, <1>5 DEF NothingLost

\* Who changes a schedule or the time zone takes what was owed by it out of the account.
LEMMA EditKeeps ==
  ASSUME TicksInv, SetZone \/ \E j \in Jobs : Save(j) \/ Delete(j)
  PROVE  /\ FiredInv' /\ ClockInv' /\ MemoryInv' /\ OwedInv'
         /\ NothingLost => NothingLost'
<1>0. UNCHANGED <<now, lastTick, seen, mem, peak, boot, readAt, fired>> /\ owed' \subseteq owed
  BY DEF SetZone, Save, Delete
<1>1. FiredInv' /\ ClockInv' /\ MemoryInv'
  BY <1>0 DEF TicksInv, FiredInv, ClockInv, MemoryInv, Since, Due, Matches
<1>2. ASSUME NEW o \in owed'
      PROVE  zone' = zone /\ SpecOf(o[1])' = SpecOf(o[1])
  <2>1. o[1] \in Targets
    BY <1>0, Numbers DEF TicksInv
  <2>2. CASE SetZone
    BY <2>2 DEF SetZone
  <2>3. ASSUME NEW j \in Jobs, Save(j) \/ Delete(j)
        PROVE  zone' = zone /\ SpecOf(o[1])' = SpecOf(o[1])
    <3>1. zone' = zone /\ o[1] # j /\ row' = [row EXCEPT ![j] = row'[j]]
      BY <2>3 DEF Save, Delete, TicksInv, SchedulerTypeOK
    <3> QED
      BY <2>1, <3>1, SchedulerConstants DEF SpecOf, Targets, TicksInv, SchedulerTypeOK
  <2> QED
    BY <2>2, <2>3
<1>3. OwedInv'
  BY <1>0, <1>2 DEF TicksInv, OwedInv, Known, Due, Matches
<1> QED
  BY <1>0, <1>1, <1>3 DEF NothingLost

LEMMA OthersKeep ==
  ASSUME TicksInv, Others
  PROVE  /\ FiredInv' /\ ClockInv' /\ MemoryInv' /\ OwedInv'
         /\ NothingLost => NothingLost'
<1>1. CASE Restart
  <2>1. /\ now' = now /\ peak' = peak /\ fired' = fired /\ lastTick' = None /\ seen' = None /\ boot' = None
        /\ readAt' = None /\ owed' = {} /\ \A x \in Targets : mem'[x] = None
    BY <1>1 DEF Restart
  <2> QED
    BY <2>1 DEF TicksInv, FiredInv, ClockInv, MemoryInv, OwedInv, NothingLost
<1>2. CASE (\E j \in Jobs : Trigger(j)) \/ \E x \in Targets : Finish(x)
  BY <1>2 DEF Trigger, Finish, historyVars, TicksInv, FiredInv, ClockInv, MemoryInv, OwedInv,
     NothingLost, Since, SpecOf, Known, Due, Matches
<1> QED
  BY <1>1, <1>2, AdvanceKeeps, SetBackKeeps, EditKeeps DEF Others

-----------------------------------------------------------------------------
(* Theorems.                                                               *)

Once == \A x \in Targets, t \in Times : fired[x][t] <= 1

LEMMA OthersOnce ==
  ASSUME TicksInv, Others, Once
  PROVE  Once'
<1>1. fired' = fired \/ fired' = NothingFired
  BY DEF Others, Advance, SetBack, SetZone, Restart, Save, Delete, Trigger, Finish, historyVars
<1> QED
  BY <1>1 DEF Once, NothingFired

LEMMA TicksStart == SchedulerInit => TicksInv /\ Once /\ NothingLost
<1> SUFFICES ASSUME SchedulerInit PROVE TicksInv /\ Once /\ NothingLost
  OBVIOUS
<1>1. SchedulerTypeOK
  <2>1. row \in [Jobs -> [spec : Specs, paused : BOOLEAN] \cup {None}]
    BY DEF SchedulerInit
  <2>2. now \in Times /\ peak \in now .. MaxTime /\ disturbances \in 0 .. MaxDisturbances
    BY SchedulerConstants DEF SchedulerInit, Times
  <2>3. fired \in [Targets -> [Times -> Nat]]
    BY DEF SchedulerInit, NothingFired
  <2> QED
    BY <2>1, <2>2, <2>3 DEF SchedulerInit, SchedulerTypeOK
<1>2. Once /\ FiredInv
  BY DEF SchedulerInit, Once, FiredInv, NothingFired
<1> QED
  BY <1>1, <1>2 DEF SchedulerInit, TicksInv, ClockInv, MemoryInv, OwedInv, NothingLost

LEMMA TicksStep ==
  TicksInv /\ Once /\ NothingLost /\ [SchedulerNext]_schedulerVars =>
    TicksInv' /\ Once' /\ NothingLost'
<1> SUFFICES ASSUME TicksInv, Once, NothingLost, [SchedulerNext]_schedulerVars
             PROVE  TicksInv' /\ Once' /\ NothingLost'
  OBVIOUS
<1>1. ASSUME NEW scope \in Scopes, NEW broken \in SUBSET Jobs, Tick(scope, broken),
             disturbances' \in 0 .. MaxDisturbances
      PROVE  TicksInv' /\ Once' /\ NothingLost'
  <2>1. SchedulerTypeOK' /\ FiredInv' /\ ClockInv' /\ MemoryInv' /\ OwedInv' /\ NothingLost'
    BY <1>1, TickType, TickFired, TickClock, TickMemory, TickOwed, TickLosesNothing
  <2>2. Once'
    BY <1>1, TickOnce DEF Once
  <2> QED
    BY <2>1, <2>2 DEF TicksInv
<1>2. CASE Others
  <2>1. SchedulerTypeOK'
    BY <1>2, OthersType DEF TicksInv
  <2>2. FiredInv' /\ ClockInv' /\ MemoryInv' /\ OwedInv' /\ NothingLost'
    BY <1>2, OthersKeep
  <2> QED
    BY <1>2, <2>1, <2>2, OthersOnce DEF TicksInv
<1>3. CASE UNCHANGED schedulerVars
  BY <1>3 DEF schedulerVars, historyVars, TicksInv, SchedulerTypeOK, FiredInv, ClockInv, MemoryInv,
     OwedInv, NothingLost, Once, Since, SpecOf, Known, Due, Matches
<1>4. SchedulerTypeOK
  BY DEF TicksInv
<1> QED
  BY <1>1, <1>2, <1>3, <1>4, Steps DEF TickStep

LEMMA TicksHold == SchedulerSpec => [](TicksInv /\ Once /\ NothingLost)
  BY TicksStart, TicksStep, PTL DEF SchedulerSpec

\* No due time starts, or records as skipped, its target twice: whatever is edited and edited back,
\* read or not read, restarted, and whatever readings the wall clock repeats (Tick, fire, tickJobs).
THEOREM StartedOnceCorrect == SchedulerSpec => []StartedOnce
<1>1. TicksInv /\ Once /\ NothingLost => StartedOnce
  BY DEF TicksInv, Once, StartedOnce
<1> QED
  BY <1>1, TicksHold, PTL

\* What became due was started, or tried, by the first tick that could read everything, unless that
\* tick came too late or the scheduler could not read a change (Tick counts from the tick before).
THEOREM NothingLostCorrect == SchedulerSpec => []NothingLost
  BY TicksHold, PTL
=============================================================================
