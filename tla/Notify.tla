------------------------------- MODULE Notify -------------------------------
(***************************************************************************)
(* Messages about runs and stale jobs (notify_svc) beside saves of their   *)
(* settings and rotations of the master key: a message is sent with a      *)
(* header that is stored encrypted, which is read and decrypted without    *)
(* the lock that saves take (MasterKey).                                   *)
(*                                                                         *)
(* A message is tried again after a pause, while the caller waits.  The    *)
(* receiver may accept one whose answer is lost.                           *)
(***************************************************************************)
EXTENDS MasterKey

CONSTANTS Header,     \* the credential in the settings: the values of the headers
          MaxRetries  \* what follows a first attempt that fails

ASSUME NotifyConstants == Header \in Items \ LateItems /\ MaxRetries \in Nat

\* An address or none.  (To turn an event off is, for the event, to give no address.)
Settings == {"none", "on"}

VARIABLES
  settings, \* those in the database
  msg       \* the message that is sent, if any

Idle == [at |-> "idle", kind |-> "event", read |-> "none", held |-> NoKey, tries |-> 0,
         ended |-> FALSE, result |-> "none", got |-> FALSE, rotated |-> FALSE]

NotifyInit == Init /\ settings = "none" /\ msg = Idle

-----------------------------------------------------------------------------
(* Settings are saved together with the headers: a value given as masked    *)
(* keeps its ciphertext (Ciphertexts of MasterKey).                         *)

Saves(q) ==
  /\ item[q] = Header /\ pc[q] = "prepared" /\ pc'[q] = "idle"
  /\ default' # NoKey /\ stored'[Header] = cipher[q]

\* The steps of saves, rotations and crashes.  History: has the key changed under the message?
Elsewhere ==
  /\ Next
  /\ \/ settings' = settings
     \/ (\E q \in Requests : Saves(q)) /\ settings' \in Settings \ {settings}
  /\ msg' = IF default' = NoKey \/ msg.at = "idle" THEN Idle
            ELSE [msg EXCEPT !.rotated = @ \/ (msg.at = "loaded" /\ check' # check)]

-----------------------------------------------------------------------------
(* A message: an event of a run or a stale job, or the test of the settings. *)

\* Without an address nothing is sent: no error for an event, one for a test.
Load(kind) ==
  /\ Up /\ msg.at = "idle"
  /\ LET done(read, result) == [Idle EXCEPT !.at = "done", !.kind = kind, !.read = read,
                                            !.result = result]
     IN \/ /\ settings = "on"
           /\ msg' = [Idle EXCEPT !.at = "loaded", !.kind = kind, !.read = "on",
                                  !.held = stored[Header], !.rotated = rot = "rekeyed"]
        \/ settings = "none" /\ msg' = done("none", IF kind = "event" THEN "quiet" ELSE "error")
        \/ msg' = done("failed", "error")
  /\ UNCHANGED <<vars, settings>>

Decrypt ==
  /\ msg.at = "loaded"
  /\ IF msg.held \in {NoKey, default}
     THEN msg' = [msg EXCEPT !.at = "posting", !.held = NoKey, !.rotated = FALSE]
     ELSE msg' = [msg EXCEPT !.at = "done", !.result = "error", !.held = NoKey]
  /\ UNCHANGED <<vars, settings>>

\* What comes of an attempt: an answer, "lost" on the way there or "late" on the way back.
Outcomes == IF msg.ended THEN {"lost"} ELSE {"accepted", "refused", "lost", "late"}

\* Mutant of Success: an answer is a success.
AnyAnswer(outcome) == outcome \in {"accepted", "refused"}
\* A redirection is not followed and counts as refused.
Success(outcome) == outcome = "accepted"

\* After a failure the time limit is looked at, and only then comes the pause, which does not
\* heed it.
Post ==
  /\ msg.at = "posting"
  /\ \E outcome \in Outcomes :
       LET tries == msg.tries + 1
           done(result) == [msg EXCEPT !.at = "done", !.result = result, !.tries = tries,
                                       !.got = outcome \in {"accepted", "late"}]
       IN \/ msg.kind = "test" /\ outcome \in {"accepted", "refused"} /\ msg' = done("status")
          \/ msg.kind = "test" /\ outcome \in {"lost", "late"} /\ msg' = done("error")
          \/ msg.kind = "event" /\ Success(outcome) /\ msg' = done("sent")
          \/ /\ msg.kind = "event" /\ ~Success(outcome)
             /\ msg' = IF tries > MaxRetries \/ msg.ended THEN done("error")
                       ELSE [msg EXCEPT !.tries = tries]
  /\ UNCHANGED <<vars, settings>>

\* The time limit of a run's notification.
EndContext ==
  /\ msg.at \in {"loaded", "posting"} /\ msg.kind = "event" /\ ~msg.ended
  /\ msg' = [msg EXCEPT !.ended = TRUE]
  /\ UNCHANGED <<vars, settings>>

\* The caller notes an error: in the run's record and log, or in the scheduler's log.
Note ==
  /\ msg.at = "done"
  /\ msg' = Idle
  /\ UNCHANGED <<vars, settings>>

Message == (\E kind \in {"event", "test"} : Load(kind)) \/ Decrypt \/ Post \/ Note

NotifyNext == Elsewhere \/ Message \/ EndContext
NotifySpec == NotifyInit /\ [][NotifyNext]_<<vars, settings, msg>> /\ Fairness

-----------------------------------------------------------------------------
(* Properties.                                                             *)

\* What the caller is told of a message is true.  Sent means accepted by the receiver; silence
\* means that the settings did not ask for it; an error means that all attempts were used up, or
\* that the time was, or that the settings could not be read or had no address, or that a rotation
\* came between the header and the key, which alone makes a header unreadable.
SentOrSaid ==
  msg.at = "done" =>
    /\ msg.result = "sent" => msg.got /\ msg.read = "on"
    /\ msg.result = "quiet" => msg.read # "on" /\ msg.tries = 0
    /\ (msg.result = "error" /\ msg.kind = "event") =>
         \/ msg.read = "failed"
         \/ msg.tries = MaxRetries + 1
         \/ msg.ended
         \/ msg.tries = 0 /\ msg.rotated
    /\ msg.kind = "test" => msg.tries <= 1
    /\ msg.tries <= MaxRetries + 1
=============================================================================
