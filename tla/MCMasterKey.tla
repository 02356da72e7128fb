---------------------------- MODULE MCMasterKey ----------------------------
(* Two requests beside a rotation, over the header of the notifications and a job's password,
   and the messages that are sent meanwhile. *)
EXTENDS Notify

CONSTANTS q1, q2, header, job
MCRequests == {q1, q2}
MCItems == {header, job}
MCLateItems == {job}
=============================================================================
