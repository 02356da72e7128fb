------------------------------ MODULE MCAlerts ------------------------------
(* One job with two records at a time over five instants. *)
EXTENDS Alerts, TLC

CONSTANT j1
MCJobs == {j1}
=============================================================================
