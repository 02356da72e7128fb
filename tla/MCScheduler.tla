---------------------------- MODULE MCScheduler ----------------------------
(* One job and one plan over seven instants; in zone "dst" the readings 3 and 4 come twice. *)
EXTENDS Scheduler, TLC

CONSTANTS job, plan, daily, often, dst, std
MCJobs == {job}
MCPlans == {plan}
MCSpecs == {daily, often}
MCFixedHour == {daily}
MCPlanSpec == plan :> daily
MCReadings == daily :> {3} @@ often :> {1, 4, 5}
MCZones == {dst, std}
MCWall == dst :> [t \in Times |-> <<1, 2, 3, 4, 3, 4, 5>>[t + 1]]
       @@ std :> [t \in Times |-> t]
=============================================================================
