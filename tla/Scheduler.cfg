CONSTANTS
  job = job
  plan = plan
  daily = daily
  often = often
  dst = dst
  std = std
  None = None
  Jobs <- MCJobs
  Plans <- MCPlans
  Specs <- MCSpecs
  FixedHour <- MCFixedHour
  PlanSpec <- MCPlanSpec
  Readings <- MCReadings
  Zones <- MCZones
  Wall <- MCWall
  MaxTime = 6
  Grace = 1
  MaxDisturbances = 3
SPECIFICATION SchedulerSpec
CHECK_DEADLOCK FALSE
INVARIANTS
  StartedOnce
  NothingLost
