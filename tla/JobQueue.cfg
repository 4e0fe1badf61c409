\* Two processes and two jobs: one crash and one lock that grows old.
SPECIFICATION JobSpec
CONSTANTS
  Jobs = {j1, j2}
  Runners = {r1, r2}
  MaxAttempts = 2
  Batch = 2
  MaxCrashes = 1
  MaxOverruns = 1
INVARIANTS
  AttemptsWithinFaults
  HandsWithinOverruns
  DeadIsEarned
PROPERTIES
  SettledIsFinal
  EveryJobSettles
CHECK_DEADLOCK FALSE
