\* Two processes, each with the last transaction of a package under way.
SPECIFICATION Spec
CONSTANTS
  Packages = {k1, k2}
  PollCap = 1
  Jobs <- DownloadJobs
  Runners = {r1, r2}
  MaxAttempts = 1
  Batch = 2
  MaxCrashes = 0
  MaxOverruns = 0
INVARIANTS
  NeverStuck
CHECK_DEADLOCK FALSE
