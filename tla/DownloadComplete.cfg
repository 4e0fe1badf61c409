\* A verification that fails halfway and is tried again.
SPECIFICATION Spec
CONSTANTS
  Packages = {k1, k2}
  PollCap = 1
  Jobs <- DownloadJobs
  Runners = {r1}
  MaxAttempts = 2
  Batch = 2
  MaxCrashes = 0
  MaxOverruns = 0
INVARIANTS
  DownloadedIsComplete
CHECK_DEADLOCK FALSE
