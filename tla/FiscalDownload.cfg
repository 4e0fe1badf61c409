\* One process, two packages and a crash anywhere.
SPECIFICATION FairSpec
CONSTANTS
  Packages = {k1, k2}
  PollCap = 1
  Jobs <- DownloadJobs
  Runners = {r1}
  MaxAttempts = 1
  Batch = 2
  MaxCrashes = 1
  MaxOverruns = 0
INVARIANTS
  DownloadTypeOK
  NeverStuck
  DownloadedWaitsForNone
PROPERTIES
  RequestSettles
CHECK_DEADLOCK FALSE
