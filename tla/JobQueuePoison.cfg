SPECIFICATION Spec
CONSTANTS
  w1 = w1
  w2 = w2
  NoWorker = NoWorker
  NoJob = NoJob
  Jobs <- MCJobs
  Workers <- MCWorkers
  Requested <- MCRequested
  MaxAttempts = 2
  Lease = 0
  BackoffBase = 1
  BackoffCap = 1
  Horizon = 0
  MaxCrashes = 0
  MaxDbErrors = 1
  MaxOverruns = 0
  MaxLateStarts = 0
  MaxFaults = 2
INVARIANT ParkedAfterMaxAttempts
