SPECIFICATION FairSpec
CONSTANTS
  w1 = w1
  w2 = w2
  Workers <- MCSoloWorker
  NoWorker = NoWorker
  MaxJobs = 3
  MaxClock = 3
  Priority <- ThreeJobPriority
  MaxAttempts <- ThreeJobAttempts
  LeaseTerms <- ShortLease
  QueueCapacity = 2
  RecoveryBatch = 1
  MaxEvents = 6
  ClockMayRegress = FALSE
INVARIANTS
  QueueWithinCapacity
PROPERTIES
  ExpiredLeaseIsRecovered
