SPECIFICATION Spec
CONSTANTS
  w1 = w1
  w2 = w2
  Workers <- MCWorkers
  NoWorker = NoWorker
  MaxJobs = 2
  MaxClock = 3
  Priority <- TwoJobPriority
  MaxAttempts <- TwoJobAttempts
  LeaseTerms <- ShortLease
  QueueCapacity = 2
  RecoveryBatch = 1
  MaxEvents = 6
  ClockMayRegress = TRUE
SYMMETRY MCSymmetry
INVARIANTS
  TypeOK
  VerifierAccepts
  RoomToFinish
  RetentionExcludesRunning
PROPERTIES
  TerminalIsFinal
  OwnershipIsFenced
  KeepsPromise
