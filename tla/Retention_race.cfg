SPECIFICATION ControlSpec
CONSTANTS
  d1 = d1
  d2 = d2
  c1 = c1
  c2 = c2
  Digests <- TwoDigests
  Controllers <- TwoControllers
  MaxPlans = 2
  MaxGeneration = 2
  MaxAttempts = 1
  MaxStops = 1
  StopAfterUnlink = TRUE
  Artifacts = {1, 2}
  Size <- Sizes
  Policies <- TwoPolicies
  Stores = {1}
  MaxTime = 3
  MaxSetBacks = 1
  MaxSigned = 2
  MaxMade = 2
INVARIANTS
  ControlTypeOK
  EvidenceKeepsItsBytes
  DeletionIsAccounted
PROPERTIES
  DeletionIsAuthorized
  IntentIsResumedUnlessContradicted
