SPECIFICATION FairSpec
CONSTANTS
  Digests = {d1, d2}
  Controllers = {c1}
  MaxPlans = 2
  MaxGeneration = 1
  MaxAttempts = 1
  MaxStops = 2
  StopAfterUnlink = TRUE
PROPERTIES
  PendingIntentIsResumable
