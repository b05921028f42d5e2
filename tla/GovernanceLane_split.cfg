SPECIFICATION Spec
CONSTANTS
  Revisions = {r1, r2}
  Details = {d1}
  IdempotencyKeys = {k1}
  RecordKinds = {"assignment", "request", "freeze", "monitoring"}
  MaxEvents = 4
  NoKey = NoKey
  NoRevision = NoRevision
  NoTrigger = NoTrigger
INVARIANTS
  NoSplitRecord
