SPECIFICATION Spec
CONSTANTS
  NoKey = NoKey
  NoRevision = NoRevision
  NoTrigger = NoTrigger
  Revisions = {r1, r2}
  Details = {d1}
  IdempotencyKeys = {}
  RecordKinds = {"monitoring"}
  MaxEvents = 5
INVARIANTS
  OnlyNewApprovalsUnfreeze
