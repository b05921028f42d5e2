SPECIFICATION DeliverySpec
CONSTANTS
  Commits = {1, 2, 3, 4, 5}
  Parents <- Graph
  VersionOf <- Manifests
  ConsoleOf <- Manifests
  Pinned = {2, 3, 4, 5}
  EditsDuringBuild = FALSE
  Budget = 2
  Files = {"module", "RECORD"}
  RecordFile = "RECORD"
  MaxCells = 3
  Parts = {"a", "A", "b"}
  Folded <- CaseFold
  MaxMembers = 3
  ReadSize = 2
  ExpansionLimit = 6
  RecordBlocks = 4
  MaxAfter = 2
  SourceRevisions = {1, 2}
  Wanted = 1
  Contents = {"clean", "edited", "bad"}
  Clean = "clean"
  Scanned <- Findings
  MaxTagMoves = 1
  Modes <- BothModes
  Peaks = {1, 2, 4}
  Limit = 1
  MaxOut = 2
  Reporters = {1, 2, 3}
  Payload <- TwoEqual
  MaxHands = 1
  MaxCuts = 1
INVARIANTS
  DeliveryTypeOK
  DeliveredIsBound
PROPERTIES
  PublishedIsKept
CHECK_DEADLOCK FALSE
