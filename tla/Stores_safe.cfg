SPECIFICATION StoresSpec
CONSTANTS
  p1 = p1
  p2 = p2
  r1 = r1
  x1 = x1
  x2 = x2
  l1 = l1
  v1 = v1
  h1 = h1
  h2 = h2
  c1 = c1
  c2 = c2
  t1 = t1
  o1 = o1
  o2 = o2
  up = up
  m1 = m1
  m2 = m2
  d1 = d1
  d2 = d2
  k1 = k1
  NoKey = NoKey
  NoRevision = NoRevision
  NoTrigger = NoTrigger
  Digests = {1, 2}
  Publishers <- TwoPublishers
  Readers <- OneReader
  Deleters <- TwoDeleters
  Listers <- OneLister
  Provers <- OneProver
  Casts <- SmallCasts
  Calm <- CalmCasts
  MaxInodes = 3
  MaxFaults = 1
  Serialized = TRUE
  Handles <- TwoHandles
  Externally <- LastHandle
  Ports <- FirstHandle
  MaxRoots = 2
  MaxDeaths = 1
  MaxMounts = 2
  Callers <- TwoCallers
  Instants <- OneInstant
  Opinions <- TwoOpinions
  Labels <- OneLabel
  MaxRevision = 1
  MaxLog = 3
  Revisions <- TwoModels
  Details <- OneDetail
  IdempotencyKeys <- OneKey
  RecordKinds <- AssignmentOrNote
  MaxEvents = 5
  i1 = i1
  i2 = i2
  i3 = i3
  q1 = q1
  key = key
  otherKey = otherKey
  queued = queued
  done = done
  n1 = n1
  n2 = n2
  won = won
  lost = lost
  e1 = e1
  e2 = e2
  Unkeyed = Unkeyed
  All = All
  Initializers <- OldNewAndStranger
  Probers <- OneProber
  Compiled <- Releases
  KeyOf <- Keys
  Found <- Starts
  MigrationCasts <- Pairs
  MaxSidecars = 2
  MaxKills = 1
  States <- TwoStates
  Fresh = queued
  RunIds <- TwoRunIds
  Statuses <- TwoStatuses
  Filters <- OneStatus
  Base = 3
  PageSize = 1
  MaxJobs = 3
  MaxChanges = 5
  MaxRuns = 2
  Roles <- TwoStatuses
  MaxLinks = 3
  Runs <- TwoRuns
  Suppresses = TRUE
  ReadRevisions <- OneModel
  ReadDetails <- OneDetail
  ReadKinds <- OnlyRequests
  MaxReadEvents = 4
  Ceiling = 3
  Projected = 2
  Identities = {1, 2, 3}
  LanePageSize = 1
  MaxAltered = 1
INVARIANTS
  StoresTypeOK
  PublicationHolds
  ListingsAreComplete
  OperationsStayInTheirStore
  ShadowEvidenceHolds
  LaneHolds
  AnswersAreTrue
PROPERTIES
  StepsAreExact
  DecisionsAreFinal
