SPECIFICATION ResearchSpec
CONSTANTS
  y1 = y1
  y2 = y2
  y3 = y3
  f = f
  g = g
  c1 = c1
  c2 = c2
  q1 = q1
  a = a
  b = b
  bad = bad
  plain = plain
  drifted = drifted
  w1 = w1
  w2 = w2
  t1 = t1
  v1 = v1
  v2 = v2
  s1 = s1
  s2 = s2
  e1 = e1
  e2 = e2
  i1 = i1
  Partitions <- ThreeYears
  Frames <- TwoFrames
  MaxAttempts = 3
  MaxWorkers = 2
  Faults <- Kinds
  MaxFaults = 3
  Clients <- TwoClients
  NumPages = 2
  Generations <- OneGeneration
  MaxRetries = 1
  MaxRequests = 3
  Modes <- TwoModes
  MaxMishaps = 1
  Configs <- TwoConfigs
  Source <- OneNetworked
  Fallback <- NoFallback
  MaxTries = 2
  MaxRuns = 3
  Last = 8
  W = 3
  Lag = 1
  Horizon = 1
  MaxGaps = 2
  MaxHoles = 1
  Requests <- OneRequest
  Contents <- ThreeContents
  Evidence <- TwoEvidence
  Unfit <- OneUnfit
  Writers <- TwoWriters
  Tensors <- OneTensor
  TensorWriters <- TwoTensorWriters
  MaxObjectFaults = 2
  MaxLosses = 0
  LastBar = 10
  Assets <- TwoAssets
  Embargo = 1
  NSplits = 3
  TestSize = 2
  MinTrain = 4
  TailShare = 2
  ExecutionLag = 2
  Families <- AllFamilies
  Exporters <- TwoExporters
  Panels <- TwoPanels
  Years <- SharedYear
  Times <- ThreeTimes
  Ids <- OneId
  MaxKills = 1
  ups = ups
  downs = downs
  Labels <- TwoLabels
  Days = 3
  MaxCorrections = 1
  MaxEarly = 1
  MayBeMissing = {1}
  MaxStored = 2
  Policy <- Floor
  Scale = 10
  PValues = {1, 2}
  Tests = {1, 2, 3}
  Samples <- Distinct
INVARIANTS
  ResearchTypeOK
  FeatureStoreHolds
  FeaturesAreSound
  DownloadsAreSound
  PanelsAreSound
  EvaluationIsOutOfSample
  BundlesAreSound
PROPERTIES
  StoredIsFinal
  PlanIsPublishedInTheEnd
