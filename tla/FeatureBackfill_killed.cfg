SPECIFICATION FairSpec
CONSTANTS
  Partitions = {y1, y2}
  Frames = {f}
  MaxAttempts = 3
  MaxWorkers = 2
  Faults = {"kill"}
  MaxFaults = 1
PROPERTIES
  PlanIsPublished
