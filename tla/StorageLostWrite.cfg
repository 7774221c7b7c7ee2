\* As Storage.cfg, in a partition five blocks smaller, and no fault at all.
SPECIFICATION Spec
CONSTANTS
  Blocks = 17
  Block = 8
  Fixed = 6
  Line <- SmallLine
  Cap <- SmallCap
  SyncEnabled = TRUE
  MaxItems = 2
  MaxSamples = 7
  MaxFaults = 0
  ResetPoints = {}
PROPERTY
  RemovedOnlyWhenAccepted
