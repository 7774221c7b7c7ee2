\* As Storage.cfg, with a reset between remove and rename in
\* acknowledgeRemoteBatch.
SPECIFICATION Spec
CONSTANTS
  Blocks = 22
  Block = 8
  Fixed = 6
  Line <- SmallLine
  Cap <- SmallCap
  SyncEnabled = TRUE
  MaxItems = 2
  MaxSamples = 7
  MaxFaults = 1
  ResetPoints = {"replace"}
PROPERTY
  RemovedOnlyWhenAccepted
