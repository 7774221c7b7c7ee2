\* The smallest partition with room for everything at once. Lost posts, lost answers, files that
\* cannot be opened, and resets at every point but one. Samples are bounded.
SPECIFICATION FairSpec
CONSTANTS
  Blocks = 22
  Block = 8
  Fixed = 6
  Line <- SmallLine
  Cap <- SmallCap
  SyncEnabled = TRUE
  MaxItems = 2
  MaxSamples = 8
  MaxFaults = 2
  ResetPoints = {"idle", "rotate", "rename", "append", "post", "accepted", "remove"}
INVARIANTS
  TypeOK
  HistoryKept
  NothingDropped
PROPERTIES
  RemovedOnlyWhenAccepted
  InOrder
  HeadNeverStuck
