\* The real partition (16 blocks of 4096 bytes, the web page's files and the
\* directory in six of them), the real caps, and the default build, which
\* never posts. No fault and no reset.
SPECIFICATION Spec
CONSTANTS
  Blocks = 16
  Block = 4096
  Fixed = 6
  Line <- RealLine
  Cap <- RealCap
  SyncEnabled = FALSE
  MaxItems = 8
  MaxSamples = 300
  MaxFaults = 0
  ResetPoints = {}
INVARIANT
  NeverJammed
