\* Two batteries in range, the three client slots of the build, two retries of an
\* establishment failure, three faults of any kind.
SPECIFICATION FairSpec
CONSTANTS
  b1 = b1
  b2 = b2
  Battery = {b1, b2}
  NoBattery = NoBattery
  MaxClients = 3
  ConnectRetries = 2
  WriteFaults = TRUE
  MaxFaults = 3
INVARIANTS
  TypeOK
  NoDanglingClient
  WriteThroughLiveAttributes
  NoOrphanLink
  ReportedLinkExists
PROPERTIES
  NeverTerminatesReported
  LoopReturns
  ReconnectsUnlessHeld
  ImplementsLink
\* A stray request blocks the loop task for good.
CHECK_DEADLOCK FALSE
