\* One refused query, one battery.
SPECIFICATION FairSpec
CONSTANTS
  b1 = b1
  Battery = {b1}
  NoBattery = NoBattery
  MaxClients = 3
  ConnectRetries = 0
  WriteFaults = TRUE
  MaxFaults = 1
PROPERTY ReconnectsUnlessAbandoned
\* A stray request blocks the loop task for good.
CHECK_DEADLOCK FALSE
