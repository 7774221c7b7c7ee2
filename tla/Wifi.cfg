\* Two networks, any forms, three faults. The gateway may stop: when the access
\* point fails to start, nothing starts Wi-Fi before the next reset.
SPECIFICATION FairSpec
CHECK_DEADLOCK FALSE
CONSTANTS
  Network = {home, cafe}
  None = None
  MaxFaults = 3
INVARIANTS
  TypeOK
  StoredAsEntered
  JoinedIsSaved
PROPERTIES
  KeyStable
  RejoinsSaved
