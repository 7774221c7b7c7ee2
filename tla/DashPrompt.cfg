\* Every close event is delivered before the next connection opens.
SPECIFICATION FairSpec
CONSTANTS
  MaxFaults = 4
  Stalls = FALSE
INVARIANTS
  TypeOK
  NoOrphanSocket
  NeverStranded
  PollsWhileOpen
  OnePoller
  RelayLossShown
PROPERTY KeepsAsking
