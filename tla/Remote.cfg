\* Two pages, two messages under way in each direction, four faults.
SPECIFICATION FairSpec
CONSTANTS
  Browser = {b1, b2}
  MaxInbox = 2
  MaxFaults = 4
INVARIANTS
  TypeOK
PROPERTIES
  AnswersKeepComing
  GatewayReachable
