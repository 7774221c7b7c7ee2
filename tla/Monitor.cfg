\* Three notifications, two connections, a link lost at any point, one reset.
SPECIFICATION FairSpec
CONSTANTS
  MaxFrames = 3
  MaxLinks = 2
  MaxBoots = 1
INVARIANTS
  TypeOK
  LogFollowsLink
  StaleSampleOnce
  TornOnlyInOverlap
PROPERTIES
  InvalidOnlyInOverlap
  LossLogged
