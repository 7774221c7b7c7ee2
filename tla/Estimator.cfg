\* A window holds several readings, which leave it one by one; it can cut a
\* segment; the device runs as briefly as RestartsShow of the proofs allows; the
\* page is closed at MaxTime.
SPECIFICATION Spec
CONSTANTS
  Window = 4
  Warmup = 3
  Stale = 3
  IdleAmps = 1
  Amps <- MCAmps
  Gaps = {0, 1, 2, 3}
  Lags = {0, 1}
  MinUptime = 3
  MaxReadings = 4
  MaxTime = 8
CHECK_DEADLOCK FALSE
INVARIANTS
  TypeOK
  MatchesReadme
  OneDirection
  SegmentsDisjoint
