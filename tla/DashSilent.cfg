\* A close event that is delivered after the next connection has opened.
SPECIFICATION Spec
CONSTANTS
  MaxFaults = 3
  Stalls = TRUE
INVARIANT PollsWhileOpen
