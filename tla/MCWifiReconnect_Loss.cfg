CONSTANTS
  Count = 4
  Good = {2}
  MaxFaults = 3

SPECIFICATION FairSpec

PROPERTY
  LossIsRecovered

\* A connected station with nothing scheduled and no event queued takes no
\* step until the driver reports a loss.
CHECK_DEADLOCK FALSE
