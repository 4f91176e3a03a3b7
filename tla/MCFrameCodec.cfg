CONSTANTS
  G = 3
  W = 10
  T = 5
  MaxPayload = 2
  Ids <- MCIds
  WideLens <- MCWideLens

SPECIFICATION Spec

INVARIANTS
  TypeOK
  HeaderRoundTrip
  WrittenFrameDispatched

\* After the peer's FIN esphome_read_header retries recv for ever: the
\* thread stops in phase "spin" and takes no further step.
CHECK_DEADLOCK FALSE
