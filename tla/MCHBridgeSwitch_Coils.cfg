CONSTANTS
  Unknown <- MCUnknown
  MaxFailures = 2

SPECIFICATION Spec

INVARIANT
  BothCoilsNeverDriven
