CONSTANTS
  Unknown <- MCUnknown
  MaxFailures = 2

SPECIFICATION Spec

INVARIANTS
  TypeOK
  SuccessfulCommandTakesEffect
  CoilsExclusiveUntilFailure
