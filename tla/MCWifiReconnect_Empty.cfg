CONSTANTS
  Count = 0
  Good = {}
  MaxFaults = 2

SPECIFICATION Spec

INVARIANT
  CredentialInTable
