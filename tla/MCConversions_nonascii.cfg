CONSTANTS
  KeySize = 2
  MemoryFailures = FALSE
  PasswordUnits <- MCUnits
SPECIFICATION Spec
INVARIANT SamePasswordBytes
