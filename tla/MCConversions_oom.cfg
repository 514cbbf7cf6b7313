CONSTANTS
  KeySize = 2
  MemoryFailures = TRUE
  PasswordUnits <- MCAsciiUnits
SPECIFICATION Spec
INVARIANT KeyNativesCallJniSafely
