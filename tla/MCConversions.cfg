CONSTANTS
  KeySize = 2
  MemoryFailures = FALSE
  PasswordUnits <- MCAsciiUnits
SPECIFICATION Spec
INVARIANT EncryptionKeyTaken
INVARIANT InfoStringsReported
