CONSTANTS
  Objects = {o1, o2}
  a0 = a0
  a1 = a1
  Arrays <- MCArrays
  ArrayLength <- MCArrayLength
  JavaStrings <- MCStrings
  SsoCapacity = 1
  MemoryFailures = TRUE
  MaxBuffers = 3
SPECIFICATION Spec
INVARIANT PinsOwnedOnce
