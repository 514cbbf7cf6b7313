CONSTANTS
  JavaThreads = {j1, j2}
  NativeThreads = {n1}
  Domains = {d1}
  DomainNames <- MCDomainNames
  Levels = {1, 3}
  LogTexts <- MCLogTexts
  JavaTexts <- MCJavaTexts
  ErrorTexts <- MCErrorTexts
  DataCodes = {"LogFileError"}
  MaxCalls = 1
  MaxNesting = 1
  MemoryFailures = FALSE
  LookupFails = FALSE
  CallbackThrows = TRUE
SPECIFICATION Spec
INVARIANT NoExceptionStrandedOnNativeThread
