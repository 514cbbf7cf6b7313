CONSTANTS
  JavaThreads = {j1, j2}
  NativeThreads = {n1}
  Domains = {d1}
  DomainNames <- MCDomainNames
  Levels = {1, 3}
  LogTexts <- MCLogTexts
  JavaTexts <- MCJavaTexts
  ErrorTexts <- MCErrorTexts
  DataCodes = {"LogFileError"}
  MemoryFailures = TRUE
  LookupFails = TRUE
  CallbackThrows = TRUE
  MaxCalls = 1
  MaxNesting = 1
SPECIFICATION Spec
INVARIANT NoSilentFailure
PROPERTY EventuallyRegistered
