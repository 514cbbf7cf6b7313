CONSTANTS
  JavaThreads = {j1, j2}
  Names <- MCNames
  Values <- MCValues
  Msvc = FALSE
SPECIFICATION Spec
INVARIANT TypeOK
PROPERTY EnvRefinesJavaEnv
