CONSTANTS
  JavaThreads = {j1, j2}
  Names <- MCNames
  Values <- MCSupplementaryValues
  Msvc = FALSE
SPECIFICATION Spec
PROPERTY EnvRefinesJavaEnv
