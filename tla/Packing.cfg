SPECIFICATION Spec
CONSTANTS
  k1 = k1
  k2 = k2
  k3 = k3
  k4 = k4
  Chunks <- MCChunks
  Size <- MCSize
  Inputs <- MCInputs
  Index <- MCIndex
  PackSize = 2
  PoolSize = 2
INVARIANTS ReadsBack NothingLeftBehind
PROPERTIES Ends
