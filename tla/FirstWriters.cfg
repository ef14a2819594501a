SPECIFICATION SceneSpec
CONSTANTS
  w1 = w1
  w2 = w2
  x = x
  y = y
  z = z
  v0 = v0
  v1 = v1
  s0 = s0
  s1 = s1
  NoFile = NoFile
  NoManifest = NoManifest
  Writers <- MCWriters
  Titles <- MCTitles
  Contents <- MCContents
  Chunks <- MCChunks
  Procs <- MCProcs
  ProcOf <- MCProcOf
  Kind <- TwinKind
  Files <- TwinFiles
  Deletes <- NoDeletes
  ChunksOf <- MCChunksOf
  InitFiles <- MCInitFiles
  TagExists = FALSE
  DigestHeader = TRUE
  Validates = TRUE
  PutRetries = 2
  HealRetries = 0
  MaxLosses = 0
  Expiring = {}
INVARIANT AckedFilesStay
