SPECIFICATION SceneSpec
CONSTANTS
  w1 = w1
  w2 = w2
  x = x
  y = y
  z = z
  v0 = v0
  v1 = v1
  s0 = s0
  s1 = s1
  NoFile = NoFile
  NoManifest = NoManifest
  Writers <- MCWriters
  Titles <- MCTitles
  Contents <- MCContents
  Chunks <- MCChunks
  Procs <- MCProcs
  ProcOf <- MCProcOf
  Kind <- MCKind
  Files <- MCFiles
  Deletes <- MCDeletes
  ChunksOf <- MCChunksOf
  InitFiles <- MCInitFiles
  TagExists = TRUE
  DigestHeader = TRUE
  Validates = FALSE
  PutRetries = 2
  HealRetries = 1
  MaxLosses = 1
  Expiring = {w1, w2}
INVARIANTS Guarded AckedFilesStay GroupsClosed NothingDangles ExclusionHeals ListFollowsMap
PROPERTIES Atomic Termination
