SPECIFICATION Spec
CONSTANTS
  p1 = p1
  p2 = p2
  p3 = p3
  Packs <- MCPacks
  Layers <- MCLayers
  Pointers <- MCPointers
  File <- MCFile
  MaxConcurrent = 2
  Permits = 2
  MaxRetries = 1
  Corrupting = TRUE
INVARIANTS OnlyTheFile
PROPERTY Ends
