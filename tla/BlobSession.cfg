SPECIFICATION Spec
CONSTANTS
  MaxSize = 4
  ChunkSize = 2
  MaxRetries = 3
INVARIANTS ResumeSafe Acknowledged Survives
PROPERTY Ends
