SPECIFICATION ProbeSpec
CONSTANTS
  MaxAddrs = 2
  MaxSize = 4
  MaxProbe = 5
  MaxConns = 3
  NoLength = NoLength
INVARIANTS InsideBlob PartialReport
PROPERTIES ProbeEnds
