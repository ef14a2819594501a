SPECIFICATION WatchSpec
CONSTANTS
  Frames = 3
  WriteStall = 4
  ResponseWait = 6
  Check = 2
  Lag = 1
INVARIANTS CutsOnlyStalled HangBounded
