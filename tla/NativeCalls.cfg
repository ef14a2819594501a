SPECIFICATION SceneSpec
CONSTANTS
  w1 = w1
  w2 = w2
  other = other
  Main = Main
  NoThread = NoThread
  Workers <- MCWorkers
  Others <- MCOthers
  Averages <- MCAverages
  MaxChunks = 3
  QueueDepth = 1
  BatchSize = 2
  OutDepth = 1
  MaxParts = 1
  MaxTransfers = 1
  MaxSignals = 1
INVARIANTS StreamsFile FailsForCause
PROPERTIES Unwinds StreamCallsReturn InterruptEnds
CHECK_DEADLOCK FALSE
