SPECIFICATION FlightSpec
CONSTANTS
  t1 = t1
  t2 = t2
  t3 = t3
  Threads <- MCThreads
  MaxCalls = 4
  MaxRetries = 1
  MaxFaults = 2
  MaxLosses = 1
INVARIANTS OkMeansStored OneBody
PROPERTY CallsReturn
