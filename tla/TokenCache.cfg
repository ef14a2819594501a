SPECIFICATION Spec
CONSTANTS
  t1 = t1
  t2 = t2
  hub = hub
  elsewhere = elsewhere
  login = login
  theirs = theirs
  NoCredential = NoCredential
  NoToken = NoToken
  Threads <- MCThreads
  Requests <- MCRequests
  Docker <- MCDocker
  Default = hub
  Logins <- MCLogins
  Lifetime = 1
  Leeway = 0
  Attempts = 2
  MaxTime = 1
  MaxRestarts = 1
  MaxCalls = 3
INVARIANTS TokenFits RetryIsFresh
PROPERTIES CallsEnd
CHECK_DEADLOCK FALSE
