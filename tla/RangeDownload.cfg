SPECIFICATION Spec
CONSTANTS
  Cases <- MCCases
  MaxInflight = 2
  Permits = 2
  MaxRetries = 1
INVARIANTS DigestOfDisk CompleteUnverified FailsForCause
PROPERTY Ends
