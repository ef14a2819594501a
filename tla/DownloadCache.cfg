SPECIFICATION Spec
CONSTANTS
  Calls <- MCCalls
  Title <- MCTitle
  Proc <- MCProc
  Local = {4}
  Forced = {3}
  Verifying = {1, 2, 3, 4}
  Snapshot = {1, 2}
  Manifests <- MCManifests
  Workers = 2
  Corrupting = TRUE
  MaxMoves = 1
  MaxCrashes = 1
  None = None
VIEW View
INVARIANTS ReadersSeeWhole ReturnedPathsStay SnapshotConsistent
