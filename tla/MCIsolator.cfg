\* The engine's configuration: limiter and both watchdogs, no quantum.
SPECIFICATION Spec
CONSTANTS
  a = a
  b = b
  Jobs <- MCTwo
  Pids = {1, 2}
  Quantum = {}
  UseLimiter = TRUE
  UseWatchdogs = TRUE
  Faults = {"clone", "setup", "names"}
SYMMETRY MCJobSymmetry
INVARIANTS TypeOK GuardedBeforeSetup NothingLeftBehind EngineEndsOnlyByEarlyKill
PROPERTY StrayKillWindow
