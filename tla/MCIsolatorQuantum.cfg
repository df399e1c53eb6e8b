\* The benchmark's configuration: a quantum, neither limiter nor watchdogs.
SPECIFICATION FairSpec
CONSTANTS
  a = a
  b = b
  Jobs <- MCTwo
  Pids = {1, 2}
  Quantum = {a, b}
  UseLimiter = FALSE
  UseWatchdogs = FALSE
  Faults = {"clone", "setup", "locks"}
INVARIANT RunsOnlyWhileExecuted
PROPERTY EveryRunReturns
