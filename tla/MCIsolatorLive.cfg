\* One run with every fault: it is guarded, and returns.
SPECIFICATION FairSpec
CONSTANTS
  a = a
  b = b
  Jobs <- MCOne
  Pids = {1}
  Quantum = {}
  UseLimiter = TRUE
  UseWatchdogs = TRUE
  Faults = {"cgroup", "attach", "clone", "setup", "locks"}
INVARIANT GuardedBeforeSetup
PROPERTY EveryRunReturns
