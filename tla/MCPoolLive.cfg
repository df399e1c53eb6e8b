\* Liveness and refinement, with the benchmark's programs under MLFQ.
SPECIFICATION OFairSpec
CONSTANTS
  a = a
  b = b
  c = c
  d = d
  w1 = w1
  w2 = w2
  w3 = w3
  Workers <- MCTwoWorkers
  Jobs <- MCPrograms
  Kind <- MCProgramKind
  Priority <- MCDistinct
  Preemptible = {a, b}
  Outcomes = {"ok"}
  Policy = "MLFQ"
  MaxBursts = 2
  NumObservers = 1
  NoJob = NoJob
  NoWorker = NoWorker
INVARIANT BoundedOvertaking
PROPERTIES EveryJobResolved StopReturns ImplementsJobService
