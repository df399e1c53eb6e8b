\* Safety under RoundRobin, with every kind of command and a stop at any moment.
SPECIFICATION OSpec
CONSTANTS
  a = a
  b = b
  c = c
  d = d
  w1 = w1
  w2 = w2
  w3 = w3
  Workers <- MCThreeWorkers
  Jobs <- MCMixedJobs
  Kind <- MCMixedKind
  Priority <- MCMixedPriority
  Preemptible = {a}
  Outcomes = {"ok", "nonzero", "sigkill"}
  Policy = "RoundRobin"
  MaxBursts = 1
  NumObservers = 2
  NoJob = NoJob
  NoWorker = NoWorker
SYMMETRY MCWorkerSymmetry
INVARIANTS TypeOK JobConservation WorkConserving ObserversAgree ResultBeforePromise BoundedOvertaking
