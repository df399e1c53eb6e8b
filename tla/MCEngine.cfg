\* The prompt and the daemon over the pool, safety and liveness.
SPECIFICATION EFairSpec
CONSTANTS
  fg = fg
  bg = bg
  d1 = d1
  w1 = w1
  w2 = w2
  Workers <- MCWorkers
  Jobs <- MCJobs
  Kind <- MCKind
  Priority <- MCPriority
  PromptJobs = {fg, bg}
  Line <- MCLine
  MaxTokens = 6
  Preemptible = {}
  Outcomes = {"ok"}
  Policy = "FCFS"
  MaxBursts = 0
  NumObservers = 2
  NoJob = NoJob
  NoWorker = NoWorker
INVARIANTS EngineTypeOK ReportedIdsUnique PromptAfterResult WorkersGoneBeforeMain AnnouncedIdIsOwn
PROPERTIES PromptReturns EofEndsEngine
