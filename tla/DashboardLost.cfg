\* Small results only, the API and the engine both up.
SPECIFICATION FairSpec
CONSTANTS
  Requests = {r1, r2}
  CliJobs = {c1}
  Outputs = {"small"}
  MaxStarts = 1
  NoJob = NoJob
PROPERTY EveryResultBroadcast
