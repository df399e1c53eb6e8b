\* Two requests and a job from the prompt, with a restart of the engine.
SPECIFICATION FairSpec
CONSTANTS
  Requests = {r1, r2}
  CliJobs = {c1}
  Outputs = {"small", "big", "binary"}
  MaxStarts = 2
  NoJob = NoJob
INVARIANTS TypeOK BroadcastIsAnswered
PROPERTIES AnsweredUnlessLost NeitherSideHeldUp
