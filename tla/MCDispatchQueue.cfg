SPECIFICATION Spec
CONSTANTS
  Job = {1, 2}
  Worker = {w1, w2}
  Direct = {d1, d2}
  Recipients = 3
  NoTargets = {{}, {1}}
  MaxPerRun = 2
  MaxRuns = 2
  MaxCrashes = 1
  NoJob = NoJob
  NoWorker = NoWorker
INVARIANTS
  TypeOK
  AtMostOncePerRun
  CompletedIsAccountedFor
  AtMostOneLateMessage
PROPERTIES
  ImplementsBoard
  QueuedJobEnds
CHECK_DEADLOCK FALSE
