CONSTANTS
  MaxProcesses = 2
  ProcessConfigs <- MCJobs
  Frames = {0, 1, 2}
  Algorithms = {"FCFS", "ROUND_ROBIN"}
  Quanta = {2}
  MaxTime = 9
  AddUntil = 2
  Concurrent = FALSE
  SwitchAnyTime = TRUE
SPECIFICATION Spec
INVARIANT
  RunningIsCurrent
