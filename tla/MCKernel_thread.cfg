CONSTANTS
  MaxProcesses = 3
  ProcessConfigs <- MCThreadJobs
  Frames = {0, 1, 2}
  Algorithms = {"FCFS", "ROUND_ROBIN", "PRIORITY"}
  Quanta = {1}
  MaxTime = 15
  AddUntil = 0
  Concurrent = TRUE
  SwitchAnyTime = FALSE
SPECIFICATION FairSpec
INVARIANTS
  RunningIsCurrent
  CPUTimeMatchesWork
  ServedInOrder
PROPERTIES
  SimulationFinishes
  ImplementsProcessor
