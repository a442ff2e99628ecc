CONSTANTS
  MaxProcesses = 3
  ProcessConfigs <- MCLongJobs
  Frames = {0}
  Algorithms = {"ROUND_ROBIN"}
  Quanta = {1}
  MaxTime = 12
  AddUntil = 0
  Concurrent = FALSE
  SwitchAnyTime = FALSE
SPECIFICATION HSpec
PROPERTY CyclesInOrder
