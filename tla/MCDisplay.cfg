CONSTANTS
  MaxProcesses = 3
  ProcessConfigs <- MCJobs
  Frames = {0, 1, 2}
  Algorithms = {"FCFS", "ROUND_ROBIN", "PRIORITY"}
  Quanta = {2}
  MaxTime = 12
  AddUntil = 2
  Concurrent = FALSE
  SwitchAnyTime = FALSE
SPECIFICATION DSpec
INVARIANTS
  TypeOK
  RunningIsCurrent
  WaitingTimeIsExact
  CPUTimeMatchesWork
  QuantumIsRespected
  ServedInOrder
  IdleOnlyAfterSoleExpiry
  TerminatedHoldsNoFrames
  CountedExactlyOnce
  DisplayIsCurrent
  PageTableIsTrue
  ChartMissesOnlyLastUnits
