CONSTANTS
  p1 = p1
  p2 = p2
  p3 = p3
  mutex = mutex
  semaphore = semaphore
  Nobody = Nobody
  Processes <- MCProcesses
  Semaphores <- MCSemaphores
  Mutexes <- MCMutexes
  Rank <- MCRank
  InitialCount = 1
  MaxCredit = 1
SPECIFICATION FairSpec
CHECK_DEADLOCK FALSE
PROPERTY DetectionAnswers
