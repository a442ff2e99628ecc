CONSTANTS
  Processes = {1, 2}
  NumFrames = 3
  MaxPages = 2
  MaxTime = 3
SPECIFICATION Spec
INVARIANTS
  TypeOK
  FramesAndTablesAgree
PROPERTIES
  ImplementsPaging
  FIFOEvictsFirstIn
