CONSTANTS
  Handlers <- MCExports
  UseDashboard = TRUE
CHECK_DEADLOCK FALSE
SPECIFICATION FairSpec
PROPERTY LogIsExported
