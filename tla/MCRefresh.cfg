CONSTANTS
  Handlers <- MCHandlers
  UseDashboard = FALSE
  Jobs = {1, 2}
  Works = {2}
  MaxClock = 2
SPECIFICATION RFairSpec
INVARIANTS
  TypeOK
  OneTickAtATime
  QuietAfterStop
  AtMostOneLateTick
  LastStateIsShown
  ChartShowsWhoRan
PROPERTIES
  HandlersReturn
  DashboardNotices
