CONSTANTS
  Handlers <- MCButtons
  UseDashboard = TRUE
SPECIFICATION Spec
INVARIANT NeverTerminates
