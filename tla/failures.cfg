SPECIFICATION Spec
CONSTANTS
  None = None
  d1 = d1
  a1 = a1
  Deployments = {d1}
  Agents = {a1}
  MaxStops = 1
  MaxEdits = 1
  MaxRestarts = 1
  MaxShutdowns = 0
  MaxDeaths = 0
  MaxCrashes = 0
  MaxFailures = 1
  MaxErrors = 1
  Conflation = FALSE
SYMMETRY Symmetry
CHECK_DEADLOCK FALSE
INVARIANT StartsAreAnnounced
PROPERTY UpdatesMoveForward
