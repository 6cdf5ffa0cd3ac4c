SPECIFICATION Spec
CONSTANTS
  None = None
  d1 = d1
  a1 = a1
  Deployments = {d1}
  Agents = {a1}
  MaxStops = 1
  MaxEdits = 0
  MaxRestarts = 0
  MaxShutdowns = 1
  MaxDeaths = 0
  MaxCrashes = 0
  MaxFailures = 0
  MaxErrors = 0
  Conflation = FALSE
SYMMETRY Symmetry
CHECK_DEADLOCK FALSE
INVARIANT PublishedAgrees
