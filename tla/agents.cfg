SPECIFICATION Spec
CONSTANTS
  None = None
  d1 = d1
  a1 = a1
  a2 = a2
  Deployments = {d1}
  Agents = {a1,a2}
  MaxStops = 1
  MaxEdits = 0
  MaxRestarts = 0
  MaxShutdowns = 0
  MaxDeaths = 0
  MaxCrashes = 0
  MaxFailures = 0
  MaxErrors = 1
  Conflation = TRUE
SYMMETRY Symmetry
CHECK_DEADLOCK FALSE
INVARIANT PublishedAgrees
INVARIANT DatabaseAgrees
