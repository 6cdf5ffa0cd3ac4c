SPECIFICATION Spec
CONSTANTS
  None = None
  d1 = d1
  d2 = d2
  a1 = a1
  Deployments = {d1,d2}
  Agents = {a1}
  MaxStops = 0
  MaxEdits = 0
  MaxRestarts = 0
  MaxShutdowns = 1
  MaxDeaths = 1
  MaxCrashes = 0
  MaxFailures = 0
  MaxErrors = 0
  Conflation = FALSE
SYMMETRY Symmetry
CHECK_DEADLOCK FALSE
INVARIANT RunningIsServed
INVARIANT TrackersFollowStore
