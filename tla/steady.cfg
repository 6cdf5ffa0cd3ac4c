SPECIFICATION Spec
CONSTANTS
  None = None
  d1 = d1
  d2 = d2
  a1 = a1
  Deployments = {d1,d2}
  Agents = {a1}
  MaxStops = 1
  MaxEdits = 0
  MaxRestarts = 0
  MaxShutdowns = 0
  MaxDeaths = 0
  MaxCrashes = 0
  MaxFailures = 0
  MaxErrors = 1
  Conflation = FALSE
SYMMETRY Symmetry
CHECK_DEADLOCK FALSE
INVARIANT TypeOK
PROPERTY ImplementsLifecycle
INVARIANT OnePipelineAtATime
INVARIANT StoppedMeansStopped
PROPERTY StatusCredited
