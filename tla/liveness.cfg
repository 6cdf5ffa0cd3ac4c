SPECIFICATION FairSpec
CONSTANTS
  None = None
  d1 = d1
  d2 = d2
  a1 = a1
  Deployments = {d1,d2}
  Agents = {a1}
  MaxStops = 1
  MaxEdits = 0
  MaxRestarts = 0
  MaxShutdowns = 0
  MaxDeaths = 0
  MaxCrashes = 0
  MaxFailures = 0
  MaxErrors = 0
  Conflation = FALSE
CHECK_DEADLOCK FALSE
PROPERTY AssignmentsResolve
PROPERTY StopsTakeEffect
