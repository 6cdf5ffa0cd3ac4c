SPECIFICATION Spec
CONSTANTS None = None Shared = Shared
CHECK_DEADLOCK FALSE
INVARIANTS
  TypeOK KnowsTheHead ExpandedFaithfully AssignedWell DatasetsStreamed
  ScansAccumulate PartsCountOnce CompensatedByDrift
  DeliveredOnce
PROPERTIES
  TakesSettings
