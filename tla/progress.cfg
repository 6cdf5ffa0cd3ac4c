SPECIFICATION FairSpec
CONSTANTS None = None Shared = Shared o1 = o1 o2 = o2
CHECK_DEADLOCK FALSE
PROPERTIES
  NobodyWaitsForEver FollowersCatchUp AllArrive RequestsEnd
