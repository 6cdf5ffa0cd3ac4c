SPECIFICATION Spec
CONSTANTS
  None = None
  Unset = Unset
  a = a
  b = b
  c = c
  r1 = r1
  r2 = r2
  r3 = r3
SYMMETRY Symmetry
CHECK_DEADLOCK FALSE
INVARIANTS
  TypeOK  RestartsAreBounded 
  KernelsAccountedFor  JobsAccountedFor
  RevisionsConsistent UsersConsistent RefreshIsFresh
PROPERTIES
  NothingGoesBack
