CONSTANTS
  Ids = {i1, i2, i3}
  None = None
  MaxMishaps = 6
SPECIFICATION Spec
INVARIANTS FilesAgree WrapIsLastResort
PROPERTIES RestartHeals OutageHeals
CHECK_DEADLOCK FALSE
