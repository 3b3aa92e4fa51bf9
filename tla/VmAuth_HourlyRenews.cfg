CONSTANTS
  Ids = {i1, i2, i3}
  None = None
  MaxMishaps = 2
SPECIFICATION Spec
PROPERTIES HourlyRenews
CHECK_DEADLOCK FALSE
