CONSTANTS
  NumPorts = 2
  Runs = {r1, r2}
  Base <- MCBase
  Unknown = {"imr", "ci"}
  MaxPushes = 2
  MaxEdits = 1
  MaxFaults = 1
SPECIFICATION Spec
INVARIANTS TypeOK SectionsReadBack ReportIsTrue LockStops
CONSTRAINT MCFocus
SYMMETRY MCSymmetry
