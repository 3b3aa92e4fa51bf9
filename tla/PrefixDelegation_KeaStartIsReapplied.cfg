CONSTANTS
  Names = {n1, n2}
  Prefixes = {p1, p2, p3}
  Usable = {p1, p2}
  NoPrefix = NoPrefix
  MaxMoves = 3
SPECIFICATION Spec
PROPERTY KeaStartIsReapplied
CHECK_DEADLOCK FALSE
