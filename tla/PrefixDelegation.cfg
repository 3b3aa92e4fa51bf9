CONSTANTS
  Names = {n1, n2}
  Prefixes = {p1, p2, p3}
  Usable = {p1, p2}
  NoPrefix = NoPrefix
  MaxMoves = 6
SPECIFICATION Spec
INVARIANT QuietIsCurrent
PROPERTIES WrittenIsLeased Converges
CHECK_DEADLOCK FALSE
