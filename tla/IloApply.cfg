CONSTANTS
  s1 = s1
  s2 = s2
  s3 = s3
  o1 = o1
  Runs = {r1, r2}
  Seats = {s1, s2, s3}
  Offered = {s1, s2}
  Others = {o1}
  NoSpec = NoSpec
  NoBoot = NoBoot
  NoTag = NoTag
  Settings <- MCSettings
  Specs <- MCSpecs
  MaxWrites = 3
SPECIFICATION Spec
INVARIANTS PromiseKept
PROPERTY LeftAlone
SYMMETRY MCSymmetry
