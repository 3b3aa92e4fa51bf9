CONSTANTS
  m1 = m1
  m2 = m2
  p1 = p1
  p2 = p2
  Procs = {p1, p2}
  Attempts = {m1, m2}
  Owner <- MCOwner
  Phrases = {h1, h2}
  Sessions = {s1, s2, s3}
  MinSupport = 2
  MaxCalls = 1
SYMMETRY MCSymmetry
SPECIFICATION Spec
INVARIANTS SupportIsCounted OneAttemptPerCandidate MinedOnce CallsWithinBudget
PROPERTY DecisionsStay
CONSTRAINT MCFocus
