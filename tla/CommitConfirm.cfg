CONSTANTS
  old = old
  new = new
  bad = bad
  None = None
  Initial = old
  Configs <- MCConfigs
  Broken <- MCBroken
SPECIFICATION Spec
INVARIANTS SilenceIsGuarded NotStranded Settled
PROPERTIES RevertIsWhole CommitIsFinal SilenceReverts ImplementsPromise
