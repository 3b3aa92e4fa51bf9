CONSTANTS
  RecoverThreshold = 2
  FailThreshold = 3
  MaxFaults = 2
SPECIFICATION WanSpec
INVARIANTS StateIsTruth ShadowOnlyInFailover NoStaleFlows
PROPERTIES Recovers FailsOver
