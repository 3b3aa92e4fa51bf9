CONSTANTS
  ModelPorts <- MCModelPorts
  ProjectedModels = {"crs"}
  Nets <- MCNets
  VlanOf <- MCVlanOf
  MtuOf <- MCMtuOf
  MgmtNet = "mgmt"
  Keys = {"k1"}
  NetPrefixes = {"site", "lan"}
  NoPrefix = NoPrefix
  NoVlan = NoVlan
  NoNet = NoNet
  Operators = {o1, o2}
  Declared <- MCDeclared
  Lacks <- MCLacks
  Cuts = {0, 25}
  Nothing = Nothing
  MaxDeploys = 2
  MaxCuts = 1
  MaxUpgrades = 1
SPECIFICATION Spec
INVARIANTS TypeOK DeclaredIsConfigured StaysManageable
PROPERTIES HaltsAreExplained WipedIsFetched
CONSTRAINT MCFocus
SYMMETRY MCSymmetry
CHECK_DEADLOCK FALSE
