SPECIFICATION BindingSpec
CONSTANTS
  a1 = a1
  a2 = a2
  n1 = n1
  n2 = n2
  s1 = s1
  s2 = s2
  NoNode = NoNode
  AccountOrder <- TwoAccounts
  NodeOrder <- TwoNodes
  Subs = {s1, s2}
  SubOf <- Apart
  ApiPorts = {1, 2}
  BasePort = 1
  Starts <- StoredConfigs
  FailThreshold = 2
  ColdProbes = 1
  MaxEdits = 1
  MaxOutages = 1
INVARIANTS BindingsSound
PROPERTIES CoolingRests DeadNodeIsLeft BindingsFollow
