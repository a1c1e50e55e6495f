\* The store's files over failed writes, crashes and restarts. A store that refused to
\* start, or whose bounded changes are used up, rests.
SPECIFICATION Spec
CONSTANTS
  k1 = k1
  a1 = a1
  p1 = p1
  s1 = s1
  s2 = s2
  Keys = {k1}
  Accounts = {a1}
  Proxies = {p1}
  Subs = {s1, s2}
  PortOf <- SomePorts
  ApiPorts <- SomeApiPorts
  None = None
  Setups <- SomeSetups
  Disks <- FirstDisks
  EnvConfig <- WithLegacySubs
  LegacyConfig <- WithLegacySubs
  Requested <- SomeRequests
  Imports <- SomeImports
  MaxCommits = 3
  MaxFaults = 1
  MaxCrashes = 1
  MaxSettings = 2
CHECK_DEADLOCK FALSE
INVARIANTS FilesFollow StartsAgain
PROPERTIES EditsHold
