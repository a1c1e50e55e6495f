\* The calls that serialise, the child and the daemon; the bridge may rest switched off.
CONSTANTS
  Admins = {"admin"}
  Confs = {1, 2}
  Changes = 2
  Faults = 2
  MaxSecret = 6
SPECIFICATION Spec
CHECK_DEADLOCK FALSE
INVARIANTS ChildKnown LatestApplied
PROPERTIES BridgeComesUp
