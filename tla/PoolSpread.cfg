SPECIFICATION Spec
CONSTANTS
  N = 3
  Hosts = {h0, h1, h2}
  Home = h0
  NoHost = NoHost
  NoOne = NoOne
  Spread = TRUE
  External = TRUE
  InitUrls = 1
  MaxUrls = 4
  MaxLinks = 2
  MaxSignals = 1
  FailingInit = {3}
INVARIANTS
  IdleNothingPending
  NoLockCycle
SYMMETRY OtherHosts
CHECK_DEADLOCK FALSE
