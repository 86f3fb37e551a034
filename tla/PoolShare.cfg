SPECIFICATION FairSpec
CONSTANTS
  N = 3
  Hosts = {h0}
  Home = h0
  NoHost = NoHost
  NoOne = NoOne
  Spread = FALSE
  External = FALSE
  InitUrls = 1
  MaxUrls = 6
  MaxLinks = 4
  MaxSignals = 0
  FailingInit = {}
INVARIANTS
  QueueExact
  IdleMeansNoWork
  UrlsConserved
  NoStaleExit
PROPERTIES
  SessionEnds
  ImplementsSession
