SPECIFICATION Spec
CONSTANTS
  Hosts = {h1, h2}
  Paths = {p1, p2}
  RootHosts = {h1}
  NoHost = NoHost
  Crawlers <- MCCrawlers
  MaxRoots = 2
  MaxFound = 2
INVARIANTS
  DepthLimited
  
  PeeksEnd
PROPERTIES
  NoneDropped
  RunsOut
