SPECIFICATION Spec
CONSTANTS
  Threads = {t1, t2, t3}
  Hosts = {h0, h1, h2}
  Paths = {p1}
  Home = h0
  NoHost = NoHost
  MaxOps = 2
INVARIANTS
  TypeOK
  EntriesUnique
  PendingOnce
PROPERTY
  ChainGrows
SYMMETRY Alike
