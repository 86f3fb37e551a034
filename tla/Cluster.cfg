SPECIFICATION Spec
CONSTANTS
  Master = m
  s1 = s1
  s2 = s2
  c1 = c1
  c2 = c2
  Slave = {s1}
  Client = {c1, c2}
  Conn = {1, 2, 3}
  NoConn = 0
  Nobody = nobody
  Configs <- MCConfigs
  Addr <- MCAddr
  MaxPending = 1
  MaxTokens = 2
  MaxDials <- MCDials
  MaxAgain = 1
  MaxFaults = 1
INVARIANTS
  ListFresh
  StatusSettles
  
PROPERTIES
  Admissions
CHECK_DEADLOCK FALSE
