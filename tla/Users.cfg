SPECIFICATION Spec
CONSTANTS
  Conn = {c1, c2}
  manager = manager
  writer = writer
  other = other
  User <- MCUser
  Nobody = Nobody
  LevelOf <- MCLevelOf
  NewLevels <- MCNewLevels
  Password = {"p1", "p2"}
  Slave = {1}
  Client = {k1}
  Session = {1}
  MaxRows = 1
  MaxJoins = 1
  MaxFaults = 1
SYMMETRY Alike
VIEW WithoutReply
INVARIANTS
  ToldIsStored
  
PROPERTIES
  OwnRowsOnly
CHECK_DEADLOCK FALSE
