SPECIFICATION Spec
CONSTANTS
  w1 = w1
  w2 = w2
  Worker <- MCWorker
  MaxPeeks <- MCMaxPeeks
  MaxSorts <- MCMaxSorts
  SocketErrors = TRUE
INVARIANTS
  EveryPeekOnce
  
PROPERTIES
  WaitEnds
CHECK_DEADLOCK FALSE
