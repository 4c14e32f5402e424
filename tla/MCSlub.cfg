CONSTANTS
  c0 = c0
  c1 = c1
  small = small
  large = large
  idle = idle
  a = a
  b = b
  Null = Null
  Cores <- MCCores
  Orders <- MCOrders
  NrObjs <- MCNrObjs
  Tasks <- MCTasks
  IdleTask = idle
  Home <- MCHome
SPECIFICATION Spec
INVARIANTS
  TypeOK
  OneReference
  FixedLength
  HeldIsListed
  NothingLost
PROPERTY CallsReturn
CHECK_DEADLOCK FALSE
