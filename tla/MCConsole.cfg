\* Three cores; no symmetry, for liveness is checked.
CONSTANTS
  c0 = c0
  c1 = c1
  c2 = c2
  Cores <- MCCores
SPECIFICATION FairSpec
INVARIANTS
  TypeOK
  OneMessage
  NoSelfDeadlock
  NoLostWakeup
  MaskKept
PROPERTIES
  ImplementsMutex
  SomeonePrints
