\* A heap of 8 pages that starts at a multiple of 8, or two pages above it.
CONSTANTS
  MaxPageOrder = 4
  BootOrder = 3
  Bases = {8, 10}
  PageBlock <- MCPageBlock
  Requests = {1, 2, 5, 9}
SPECIFICATION FairSpec
INVARIANTS
  TypeOK
  NoOverlap
  ChainedOnce
  CountCovers
PROPERTIES
  ImplementsPool
  CallsReturn
