\* Three pages for new tables besides the kernel's three.
CONSTANTS
  t1 = t1
  t2 = t2
  t3 = t3
  t4 = t4
  t5 = t5
  t6 = t6
  none = none
  stray = stray
  valid = valid
  readonly = readonly
  Index = {0, 1}
  First = 0
  Tables <- MCTables
  L1 = t1
  L2 = t2
  L3 = t3
  Frames <- MCFrames
  Frame0 = none
  BootFrame <- MCBootFrame
  Attrs = {valid, readonly}
  KernelFlags = {valid}
  Junk <- MCJunk
  Requests <- MCRequests
SPECIFICATION FairSpec
INVARIANTS
  TypeOK
  DescsAgree
  OneParent
  SamePath
PROPERTIES
  ImplementsMap
  CallsReturn
