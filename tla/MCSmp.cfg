\* The second core's boot overlaps the first one's parking.  A core that is lost
\* leaves core 0 in acquire_mutex for ever: the system really may stop.
CONSTANTS
  MAX_REMOTE_CORE_ID = 2
  MaxDispatches = 3
CHECK_DEADLOCK FALSE
SPECIFICATION FairSpec
INVARIANTS
  TypeOK
  AtMostOneExtra
  NoneMissed
  EntryReady
PROPERTIES
  DispatchRuns
  MasterReturns
