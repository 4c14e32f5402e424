\* The core that the firmware wakes early triggers what it has already run.
CONSTANTS
  MAX_REMOTE_CORE_ID = 2
  MaxDispatches = 1
SPECIFICATION Spec
INVARIANT
  SomethingNew
