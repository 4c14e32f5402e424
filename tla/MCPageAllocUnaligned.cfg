\* A heap that is only page aligned, as linker.ld places it.
CONSTANTS
  MaxPageOrder = 4
  BootOrder = 3
  Bases = {9}
  PageBlock <- MCPageBlock
  Requests = {1, 2, 3, 8, 9}
SPECIFICATION Spec
PROPERTY
  SecondBuddyHigher
