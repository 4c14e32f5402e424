\* The comment of page_alloc.c that the lists hold every block.
CONSTANTS
  MaxPageOrder = 4
  BootOrder = 3
  Bases = {8}
  PageBlock <- MCPageBlock
  Requests = {1, 2, 3, 8, 9}
SPECIFICATION Spec
INVARIANT
  FreeListContainsAll
