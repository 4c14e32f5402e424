CONSTANTS
  t1 = t1
  t2 = t2
  t3 = t3
  Main = Main
  None = None
  Tasks <- MCTasks
SPECIFICATION Spec
INVARIANT ContextKept
CHECK_DEADLOCK FALSE
