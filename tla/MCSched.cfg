CONSTANTS
  t1 = t1
  t2 = t2
  t3 = t3
  Main = Main
  None = None
  Tasks <- MCTasks
SPECIFICATION Spec
INVARIANTS
  TypeOK
  StacksApart
  HeadOnItsStack
  YieldDropsItself
  LoopsWithThree
PROPERTIES
  StaysQueued
  MarksStacksOwner
  Started
  GoneWhenDone
\* A core that has gone astray, or hangs, has stopped.
CHECK_DEADLOCK FALSE
