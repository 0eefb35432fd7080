SPECIFICATION FairSpec
CONSTANTS
  Workers = {w1, w2, w3}
  Callers = {c1, c2}
  Tasks = {t1, t2, t3}
  NoTask = NoTask
  NoThread = NoThread
  Faults <- AllFaults
INVARIANTS
  IInv
  NoEmptyPop
  EachTaskOnce
  EnoughAwake
PROPERTIES
  ImplementsPool
  NobodySleepsAgain
  TasksAreTaken
  DestructorEnds
CHECK_DEADLOCK FALSE
