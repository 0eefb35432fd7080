SPECIFICATION FairSpec
CONSTANTS
  Workers = {w1, w2}
  Callers = {c1}
  Tasks = {t1}
  NoTask = NoTask
  NoThread = NoThread
  Faults <- NoFaults
PROPERTY StoppedEndsWait
CHECK_DEADLOCK FALSE
