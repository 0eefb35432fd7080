SPECIFICATION FairSpec
CONSTANTS
  Threads = {t1, t2}
  Names = {f1, f2}
  FirstName = f1
  Console = Console
  Nobody = Nobody
  MaxCalls = 2
  MaxClock = 2
INVARIANTS IInv WholeLines StampsAscend EachCallOnce
PROPERTIES WrittenWhereNamed CallsReturn
CHECK_DEADLOCK FALSE
