SPECIFICATION Spec
CONSTANTS
  Words <- MCWords
  CommandLines <- MCCommandLines
  Stoi <- MCStoi
  NotANumber = NotANumber
INVARIANT PortIsPositive
CHECK_DEADLOCK FALSE
