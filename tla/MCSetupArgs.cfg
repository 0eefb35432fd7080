SPECIFICATION Spec
CONSTANTS
  Words <- MCWords
  CommandLines <- MCCommandLines
  Stoi <- MCStoi
  NotANumber = NotANumber
INVARIANTS
  IInv
  LastOptionWins
  RefusedForAReason
CHECK_DEADLOCK FALSE
