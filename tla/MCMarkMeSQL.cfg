SPECIFICATION Spec
CONSTANTS
  Tokens <- MCTokens
  Numbers <- MCNumbers
  Digits <- MCDigits
  Alnums <- MCAlnums
  Messages <- AllMessages
  Cut <- MCCut
  RowId <- MCRowId
  Passwords <- MCPasswords
  Hashes <- MCHashes
  Hash <- MCHash
  Faults <- FaultsOfSQLite
  MaxUsers = 2
  Sessions = {c1, c2}
  IPs = {ip1, ip2}
  Servers = {a1}
  NoSession = NoSession
  NoIp = NoIp
  NULL = NULL
  NoEntry = NoEntry
SYMMETRY Symmetry
INVARIANTS
  IInv
  TruthfulReply
PROPERTIES
  OnlyOwnerChangesRow
  DuplicateOnlyAfterFailedSelect
