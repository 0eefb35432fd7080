SPECIFICATION Spec
CONSTANTS
  Tokens <- MCTokens
  Numbers <- MCNumbers
  Digits <- MCDigits
  Alnums <- MCAlnums
  Messages <- SomeMessages
  Cut <- MCCut
  RowId <- MCRowId
  Passwords <- MCPasswords
  Hashes <- MCHashes
  Hash <- MCHash
  Faults <- FaultsOfPeersAndPower
  MaxUsers = 2
  Sessions = {c1, c2}
  IPs = {ip1, ip2}
  Servers = {a1, a2}
  NoSession = NoSession
  NoIp = NoIp
  NULL = NULL
  NoEntry = NoEntry
SYMMETRY Symmetry
INVARIANTS
  TypeOK
  UniqueIp
  TruthfulReply
  EnrolledIsStored
  RequestInv
PROPERTIES
  OnlyOwnerChangesRow
  ImplementsService
