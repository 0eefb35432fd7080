SPECIFICATION FairSpec
CONSTANTS
  Tokens <- MCTokens
  Numbers <- MCNumbers
  Digits <- MCDigits
  Alnums <- MCAlnums
  Messages <- LiveMessages
  Cut <- MCCut
  RowId <- MCRowId
  Passwords <- OnePassword
  Hashes <- MCHashes
  Hash <- MCHash
  Faults <- FaultsOfPeers
  MaxUsers = 1
  Sessions = {c1, c2}
  IPs = {ip1}
  Servers = {a1, a2}
  NoSession = NoSession
  NoIp = NoIp
  NULL = NULL
  NoEntry = NoEntry
INVARIANT ConnectionsAreHeld
PROPERTIES
  Rearmed
  Served
  Released
