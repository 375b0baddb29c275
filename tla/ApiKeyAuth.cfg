SPECIFICATION FairSpec
CONSTANTS
  n1 = n1
  n2 = n2
  Nodes = {n1, n2}
  Requests = {r1, r2}
  Revokers = {v1}
  Second = {v1}
  At <- MCAt
INVARIANTS
  TypeOK
  ActiveKeyIsKnown
PROPERTIES
  OutIsOut
  RevocationTakesEffect
  ExpiryTakesEffect
