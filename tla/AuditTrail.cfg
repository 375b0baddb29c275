SPECIFICATION FairSpec
CONSTANTS
  n1 = n1
  n2 = n2
  Nodes = {n1, n2}
  Changes = {c1, c2, c3, d1}
  Named = {c1, c2, d1}
  Second = {d1}
  At <- MCAt
  Null = Null
INVARIANTS
  TypeOK
  LogIsReal
  AtMostOnce
  KeepsOrder
PROPERTIES
  ImplementsLedger
  OnlyFailuresLose
  Drains
