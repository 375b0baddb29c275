SPECIFICATION Spec
CONSTANTS
  Ids = {1, 2, 3, 4, 5}
  Created <- MCCreated
  Sizes = {0, 2}
  Blank = Blank
  Garbled = Garbled
INVARIANTS
  TypeOK
  WalkComplete
  TurningRoundLeadsBack
PROPERTIES
  WalkInOrder
