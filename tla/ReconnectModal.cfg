SPECIFICATION FairSpec
CONSTANTS
  Calls = {c1, c2, c3}
INVARIANTS
  TypeOK
  DialogTellsTruth
  NeverDeaf
PROPERTIES
  NothingThrownAway
  Recovers
