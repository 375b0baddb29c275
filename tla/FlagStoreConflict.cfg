SPECIFICATION Spec
CONSTANTS
  Readers = {g}
  Writes = {"update"}
  Home = n1
  Placements <- MCHome
  Nodes = {n1}
  Requests = {r1, g}
  Script <- MCScript
  Seed = seed
  Null = Null
  Miss = Miss
  MaxObjects = 3
  MaxJobs = 2
  MaxTags = 2
INVARIANTS
  NoSpuriousConflict
