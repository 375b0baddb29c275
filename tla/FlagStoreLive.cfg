SPECIFICATION FairSpec
CONSTANTS
  Readers = {g}
  Writes = {"update", "delete"}
  Home = n1
  Placements <- MCHome
  Nodes = {n1, n2}
  Requests = {r1, g}
  Script <- MCScript
  Seed = seed
  Null = Null
  Miss = Miss
  MaxObjects = 3
  MaxJobs = 2
  MaxTags = 1
PROPERTIES
  OnlyWritesMakeStale
  Converges
