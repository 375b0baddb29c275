SPECIFICATION Spec
CONSTANTS
  Readers = {}
  Writes = {"create", "update", "delete"}
  Home = n1
  Placements <- MCAnywhere
  Nodes = {n1, n2}
  Requests = {r1, r2}
  Script <- MCScript
  Seed = seed
  Null = Null
  Miss = Miss
  MaxObjects = 5
  MaxJobs = 2
  MaxTags = 2
SYMMETRY MCSymmetry
INVARIANTS
  TypeOK
  NoPhantomFlag
  AcknowledgedCreateIsStored
  AcknowledgedDeleteIsReal
  RefusedLeavesNoTrace
PROPERTIES
  ImplementsTable
