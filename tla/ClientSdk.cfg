SPECIFICATION FairSpec
CONSTANTS
  reader = reader
  writer = writer
  Calls = {reader, writer}
  Operations <- MCOperations
  Contexts = {"u1"}
  EvaluationCaching = TRUE
  MaxRetries = 1
  Options <- MCOptions
  MaxContents = 3
  MaxOthers = 2
INVARIANTS
  TypeOK
  LoneGetIsCurrent
  LoneGetIsAnswered
  NotFoundIsTrue
  UpdatesOnce
PROPERTIES
  EvaluationsCatchUp
