SPECIFICATION FairSpec
CONSTANTS
  reader = reader
  writer = writer
  Calls = {reader, writer}
  Operations <- MCOperations
  Contexts = {"u1"}
  EvaluationCaching = TRUE
  MaxRetries = 1
  Options <- MCListening
  MaxContents = 3
  MaxOthers = 2
PROPERTIES
  FlagChangedInvalidates
