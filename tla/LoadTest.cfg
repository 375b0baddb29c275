SPECIFICATION Spec
CONSTANTS
  Testers = {t1, t2}
  Envs <- MCEnvs
  VUs = {1, 2}
  MaxRows = 4
  MaxIterations = 2
SYMMETRY MCSymmetry
INVARIANTS
  TypeOK
  FlagsReady
  AsksForStoredFlags
  NeverStuck
  NoLockstep
CHECK_DEADLOCK FALSE
