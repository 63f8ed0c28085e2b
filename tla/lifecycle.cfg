SPECIFICATION LifecycleFairSpec
CONSTANTS
  Producers = {1, 2}
  Consumers = {1, 2}
  first = first
  other = other
  Processes = {first, other}
  None = None
  Given <- MCGiven
INVARIANTS
  LifecycleInv
  LifecycleTypeOK
  NamesHaveOwners
  StoppedByItsOwn
PROPERTIES
  WaitsOnlyForOther
  CtrlCLostOnlyTwoWays
CHECK_DEADLOCK FALSE
