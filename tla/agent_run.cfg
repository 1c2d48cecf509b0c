SPECIFICATION FairSpec
CONSTANTS
  None = None
  Control = {button}
  Routing = TRUE
  MaxSteps = 3
  MaxRepairs = 1
  MaxTargetRepairs = 1
  MaxOutputRepairs = 1
CHECK_DEADLOCK FALSE
INVARIANTS
    NeverSilentSuccess
    VerifiedAfterLastEffect
    RepairsAreSafe
    RecordIsWhole
PROPERTIES
    RunEnds
