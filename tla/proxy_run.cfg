SPECIFICATION FairSpec
CONSTANTS
  MaxCalls = 2
  MaxNoise = 1
  None = None
CHECK_DEADLOCK FALSE
INVARIANTS
    RecordingIsTrue
PROPERTIES
    CallsSettle
