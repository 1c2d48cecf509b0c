SPECIFICATION FairSpec
CONSTANTS
  a = a
  m = m
  b = b
  ok = ok
  bad = bad
  None = None
  Session = {s1}
  Step = {a, m, b}
  Order <- MCOrder
  Deterministic <- MCDeterministic
  Uses <- MCUses
  Attempts <- MCAttempts
  Expect <- MCExpect
  Verify <- MCVerify
  Value <- MCValue
  StopAfter <- AnyStop
  Answer <- MCAnswer
CHECK_DEADLOCK FALSE
INVARIANTS
    CheckpointBeforeNextDispatch
    NeverSilentlyWrong
    RunsAreAccounted
PROPERTIES
    EveryRunEnds
