SPECIFICATION TaskSpec
CONSTANTS
  a = a
  m = m
  b = b
  ok = ok
  bad = bad
  None = None
  Session = {s1, s2}
  Step = {a, m, b}
  Order <- MCOrder
  Deterministic <- MCDeterministic
  Uses <- MCUses
  Attempts <- OneAttempt
  Expect <- MCExpect
  Verify <- MCVerify
  Value <- MCValue
  StopAfter <- StopAtM
  Answer <- GoodPage
  Identity = {alice, bob}
  Oracle = TRUE
  Careless = {}
  MaxSeq = 4
  MaxMoves = 1
CHECK_DEADLOCK FALSE
SYMMETRY Exchanges
INVARIANTS
    RecordsHold
    RecordsFollow
    RepeatsOnlyFirstTool
PROPERTIES
    TaskProgresses
