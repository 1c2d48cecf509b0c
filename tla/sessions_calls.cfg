SPECIFICATION Spec
CONSTANTS
  Stored = {s1, s2, s3}
  Id = {i1, i2, i3}
  Call = {c1, c2}
  None = None
  MaxSessions = 2
  MaxEpoch = 1
SYMMETRY Exchanges
CHECK_DEADLOCK FALSE
INVARIANTS
    ActiveIsUsable
    NoLeak
PROPERTIES
    AwaitedPromotesAtSource
