SPECIFICATION FairPipeSpec
CONSTANTS
  read = read
  look = look
  peek = peek
  nav = nav
  post = post
  loopy = loopy
  Request = {read, look, peek, nav, post, loopy}
  Permitted = {read, look, peek, nav, loopy}
  MaxDispatches = 2
  MaxInFlight = 2
  DependsOn <- MCDependsOn
  Admissible = {read, look, peek, nav, post, loopy}
  MaxConcurrency = 3
  MaxSteps = 3
CHECK_DEADLOCK FALSE
INVARIANTS
    FenceHolds
    StepsAccounted
PROPERTIES
    NothingStartsOnceStopped
    RunEnds
