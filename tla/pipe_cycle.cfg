SPECIFICATION PipeSpec
CONSTANTS
  read = read
  look = look
  peek = peek
  nav = nav
  post = post
  loopy = loopy
  Request = {read, nav, post, loopy}
  Permitted = {read, nav, loopy}
  MaxDispatches = 2
  MaxInFlight = 2
  DependsOn <- MCDependsOn
  Admissible = {read, nav, post, loopy}
  MaxConcurrency = 2
  MaxSteps = 3
CHECK_DEADLOCK FALSE
PROPERTY CycleMeansCycle
