SPECIFICATION Spec
CONSTANTS
  None = None
  Distiller = {d1, d2}
  Name = {n1, n2}
  Env = {e1, e2}
  Run <- MCRun
  Asked <- MCAsked
  Before <- MCBefore
  Casts <- MCCasts
  Earlier = {r0}
  r0 = r0
  Facts = 2
  d1 = d1
  d2 = d2
  n1 = n1
  n2 = n2
  t1 = t1
  t2 = t2
  t3 = t3
  Attempt = {t1, t2, t3}
  order = order
  the = the
  Text = {order}
  TokensOf <- MCTokensOf
  Check = {c1}
  Filler = {the}
  Gui = {t2, t3}
  Wants <- MCWants
  Provider = None
  Providers = {"openai", "codex"}
CHECK_DEADLOCK FALSE
INVARIANTS
    LibraryIsSound
    FallbackIsClean
    SuccessIsEarned
    RequestsAreApart
