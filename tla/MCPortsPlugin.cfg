SPECIFICATION FairSpec
CONSTANTS
  p1 = p1
  p2 = p2
  p3 = p3
  r1 = r1
  r2 = r2
  None = None
  Listeners <- MCListeners
  Redirects <- MCRedirects
  Silent = {}
  InDevfile = {p3}
  Unreliable = {"tcp6"}
  MaxOpens = 3
INVARIANTS
  TypeOK
  RedirectFreeOrServed
  ForwardServed
  ShownIsCurrent
PROPERTIES
  ScansGoOn
