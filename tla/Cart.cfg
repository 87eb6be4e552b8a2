SPECIFICATION Spec
CONSTANTS
  t1 = t1  t2 = t2  c1 = c1  c2 = c2  p1 = p1  p2 = p2
  Tabs <- TwoTabs
  Carts <- TwoCarts
  Products <- TwoProducts
  NoCart = NoCart  Keep = Keep  NoAction = NoAction
  MaxActions = 5
  MaxFaults = 1
SYMMETRY TabAndCartSymmetry
INVARIANTS
  TypeOK
  CookieAlive
  BasketKept
CHECK_DEADLOCK FALSE
