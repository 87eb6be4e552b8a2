SPECIFICATION FairSpec
CONSTANTS
  t1 = t1  t2 = t2  p1 = p1  c1 = c1  c2 = c2  c3 = c3
  Nothing = Nothing  Unsaid = {"unsaid"}
  Tenants <- TwoTenants
  Products <- OneProduct
  Categories <- ThreeCategories
  Renders = {1, 2}
  Slug <- TwoSlugs
  MaxEdits = 2
  MaxFaults = 1
INVARIANTS
  TypeOK
  StaleWhileOwed
PROPERTIES
  OthersStayWarm
  CurrentInTheEnd
CHECK_DEADLOCK FALSE
