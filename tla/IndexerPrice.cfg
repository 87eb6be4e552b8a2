SPECIFICATION Spec
CONSTANTS
  p1 = p1  c1 = c1  c2 = c2  r1 = r1
  Products <- OneProduct
  Categories <- OneCategory
  MaxEdits = 2
  Everything = Everything  NoProduct = NoProduct  NoRow = NoRow  NoDoc = NoDoc  NoPrice = NoPrice
  NoCopy = NoCopy  Overtaken = Overtaken
  Renders <- OneFetch
  MaxFaults = 0
INVARIANT
  PriceCarried
CHECK_DEADLOCK FALSE
