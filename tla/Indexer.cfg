SPECIFICATION Spec
CONSTANTS
  p1 = p1  c1 = c1  c2 = c2  r1 = r1
  Products <- OneProduct
  Categories <- TwoCategories
  MaxEdits = 3
  Everything = Everything  NoProduct = NoProduct  NoRow = NoRow  NoDoc = NoDoc  NoPrice = NoPrice
  NoCopy = NoCopy  Overtaken = Overtaken
  Renders <- OneFetch
  MaxFaults = 1
SYMMETRY CategorySymmetry
INVARIANTS
  TypeOK
  PagesFresh
  CategoriesFresh
  InSync
CHECK_DEADLOCK FALSE
