SPECIFICATION FairSpec
CONSTANTS
  r1 = r1  r2 = r2  k1 = k1  c1 = c1  b1 = b1  p1 = p1  x1 = x1
  Requests <- TwoRequests
  Keys <- OneKey
  Carts <- OneCart
  Baskets <- OneBasket
  Promos <- OnePromo
  Caps = {1}
  Prices <- OnePrice
  NoKey = NoKey  NoRequest = NoRequest  NoOrder = NoOrder  NoCart = NoCart
  NoPromo = NoPromo  NoPrice = NoPrice  Empty = Empty  Unlimited = Unlimited
INVARIANTS
  TypeOK
  OneOrderPerKey
  AnswersBacked
  PromoBudget
  CartGoneMeansOrdered
PROPERTIES
  RequestsAnswered
  ImplementsLedger
CHECK_DEADLOCK FALSE
