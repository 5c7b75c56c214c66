CONSTANTS
  c1 = c1  c2 = c2  c4 = c4  c5 = c5  k1 = k1  k2 = k2
  prodA = prodA  prodB = prodB
  Empty = Empty  None = None
  Clients = {c4, c5}
  Key <- TwoKeys
  Product <- TwoProducts
  DryTokens = {}
  Exclusive = {}
  Products = {prodA, prodB}
  Amounts = {1}
  Cap = 1
  Moving = {}
SPECIFICATION Spec
INVARIANT BoundToTheCart
CHECK_DEADLOCK FALSE
