CONSTANTS
  c1 = c1  c2 = c2  c4 = c4  c5 = c5  k1 = k1  k2 = k2
  prodA = prodA  prodB = prodB
  Empty = Empty  None = None
  Clients = {c1, c2, c4, c5}
  Key <- RetryKey
  Product <- RetryProduct
  DryTokens = {c4}
  Exclusive = {c1, c2}
  Products = {prodA, prodB}
  Amounts = {1, 2}
  Cap = 1
  Moving = {prodA}
SPECIFICATION Spec
INVARIANTS OnePayingClick MoneyOnRecord ReceiptsAreTrue OrderedAsApproved
PROPERTIES UncertainIsFinal
CHECK_DEADLOCK FALSE
