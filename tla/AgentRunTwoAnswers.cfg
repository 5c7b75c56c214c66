CONSTANTS
  p1 = p1  p2 = p2  r1 = r1  v1 = v1
  None = None
  Workers = {p1, p2}
  Runs = {r1}
  Watches = {v1}
  Autobuy = {v1}
  Purchases = {1, 2, 3}
  MAX_REPLANS = 1
  MaxMishaps = 1
  MayCross = {1}
SPECIFICATION Spec
INVARIANTS NoSecondCharge
CHECK_DEADLOCK FALSE
