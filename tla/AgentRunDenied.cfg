CONSTANTS
  p1 = p1  p2 = p2  r1 = r1  v1 = v1
  None = None
  Workers = {p1, p2}
  Runs = {r1}
  Watches = {}
  Autobuy = {}
  Purchases = {1, 2}
  MAX_REPLANS = 1
  MaxMishaps = 0
  MayCross = {}
SPECIFICATION Spec
INVARIANTS DeniedNeverPays
CHECK_DEADLOCK FALSE
