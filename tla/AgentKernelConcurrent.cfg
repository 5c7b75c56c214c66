CONSTANTS
  root = root  child = child  tok = tok  o1 = o1  o2 = o2
  p1 = p1  p2 = p2  p3 = p3
  None = None
  Mandates = {root, child}
  Chain <- MCChain
  Instruments = {tok}
  Instrument <- MCInstrument
  Budget <- MCBudget
  MaxPerTxn <- ConcurrentMaxPerTxn
  MaxTxn <- MCMaxTxn
  Offers = {o1, o2}
  Prices = {1,2}
  Remote = {o2}
  OutOfScope <- ConcurrentOutOfScope
  Unmet <- MCUnmet
  Purchases = {p1, p2}
  Revocable = {root}
  Suspendable = {root}
  Expiring = {}
  Moving = {}
  Concurrent = TRUE
SPECIFICATION Spec
INVARIANTS OnePathToMoney SpendIsPaid
PROPERTIES RevocationBites
SYMMETRY Symmetry
CHECK_DEADLOCK FALSE
