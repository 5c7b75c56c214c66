CONSTANTS
  root = root  child = child  tok = tok  o1 = o1  o2 = o2
  p1 = p1  p2 = p2  p3 = p3
  None = None
  Mandates = {root}
  Chain <- RootChain
  Instruments = {tok}
  Instrument <- RootInstrument
  Budget <- RootBudget
  MaxPerTxn <- RootMaxPerTxn
  MaxTxn <- RootMaxTxn
  Offers = {o1}
  Prices = {1}
  Remote = {}
  OutOfScope = {}
  Unmet = {}
  Purchases = {p1, p2}
  Revocable = {root}
  Suspendable = {}
  Expiring = {}
  Moving = {}
  Concurrent = FALSE
SPECIFICATION Spec
PROPERTY NeverRevived
SYMMETRY Symmetry
CHECK_DEADLOCK FALSE
