CONSTANTS
  root = root  child = child  tok = tok  o1 = o1  o2 = o2
  p1 = p1  p2 = p2  p3 = p3
  None = None
  Mandates = {root, child}
  Chain <- MCChain
  Instruments = {tok}
  Instrument <- MCInstrument
  Budget <- MCBudget
  MaxPerTxn <- MCMaxPerTxn
  MaxTxn <- MCMaxTxn
  Offers = {o1, o2}
  Prices = {2}
  Remote = {o2}
  OutOfScope = {}
  Unmet <- MCUnmet
  Purchases = {p1, p2}
  Revocable = {root}
  Suspendable = {}
  Expiring = {child}
  Moving = {o1}
  Concurrent = FALSE
SPECIFICATION FairSpec
INVARIANTS WithinBudget BooksBalance
PROPERTIES ImplementsAccount EveryCallEnds
CHECK_DEADLOCK FALSE
