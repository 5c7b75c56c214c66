CONSTANTS
  None = None
  Callers = {c1, c2}
  Intents <- MCIntents
  Intent <- MCIntent
  Offers <- MCOffers
  Starts <- MCStarts
  Prices = {None}
  Statuses = {"active", "revoked"}
  Requests = {body, other}
  PurchaseIds <- MCPurchaseIds
  Window = 0
  SecretsAgree = TRUE
  MaxTime = 2
  MaxIntents = 1
  MaxOpen = 1
  MaxEscalations = 1
  TTL_L3 = 1
  TTL_L3_PLUS = 2
  Cooldown = 2
SYMMETRY MCSymmetry
SPECIFICATION MCSpec
CHECK_DEADLOCK FALSE
INVARIANTS TypeOK WithinBudget HoldsMatch ApprovedIsHeld StepUpNeedsUV OpenIsCounted OpenIsAnnounced
PROPERTIES RefusalIsFinal RevocationBites
