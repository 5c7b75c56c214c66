CONSTANTS
  None = None
  g1 = g1  t1 = t1  n1 = n1  a1 = a1  a2 = a2  x1 = x1
  Gestures = {g1, g2}
  Tokens = {t1, t2}
  Moves = {"suspended"}
  Calls = {a1, a2, x1}
  Others = {x1}
  Keys = {"k1", "k2"}
  Enrolments = {n1, n2}
  Evidence <- MCEvidence
  MaxDisputes = 1
  Prices = {1, 2}
  Purchases = {"p1", "p2"}
  Bodies <- MCBodies
  Escalations = {e1, e2}
  Resolvers = {r1, r2}
  Timeout = 1
  MaxClock = 3
  ChainKeys = {c1, c2}
  Writers = {b1, b2}
  Payloads = {p, q}
  MaxEvents = 2
  MaxSigned = 2
  MaxTampers = 1
  Contents = {"p", "q"}
  Signers = {s1, s2}
  MaxLedger = 3
  MaxSignings = 2
  Events = {1, 2}
  Workers = {w1, w2}
  Jobs = {j1}
  Subscribers = {log, webhook}
  NumSinks = 2
  MaxAttempts = 2
  Batch = 1
  MaxDeaths = 1
SPECIFICATION MCSpec
INVARIANTS PlatformTypeOK OneGestureOneChange RevocationReachesRail OneCartOnePayment ReceiptIsPaid
           OneVerdict VerdictIsRight VerificationIsHonest RelayedMeansDelivered
PROPERTIES EveryEventSettles
CHECK_DEADLOCK FALSE
