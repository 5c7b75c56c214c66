------------------------- MODULE AgentKernelProofs -------------------------
(***************************************************************************)
(* Theorems about the purchase saga, for every set of mandates, offers and *)
(* calls, every chain, budget and limit, and any number of processes.      *)
(***************************************************************************)
EXTENDS AgentKernel, SumTheorems

(* A position inside a chain names a mandate. *)
LEMMA LinkInChain ==
  ASSUME NEW p \in Purchases, mandate \in [Purchases -> Mandates],
         NEW k \in 1..Length(p)
  PROVE  Link(p, k) \in Mandates /\ Length(p) \in Nat
  BY ChainAssumption DEF Link, Length

(* An UPDATE of one column keeps the row well formed and leaves the other   *)
(* rows and columns alone.                                                  *)
LEMMA StatusUpdate ==
  ASSUME mandates \in [Mandates -> Row],
         NEW m \in Mandates, NEW s \in MandateStatus, SetStatus(m, s)
  PROVE  /\ mandates' \in [Mandates -> Row]
         /\ \A n \in Mandates :
              /\ mandates'[n].reserved = mandates[n].reserved
              /\ mandates'[n].spent = mandates[n].spent
  <1>1. [mandates[m] EXCEPT !.status = s] \in Row
    BY DEF Row
  <1> QED
    BY <1>1 DEF SetStatus, Row

LEMMA ReservedUpdate ==
  ASSUME mandates \in [Mandates -> Row],
         NEW m \in Mandates, NEW r \in Nat, SetReserved(m, r)
  PROVE  /\ mandates' \in [Mandates -> Row]
         /\ mandates'[m].reserved = r
         /\ \A n \in Mandates :
              /\ n # m => mandates'[n].reserved = mandates[n].reserved
              /\ mandates'[n].spent = mandates[n].spent
  <1>1. [mandates[m] EXCEPT !.reserved = r] \in Row
    BY DEF Row
  <1> QED
    BY <1>1 DEF SetReserved, Row

(* settle writes a whole row from the snapshot. *)
LEMMA SettleUpdate ==
  ASSUME TypeOK, NEW p \in Purchases, SettleWrite(p), walk[p] <= Length(p)
  PROVE  /\ mandates' \in [Mandates -> Row]
         /\ mandates'[Link(p, walk[p])].reserved = Max0(snap[p].reserved - amount[p])
         /\ mandates'[Link(p, walk[p])].spent = snap[p].spent + amount[p]
         /\ \A n \in Mandates : n # Link(p, walk[p]) => mandates'[n] = mandates[n]
  <1>0. walk[p] \in 1..Length(p)
    BY ChainAssumption DEF TypeOK, Length
  <1>1. Link(p, walk[p]) \in Mandates
    BY <1>0, LinkInChain DEF TypeOK
  <1>2. /\ Max0(snap[p].reserved - amount[p]) \in Nat
        /\ snap[p].spent + amount[p] \in Nat
        /\ snap[p].count + 1 \in Nat
        /\ snap[p].status \in MandateStatus /\ "exhausted" \in MandateStatus
    BY DEF TypeOK, Row, Max0, MandateStatus
  <1> DEFINE new == [status   |-> IF snap[p].spent + amount[p] >= Budget[Link(p, walk[p])]
                                  THEN "exhausted" ELSE snap[p].status,
                     reserved |-> Max0(snap[p].reserved - amount[p]),
                     spent    |-> snap[p].spent + amount[p],
                     count    |-> snap[p].count + 1]
  <1>3. new \in Row
    BY <1>2 DEF Row
  <1>4. mandates' = [mandates EXCEPT ![Link(p, walk[p])] = new]
    BY DEF SettleWrite
  <1>5. new.reserved = Max0(snap[p].reserved - amount[p]) /\ new.spent = snap[p].spent + amount[p]
    OBVIOUS
  <1> HIDE DEF new
  <1> QED
    BY <1>1, <1>3, <1>4, <1>5 DEF TypeOK

LEMMA TypeInit == Init => TypeInv
  <1> SUFFICES ASSUME Init PROVE TypeInv
    OBVIOUS
  <1>1. NoRow \in Row
    BY DEF NoRow, Row, MandateStatus
  <1>2. TypeOK
    BY <1>1, LimitAssumption DEF Init, TypeOK, PC, PurchaseStatus
  <1>3. ASSUME NEW p \in Purchases PROVE Positions(p) /\ Approved(p)
    <2>1. Length(p) \in Nat /\ Length(p) >= 1
      BY <1>2, ChainAssumption DEF Length, TypeOK
    <2> QED
      BY <2>1 DEF Init, Positions, Approved, Reserving, Unreserving, Settling, Reserved
  <1> QED
    BY <1>2, <1>3 DEF TypeInv

(* The environment moves no call: only the mandate, token, clock and price  *)
(* columns change.                                                          *)
LEMMA EnvironmentType ==
  ASSUME TypeInv, Environment
  PROVE  TypeInv'
  <1> USE LimitAssumption, NameAssumption
  <1>1. UNCHANGED <<purchases, paid, pc, alive, calls, top, walk, snap>>
    BY DEF Environment, Issue, RevokeRow, RevokeToken, Suspend, Reactivate,
           EndOfValidity, SetPrice
  <1>2. TypeOK'
    <2> USE DEF TypeInv, TypeOK
    <2>s. {"active", "suspended", "revoked", "expired"} \subseteq MandateStatus
      BY DEF MandateStatus
    <2>1. ASSUME NEW m \in Mandates, Issue(m) PROVE TypeOK'
      BY <2>1, <2>s, <1>1, StatusUpdate DEF Issue, calls
    <2>2. ASSUME NEW m \in Revocable, RevokeRow(m) PROVE TypeOK'
      BY <2>2, <2>s, <1>1, StatusUpdate DEF RevokeRow, calls
    <2>3. ASSUME NEW m \in Revocable, RevokeToken(m) PROVE TypeOK'
      BY <2>3, <1>1 DEF RevokeToken, calls
    <2>4. ASSUME NEW m \in Suspendable, Suspend(m) PROVE TypeOK'
      BY <2>4, <2>s, <1>1, StatusUpdate DEF Suspend, calls
    <2>5. ASSUME NEW m \in Suspendable, Reactivate(m) PROVE TypeOK'
      BY <2>5, <2>s, <1>1, StatusUpdate DEF Reactivate, calls
    <2>6. ASSUME NEW m \in Expiring, EndOfValidity(m) PROVE TypeOK'
      BY <2>6, <1>1 DEF EndOfValidity, calls
    <2>7. ASSUME NEW o \in Moving, NEW v \in Prices \cup {None}, SetPrice(o, v)
          PROVE TypeOK'
      BY <2>7, <1>1 DEF SetPrice, calls
    <2> QED
      BY <2>1, <2>2, <2>3, <2>4, <2>5, <2>6, <2>7 DEF Environment
  <1>3. ASSUME NEW p \in Purchases PROVE (Positions(p) /\ Approved(p))'
    BY <1>1 DEF TypeInv, Positions, Approved, GatePassed, Length, calls
  <1> QED
    BY <1>2, <1>3 DEF TypeInv

----------------------------------------------------------------------------
(* A statement of one call leaves the other calls where they are. *)
OthersStay(p) ==
  /\ UNCHANGED <<mandate, offer>>
  /\ \A q \in Purchases : q # p =>
       /\ pc'[q] = pc[q]
       /\ alive'[q] = alive[q]
       /\ amount'[q] = amount[q]
       /\ top'[q] = top[q]
       /\ walk'[q] = walk[q]
       /\ snap'[q] = snap[q]
       /\ purchases'[q] = purchases[q]
       /\ (q \in paid') = (q \in paid)

LEMMA FrameLemma ==
  ASSUME TypeOK, NEW p \in Purchases, Submit(p) \/ Step(p) \/ Crash(p)
  PROVE  OthersStay(p)
  <1> USE DEF TypeOK, OthersStay, calls, Goto
  <1>1. CASE Submit(p)
    BY <1>1 DEF Submit
  <1>2. CASE VerifyRead(p) \/ VerifyAncestor(p) \/ VerifyExpired(p) \/ VerifyGate(p)
    BY <1>2 DEF VerifyRead, VerifyAncestor, VerifyExpired, VerifyGate
  <1>3. CASE Refuse(p) \/ Escalate(p) \/ Capture(p) \/ Compensate(p)
    BY <1>3 DEF Refuse, Escalate, Capture, Compensate, Return
  <1>4. CASE ReserveRead(p) \/ ReserveWrite(p) \/ ReserveLost(p)
    BY <1>4 DEF ReserveRead, ReserveWrite, ReserveLost, Unreserve
  <1>5. CASE UnreserveRead(p) \/ UnreserveWrite(p)
    BY <1>5 DEF UnreserveRead, UnreserveWrite
  <1>6. CASE Charge(p) \/ Checkout(p) \/ RailCheck(p) \/ RailCapture(p)
    BY <1>6 DEF Charge, Checkout, RailCheck, RailCapture, Unreserve
  <1>7. CASE \E answer \in {"paid", "refused", "lost"} : RemotePay(p, answer)
    BY <1>7 DEF RemotePay, Unreserve
  <1>8. CASE SettleRead(p) \/ SettleWrite(p)
    BY <1>8 DEF SettleRead, SettleWrite
  <1>9. CASE Crash(p)
    BY <1>9 DEF Crash
  <1> QED
    BY <1>1, <1>2, <1>3, <1>4, <1>5, <1>6, <1>7, <1>8, <1>9 DEF Step

(* One statement of a call keeps the types and the positions of that call. *)
LEMMA CallType ==
  ASSUME TypeInv, NEW p \in Purchases, Submit(p) \/ Step(p) \/ Crash(p)
  PROVE  TypeOK' /\ Positions(p)' /\ Approved(p)'
  <1> USE DEF calls, rows, Goto, At
  <1>0. TypeOK /\ Positions(p) /\ Approved(p)
    BY DEF TypeInv
  <1>a. Length(p) \in Nat /\ Length(p) >= 1 /\ Length(p)' = Length(p)
    <2>1. mandate' = mandate
      BY FrameLemma, <1>0 DEF OthersStay
    <2>2. mandate[p] \in Mandates
      BY <1>0 DEF TypeOK
    <2> QED
      BY ONLY <2>1, <2>2, ChainAssumption DEF Length
  <1>b. \A x \in {"verify", "ancestors", "gate", "refused", "escalate",
              "reserve_read", "reserve_write", "charge", "checkout", "rail_check",
              "rail_capture", "remote_pay", "settle_read", "settle_write", "capture",
              "unreserve_read", "unreserve_write", "compensate", "done"} : x \in PC
    BY DEF PC
  <1>c. \A x \in {"pending", "rejected", "awaiting_escalation", "charging", "captured",
                  "compensated"} : x \in PurchaseStatus
    BY DEF PurchaseStatus
  <1>d. NoRow \in Row
    BY DEF NoRow, Row, MandateStatus
  <1>e. amount'[p] = amount[p] => (GatePassed(p)' <=> GatePassed(p))
    <2>1. mandate' = mandate /\ offer' = offer
      BY FrameLemma, <1>0 DEF OthersStay
    <2> QED
      BY <2>1 DEF GatePassed
  <1>f. /\ pc[p] \in PC /\ top[p] \in Nat /\ walk[p] \in Nat /\ walk[p] >= 1
        /\ amount[p] \in Nat
    BY <1>0 DEF TypeOK
  <1>1. CASE Submit(p)
    <2>t. TypeOK'
      BY <1>1, <1>0, <1>b, <1>c, <1>d, LimitAssumption DEF TypeOK, Submit
    <2>p. Positions(p)'
      BY <1>1, <1>0, <1>a, <1>f, LimitAssumption DEF TypeOK, Positions, Reserving, Unreserving, Settling, Reserved, Submit
    <2>a. Approved(p)'
      BY <1>1, <1>0, <1>a, <1>e, <1>f DEF TypeOK, Positions, Approved, Reserving, Unreserving, Settling, Reserved, Submit
    <2> QED
      BY <2>t, <2>p, <2>a
  <1>2. CASE VerifyRead(p)
    <2>t. TypeOK'
      BY <1>2, <1>0, <1>b, <1>c, <1>d DEF TypeOK, VerifyRead
    <2>p. Positions(p)'
      BY <1>2, <1>0, <1>a, <1>f DEF TypeOK, Positions, Reserving, Unreserving, Settling, Reserved, VerifyRead
    <2>a. Approved(p)'
      BY <1>2, <1>0, <1>a, <1>e, <1>f DEF TypeOK, Positions, Approved, Reserving, Unreserving, Settling, Reserved, VerifyRead
    <2> QED
      BY <2>t, <2>p, <2>a
  <1>3. CASE VerifyAncestor(p)
    <2>t. TypeOK'
      BY <1>3, <1>0, <1>b, <1>c, <1>d DEF TypeOK, VerifyAncestor
    <2>p. Positions(p)'
      BY <1>3, <1>0, <1>a, <1>f DEF TypeOK, Positions, Reserving, Unreserving, Settling, Reserved, VerifyAncestor
    <2>a. Approved(p)'
      BY <1>3, <1>0, <1>a, <1>e, <1>f DEF TypeOK, Positions, Approved, Reserving, Unreserving, Settling, Reserved, VerifyAncestor
    <2> QED
      BY <2>t, <2>p, <2>a
  <1>4. CASE VerifyExpired(p)
    <2>m. mandates' \in [Mandates -> Row]
      BY <1>4, <1>0, StatusUpdate DEF VerifyExpired, MandateStatus, TypeOK
    <2>t. TypeOK'
      BY <2>m, <1>4, <1>0, <1>b, <1>c, <1>d DEF TypeOK, VerifyExpired
    <2>p. Positions(p)'
      BY <1>4, <1>0, <1>a, <1>f DEF TypeOK, Positions, Reserving, Unreserving, Settling, Reserved, VerifyExpired
    <2>a. Approved(p)'
      BY <1>4, <1>0, <1>a, <1>e, <1>f DEF TypeOK, Positions, Approved, Reserving, Unreserving, Settling, Reserved, VerifyExpired
    <2> QED
      BY <2>t, <2>p, <2>a
  <1>5. CASE VerifyGate(p)
    <2>t. TypeOK'
      BY <1>5, <1>0, <1>b, <1>c, <1>d DEF TypeOK, VerifyGate
    <2>p. Positions(p)'
      BY <1>5, <1>0, <1>a, <1>f DEF TypeOK, Positions, Reserving, Unreserving, Settling, Reserved, VerifyGate
    <2>a. Approved(p)'
      BY <1>5, <1>0, <1>a, <1>e, <1>f, LimitAssumption DEF TypeOK, Positions, Approved, Reserving, Unreserving, Settling, Reserved, VerifyGate, gate, GatePassed
    <2> QED
      BY <2>t, <2>p, <2>a
  <1>6. CASE Refuse(p) \/ Escalate(p) \/ Capture(p) \/ Compensate(p)
    <2>t. TypeOK'
      BY <1>6, <1>0, <1>b, <1>c, <1>d DEF TypeOK, Refuse, Escalate, Capture, Compensate, Return
    <2>p. Positions(p)'
      BY <1>6, <1>0, <1>a, <1>f DEF TypeOK, Positions, Reserving, Unreserving, Settling, Reserved, Refuse, Escalate, Capture, Compensate, Return
    <2>a. Approved(p)'
      BY <1>6, <1>0, <1>a, <1>e, <1>f DEF TypeOK, Positions, Approved, Reserving, Unreserving, Settling, Reserved, Refuse, Escalate, Capture, Compensate, Return
    <2> QED
      BY <2>t, <2>p, <2>a
  <1>7. CASE Crash(p)
    <2>t. TypeOK'
      BY <1>7, <1>0, <1>b, <1>c, <1>d DEF TypeOK, Crash
    <2>p. Positions(p)'
      BY <1>7, <1>0, <1>a, <1>f DEF TypeOK, Positions, Reserving, Unreserving, Settling, Reserved, Crash
    <2>a. Approved(p)'
      BY <1>7, <1>0, <1>a, <1>e, <1>f DEF TypeOK, Positions, Approved, Reserving, Unreserving, Settling, Reserved, Crash
    <2> QED
      BY <2>t, <2>p, <2>a
  <1>8. CASE ReserveRead(p)
    <2>m. mandates[Link(p, top[p] + 1)] \in Row
      <3>1. top[p] + 1 \in 1..Length(p)
        BY <1>8, <1>0, <1>a, <1>f DEF ReserveRead, Positions, Reserving
      <3> QED
        BY <3>1, <1>0, LinkInChain DEF TypeOK
    <2>t. TypeOK'
      BY <2>m, <1>8, <1>0, <1>b, <1>c, <1>d DEF TypeOK, ReserveRead, Unreserve, AfterUnreserve
    <2>p. Positions(p)'
      BY <1>8, <1>0, <1>a, <1>f DEF TypeOK, Positions, Reserving, Unreserving, Settling, Reserved, ReserveRead, Unreserve, AfterUnreserve
    <2>a. Approved(p)'
      BY <1>8, <1>0, <1>a, <1>e, <1>f DEF TypeOK, Positions, Approved, Reserving, Unreserving, Settling, Reserved, ReserveRead, Unreserve, AfterUnreserve
    <2> QED
      BY <2>t, <2>p, <2>a
  <1>9. CASE ReserveWrite(p)
    <2>1. top[p] + 1 \in 1..Length(p)
      BY <1>9, <1>0, <1>a, <1>f DEF ReserveWrite, Positions, Reserving
    <2>2. Link(p, top[p] + 1) \in Mandates /\ snap[p].reserved + amount[p] \in Nat
      BY <2>1, <1>0, LinkInChain, SMTT(30) DEF TypeOK, Row
    <2>m. mandates' \in [Mandates -> Row]
      BY <2>2, <1>9, <1>0, ReservedUpdate DEF ReserveWrite, TypeOK
    <2>t. TypeOK'
      BY <2>m, <1>9, <1>0, <1>b, <1>c, <1>d DEF TypeOK, ReserveWrite
    <2>p. Positions(p)'
      BY <1>9, <1>0, <1>a, <1>f DEF TypeOK, Positions, Reserving, Unreserving, Settling, Reserved, ReserveWrite
    <2>a. Approved(p)'
      BY <1>9, <1>0, <1>a, <1>e, <1>f DEF TypeOK, Positions, Approved, Reserving, Unreserving, Settling, Reserved, ReserveWrite
    <2> QED
      BY <2>t, <2>p, <2>a
  <1>10. CASE ReserveLost(p)
    <2>t. TypeOK'
      BY <1>10, <1>0, <1>b, <1>c, <1>d DEF TypeOK, ReserveLost, Unreserve, AfterUnreserve
    <2>p. Positions(p)'
      BY <1>10, <1>0, <1>a, <1>f DEF TypeOK, Positions, Reserving, Unreserving, Settling, Reserved, ReserveLost, Unreserve, AfterUnreserve
    <2>a. Approved(p)'
      BY <1>10, <1>0, <1>a, <1>e, <1>f DEF TypeOK, Positions, Approved, Reserving, Unreserving, Settling, Reserved, ReserveLost, Unreserve, AfterUnreserve
    <2> QED
      BY <2>t, <2>p, <2>a
  <1>11. CASE UnreserveRead(p)
    <2>1. walk[p] \in 1..Length(p)
      BY <1>11, <1>0, <1>a, <1>f DEF UnreserveRead, Positions, Unreserving
    <2>m. mandates[Link(p, walk[p])] \in Row
      BY <2>1, <1>0, LinkInChain DEF TypeOK
    <2>t. TypeOK'
      BY <2>m, <1>11, <1>0, <1>b, <1>c, <1>d DEF TypeOK, UnreserveRead
    <2>p. Positions(p)'
      BY <1>11, <1>0, <1>a, <1>f DEF TypeOK, Positions, Reserving, Unreserving, Settling, Reserved, UnreserveRead
    <2>a. Approved(p)'
      BY <1>11, <1>0, <1>a, <1>e, <1>f DEF TypeOK, Positions, Approved, Reserving, Unreserving, Settling, Reserved, UnreserveRead
    <2> QED
      BY <2>t, <2>p, <2>a
  <1>12. CASE UnreserveWrite(p)
    <2>1. walk[p] \in 1..Length(p)
      BY <1>12, <1>0, <1>a, <1>f DEF UnreserveWrite, Positions, Unreserving
    <2>2. Link(p, walk[p]) \in Mandates /\ Max0(snap[p].reserved - amount[p]) \in Nat
      BY <2>1, <1>0, LinkInChain DEF TypeOK, Row, Max0
    <2>m. mandates' \in [Mandates -> Row]
      BY <2>2, <1>12, <1>0, ReservedUpdate DEF UnreserveWrite, TypeOK
    <2>t. TypeOK'
      BY <2>m, <1>12, <1>0, <1>b, <1>c, <1>d DEF TypeOK, UnreserveWrite, AfterUnreserve
    <2>p. Positions(p)'
      BY <1>12, <1>0, <1>a, <1>f DEF TypeOK, Positions, Reserving, Unreserving, Settling, Reserved, UnreserveWrite, AfterUnreserve
    <2>a. Approved(p)'
      BY <1>12, <1>0, <1>a, <1>e, <1>f DEF TypeOK, Positions, Approved, Reserving, Unreserving, Settling, Reserved, UnreserveWrite, AfterUnreserve
    <2> QED
      BY <2>t, <2>p, <2>a
  <1>13. CASE Charge(p)
    <2>t. TypeOK'
      BY <1>13, <1>0, <1>b, <1>c, <1>d DEF TypeOK, Charge
    <2>p. Positions(p)'
      BY <1>13, <1>0, <1>a, <1>f DEF TypeOK, Positions, Reserving, Unreserving, Settling, Reserved, Charge
    <2>a. Approved(p)'
      BY <1>13, <1>0, <1>a, <1>e, <1>f DEF TypeOK, Positions, Approved, Reserving, Unreserving, Settling, Reserved, Charge
    <2> QED
      BY <2>t, <2>p, <2>a
  <1>14. CASE Checkout(p)
    <2>t. TypeOK'
      BY <1>14, <1>0, <1>b, <1>c, <1>d DEF TypeOK, Checkout, Unreserve, AfterUnreserve
    <2>p. Positions(p)'
      BY <1>14, <1>0, <1>a, <1>f DEF TypeOK, Positions, Reserving, Unreserving, Settling, Reserved, Checkout, Unreserve, AfterUnreserve
    <2>a. Approved(p)'
      BY <1>14, <1>0, <1>a, <1>e, <1>f DEF TypeOK, Positions, Approved, Reserving, Unreserving, Settling, Reserved, Checkout, Unreserve, AfterUnreserve
    <2> QED
      BY <2>t, <2>p, <2>a
  <1>15. CASE RailCheck(p)
    <2>t. TypeOK'
      BY <1>15, <1>0, <1>b, <1>c, <1>d DEF TypeOK, RailCheck, Unreserve, AfterUnreserve
    <2>p. Positions(p)'
      BY <1>15, <1>0, <1>a, <1>f DEF TypeOK, Positions, Reserving, Unreserving, Settling, Reserved, RailCheck, Unreserve, AfterUnreserve
    <2>a. Approved(p)'
      BY <1>15, <1>0, <1>a, <1>e, <1>f DEF TypeOK, Positions, Approved, Reserving, Unreserving, Settling, Reserved, RailCheck, Unreserve, AfterUnreserve
    <2> QED
      BY <2>t, <2>p, <2>a
  <1>16. CASE RailCapture(p)
    <2>t. TypeOK'
      BY <1>16, <1>0, <1>b, <1>c, <1>d DEF TypeOK, RailCapture
    <2>p. Positions(p)'
      BY <1>16, <1>0, <1>a, <1>f DEF TypeOK, Positions, Reserving, Unreserving, Settling, Reserved, RailCapture
    <2>a. Approved(p)'
      BY <1>16, <1>0, <1>a, <1>e, <1>f DEF TypeOK, Positions, Approved, Reserving, Unreserving, Settling, Reserved, RailCapture
    <2> QED
      BY <2>t, <2>p, <2>a
  <1>17. ASSUME NEW answer \in {"paid", "refused", "lost"}, RemotePay(p, answer)
        PROVE  TypeOK' /\ Positions(p)' /\ Approved(p)'
    <2>t. TypeOK'
      BY <1>17, <1>0, <1>b, <1>c, <1>d DEF TypeOK, RemotePay, Unreserve, AfterUnreserve
    <2>p. Positions(p)'
      BY <1>17, <1>0, <1>a, <1>f DEF TypeOK, Positions, Reserving, Unreserving, Settling, Reserved, RemotePay, Unreserve, AfterUnreserve
    <2>a. Approved(p)'
      BY <1>17, <1>0, <1>a, <1>e, <1>f DEF TypeOK, Positions, Approved, Reserving, Unreserving, Settling, Reserved, RemotePay, Unreserve, AfterUnreserve
    <2> QED
      BY <2>t, <2>p, <2>a
  <1>18. CASE SettleRead(p)
    <2>1. walk[p] \in 1..Length(p)
      BY <1>18, <1>0, <1>a, <1>f DEF SettleRead, Positions, Settling
    <2>m. mandates[Link(p, walk[p])] \in Row
      BY <2>1, <1>0, LinkInChain DEF TypeOK
    <2>t. TypeOK'
      BY <2>m, <1>18, <1>0, <1>b, <1>c, <1>d DEF TypeOK, SettleRead
    <2>p. Positions(p)'
      BY <1>18, <1>0, <1>a, <1>f DEF TypeOK, Positions, Reserving, Unreserving, Settling, Reserved, SettleRead
    <2>a. Approved(p)'
      BY <1>18, <1>0, <1>a, <1>e, <1>f DEF TypeOK, Positions, Approved, Reserving, Unreserving, Settling, Reserved, SettleRead
    <2> QED
      BY <2>t, <2>p, <2>a
  <1>19. CASE SettleWrite(p)
    <2>m. mandates' \in [Mandates -> Row]
      BY <1>19, <1>0, SettleUpdate DEF SettleWrite, Positions, Settling
    <2>t. TypeOK'
      BY <2>m, <1>19, <1>0, <1>b, <1>c, <1>d DEF TypeOK, SettleWrite
    <2>p. Positions(p)'
      BY <1>19, <1>0, <1>a, <1>f DEF TypeOK, Positions, Reserving, Unreserving, Settling, Reserved, SettleWrite
    <2>a. Approved(p)'
      BY <1>19, <1>0, <1>a, <1>e, <1>f DEF TypeOK, Positions, Approved, Reserving, Unreserving, Settling, Reserved, SettleWrite
    <2> QED
      BY <2>t, <2>p, <2>a
  <1> QED
    BY <1>1, <1>2, <1>3, <1>4, <1>5, <1>6, <1>7, <1>8, <1>9, <1>10,
       <1>11, <1>12, <1>13, <1>14, <1>15, <1>16, <1>17, <1>18, <1>19 DEF Step
(* Types, positions and what the gate established are inductive. *)
LEMMA TypeStep == TypeInv /\ [Next]_vars => TypeInv'
  <1> SUFFICES ASSUME TypeInv, [Next]_vars PROVE TypeInv'
    OBVIOUS
  <1>1. CASE Environment
    BY <1>1, EnvironmentType
  <1>2. ASSUME NEW p \in Purchases, Submit(p) \/ Step(p) \/ Crash(p) PROVE TypeInv'
    <2>1. TypeOK' /\ Positions(p)' /\ Approved(p)'
      BY <1>2, CallType
    <2>2. OthersStay(p)
      BY <1>2, FrameLemma DEF TypeInv
    <2>3. ASSUME NEW q \in Purchases, q # p PROVE Positions(q)' /\ Approved(q)'
      BY <2>2, <2>3 DEF TypeInv, OthersStay, Positions, Approved, GatePassed, Length
    <2> QED
      BY <2>1, <2>3 DEF TypeInv
  <1>3. CASE UNCHANGED vars
    <2>1. TypeOK'
      BY <1>3 DEF TypeInv, TypeOK, vars, rows, calls
    <2>2. ASSUME NEW p \in Purchases PROVE (Positions(p) /\ Approved(p))'
      BY <1>3 DEF TypeInv, Positions, Approved, GatePassed, Length, vars, rows, calls
    <2> QED
      BY <2>1, <2>2 DEF TypeInv
  <1> QED
    BY <1>1, <1>2, <1>3 DEF Next

LEMMA TypeInvariant == Spec => []TypeInv
  BY TypeInit, TypeStep, PTL DEF Spec

(* The money columns stay natural numbers whatever concurrent writers do:   *)
(* _unreserve and settle floor their subtraction at zero (kernel.py).       *)
THEOREM TypeCorrect == Spec => []TypeOK
  <1>1. TypeInv => TypeOK
    BY DEF TypeInv
  <1> QED
    BY <1>1, TypeInvariant, PTL

(* S2, H4: for any number of concurrent calls, processes dying anywhere, and *)
(* any chain of derived mandates, money moves only for a call the gate       *)
(* approved and that reserved on its mandate and on every ancestor.          *)
THEOREM MoneyHasOnePath == Spec => []OnePathToMoney
  <1>1. TypeInv => OnePathToMoney
    BY DEF TypeInv, TypeOK, Approved, GatePassed, OnePathToMoney
  <1> QED
    BY <1>1, TypeInvariant, PTL

----------------------------------------------------------------------------
(* M8: after revocation deleted the token (rail.delete_token), no statement *)
(* of any call, in any interleaving, leads a call the rail had not let      *)
(* through to a capture; re-issuing on the token does not revive it either. *)
THEOREM RevocationHolds == Spec => RevocationBites
  <1> DEFINE Bites == \A p \in Purchases : Barred(p) => Barred(p)'
  <1>1. TypeInv /\ [Next]_vars => [Bites]_vars
    <2> SUFFICES ASSUME TypeInv, Next, NEW p \in Purchases, Barred(p)
                 PROVE  Barred(p)'
      BY DEF Bites
    <2>0. TypeOK /\ Positions(p)
      BY DEF TypeInv
    <2>a. /\ Instrument[mandate[p]] \in Instruments
          /\ Instrument \in [Mandates -> Instruments]
      BY <2>0, NameAssumption DEF TypeOK
    <2>1. CASE Environment
      <3>1. UNCHANGED <<paid, pc, mandate, offer>>
        BY <2>1 DEF Environment, Issue, RevokeRow, RevokeToken, Suspend, Reactivate,
                    EndOfValidity, SetPrice, calls
      <3>2. instruments'[Instrument[mandate[p]]] = "deleted"
        BY <2>1, <2>a, <2>0 DEF Environment, Issue, RevokeRow, RevokeToken, Suspend,
              Reactivate, EndOfValidity, SetPrice, Barred, TypeOK
      <3> QED
        BY <3>1, <3>2 DEF Barred
    <2>2. ASSUME NEW q \in Purchases, Submit(q) \/ Step(q) \/ Crash(q)
          PROVE  Barred(p)'
      <3>1. OthersStay(q)
        BY <2>2, <2>0, FrameLemma
      <3>2. instruments' = instruments
        BY <2>2 DEF Step, Submit, Crash, VerifyRead, VerifyAncestor, VerifyExpired,
             VerifyGate, Refuse, Escalate, Return, ReserveRead, ReserveWrite,
             ReserveLost, UnreserveRead, UnreserveWrite, Charge, Checkout, RailCheck,
             RailCapture, RemotePay, SettleRead, SettleWrite, Capture, Compensate, rows
      <3>3. CASE q # p
        BY <3>1, <3>2, <3>3 DEF OthersStay, Barred
      <3>4. CASE q = p
        <4>1. pc'[p] # "rail_capture"
          BY <2>2, <2>0, <3>4 DEF Step, Submit, Crash, VerifyRead, VerifyAncestor,
               VerifyExpired, VerifyGate, Refuse, Escalate, Return, ReserveRead,
               ReserveWrite, ReserveLost, UnreserveRead, UnreserveWrite, Charge,
               Checkout, RailCheck, RailCapture, RemotePay, SettleRead, SettleWrite,
               Capture, Compensate, Unreserve, AfterUnreserve, Goto, At, Barred, TypeOK
        <4>2. p \notin paid'
          BY <2>2, <2>0, <3>4 DEF Step, Submit, Crash, VerifyRead, VerifyAncestor,
               VerifyExpired, VerifyGate, Refuse, Escalate, Return, ReserveRead,
               ReserveWrite, ReserveLost, UnreserveRead, UnreserveWrite, Charge,
               Checkout, RailCheck, RailCapture, RemotePay, SettleRead, SettleWrite,
               Capture, Compensate, At, Barred, Positions
        <4> QED
          BY <4>1, <4>2, <3>1, <3>2 DEF OthersStay, Barred
      <3> QED
        BY <3>3, <3>4
    <2> QED
      BY <2>1, <2>2 DEF Next
  <1>2. [][Bites]_vars => RevocationBites
    BY DEF RevocationBites
  <1> QED
    BY <1>1, <1>2, TypeInvariant, PTL DEF Spec

----------------------------------------------------------------------------
(* One call in flight at a time *)

(* What a step may do to the money columns. *)
MoneySame ==
  \A n \in Mandates : /\ mandates'[n].reserved = mandates[n].reserved
                      /\ mandates'[n].spent = mandates[n].spent

OthersSame(m) ==
  \A n \in Mandates : n # m => /\ mandates'[n].reserved = mandates[n].reserved
                               /\ mandates'[n].spent = mandates[n].spent

Reserves(m, a) ==
  /\ mandates[m].reserved + mandates[m].spent + a <= Budget[m]
  /\ mandates'[m].reserved = mandates[m].reserved + a
  /\ mandates'[m].spent = mandates[m].spent
  /\ OthersSame(m)

Releases(m, a) ==
  /\ a <= mandates[m].reserved
  /\ mandates'[m].reserved = mandates[m].reserved - a
  /\ mandates'[m].spent = mandates[m].spent
  /\ OthersSame(m)

Settles(m, a) ==
  /\ a <= mandates[m].reserved
  /\ mandates'[m].reserved = mandates[m].reserved - a
  /\ mandates'[m].spent = mandates[m].spent + a
  /\ OthersSame(m)

MoneyMoves ==
  \/ MoneySame
  \/ \E m \in Mandates, a \in Prices : Reserves(m, a) \/ Releases(m, a) \/ Settles(m, a)

(* Every statement that is not one of the three money writes. *)
QuietStep(p) ==
  \/ VerifyRead(p) \/ VerifyAncestor(p) \/ VerifyExpired(p) \/ VerifyGate(p)
  \/ Refuse(p) \/ Escalate(p) \/ ReserveRead(p) \/ ReserveLost(p) \/ UnreserveRead(p)
  \/ Charge(p) \/ Checkout(p) \/ RailCheck(p) \/ RailCapture(p)
  \/ \E answer \in {"paid", "refused", "lost"} : RemotePay(p, answer)
  \/ SettleRead(p) \/ Capture(p) \/ Compensate(p)

(* A quiet statement moves no money, adds no hold, and leaves a snapshot    *)
(* that is current for the write that follows it.                           *)
LEMMA QuietMoney ==
  ASSUME TypeInv, NEW p \in Purchases, Submit(p) \/ QuietStep(p) \/ Crash(p)
  PROVE  MoneySame
  <1>0. TypeOK
    BY DEF TypeInv
  <1>1. CASE VerifyExpired(p)
    BY <1>1, <1>0, StatusUpdate DEF VerifyExpired, MandateStatus, MoneySame, TypeOK
  <1>2. CASE ~VerifyExpired(p)
    <2>1. mandates' = mandates
      BY <1>2 DEF QuietStep, Submit, Crash, VerifyRead, VerifyAncestor, VerifyGate,
             Refuse, Escalate, Return, ReserveRead, ReserveLost, UnreserveRead,
             Charge, Checkout, RailCheck, RailCapture, RemotePay, SettleRead,
             Capture, Compensate, rows
    <2> QED
      BY <2>1 DEF MoneySame
  <1> QED
    BY <1>1, <1>2

LEMMA QuietHolds ==
  ASSUME TypeInv, NEW p \in Purchases, Submit(p) \/ QuietStep(p) \/ Crash(p)
  PROVE  Holding(p)' = Holding(p)
  <1>0. TypeOK /\ Positions(p)
    BY DEF TypeInv
  <1>a. Length(p) \in Nat /\ top[p] \in Nat /\ walk[p] \in Nat /\ walk[p] >= 1
    BY <1>0, ChainAssumption DEF Length, TypeOK
  <1> USE DEF Holding, Reserving, Reserved, Unreserving, Settling, Goto, At, calls
  <1>b. top' = top
    BY DEF QuietStep, Submit, Crash, VerifyRead, VerifyAncestor, VerifyExpired, VerifyGate,
           Refuse, Escalate, Return, ReserveRead, ReserveLost, UnreserveRead, Charge,
           Checkout, RailCheck, RailCapture, RemotePay, SettleRead, Capture, Compensate
  <1>c. pc \in [Purchases -> PC] /\ walk \in [Purchases -> Nat \ {0}]
    BY <1>0 DEF TypeOK
  <1>1. CASE top[p] = 0
    BY <1>1, <1>b
  <1>2. CASE Submit(p) \/ VerifyRead(p) \/ VerifyAncestor(p) \/ VerifyExpired(p)
             \/ VerifyGate(p) \/ Escalate(p)
    <2>1. top[p] = 0
      BY <1>2, <1>0 DEF Submit, VerifyRead, VerifyAncestor, VerifyExpired, VerifyGate,
                        Escalate, Positions
    <2> QED
      BY <2>1, <1>1
  <1>3. CASE Refuse(p) \/ Capture(p) \/ Compensate(p)
    BY <1>3, <1>b, <1>c DEF Refuse, Capture, Compensate, Return
  <1>4. CASE ReserveRead(p)
    BY <1>4, <1>a, <1>b, <1>c DEF ReserveRead, Unreserve, AfterUnreserve
  <1>5. CASE ReserveLost(p)
    BY <1>5, <1>a, <1>b, <1>c DEF ReserveLost, Unreserve, AfterUnreserve
  <1>6. CASE UnreserveRead(p) \/ SettleRead(p)
    BY <1>6, <1>a, <1>b, <1>c DEF UnreserveRead, SettleRead
  <1>7. CASE Charge(p)
    BY <1>7, <1>a, <1>b, <1>c DEF Charge
  <1>8. CASE Checkout(p)
    BY <1>8, <1>a, <1>b, <1>c DEF Checkout, Unreserve, AfterUnreserve
  <1>9. CASE RailCheck(p) \/ RailCapture(p)
    BY <1>9, <1>a, <1>b, <1>c DEF RailCheck, RailCapture, Unreserve, AfterUnreserve
  <1>10. CASE \E answer \in {"paid", "refused", "lost"} : RemotePay(p, answer)
    BY <1>10, <1>a, <1>b, <1>c DEF RemotePay, Unreserve, AfterUnreserve
  <1>11. CASE Crash(p)
    BY <1>11 DEF Crash
  <1> QED
    BY <1>1, <1>2, <1>3, <1>4, <1>5, <1>6, <1>7, <1>8, <1>9, <1>10, <1>11 DEF QuietStep

LEMMA QuietSnapshot ==
  ASSUME TypeInv, NEW p \in Purchases, Submit(p) \/ QuietStep(p)
  PROVE  CurrentSnapshot(p)'
  <1>0. TypeOK /\ Positions(p)
    BY DEF TypeInv
  <1>a. mandate' = mandate
    BY <1>0, FrameLemma DEF OthersStay, QuietStep, Step
  <1>c. pc \in [Purchases -> PC] /\ snap \in [Purchases -> Row]
    BY <1>0 DEF TypeOK
  <1> USE DEF CurrentSnapshot, At, Goto, calls, rows
  <1>1. CASE ReserveRead(p)
    <2>1. /\ mandates' = mandates /\ top' = top /\ amount' = amount
          /\ snap'[p] = mandates[Link(p, top[p] + 1)]
          /\ pc'[p] \in {"reserve_write", "unreserve_read", "compensate", "refused"}
          /\ pc'[p] = "reserve_write" =>
               mandates[Link(p, top[p] + 1)].spent + mandates[Link(p, top[p] + 1)].reserved
                 + amount[p] <= Budget[Link(p, top[p] + 1)]
      BY <1>1, <1>c DEF ReserveRead, Unreserve, AfterUnreserve
    <2> QED
      BY <2>1, <1>a DEF Link
  <1>2. CASE UnreserveRead(p)
    BY <1>2, <1>a, <1>c DEF UnreserveRead, Link
  <1>3. CASE SettleRead(p)
    BY <1>3, <1>a, <1>c DEF SettleRead, Link
  <1>4. CASE ~ReserveRead(p) /\ ~UnreserveRead(p) /\ ~SettleRead(p)
    <2>1. pc'[p] \notin {"reserve_write", "unreserve_write", "settle_write"}
      BY <1>4, <1>c DEF QuietStep, Submit, VerifyRead, VerifyAncestor, VerifyExpired,
           VerifyGate, Refuse, Escalate, Return, ReserveLost, Charge, Checkout,
           RailCheck, RailCapture, RemotePay, Capture, Compensate, Unreserve,
           AfterUnreserve
    <2> QED
      BY <2>1
  <1> QED
    BY <1>1, <1>2, <1>3, <1>4

(* The three money writes.  The rows of a chain are distinct, so the write  *)
(* of one leaves the call's holds on the others alone.                      *)
LEMMA LinksDistinct ==
  ASSUME TypeOK, NEW p \in Purchases, NEW j \in 1..Length(p), NEW k \in 1..Length(p),
         j # k
  PROVE  Link(p, j) # Link(p, k)
  <1>1. mandate[p] \in Mandates
    BY DEF TypeOK
  <1> QED
    BY <1>1, ChainAssumption DEF Link, Length

(* Each money write moves the call's holds by the one row it writes. *)
LEMMA ReserveWriteRows ==
  ASSUME TypeInv, NEW p \in Purchases, ReserveWrite(p)
  PROVE  /\ Holding(p)' = Holding(p) \cup {top[p] + 1}
         /\ top[p] + 1 \in 1..Length(p) /\ top[p] + 1 \notin Holding(p)
         /\ Link(p, top[p] + 1) \in Mandates /\ amount[p] \in Prices
  <1>0. TypeOK /\ Positions(p)
    BY DEF TypeInv
  <1>1. Length(p) \in Nat /\ top[p] \in Nat /\ mandate[p] \in Mandates
    BY <1>0, ChainAssumption DEF Length, TypeOK
  <1>2. pc[p] = "reserve_write" /\ top[p] < Length(p) /\ amount[p] \in Prices
    BY <1>0 DEF ReserveWrite, At, Positions, Reserving
  <1>3. top'[p] = top[p] + 1 /\ pc'[p] \in Reserving \cup Reserved
    BY <1>0 DEF ReserveWrite, Goto, TypeOK, Reserving, Reserved
  <1>4. Holding(p) = 1..top[p] /\ Holding(p)' = 1..(top[p] + 1)
    BY <1>2, <1>3 DEF Holding, Reserving
  <1>5. top[p] + 1 \in 1..Length(p)
    BY <1>1, <1>2
  <1>6. Link(p, top[p] + 1) \in Mandates
    BY <1>5, <1>0, LinkInChain DEF TypeOK
  <1> QED
    BY <1>1, <1>2, <1>4, <1>5, <1>6

LEMMA UnreserveWriteRows ==
  ASSUME TypeInv, NEW p \in Purchases, UnreserveWrite(p)
  PROVE  /\ Holding(p)' = Holding(p) \ {walk[p]}
         /\ walk[p] \in 1..Length(p) /\ walk[p] \in Holding(p)
         /\ Link(p, walk[p]) \in Mandates /\ amount[p] \in Prices
  <1>0. TypeOK /\ Positions(p)
    BY DEF TypeInv
  <1>1. /\ Length(p) \in Nat /\ top[p] \in Nat /\ walk[p] \in Nat /\ walk[p] >= 1
        /\ mandate[p] \in Mandates
    BY <1>0, ChainAssumption DEF Length, TypeOK
  <1>2. /\ pc[p] = "unreserve_write" /\ walk[p] <= top[p] /\ top[p] <= Length(p)
        /\ amount[p] \in Prices
    BY <1>0 DEF UnreserveWrite, At, Positions, Unreserving
  <1>3. /\ top'[p] = top[p] /\ walk'[p] = walk[p] + 1
        /\ \/ walk[p] = top[p] /\ pc'[p] \in {"compensate", "refused"}
           \/ walk[p] # top[p] /\ pc'[p] = "unreserve_read"
    BY <1>0 DEF UnreserveWrite, Goto, TypeOK, AfterUnreserve
  <1>4. Holding(p) = walk[p]..top[p]
    BY <1>1, <1>2 DEF Holding, Reserving, Reserved, Unreserving
  <1>5. Holding(p)' = (walk[p] + 1)..top[p]
    BY <1>1, <1>2, <1>3 DEF Holding, Reserving, Reserved, Unreserving, Settling
  <1>6. walk[p] \in 1..Length(p)
    BY <1>1, <1>2
  <1>7. Link(p, walk[p]) \in Mandates
    BY <1>6, <1>0, LinkInChain DEF TypeOK
  <1> QED
    BY <1>1, <1>2, <1>4, <1>5, <1>6, <1>7

LEMMA SettleWriteRows ==
  ASSUME TypeInv, NEW p \in Purchases, SettleWrite(p)
  PROVE  /\ Holding(p)' = Holding(p) \ {walk[p]}
         /\ walk[p] \in 1..Length(p) /\ walk[p] \in Holding(p)
         /\ PaidFirst(p) => /\ Settled(p)' = Settled(p) \cup {walk[p]}
                            /\ walk[p] \notin Settled(p)
         /\ Link(p, walk[p]) \in Mandates /\ amount[p] \in Prices
  <1>0. TypeOK /\ Positions(p)
    BY DEF TypeInv
  <1>1. /\ Length(p) \in Nat /\ top[p] \in Nat /\ walk[p] \in Nat /\ walk[p] >= 1
        /\ mandate[p] \in Mandates
    BY <1>0, ChainAssumption DEF Length, TypeOK
  <1>2. /\ pc[p] = "settle_write" /\ walk[p] <= top[p] /\ top[p] = Length(p)
        /\ amount[p] \in Prices
    BY <1>0 DEF SettleWrite, At, Positions, Settling
  <1>3. /\ top'[p] = top[p] /\ walk'[p] = walk[p] + 1 /\ Length(p)' = Length(p)
        /\ purchases' = purchases
        /\ \/ walk[p] = Length(p) /\ pc'[p] = "capture"
           \/ walk[p] # Length(p) /\ pc'[p] = "settle_read"
    BY <1>0 DEF SettleWrite, Goto, TypeOK, calls, Length
  <1>4. Holding(p) = walk[p]..top[p]
    BY <1>1, <1>2 DEF Holding, Reserving, Reserved, Unreserving, Settling
  <1>5. Holding(p)' = (walk[p] + 1)..top[p]
    BY <1>1, <1>2, <1>3 DEF Holding, Reserving, Reserved, Unreserving, Settling
  <1>6. walk[p] \in 1..Length(p)
    BY <1>1, <1>2
  <1>7. Link(p, walk[p]) \in Mandates
    BY <1>6, <1>0, LinkInChain DEF TypeOK
  <1>8. ASSUME PaidFirst(p)
        PROVE  Settled(p)' = Settled(p) \cup {walk[p]} /\ walk[p] \notin Settled(p)
    <2>1. purchases[p] # "captured"
      BY <1>8, <1>2 DEF PaidFirst
    <2>2. Settled(p) = 1..(walk[p] - 1)
      BY <2>1, <1>1, <1>2 DEF Settled, Settling
    <2>3. Settled(p)' = 1..walk[p]
      BY <2>1, <1>1, <1>2, <1>3 DEF Settled, Settling
    <2> QED
      BY <2>2, <2>3, <1>1
  <1> QED
    BY <1>1, <1>2, <1>4, <1>5, <1>6, <1>7, <1>8

LEMMA ReserveWriteSerial ==
  ASSUME TypeInv, NEW p \in Purchases, ReserveWrite(p),
         CurrentSnapshot(p), HoldsCovered(p)
  PROVE  /\ Reserves(Link(p, top[p] + 1), amount[p])
         /\ CurrentSnapshot(p)' /\ HoldsCovered(p)'
  <1> DEFINE m == Link(p, top[p] + 1)
  <1>0. TypeOK /\ Positions(p)
    BY DEF TypeInv
  <1>1. /\ pc[p] = "reserve_write" /\ alive[p]
        /\ mandates[m] = snap[p]
        /\ mandate' = mandate /\ amount' = amount /\ alive' = alive
        /\ top' = [top EXCEPT ![p] = @ + 1]
        /\ SetReserved(m, snap[p].reserved + amount[p])
    BY DEF ReserveWrite, At, calls
  <1>2. top[p] \in Nat /\ Length(p) \in Nat /\ top[p] + 1 \in 1..Length(p)
    <2>1. top[p] \in Nat /\ mandate[p] \in Mandates
      BY <1>0 DEF TypeOK
    <2>2. Length(p) \in Nat
      BY <2>1, ChainAssumption DEF Length
    <2> QED
      BY <2>1, <2>2, <1>0, <1>1 DEF Positions, Reserving
  <1>3. m \in Mandates /\ amount[p] \in Prices /\ amount[p] \in Nat
    BY <1>0, <1>1, <1>2, LinkInChain DEF TypeOK, Positions
  <1>4. /\ mandates[m] \in Row /\ mandates[m].reserved \in Nat /\ mandates[m].spent \in Nat
        /\ Budget[m] \in Nat
    BY <1>0, <1>3, LimitAssumption DEF TypeOK, Row
  <1>5. mandates[m].spent + mandates[m].reserved + amount[p] <= Budget[m]
    BY <1>1 DEF CurrentSnapshot, At
  <1>6. /\ mandates'[m].reserved = mandates[m].reserved + amount[p]
        /\ \A n \in Mandates :
             /\ n # m => mandates'[n].reserved = mandates[n].reserved
             /\ mandates'[n].spent = mandates[n].spent
    BY <1>0, <1>1, <1>3, <1>4, ReservedUpdate DEF TypeOK
  <1>7. Reserves(m, amount[p])
    BY <1>3, <1>4, <1>5, <1>6 DEF Reserves, OthersSame
  <1>8. CurrentSnapshot(p)'
    BY <1>0 DEF ReserveWrite, CurrentSnapshot, At, Goto, TypeOK
  <1>9. HoldsCovered(p)'
    <2> SUFFICES ASSUME NEW k \in Holding(p)'
                 PROVE  amount[p] <= mandates'[Link(p, k)].reserved
      BY <1>1 DEF HoldsCovered, Link
    <2>1. k \in 1..(top[p] + 1)
      BY <1>0, <1>1, <1>2 DEF Holding, TypeOK
    <2>2. CASE k = top[p] + 1
      BY <2>2, <1>3, <1>4, <1>6
    <2>3. CASE k # top[p] + 1
      <3>1. k \in 1..top[p] /\ k \in 1..Length(p)
        BY <2>1, <2>3, <1>2
      <3>2. k \in Holding(p) /\ InFlight(p)
        BY <3>1, <1>1 DEF Holding, Reserving, InFlight
      <3>3. amount[p] <= mandates[Link(p, k)].reserved
        BY <3>2 DEF HoldsCovered
      <3>4. Link(p, k) \in Mandates /\ Link(p, k) # m
        BY <3>1, <1>0, <1>2, <2>3, LinkInChain, LinksDistinct DEF TypeOK
      <3> QED
        BY <3>3, <3>4, <1>6
    <2> QED
      BY <2>2, <2>3
  <1> QED
    BY <1>7, <1>8, <1>9

(* Both loops that give a hold up visit row walk[p]; the rows after it      *)
(* still hold the amount.                                                   *)
LEMMA LoopHold ==
  ASSUME TypeInv, NEW p \in Purchases, InFlight(p), HoldsCovered(p),
         pc[p] \in Unreserving \cup Settling
  PROVE  /\ walk[p] \in 1..Length(p) /\ walk[p] \in 1..top[p] /\ top[p] <= Length(p)
         /\ Link(p, walk[p]) \in Mandates
         /\ amount[p] \in Prices
         /\ amount[p] <= mandates[Link(p, walk[p])].reserved
         /\ \A k \in (walk[p] + 1)..top[p] :
              /\ Link(p, k) \in Mandates
              /\ Link(p, k) # Link(p, walk[p])
              /\ amount[p] <= mandates[Link(p, k)].reserved
  <1>0. TypeOK /\ Positions(p)
    BY DEF TypeInv
  <1>1. /\ top[p] \in Nat /\ walk[p] \in Nat /\ walk[p] >= 1
        /\ Length(p) \in Nat
    BY <1>0, ChainAssumption DEF TypeOK, Length
  <1>2. walk[p] <= top[p] /\ top[p] <= Length(p) /\ amount[p] \in Prices
    BY <1>0, <1>1 DEF Positions, Unreserving, Settling
  <1>3. walk[p] \in 1..Length(p) /\ walk[p] \in 1..top[p]
    BY <1>1, <1>2
  <1>4. \A k \in walk[p]..top[p] : k \in Holding(p) /\ k \in 1..Length(p)
    BY <1>1, <1>2 DEF Holding
  <1>5. \A k \in walk[p]..top[p] :
          Link(p, k) \in Mandates /\ amount[p] <= mandates[Link(p, k)].reserved
    BY <1>4, <1>0, LinkInChain DEF HoldsCovered, TypeOK
  <1>6. \A k \in (walk[p] + 1)..top[p] : Link(p, k) # Link(p, walk[p])
    <2> TAKE k \in (walk[p] + 1)..top[p]
    <2>1. k \in 1..Length(p) /\ k # walk[p]
      BY <1>1, <1>2
    <2> QED
      BY <2>1, <1>3, <1>0, LinksDistinct
  <1>7. /\ walk[p] \in walk[p]..top[p]
        /\ \A k \in (walk[p] + 1)..top[p] : k \in walk[p]..top[p]
    BY <1>1, <1>2
  <1> QED
    BY <1>2, <1>3, <1>5, <1>6, <1>7

LEMMA UnreserveWriteSerial ==
  ASSUME TypeInv, NEW p \in Purchases, UnreserveWrite(p),
         CurrentSnapshot(p), HoldsCovered(p)
  PROVE  /\ Releases(Link(p, walk[p]), amount[p])
         /\ CurrentSnapshot(p)' /\ HoldsCovered(p)'
  <1> DEFINE m == Link(p, walk[p])
  <1>0. TypeOK
    BY DEF TypeInv
  <1>1. /\ pc[p] = "unreserve_write" /\ alive[p] /\ InFlight(p)
        /\ mandate' = mandate /\ amount' = amount /\ alive' = alive /\ top' = top
        /\ walk'[p] = walk[p] + 1
        /\ pc'[p] \in {"unreserve_read", "compensate", "refused"}
        /\ SetReserved(m, Max0(snap[p].reserved - amount[p]))
    BY <1>0 DEF UnreserveWrite, At, Goto, calls, InFlight, AfterUnreserve, TypeOK
  <1>2. /\ m \in Mandates /\ amount[p] \in Prices /\ top[p] <= Length(p)
        /\ amount[p] <= mandates[m].reserved
        /\ \A k \in (walk[p] + 1)..top[p] :
              /\ Link(p, k) \in Mandates
              /\ Link(p, k) # m
              /\ amount[p] <= mandates[Link(p, k)].reserved
    BY <1>1, LoopHold DEF Unreserving
  <1>3. /\ mandates[m].reserved \in Nat /\ mandates[m].spent \in Nat /\ amount[p] \in Nat
        /\ walk[p] \in Nat /\ walk[p] >= 1 /\ top[p] \in Nat
    BY <1>0, <1>2 DEF TypeOK, Row
  <1>4. snap[p].reserved = mandates[m].reserved
    BY <1>1 DEF CurrentSnapshot, At
  <1>5. Max0(snap[p].reserved - amount[p]) = mandates[m].reserved - amount[p]
    BY <1>2, <1>3, <1>4 DEF Max0
  <1>6. /\ mandates'[m].reserved = mandates[m].reserved - amount[p]
        /\ \A n \in Mandates :
             /\ n # m => mandates'[n].reserved = mandates[n].reserved
             /\ mandates'[n].spent = mandates[n].spent
    <2>1. mandates[m].reserved - amount[p] \in Nat
      BY <1>2, <1>3
    <2> QED
      BY <1>0, <1>1, <1>2, <1>5, <2>1, ReservedUpdate DEF TypeOK
  <1>7. Releases(m, amount[p])
    BY <1>2, <1>6 DEF Releases, OthersSame
  <1>8. CurrentSnapshot(p)'
    BY <1>1 DEF CurrentSnapshot, At
  <1>9. HoldsCovered(p)'
    <2> SUFFICES ASSUME NEW k \in Holding(p)'
                 PROVE  amount[p] <= mandates'[Link(p, k)].reserved
      BY <1>1 DEF HoldsCovered, Link
    <2>1. k \in (walk[p] + 1)..top[p]
      BY <1>1, <1>3 DEF Holding, Reserving, Reserved, Unreserving, Settling
    <2> QED
      BY <2>1, <1>2, <1>6
  <1> QED
    BY <1>7, <1>8, <1>9

LEMMA SettleWriteSerial ==
  ASSUME TypeInv, NEW p \in Purchases, SettleWrite(p),
         CurrentSnapshot(p), HoldsCovered(p)
  PROVE  /\ Settles(Link(p, walk[p]), amount[p])
         /\ CurrentSnapshot(p)' /\ HoldsCovered(p)'
  <1> DEFINE m == Link(p, walk[p])
  <1>0. TypeOK
    BY DEF TypeInv
  <1>1. /\ pc[p] = "settle_write" /\ alive[p] /\ InFlight(p)
        /\ mandate' = mandate /\ amount' = amount /\ alive' = alive /\ top' = top
        /\ walk'[p] = walk[p] + 1
        /\ pc'[p] \in {"settle_read", "capture"}
    BY <1>0 DEF SettleWrite, At, Goto, calls, InFlight, TypeOK
  <1>2. /\ m \in Mandates /\ amount[p] \in Prices /\ walk[p] \in 1..Length(p)
        /\ amount[p] <= mandates[m].reserved
        /\ \A k \in (walk[p] + 1)..top[p] :
              /\ Link(p, k) \in Mandates
              /\ Link(p, k) # m
              /\ amount[p] <= mandates[Link(p, k)].reserved
    BY <1>1, LoopHold DEF Settling
  <1>3. /\ mandates[m].reserved \in Nat /\ mandates[m].spent \in Nat /\ amount[p] \in Nat
        /\ walk[p] \in Nat /\ walk[p] >= 1 /\ top[p] \in Nat
    BY <1>0, <1>2 DEF TypeOK, Row
  <1>4. snap[p].reserved = mandates[m].reserved /\ snap[p].spent = mandates[m].spent
    BY <1>1 DEF CurrentSnapshot, At
  <1>5. Max0(snap[p].reserved - amount[p]) = mandates[m].reserved - amount[p]
    BY <1>2, <1>3, <1>4 DEF Max0
  <1>6. /\ mandates'[m].reserved = mandates[m].reserved - amount[p]
        /\ mandates'[m].spent = mandates[m].spent + amount[p]
        /\ \A n \in Mandates : n # m => mandates'[n] = mandates[n]
    <2>1. walk[p] <= Length(p)
      BY <1>2, <1>3
    <2> QED
      BY <2>1, <1>0, <1>4, <1>5, SettleUpdate
  <1>7. Settles(m, amount[p])
    BY <1>2, <1>6 DEF Settles, OthersSame
  <1>8. CurrentSnapshot(p)'
    BY <1>1 DEF CurrentSnapshot, At
  <1>9. HoldsCovered(p)'
    <2> SUFFICES ASSUME NEW k \in Holding(p)'
                 PROVE  amount[p] <= mandates'[Link(p, k)].reserved
      BY <1>1 DEF HoldsCovered, Link
    <2>1. k \in (walk[p] + 1)..top[p]
      BY <1>1, <1>3 DEF Holding, Reserving, Reserved, Unreserving, Settling
    <2> QED
      BY <2>1, <1>2, <1>6
  <1> QED
    BY <1>7, <1>8, <1>9
(* The serial invariant is inductive. *)
LEMMA SerialInit == Init => SerialInv
  <1> SUFFICES ASSUME Init PROVE SerialInv
    OBVIOUS
  <1>1. \A p \in Purchases : pc[p] = "idle"
    BY DEF Init
  <1>2. OneInFlight /\ \A p \in Purchases : CurrentSnapshot(p) /\ HoldsCovered(p)
    BY <1>1 DEF OneInFlight, CurrentSnapshot, HoldsCovered, InFlight, At
  <1>3. WithinBudget
    BY LimitAssumption DEF Init, NoRow, WithinBudget
  <1> QED
    BY <1>2, <1>3 DEF SerialInv

LEMMA BudgetKept ==
  ASSUME TypeOK, WithinBudget, MoneyMoves
  PROVE  WithinBudget'
  <1>1. \A n \in Mandates : /\ mandates[n].reserved \in Nat /\ mandates[n].spent \in Nat
                            /\ Budget[n] \in Nat
    BY LimitAssumption DEF TypeOK, Row
  <1>2. \A a \in Prices : a \in Nat
    BY LimitAssumption
  <1>3. CASE MoneySame
    BY <1>3 DEF MoneySame, WithinBudget
  <1>4. ASSUME NEW m \in Mandates, NEW a \in Prices,
               Reserves(m, a) \/ Releases(m, a) \/ Settles(m, a)
        PROVE  WithinBudget'
    <2>1. mandates'[m].spent + mandates'[m].reserved <= Budget[m]
      BY <1>1, <1>2, <1>4 DEF WithinBudget, Reserves, Releases, Settles
    <2>2. \A n \in Mandates : n # m => mandates'[n].spent + mandates'[n].reserved <= Budget[n]
      BY <1>4 DEF WithinBudget, Reserves, Releases, Settles, OthersSame
    <2> QED
      BY <2>1, <2>2 DEF WithinBudget
  <1> QED
    BY <1>3, <1>4 DEF MoneyMoves

(* One statement of the only call in flight. *)
LEMMA SerialCall ==
  ASSUME TypeInv, SerialInv, Concurrent = FALSE,
         NEW p \in Purchases, Submit(p) \/ Step(p) \/ Crash(p)
  PROVE  /\ MoneyMoves
         /\ OneInFlight'
         /\ \A q \in Purchases : CurrentSnapshot(q)' /\ HoldsCovered(q)'
  <1>0. TypeOK
    BY DEF TypeInv
  <1>1. OthersStay(p)
    BY <1>0, FrameLemma
  <1>2. \A q \in Purchases : q # p => ~InFlight(q)
    <2>1. CASE Submit(p)
      BY <2>1 DEF Submit
    <2>2. CASE Step(p) \/ Crash(p)
      <3>1. InFlight(p)
        BY <2>2 DEF Step, Crash, VerifyRead, VerifyAncestor, VerifyExpired, VerifyGate,
             Refuse, Escalate, ReserveRead, ReserveWrite, ReserveLost, UnreserveRead,
             UnreserveWrite, Charge, Checkout, RailCheck, RailCapture, RemotePay,
             SettleRead, SettleWrite, Capture, Compensate, At, InFlight
      <3> QED
        BY <3>1 DEF SerialInv, OneInFlight
    <2> QED
      BY <2>1, <2>2
  <1>3. \A q \in Purchases : q # p => ~InFlight(q)'
    BY <1>1, <1>2 DEF OthersStay, InFlight
  <1>4. OneInFlight'
    BY <1>3 DEF OneInFlight
  <1>5. \A q \in Purchases : q # p => CurrentSnapshot(q)' /\ HoldsCovered(q)'
    BY <1>3 DEF CurrentSnapshot, HoldsCovered, InFlight, At
  <1>6. MoneyMoves /\ CurrentSnapshot(p)' /\ HoldsCovered(p)'
    <2>0. CurrentSnapshot(p) /\ HoldsCovered(p)
      BY DEF SerialInv
    <2>1. CASE ReserveWrite(p)
      <3>1. Link(p, top[p] + 1) \in Mandates /\ amount[p] \in Prices
        BY <2>1, ReserveWriteRows
      <3> QED
        BY <3>1, <2>0, <2>1, ReserveWriteSerial DEF MoneyMoves
    <2>2. CASE UnreserveWrite(p)
      <3>1. Link(p, walk[p]) \in Mandates /\ amount[p] \in Prices
        BY <2>2, UnreserveWriteRows
      <3> QED
        BY <3>1, <2>0, <2>2, UnreserveWriteSerial DEF MoneyMoves
    <2>3. CASE SettleWrite(p)
      <3>1. Link(p, walk[p]) \in Mandates /\ amount[p] \in Prices
        BY <2>3, SettleWriteRows
      <3> QED
        BY <3>1, <2>0, <2>3, SettleWriteSerial DEF MoneyMoves
    <2>4. CASE Crash(p)
      <3>1. MoneySame
        BY <2>4, QuietMoney
      <3>2. ~alive'[p]
        BY <2>4, <1>0 DEF Crash, TypeOK
      <3> QED
        BY <3>1, <3>2 DEF MoneyMoves, CurrentSnapshot, HoldsCovered, InFlight, At
    <2>5. CASE Submit(p)
      <3>1. MoneySame /\ CurrentSnapshot(p)'
        BY <2>5, QuietMoney, QuietSnapshot
      <3>2. Holding(p)' = {}
        BY <2>5, <1>0 DEF Submit, Goto, TypeOK, Holding, Reserving, Reserved,
                          Unreserving, Settling
      <3> QED
        BY <3>1, <3>2 DEF MoneyMoves, HoldsCovered
    <2>6. CASE QuietStep(p)
      <3>1. MoneySame /\ CurrentSnapshot(p)' /\ Holding(p)' \subseteq Holding(p)
        BY <2>6, QuietMoney, QuietSnapshot, QuietHolds
      <3>2. amount' = amount /\ alive' = alive /\ InFlight(p)
        BY <2>6 DEF QuietStep, VerifyRead, VerifyAncestor, VerifyExpired, VerifyGate,
             Refuse, Escalate, Return, ReserveRead, ReserveLost, UnreserveRead, Charge,
             Checkout, RailCheck, RailCapture, RemotePay, SettleRead, Capture,
             Compensate, At, InFlight, calls
      <3>3. \A k \in Holding(p) : Link(p, k) \in Mandates
        <4> TAKE k \in Holding(p)
        <4>1. /\ top[p] \in Nat /\ mandate[p] \in Mandates /\ top[p] <= Length(p)
          BY DEF TypeInv, TypeOK, Positions
        <4>2. Length(p) \in Nat
          BY <4>1, ChainAssumption DEF Length
        <4>3. k \in 1..Length(p)
          BY <4>1, <4>2 DEF Holding
        <4> QED
          BY <4>3, <1>0, LinkInChain DEF TypeOK
      <3>4. ASSUME NEW k \in Holding(p)' PROVE amount'[p] <= mandates'[Link(p, k)'].reserved
        <4>1. k \in Holding(p) /\ Link(p, k)' = Link(p, k)
          BY <3>1, <1>1 DEF Link, OthersStay
        <4>2. amount[p] <= mandates[Link(p, k)].reserved
          BY <4>1, <2>0, <3>2 DEF HoldsCovered
        <4> QED
          BY <4>1, <4>2, <3>1, <3>2, <3>3 DEF MoneySame
      <3> QED
        BY <3>1, <3>4 DEF MoneyMoves, HoldsCovered
    <2> QED
      BY <2>1, <2>2, <2>3, <2>4, <2>5, <2>6 DEF Step, QuietStep
  <1> QED
    BY <1>4, <1>5, <1>6

(* The environment writes the status column only. *)
LEMMA EnvironmentMoney ==
  ASSUME TypeOK, Environment
  PROVE  MoneySame
  <1>s. {"active", "suspended", "revoked", "expired"} \subseteq MandateStatus
    BY DEF MandateStatus
  <1>1. CASE \E m \in Mandates : Issue(m)
    BY <1>1, <1>s, StatusUpdate DEF Issue, TypeOK, MoneySame
  <1>2. CASE \E m \in Revocable : RevokeRow(m)
    BY <1>2, <1>s, NameAssumption, StatusUpdate DEF RevokeRow, TypeOK, MoneySame
  <1>3. CASE \E m \in Suspendable : Suspend(m) \/ Reactivate(m)
    BY <1>3, <1>s, NameAssumption, StatusUpdate
       DEF Suspend, Reactivate, TypeOK, MoneySame
  <1>4. CASE mandates' = mandates
    BY <1>4 DEF MoneySame
  <1> QED
    BY <1>1, <1>2, <1>3, <1>4
       DEF Environment, RevokeToken, EndOfValidity, SetPrice

LEMMA SerialEnvironment ==
  ASSUME TypeInv, SerialInv, Environment
  PROVE  /\ MoneySame
         /\ OneInFlight'
         /\ \A q \in Purchases : CurrentSnapshot(q)' /\ HoldsCovered(q)'
  <1>0. TypeOK
    BY DEF TypeInv
  <1>1. UNCHANGED <<pc, alive, mandate, amount, top, walk, snap>>
    BY DEF Environment, Issue, RevokeRow, RevokeToken, Suspend, Reactivate,
           EndOfValidity, SetPrice, calls
  <1>2. MoneySame
    BY <1>0, EnvironmentMoney
  <1>3. OneInFlight'
    BY <1>1 DEF SerialInv, OneInFlight, InFlight
  <1>4. ASSUME NEW q \in Purchases PROVE CurrentSnapshot(q)' /\ HoldsCovered(q)'
    <2>1. mandate[q] \in Mandates /\ top[q] \in Nat /\ walk[q] \in Nat /\ walk[q] >= 1
          /\ Positions(q)
      BY <1>0 DEF TypeOK, TypeInv
    <2>2. Length(q) \in Nat /\ \A k \in 1..Length(q) : Link(q, k) \in Mandates
      BY <2>1, ChainAssumption, SMTT(30) DEF Length, Link
    <2>3. /\ Holding(q)' = Holding(q) /\ InFlight(q)' = InFlight(q)
          /\ \A k : Link(q, k)' = Link(q, k)
      BY <1>1 DEF Holding, InFlight, Link
    <2>4. \A k \in Holding(q) : Link(q, k) \in Mandates
      BY <2>1, <2>2 DEF Holding, Positions
    <2>5. HoldsCovered(q)'
      BY <1>1, <1>2, <2>3, <2>4 DEF SerialInv, HoldsCovered, MoneySame
    <2>6. pc[q] \in {"unreserve_write", "settle_write"} => Link(q, walk[q]) \in Mandates
      BY <2>1, <2>2 DEF Positions, Unreserving, Settling
    <2>7. CurrentSnapshot(q)'
      BY <1>1, <1>2, <2>3, <2>6 DEF SerialInv, CurrentSnapshot, At, MoneySame
    <2> QED
      BY <2>5, <2>7
  <1> QED
    BY <1>2, <1>3, <1>4
LEMMA SerialStep ==
  ASSUME Concurrent = FALSE
  PROVE  TypeInv /\ SerialInv /\ [Next]_vars => SerialInv' /\ MoneyMoves
  <1> SUFFICES ASSUME TypeInv, SerialInv, [Next]_vars PROVE SerialInv' /\ MoneyMoves
    OBVIOUS
  <1>0. TypeOK /\ WithinBudget
    BY DEF TypeInv, SerialInv
  <1>1. CASE Environment
    <2>1. MoneyMoves /\ OneInFlight'
          /\ \A q \in Purchases : CurrentSnapshot(q)' /\ HoldsCovered(q)'
      BY <1>1, SerialEnvironment DEF MoneyMoves
    <2> QED
      BY <2>1, <1>0, BudgetKept DEF SerialInv
  <1>2. ASSUME NEW p \in Purchases, Submit(p) \/ Step(p) \/ Crash(p)
        PROVE  SerialInv' /\ MoneyMoves
    <2>1. MoneyMoves /\ OneInFlight'
          /\ \A q \in Purchases : CurrentSnapshot(q)' /\ HoldsCovered(q)'
      BY <1>2, SerialCall
    <2> QED
      BY <2>1, <1>0, BudgetKept DEF SerialInv
  <1>3. CASE UNCHANGED vars
    <2>1. UNCHANGED <<mandates, pc, alive, mandate, amount, top, walk, snap>>
      BY <1>3 DEF vars, rows, calls
    <2>2. OneInFlight' /\ WithinBudget'
      BY <2>1 DEF SerialInv, OneInFlight, WithinBudget, InFlight
    <2>3. ASSUME NEW q \in Purchases PROVE CurrentSnapshot(q)' /\ HoldsCovered(q)'
      <3>1. CurrentSnapshot(q)'
        BY <2>1 DEF SerialInv, CurrentSnapshot, Link, At
      <3>2. HoldsCovered(q)'
        <4>1. Holding(q)' = Holding(q) /\ InFlight(q)' = InFlight(q)
              /\ \A k : Link(q, k)' = Link(q, k)
          BY <2>1 DEF Holding, InFlight, Link
        <4> QED
          BY <4>1, <2>1 DEF SerialInv, HoldsCovered
      <3> QED
        BY <3>1, <3>2
    <2>4. MoneyMoves
      BY <2>1 DEF MoneyMoves, MoneySame
    <2> QED
      BY <2>2, <2>3, <2>4 DEF SerialInv
  <1> QED
    BY <1>1, <1>2, <1>3 DEF Next

LEMMA SerialInvariant ==
  ASSUME Concurrent = FALSE
  PROVE  Spec => []SerialInv
  <1>1. TypeInv /\ SerialInv /\ [Next]_vars => SerialInv'
    BY SerialStep
  <1> QED
    BY <1>1, SerialInit, TypeInvariant, PTL DEF Spec

(* M2: when calls do not overlap, no sequence of purchases, through any      *)
(* chain of derived mandates, with processes dying anywhere and revocation,  *)
(* suspension and expiry in between, commits more than a budget.  (With      *)
(* overlapping calls it is false: kernel.settle writes a stale row.)         *)
THEOREM BudgetHoldsSerially ==
  ASSUME Concurrent = FALSE
  PROVE  Spec => []WithinBudget
  <1>1. SerialInv => WithinBudget
    BY DEF SerialInv
  <1> QED
    BY <1>1, SerialInvariant, PTL

(* A step that moves money as Reserves, Releases or Settles do is a step of *)
(* the abstract account.                                                    *)
LEMMA MoneyMovesRefines ==
  ASSUME TypeOK, MoneyMoves
  PROVE  [Account!Next]_(Account!vars)
  <1> DEFINE res == [m \in Mandates |-> mandates[m].reserved]
             spe == [m \in Mandates |-> mandates[m].spent]
  <1>1. CASE MoneySame
    <2>1. res' = res /\ spe' = spe
      BY <1>1 DEF MoneySame
    <2> QED
      BY <2>1 DEF Account!vars
  <1>2. ASSUME NEW m \in Mandates, NEW a \in Prices, Reserves(m, a) PROVE Account!Next
    <2>1. res' = [res EXCEPT ![m] = @ + a] /\ spe' = spe
      BY <1>2 DEF Reserves, OthersSame
    <2>2. res[m] + spe[m] + a <= Budget[m]
      BY <1>2 DEF Reserves
    <2>3. Account!Reserve(m, a)
      BY <2>1, <2>2 DEF Account!Reserve
    <2> QED
      BY <2>3 DEF Account!Next
  <1>3. ASSUME NEW m \in Mandates, NEW a \in Prices, Releases(m, a) PROVE Account!Next
    <2>1. res' = [res EXCEPT ![m] = @ - a] /\ spe' = spe
      BY <1>3 DEF Releases, OthersSame
    <2>2. a <= res[m]
      BY <1>3 DEF Releases
    <2>3. Account!Release(m, a)
      BY <2>1, <2>2 DEF Account!Release
    <2> QED
      BY <2>3 DEF Account!Next
  <1>4. ASSUME NEW m \in Mandates, NEW a \in Prices, Settles(m, a) PROVE Account!Next
    <2>1. res' = [res EXCEPT ![m] = @ - a] /\ spe' = [spe EXCEPT ![m] = @ + a]
      BY <1>4 DEF Settles, OthersSame
    <2>2. a <= res[m]
      BY <1>4 DEF Settles
    <2>3. Account!Settle(m, a)
      BY <2>1, <2>2 DEF Account!Settle
    <2> QED
      BY <2>3 DEF Account!Next
  <1> QED
    BY <1>1, <1>2, <1>3, <1>4 DEF MoneyMoves

(* When calls do not overlap, the statements of reserve_chain, _unreserve    *)
(* and settle implement the abstract account: every write is exactly one     *)
(* reservation, release or settlement, on rows that hold what they give up.  *)
THEOREM SagaImplementsAccount ==
  ASSUME Concurrent = FALSE
  PROVE  Spec => ImplementsAccount
  <1>1. Init => Account!Init
    BY DEF Init, NoRow, Account!Init
  <1>2. TypeInv /\ SerialInv /\ [Next]_vars => [Account!Next]_(Account!vars)
    <2>1. TypeInv => TypeOK
      BY DEF TypeInv
    <2> QED
      BY <2>1, SerialStep, MoneyMovesRefines
  <1>3. Spec => Account!Spec
    BY <1>1, <1>2, TypeInvariant, SerialInvariant, PTL DEF Spec, Account!Spec
  <1> QED
    BY <1>3 DEF ImplementsAccount
----------------------------------------------------------------------------
(* What the money columns add up to *)

(* A call settles only after it was paid; its row says captured only at the *)
(* end of the call.                                                         *)
LEMMA PaidFirstStep ==
  ASSUME TypeOK, NEW p \in Purchases, PaidFirst(p), Submit(p) \/ Step(p) \/ Crash(p)
  PROVE  PaidFirst(p)'
  <1> USE DEF PaidFirst, Settling, Goto, At, TypeOK
  <1>1. CASE Submit(p) \/ Crash(p)
    BY <1>1 DEF Submit, Crash
  <1>2. CASE VerifyRead(p) \/ VerifyAncestor(p) \/ VerifyExpired(p) \/ VerifyGate(p)
    BY <1>2 DEF VerifyRead, VerifyAncestor, VerifyExpired, VerifyGate
  <1>3. CASE Refuse(p) \/ Escalate(p) \/ Capture(p) \/ Compensate(p)
    BY <1>3 DEF Refuse, Escalate, Capture, Compensate, Return
  <1>4. CASE ReserveRead(p) \/ ReserveWrite(p) \/ ReserveLost(p)
    BY <1>4 DEF ReserveRead, ReserveWrite, ReserveLost, Unreserve, AfterUnreserve
  <1>5. CASE UnreserveRead(p) \/ UnreserveWrite(p)
    BY <1>5 DEF UnreserveRead, UnreserveWrite, AfterUnreserve
  <1>6. CASE Charge(p) \/ Checkout(p) \/ RailCheck(p) \/ RailCapture(p)
    BY <1>6 DEF Charge, Checkout, RailCheck, RailCapture, Unreserve, AfterUnreserve
  <1>7. CASE \E answer \in {"paid", "refused", "lost"} : RemotePay(p, answer)
    BY <1>7 DEF RemotePay, Unreserve, AfterUnreserve
  <1>8. CASE SettleRead(p) \/ SettleWrite(p)
    BY <1>8 DEF SettleRead, SettleWrite
  <1> QED
    BY <1>1, <1>2, <1>3, <1>4, <1>5, <1>6, <1>7, <1>8 DEF Step

(* Every statement but the settling write leaves the settled rows alone. *)
LEMMA QuietSettled ==
  ASSUME TypeInv, NEW p \in Purchases, PaidFirst(p),
         Submit(p) \/ Step(p) \/ Crash(p), ~SettleWrite(p)
  PROVE  Settled(p)' = Settled(p)
  <1>0. TypeOK /\ Positions(p)
    BY DEF TypeInv
  <1>1. Length(p)' = Length(p)
    BY <1>0, FrameLemma DEF OthersStay, Length
  <1>a. Length(p) \in Nat /\ walk[p] \in Nat /\ walk[p] >= 1
    BY <1>0, ChainAssumption DEF Length, TypeOK
  <1> USE <1>0, <1>1, <1>a DEF PaidFirst, Settled, Settling, Goto, At, TypeOK
  <1>2. CASE Submit(p) \/ Crash(p)
    BY <1>2 DEF Submit, Crash
  <1>3. CASE VerifyRead(p) \/ VerifyAncestor(p) \/ VerifyExpired(p) \/ VerifyGate(p)
    BY <1>3 DEF VerifyRead, VerifyAncestor, VerifyExpired, VerifyGate
  <1>4. CASE Refuse(p) \/ Escalate(p) \/ Compensate(p)
    BY <1>4 DEF Refuse, Escalate, Compensate, Return
  <1>5. CASE Capture(p)
    BY <1>5 DEF Capture, Return
  <1>6. CASE ReserveRead(p) \/ ReserveWrite(p) \/ ReserveLost(p)
    BY <1>6 DEF ReserveRead, ReserveWrite, ReserveLost, Unreserve, AfterUnreserve
  <1>7. CASE UnreserveRead(p) \/ UnreserveWrite(p)
    BY <1>7 DEF UnreserveRead, UnreserveWrite, AfterUnreserve
  <1>8. CASE Charge(p) \/ Checkout(p) \/ RailCheck(p)
    BY <1>8 DEF Charge, Checkout, RailCheck, Unreserve, AfterUnreserve
  <1>9. CASE RailCapture(p)
    BY <1>9 DEF RailCapture
  <1>10. CASE \E answer \in {"paid", "refused", "lost"} : RemotePay(p, answer)
    BY <1>10 DEF RemotePay, Unreserve, AfterUnreserve
  <1>11. CASE SettleRead(p)
    BY <1>11 DEF SettleRead
  <1> QED
    BY <1>2, <1>3, <1>4, <1>5, <1>6, <1>7, <1>8, <1>9, <1>10, <1>11 DEF Step

(* How the calls counted on a row follow the rows of the call that moved.   *)
LEMMA HoldersFrame ==
  ASSUME NEW p \in Purchases, OthersStay(p), NEW n
  PROVE  /\ \A q \in Purchases : q # p => (q \in Holders(n)' <=> q \in Holders(n))
         /\ p \in Holders(n)' <=> \E k \in Holding(p)' : Link(p, k) = n
         /\ \A q \in Purchases : q # p => (q \in Settlers(n)' <=> q \in Settlers(n))
         /\ p \in Settlers(n)' <=> \E k \in Settled(p)' : Link(p, k) = n
  <1>1. \A q \in Purchases : \A k : Link(q, k)' = Link(q, k)
    BY DEF OthersStay, Link
  <1>2. \A q \in Purchases : q # p => Holding(q)' = Holding(q)
    BY DEF OthersStay, Holding
  <1>3. \A q \in Purchases : q # p => Settled(q)' = Settled(q)
    BY DEF OthersStay, Settled, Length
  <1> QED
    BY <1>1, <1>2, <1>3 DEF Holders, Settlers

LEMMA PositionsOfRows ==
  ASSUME TypeInv, NEW p \in Purchases
  PROVE  Holding(p) \subseteq 1..Length(p) /\ Settled(p) \subseteq 1..Length(p)
  <1>1. top[p] \in Nat /\ top[p] <= Length(p) /\ mandate[p] \in Mandates
    BY DEF TypeInv, TypeOK, Positions
  <1>2. Length(p) \in Nat
    BY <1>1, ChainAssumption DEF Length
  <1> QED
    BY <1>1, <1>2 DEF Holding, Settled

LEMMA HoldersSame ==
  ASSUME NEW p \in Purchases, OthersStay(p), Holding(p)' = Holding(p), NEW n
  PROVE  Holders(n)' = Holders(n)
  <1>1. Holders(n)' \subseteq Purchases /\ Holders(n) \subseteq Purchases
    BY DEF Holders
  <1>2. p \in Holders(n)' <=> p \in Holders(n)
    BY HoldersFrame DEF Holders
  <1>3. \A q \in Purchases : q # p => (q \in Holders(n)' <=> q \in Holders(n))
    BY HoldersFrame
  <1> QED
    BY <1>1, <1>2, <1>3

LEMMA HoldersGain ==
  ASSUME TypeInv, NEW p \in Purchases, OthersStay(p), NEW k \in 1..Length(p),
         k \notin Holding(p), Holding(p)' = Holding(p) \cup {k},
         NEW m \in Mandates, m = Link(p, k)
  PROVE  /\ Holders(m)' = Holders(m) \cup {p}
         /\ p \notin Holders(m)
         /\ \A n \in Mandates : n # m => Holders(n)' = Holders(n)
  <1>0. TypeOK
    BY DEF TypeInv
  <1>1. \A n \in Mandates : Holders(n) \subseteq Purchases /\ Holders(n)' \subseteq Purchases
    BY DEF Holders
  <1>2. \A j \in Holding(p) : Link(p, j) # m
    BY <1>0, PositionsOfRows, LinksDistinct
  <1>3. p \notin Holders(m)
    BY <1>2 DEF Holders
  <1>4. \A n \in Mandates : p \in Holders(n)' <=> (p \in Holders(n) \/ n = m)
    BY HoldersFrame DEF Holders
  <1>5. \A n \in Mandates : \A q \in Purchases : q # p => (q \in Holders(n)' <=> q \in Holders(n))
    BY HoldersFrame
  <1>6. Holders(m)' = Holders(m) \cup {p}
    BY <1>1, <1>4, <1>5
  <1>7. \A n \in Mandates : n # m => Holders(n)' = Holders(n)
    BY <1>1, <1>4, <1>5
  <1> QED
    BY <1>3, <1>6, <1>7

LEMMA HoldersLose ==
  ASSUME TypeInv, NEW p \in Purchases, OthersStay(p), NEW k \in 1..Length(p),
         k \in Holding(p), Holding(p)' = Holding(p) \ {k},
         NEW m \in Mandates, m = Link(p, k)
  PROVE  /\ Holders(m)' = Holders(m) \ {p}
         /\ p \in Holders(m)
         /\ \A n \in Mandates : n # m => Holders(n)' = Holders(n)
  <1>0. TypeOK
    BY DEF TypeInv
  <1>1. \A n \in Mandates : Holders(n) \subseteq Purchases /\ Holders(n)' \subseteq Purchases
    BY DEF Holders
  <1>2. \A j \in Holding(p) : j # k => Link(p, j) # m
    BY <1>0, PositionsOfRows, LinksDistinct
  <1>3. p \in Holders(m)
    BY DEF Holders
  <1>4. p \notin Holders(m)' /\ \A n \in Mandates : n # m => (p \in Holders(n)' <=> p \in Holders(n))
    <2>1. \A n \in Mandates : p \in Holders(n)' <=> \E j \in Holding(p) \ {k} : Link(p, j) = n
      BY HoldersFrame
    <2>2. \A n \in Mandates : p \in Holders(n) <=> \E j \in Holding(p) : Link(p, j) = n
      BY DEF Holders
    <2>3. p \notin Holders(m)'
      BY <2>1, <1>2
    <2>4. \A n \in Mandates : n # m => (p \in Holders(n)' <=> p \in Holders(n))
      BY <2>1, <2>2
    <2> QED
      BY <2>3, <2>4
  <1>5. \A n \in Mandates : \A q \in Purchases : q # p => (q \in Holders(n)' <=> q \in Holders(n))
    BY HoldersFrame
  <1>6. Holders(m)' = Holders(m) \ {p}
    BY <1>1, <1>4, <1>5
  <1>7. \A n \in Mandates : n # m => Holders(n)' = Holders(n)
    BY <1>1, <1>4, <1>5
  <1> QED
    BY <1>3, <1>6, <1>7

LEMMA SettlersSame ==
  ASSUME NEW p \in Purchases, OthersStay(p), Settled(p)' = Settled(p), NEW n
  PROVE  Settlers(n)' = Settlers(n)
  <1>1. Settlers(n)' \subseteq Purchases /\ Settlers(n) \subseteq Purchases
    BY DEF Settlers
  <1>2. p \in Settlers(n)' <=> p \in Settlers(n)
    BY HoldersFrame DEF Settlers
  <1>3. \A q \in Purchases : q # p => (q \in Settlers(n)' <=> q \in Settlers(n))
    BY HoldersFrame
  <1> QED
    BY <1>1, <1>2, <1>3

LEMMA SettlersGain ==
  ASSUME TypeInv, NEW p \in Purchases, OthersStay(p), NEW k \in 1..Length(p),
         k \notin Settled(p), Settled(p)' = Settled(p) \cup {k},
         NEW m \in Mandates, m = Link(p, k)
  PROVE  /\ Settlers(m)' = Settlers(m) \cup {p}
         /\ p \notin Settlers(m)
         /\ \A n \in Mandates : n # m => Settlers(n)' = Settlers(n)
  <1>0. TypeOK
    BY DEF TypeInv
  <1>1. \A n \in Mandates : Settlers(n) \subseteq Purchases /\ Settlers(n)' \subseteq Purchases
    BY DEF Settlers
  <1>2. \A j \in Settled(p) : Link(p, j) # m
    BY <1>0, PositionsOfRows, LinksDistinct
  <1>3. p \notin Settlers(m)
    BY <1>2 DEF Settlers
  <1>4. \A n \in Mandates : p \in Settlers(n)' <=> (p \in Settlers(n) \/ n = m)
    BY HoldersFrame DEF Settlers
  <1>5. \A n \in Mandates : \A q \in Purchases : q # p => (q \in Settlers(n)' <=> q \in Settlers(n))
    BY HoldersFrame
  <1>6. Settlers(m)' = Settlers(m) \cup {p}
    BY <1>1, <1>4, <1>5
  <1>7. \A n \in Mandates : n # m => Settlers(n)' = Settlers(n)
    BY <1>1, <1>4, <1>5
  <1> QED
    BY <1>3, <1>6, <1>7

(* The amount of a call changes in Submit only, when no row counts it yet.  *)
LEMMA AmountStays ==
  ASSUME TypeInv, NEW p \in Purchases, PaidFirst(p), Submit(p) \/ Step(p) \/ Crash(p)
  PROVE  /\ amount \in [Purchases -> Nat] /\ amount' \in [Purchases -> Nat]
         /\ \A n : \A q \in Holders(n) \cup Settlers(n) : amount'[q] = amount[q]
         /\ ~Submit(p) => amount' = amount
  <1>0. TypeOK /\ TypeOK' /\ OthersStay(p)
    BY CallType, FrameLemma DEF TypeInv
  <1>1. amount \in [Purchases -> Nat] /\ amount' \in [Purchases -> Nat]
    BY <1>0 DEF TypeOK
  <1>2. CASE ~Submit(p)
    <2>1. amount' = amount
      BY <1>2 DEF Step, Crash, VerifyRead, VerifyAncestor, VerifyExpired,
             VerifyGate, Refuse, Escalate, Return, ReserveRead, ReserveWrite,
             ReserveLost, UnreserveRead, UnreserveWrite, Charge, Checkout, RailCheck,
             RailCapture, RemotePay, SettleRead, SettleWrite, Capture, Compensate, calls
    <2> QED
      BY <1>1, <2>1
  <1>3. CASE Submit(p)
    <2>1. pc[p] = "idle" /\ top[p] = 0 /\ purchases[p] # "captured"
      BY <1>3 DEF Submit, At, TypeInv, Positions, PaidFirst
    <2>2. Holding(p) = {} /\ Settled(p) = {}
      BY <2>1 DEF Holding, Settled, Settling
    <2>3. \A n : p \notin Holders(n) \cup Settlers(n) /\ Holders(n) \cup Settlers(n) \subseteq Purchases
      BY <2>2 DEF Holders, Settlers
    <2>4. \A q \in Purchases : q # p => amount'[q] = amount[q]
      BY <1>0 DEF OthersStay
    <2> QED
      BY <1>1, <1>3, <2>3, <2>4
  <1> QED
    BY <1>2, <1>3

(* spent_total changes in the settling write only. *)
LEMMA SpentStays ==
  ASSUME TypeInv, NEW p \in Purchases, Submit(p) \/ Step(p) \/ Crash(p), ~SettleWrite(p)
  PROVE  \A n \in Mandates : mandates'[n].spent = mandates[n].spent
  <1>0. TypeOK
    BY DEF TypeInv
  <1>1. CASE Submit(p) \/ QuietStep(p) \/ Crash(p)
    BY <1>1, QuietMoney DEF MoneySame
  <1>2. CASE ReserveWrite(p)
    <2>1. Link(p, top[p] + 1) \in Mandates /\ amount[p] \in Nat /\ snap[p].reserved \in Nat
      BY <1>0, <1>2, ReserveWriteRows DEF TypeOK, Row
    <2>2. SetReserved(Link(p, top[p] + 1), snap[p].reserved + amount[p])
      BY <1>2 DEF ReserveWrite
    <2> QED
      BY <1>0, <2>1, <2>2, ReservedUpdate DEF TypeOK
  <1>3. CASE UnreserveWrite(p)
    <2>1. Link(p, walk[p]) \in Mandates /\ amount[p] \in Nat /\ snap[p].reserved \in Nat
      BY <1>0, <1>3, UnreserveWriteRows DEF TypeOK, Row
    <2>2. SetReserved(Link(p, walk[p]), Max0(snap[p].reserved - amount[p]))
      BY <1>3 DEF UnreserveWrite
    <2>3. Max0(snap[p].reserved - amount[p]) \in Nat
      BY <2>1 DEF Max0
    <2> QED
      BY <1>0, <2>1, <2>2, <2>3, ReservedUpdate DEF TypeOK
  <1> QED
    BY <1>1, <1>2, <1>3 DEF Step, QuietStep

(* A settling write adds its amount to what the row's settlers add up to;   *)
(* no other statement changes that total.                                   *)
LEMMA SettledTotals ==
  ASSUME TypeInv, NEW p \in Purchases, PaidFirst(p), Submit(p) \/ Step(p) \/ Crash(p),
         NEW n \in Mandates, IsFiniteSet(Settlers(n))
  PROVE  /\ TotalOf(Settlers(n)) \in Nat
         /\ IsFiniteSet(Settlers(n)')
         /\ TotalOf(Settlers(n))' =
              IF SettleWrite(p) /\ n = Link(p, walk[p])
              THEN TotalOf(Settlers(n)) + amount[p] ELSE TotalOf(Settlers(n))
  <1>0. OthersStay(p)
    BY FrameLemma DEF TypeInv
  <1>1. /\ amount \in [Purchases -> Nat]
        /\ \A q \in Settlers(n) : amount'[q] = amount[q]
        /\ SettleWrite(p) => amount' = amount
    <2>1. SettleWrite(p) => amount' = amount
      BY DEF SettleWrite, calls
    <2> QED
      BY <2>1, AmountStays
  <1>2. \A q \in Settlers(n) : amount[q] \in Nat /\ amount[q] = amount'[q]
    BY <1>1 DEF Settlers
  <1>3. TotalOf(Settlers(n)) \in Nat
    BY <1>2, SumType DEF TotalOf
  <1>4. SumFunctionOnSet(amount', Settlers(n)) = TotalOf(Settlers(n))
    BY <1>2, SumEqual DEF TotalOf
  <1>5. CASE Settlers(n)' = Settlers(n) /\ ~(SettleWrite(p) /\ n = Link(p, walk[p]))
    <2>1. TotalOf(Settlers(n))' = TotalOf(Settlers(n))
      BY <1>4, <1>5 DEF TotalOf
    <2> QED
      BY <1>3, <1>5, <2>1
  <1>6. CASE ~SettleWrite(p)
    <2>1. Settled(p)' = Settled(p)
      BY <1>6, QuietSettled
    <2>2. Settlers(n)' = Settlers(n)
      BY <1>0, <2>1, SettlersSame
    <2> QED
      BY <1>5, <1>6, <2>2
  <1>7. CASE SettleWrite(p)
    <2>1. /\ walk[p] \in 1..Length(p) /\ walk[p] \notin Settled(p)
          /\ Settled(p)' = Settled(p) \cup {walk[p]}
          /\ Link(p, walk[p]) \in Mandates
      BY <1>7, SettleWriteRows
    <2>2. /\ n = Link(p, walk[p]) => /\ Settlers(n)' = Settlers(n) \cup {p}
                                     /\ p \notin Settlers(n)
          /\ n # Link(p, walk[p]) => Settlers(n)' = Settlers(n)
      BY <1>0, <2>1, SettlersGain
    <2>3. CASE n = Link(p, walk[p])
      <3>1. \A q \in Settlers(n) \cup {p} : amount[q] \in Nat
        BY <1>1, <1>2
      <3>2. SumFunctionOnSet(amount, Settlers(n) \cup {p}) = amount[p] + TotalOf(Settlers(n))
        BY <2>2, <2>3, <3>1, SumAdd DEF TotalOf
      <3>3. TotalOf(Settlers(n))' = amount[p] + TotalOf(Settlers(n))
        BY <1>1, <1>7, <2>2, <2>3, <3>2 DEF TotalOf
      <3>4. IsFiniteSet(Settlers(n)')
        BY <2>2, <2>3, FS_AddElement
      <3> QED
        BY <1>1, <1>3, <1>7, <2>3, <3>3, <3>4
    <2>4. CASE n # Link(p, walk[p])
      BY <1>5, <2>2, <2>4
    <2> QED
      BY <2>3, <2>4
  <1> QED
    BY <1>6, <1>7

LEMMA SpendInit == Init => SpendInv
  <1> SUFFICES ASSUME Init PROVE SpendInv
    OBVIOUS
  <1>1. \A p \in Purchases : Settled(p) = {}
    BY DEF Init, Settled, Settling
  <1>2. \A m \in Mandates : Settlers(m) = {}
    BY <1>1 DEF Settlers
  <1>3. IsFiniteSet({}) /\ SumFunctionOnSet(amount, {}) = 0
    BY FS_EmptySet, SumType
  <1>4. \A m \in Mandates : mandates[m].spent <= TotalOf(Settlers(m))
    BY <1>2, <1>3, SMTT(30) DEF Init, NoRow, TotalOf
  <1>5. \A p \in Purchases : PaidFirst(p) /\ SnapshotCovered(p)
    BY DEF Init, PaidFirst, SnapshotCovered, Settling, At
  <1>6. paid = {}
    BY DEF Init
  <1> QED
    BY <1>2, <1>3, <1>4, <1>5, <1>6 DEF SpendInv

LEMMA SpendCall ==
  ASSUME TypeInv, SpendInv, NEW p \in Purchases, Submit(p) \/ Step(p) \/ Crash(p)
  PROVE  SpendInv'
  <1>0. TypeOK /\ Positions(p) /\ OthersStay(p)
    BY FrameLemma DEF TypeInv
  <1>1. ASSUME NEW q \in Purchases PROVE PaidFirst(q)'
    <2>1. CASE q = p
      BY <1>0, <2>1, PaidFirstStep DEF SpendInv
    <2>2. CASE q # p
      BY <1>0, <2>2 DEF SpendInv, PaidFirst, OthersStay
    <2> QED
      BY <2>1, <2>2
  <1>2. IsFiniteSet(paid')
    <2>1. paid' \subseteq paid \cup {p}
      BY DEF Step, Submit, Crash, VerifyRead, VerifyAncestor, VerifyExpired,
             VerifyGate, Refuse, Escalate, Return, ReserveRead, ReserveWrite,
             ReserveLost, UnreserveRead, UnreserveWrite, Charge, Checkout, RailCheck,
             RailCapture, RemotePay, SettleRead, SettleWrite, Capture, Compensate
    <2>2. IsFiniteSet(paid \cup {p})
      BY FS_AddElement DEF SpendInv
    <2> QED
      BY <2>1, <2>2, FS_Subset
  <1>3. ASSUME NEW n \in Mandates
        PROVE  /\ TotalOf(Settlers(n)) \in Nat /\ IsFiniteSet(Settlers(n)')
               /\ TotalOf(Settlers(n))' =
                    IF SettleWrite(p) /\ n = Link(p, walk[p])
                    THEN TotalOf(Settlers(n)) + amount[p] ELSE TotalOf(Settlers(n))
               /\ TotalOf(Settlers(n)) <= TotalOf(Settlers(n))'
    <2>1. IsFiniteSet(Settlers(n)) /\ PaidFirst(p) /\ amount[p] \in Nat
      BY <1>0 DEF SpendInv, TypeOK
    <2>2. /\ TotalOf(Settlers(n)) \in Nat /\ IsFiniteSet(Settlers(n)')
          /\ TotalOf(Settlers(n))' =
               IF SettleWrite(p) /\ n = Link(p, walk[p])
               THEN TotalOf(Settlers(n)) + amount[p] ELSE TotalOf(Settlers(n))
      BY <2>1, SettledTotals
    <2> QED
      BY <2>1, <2>2
  <1>4. ASSUME NEW n \in Mandates PROVE mandates'[n].spent <= TotalOf(Settlers(n))'
    <2>1. mandates[n].spent <= TotalOf(Settlers(n)) /\ mandates[n].spent \in Nat
      BY <1>0 DEF SpendInv, TypeOK, Row
    <2>2. CASE ~SettleWrite(p)
      BY <2>1, <2>2, <1>3, SpentStays
    <2>3. CASE SettleWrite(p)
      <3>1. walk[p] <= Length(p)
        BY <1>0, <2>3 DEF SettleWrite, At, Positions, Settling
      <3>2. CASE n # Link(p, walk[p])
        BY <3>1, <3>2, <2>1, <2>3, <1>0, <1>3, SettleUpdate
      <3>3. CASE n = Link(p, walk[p])
        <4>1. mandates'[n].spent = snap[p].spent + amount[p]
          BY <3>1, <3>3, <2>3, <1>0, SettleUpdate
        <4>2. snap[p].spent <= TotalOf(Settlers(n))
          BY <3>3, <2>3 DEF SpendInv, SnapshotCovered, SettleWrite
        <4>3. TotalOf(Settlers(n))' = TotalOf(Settlers(n)) + amount[p]
          BY <1>3, <2>3, <3>3
        <4>4. snap[p].spent \in Nat /\ amount[p] \in Nat /\ TotalOf(Settlers(n)) \in Nat
          BY <1>0, <1>3 DEF TypeOK, Row
        <4> QED
          BY <4>1, <4>2, <4>3, <4>4
      <3> QED
        BY <3>2, <3>3
    <2> QED
      BY <2>2, <2>3
  <1>5. ASSUME NEW q \in Purchases PROVE SnapshotCovered(q)'
    <2> SUFFICES ASSUME At(q, "settle_write")'
                 PROVE  (snap[q].spent <= TotalOf(Settlers(Link(q, walk[q]))))'
      BY DEF SnapshotCovered
    <2> DEFINE n == Link(q, walk[q])
    <2>1. /\ alive[q] /\ pc'[q] = "settle_write" /\ walk'[q] = walk[q] /\ n' = n
          /\ q # p => pc[q] = "settle_write" /\ snap'[q] = snap[q]
          /\ q = p => pc[q] = "settle_read" /\ snap'[q] = mandates[n]
      <3>1. CASE q # p
        BY <3>1, <1>0 DEF OthersStay, At, Link
      <3>2. CASE q = p
        <4>1. SettleRead(p)
          BY <3>2, <1>0 DEF Step, Submit, Crash, VerifyRead, VerifyAncestor, VerifyExpired,
             VerifyGate, Refuse, Escalate, Return, ReserveRead, ReserveWrite,
             ReserveLost, UnreserveRead, UnreserveWrite, Charge, Checkout, RailCheck,
             RailCapture, RemotePay, SettleWrite, Capture, Compensate, Unreserve,
             AfterUnreserve, Goto, At, TypeOK
        <4> QED
          BY <4>1, <3>2, <1>0 DEF SettleRead, At, Goto, TypeOK, Link, calls
      <3> QED
        BY <3>1, <3>2
    <2>2. n \in Mandates
      <3>1. walk[q] \in 1..Length(q)
        <4>1. walk[q] \in Nat /\ walk[q] >= 1 /\ walk[q] <= Length(q) /\ mandate[q] \in Mandates
          BY <2>1 DEF TypeInv, TypeOK, Positions, Settling
        <4> QED
          BY <4>1, ChainAssumption DEF Length
      <3> QED
        BY <3>1, <1>0, LinkInChain DEF TypeOK
    <2>3. snap'[q].spent <= TotalOf(Settlers(n)) /\ snap'[q].spent \in Nat
      <3>1. CASE q # p
        BY <3>1, <2>1, <1>0 DEF SpendInv, SnapshotCovered, At, TypeOK, Row
      <3>2. CASE q = p
        BY <3>2, <2>1, <2>2, <1>0 DEF SpendInv, TypeOK, Row
      <3> QED
        BY <3>1, <3>2
    <2>4. PICK m \in Mandates : m = n
      BY <2>2
    <2>5. snap'[q].spent <= TotalOf(Settlers(m))'
      <3>1. snap'[q].spent <= TotalOf(Settlers(m)) /\ snap'[q].spent \in Nat
        <4> HIDE DEF n
        <4> QED
          BY <2>3, <2>4
      <3>2. TotalOf(Settlers(m)) \in Nat /\ TotalOf(Settlers(m)) <= TotalOf(Settlers(m))'
        BY <1>3
      <3>3. TotalOf(Settlers(m))' \in Nat
        <4>1. amount[p] \in Nat
          BY <1>0 DEF TypeOK
        <4> QED
          BY <4>1, <1>3
      <3> QED
        BY <3>1, <3>2, <3>3
    <2>6. m = n'
      BY <2>1, <2>4
    <2>7. TotalOf(Settlers(n))' = SumFunctionOnSet(amount', {r \in Purchases : \E k \in Settled(r)' : Link(r, k)' = n'})
      BY DEF TotalOf, Settlers
    <2>8. TotalOf(Settlers(m))' = SumFunctionOnSet(amount', {r \in Purchases : \E k \in Settled(r)' : Link(r, k)' = m})
      BY DEF TotalOf, Settlers
    <2>9. snap'[q].spent <= TotalOf(Settlers(n))'
      <3> HIDE DEF n
      <3> QED
        BY <2>5, <2>6, <2>7, <2>8
    <2> QED
      BY <2>9
  <1> QED
    BY <1>1, <1>2, <1>3, <1>4, <1>5 DEF SpendInv

(* A step that moves no call and no money keeps the sums. *)
LEMMA SumsFrame ==
  ASSUME TypeOK, MoneySame,
         UNCHANGED <<purchases, paid, pc, alive, calls, top, walk, snap>>
  PROVE  (SpendInv => SpendInv') /\ (BooksInv => BooksInv')
  <1> USE DEF calls
  <1>1. /\ \A p \in Purchases : Holding(p)' = Holding(p) /\ Settled(p)' = Settled(p)
        /\ \A p \in Purchases : \A k : Link(p, k)' = Link(p, k)
    BY DEF Holding, Settled, Length, Link
  <1>2. \A n : Holders(n)' = Holders(n) /\ Settlers(n)' = Settlers(n)
    BY <1>1 DEF Holders, Settlers
  <1>3. \A n : /\ TotalOf(Holders(n))' = TotalOf(Holders(n))
               /\ TotalOf(Settlers(n))' = TotalOf(Settlers(n))
    BY <1>2 DEF TotalOf
  <1>4. BooksInv => BooksInv'
    BY <1>2, <1>3 DEF BooksInv, BooksBalance, MoneySame
  <1>5. ASSUME SpendInv, NEW p \in Purchases PROVE PaidFirst(p)' /\ SnapshotCovered(p)'
    <2>1. PaidFirst(p)'
      BY <1>5 DEF SpendInv, PaidFirst
    <2>2. Settlers(Link(p, walk[p]))' = Settlers(Link(p, walk[p]))
      BY <1>1 DEF Settlers
    <2>3. SnapshotCovered(p)'
      BY <1>5, <2>2 DEF SpendInv, SnapshotCovered, At, TotalOf
    <2> QED
      BY <2>1, <2>3
  <1>6. SpendInv => SpendInv'
    BY <1>2, <1>3, <1>5 DEF SpendInv, MoneySame
  <1> QED
    BY <1>4, <1>6

LEMMA SpendStep == TypeInv /\ SpendInv /\ [Next]_vars => SpendInv'
  <1> SUFFICES ASSUME TypeInv, SpendInv, [Next]_vars PROVE SpendInv'
    OBVIOUS
  <1>0. TypeOK
    BY DEF TypeInv
  <1>1. CASE Environment
    <2>1. UNCHANGED <<purchases, paid, pc, alive, calls, top, walk, snap>>
      BY <1>1 DEF Environment, Issue, RevokeRow, RevokeToken, Suspend, Reactivate,
             EndOfValidity, SetPrice
    <2> QED
      BY <1>0, <1>1, <2>1, EnvironmentMoney, SumsFrame
  <1>2. CASE \E p \in Purchases : Submit(p) \/ Step(p) \/ Crash(p)
    BY <1>2, SpendCall
  <1>3. CASE UNCHANGED vars
    <2>1. UNCHANGED <<purchases, paid, pc, alive, calls, top, walk, snap>> /\ MoneySame
      BY <1>3 DEF vars, rows, MoneySame
    <2> QED
      BY <1>0, <2>1, SumsFrame
  <1> QED
    BY <1>1, <1>2, <1>3 DEF Next

LEMMA SpendInvariant == Spec => []SpendInv
  BY SpendInit, SpendStep, TypeInvariant, PTL DEF Spec

(* The books never claim more than was paid: for any number of overlapping  *)
(* calls, settles that overwrite each other's row, lost answers of remote   *)
(* merchants and processes dying anywhere, spent_total of every mandate     *)
(* (kernel.settle, over the whole chain) is covered by captures made under  *)
(* it or under a mandate derived from it.                                   *)
THEOREM SpendIsCovered == Spec => []SpendIsPaid
  <1>1. TypeInv /\ SpendInv => SpendIsPaid
    <2> SUFFICES ASSUME TypeInv, SpendInv, NEW m \in Mandates
                 PROVE  mandates[m].spent <= TotalOf(Payers(m))
      BY DEF SpendIsPaid
    <2>1. Payers(m) \subseteq paid /\ IsFiniteSet(Payers(m))
      <3>1. Payers(m) \subseteq paid
        BY DEF Payers
      <3> QED
        BY <3>1, FS_Subset DEF SpendInv
    <2>2. \A p \in Payers(m) : amount[p] \in Nat
      BY <2>1 DEF TypeInv, TypeOK
    <2>3. Settlers(m) \in SUBSET Payers(m)
      <3> SUFFICES ASSUME NEW p \in Settlers(m) PROVE p \in Payers(m)
        OBVIOUS
      <3>1. PICK k \in Settled(p) : Link(p, k) = m
        BY DEF Settlers
      <3>2. p \in Purchases /\ p \in paid /\ k \in 1..Length(p)
        BY <3>1 DEF Settlers, Settled, SpendInv, PaidFirst
      <3> QED
        BY <3>1, <3>2 DEF Payers
    <2>4. TotalOf(Settlers(m)) <= TotalOf(Payers(m))
      BY <2>1, <2>2, <2>3, SumSubset DEF TotalOf
    <2>5. TotalOf(Payers(m)) \in Nat
      BY <2>1, <2>2, SumType DEF TotalOf
    <2>6. TotalOf(Settlers(m)) \in Nat
      <3>1. IsFiniteSet(Settlers(m)) /\ \A p \in Settlers(m) : amount[p] \in Nat
        BY <2>2, <2>3 DEF SpendInv
      <3> QED
        BY <3>1, SumType DEF TotalOf
    <2>7. mandates[m].spent <= TotalOf(Settlers(m)) /\ mandates[m].spent \in Nat
      BY DEF SpendInv, TypeInv, TypeOK, Row
    <2> QED
      BY <2>4, <2>5, <2>6, <2>7
  <1> QED
    BY <1>1, TypeInvariant, SpendInvariant, PTL

(* The same for what a row's holders add up to. *)
LEMMA HeldTotals ==
  ASSUME TypeInv, NEW p \in Purchases, PaidFirst(p), Submit(p) \/ Step(p) \/ Crash(p),
         NEW n \in Mandates, IsFiniteSet(Holders(n))
  PROVE  /\ TotalOf(Holders(n)) \in Nat
         /\ IsFiniteSet(Holders(n)')
         /\ TotalOf(Holders(n))' =
              IF ReserveWrite(p) /\ n = Link(p, top[p] + 1)
              THEN TotalOf(Holders(n)) + amount[p]
              ELSE IF (UnreserveWrite(p) \/ SettleWrite(p)) /\ n = Link(p, walk[p])
              THEN TotalOf(Holders(n)) - amount[p]
              ELSE TotalOf(Holders(n))
  <1> DEFINE Up == ReserveWrite(p) /\ n = Link(p, top[p] + 1)
             Down == (UnreserveWrite(p) \/ SettleWrite(p)) /\ n = Link(p, walk[p])
  <1>0. OthersStay(p)
    BY FrameLemma DEF TypeInv
  <1>1. /\ amount \in [Purchases -> Nat]
        /\ \A q \in Holders(n) : amount'[q] = amount[q]
        /\ Up \/ Down => amount' = amount
    <2>1. Up \/ Down => amount' = amount
      BY DEF SettleWrite, ReserveWrite, UnreserveWrite, calls
    <2> QED
      BY <2>1, AmountStays
  <1>2. \A q \in Holders(n) : amount[q] \in Nat /\ amount[q] = amount'[q]
    BY <1>1 DEF Holders
  <1>3. TotalOf(Holders(n)) \in Nat
    BY <1>2, SumType DEF TotalOf
  <1>4. SumFunctionOnSet(amount', Holders(n)) = TotalOf(Holders(n))
    BY <1>2, SumEqual DEF TotalOf
  <1>x. ~(Up /\ Down)
    BY DEF ReserveWrite, UnreserveWrite, SettleWrite, At
  <1>5. CASE ~Up /\ ~Down
    <2>1. Holders(n)' = Holders(n)
      <3>1. CASE ReserveWrite(p)
        <4>1. /\ top[p] + 1 \in 1..Length(p) /\ top[p] + 1 \notin Holding(p)
              /\ Holding(p)' = Holding(p) \cup {top[p] + 1}
              /\ Link(p, top[p] + 1) \in Mandates
          BY <3>1, ReserveWriteRows
        <4> QED
          BY <1>0, <1>5, <3>1, <4>1, HoldersGain
      <3>2. CASE UnreserveWrite(p) \/ SettleWrite(p)
        <4>1. /\ walk[p] \in 1..Length(p) /\ walk[p] \in Holding(p)
              /\ Holding(p)' = Holding(p) \ {walk[p]}
              /\ Link(p, walk[p]) \in Mandates
          BY <3>2, UnreserveWriteRows, SettleWriteRows
        <4> QED
          BY <1>0, <1>5, <3>2, <4>1, HoldersLose
      <3>3. CASE Submit(p) \/ QuietStep(p) \/ Crash(p)
        BY <3>3, <1>0, QuietHolds, HoldersSame
      <3> QED
        BY <3>1, <3>2, <3>3 DEF Step, QuietStep
    <2>2. TotalOf(Holders(n))' = TotalOf(Holders(n))
      BY <1>4, <2>1 DEF TotalOf
    <2> QED
      BY <1>3, <1>5, <2>1, <2>2
  <1>6. CASE Up
    <2>1. /\ top[p] + 1 \in 1..Length(p) /\ top[p] + 1 \notin Holding(p)
          /\ Holding(p)' = Holding(p) \cup {top[p] + 1}
      BY <1>6, ReserveWriteRows
    <2>2. Holders(n)' = Holders(n) \cup {p} /\ p \notin Holders(n)
      BY <1>0, <1>6, <2>1, HoldersGain
    <2>3. \A q \in Holders(n) \cup {p} : amount[q] \in Nat
      BY <1>1, <1>2
    <2>4. SumFunctionOnSet(amount, Holders(n) \cup {p}) = amount[p] + TotalOf(Holders(n))
      BY <2>2, <2>3, SumAdd DEF TotalOf
    <2>5. TotalOf(Holders(n))' = amount[p] + TotalOf(Holders(n))
      BY <1>1, <1>6, <2>2, <2>4 DEF TotalOf
    <2>6. IsFiniteSet(Holders(n)')
      BY <2>2, FS_AddElement
    <2> QED
      BY <1>1, <1>3, <1>6, <2>5, <2>6
  <1>7. CASE Down
    <2>1. /\ walk[p] \in 1..Length(p) /\ walk[p] \in Holding(p)
          /\ Holding(p)' = Holding(p) \ {walk[p]}
      BY <1>7, UnreserveWriteRows, SettleWriteRows
    <2>2. Holders(n)' = Holders(n) \ {p} /\ p \in Holders(n)
      BY <1>0, <1>7, <2>1, HoldersLose
    <2>3. IsFiniteSet(Holders(n) \ {p})
      BY FS_RemoveElement, <2>2
    <2>4. TotalOf(Holders(n)) = amount[p] + SumFunctionOnSet(amount, Holders(n) \ {p})
      BY <1>2, <2>2, SumRemove DEF TotalOf
    <2>5. SumFunctionOnSet(amount, Holders(n) \ {p}) \in Nat /\ amount[p] \in Nat
      BY <1>1, <1>2, <2>3, SumType
    <2>6. TotalOf(Holders(n))' = SumFunctionOnSet(amount, Holders(n) \ {p})
      BY <1>1, <1>7, <2>2 DEF TotalOf
    <2>7. TotalOf(Holders(n))' = TotalOf(Holders(n)) - amount[p]
      BY <1>3, <2>4, <2>5, <2>6
    <2>8. IsFiniteSet(Holders(n)')
      BY <2>2, <2>3
    <2> QED
      BY <1>3, <1>7, <1>x, <2>7, <2>8
  <1> QED
    BY <1>5, <1>6, <1>7

LEMMA BooksInit == Init => BooksInv
  <1> SUFFICES ASSUME Init PROVE BooksInv
    OBVIOUS
  <1>1. \A p \in Purchases : Settled(p) = {} /\ Holding(p) = {}
    BY DEF Init, Settled, Settling, Holding
  <1>2. \A m \in Mandates : Settlers(m) = {} /\ Holders(m) = {}
    BY <1>1 DEF Settlers, Holders
  <1>3. IsFiniteSet({}) /\ SumFunctionOnSet(amount, {}) = 0
    BY FS_EmptySet, SumType
  <1>4. \A m \in Mandates : mandates[m].spent = 0 /\ mandates[m].reserved = 0
    BY DEF Init, NoRow
  <1> QED
    BY <1>2, <1>3, <1>4 DEF BooksInv, BooksBalance, TotalOf

(* One statement of the only call in flight moves a money column by exactly *)
(* what it moves the holders' or the settlers' total by.                    *)
LEMMA BooksCall ==
  ASSUME TypeInv, SerialInv, SpendInv, BooksInv,
         NEW p \in Purchases, Submit(p) \/ Step(p) \/ Crash(p)
  PROVE  BooksInv'
  <1> SUFFICES ASSUME NEW n \in Mandates
               PROVE  /\ IsFiniteSet(Holders(n)')
                      /\ mandates'[n].reserved = TotalOf(Holders(n))'
                      /\ mandates'[n].spent = TotalOf(Settlers(n))'
    BY DEF BooksInv, BooksBalance
  <1>0. /\ PaidFirst(p) /\ IsFiniteSet(Holders(n)) /\ IsFiniteSet(Settlers(n))
        /\ mandates[n].reserved = TotalOf(Holders(n))
        /\ mandates[n].spent = TotalOf(Settlers(n))
        /\ CurrentSnapshot(p) /\ HoldsCovered(p)
    BY DEF SpendInv, BooksInv, BooksBalance, SerialInv
  <1>1. /\ IsFiniteSet(Holders(n)')
        /\ TotalOf(Holders(n))' =
              IF ReserveWrite(p) /\ n = Link(p, top[p] + 1)
              THEN TotalOf(Holders(n)) + amount[p]
              ELSE IF (UnreserveWrite(p) \/ SettleWrite(p)) /\ n = Link(p, walk[p])
              THEN TotalOf(Holders(n)) - amount[p]
              ELSE TotalOf(Holders(n))
        /\ TotalOf(Settlers(n))' =
              IF SettleWrite(p) /\ n = Link(p, walk[p])
              THEN TotalOf(Settlers(n)) + amount[p] ELSE TotalOf(Settlers(n))
    BY <1>0, HeldTotals, SettledTotals
  <1>2. ReserveWrite(p) => ~UnreserveWrite(p) /\ ~SettleWrite(p)
    BY DEF ReserveWrite, UnreserveWrite, SettleWrite, At
  <1>3. UnreserveWrite(p) => ~SettleWrite(p)
    BY DEF UnreserveWrite, SettleWrite, At
  <1>4. CASE ReserveWrite(p)
    <2>1. Reserves(Link(p, top[p] + 1), amount[p])
      BY <1>0, <1>4, ReserveWriteSerial
    <2> QED
      BY <1>0, <1>1, <1>2, <1>4, <2>1 DEF Reserves, OthersSame
  <1>5. CASE UnreserveWrite(p)
    <2>1. Releases(Link(p, walk[p]), amount[p])
      BY <1>0, <1>5, UnreserveWriteSerial
    <2> QED
      BY <1>0, <1>1, <1>2, <1>3, <1>5, <2>1 DEF Releases, OthersSame
  <1>6. CASE SettleWrite(p)
    <2>1. Settles(Link(p, walk[p]), amount[p])
      BY <1>0, <1>6, SettleWriteSerial
    <2> QED
      BY <1>0, <1>1, <1>2, <1>6, <2>1 DEF Settles, OthersSame
  <1>7. CASE ~ReserveWrite(p) /\ ~UnreserveWrite(p) /\ ~SettleWrite(p)
    <2>1. MoneySame
      BY <1>7, QuietMoney DEF Step, QuietStep
    <2> QED
      BY <1>0, <1>1, <1>7, <2>1 DEF MoneySame
  <1> QED
    BY <1>4, <1>5, <1>6, <1>7

LEMMA BooksStep == TypeInv /\ SerialInv /\ SpendInv /\ BooksInv /\ [Next]_vars => BooksInv'
  <1> SUFFICES ASSUME TypeInv, SerialInv, SpendInv, BooksInv, [Next]_vars PROVE BooksInv'
    OBVIOUS
  <1>0. TypeOK
    BY DEF TypeInv
  <1>1. CASE Environment
    <2>1. UNCHANGED <<purchases, paid, pc, alive, calls, top, walk, snap>>
      BY <1>1 DEF Environment, Issue, RevokeRow, RevokeToken, Suspend, Reactivate,
             EndOfValidity, SetPrice
    <2> QED
      BY <1>0, <1>1, <2>1, EnvironmentMoney, SumsFrame
  <1>2. CASE \E p \in Purchases : Submit(p) \/ Step(p) \/ Crash(p)
    BY <1>2, BooksCall
  <1>3. CASE UNCHANGED vars
    <2>1. UNCHANGED <<purchases, paid, pc, alive, calls, top, walk, snap>> /\ MoneySame
      BY <1>3 DEF vars, rows, MoneySame
    <2> QED
      BY <1>0, <2>1, SumsFrame
  <1> QED
    BY <1>1, <1>2, <1>3 DEF Next

(* M6: when calls do not overlap, reserved_total and spent_total of every   *)
(* mandate are at all times exactly what the calls that reserved and        *)
(* settled on the row add up to: reserve_chain, _unreserve and settle drop  *)
(* no reservation and count none twice, over any chain, with refusals,      *)
(* compensations and processes that die between two statements.             *)
THEOREM BooksAreExact ==
  ASSUME Concurrent = FALSE
  PROVE  Spec => []BooksBalance
  <1>1. BooksInv => BooksBalance
    BY DEF BooksInv
  <1>2. Spec => []BooksInv
    BY BooksInit, BooksStep, TypeInvariant, SerialInvariant, SpendInvariant, PTL DEF Spec
  <1> QED
    BY <1>1, <1>2, PTL
=============================================================================
