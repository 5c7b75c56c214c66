--------------------------- MODULE CommerceProofs ---------------------------
(***************************************************************************)
(* The issuer, the rail and the shop composed (module Merchant), for any   *)
(* number of gestures, tokens, calls and attempts: what one gesture can    *)
(* change, what a revocation stops, and how often a cart can be paid.      *)
(***************************************************************************)
EXTENDS Merchant, SumTheorems

----------------------------------------------------------------------------
(* The issuer *)

MandateRec == [status : Statuses \cup {None}, token : Tokens \cup {None}]
RequestRec == [pc : {"idle", "verified", "delete", "mark"}, purpose : Purposes \cup {None}]

IssuerTypes ==
  /\ mandate \in MandateRec
  /\ challenge \in [Purposes -> {None, "open", "claimed", "consumed"}]
  /\ req \in [Gestures -> RequestRec]
  /\ changed \in [Purposes -> Nat]

(* A request that has verified a gesture holds its challenge, alone. *)
ClaimIsHeld ==
  /\ \A g \in Gestures : req[g].pc = "verified" =>
       /\ req[g].purpose \in {"activate", "revoke"}
       /\ challenge[req[g].purpose] = "claimed"
  /\ \A g, h \in Gestures :
       /\ req[g].pc = "verified" /\ req[h].pc = "verified"
       /\ req[g].purpose = req[h].purpose
       => g = h

(* Transitions are counted by the challenges that were consumed. *)
ChangeConsumes ==
  /\ changed["register"] = 0
  /\ \A p \in {"activate", "revoke"} : changed[p] = IF challenge[p] = "consumed" THEN 1 ELSE 0

StatusIsEarned ==
  /\ mandate.status = "revoked" => changed["revoke"] = 1
  /\ mandate.status \notin {None, "draft"} => changed["activate"] = 1

IssuerInv == IssuerTypes /\ ClaimIsHeld /\ ChangeConsumes /\ StatusIsEarned

LEMMA IssuerInvGives == IssuerInv => OneGestureOneChange
<1> SUFFICES ASSUME IssuerInv PROVE OneGestureOneChange
  OBVIOUS
<1>1. \A p \in Purposes : changed[p] <= 1
  BY DEF IssuerInv, ChangeConsumes, Purposes
<1> QED
  BY <1>1 DEF IssuerInv, StatusIsEarned, OneGestureOneChange

LEMMA IssuerInit == CommerceInit => IssuerInv
<1> SUFFICES ASSUME CommerceInit PROVE IssuerInv
  OBVIOUS
<1>1. MandatesInit
  BY DEF CommerceInit
<1>2. IssuerTypes
  BY <1>1 DEF MandatesInit, IssuerTypes, MandateRow, MandateRec, IdleRequest, RequestRec, Purposes
<1>3. ClaimIsHeld
  BY <1>1 DEF MandatesInit, ClaimIsHeld, IdleRequest
<1>4. ChangeConsumes /\ StatusIsEarned
  BY <1>1, MandatesAssumption DEF MandatesInit, ChangeConsumes, StatusIsEarned, MandateRow, Purposes
<1> QED
  BY <1>2, <1>3, <1>4 DEF IssuerInv

(* Steps that leave the row, the challenges that matter, the requests and   *)
(* the count alone: signing, ageing, and everything about registration.     *)
LEMMA AsideInv ==
  ASSUME IssuerInv, UNCHANGED <<mandate, req, changed>>,
         challenge' \in [Purposes -> {None, "open", "claimed", "consumed"}],
         \A p \in {"activate", "revoke"} : challenge'[p] = challenge[p]
  PROVE  IssuerInv'
<1>1. IssuerTypes'
  BY DEF IssuerInv, IssuerTypes
<1>2. ClaimIsHeld'
  BY DEF IssuerInv, ClaimIsHeld
<1>3. ChangeConsumes' /\ StatusIsEarned'
  BY DEF IssuerInv, ChangeConsumes, StatusIsEarned
<1> QED
  BY <1>1, <1>2, <1>3 DEF IssuerInv

(* A new challenge for a purpose that never had one. *)
LEMMA OpenInv ==
  ASSUME IssuerInv, NEW p \in {"activate", "revoke"}, challenge[p] = None,
         challenge' = [challenge EXCEPT ![p] = "open"], UNCHANGED <<req, changed>>,
         mandate' \in MandateRec,
         mandate' = mandate \/ mandate'.status = "draft"
  PROVE  IssuerInv'
<1>1. IssuerTypes'
  BY DEF IssuerInv, IssuerTypes, Purposes
<1>2. ClaimIsHeld'
  BY MandatesAssumption DEF IssuerInv, IssuerTypes, ClaimIsHeld, Purposes
<1>3. ChangeConsumes'
  BY MandatesAssumption DEF IssuerInv, IssuerTypes, ChangeConsumes, Purposes
<1>4. StatusIsEarned'
  BY DEF IssuerInv, StatusIsEarned
<1> QED
  BY <1>1, <1>2, <1>3, <1>4 DEF IssuerInv

(* The transition of a request that holds its challenge. *)
LEMMA TransitionInv ==
  ASSUME IssuerInv, NEW g \in Gestures, NEW p \in {"activate", "revoke"}, NEW s \in {"active", "revoked"},
         Transition(g, p, s),
         p = "activate" <=> s = "active",
         req' \in [Gestures -> RequestRec], req'[g].pc # "verified",
         \A h \in Gestures : h # g => req'[h] = req[h]
  PROVE  IssuerInv'
<1>1. /\ req[g].pc = "verified" /\ req[g].purpose = p
      /\ mandate.status \in sources_for[s]
      /\ mandate' = [mandate EXCEPT !.status = s]
      /\ challenge' = [challenge EXCEPT ![p] = "consumed"]
      /\ changed' = [changed EXCEPT ![p] = @ + 1]
  BY DEF Transition, CanMove
<1>2. challenge[p] = "claimed" /\ changed[p] = 0
  BY <1>1 DEF IssuerInv, ClaimIsHeld, ChangeConsumes
<1>3. IssuerTypes'
  <2>1. s \in Statuses
    BY DEF Statuses, sources_for
  <2> QED
    BY <1>1, <2>1 DEF IssuerInv, IssuerTypes, MandateRec, Purposes
<1>4. ClaimIsHeld'
  BY <1>1 DEF IssuerInv, IssuerTypes, ClaimIsHeld, Purposes
<1>5. ChangeConsumes'
  BY <1>1, <1>2 DEF IssuerInv, IssuerTypes, ChangeConsumes, Purposes
<1>6. StatusIsEarned'
  <2>1. mandate'.status = s
    BY <1>1 DEF IssuerInv, IssuerTypes, MandateRec
  <2>0. changed'[p] = 1 /\ \A q \in {"activate", "revoke"} : q # p => changed'[q] = changed[q]
    BY <1>1, <1>2 DEF IssuerInv, IssuerTypes, Purposes
  <2>2. CASE s = "active"
    <3>1. p = "activate"
      BY <2>2
    <3> QED
      BY <2>0, <2>1, <2>2, <3>1 DEF StatusIsEarned
  <2>3. CASE s = "revoked"
    <3>1. mandate.status \in {"active", "suspended"}
      BY <1>1, <2>3 DEF sources_for
    <3>2. changed["activate"] = 1
      BY <3>1, MandatesAssumption DEF IssuerInv, StatusIsEarned
    <3> QED
      BY <2>0, <2>1, <2>3, <3>2 DEF StatusIsEarned
  <2> QED
    BY <2>2, <2>3
<1> QED
  BY <1>3, <1>4, <1>5, <1>6 DEF IssuerInv

(* A request moves on after its commit, or ends. *)
LEMMA RequestInv ==
  ASSUME IssuerInv, UNCHANGED <<mandate, challenge, changed>>,
         req' \in [Gestures -> RequestRec],
         \A g \in Gestures : req'[g] = req[g] \/ req'[g].pc # "verified"
  PROVE  IssuerInv'
<1>1. IssuerTypes' /\ ChangeConsumes' /\ StatusIsEarned'
  BY DEF IssuerInv, IssuerTypes, ChangeConsumes, StatusIsEarned
<1>2. ClaimIsHeld'
  BY DEF IssuerInv, ClaimIsHeld
<1> QED
  BY <1>1, <1>2 DEF IssuerInv

LEMMA GestureInv ==
  ASSUME IssuerInv, NEW g \in Gestures, NEW p \in {"activate", "revoke"}, _verify_gesture(g, p)
  PROVE  IssuerInv'
<1>1. /\ challenge[p] = "open"
      /\ challenge' = [challenge EXCEPT ![p] = "claimed"]
      /\ req' = [req EXCEPT ![g] = [pc |-> "verified", purpose |-> p]]
      /\ UNCHANGED <<mandate, changed>>
  BY DEF _verify_gesture, CanConsume
<1>2. /\ req'[g] = [pc |-> "verified", purpose |-> p]
      /\ \A h \in Gestures : h # g => req'[h] = req[h]
      /\ req' \in [Gestures -> RequestRec]
  <2>1. [pc |-> "verified", purpose |-> p] \in RequestRec
    BY DEF RequestRec, Purposes
  <2> QED
    BY <1>1, <2>1 DEF IssuerInv, IssuerTypes
<1>3. \A h \in Gestures : req[h].pc = "verified" => req[h].purpose # p
  BY <1>1 DEF IssuerInv, ClaimIsHeld
<1>4. IssuerTypes'
  BY <1>1, <1>2 DEF IssuerInv, IssuerTypes, Purposes
<1>5. ClaimIsHeld'
  BY <1>1, <1>2, <1>3 DEF IssuerInv, IssuerTypes, ClaimIsHeld, Purposes
<1>6. ChangeConsumes' /\ StatusIsEarned'
  BY <1>1 DEF IssuerInv, IssuerTypes, ChangeConsumes, StatusIsEarned, Purposes
<1> QED
  BY <1>4, <1>5, <1>6 DEF IssuerInv

LEMMA RollbackInv ==
  ASSUME IssuerInv, NEW g \in Gestures, Rollback(g)
  PROVE  IssuerInv'
<1> DEFINE p == req[g].purpose
<1>1. /\ req[g].pc = "verified"
      /\ challenge' = [challenge EXCEPT ![p] = "open"]
      /\ req' = [req EXCEPT ![g] = IdleRequest]
      /\ UNCHANGED <<mandate, changed>>
  BY DEF Rollback
<1>2. p \in {"activate", "revoke"} /\ challenge[p] = "claimed"
  BY <1>1 DEF IssuerInv, ClaimIsHeld
<1>3. /\ req'[g].pc = "idle"
      /\ \A h \in Gestures : h # g => req'[h] = req[h]
      /\ req' \in [Gestures -> RequestRec]
  BY <1>1 DEF IssuerInv, IssuerTypes, IdleRequest, RequestRec
<1>4. \A h \in Gestures : h # g /\ req[h].pc = "verified" => req[h].purpose # p
  BY <1>1 DEF IssuerInv, ClaimIsHeld
<1> HIDE DEF p
<1>5. IssuerTypes'
  BY <1>1, <1>2, <1>3 DEF IssuerInv, IssuerTypes, Purposes
<1>6. ClaimIsHeld'
  BY <1>1, <1>2, <1>3, <1>4 DEF IssuerInv, IssuerTypes, ClaimIsHeld, Purposes
<1>7. ChangeConsumes' /\ StatusIsEarned'
  BY <1>1, <1>2 DEF IssuerInv, IssuerTypes, ChangeConsumes, StatusIsEarned, Purposes
<1> QED
  BY <1>5, <1>6, <1>7 DEF IssuerInv

LEMMA MoveInv ==
  ASSUME IssuerInv, NEW s \in Moves, Move(s)
  PROVE  IssuerInv'
<1>1. /\ s \in {"active", "suspended", "expired", "exhausted"}
      /\ mandate.status \in {"active", "suspended"}
      /\ mandate' = [mandate EXCEPT !.status = s]
      /\ UNCHANGED <<challenge, req, changed>>
  BY MandatesAssumption DEF Move, CanMove, sources_for
<1>2. changed["activate"] = 1
  BY <1>1, MandatesAssumption DEF IssuerInv, StatusIsEarned
<1>3. mandate' \in MandateRec /\ mandate'.status = s
  BY <1>1 DEF IssuerInv, IssuerTypes, MandateRec, Statuses, sources_for
<1>4. IssuerTypes' /\ ClaimIsHeld' /\ ChangeConsumes'
  BY <1>1, <1>3 DEF IssuerInv, IssuerTypes, ClaimIsHeld, ChangeConsumes
<1>5. StatusIsEarned'
  BY <1>1, <1>2, <1>3 DEF StatusIsEarned
<1> QED
  BY <1>4, <1>5 DEF IssuerInv

(* Every step of the composition is, for the issuer, one of its own, the    *)
(* answer of the rail to a deletion, or none.                               *)
LEMMA IssuerStep ==
  CommerceNext => \/ MandatesNext
                  \/ \E g \in Gestures : delete_token(g)
                  \/ \E t \in Tokens \cup {None} : create_mandate(t)
                  \/ UNCHANGED issuer
  BY DEF CommerceNext, CreateMandate, update_price, quote, ChargeElsewhere, Present, VerifyCheckout, Capture,
         Unapproved, mark_captured, RailRefuses, GiveUp, Unsettled

LEMMA IssuerNext ==
  ASSUME IssuerInv, [CommerceNext]_vars
  PROVE  IssuerInv'
<1> USE DEF issuer
<1>1. CASE \E p \in Purposes : Sign(p) \/ Age(p)
  <2>1. UNCHANGED <<mandate, req, changed, challenge>>
    BY <1>1 DEF Sign, Age
  <2> QED
    BY <2>1, AsideInv DEF IssuerInv, IssuerTypes
<1>2. CASE begin_registration \/ complete_registration
  <2>1. /\ UNCHANGED <<mandate, req, changed>>
        /\ \/ challenge' = [challenge EXCEPT !["register"] = "open"]
           \/ challenge' = [challenge EXCEPT !["register"] = "consumed"]
    BY <1>2 DEF begin_registration, complete_registration, store_challenge
  <2>2. /\ challenge' \in [Purposes -> {None, "open", "claimed", "consumed"}]
        /\ \A p \in {"activate", "revoke"} : challenge'[p] = challenge[p]
    BY <2>1 DEF IssuerInv, IssuerTypes, Purposes
  <2> QED
    BY <2>1, <2>2, AsideInv
<1>3. CASE begin_revoke
  BY <1>3, OpenInv DEF begin_revoke, mandate_options, store_challenge, IssuerInv, IssuerTypes
<1>4. CASE \E t \in Tokens \cup {None} : create_mandate(t)
  <2>1. PICK t \in Tokens \cup {None} : create_mandate(t)
    BY <1>4
  <2>2. mandate' \in MandateRec /\ mandate'.status = "draft"
    BY <2>1 DEF create_mandate, build_claims, MandateRec, Statuses, sources_for
  <2> QED
    BY <2>1, <2>2, OpenInv DEF create_mandate, mandate_options, store_challenge
<1>5. CASE \E g \in Gestures : \E p \in {"activate", "revoke"} : _verify_gesture(g, p)
  BY <1>5, GestureInv
<1>6. ASSUME NEW g \in Gestures, assert_passkey(g) PROVE IssuerInv'
  <2>1. /\ req' \in [Gestures -> RequestRec] /\ req'[g].pc # "verified"
        /\ \A h \in Gestures : h # g => req'[h] = req[h]
    BY <1>6 DEF assert_passkey, IdleRequest, RequestRec, IssuerInv, IssuerTypes
  <2>2. Transition(g, "activate", "active")
    BY <1>6 DEF assert_passkey
  <2> QED
    BY <2>1, <2>2, TransitionInv
<1>7. ASSUME NEW g \in Gestures, revoke_mandate(g) PROVE IssuerInv'
  <2>1. /\ req' = [req EXCEPT ![g].pc = IF instrument = "active" THEN "delete" ELSE "idle",
                              ![g].purpose = None]
        /\ req[g] \in RequestRec
    BY <1>7 DEF revoke_mandate, IssuerInv, IssuerTypes
  <2>2. /\ req'[g] \in RequestRec /\ req'[g].pc # "verified"
        /\ \A h \in Gestures : h # g => req'[h] = req[h]
    BY <2>1 DEF RequestRec, IssuerInv, IssuerTypes
  <2>3. req' \in [Gestures -> RequestRec]
    BY <2>1, <2>2 DEF IssuerInv, IssuerTypes
  <2>4. Transition(g, "revoke", "revoked")
    BY <1>7 DEF revoke_mandate
  <2> QED
    BY <2>2, <2>3, <2>4, TransitionInv
<1>8. ASSUME NEW g \in Gestures, mark_instrument_deleted(g) \/ GiveUpDelete(g) \/ delete_token(g)
      PROVE  IssuerInv'
  <2>1. UNCHANGED <<mandate, challenge, changed>>
    BY <1>8 DEF mark_instrument_deleted, GiveUpDelete, delete_token
  <2>2. req' = [req EXCEPT ![g] = IdleRequest] \/ req' = [req EXCEPT ![g].pc = "mark"]
    BY <1>8 DEF mark_instrument_deleted, GiveUpDelete, delete_token
  <2>3. /\ req' \in [Gestures -> RequestRec]
        /\ \A h \in Gestures : req'[h] = req[h] \/ req'[h].pc # "verified"
    BY <2>2 DEF IdleRequest, RequestRec, IssuerInv, IssuerTypes
  <2> QED
    BY <2>1, <2>3, RequestInv
<1>9. CASE \E g \in Gestures : Rollback(g)
  BY <1>9, RollbackInv
<1>10. CASE \E s \in Moves : Move(s)
  BY <1>10, MoveInv
<1>11. CASE UNCHANGED issuer
  BY <1>11, AsideInv DEF IssuerInv, IssuerTypes
<1>12. CASE UNCHANGED vars
  BY <1>11, <1>12 DEF vars
<1>13. CASE MandatesNext
  BY <1>1, <1>2, <1>3, <1>5, <1>6, <1>7, <1>8, <1>9, <1>10, <1>13 DEF MandatesNext
<1> QED
  BY <1>4, <1>8, <1>11, <1>12, <1>13, IssuerStep

(* One gesture changes the mandate once, whatever requests present it, in   *)
(* whatever order and however often.                                        *)
THEOREM GestureCountsOnce == CommerceSpec => []OneGestureOneChange
<1>1. IssuerInv /\ [CommerceNext]_vars => IssuerInv'
  BY IssuerNext
<1> QED
  BY <1>1, IssuerInit, IssuerInvGives, PTL DEF CommerceSpec

----------------------------------------------------------------------------
(* The rail and the shop *)

CallRec == [pc : {"none", "lookup", "token", "mandate", "settle", "done"}, key : Keys \cup {None},
            amount : Nat, cart : Nat, answer : Calls \cup {None, "refused", "lost"}]
OrderRec == [status : {None, "quoted", "captured"}, price : Prices \cup {0},
             purchase : Purchases \cup {None}, receipt : Calls \cup {None}]
AttemptRec == [pc : {"idle", "lock", "kernel", "rail", "done"},
               answer : {None, "refused", "error"} \cup Calls]

MoneyTypes ==
  /\ call \in [Calls -> CallRec]
  /\ payments \subseteq [id : Calls, key : Keys, amount : Nat]
  /\ idempotency \in [Keys -> Calls \cup {None}]
  /\ tardy \subseteq Calls
  /\ order \in OrderRec
  /\ body \in [Calls -> [purchase : Purchases, key : Keys]]
  /\ attempt \in [Attempts -> AttemptRec]
  /\ lost \subseteq Attempts

PriceType == price \in Prices \cup {None}

Paid(c) == \E p \in payments : p.id = c

(* A payment that was made under a key, and under a key of the cart's.      *)
Backed(r, k) == \E p \in payments : p.id = r /\ p.key = k

Answered(r) == \E a \in Attempts : Backed(r, body[a].key)

LEMMA AttemptsAreCalls == Attempts \subseteq Calls
BY DEF Attempts

(* A call that came after the revocation is never about to settle. *)
TardyIsStopped ==
  /\ tardy # {} => mandate.status = "revoked"
  /\ \A c \in tardy : call[c].pc # "settle"

(* Every payment is that of its call, under the call's key, and for the     *)
(* price of the cart when an attempt made it; what is remembered or         *)
(* answered under a key is the payment made under it.                       *)
Booked ==
  /\ \A p \in payments : /\ call[p.id].pc = "done" /\ call[p.id].answer = p.id
                         /\ call[p.id].key = p.key /\ idempotency[p.key] = p.id
                         /\ p.id \in Attempts => p.amount = order.price
  /\ \A k \in Keys : idempotency[k] # None => Backed(idempotency[k], k)
  /\ \A c \in Calls : call[c].answer # None => call[c].pc = "done"
  /\ \A c \in Calls : call[c].answer \in Calls => Backed(call[c].answer, call[c].key)

(* A call is under the key of its body, and for the cart when it is that of *)
(* an attempt.                                                              *)
Called ==
  /\ \A c \in Calls : call[c].pc # "none" => call[c].key = body[c].key
  /\ \A a \in Attempts : call[a].pc # "none" => order # NoOrder /\ call[a].amount = order.price
  /\ \A a \in Attempts : attempt[a].pc \in {"lock", "kernel", "rail"} => order # NoOrder
  /\ order # NoOrder => order.status # None

Holds(a) == attempt[a].pc \in {"kernel", "rail"}

(* The row of the order is held by one attempt, and by none once captured. *)
OneLock ==
  /\ \A a, b \in Attempts : Holds(a) /\ Holds(b) => a = b
  /\ \A a \in Attempts : Holds(a) => order.status # "captured"

(* Nobody leaves a call that may still capture, or has, without a trace. *)
Watched ==
  /\ \A c \in Attempts : call[c].pc \notin {"none", "done"} => c \in lost \/ attempt[c].pc = "rail"
  /\ \A p \in payments : p.id \in Attempts =>
       p.id \in lost \/ attempt[p.id].pc = "rail" \/ order.status = "captured"

Receipts ==
  /\ order.receipt \in Calls => Answered(order.receipt)
  /\ \A a \in Attempts : attempt[a].answer \in Calls => Answered(attempt[a].answer)

MoneyInv ==
  /\ MoneyTypes /\ TardyIsStopped /\ Booked /\ Called /\ OneLock /\ Watched /\ Receipts
  /\ OneCartOnePayment /\ RevocationReachesRail

LEMMA MoneyInvGives == MoneyInv => ReceiptIsPaid
<1> SUFFICES ASSUME MoneyInv,
                    NEW r \in ({order.receipt} \cup {attempt[a].answer : a \in Attempts}) \cap Calls
             PROVE  \E p \in payments : /\ p.id = r
                                        /\ \E a \in Attempts : body[a].key = p.key
                                        /\ r \in Attempts => p.amount = order.price
  BY DEF ReceiptIsPaid
<1>1. Answered(r)
  BY DEF MoneyInv, Receipts
<1> QED
  BY <1>1 DEF Answered, Backed, MoneyInv, Booked

LEMMA MoneyInit == CommerceInit => MoneyInv
<1> SUFFICES ASSUME CommerceInit PROVE MoneyInv
  OBVIOUS
<1> USE DEF CommerceInit, RailInit, MerchantInit
<1>1. MoneyTypes
  BY MerchantAssumption DEF MoneyTypes, NoCall, CallRec, NoOrder, OrderRec, AttemptRec, Attempts
<1>2. TardyIsStopped /\ OneCartOnePayment /\ RevocationReachesRail
  BY DEF TardyIsStopped, OneCartOnePayment, RevocationReachesRail
<1>3. Booked /\ Receipts
  BY RailAssumption DEF Booked, Receipts, NoCall, NoOrder, Attempts
<1>4. Called /\ OneLock /\ Watched
  BY DEF Called, OneLock, Watched, Holds, NoCall, Attempts
<1> QED
  BY <1>1, <1>2, <1>3, <1>4 DEF MoneyInv

(* The issuer's steps: a mandate that is revoked stays so. *)
LEMMA RevokedStays ==
  ASSUME IssuerInv, [CommerceNext]_vars, mandate.status = "revoked"
  PROVE  mandate'.status = "revoked"
<1>1. CASE MandatesNext
  <2>1. \A s \in Statuses : mandate.status \notin sources_for[s]
    BY DEF Statuses, sources_for
  <2>2. "active" \in Statuses /\ "revoked" \in Statuses /\ Moves \subseteq Statuses
    BY MandatesAssumption DEF Statuses, sources_for
  <2> QED
    BY <1>1, <2>1, <2>2
    DEF MandatesNext, Sign, Age, begin_registration, complete_registration, begin_revoke, _verify_gesture,
        assert_passkey, revoke_mandate, Transition, CanMove, Move, mark_instrument_deleted, GiveUpDelete, Rollback
<1>2. CASE \E g \in Gestures : delete_token(g)
  BY <1>2 DEF delete_token
<1>3. CASE \E t \in Tokens \cup {None} : create_mandate(t)
  BY <1>3, MandatesAssumption DEF create_mandate
<1>4. CASE UNCHANGED issuer
  BY <1>4 DEF issuer
<1>5. CASE UNCHANGED vars
  BY <1>5 DEF vars, issuer
<1> QED
  BY <1>1, <1>2, <1>3, <1>4, <1>5, IssuerStep

moneyVars == <<call, payments, idempotency, tardy, order, body, attempt, lost>>

(* Steps that leave calls, payments and the order alone. *)
LEMMA ElsewhereInv ==
  ASSUME IssuerInv, MoneyInv, [CommerceNext]_vars, UNCHANGED moneyVars
  PROVE  MoneyInv'
<1>1. TardyIsStopped'
  BY RevokedStays DEF MoneyInv, TardyIsStopped, moneyVars
<1>2. MoneyTypes' /\ Booked' /\ Called' /\ OneLock' /\ Watched' /\ Receipts'
  BY DEF MoneyInv, MoneyTypes, Booked, Called, OneLock, Holds, Watched, Receipts, Answered, Backed, moneyVars
<1>3. OneCartOnePayment' /\ RevocationReachesRail'
  BY DEF MoneyInv, OneCartOnePayment, RevocationReachesRail, moneyVars
<1> QED
  BY <1>1, <1>2, <1>3 DEF MoneyInv

(* A call in progress moves on or ends without a payment of its own. *)
LEMMA CallMoves ==
  ASSUME MoneyInv, NEW c \in Calls, NEW r \in CallRec,
         call[c].pc \notin {"none", "done"}, call' = [call EXCEPT ![c] = r],
         r.pc # "none", r.key = call[c].key, r.amount = call[c].amount,
         r.answer # None => r.pc = "done",
         r.answer \in Calls => Backed(r.answer, r.key),
         r.pc = "settle" => c \notin tardy,
         UNCHANGED <<mandate, payments, idempotency, tardy, order, body, attempt, lost>>
  PROVE  MoneyInv'
<1>1. /\ \A d \in Calls : d # c => call'[d] = call[d]
      /\ call'[c] = r
      /\ MoneyTypes'
  BY DEF MoneyInv, MoneyTypes
<1>2. \A p \in payments : p.id \in Calls /\ p.id # c
  BY DEF MoneyInv, MoneyTypes, Booked
<1>3. TardyIsStopped'
  BY <1>1 DEF MoneyInv, MoneyTypes, TardyIsStopped
<1>4. Booked'
  BY <1>1, <1>2 DEF MoneyInv, Booked, Backed
<1>5. Called' /\ OneLock' /\ Watched'
  BY <1>1, AttemptsAreCalls DEF MoneyInv, Called, OneLock, Holds, Watched
<1>6. Receipts' /\ OneCartOnePayment' /\ RevocationReachesRail'
  BY DEF MoneyInv, Receipts, Answered, Backed, OneCartOnePayment, RevocationReachesRail
<1> QED
  BY <1>1, <1>3, <1>4, <1>5, <1>6 DEF MoneyInv

(* An attempt moves on without touching the order or the rail. *)
LEMMA AttemptMoves ==
  ASSUME MoneyInv, NEW a \in Attempts, NEW r \in AttemptRec,
         attempt' = [attempt EXCEPT ![a] = r],
         lost' \in {lost, lost \cup {a}},
         r.pc \in {"lock", "kernel", "rail"} => order # NoOrder,
         r.pc \in {"kernel", "rail"} =>
           order.status # "captured" /\ \A b \in Attempts : b # a => ~Holds(b),
         attempt[a].pc = "rail" => a \in lost' \/ (call[a].pc = "done" /\ ~Paid(a)),
         r.answer \in Calls => Answered(r.answer),
         UNCHANGED <<mandate, call, payments, idempotency, tardy, order, body>>
  PROVE  MoneyInv'
<1>1. /\ \A b \in Attempts : b # a => attempt'[b] = attempt[b]
      /\ attempt'[a] = r
      /\ lost \subseteq lost'
      /\ MoneyTypes'
  BY DEF MoneyInv, MoneyTypes
<1>2. TardyIsStopped' /\ Booked' /\ RevocationReachesRail'
  BY DEF MoneyInv, TardyIsStopped, Booked, Backed, RevocationReachesRail
<1>3. Called' /\ OneLock'
  BY <1>1 DEF MoneyInv, Called, OneLock, Holds
<1>4. Watched'
  <2>1. \A p \in payments : p.id \in Calls
    BY DEF MoneyInv, MoneyTypes
  <2> QED
    BY <1>1, <2>1 DEF MoneyInv, Watched, Paid
<1>5. Receipts'
  BY <1>1 DEF MoneyInv, Receipts, Answered, Backed
<1>6. OneCartOnePayment'
  BY <1>1 DEF MoneyInv, OneCartOnePayment
<1> QED
  BY <1>1, <1>2, <1>3, <1>4, <1>5, <1>6 DEF MoneyInv

LEMMA LookupInv ==
  ASSUME MoneyInv, NEW c \in Calls, Lookup(c), UNCHANGED <<issuer, shop>>
  PROVE  MoneyInv'
<1> DEFINE k == call[c].key
           r == IF idempotency[k] # None
                  THEN [call[c] EXCEPT !.pc = "done", !.answer = idempotency[k]]
                  ELSE [call[c] EXCEPT !.pc = "token"]
<1>1. /\ call[c].pc = "lookup" /\ call' = [call EXCEPT ![c] = r]
      /\ UNCHANGED <<mandate, payments, idempotency, tardy, order, body, attempt, lost>>
  BY DEF Lookup, Reply, Go, issuer, shop
<1>2. k \in Keys /\ call[c].answer = None /\ call[c] \in CallRec
  BY <1>1 DEF MoneyInv, MoneyTypes, Called, Booked
<1>3. idempotency[k] # None => idempotency[k] \in Calls /\ Backed(idempotency[k], k)
  BY <1>2 DEF MoneyInv, MoneyTypes, Booked
<1>4. /\ r \in CallRec /\ r.pc \in {"done", "token"} /\ r.key = k /\ r.amount = call[c].amount
      /\ r.answer # None => r.pc = "done"
      /\ r.answer \in Calls => Backed(r.answer, r.key)
  <2>1. CASE idempotency[k] # None
    BY <1>2, <1>3, <2>1 DEF CallRec
  <2>2. CASE idempotency[k] = None
    BY <1>2, <2>2, RailAssumption DEF CallRec
  <2> QED
    BY <2>1, <2>2
<1> HIDE DEF r
<1> QED
  BY <1>1, <1>4, CallMoves

(* The checks: a call that passes both is not late, because the issuer has  *)
(* just said that the mandate is active.                                    *)
LEMMA CheckInv ==
  ASSUME MoneyInv, NEW c \in Calls, CheckToken(c) \/ CheckMandate(c) \/ RailDies(c), UNCHANGED <<issuer, shop>>
  PROVE  MoneyInv'
<1>1. call[c].pc \notin {"none", "done"} /\ UNCHANGED <<mandate, payments, idempotency, tardy, order, body, attempt, lost>>
  BY DEF CheckToken, CheckMandate, RailDies, issuer, shop
<1>2. call[c] \in CallRec /\ call[c].answer = None
  BY <1>1 DEF MoneyInv, MoneyTypes, Booked
<1>3. CASE \E x \in {"refused", "lost"} : Reply(c, x)
  <2>1. PICK x \in {"refused", "lost"} : Reply(c, x)
    BY <1>3
  <2> DEFINE r == [call[c] EXCEPT !.pc = "done", !.answer = x]
  <2>2. call' = [call EXCEPT ![c] = r]
    BY <2>1 DEF Reply
  <2>3. r \in CallRec /\ r.pc = "done" /\ r.key = call[c].key /\ r.amount = call[c].amount /\ r.answer \notin Calls
    BY <1>2, RailAssumption DEF CallRec
  <2> HIDE DEF r
  <2> QED
    BY <1>1, <2>2, <2>3, CallMoves
<1>4. CASE \E l \in {"mandate", "settle"} : Go(c, l) /\ (l = "settle" => mandate.status = "active")
  <2>1. PICK l \in {"mandate", "settle"} : Go(c, l) /\ (l = "settle" => mandate.status = "active")
    BY <1>4
  <2> DEFINE r == [call[c] EXCEPT !.pc = l]
  <2>2. call' = [call EXCEPT ![c] = r]
    BY <2>1 DEF Go
  <2>3. r \in CallRec /\ r.pc = l /\ r.key = call[c].key /\ r.amount = call[c].amount /\ r.answer = None
    BY <1>2 DEF CallRec
  <2>4. l = "settle" => c \notin tardy
    BY <2>1 DEF MoneyInv, TardyIsStopped
  <2> HIDE DEF r
  <2> QED
    BY <1>1, <2>1, <2>2, <2>3, <2>4, RailAssumption, CallMoves
<1>5. CASE CheckToken(c)
  BY <1>3, <1>4, <1>5 DEF CheckToken, Refuse
<1>6. CASE CheckMandate(c)
  <2>1. PICK x \in mandate_status :
          IF Presentable /\ x = "active" /\ _check_checkout(c) THEN Go(c, "settle") ELSE Refuse(c)
    BY <1>6 DEF CheckMandate
  <2>2. x = "active" => mandate.status = "active"
    BY <2>1, MandatesAssumption DEF mandate_status, get_mandate_by_jti
  <2> QED
    BY <1>3, <1>4, <2>1, <2>2 DEF Refuse
<1>7. CASE RailDies(c)
  BY <1>3, <1>7 DEF RailDies
<1> QED
  BY <1>5, <1>6, <1>7

(* The payment.  Another payment of the cart is under another key, and then *)
(* its attempt or this one was left alone with its call: the lock does not  *)
(* let two attempts at the rail, nor one after the cart is captured.        *)
LEMMA SettleInv ==
  ASSUME MoneyInv, NEW c \in Calls, Settle(c), UNCHANGED <<issuer, shop>>
  PROVE  MoneyInv'
<1> DEFINE k == call[c].key
           n == [id |-> c, key |-> k, amount |-> call[c].amount]
           r == [call[c] EXCEPT !.pc = "done", !.answer = c]
<1>1. /\ call[c].pc = "settle"
      /\ UNCHANGED <<mandate, tardy, order, body, attempt, lost>>
  BY DEF Settle, issuer, shop
<1>2. /\ k \in Keys /\ call[c] \in CallRec
      /\ c \in Attempts => call[c].amount = order.price /\ order # NoOrder
      /\ k = body[c].key /\ c \notin tardy
  BY <1>1 DEF MoneyInv, MoneyTypes, Called, TardyIsStopped
<1>3. CASE idempotency[k] # None
  <2> DEFINE q == [call[c] EXCEPT !.pc = "done", !.answer = idempotency[k]]
  <2>1. call' = [call EXCEPT ![c] = q] /\ UNCHANGED <<payments, idempotency>>
    BY <1>3 DEF Settle, Reply
  <2>2. idempotency[k] \in Calls /\ Backed(idempotency[k], k)
    BY <1>2, <1>3 DEF MoneyInv, MoneyTypes, Booked
  <2>3. /\ q \in CallRec /\ q.pc = "done" /\ q.key = k /\ q.amount = call[c].amount
        /\ q.answer = idempotency[k]
    BY <1>2, <2>2 DEF CallRec
  <2> HIDE DEF q
  <2> QED
    BY <1>1, <2>1, <2>2, <2>3, CallMoves
<1>4. CASE idempotency[k] = None
  <2>1. /\ payments' = payments \cup {n}
        /\ idempotency' = [idempotency EXCEPT ![k] = c]
        /\ call' = [call EXCEPT ![c] = r]
    BY <1>4 DEF Settle, Reply
  <2>2. /\ r \in CallRec /\ r.pc = "done" /\ r.answer = c /\ r.key = k /\ r.amount = call[c].amount
        /\ n \in [id : Calls, key : Keys, amount : Nat] /\ n.id = c /\ n.key = k
        /\ n.amount = call[c].amount
    BY <1>2 DEF CallRec
  <2> HIDE DEF n, r
  <2>3. /\ call'[c] = r /\ \A d \in Calls : d # c => call'[d] = call[d]
        /\ idempotency'[k] = c /\ \A j \in Keys : j # k => idempotency'[j] = idempotency[j]
    BY <1>2, <2>1 DEF MoneyInv, MoneyTypes
  <2>4. \A p \in payments : /\ p.id \in Calls /\ p.id # c /\ p.key \in Keys
                            /\ p.key # k /\ body[p.id].key = p.key
    <3> SUFFICES ASSUME NEW p \in payments
                 PROVE  /\ p.id \in Calls /\ p.id # c /\ p.key \in Keys
                        /\ p.key # k /\ body[p.id].key = p.key
      OBVIOUS
    <3>1. /\ p.id \in Calls /\ p.key \in Keys /\ call[p.id].pc = "done" /\ call[p.id].key = p.key
          /\ idempotency[p.key] = p.id
      BY DEF MoneyInv, MoneyTypes, Booked
    <3>2. body[p.id].key = p.key
      BY <3>1 DEF MoneyInv, Called
    <3>3. p.id # c
      BY <1>1, <3>1
    <3>4. p.key # k
      BY <1>4, <3>1, RailAssumption DEF k
    <3> QED
      BY <3>1, <3>2, <3>3, <3>4
  <2>5. MoneyTypes'
    BY <1>1, <1>2, <2>1, <2>2 DEF MoneyInv, MoneyTypes
  <2>6. TardyIsStopped' /\ RevocationReachesRail'
    BY <1>1, <1>2, <2>1, <2>2, <2>3 DEF MoneyInv, MoneyTypes, TardyIsStopped, RevocationReachesRail
  <2>7. \A d, j : Backed(d, j) => Backed(d, j)'
    BY <2>1 DEF Backed
  <2>8. \A j : j = k => Backed(c, j)'
    <3>1. n \in payments' /\ n.id = c /\ n.key = k
      BY <2>1, <2>2
    <3>2. \E p \in payments' : p.id = c /\ p.key = k
      BY <3>1
    <3> HIDE DEF k
    <3> QED BY <3>2 DEF Backed
  <2>9. Booked'
    <3>1. ASSUME NEW p \in payments'
          PROVE  /\ call'[p.id].pc = "done" /\ call'[p.id].answer = p.id
                 /\ call'[p.id].key = p.key /\ idempotency'[p.key] = p.id
                 /\ p.id \in Attempts => p.amount = order'.price
      <4>1. CASE p = n
        BY <1>1, <1>2, <2>2, <2>3, <4>1
      <4>2. CASE p \in payments
        BY <1>1, <2>3, <2>4, <4>2 DEF MoneyInv, Booked
      <4> QED
        BY <2>1, <3>1, <4>1, <4>2
    <3>2. ASSUME NEW j \in Keys, idempotency'[j] # None PROVE Backed(idempotency[j], j)'
      BY <2>3, <2>7, <2>8, <3>2 DEF MoneyInv, Booked
    <3>3. ASSUME NEW d \in Calls
          PROVE  /\ call'[d].answer # None => call'[d].pc = "done"
                 /\ call'[d].answer \in Calls => Backed(call[d].answer, call[d].key)'
      <4>1. CASE d = c
        <5>1. call'[c].answer = c /\ call'[c].key = k /\ call'[c].pc = "done"
          BY <2>2, <2>3
        <5>2. \E p \in payments' : p.id = c /\ p.key = k
          BY <2>1, <2>2
        <5>3. Backed(call[c].answer, call[c].key)'
          BY <5>1, <5>2 DEF Backed
        <5> QED
          BY <4>1, <5>1, <5>3
      <4>2. CASE d # c
        BY <2>3, <2>7, <4>2 DEF MoneyInv, Booked
      <4> QED
        BY <4>1, <4>2
    <3> QED
      BY <3>1, <3>2, <3>3 DEF Booked
  <2>10. Called' /\ OneLock'
    BY <1>1, <1>2, <2>2, <2>3, AttemptsAreCalls DEF MoneyInv, Called, OneLock, Holds
  <2>11. c \in Attempts => c \in lost \/ attempt[c].pc = "rail"
    BY <1>1 DEF MoneyInv, Watched
  <2>12. Watched'
    BY <1>1, <2>1, <2>2, <2>3, <2>11, AttemptsAreCalls DEF MoneyInv, Watched
  <2>13. Receipts'
    BY <1>1, <2>7 DEF MoneyInv, Receipts, Answered
  <2>14. ASSUME NEW p \in payments, p.id \in Attempts, c \in Attempts
         PROVE  p.key # k /\ \E a \in lost : body[a].key \in {p.key, k}
    <3> SUFFICES c \in lost \/ p.id \in lost
      BY <1>2, <2>4
    <3>1. CASE attempt[c].pc = "rail"
      <4>1. order.status # "captured" /\ (attempt[p.id].pc = "rail" => p.id = c)
        BY <2>14, <3>1 DEF MoneyInv, OneLock, Holds
      <4> QED
        BY <2>4, <2>14, <4>1 DEF MoneyInv, Watched
    <3> QED
      BY <2>11, <2>14, <3>1
  <2>15. OneCartOnePayment'
    <3> SUFFICES ASSUME NEW p \in payments', NEW q \in payments', p # q,
                        p.id \in Attempts, q.id \in Attempts
                 PROVE  p.key # q.key /\ \E a \in lost : body[a].key \in {p.key, q.key}
      BY <1>1 DEF OneCartOnePayment
    <3>1. CASE p = n
      <4>1. q \in payments /\ c \in Attempts
        BY <2>1, <2>2, <3>1
      <4> QED BY <2>2, <2>14, <3>1, <4>1
    <3>2. CASE q = n
      <4>1. p \in payments /\ c \in Attempts
        BY <2>1, <2>2, <3>2
      <4> QED BY <2>2, <2>14, <3>2, <4>1
    <3>3. CASE p \in payments /\ q \in payments
      BY <3>3 DEF MoneyInv, OneCartOnePayment
    <3> QED
      BY <2>1, <3>1, <3>2, <3>3
  <2> QED
    BY <2>5, <2>6, <2>9, <2>10, <2>12, <2>13, <2>15 DEF MoneyInv
<1> QED
  BY <1>3, <1>4

(* The call is made by the attempt that holds the order, for its price. *)
LEMMA CaptureInv ==
  ASSUME MoneyInv, NEW a \in Attempts, Capture(a)
  PROVE  MoneyInv'
<1> DEFINE n == [NoCall EXCEPT !.pc = "lookup", !.key = body[a].key, !.amount = order.price, !.cart = order.price]
           r == [attempt[a] EXCEPT !.pc = "rail"]
<1>1. /\ attempt[a].pc = "kernel" /\ call[a].pc = "none"
      /\ attempt' = [attempt EXCEPT ![a] = r]
      /\ call' = [call EXCEPT ![a] = n]
      /\ tardy' = IF mandate.status = "revoked" THEN tardy \cup {a} ELSE tardy
      /\ UNCHANGED <<mandate, payments, idempotency, order, body, lost>>
  BY DEF Capture, At, Step, Arrive, issuer
<1>2. /\ body[a].key \in Keys /\ order.price \in Nat /\ order # NoOrder
      /\ attempt[a] \in AttemptRec /\ a \in Calls
  BY <1>1, AttemptsAreCalls, MerchantAssumption DEF MoneyInv, MoneyTypes, OrderRec, Called
<1>3. /\ n \in CallRec /\ n.pc = "lookup" /\ n.key = body[a].key /\ n.amount = order.price /\ n.answer = None
      /\ r \in AttemptRec /\ r.pc = "rail" /\ r.answer = attempt[a].answer
  BY <1>2 DEF NoCall, CallRec, AttemptRec
<1> HIDE DEF n, r
<1>4. /\ call'[a] = n /\ \A d \in Calls : d # a => call'[d] = call[d]
      /\ attempt'[a] = r /\ \A b \in Attempts : b # a => attempt'[b] = attempt[b]
  BY <1>1, <1>2 DEF MoneyInv, MoneyTypes
<1>5. \A p \in payments : p.id \in Calls /\ p.id # a
  BY <1>1 DEF MoneyInv, MoneyTypes, Booked
<1>6. MoneyTypes'
  BY <1>1, <1>2, <1>3 DEF MoneyInv, MoneyTypes
<1>7. TardyIsStopped'
  BY <1>1, <1>2, <1>3, <1>4 DEF MoneyInv, MoneyTypes, TardyIsStopped
<1>8. Booked'
  BY <1>1, <1>3, <1>4, <1>5, RailAssumption DEF MoneyInv, Booked, Backed
<1>9. Called'
  BY <1>1, <1>2, <1>3, <1>4, AttemptsAreCalls DEF MoneyInv, Called
<1>10. OneLock'
  BY <1>1, <1>3, <1>4 DEF MoneyInv, OneLock, Holds
<1>11. Watched'
  BY <1>1, <1>3, <1>4, <1>5, AttemptsAreCalls DEF MoneyInv, Watched
<1>12. Receipts'
  BY <1>1, <1>3, <1>4 DEF MoneyInv, Receipts, Answered, Backed
<1>13. OneCartOnePayment' /\ RevocationReachesRail'
  BY <1>1, <1>5 DEF MoneyInv, OneCartOnePayment, RevocationReachesRail
<1> QED
  BY <1>6, <1>7, <1>8, <1>9, <1>10, <1>11, <1>12, <1>13 DEF MoneyInv

(* The receipt is stored by the attempt that holds the order, and is the    *)
(* payment the rail has answered with.                                      *)
LEMMA CapturedInv ==
  ASSUME MoneyInv, NEW a \in Attempts, mark_captured(a)
  PROVE  MoneyInv'
<1> DEFINE o == [order EXCEPT !.status = "captured", !.purchase = body[a].purchase, !.receipt = call[a].answer]
           r == [pc |-> "done", answer |-> call[a].answer]
<1>1. /\ attempt[a].pc = "rail" /\ call[a].pc = "done" /\ call[a].answer \in Calls
      /\ attempt' = [attempt EXCEPT ![a] = r]
      /\ order' = o
      /\ UNCHANGED <<mandate, call, payments, idempotency, tardy, body, lost>>
  BY DEF mark_captured, At, End, issuer, rail, ledger
<1>2. /\ Answered(call[a].answer) /\ a \in Calls
      /\ order \in OrderRec /\ body[a].purchase \in Purchases
  BY <1>1, AttemptsAreCalls DEF MoneyInv, MoneyTypes, Booked, Called, Answered
<1>3. /\ o \in OrderRec /\ o.status = "captured" /\ o.price = order.price /\ o.receipt = call[a].answer
      /\ o # NoOrder
      /\ r \in AttemptRec /\ r.pc = "done" /\ r.answer = call[a].answer
  BY <1>1, <1>2, MerchantAssumption DEF OrderRec, AttemptRec, NoOrder
<1> HIDE DEF o, r
<1>4. attempt'[a] = r /\ \A b \in Attempts : b # a => attempt'[b] = attempt[b]
  BY <1>1 DEF MoneyInv, MoneyTypes
<1>5. \A b \in Attempts : ~Holds(b)'
  BY <1>1, <1>3, <1>4 DEF MoneyInv, OneLock, Holds
<1>6. MoneyTypes'
  BY <1>1, <1>3 DEF MoneyInv, MoneyTypes
<1>7. TardyIsStopped' /\ OneCartOnePayment' /\ RevocationReachesRail'
  BY <1>1 DEF MoneyInv, TardyIsStopped, OneCartOnePayment, RevocationReachesRail
<1>8. Booked'
  BY <1>1, <1>3 DEF MoneyInv, Booked, Backed
<1>9. Called'
  BY <1>1, <1>3, <1>4, MerchantAssumption DEF MoneyInv, Called
<1>10. OneLock'
  BY <1>5 DEF OneLock
<1>11. Watched'
  BY <1>1, <1>3, <1>4 DEF MoneyInv, Watched
<1>12. Receipts'
  BY <1>1, <1>2, <1>3, <1>4 DEF MoneyInv, Receipts, Answered, Backed
<1> QED
  BY <1>6, <1>7, <1>8, <1>9, <1>10, <1>11, <1>12 DEF MoneyInv

(* Before the quote no attempt is under way, has called or has paid. *)
LEMMA QuoteInv ==
  ASSUME MoneyInv, PriceType, quote
  PROVE  MoneyInv'
<1> DEFINE o == [NoOrder EXCEPT !.status = "quoted", !.price = price]
<1>1. /\ order = NoOrder /\ order' = o /\ price # None
      /\ UNCHANGED <<mandate, call, payments, idempotency, tardy, body, attempt, lost>>
  BY DEF quote, get_offer, issuer, rail, ledger
<1>2. \A c \in Attempts : call[c].pc = "none" /\ attempt[c].pc \in {"idle", "done"}
  BY <1>1 DEF MoneyInv, MoneyTypes, AttemptRec, Called
<1>3. \A p \in payments : p.id \notin Attempts
  BY <1>2 DEF MoneyInv, MoneyTypes, Booked
<1>4. price \in Prices
  BY <1>1 DEF PriceType
<1>5. o \in OrderRec /\ o.status = "quoted" /\ o.receipt = None
  BY <1>4 DEF OrderRec, NoOrder
<1> HIDE DEF o
<1>6. MoneyTypes'
  BY <1>1, <1>5 DEF MoneyInv, MoneyTypes
<1>7. TardyIsStopped' /\ OneCartOnePayment' /\ RevocationReachesRail'
  BY <1>1 DEF MoneyInv, TardyIsStopped, OneCartOnePayment, RevocationReachesRail
<1>8. Booked'
  BY <1>1, <1>3 DEF MoneyInv, Booked, Backed
<1>9. Called' /\ OneLock' /\ Watched'
  BY <1>1, <1>2, <1>3, <1>5, MerchantAssumption DEF MoneyInv, Called, OneLock, Holds, Watched
<1>10. Receipts'
  BY <1>1, <1>5, RailAssumption DEF MoneyInv, Receipts, Answered, Backed
<1> QED
  BY <1>6, <1>7, <1>8, <1>9, <1>10 DEF MoneyInv

(* An attempt enters, or is refused at the door. *)
LEMMA PresentInv ==
  ASSUME MoneyInv, NEW a \in Attempts, Present(a)
  PROVE  MoneyInv'
<1>1. /\ attempt[a].pc = "idle" /\ order # NoOrder
      /\ Step(a, "lock") \/ End(a, "refused")
      /\ UNCHANGED <<mandate, call, payments, idempotency, tardy, order, body, lost>>
  BY DEF Present, At, issuer, rail, ledger
<1>2. PICK r \in AttemptRec :
        /\ attempt' = [attempt EXCEPT ![a] = r]
        /\ r.pc \in {"lock", "done"}
        /\ r.answer \in {attempt[a].answer, "refused"}
  <2>1. attempt[a] \in AttemptRec
    BY DEF MoneyInv, MoneyTypes
  <2>2. CASE Step(a, "lock")
    <3> DEFINE r == [attempt[a] EXCEPT !.pc = "lock"]
    <3>1. r \in AttemptRec /\ r.pc = "lock" /\ r.answer = attempt[a].answer
      BY <2>1 DEF AttemptRec
    <3>2. attempt' = [attempt EXCEPT ![a] = r]
      BY <2>2 DEF Step
    <3> QED
      BY <3>1, <3>2
  <2>3. CASE End(a, "refused")
    <3> DEFINE r == [pc |-> "done", answer |-> "refused"]
    <3>1. r \in AttemptRec /\ r.pc = "done" /\ r.answer = "refused"
      BY DEF AttemptRec
    <3>2. attempt' = [attempt EXCEPT ![a] = r]
      BY <2>3 DEF End
    <3> QED
      BY <3>1, <3>2
  <2> QED
    BY <1>1, <2>2, <2>3
<1>3. r.answer \in Calls => Answered(r.answer)
  BY <1>2, RailAssumption DEF MoneyInv, Receipts
<1> QED
  BY <1>1, <1>2, <1>3, AttemptMoves

(* The row is locked by an attempt that finds it free, or the stored        *)
(* receipt is given out.                                                    *)
LEMMA LockInv ==
  ASSUME MoneyInv, NEW a \in Attempts, VerifyCheckout(a)
  PROVE  MoneyInv'
<1>1. /\ attempt[a].pc = "lock" /\ \A b \in Attempts : ~Holds(b)
      /\ UNCHANGED <<mandate, call, payments, idempotency, tardy, order, body, lost>>
  BY DEF VerifyCheckout, At, OrderLocked, Holds, issuer, rail, ledger
<1>2. order # NoOrder /\ order.status \in {"quoted", "captured"}
  BY <1>1 DEF MoneyInv, MoneyTypes, OrderRec, Called
<1>3. attempt[a] \in AttemptRec
  BY DEF MoneyInv, MoneyTypes
<1>4. CASE order.status = "quoted"
  <2> DEFINE r == [attempt[a] EXCEPT !.pc = "kernel"]
  <2>1. r \in AttemptRec /\ r.pc = "kernel" /\ r.answer = attempt[a].answer
    BY <1>3 DEF AttemptRec
  <2>2. attempt' = [attempt EXCEPT ![a] = r]
    BY <1>4 DEF VerifyCheckout, Step
  <2>3. r.answer \in Calls => Answered(r.answer)
    BY <2>1 DEF MoneyInv, Receipts
  <2> HIDE DEF r
  <2> QED
    BY <1>1, <1>2, <1>4, <2>1, <2>2, <2>3, AttemptMoves
<1>5. CASE order.status = "captured"
  <2> DEFINE r == [pc |-> "done", answer |-> StoredAnswer(a)]
  <2>1. attempt' = [attempt EXCEPT ![a] = r]
    BY <1>5 DEF VerifyCheckout, End
  <2>2. StoredAnswer(a) \in {order.receipt, "refused"} /\ order.receipt \in Calls \cup {None}
    BY DEF StoredAnswer, MoneyInv, MoneyTypes, OrderRec
  <2>3. r \in AttemptRec /\ r.pc = "done" /\ r.answer = StoredAnswer(a)
    BY <2>2 DEF AttemptRec
  <2>4. r.answer \in Calls => Answered(r.answer)
    BY <2>2, <2>3, RailAssumption DEF MoneyInv, Receipts
  <2> HIDE DEF r
  <2> QED
    BY <1>1, <2>1, <2>3, <2>4, AttemptMoves
<1> QED
  BY <1>2, <1>4, <1>5

(* The other ends of an attempt: refused before or by the rail, given up,   *)
(* or dead.  Only a rail that has refused lets it go without a trace.       *)
LEMMA EndInv ==
  ASSUME MoneyInv, NEW a \in Attempts, Unapproved(a) \/ RailRefuses(a) \/ GiveUp(a) \/ Unsettled(a)
  PROVE  MoneyInv'
<1>1. PICK x \in {"refused", "error"} : End(a, x)
  BY DEF Unapproved, RailRefuses, GiveUp, Unsettled
<1>2. /\ lost' \in {lost, lost \cup {a}}
      /\ attempt[a].pc = "rail" => a \in lost' \/ call[a].answer = "refused"
      /\ UNCHANGED <<mandate, call, payments, idempotency, tardy, order, body>>
  BY DEF Unapproved, RailRefuses, GiveUp, Unsettled, At, issuer, rail, ledger
<1>3. call[a].answer = "refused" => call[a].pc = "done" /\ ~Paid(a)
  BY AttemptsAreCalls, RailAssumption DEF MoneyInv, MoneyTypes, Booked, Paid
<1> DEFINE r == [pc |-> "done", answer |-> x]
<1>4. r \in AttemptRec /\ r.pc = "done" /\ r.answer = x
  BY DEF AttemptRec
<1>5. r.answer \notin Calls
  BY <1>4, RailAssumption, MerchantAssumption
<1>6. attempt' = [attempt EXCEPT ![a] = r]
  BY <1>1 DEF End
<1> HIDE DEF r
<1> QED
  BY <1>2, <1>3, <1>4, <1>5, <1>6, AttemptMoves

(* Another cart is charged: a call that no attempt makes. *)
LEMMA ElsewhereCharged ==
  ASSUME MoneyInv, NEW o \in Others, ChargeElsewhere(o)
  PROVE  MoneyInv'
<1>1. PICK v \in Prices : Arrive(o, body[o].key, v, v)
  BY DEF ChargeElsewhere
<1> DEFINE n == [NoCall EXCEPT !.pc = "lookup", !.key = body[o].key, !.amount = v, !.cart = v]
<1>2. /\ call[o].pc = "none" /\ call' = [call EXCEPT ![o] = n]
      /\ tardy' = IF mandate.status = "revoked" THEN tardy \cup {o} ELSE tardy
      /\ UNCHANGED <<mandate, payments, idempotency, order, body, attempt, lost>>
  BY <1>1 DEF Arrive, ChargeElsewhere, issuer, shop
<1>3. o \in Calls /\ o \notin Attempts /\ body[o].key \in Keys /\ v \in Nat
  BY MerchantAssumption DEF Attempts, MoneyInv, MoneyTypes
<1>4. n \in CallRec /\ n.pc = "lookup" /\ n.key = body[o].key /\ n.answer = None
  BY <1>3 DEF NoCall, CallRec
<1> HIDE DEF n
<1>5. call'[o] = n /\ \A d \in Calls : d # o => call'[d] = call[d]
  BY <1>2, <1>3 DEF MoneyInv, MoneyTypes
<1>6. \A p \in payments : p.id \in Calls /\ p.id # o
  BY <1>2 DEF MoneyInv, MoneyTypes, Booked
<1>7. MoneyTypes'
  BY <1>2, <1>3, <1>4 DEF MoneyInv, MoneyTypes
<1>8. TardyIsStopped'
  BY <1>2, <1>3, <1>4, <1>5 DEF MoneyInv, MoneyTypes, TardyIsStopped
<1>9. Booked'
  BY <1>2, <1>4, <1>5, <1>6, RailAssumption DEF MoneyInv, Booked, Backed
<1>10. Called' /\ OneLock' /\ Watched'
  BY <1>2, <1>3, <1>4, <1>5, AttemptsAreCalls DEF MoneyInv, Called, OneLock, Holds, Watched
<1>11. Receipts' /\ OneCartOnePayment' /\ RevocationReachesRail'
  BY <1>2, <1>6 DEF MoneyInv, Receipts, Answered, Backed, OneCartOnePayment, RevocationReachesRail
<1> QED
  BY <1>7, <1>8, <1>9, <1>10, <1>11 DEF MoneyInv

LEMMA PriceNext ==
  ASSUME PriceType, [CommerceNext]_vars
  PROVE  PriceType'
<1>1. price' = price \/ price' \in Prices \cup {None}
  BY DEF CommerceNext, vars, shop, CreateMandate, update_price, quote, ChargeElsewhere, Present, VerifyCheckout, Capture,
         Unapproved, mark_captured, RailRefuses, GiveUp, Unsettled
<1> QED
  BY <1>1 DEF PriceType

LEMMA MoneyNext ==
  ASSUME IssuerInv, MoneyInv, PriceType, [CommerceNext]_vars
  PROVE  MoneyInv'
<1>1. CASE UNCHANGED vars
  BY <1>1, ElsewhereInv DEF vars, rail, ledger, shop, moneyVars
<1>2. CASE MandatesNext /\ UNCHANGED <<rail, shop>>
  BY <1>2, ElsewhereInv DEF rail, ledger, shop, moneyVars
<1>3. CASE RailNext /\ UNCHANGED <<issuer, shop>>
  <2>1. CASE \/ \E n \in Enrolments :
                  \/ create_setup_token(n) \/ approve_setup_token(n) \/ Lapse(n)
                  \/ \E t \in Tokens : ExchangeRead(n, t)
             \/ \E x \in confirming : ExchangeWrite(x)
    BY <1>3, <2>1, ElsewhereInv
    DEF create_setup_token, approve_setup_token, Lapse, ExchangeRead, ExchangeWrite, ledger, shop, moneyVars
  <2>2. CASE \E c \in Calls : DisputeNext(c)
    BY <1>3, <2>2, ElsewhereInv DEF DisputeNext, open_dispute, AdjudicateRead, adjudicate, shop, moneyVars
  <2>3. CASE \E c \in Calls : Lookup(c)
    BY <1>3, <2>3, LookupInv
  <2>4. CASE \E c \in Calls : CheckToken(c) \/ CheckMandate(c) \/ RailDies(c)
    BY <1>3, <2>4, CheckInv
  <2>5. CASE \E c \in Calls : Settle(c)
    BY <1>3, <2>5, SettleInv
  <2> QED
    BY <1>3, <2>1, <2>2, <2>3, <2>4, <2>5 DEF RailNext
<1>4. CASE \E g \in Gestures : delete_token(g) /\ UNCHANGED shop
  BY <1>4, ElsewhereInv DEF delete_token, ledger, shop, moneyVars
<1>5. CASE \E t \in Tokens \cup {None} : CreateMandate(t)
  BY <1>5, ElsewhereInv DEF CreateMandate, create_setup_token, rail, ledger, shop, moneyVars
<1>6. CASE \E v \in Prices \cup {None} : update_price(v)
  BY <1>6, ElsewhereInv DEF update_price, rail, ledger, moneyVars
<1>7. CASE quote
  BY <1>7, QuoteInv
<1>8. ASSUME NEW a \in Attempts,
             \/ Present(a) \/ VerifyCheckout(a) \/ Capture(a) \/ Unapproved(a)
             \/ mark_captured(a) \/ RailRefuses(a) \/ GiveUp(a) \/ Unsettled(a)
      PROVE  MoneyInv'
  BY <1>8, PresentInv, LockInv, CaptureInv, CapturedInv, EndInv
<1>9. CASE \E o \in Others : ChargeElsewhere(o)
  BY <1>9, ElsewhereCharged
<1> QED
  BY <1>1, <1>2, <1>3, <1>4, <1>5, <1>6, <1>7, <1>8, <1>9 DEF CommerceNext

LEMMA CommerceInductive == CommerceSpec => [](IssuerInv /\ MoneyInv /\ PriceType)
<1>1. CommerceInit => IssuerInv /\ MoneyInv /\ PriceType
  BY IssuerInit, MoneyInit DEF CommerceInit, MerchantInit, seed_initial_offers, PriceType
<1>2. IssuerInv /\ MoneyInv /\ PriceType /\ [CommerceNext]_vars => (IssuerInv /\ MoneyInv /\ PriceType)'
  BY IssuerNext, MoneyNext, PriceNext
<1> QED
  BY <1>1, <1>2, PTL DEF CommerceSpec

(* A call of POST /v1/payments that arrives after the holder's revocation   *)
(* has committed never captures (yuno_sim/payments.py, ap2_verifier.py),    *)
(* for any number of calls, tokens and gestures.                            *)
THEOREM RevokedNeverCaptures == CommerceSpec => []RevocationReachesRail
<1>1. MoneyInv => RevocationReachesRail
  BY DEF MoneyInv
<1> QED
  BY <1>1, CommerceInductive, PTL

(* A cart is paid a second time only when the answer to an attempt was lost *)
(* and the retry came under another idempotency key (merchant/charge.py).   *)
THEOREM CartIsPaidOnce == CommerceSpec => []OneCartOnePayment
<1>1. MoneyInv => OneCartOnePayment
  BY DEF MoneyInv
<1> QED
  BY <1>1, CommerceInductive, PTL

(* Every receipt, stored with the order or handed to an attempt, names a    *)
(* payment that was made under a key one of the attempts has sent, and of   *)
(* the cart's price, unless that key had paid for another cart first        *)
(* (merchant/charge.py, mark_captured; yuno_sim/payments.py, step 1).       *)
THEOREM ReceiptsArePaid == CommerceSpec => []ReceiptIsPaid
<1> QED
  BY MoneyInvGives, CommerceInductive, PTL
----------------------------------------------------------------------------
(* The vault, and what the issuer's tables say about it *)

(* What the earlier sections left untyped.                                  *)
HolderTypes ==
  /\ instrument \in {None, "active", "deleted"}
  /\ stale \subseteq Purposes
  /\ asserted \in [Purposes -> Nat \cup {None}]
  /\ credential \in Nat \cup {None}

VaultTypes ==
  /\ setup \in [Enrolments -> {None, "pending", "approved", "exchanged", "lapsed"}]
  /\ tokens \in [Tokens -> {None, "active", "deleted"}]
  /\ confirming \subseteq [token : Tokens, of : Enrolments]

DisputeTypes ==
  /\ disputes \in [Calls -> {None, "open", "SELLER_FAVOR", "BUYER_FAVOR"}]
  /\ judging \in [Calls -> 0..2]

(* A confirmation in flight will make a token of its own: none that is      *)
(* there comes to life again.                                               *)
FreshTokens ==
  /\ \A x \in confirming : tokens[x.token] = None
  /\ \A x, y \in confirming : x.token = y.token => x = y

(* The mandate names a token the vault has made, only a revocation asks for *)
(* its deletion, and the row is marked after the rail has answered.         *)
Linked ==
  /\ mandate.status = None => mandate.token = None
  /\ mandate.token # None => tokens[mandate.token] \in {"active", "deleted"}
  /\ instrument # None => mandate.token # None
  /\ \A g \in Gestures : req[g].pc \in {"delete", "mark"} => mandate.status = "revoked" /\ instrument # None
  /\ \A g \in Gestures : req[g].pc = "mark" => tokens[mandate.token] = "deleted"
  /\ instrument = "deleted" => mandate.status = "revoked" /\ tokens[mandate.token] = "deleted"

(* Only what was captured is disputed, and only what is disputed judged.    *)
Disputed ==
  \A c \in Calls : /\ disputes[c] # None => Paid(c)
                   /\ judging[c] > 0 => disputes[c] # None

VaultInv == HolderTypes /\ VaultTypes /\ DisputeTypes /\ FreshTokens /\ Linked /\ Disputed

(* A counter the authenticator may report next.                             *)
LEMMA CounterIsNat ==
  ASSUME NEW f \in [Purposes -> Nat \cup {None}]
  PROVE  Max({f[q] : q \in {r \in Purposes : f[r] # None}} \cup {0}) \in Nat
<1> DEFINE N(r) == IF f[r] = None THEN 0 ELSE f[r]
           n == N("register") + N("activate") + N("revoke")
           M == {f[q] : q \in {r \in Purposes : f[r] # None}} \cup {0}
<1>1. \A r \in Purposes : N(r) \in Nat
  OBVIOUS
<1>2. N("register") \in Nat /\ N("activate") \in Nat /\ N("revoke") \in Nat
  BY <1>1 DEF Purposes
<1>3. \A r \in Purposes : f[r] # None => f[r] = N(r)
  OBVIOUS
<1> HIDE DEF N
<1>4. n \in Nat /\ \A r \in Purposes : N(r) <= n
  BY <1>2 DEF Purposes
<1>5. M \subseteq 0..n /\ M # {}
  BY <1>1, <1>3, <1>4
<1> HIDE DEF n, M
<1>6. Max(M) \in M
  BY <1>4, <1>5, MaxOf
<1> QED
  BY <1>4, <1>5, <1>6 DEF M

LEMMA VaultInit == CommerceInit => VaultInv
<1> SUFFICES ASSUME CommerceInit PROVE VaultInv
  OBVIOUS
<1> USE DEF CommerceInit, MandatesInit, RailInit
<1>1. HolderTypes /\ VaultTypes /\ DisputeTypes
  BY DEF HolderTypes, VaultTypes, DisputeTypes
<1>2. FreshTokens /\ Disputed
  BY DEF FreshTokens, Disputed
<1>3. Linked
  BY MandatesAssumption DEF Linked, MandateRow, IdleRequest
<1> QED
  BY <1>1, <1>2, <1>3 DEF VaultInv

LEMMA HolderNext ==
  ASSUME HolderTypes, [CommerceNext]_vars
  PROVE  HolderTypes'
<1> USE DEF HolderTypes
<1>1. ASSUME NEW p \in Purposes, Sign(p) PROVE HolderTypes'
  <2> DEFINE m == Max({asserted[q] : q \in {r \in Purposes : asserted[r] # None}} \cup {0})
             v == IF counts THEN 1 + m ELSE 0
  <2>1. m \in Nat
    BY CounterIsNat
  <2> HIDE DEF m
  <2>2. v \in Nat
    BY <2>1
  <2>3. asserted' = [asserted EXCEPT ![p] = v] /\ UNCHANGED <<instrument, stale, credential>>
    BY <1>1 DEF Sign, m
  <2> HIDE DEF v
  <2> QED
    BY <2>2, <2>3
<1>2. CASE \E p \in Purposes : Age(p)
  BY <1>2 DEF Age
<1>3. CASE begin_registration \/ complete_registration \/ begin_revoke
  BY <1>3 DEF begin_registration, complete_registration, begin_revoke, store_credential, Purposes
<1>4. CASE \E g \in Gestures : assert_passkey(g) \/ revoke_mandate(g)
  BY <1>4 DEF assert_passkey, revoke_mandate, Transition, advance_sign_count, link_instrument, Purposes
<1>5. CASE \E g \in Gestures : \/ \E p \in {"activate", "revoke"} : _verify_gesture(g, p)
                               \/ mark_instrument_deleted(g) \/ GiveUpDelete(g) \/ Rollback(g) \/ delete_token(g)
  BY <1>5 DEF _verify_gesture, mark_instrument_deleted, GiveUpDelete, Rollback, delete_token
<1>6. CASE \/ \E s \in Moves : Move(s)
           \/ \E t \in Tokens \cup {None} : create_mandate(t)
           \/ UNCHANGED issuer \/ UNCHANGED vars
  BY <1>6 DEF Move, create_mandate, issuer, vars
<1> QED
  BY <1>1, <1>2, <1>3, <1>4, <1>5, <1>6, IssuerStep DEF MandatesNext

(* What the shop does by itself.                                            *)
ShopStep ==
  \/ \E v \in Prices \cup {None} : update_price(v)
  \/ quote
  \/ \E a \in Attempts : \/ Present(a) \/ VerifyCheckout(a) \/ Unapproved(a) \/ mark_captured(a)
                         \/ RailRefuses(a) \/ GiveUp(a) \/ Unsettled(a)

LEMMA ShopAlone == ShopStep => issuer' = issuer /\ rail' = rail
<1> SUFFICES ASSUME ShopStep PROVE issuer' = issuer /\ rail' = rail
  OBVIOUS
<1>1. CASE quote \/ \E v \in Prices \cup {None} : update_price(v)
  BY <1>1 DEF quote, update_price
<1>2. ASSUME NEW a \in Attempts, Present(a) \/ Unapproved(a) \/ mark_captured(a)
      PROVE  issuer' = issuer /\ rail' = rail
  BY <1>2 DEF Present, Unapproved, mark_captured
<1>3. ASSUME NEW a \in Attempts, RailRefuses(a) \/ GiveUp(a) \/ Unsettled(a)
      PROVE  issuer' = issuer /\ rail' = rail
  BY <1>3 DEF RailRefuses, GiveUp, Unsettled
<1>4. ASSUME NEW a \in Attempts, VerifyCheckout(a) PROVE issuer' = issuer /\ rail' = rail
  BY <1>4, Zenon DEF VerifyCheckout
<1> QED
  BY <1>1, <1>2, <1>3, <1>4 DEF ShopStep

(* Every step of the composition is, for the vault, one of its own, a       *)
(* deletion, or none.                                                       *)
LEMMA VaultStep ==
  CommerceNext => \/ \E n \in Enrolments : /\ create_setup_token(n) \/ approve_setup_token(n) \/ Lapse(n)
                                           /\ UNCHANGED <<instrument, req>>
                                           /\ UNCHANGED mandate \/ \E t \in Tokens \cup {None} : CreateMandate(t)
                  \/ \E n \in Enrolments, t \in Tokens : ExchangeRead(n, t) /\ UNCHANGED issuer
                  \/ \E x \in confirming : ExchangeWrite(x) /\ UNCHANGED issuer
                  \/ \E g \in Gestures : delete_token(g)
                  \/ MandatesNext /\ UNCHANGED vault
                  \/ \E t \in Tokens \cup {None} : CreateMandate(t) /\ UNCHANGED vault
                  \/ UNCHANGED <<issuer, vault>>
<1> SUFFICES ASSUME CommerceNext
             PROVE  \/ \E n \in Enrolments : /\ create_setup_token(n) \/ approve_setup_token(n) \/ Lapse(n)
                                             /\ UNCHANGED <<instrument, req>>
                                             /\ UNCHANGED mandate \/ \E t \in Tokens \cup {None} : CreateMandate(t)
                    \/ \E n \in Enrolments, t \in Tokens : ExchangeRead(n, t) /\ UNCHANGED issuer
                    \/ \E x \in confirming : ExchangeWrite(x) /\ UNCHANGED issuer
                    \/ \E g \in Gestures : delete_token(g)
                    \/ MandatesNext /\ UNCHANGED vault
                    \/ \E t \in Tokens \cup {None} : CreateMandate(t) /\ UNCHANGED vault
                    \/ UNCHANGED <<issuer, vault>>
  OBVIOUS
<1>1. CASE MandatesNext /\ UNCHANGED <<rail, shop>>
  BY <1>1 DEF rail
<1>2. CASE RailNext /\ UNCHANGED <<issuer, shop>>
  <2>1. CASE \E c \in Calls : \/ Lookup(c) \/ CheckToken(c) \/ CheckMandate(c) \/ Settle(c) \/ RailDies(c)
                              \/ DisputeNext(c)
    BY <1>2, <2>1 DEF Lookup, CheckToken, CheckMandate, Settle, RailDies, DisputeNext, open_dispute,
                      AdjudicateRead, adjudicate
  <2> QED
    BY <1>2, <2>1 DEF RailNext, issuer
<1>3. CASE \E t \in Tokens \cup {None} : CreateMandate(t)
  BY <1>3 DEF CreateMandate, create_mandate, rail
<1>4. CASE \E g \in Gestures : delete_token(g) /\ UNCHANGED shop
  BY <1>4
<1>5. CASE ShopStep
  BY <1>5, ShopAlone DEF rail
<1>6. CASE (\E a \in Attempts : Capture(a)) \/ \E o \in Others : ChargeElsewhere(o)
  BY <1>6 DEF Capture, ChargeElsewhere, Arrive
<1> QED
  BY <1>1, <1>2, <1>3, <1>4, <1>5, <1>6 DEF CommerceNext, ShopStep

(* What the vault's own steps do to the tokens that are there: nothing.     *)
LEMMA VaultNext ==
  ASSUME IssuerTypes, VaultTypes, FreshTokens, [CommerceNext]_vars
  PROVE  /\ VaultTypes' /\ FreshTokens'
         /\ \A t \in Tokens : tokens[t] # None => \/ tokens'[t] = tokens[t]
                                                  \/ tokens'[t] = "deleted" /\ t = mandate.token
<1> USE DEF VaultTypes, FreshTokens
<1>1. CASE \E n \in Enrolments : create_setup_token(n) \/ approve_setup_token(n) \/ Lapse(n)
  BY <1>1 DEF create_setup_token, approve_setup_token, Lapse
<1>2. CASE \E n \in Enrolments, t \in Tokens : ExchangeRead(n, t)
  <2>1. PICK n \in Enrolments, t \in Tokens : ExchangeRead(n, t)
    BY <1>2
  <2>2. PICK x \in [token : Tokens, of : Enrolments] : x = [token |-> t, of |-> n]
    OBVIOUS
  <2>3. /\ tokens[t] = None /\ \A y \in confirming : y.token # t
        /\ confirming' = confirming \cup {x} /\ UNCHANGED <<setup, tokens>>
    BY <2>1, <2>2 DEF ExchangeRead
  <2>4. x.token = t
    BY <2>2
  <2> QED
    BY <2>3, <2>4
<1>3. CASE \E x \in confirming : ExchangeWrite(x)
  <2>1. PICK x \in confirming : ExchangeWrite(x)
    BY <1>3
  <2>2. /\ tokens' = [tokens EXCEPT ![x.token] = "active"]
        /\ setup' = [setup EXCEPT ![x.of] = "exchanged"]
        /\ confirming' = confirming \ {x}
        /\ tokens[x.token] = None /\ x.token \in Tokens /\ x.of \in Enrolments
    BY <2>1 DEF ExchangeWrite
  <2>3. VaultTypes'
    BY <2>2
  <2>4. FreshTokens'
    BY <2>2
  <2> QED
    BY <2>2, <2>3, <2>4
<1>4. CASE \E g \in Gestures : delete_token(g)
  <2>1. PICK g \in Gestures : delete_token(g)
    BY <1>4
  <2>2. /\ tokens' = [tokens EXCEPT ![mandate.token] = IF tokens[mandate.token] = "active" THEN "deleted"
                                                      ELSE tokens[mandate.token]]
        /\ UNCHANGED <<setup, confirming>>
    BY <2>1 DEF delete_token
  <2>3. VaultTypes'
    BY <2>2
  <2>4. FreshTokens'
    BY <2>2, MandatesAssumption
  <2> QED
    BY <2>2, <2>3, <2>4
<1>5. CASE UNCHANGED vault \/ UNCHANGED vars
  <2>1. UNCHANGED <<setup, tokens, confirming>>
    BY <1>5 DEF vault, vars, rail
  <2> QED
    BY <2>1
<1> QED
  BY <1>1, <1>2, <1>3, <1>4, <1>5, VaultStep

(* The steps of the holder and the issuer that link, mark or ask to delete. *)
LEMMA LinkedNext ==
  ASSUME IssuerInv, HolderTypes, VaultTypes, FreshTokens, Linked, [CommerceNext]_vars
  PROVE  Linked'
<1>0. /\ mandate \in MandateRec /\ req \in [Gestures -> RequestRec]
      /\ \A t \in Tokens : tokens[t] # None => \/ tokens'[t] = tokens[t]
                                               \/ tokens'[t] = "deleted" /\ t = mandate.token
  BY VaultNext DEF IssuerInv, IssuerTypes
<1>1. mandate.status = "revoked" => mandate'.status = "revoked"
  BY RevokedStays
(* Steps after which a request asks for nothing it did not ask for before.  *)
<1>2. ASSUME mandate' \in MandateRec, mandate'.token = mandate.token, mandate'.status = None => mandate.status = None,
             instrument' = instrument,
             \A g \in Gestures : req'[g].pc \in {"delete", "mark"} => req'[g].pc = req[g].pc
      PROVE  Linked'
  <2>1. mandate.token # None => /\ mandate.token \in Tokens
                                /\ tokens[mandate.token] \in {"active", "deleted"}
                                /\ tokens[mandate.token] = "deleted" => tokens'[mandate.token] = "deleted"
                                /\ tokens'[mandate.token] \in {"active", "deleted"}
    BY <1>0, MandatesAssumption DEF Linked, MandateRec
  <2> QED
    BY <1>1, <1>2, <2>1, MandatesAssumption DEF Linked
<1>3. CASE UNCHANGED <<mandate, instrument, req>>
  BY <1>0, <1>2, <1>3
<1>4. CASE MandatesNext /\ UNCHANGED vault
  <2>0. UNCHANGED tokens
    BY <1>4 DEF vault
  <2>1. CASE \/ \E p \in Purposes : Sign(p) \/ Age(p)
             \/ begin_registration \/ complete_registration \/ begin_revoke
    BY <1>3, <2>1 DEF Sign, Age, begin_registration, complete_registration, begin_revoke
  <2>2. CASE \E g \in Gestures : \/ \E p \in {"activate", "revoke"} : _verify_gesture(g, p)
                                 \/ GiveUpDelete(g) \/ Rollback(g)
    <3>1. UNCHANGED <<mandate, instrument>>
      BY <2>2 DEF _verify_gesture, GiveUpDelete, Rollback
    <3>2. \A g \in Gestures : req'[g].pc \in {"delete", "mark"} => req'[g].pc = req[g].pc
      BY <1>0, <2>2 DEF _verify_gesture, GiveUpDelete, Rollback, IdleRequest
    <3> QED
      BY <1>0, <1>2, <3>1, <3>2
  <2>3. ASSUME NEW s \in Moves, Move(s) PROVE Linked'
    <3>1. /\ mandate' = [mandate EXCEPT !.status = s] /\ s \in Statuses /\ s # None
          /\ UNCHANGED <<instrument, req>>
      BY <2>3, MandatesAssumption DEF Move, Statuses, sources_for
    <3>2. mandate' \in MandateRec /\ mandate'.token = mandate.token /\ mandate'.status = s
      BY <1>0, <3>1 DEF MandateRec
    <3> QED
      BY <1>2, <3>1, <3>2
  <2>4. ASSUME NEW g \in Gestures, assert_passkey(g) PROVE Linked'
    <3>1. /\ mandate' = [mandate EXCEPT !.status = "active"] /\ mandate.status \in {"draft", "suspended"}
          /\ instrument' = IF mandate.token # None /\ instrument = None THEN "active" ELSE instrument
          /\ req' = [req EXCEPT ![g] = IdleRequest]
      BY <2>4 DEF assert_passkey, Transition, CanMove, sources_for, link_instrument
    <3>2. mandate'.token = mandate.token /\ mandate'.status = "active"
      BY <1>0, <3>1 DEF MandateRec
    <3>3. \A h \in Gestures : req[h].pc \notin {"delete", "mark"} /\ req'[h].pc \notin {"delete", "mark"}
      BY <1>0, <3>1 DEF Linked, IdleRequest
    <3>4. instrument # "deleted" /\ instrument' # "deleted"
      BY <3>1 DEF Linked
    <3> QED
      BY <2>0, <3>1, <3>2, <3>3, <3>4, MandatesAssumption DEF Linked
  <2>5. ASSUME NEW g \in Gestures, revoke_mandate(g) PROVE Linked'
    <3>1. /\ mandate' = [mandate EXCEPT !.status = "revoked"] /\ mandate.status \in {"active", "suspended"}
          /\ instrument' = instrument
          /\ req' = [req EXCEPT ![g].pc = IF instrument = "active" THEN "delete" ELSE "idle",
                                ![g].purpose = None]
      BY <2>5 DEF revoke_mandate, Transition, CanMove, sources_for
    <3>2. mandate'.token = mandate.token /\ mandate'.status = "revoked"
      BY <1>0, <3>1 DEF MandateRec
    <3>3. \A h \in Gestures : /\ req[h].pc \notin {"delete", "mark"}
                              /\ req'[h].pc # "mark"
                              /\ req'[h].pc = "delete" => instrument = "active"
      BY <1>0, <3>1 DEF Linked, RequestRec
    <3>4. instrument # "deleted"
      BY <3>1 DEF Linked
    <3> QED
      BY <2>0, <3>1, <3>2, <3>3, <3>4, MandatesAssumption DEF Linked
  <2>6. ASSUME NEW g \in Gestures, mark_instrument_deleted(g) PROVE Linked'
    <3>1. /\ req[g].pc = "mark" /\ instrument' = "deleted" /\ UNCHANGED mandate
          /\ req' = [req EXCEPT ![g] = IdleRequest]
      BY <2>6 DEF mark_instrument_deleted
    <3>2. /\ mandate.status = "revoked" /\ tokens[mandate.token] = "deleted" /\ mandate.token # None
      BY <3>1 DEF Linked
    <3>3. \A h \in Gestures : req'[h].pc = "mark" => req[h].pc = "mark"
      BY <1>0, <3>1 DEF IdleRequest
    <3> QED
      BY <2>0, <3>1, <3>2, <3>3, MandatesAssumption DEF Linked
  <2> QED
    BY <1>4, <2>1, <2>2, <2>3, <2>4, <2>5, <2>6 DEF MandatesNext
<1>5. ASSUME NEW g \in Gestures, delete_token(g) PROVE Linked'
  <2>1. /\ req[g].pc = "delete" /\ UNCHANGED <<mandate, instrument>>
        /\ tokens' = [tokens EXCEPT ![mandate.token] = IF tokens[mandate.token] = "active" THEN "deleted"
                                                      ELSE tokens[mandate.token]]
        /\ req' = [req EXCEPT ![g].pc = "mark"]
    BY <1>5 DEF delete_token
  <2>2. mandate.status = "revoked" /\ instrument # None /\ mandate.token # None /\ mandate.token \in Tokens
    BY <1>0, <2>1 DEF Linked, MandateRec
  <2>3. tokens'[mandate.token] = "deleted"
    BY <2>1, <2>2 DEF Linked, VaultTypes
  <2> QED
    BY <2>1, <2>2, <2>3, MandatesAssumption DEF Linked
<1>6. ASSUME NEW t \in Tokens \cup {None}, CreateMandate(t) PROVE Linked'
  <2>1. /\ mandate.status = None /\ mandate' = [status |-> "draft", token |-> t]
        /\ UNCHANGED <<instrument, req, tokens>>
        /\ t # None => tokens[t] = "active"
    BY <1>6 DEF CreateMandate, create_mandate, build_claims, create_setup_token, get_active_token, rail, vault
  <2>2. mandate.token = None /\ instrument = None /\ \A g \in Gestures : req[g].pc \notin {"delete", "mark"}
    BY <2>1, MandatesAssumption DEF Linked
  <2> QED
    BY <2>1, <2>2, MandatesAssumption DEF Linked
<1>7. CASE UNCHANGED issuer \/ UNCHANGED vars
  BY <1>3, <1>7 DEF issuer, vars
<1> QED
  BY <1>3, <1>4, <1>5, <1>6, <1>7, VaultStep

(* No step takes a payment away, and only their own steps touch disputes.   *)
LEMMA DisputeStep ==
  ASSUME [CommerceNext]_vars
  PROVE  /\ payments \subseteq payments'
         /\ UNCHANGED <<disputes, judging>> \/ \E c \in Calls : DisputeNext(c)
<1>1. CASE UNCHANGED ledger
  BY <1>1 DEF ledger
<1>2. CASE RailNext
  <2>1. CASE \/ \E n \in Enrolments :
                  \/ create_setup_token(n) \/ approve_setup_token(n) \/ Lapse(n)
                  \/ \E t \in Tokens : ExchangeRead(n, t)
             \/ \E x \in confirming : ExchangeWrite(x)
    BY <1>1, <2>1 DEF create_setup_token, approve_setup_token, Lapse, ExchangeRead, ExchangeWrite
  <2>2. CASE \E c \in Calls : Lookup(c) \/ CheckToken(c) \/ CheckMandate(c) \/ RailDies(c)
    BY <2>2 DEF Lookup, CheckToken, CheckMandate, RailDies
  <2>3. CASE \E c \in Calls : Settle(c)
    BY <2>3 DEF Settle
  <2>4. CASE \E c \in Calls : DisputeNext(c)
    BY <2>4 DEF DisputeNext, open_dispute, AdjudicateRead, adjudicate
  <2> QED
    BY <1>2, <2>1, <2>2, <2>3, <2>4 DEF RailNext
<1>3. CASE (\E a \in Attempts : Capture(a)) \/ \E o \in Others : ChargeElsewhere(o)
  BY <1>3 DEF Capture, ChargeElsewhere, Arrive
<1>4. CASE ShopStep
  BY <1>1, <1>4, ShopAlone DEF rail
<1>5. CASE \/ UNCHANGED vars
           \/ MandatesNext /\ UNCHANGED <<rail, shop>>
           \/ \E g \in Gestures : delete_token(g)
           \/ \E t \in Tokens \cup {None} : CreateMandate(t)
  BY <1>1, <1>5 DEF vars, rail, delete_token, CreateMandate, create_setup_token
<1>6. CASE CommerceNext
  BY <1>2, <1>3, <1>4, <1>5, <1>6, Zenon DEF CommerceNext, ShopStep
<1> QED
  BY <1>5, <1>6

(* Disputes: opened for a payment, judged when opened.                      *)
LEMMA DisputedNext ==
  ASSUME DisputeTypes, Disputed, [CommerceNext]_vars
  PROVE  DisputeTypes' /\ Disputed'
<1> USE DEF DisputeTypes, Disputed
<1>1. payments \subseteq payments' /\ (UNCHANGED <<disputes, judging>> \/ \E c \in Calls : DisputeNext(c))
  BY DisputeStep
<1>2. \A c \in Calls : Paid(c) => Paid(c)'
  BY <1>1 DEF Paid
<1>3. CASE UNCHANGED <<disputes, judging>>
  BY <1>2, <1>3
<1>4. ASSUME NEW c \in Calls, DisputeNext(c) PROVE DisputeTypes' /\ Disputed'
  <2>1. CASE open_dispute(c)
    <3>1. Paid(c) /\ disputes' = [disputes EXCEPT ![c] = "open"] /\ UNCHANGED judging
      BY <2>1 DEF open_dispute, Paid
    <3> QED
      BY <1>2, <3>1, MandatesAssumption
  <2>2. CASE AdjudicateRead(c)
    <3>1. /\ disputes[c] = "open" /\ judging[c] < 2 /\ judging' = [judging EXCEPT ![c] = @ + 1]
          /\ UNCHANGED disputes
      BY <2>2 DEF AdjudicateRead
    <3> QED
      BY <1>2, <3>1, MandatesAssumption
  <2>3. CASE \E e \in Evidence : adjudicate(c, e)
    <3>1. PICK o \in {"SELLER_FAVOR", "BUYER_FAVOR"} :
            /\ judging[c] > 0 /\ judging' = [judging EXCEPT ![c] = @ - 1]
            /\ disputes' = [disputes EXCEPT ![c] = o]
      BY <2>3 DEF adjudicate
    <3>2. Paid(c) /\ judging[c] - 1 \in 0..2 /\ o # None /\ o \in {None, "open", "SELLER_FAVOR", "BUYER_FAVOR"}
      BY <3>1, RailAssumption
    <3>3. DisputeTypes'
      BY <3>1, <3>2
    <3> QED
      BY <1>2, <3>1, <3>2, <3>3
  <2> QED
    BY <1>4, <2>1, <2>2, <2>3 DEF DisputeNext
<1> QED
  BY <1>1, <1>3, <1>4

LEMMA VaultKeeps ==
  ASSUME IssuerInv, VaultInv, [CommerceNext]_vars
  PROVE  VaultInv'
  BY HolderNext, VaultNext, LinkedNext, DisputedNext DEF VaultInv, IssuerInv

LEMMA CommerceVault == CommerceSpec => [](IssuerInv /\ MoneyInv /\ PriceType /\ VaultInv)
<1>1. IssuerInv /\ VaultInv /\ [CommerceNext]_vars => VaultInv'
  BY VaultKeeps
<1> QED
  BY <1>1, VaultInit, CommerceInductive, PTL DEF CommerceSpec

LEMMA CommerceTyped ==
  ASSUME IssuerInv, MoneyInv, PriceType, VaultInv
  PROVE  MandatesTypeOK /\ RailTypeOK /\ MerchantTypeOK
<1>1. MandatesTypeOK
  BY DEF MandatesTypeOK, IssuerInv, IssuerTypes, VaultInv, HolderTypes, MandateRec, RequestRec
<1>2. RailTypeOK
  BY DEF RailTypeOK, MoneyInv, MoneyTypes, VaultInv, VaultTypes, DisputeTypes, CallRec
<1>3. MerchantTypeOK
  BY DEF MerchantTypeOK, MoneyInv, MoneyTypes, PriceType, OrderRec, AttemptRec
<1> QED
  BY <1>1, <1>2, <1>3

(* Every table of the issuer, the rail and the shop keeps its domain, for   *)
(* any number of requests: signature counters stay numbers or unset, and a  *)
(* deletion never writes a token the vault does not have (routers/          *)
(* mandates.py, yuno_sim/vault.py, merchant/charge.py).                     *)
THEOREM CommerceTypes == CommerceSpec => [](MandatesTypeOK /\ RailTypeOK /\ MerchantTypeOK)
<1>1. IssuerInv /\ MoneyInv /\ PriceType /\ VaultInv => MandatesTypeOK /\ RailTypeOK /\ MerchantTypeOK
  BY CommerceTyped
<1> QED
  BY <1>1, CommerceVault, PTL

(* The issuer's row says that the instrument is deleted only when the       *)
(* mandate is revoked and the rail has deleted the token for good.          *)
DeletedAtRail ==
  instrument = "deleted" => /\ mandate.status = "revoked"
                            /\ mandate.token # None /\ tokens[mandate.token] = "deleted"

(* mark_instrument_deleted (routers/mandates.py) tells the truth about the  *)
(* vault, although it is written in a request of its own after the rail's   *)
(* answer, and although confirmations that overlap go on making tokens: no  *)
(* step brings a deleted token back.                                        *)
THEOREM DeletionIsTrue == CommerceSpec => []DeletedAtRail
<1>1. VaultInv => DeletedAtRail
  BY MandatesAssumption DEF VaultInv, Linked, DeletedAtRail
<1> QED
  BY <1>1, CommerceVault, PTL

(* What is in dispute, or has been judged, was captured, and for the price  *)
(* that the cart was signed for when one of its attempts captured it.       *)
DisputeHasPayment ==
  \A c \in Calls : disputes[c] # None =>
    \E p \in payments : p.id = c /\ (c \in Attempts => p.amount = order.price)

(* open_dispute and adjudicate (yuno_sim/disputes.py) never hold a payment  *)
(* that was not made, although an adjudication writes its outcome without   *)
(* looking at the dispute again.                                            *)
THEOREM DisputesHavePayments == CommerceSpec => []DisputeHasPayment
<1>1. MoneyInv /\ VaultInv => DisputeHasPayment
  BY DEF MoneyInv, Booked, VaultInv, Disputed, Paid, DisputeHasPayment
<1> QED
  BY <1>1, CommerceVault, PTL

(* A mandate that has ended keeps its status, one that exists keeps the     *)
(* token its holder signed for, and what was captured stays captured, under *)
(* the key it was captured under.                                           *)
EndsForGood ==
  /\ mandate.status \in {"revoked", "expired", "exhausted"} => mandate'.status = mandate.status
  /\ mandate.status # None => mandate'.token = mandate.token
  /\ payments \subseteq payments'
  /\ \A k \in Keys : idempotency[k] # None => idempotency'[k] = idempotency[k]

LEMMA KeysStay ==
  ASSUME MoneyTypes, [CommerceNext]_vars
  PROVE  \A k \in Keys : idempotency[k] # None => idempotency'[k] = idempotency[k]
<1>1. CASE UNCHANGED idempotency
  BY <1>1
<1>2. CASE \E c \in Calls : Settle(c)
  <2>1. PICK c \in Calls : Settle(c)
    BY <1>2
  <2>2. \/ UNCHANGED idempotency
        \/ idempotency[call[c].key] = None /\ idempotency' = [idempotency EXCEPT ![call[c].key] = c]
    BY <2>1 DEF Settle
  <2> QED
    BY <2>2 DEF MoneyTypes
<1>3. CASE RailNext
  <2>1. CASE \/ \E n \in Enrolments :
                  \/ create_setup_token(n) \/ approve_setup_token(n) \/ Lapse(n)
                  \/ \E t \in Tokens : ExchangeRead(n, t)
             \/ \E x \in confirming : ExchangeWrite(x)
    BY <1>1, <2>1 DEF create_setup_token, approve_setup_token, Lapse, ExchangeRead, ExchangeWrite, ledger
  <2>2. CASE \E c \in Calls : Lookup(c) \/ CheckToken(c) \/ CheckMandate(c) \/ RailDies(c) \/ DisputeNext(c)
    BY <1>1, <2>2 DEF Lookup, CheckToken, CheckMandate, RailDies, DisputeNext, open_dispute, AdjudicateRead, adjudicate
  <2> QED
    BY <1>2, <1>3, <2>1, <2>2, Zenon DEF RailNext
<1>4. CASE ShopStep \/ (\E a \in Attempts : Capture(a)) \/ \E o \in Others : ChargeElsewhere(o)
  BY <1>1, <1>4, ShopAlone DEF rail, ledger, Capture, ChargeElsewhere, Arrive
<1>5. CASE \/ UNCHANGED vars
           \/ MandatesNext /\ UNCHANGED <<rail, shop>>
           \/ \E g \in Gestures : delete_token(g)
           \/ \E t \in Tokens \cup {None} : CreateMandate(t)
  BY <1>1, <1>5 DEF vars, rail, ledger, delete_token, CreateMandate, create_setup_token
<1>6. CASE CommerceNext
  BY <1>3, <1>4, <1>5, <1>6, Zenon DEF CommerceNext, ShopStep
<1> QED
  BY <1>5, <1>6

LEMMA MandateStays ==
  ASSUME IssuerInv, [CommerceNext]_vars
  PROVE  /\ mandate.status \in {"revoked", "expired", "exhausted"} => mandate'.status = mandate.status
         /\ mandate.status # None => mandate'.token = mandate.token
<1>0. mandate \in MandateRec
  BY DEF IssuerInv, IssuerTypes
<1>1. ASSUME NEW s \in Statuses, CanMove(s), mandate' = [mandate EXCEPT !.status = s]
      PROVE  /\ mandate.status \notin {"revoked", "expired", "exhausted"}
             /\ mandate'.token = mandate.token
  BY <1>0, <1>1 DEF CanMove, Statuses, sources_for, MandateRec
<1>2. CASE MandatesNext
  <2>1. CASE UNCHANGED mandate
    BY <2>1
  <2>2. CASE \E g \in Gestures : assert_passkey(g) \/ revoke_mandate(g)
    <3>1. PICK s \in {"active", "revoked"} : CanMove(s) /\ mandate' = [mandate EXCEPT !.status = s]
      BY <2>2 DEF assert_passkey, revoke_mandate, Transition
    <3>2. s \in Statuses
      BY DEF Statuses, sources_for
    <3> QED
      BY <1>1, <3>1, <3>2
  <2>3. CASE \E s \in Moves : Move(s)
    <3>1. PICK s \in Moves : CanMove(s) /\ mandate' = [mandate EXCEPT !.status = s]
      BY <2>3 DEF Move
    <3>2. s \in Statuses
      BY MandatesAssumption DEF Statuses, sources_for
    <3> QED
      BY <1>1, <3>1, <3>2
  <2> QED
    BY <1>2, <2>1, <2>2, <2>3
    DEF MandatesNext, Sign, Age, begin_registration, complete_registration, begin_revoke, _verify_gesture,
        mark_instrument_deleted, GiveUpDelete, Rollback
<1>3. CASE \E t \in Tokens \cup {None} : create_mandate(t)
  BY <1>3, MandatesAssumption DEF create_mandate
<1>4. CASE UNCHANGED issuer \/ UNCHANGED vars \/ \E g \in Gestures : delete_token(g)
  BY <1>4 DEF issuer, vars, delete_token
<1> QED
  BY <1>2, <1>3, <1>4, IssuerStep

(* No request of the issuer, the rail or the shop leaves an ended mandate   *)
(* or takes back what was settled: ALLOWED_TRANSITIONS has no way out and   *)
(* the issuer's updates go through it (services/state_machine.py,           *)
(* repository.py), and neither a refusal nor a lost answer nor a dispute    *)
(* undoes a settlement (yuno_sim/payments.py).  The agent's kernel writes   *)
(* the same table and does not ask the state machine (agent/kernel.py,      *)
(* settle): it is no part of this composition, and with it a revoked        *)
(* mandate can become active again (NeverRevived, module AgentKernel).      *)
THEOREM EndedStaysEnded == CommerceSpec => [][EndsForGood]_vars
<1>1. IssuerInv /\ MoneyInv /\ [CommerceNext]_vars => [EndsForGood]_vars
  <2> SUFFICES ASSUME IssuerInv, MoneyInv, [CommerceNext]_vars PROVE EndsForGood
    OBVIOUS
  <2>1. MoneyTypes
    BY DEF MoneyInv
  <2> QED
    BY <2>1, KeysStay, MandateStays, DisputeStep DEF EndsForGood
<1> QED
  BY <1>1, CommerceInductive, PTL DEF CommerceSpec
=============================================================================
