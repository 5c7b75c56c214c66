------------------------------ MODULE Merchant ------------------------------
(***************************************************************************)
(* The merchant server (src/merchant): the catalogue, the quote that signs *)
(* a cart, and the seven steps of POST /checkout/charge, composed with the *)
(* rail it captures at (module Rail) and the issuer behind it (Mandates).  *)
(*                                                                         *)
(* One signed cart and several attempts to pay it; an attempt is a request *)
(* body with a purchase id and an idempotency key, and makes at most one   *)
(* call of the rail, which has its name.  The row of the order is locked   *)
(* from the moment the cart is verified until the request's transaction    *)
(* ends.  The decision of the kernel (step 5) is nondeterministic here;    *)
(* DecisionService models it.  The rail serves other carts as well: of     *)
(* theirs only the call at the rail is modelled, under a key of the        *)
(* caller's choice that may be the key of an attempt, because the rail     *)
(* binds a key to nothing but the payment first captured under it.         *)
(***************************************************************************)
EXTENDS Rail

CONSTANTS
  Prices,     \* prices the catalogue may ask
  Purchases,  \* purchase ids
  Others,     \* calls of the rail that pay for other carts
  Bodies      \* what the attempts may present: Calls -> [purchase, key]

ASSUME MerchantAssumption ==
  /\ Prices \subseteq Nat
  /\ None \notin Prices /\ None \notin Purchases
  /\ Others \subseteq Calls
  /\ None # "quoted" /\ None # "captured" /\ "error" \notin Calls
  /\ \A b \in Bodies : b \in [Calls -> [purchase : Purchases, key : Keys]]

VARIABLES
  price,      \* the offer's current price; None when it is withdrawn
  order,      \* merchant_orders: the quoted cart
  body,       \* the attempts' bodies
  attempt,    \* where each attempt is, and what it was answered
  lost        \* history: attempts that ended without the rail's answer on record

shop == <<price, order, body, attempt, lost>>
vars == <<issuer, rail, shop>>

Attempts == Calls \ Others

NoOrder == [status |-> None, price |-> 0, purchase |-> None, receipt |-> None]

MerchantTypeOK ==
  /\ price \in Prices \cup {None}
  /\ order \in [status : {None, "quoted", "captured"}, price : Prices \cup {0},
                purchase : Purchases \cup {None}, receipt : Calls \cup {None}]
  /\ attempt \in [Attempts -> [pc : {"idle", "lock", "kernel", "rail", "done"},
                               answer : {None, "refused", "error"} \cup Calls]]
  /\ lost \subseteq Attempts

seed_initial_offers == price \in Prices

MerchantInit ==
  /\ seed_initial_offers
  /\ order = NoOrder
  /\ body \in Bodies
  /\ attempt = [a \in Attempts |-> [pc |-> "idle", answer |-> None]]
  /\ lost = {}

At(a, l) == attempt[a].pc = l

Step(a, l) == attempt' = [attempt EXCEPT ![a].pc = l]

End(a, r) == attempt' = [attempt EXCEPT ![a] = [pc |-> "done", answer |-> r]]

----------------------------------------------------------------------------
(* The catalogue and the quote *)

update_price(v) ==
  /\ v # price
  /\ price' = v
  /\ UNCHANGED <<issuer, rail, order, body, attempt, lost>>

get_offer == price # None

(* Bound: one cart. *)
quote ==
  /\ order = NoOrder /\ get_offer
  /\ order' = [NoOrder EXCEPT !.status = "quoted", !.price = price]
  /\ UNCHANGED <<issuer, rail, price, body, attempt, lost>>

(* The holder asks for a mandate, with a token the vault has confirmed or   *)
(* with none.  The request also opens an enrolment at the rail; one that    *)
(* the rail refuses does not stop it.                                       *)
CreateMandate(t) ==
  /\ t = None \/ get_active_token(t)
  /\ create_mandate(t)
  /\ \/ \E n \in Enrolments : create_setup_token(n)
     \/ UNCHANGED rail
  /\ UNCHANGED shop

----------------------------------------------------------------------------
(* charge *)

(* Step 1: the presentation is checked against the issuer's public keys     *)
(* only, so a mandate that was ever activated passes.                       *)
_verify_mandate == Presentable

(* Step 2: a fresh intent signed by the mandate's agent, with the mandate's *)
(* own payment token.                                                       *)
_verify_intent == mandate.token # None

(* Step 3: the intent names the price of the cart (the agent signs what it  *)
(* was quoted), and that must be the catalogue's price still.               *)
_verify_price == get_offer /\ price = order.price

Present(a) ==
  /\ At(a, "idle")
  /\ order # NoOrder
  /\ IF _verify_mandate /\ _verify_intent /\ _verify_price THEN Step(a, "lock") ELSE End(a, "refused")
  /\ UNCHANGED <<issuer, rail, price, order, body, lost>>

OrderLocked == \E a \in Attempts : attempt[a].pc \in {"kernel", "rail"}

(* A captured cart answers its own purchase with the stored receipt, and    *)
(* refuses any other.                                                       *)
StoredAnswer(a) == IF order.purchase = body[a].purchase THEN order.receipt ELSE "refused"

(* Mutant: SELECT without FOR UPDATE. *)
VerifyCheckoutUnlocked(a) ==
  /\ At(a, "lock")
  /\ CASE order.status = "quoted" -> Step(a, "kernel")
       [] order.status = "captured" -> End(a, StoredAnswer(a))
  /\ UNCHANGED <<issuer, rail, price, order, body, lost>>

(* Step 4: the signed cart is the stored one, and its row is locked. *)
VerifyCheckout(a) ==
  /\ At(a, "lock")
  /\ ~OrderLocked
  /\ CASE order.status = "quoted" -> Step(a, "kernel")
       [] order.status = "captured" -> End(a, StoredAnswer(a))
  /\ UNCHANGED <<issuer, rail, price, order, body, lost>>

(* Steps 5 and 6: the kernel approves and the rail is called; every other   *)
(* answer of the kernel, or none, is a refusal.                             *)
Capture(a) ==
  /\ At(a, "kernel")
  /\ Step(a, "rail")
  /\ Arrive(a, body[a].key, order.price, order.price)
  /\ UNCHANGED <<issuer, price, order, body, lost>>

Unapproved(a) ==
  /\ At(a, "kernel")
  /\ End(a, "refused")
  /\ UNCHANGED <<issuer, rail, price, order, body, lost>>

(* Mutant: whatever the rail has answered is stored as the receipt. *)
mark_capturedUnread(a) ==
  /\ At(a, "rail") /\ call[a].pc = "done"
  /\ order' = [order EXCEPT !.status = "captured", !.purchase = body[a].purchase,
                            !.receipt = call[a].answer]
  /\ End(a, call[a].answer)
  /\ UNCHANGED <<issuer, rail, price, body, lost>>

(* Step 7: mark_captured and commit. *)
mark_captured(a) ==
  /\ At(a, "rail") /\ call[a].pc = "done" /\ call[a].answer \in Calls
  /\ order.status = "captured" => order.purchase = body[a].purchase
  /\ order' = [order EXCEPT !.status = "captured", !.purchase = body[a].purchase,
                            !.receipt = call[a].answer]
  /\ End(a, call[a].answer)
  /\ UNCHANGED <<issuer, rail, price, body, lost>>

(* The rail refuses. *)
RailRefuses(a) ==
  /\ At(a, "rail") /\ call[a].answer = "refused"
  /\ End(a, "refused")
  /\ UNCHANGED <<issuer, rail, price, order, body, lost>>

(* The rail's answer does not come, in time or at all: also a refusal (402), *)
(* although the call may still capture.                                      *)
GiveUp(a) ==
  /\ At(a, "rail") /\ call[a].answer # "refused"
  /\ End(a, "refused")
  /\ lost' = lost \cup {a}
  /\ UNCHANGED <<issuer, rail, price, order, body>>

(* The receipt cannot be stored, or the process dies: the transaction rolls *)
(* back and the caller is told to try the same purchase again.              *)
Unsettled(a) ==
  /\ attempt[a].pc \in {"kernel", "rail"}
  /\ End(a, "error")
  /\ lost' = IF At(a, "rail") THEN lost \cup {a} ELSE lost
  /\ UNCHANGED <<issuer, rail, price, order, body>>

----------------------------------------------------------------------------
(* Another cart, bought under the same mandate, is charged at its own price *)
(* (its own seven steps, up to the call of the rail, are not modelled).     *)
ChargeElsewhere(o) ==
  /\ \E v \in Prices : Arrive(o, body[o].key, v, v)
  /\ UNCHANGED <<issuer, shop>>

CommerceInit == MandatesInit /\ RailInit /\ MerchantInit

CommerceNext ==
  \/ MandatesNext /\ UNCHANGED <<rail, shop>>
  \/ RailNext /\ UNCHANGED <<issuer, shop>>
  \/ \E g \in Gestures : delete_token(g) /\ UNCHANGED shop
  \/ \E t \in Tokens \cup {None} : CreateMandate(t)
  \/ \E v \in Prices \cup {None} : update_price(v)
  \/ quote
  \/ \E o \in Others : ChargeElsewhere(o)
  \/ \E a \in Attempts :
       \/ Present(a) \/ VerifyCheckout(a) \/ Capture(a) \/ Unapproved(a)
       \/ mark_captured(a) \/ RailRefuses(a) \/ GiveUp(a) \/ Unsettled(a)

CommerceSpec == CommerceInit /\ [][CommerceNext]_vars

----------------------------------------------------------------------------
(* Properties *)

(* One cart is paid once: the row lock keeps attempts apart and one key     *)
(* captures once, so that a cart is only ever paid a second time when an    *)
(* answer of the rail was lost and the retry came under another key.        *)
OneCartOnePayment ==
  \A p, q \in {r \in payments : r.id \in Attempts} :
    p # q => /\ p.key # q.key
             /\ \E a \in lost : body[a].key \in {p.key, q.key}

(* A receipt is backed by money: an order that is captured, and an attempt  *)
(* that was answered with a receipt, name a payment that was really made,   *)
(* under a key that one of the cart's attempts has sent.  It is of the      *)
(* price the cart was signed for, unless the key had paid for another cart  *)
(* before: then the rail answers with that cart's payment, whatever it was. *)
ReceiptIsPaid ==
  \A r \in ({order.receipt} \cup {attempt[a].answer : a \in Attempts}) \cap Calls :
    \E p \in payments :
      /\ p.id = r
      /\ \E a \in Attempts : body[a].key = p.key
      /\ r \in Attempts => p.amount = order.price
=============================================================================
