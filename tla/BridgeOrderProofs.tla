------------------------- MODULE BridgeOrderProofs -------------------------
(***************************************************************************)
(* Theorems about the bridge, for any number of clients, keys, products    *)
(* and restarts: what a client that runs alone is guaranteed, and what     *)
(* stays true when clients overlap.                                        *)
(***************************************************************************)
EXTENDS BridgeOrder, TLAPS

LEMMA KeyInKeys == \A c \in Clients : Key[c] \in Keys
  BY DEF Keys

(* The two checks between the bound cart and the armed order. *)
Checks(c) ==
  \/ \E fresh \in BOOLEAN : VerifyToken(c, fresh)
  \/ \E found, moved \in BOOLEAN : Guards(c, found, moved)

LEMMA InitInv == Init => OrderInv
  <1> SUFFICES ASSUME Init PROVE OrderInv
    OBVIOUS
  <1>1. TypeOK
    BY DEF Init, TypeOK, OrderState, PC, Answers, Receipts, TERMINAL_OK
  <1>2. \A c \in Clients : ~InFlight(c) /\ pc[c] = "idle" /\ answer[c] = "none"
    BY DEF Init, InFlight
  <1>3. \A k \in Keys : PaidFor(k) = {} /\ state[k] = "none" /\ receipt[k] = None
    BY DEF Init, PaidFor
  <1>4. Alone \subseteq Keys
    BY DEF Alone
  <1>5. ReceiptsAreTrue
    BY <1>2, <1>3, <1>4, BridgeAssumption DEF ReceiptsAreTrue
  <1>6. \A c \in Clients : RowAt(c) /\ PlacedAt(c) /\ CartAt(c)
    BY <1>2 DEF RowAt, PlacedAt, CartAt
  <1>7. OnePayingClick /\ MoneyOnRecord /\ ConfirmedHasReceipt
    BY <1>3, <1>4, BridgeAssumption DEF OnePayingClick, MoneyOnRecord, ConfirmedHasReceipt
  <1>8. RunsAlone /\ OrderedAsApproved
    BY <1>2, BridgeAssumption DEF RunsAlone, OrderedAsApproved, Init
  <1> QED
    BY <1>1, <1>5, <1>6, <1>7, <1>8 DEF OrderInv

----------------------------------------------------------------------------
(* One statement of one client *)

LEMMA StepType ==
  ASSUME TypeOK, NEW c \in Clients, Step(c)
  PROVE  TypeOK'
  <1> USE BridgeAssumption, KeyInKeys DEF TypeOK, Goto, Answer, Continue, Transition,
          orders, world
  <1>p. /\ \A x \in {"quote", "claim", "session", "bind", "token", "guards", "arm", "place",
                     "confirm", "confirm_unnamed", "fail", "park", "done"} : x \in PC
        /\ \A x \in {"received", "session_ok", "cart_ok", "approval_verified", "armed",
                     "dry_run_confirmed", "clicked", "confirmed", "failed", "uncertain"} :
             x \in OrderState
        /\ \A x \in {"confirmed", "dry_run_confirmed", "unnamed"} : x \in Receipts
        /\ \A x \in Receipts \cup {"uncertain", "refused"} : x \in Answers
    BY DEF PC, OrderState, Answers, Receipts, TERMINAL_OK
  <1>1. CASE \E taken \in BOOLEAN : AddToCart(c, taken)
    BY <1>1, <1>p DEF AddToCart, Put
  <1>2. CASE AskQuote(c)
    <2>1. cart # Empty => [product |-> cart, total |-> total[cart]] \in Quote
      BY DEF Quote
    <2> QED
      BY <1>2, <1>p, <2>1 DEF AskQuote
  <1>3. CASE Claim(c)
    BY <1>3, <1>p DEF Claim, TERMINAL_OK
  <1>4. CASE Session(c) \/ BindCart(c) \/ Checks(c)
    BY <1>4, <1>p DEF Session, BindCart, Checks, VerifyToken, Guards
  <1>5. CASE FinishDryRun(c) \/ Confirm(c)
    BY <1>5, <1>p DEF FinishDryRun, Confirm, TERMINAL_OK
  <1>6. CASE MarkClicked(c)
    BY <1>6, <1>p DEF MarkClicked
  <1>7. ASSUME NEW outcome \in Outcomes, PlaceOrder(c, outcome) PROVE TypeOK'
    <2>1. outcome \in Charging =>
            PaymentOf(c, outcome) \in Payment
      BY <1>7 DEF PlaceOrder, Payment, PaymentOf
    <2>2. paid' \subseteq Payment
      BY <1>7, <2>1 DEF PlaceOrder
    <2> QED
      BY <1>7, <1>p, <2>2 DEF PlaceOrder, AfterClick
  <1>8. CASE MarkFailed(c) \/ MarkUncertain(c)
    BY <1>8, <1>p DEF MarkFailed, MarkUncertain, Guarded
  <1>9. CASE Abort(c)
    BY <1>9, <1>p DEF Abort
  <1> QED
    BY <1>1, <1>2, <1>3, <1>4, <1>5, <1>6, <1>7, <1>8, <1>9 DEF Step, Checks

(* Other clients, other keys and what was paid before stay as they are. *)
OthersStay(c) ==
  /\ \A d \in Clients : d # c => /\ pc'[d] = pc[d] /\ answer'[d] = answer[d]
                                 /\ d \in ignored' <=> d \in ignored
  /\ \A k \in Keys : k # Key[c] => state'[k] = state[k] /\ receipt'[k] = receipt[k]
  /\ paid \subseteq paid'
  /\ \A x \in paid' : x \in paid \/ x.client = c

LEMMA StepFrame ==
  ASSUME TypeOK, NEW c \in Clients, Step(c)
  PROVE  OthersStay(c)
  <1> USE DEF TypeOK, Goto, Answer, Continue, Transition, orders, world, OthersStay
  <1>1. CASE (\E taken \in BOOLEAN : AddToCart(c, taken)) \/ AskQuote(c) \/ Abort(c)
    BY <1>1 DEF AddToCart, AskQuote, Abort
  <1>2. CASE Claim(c)
    BY <1>2 DEF Claim
  <1>3. CASE Session(c) \/ BindCart(c) \/ Checks(c)
    BY <1>3 DEF Session, BindCart, Checks, VerifyToken, Guards
  <1>4. CASE FinishDryRun(c) \/ Confirm(c) \/ MarkClicked(c)
    BY <1>4 DEF FinishDryRun, Confirm, MarkClicked
  <1>5. ASSUME NEW outcome \in Outcomes, PlaceOrder(c, outcome) PROVE OthersStay(c)
    BY <1>5 DEF PlaceOrder, PaymentOf
  <1>6. CASE MarkFailed(c) \/ MarkUncertain(c)
    BY <1>6 DEF MarkFailed, MarkUncertain, Guarded
  <1> QED
    BY <1>1, <1>2, <1>3, <1>4, <1>5, <1>6 DEF Step, Checks

LEMMA StepStarts ==
  ASSUME TypeOK, NEW c \in Clients, Step(c)
  PROVE  InFlight(c) \/ \E taken \in BOOLEAN : AddToCart(c, taken)
  BY DEF Step, Checks, AskQuote, Claim, Session, BindCart, VerifyToken, Guards, FinishDryRun,
         MarkClicked, PlaceOrder, Confirm, MarkFailed, MarkUncertain, Abort, InFlight

(* Nobody is in flight beside a client of a key that is served alone. *)
LEMMA StepAlone ==
  ASSUME TypeOK, RunsAlone, NEW c \in Clients, Step(c)
  PROVE  /\ RunsAlone'
         /\ \A d \in Clients : d # c /\ (c \in Exclusive \/ d \in Exclusive) => ~InFlight(d)
  <1>1. OthersStay(c) /\ (InFlight(c) \/ \E taken \in BOOLEAN : AddToCart(c, taken))
    BY StepFrame, StepStarts
  <1>2. \A d \in Clients : d # c /\ (c \in Exclusive \/ d \in Exclusive) => ~InFlight(d)
    BY <1>1 DEF RunsAlone, AddToCart
  <1>3. \A d \in Clients : d # c => InFlight(d)' = InFlight(d)
    BY <1>1 DEF OthersStay, InFlight
  <1>4. RunsAlone'
    BY <1>2, <1>3, BridgeAssumption DEF RunsAlone
  <1> QED
    BY <1>2, <1>4
(* What a step does to the row and the payments of its own key. *)
MoneyAt(k) ==
  /\ \A x, y \in PaidFor(k) : x = y
  /\ PaidFor(k) # {} => state[k] \in {"clicked", "confirmed", "uncertain"}

(* A receipt without an order_id ends the key, and hides no other payment.  *)
UnnamedAt(k) ==
  receipt[k] = "unnamed" =>
    state[k] = "confirmed" /\ \A x \in PaidFor(k) : x.outcome = "blank"

LEMMA StepOwnRow ==
  ASSUME OrderInv, NEW c \in Clients, Step(c), Key[c] \in Alone
  PROVE  RowAt(c)' /\ MoneyAt(Key[c])' /\ UnnamedAt(Key[c])'
  <1> DEFINE k == Key[c]
  <1>0. TypeOK /\ RowAt(c) /\ k \in Keys
    BY KeyInKeys DEF OrderInv
  <1>a. MoneyAt(k)
    BY DEF OrderInv, OnePayingClick, MoneyOnRecord, MoneyAt
  <1>u. UnnamedAt(k)
    BY <1>0 DEF OrderInv, ConfirmedHasReceipt, ReceiptsAreTrue, UnnamedAt
  <1>b. state[k] = "confirmed" => receipt[k] # None
    BY <1>0 DEF OrderInv, ConfirmedHasReceipt
  <1>c. /\ pc \in [Clients -> PC] /\ state \in [Keys -> OrderState]
        /\ receipt \in [Keys -> Receipts \cup {None}]
    BY <1>0 DEF TypeOK
  <1>d. paid' = paid => PaidFor(k)' = PaidFor(k)
    BY DEF PaidFor
  <1> USE DEF Goto, Answer, Continue, Transition, orders, world
  <1>1. CASE (\E taken \in BOOLEAN : AddToCart(c, taken)) \/ AskQuote(c) \/ Abort(c)
    <2>1. /\ paid' = paid /\ state' = state /\ receipt' = receipt
          /\ pc'[c] \in {"quote", "claim", "done"}
      BY <1>1, <1>c DEF AddToCart, AskQuote, Abort
    <2> QED
      BY <2>1, <1>a, <1>u, <1>d DEF RowAt, MoneyAt, UnnamedAt
  <1>2. CASE Claim(c)
    <2>1. paid' = paid /\ receipt' = receipt
      BY <1>2 DEF Claim
    <2>2. CASE state[k] = "none" /\ config # "disabled"
      <3>1. state'[k] = "received" /\ pc'[c] = "session"
        BY <1>2, <2>2, <1>0, <1>c DEF Claim
      <3>2. PaidFor(k) = {}
        BY <2>2, <1>a DEF MoneyAt
      <3> QED
        BY <3>1, <3>2, <2>1, <2>2, <1>u, <1>d DEF RowAt, MoneyAt, UnnamedAt
    <2>3. CASE ~(state[k] = "none" /\ config # "disabled")
      <3>1. state' = state /\ pc'[c] \in {"session", "done"}
        BY <1>2, <2>3, <1>0, <1>c DEF Claim
      <3>2. pc'[c] = "session" => state[k] \notin {"none", "clicked", "confirmed", "uncertain"}
        BY <1>2, <2>3, <1>b, <1>c DEF Claim, TERMINAL_OK, NeverReclick
      <3> QED
        BY <3>1, <3>2, <2>1, <1>a, <1>u, <1>d DEF RowAt, MoneyAt, UnnamedAt
    <2> QED
      BY <2>2, <2>3
  <1>3. CASE Session(c) \/ BindCart(c) \/ Checks(c)
    <2>1. /\ paid' = paid /\ receipt' = receipt
          /\ pc[c] \in {"session", "bind", "token", "guards"}
          /\ pc'[c] \in {"bind", "token", "guards", "arm", "done"}
          /\ state'[k] \in {"session_ok", "cart_ok", "approval_verified", "armed", state[k]}
      BY <1>3, <1>0, <1>c DEF Session, BindCart, Checks, VerifyToken, Guards
    <2>2. state[k] \notin {"none", "clicked", "confirmed", "uncertain"} /\ PaidFor(k) = {}
      BY <2>1, <1>0, <1>a DEF RowAt, MoneyAt, UnnamedAt
    <2> QED
      BY <2>1, <2>2, <1>d, <1>u, <1>0 DEF RowAt, MoneyAt, UnnamedAt
  <1>4. CASE FinishDryRun(c)
    <2>1. paid' = paid /\ pc[c] = "arm" /\ pc'[c] = "done" /\ receipt'[k] = "dry_run_confirmed"
      BY <1>4, <1>0, <1>c DEF FinishDryRun
    <2>2. PaidFor(k) = {}
      BY <2>1, <1>0, <1>a DEF RowAt, MoneyAt, UnnamedAt
    <2> QED
      BY <2>1, <2>2, <1>d, <1>u, <1>0 DEF RowAt, MoneyAt, UnnamedAt
  <1>5. CASE MarkClicked(c)
    <2>1. /\ paid' = paid /\ pc[c] = "arm" /\ receipt' = receipt
          /\ \/ pc'[c] = "place" /\ state'[k] = "clicked"
             \/ pc'[c] = "done" /\ state' = state
      BY <1>5, <1>0, <1>c DEF MarkClicked
    <2>2. PaidFor(k) = {}
      BY <2>1, <1>0, <1>a DEF RowAt, MoneyAt, UnnamedAt
    <2> QED
      BY <2>1, <2>2, <1>d, <1>u, <1>0 DEF RowAt, MoneyAt, UnnamedAt
  <1>6. ASSUME NEW outcome \in Outcomes, PlaceOrder(c, outcome)
        PROVE  RowAt(c)' /\ MoneyAt(k)' /\ UnnamedAt(k)'
    <2>1. /\ pc[c] = "place" /\ state' = state /\ receipt' = receipt
          /\ pc'[c] = AfterClick(outcome)
          /\ paid' = IF outcome \in Charging
                     THEN paid \cup {PaymentOf(c, outcome)}
                     ELSE paid
      BY <1>6, <1>c DEF PlaceOrder
    <2>2. state[k] = "clicked" /\ PaidFor(k) = {}
      BY <2>1, <1>0 DEF RowAt
    <2>3. CASE outcome \in Charging
      <3>1. PaidFor(k)' = {PaymentOf(c, outcome)}
        BY <2>1, <2>2, <2>3 DEF PaidFor, PaymentOf
      <3>2. /\ pc'[c] \in {"confirm", "confirm_unnamed", "park"}
            /\ pc'[c] = "confirm_unnamed" => outcome = "blank"
        BY <2>1, <2>3 DEF AfterClick, Charging
      <3> QED
        BY <3>1, <3>2, <2>1, <2>2, <1>u DEF RowAt, MoneyAt, UnnamedAt, PaymentOf
    <2>4. CASE outcome \notin Charging
      <3>1. PaidFor(k)' = {} /\ pc'[c] \in {"confirm_unnamed", "fail", "park"}
        BY <2>1, <2>2, <2>4, <1>d DEF AfterClick, Charging
      <3> QED
        BY <3>1, <2>1, <2>2, <1>u DEF RowAt, MoneyAt, UnnamedAt
    <2> QED
      BY <2>3, <2>4
  <1>7. CASE Confirm(c)
    <2>1. /\ paid' = paid /\ pc'[c] = "done" /\ state'[k] = "confirmed"
          /\ pc[c] \in {"confirm", "confirm_unnamed"}
          /\ receipt'[k] = IF pc[c] = "confirm" THEN "confirmed" ELSE "unnamed"
      BY <1>7, <1>0, <1>c DEF Confirm
    <2> QED
      BY <2>1, <1>0, <1>a, <1>d DEF RowAt, MoneyAt, UnnamedAt
  <1>8. CASE MarkFailed(c)
    <2>1. paid' = paid /\ pc[c] = "fail" /\ pc'[c] = "done" /\ receipt' = receipt
      BY <1>8, <1>c DEF MarkFailed, Guarded
    <2>2. PaidFor(k) = {}
      BY <2>1, <1>0 DEF RowAt
    <2> QED
      BY <2>1, <2>2, <1>d, <1>u, <1>0 DEF RowAt, MoneyAt, UnnamedAt
  <1>9. CASE MarkUncertain(c)
    <2>1. /\ paid' = paid /\ pc[c] = "park" /\ pc'[c] = "done" /\ receipt' = receipt
          /\ state'[k] \in {"uncertain", state[k]}
      BY <1>9, <1>0, <1>c DEF MarkUncertain, Guarded
    <2> QED
      BY <2>1, <1>0, <1>a, <1>u, <1>d DEF RowAt, MoneyAt, UnnamedAt
  <1> QED
    BY <1>1, <1>2, <1>3, <1>4, <1>5, <1>6, <1>7, <1>8, <1>9 DEF Step, Checks

(* A receipt that says confirmed is written only after Rappi's answer. *)
LEMMA StepReceipts ==
  ASSUME OrderInv, NEW c \in Clients, Step(c)
  PROVE  /\ PlacedAt(c)'
         /\ receipt'[Key[c]] = "confirmed" \/ answer'[c] = "confirmed" =>
              \/ receipt[Key[c]] = "confirmed"
              \/ answer[c] = "confirmed"
              \/ \E x \in PaidFor(Key[c]) : x.outcome = "placed"
         /\ state'[Key[c]] = "confirmed" => receipt'[Key[c]] # None
  <1> DEFINE k == Key[c]
  <1>0. TypeOK /\ PlacedAt(c) /\ k \in Keys
    BY KeyInKeys DEF OrderInv
  <1>b. state[k] = "confirmed" => receipt[k] # None
    BY <1>0 DEF OrderInv, ConfirmedHasReceipt
  <1>c. /\ pc \in [Clients -> PC] /\ answer \in [Clients -> Answers]
        /\ state \in [Keys -> OrderState] /\ receipt \in [Keys -> Receipts \cup {None}]
    BY <1>0 DEF TypeOK
  <1> USE DEF Goto, Answer, Continue, Transition, orders, world
  <1>1. CASE (\E taken \in BOOLEAN : AddToCart(c, taken)) \/ AskQuote(c) \/ Abort(c)
    BY <1>1, <1>b, <1>c DEF AddToCart, AskQuote, Abort, PlacedAt
  <1>2. CASE Claim(c)
    <2>1. receipt' = receipt /\ pc'[c] # "confirm" /\ state'[k] \in {state[k], "received"}
      BY <1>2, <1>0, <1>c DEF Claim
    <2>2. answer'[c] \in {answer[c], "refused", "uncertain", receipt[k]}
      BY <1>2, <1>c DEF Claim
    <2> QED
      BY <2>1, <2>2, <1>b DEF PlacedAt
  <1>3. CASE Session(c) \/ BindCart(c) \/ Checks(c) \/ MarkClicked(c)
    <2>1. /\ receipt' = receipt /\ pc'[c] # "confirm"
          /\ state'[k] \in {state[k], "session_ok", "cart_ok", "approval_verified", "armed",
                            "clicked"}
          /\ answer'[c] \in {answer[c], "refused"}
      BY <1>3, <1>0, <1>c DEF Session, BindCart, Checks, VerifyToken, Guards, MarkClicked
    <2> QED
      BY <2>1, <1>b DEF PlacedAt
  <1>4. CASE FinishDryRun(c)
    <2>1. /\ receipt'[k] = "dry_run_confirmed" /\ pc'[c] = "done"
          /\ state'[k] = "dry_run_confirmed" /\ answer'[c] = "dry_run_confirmed"
      BY <1>4, <1>0, <1>c DEF FinishDryRun
    <2> QED
      BY <2>1 DEF PlacedAt
  <1>5. ASSUME NEW outcome \in Outcomes, PlaceOrder(c, outcome)
        PROVE  /\ PlacedAt(c)'
               /\ receipt' = receipt /\ state' = state /\ answer' = answer
    <2>1. /\ receipt' = receipt /\ state' = state /\ answer' = answer
          /\ pc'[c] = AfterClick(outcome)
      BY <1>5, <1>c DEF PlaceOrder
    <2>2. CASE outcome = "placed"
      <3>1. PaymentOf(c, outcome) \in PaidFor(k)'
        BY <1>5, <2>2 DEF PlaceOrder, PaidFor, PaymentOf, Charging
      <3> QED
        BY <3>1, <2>1, <2>2 DEF PlacedAt, PaymentOf
    <2>3. CASE outcome # "placed"
      BY <2>1, <2>3 DEF PlacedAt, AfterClick
    <2> QED
      BY <2>1, <2>2, <2>3
  <1>6. CASE Confirm(c)
    <2>1. /\ pc'[c] = "done" /\ receipt'[k] # None
          /\ receipt'[k] = "confirmed" \/ answer'[c] = "confirmed" => pc[c] = "confirm"
      BY <1>6, <1>0, <1>c, BridgeAssumption DEF Confirm
    <2> QED
      BY <2>1, <1>0, BridgeAssumption DEF PlacedAt
  <1>7. CASE MarkFailed(c) \/ MarkUncertain(c)
    <2>1. /\ receipt' = receipt /\ pc'[c] = "done"
          /\ state'[k] \in {state[k], "failed", "uncertain"}
          /\ answer'[c] \in {"refused", "uncertain"}
      BY <1>7, <1>0, <1>c DEF MarkFailed, MarkUncertain, Guarded
    <2> QED
      BY <2>1, <1>b DEF PlacedAt
  <1> QED
    BY <1>1, <1>2, <1>3, <1>4, <1>5, <1>6, <1>7, <1>b DEF Step, Checks

(* The cart changes hands only when a client adds its product. *)
LEMMA StepCart ==
  ASSUME TypeOK, NEW c \in Clients, CartAt(c), Step(c)
  PROVE  /\ CartAt(c)'
         /\ c \in Exclusive => \A x \in paid' : x \in paid \/ x.ignored \/ x.product = Product[c]
  <1>1. CASE \E taken \in BOOLEAN : AddToCart(c, taken)
    BY <1>1 DEF AddToCart, CartAt, InFlight, Goto, Answer, Put, TypeOK
  <1>2. CASE ~\E taken \in BOOLEAN : AddToCart(c, taken)
    <2>1. InFlight(c)
      BY <1>2, StepStarts
    <2>2. CASE \E outcome \in Outcomes : PlaceOrder(c, outcome)
      <3> PICK outcome \in Outcomes : PlaceOrder(c, outcome)
        BY <2>2
      <3>1. /\ cart' \in {cart, Empty} /\ ignored' = ignored
            /\ \A x \in paid' : x \in paid \/ (x = PaymentOf(c, outcome) /\ cart # Empty)
        BY DEF PlaceOrder, Continue
      <3>2. c \in Exclusive => PaymentOf(c, outcome).ignored \/ cart \in {Product[c], Empty}
        BY <2>1 DEF CartAt, PaymentOf
      <3>3. PaymentOf(c, outcome).product = cart
        BY DEF PaymentOf
      <3> QED
        BY <3>1, <3>2, <3>3, <2>1 DEF CartAt
    <2>3. CASE ~\E outcome \in Outcomes : PlaceOrder(c, outcome)
      <3>1. /\ cart' = cart /\ paid' = paid
            /\ ignored' = ignored \/ ~InFlight(c)'
        BY <1>2, <2>3 DEF Step, Checks, AskQuote, Claim, Session, BindCart, VerifyToken,
             Guards, FinishDryRun, MarkClicked, Confirm, MarkFailed, MarkUncertain, Abort,
             world, Guarded, Answer, Continue, Goto, InFlight, TypeOK
      <3> QED
        BY <3>1, <2>1 DEF CartAt
    <2> QED
      BY <2>2, <2>3
  <1> QED
    BY <1>1, <1>2

(* The invariant of the whole bridge survives a statement of one client. *)
LEMMA StepInv ==
  ASSUME OrderInv, NEW c \in Clients, Step(c)
  PROVE  OrderInv'
  <1>0. TypeOK /\ RunsAlone
    BY DEF OrderInv
  <1>1. TypeOK' /\ OthersStay(c)
    BY <1>0, StepType, StepFrame
  <1>2. RunsAlone'
    BY <1>0, StepAlone
  <1>3. \A d \in Clients : d # c /\ (c \in Exclusive \/ d \in Exclusive) => ~InFlight(d)
    BY <1>0, StepAlone
  <1>4. /\ \A k \in Keys : k # Key[c] => PaidFor(k)' = PaidFor(k)
        /\ \A k \in Keys : PaidFor(k) \subseteq PaidFor(k)'
    BY <1>1 DEF OthersStay, PaidFor
  <1>5. \A k \in Alone : MoneyAt(k)' /\ UnnamedAt(k)'
    <2> TAKE k \in Alone
    <2>1. CASE k = Key[c]
      BY <2>1, StepOwnRow
    <2>2. CASE k # Key[c]
      <3>1. k \in Keys
        BY DEF Alone
      <3>2. state'[k] = state[k] /\ receipt'[k] = receipt[k] /\ PaidFor(k)' = PaidFor(k)
        BY <3>1, <2>2, <1>1, <1>4 DEF OthersStay
      <3> QED
        BY <3>1, <3>2 DEF OrderInv, OnePayingClick, MoneyOnRecord, MoneyAt, UnnamedAt,
             ConfirmedHasReceipt, ReceiptsAreTrue
    <2> QED
      BY <2>1, <2>2
  <1>6. OnePayingClick' /\ MoneyOnRecord'
    BY <1>5 DEF MoneyAt, OnePayingClick, MoneyOnRecord, Alone, Keys
  <1>7. \A d \in Clients : RowAt(d)'
    <2> TAKE d \in Clients
    <2>1. CASE Key[d] \notin Alone
      BY <2>1 DEF RowAt, Alone, Keys
    <2>2. CASE Key[d] \in Alone /\ d = c
      BY <2>2, StepOwnRow
    <2>3. CASE Key[d] \in Alone /\ d # c /\ Key[d] = Key[c]
      <3>1. d \in Exclusive
        BY <2>3 DEF Alone
      <3>2. pc'[d] \in {"idle", "done"}
        BY <3>1, <2>3, <1>1, <1>3 DEF OthersStay, InFlight
      <3> QED
        BY <3>2 DEF RowAt
    <2>4. CASE Key[d] \in Alone /\ d # c /\ Key[d] # Key[c]
      <3>1. /\ state'[Key[d]] = state[Key[d]] /\ PaidFor(Key[d])' = PaidFor(Key[d])
            /\ pc'[d] = pc[d]
        BY <2>4, <1>1, <1>4, KeyInKeys DEF OthersStay
      <3>2. RowAt(d)
        BY DEF OrderInv
      <3> QED
        BY <3>1, <3>2 DEF RowAt, Alone, Keys
    <2> QED
      BY <2>1, <2>2, <2>3, <2>4
  <1>8. \A d \in Clients : PlacedAt(d)'
    <2> TAKE d \in Clients
    <2>1. CASE d = c
      BY <2>1, StepReceipts
    <2>2. CASE d # c
      BY <2>2, <1>1, <1>4, KeyInKeys DEF OrderInv, PlacedAt, OthersStay
    <2> QED
      BY <2>1, <2>2
  <1>9. ConfirmedHasReceipt'
    <2> SUFFICES ASSUME NEW k \in Keys, state'[k] = "confirmed" PROVE receipt'[k] # None
      BY <1>5 DEF ConfirmedHasReceipt, Keys, Alone, UnnamedAt
    <2>1. CASE k = Key[c]
      BY <2>1, StepReceipts
    <2>2. CASE k # Key[c]
      BY <2>2, <1>1 DEF OrderInv, ConfirmedHasReceipt, OthersStay
    <2> QED
      BY <2>1, <2>2
  <1>10. ReceiptsAreTrue'
    <2> SUFFICES ASSUME NEW k \in Keys,
                        \/ receipt'[k] = "confirmed"
                        \/ \E d \in Clients : Key[d] = k /\ answer'[d] = "confirmed"
                 PROVE  \E x \in PaidFor(k)' : x.outcome = "placed"
      BY <1>5 DEF ReceiptsAreTrue, Keys, Alone, UnnamedAt
    <2>1. \/ receipt[k] = "confirmed"
          \/ \E d \in Clients : Key[d] = k /\ answer[d] = "confirmed"
          \/ \E x \in PaidFor(k) : x.outcome = "placed"
      <3>1. CASE k = Key[c] /\ (receipt'[k] = "confirmed" \/ answer'[c] = "confirmed")
        BY <3>1, StepReceipts
      <3>2. CASE k # Key[c]
        BY <3>2, <1>1 DEF OthersStay
      <3>3. CASE \E d \in Clients : d # c /\ Key[d] = k /\ answer'[d] = "confirmed"
        BY <3>3, <1>1 DEF OthersStay
      <3> QED
        BY <3>1, <3>2, <3>3
    <2>2. \E x \in PaidFor(k) : x.outcome = "placed"
      BY <2>1 DEF OrderInv, ReceiptsAreTrue
    <2> QED
      BY <2>2, <1>4
  <1>11. \A d \in Clients : CartAt(d)'
    <2> TAKE d \in Clients
    <2>1. CASE d = c
      BY <2>1, <1>0, StepCart DEF OrderInv
    <2>2. CASE d # c
      BY <2>2, <1>1, <1>3 DEF OrderInv, CartAt, InFlight, OthersStay
    <2> QED
      BY <2>1, <2>2
  <1>12. OrderedAsApproved'
    <2> SUFFICES ASSUME NEW x \in paid', x.client \in Exclusive, ~x.ignored
                 PROVE  x.product = Product[x.client]
      BY DEF OrderedAsApproved
    <2>1. CASE x \in paid
      BY <2>1 DEF OrderInv, OrderedAsApproved
    <2>2. CASE x \notin paid
      BY <2>2, <1>0, <1>1, StepCart DEF OrderInv, OthersStay
    <2> QED
      BY <2>1, <2>2
  <1> QED
    BY <1>1, <1>2, <1>6, <1>7, <1>8, <1>9, <1>10, <1>11, <1>12 DEF OrderInv

----------------------------------------------------------------------------
(* The world: restarts, token expiry, prices and the address *)
LEMMA WorldInv ==
  ASSUME OrderInv, World \/ UNCHANGED vars
  PROVE  OrderInv'
  <1>0. TypeOK
    BY DEF OrderInv
  <1>1. UNCHANGED <<state, receipt, cart, paid>>
    BY DEF World, Restart, PriceMoves, vars, orders, world
  <1>2. \A c \in Clients : /\ pc'[c] = pc[c] \/ pc'[c] = "done"
                           /\ answer'[c] = answer[c] \/ answer'[c] = "refused"
    BY DEF World, Restart, PriceMoves, vars
  <1>3. TypeOK'
    <2>1. CASE \E cfg \in {"live", "dry_run", "disabled"} : Restart(cfg)
      BY <2>1, <1>0 DEF Restart, TypeOK, PC, Answers, orders
    <2>3. CASE \E p \in Moving, a \in Amounts : PriceMoves(p, a)
      BY <2>3, <1>0, BridgeAssumption DEF PriceMoves, TypeOK, orders
    <2>5. CASE UNCHANGED vars
      BY <2>5, <1>0 DEF TypeOK, vars, orders, world
    <2> QED
      BY <2>1, <2>3, <2>5 DEF World
  <1>4. \A c \in Clients : InFlight(c)' => InFlight(c)
    BY <1>2 DEF InFlight
  <1>g. \A c \in Clients : c \in ignored /\ InFlight(c)' => c \in ignored'
    BY DEF World, Restart, PriceMoves, vars, InFlight
  <1>5. RunsAlone'
    BY <1>4, BridgeAssumption DEF OrderInv, RunsAlone
  <1>6. \A k : PaidFor(k)' = PaidFor(k)
    BY <1>1 DEF PaidFor
  <1>7. \A c \in Clients : RowAt(c)' /\ PlacedAt(c)'
    BY <1>1, <1>2, <1>6 DEF OrderInv, RowAt, PlacedAt, Alone, Keys
  <1>8. \A c \in Clients : CartAt(c)'
    BY <1>1, <1>4, <1>g DEF OrderInv, CartAt
  <1>9. ConfirmedHasReceipt' /\ OrderedAsApproved'
    BY <1>1 DEF OrderInv, ConfirmedHasReceipt, OrderedAsApproved, Alone, Keys
  <1>10. OnePayingClick' /\ MoneyOnRecord'
    BY <1>1, <1>6 DEF OrderInv, OnePayingClick, MoneyOnRecord
  <1>11. ReceiptsAreTrue'
    BY <1>1, <1>2, <1>6 DEF OrderInv, ReceiptsAreTrue, Alone, Keys
  <1> QED
    BY <1>3, <1>5, <1>7, <1>8, <1>9, <1>10, <1>11 DEF OrderInv

LEMMA OrderInvariant == Spec => []OrderInv
  <1>1. OrderInv /\ [Next]_vars => OrderInv'
    BY StepInv, WorldInv DEF Next
  <1> QED
    BY <1>1, InitInv, PTL DEF Spec

(* state.py, "one Idempotency-Key, one paying click, ever": for a key whose *)
(* requests run alone, over any number of retries, lost answers and         *)
(* restarts of the bridge.                                                  *)
THEOREM OneClickWhenAlone == Spec => []OnePayingClick
  <1>1. OrderInv => OnePayingClick
    BY DEF OrderInv
  <1> QED
    BY <1>1, OrderInvariant, PTL

(* A payment never vanishes from the checkpoint table of such a key. *)
THEOREM MoneyStaysOnRecord == Spec => []MoneyOnRecord
  <1>1. OrderInv => MoneyOnRecord
    BY DEF OrderInv
  <1> QED
    BY <1>1, OrderInvariant, PTL

(* service.place_order: a confirmed receipt with an order_id is backed by a *)
(* placed order, for every key and however its requests overlap; one        *)
(* without may stand for no order at all (a 404 that RappiClient._request   *)
(* answers normally), but for a key served alone it never covers up a       *)
(* payment whose answer was lost.                                           *)
THEOREM ReceiptsHold == Spec => []ReceiptsAreTrue
  <1>1. OrderInv => ReceiptsAreTrue
    BY DEF OrderInv
  <1> QED
    BY <1>1, OrderInvariant, PTL

(* service.add_to_cart replaces the cart, so what a client that runs alone  *)
(* pays for is the product it was approved to buy, unless Rappi refused the *)
(* cart unnoticed.                                                          *)
THEOREM ApprovedIsOrdered == Spec => []OrderedAsApproved
  <1>1. OrderInv => OrderedAsApproved
    BY DEF OrderInv
  <1> QED
    BY <1>1, OrderInvariant, PTL

(* service.place_order never leaves `uncertain' for a key served alone.     *)
THEOREM UncertainStays == Spec => UncertainIsFinal
  <1> DEFINE Final == \A k \in Alone : state[k] = "uncertain" => state'[k] = "uncertain"
  <1>1. OrderInv /\ [Next]_vars => [Final]_vars
    <2> SUFFICES ASSUME OrderInv, Next, NEW k \in Alone, state[k] = "uncertain"
                 PROVE  state'[k] = "uncertain"
      BY DEF Final
    <2>0. TypeOK /\ k \in Keys
      BY DEF OrderInv, Alone
    <2>1. CASE World
      BY <2>1 DEF World, Restart, PriceMoves, orders
    <2>2. ASSUME NEW c \in Clients, Step(c) PROVE state'[k] = "uncertain"
      <3>1. CASE k # Key[c]
        BY <3>1, <2>0, <2>2, StepFrame DEF OthersStay
      <3>2. CASE k = Key[c]
        <4>1. pc[c] \notin {"session", "bind", "token", "guards", "arm", "place", "confirm",
                            "confirm_unnamed", "fail", "park"}
          BY <3>2 DEF OrderInv, RowAt
        <4>2. (\E taken \in BOOLEAN : AddToCart(c, taken)) \/ AskQuote(c) \/ Claim(c) \/ Abort(c)
          BY <4>1, <2>2 DEF Step, Checks, Session, BindCart, VerifyToken, Guards, FinishDryRun,
               MarkClicked, PlaceOrder, Confirm, MarkFailed, MarkUncertain
        <4> QED
          BY <4>2, <3>2 DEF AddToCart, AskQuote, Claim, Abort, orders
      <3> QED
        BY <3>1, <3>2
    <2> QED
      BY <2>1, <2>2 DEF Next
  <1>2. [][Final]_vars => UncertainIsFinal
    BY DEF UncertainIsFinal
  <1> QED
    BY <1>1, <1>2, OrderInvariant, PTL DEF Spec
=============================================================================
