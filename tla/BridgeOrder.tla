---------------------------- MODULE BridgeOrder ----------------------------
(***************************************************************************)
(* Buying through the Rappi bridge: the adapter that fills the cart, asks  *)
(* for a quote and a capture token (RappiBridgeMcp.settle), the bridge's   *)
(* guarded order flow (rappi_bridge/service.py) and its checkpoint table   *)
(* (rappi_bridge/state.py).                                                *)
(*                                                                         *)
(* The bridge's endpoints are plain `def's, so FastAPI runs each request   *)
(* on a thread of its own; the table's lock makes one claim or transition  *)
(* atomic and nothing more.  The account has ONE cart, which every request *)
(* shares.  A client `c' is one run of the adapter and of the request it   *)
(* makes; clients with the same idempotency key are retries of each other. *)
(***************************************************************************)
EXTENDS Naturals, FiniteSets

CONSTANTS
  Clients,     \* runs of the adapter
  Key,         \* Key[c]: the Idempotency-Key, derived from the intent
  Product,     \* Product[c]: what c was approved to buy
  DryTokens,   \* clients whose capture token carries dry_run
  Exclusive,   \* clients that never overlap with another client
  Products,
  Amounts,     \* totals a cart may have
  Cap,         \* max_order_cop
  Moving,      \* bound: products whose total may move
  Empty,       \* the empty cart
  None

Keys == {Key[c] : c \in Clients}

ASSUME BridgeAssumption ==
  /\ Product \in [Clients -> Products]
  /\ DryTokens \cup Exclusive \subseteq Clients
  /\ Amounts \subseteq Nat
  /\ Cap \in Nat
  /\ Moving \subseteq Products
  /\ Empty \notin Products
  /\ None \notin {"dry_run_confirmed", "confirmed", "unnamed"}

VARIABLES
  state,     \* bridge_orders.state of each key
  receipt,   \* bridge_orders.receipt_json of each key
  cart,      \* contents of the account's cart
  total,     \* what a cart with this product costs, delivery included
  config,    \* the bridge process: live, dry_run or disabled
  paid,      \* the clicks that took money: by whom, for what, what came back
  pc,        \* where each client stands
  quote,     \* the quote a client's token is bound to
  answer,    \* what the client was told
  ignored    \* history: clients in flight whose cart Rappi did not take, unnoticed

orders == <<state, receipt>>
world  == <<cart, total, config>>
vars   == <<orders, world, paid, pc, quote, answer, ignored>>

OrderState == {"none", "received", "session_ok", "cart_ok", "approval_verified",
               "armed", "dry_run_confirmed", "clicked", "confirmed", "failed",
               "uncertain"}

TERMINAL_OK == {"dry_run_confirmed", "confirmed"}

(* A receipt of the state `confirmed' has an order_id or (`unnamed') none.  *)
Receipts == TERMINAL_OK \cup {"unnamed"}

PC == {"idle", "quote", "claim", "session", "bind", "token", "guards", "arm",
       "place", "confirm", "confirm_unnamed", "fail", "park", "done"}

(* How a click can end.  Rappi places the order and its answer names it, has *)
(* no usable body, or never arrives; or no order is placed: a 404 that      *)
(* mentions stores, which _request turns into a normal answer, the store    *)
(* minimum, any other error.                                                *)
Charging == {"placed", "blank", "lost"}
Outcomes == Charging \cup {"not_found", "min_amount", "error"}

Answers == Receipts \cup {"none", "uncertain", "refused"}

Quote == [product : Products, total : Amounts]

Payment == [client : Clients, product : Products, outcome : Charging, ignored : BOOLEAN]

TypeOK ==
  /\ state \in [Keys -> OrderState]
  /\ receipt \in [Keys -> Receipts \cup {None}]
  /\ cart \in Products \cup {Empty}
  /\ total \in [Products -> Amounts]
  /\ config \in {"live", "dry_run", "disabled"}
  /\ paid \subseteq Payment
  /\ pc \in [Clients -> PC]
  /\ quote \in [Clients -> Quote \cup {None}]
  /\ answer \in [Clients -> Answers]
  /\ ignored \subseteq Clients

Init ==
  /\ state = [k \in Keys |-> "none"]
  /\ receipt = [k \in Keys |-> None]
  /\ cart = Empty
  /\ total \in [Products -> Amounts]
  /\ config \in {"live", "dry_run", "disabled"}
  /\ paid = {}
  /\ pc = [c \in Clients |-> "idle"]
  /\ quote = [c \in Clients |-> None]
  /\ answer = [c \in Clients |-> "none"]
  /\ ignored = {}

----------------------------------------------------------------------------
(* Helpers *)

InFlight(c) == pc[c] \notin {"idle", "done"}

Goto(c, l) == pc' = [pc EXCEPT ![c] = l]

(* The request ends and the client is told `a'; its quote and token are no   *)
(* longer used.                                                             *)
Answer(c, a) ==
  /\ Goto(c, "done")
  /\ answer' = [answer EXCEPT ![c] = a]
  /\ quote' = [quote EXCEPT ![c] = None]
  /\ ignored' = ignored \ {c}

Continue(c, l) == Goto(c, l) /\ UNCHANGED <<answer, quote, ignored>>

(* BridgeState.transition without `expect': whatever the state was. *)
Transition(c, s) == state' = [state EXCEPT ![Key[c]] = s] /\ UNCHANGED receipt

(* BridgeState.transition with `expect': a loser raises and writes nothing. *)
Guarded(c, from, to, won, lost) ==
  IF state[Key[c]] = from
  THEN Transition(c, to) /\ Answer(c, won)
  ELSE UNCHANGED orders /\ Answer(c, lost)

----------------------------------------------------------------------------
(* The adapter: RappiBridgeMcp.settle *)

(* Mutant of Put: the PUT leaves a cart that holds something alone. *)
PutKeeps(old, new) == IF old = Empty THEN new ELSE old

(* The PUT of Rappi's cart replaces its contents. *)
Put(old, new) == new

(* A 404 that mentions stores looks like success to every caller: the PUT   *)
(* may have changed nothing.                                                *)
AddToCart(c, taken) ==
  /\ pc[c] = "idle"
  /\ c \in Exclusive => \A d \in Clients : ~InFlight(d)
  /\ \A d \in Exclusive : ~InFlight(d)
  /\ IF config = "disabled"
     THEN Answer(c, "refused") /\ UNCHANGED cart
     ELSE /\ cart' = IF taken THEN Put(cart, Product[c]) ELSE cart
          /\ ignored' = IF taken THEN ignored ELSE ignored \cup {c}
          /\ Goto(c, "quote")
          /\ UNCHANGED <<answer, quote>>
  /\ UNCHANGED <<orders, total, config, paid>>

(* service.quote of whatever the cart holds now; the kernel then mints a    *)
(* token bound to that quote.                                               *)
AskQuote(c) ==
  /\ pc[c] = "quote"
  /\ IF config = "disabled" \/ cart = Empty
     THEN Answer(c, "refused")
     ELSE /\ quote' = [quote EXCEPT ![c] = [product |-> cart, total |-> total[cart]]]
          /\ Goto(c, "claim")
          /\ UNCHANGED <<answer, ignored>>
  /\ UNCHANGED <<orders, world, paid>>

----------------------------------------------------------------------------
(* service.place_order *)

(* Mutants of NeverReclick: one of the two states is forgotten. *)
NeverReclickParked == {"uncertain"}

NeverReclickSent == {"clicked"}

(* The states in which a retry is refused. *)
NeverReclick == {"clicked", "uncertain"}

(* Kill switch, then the claim: the first request inserts the row; a later  *)
(* one replays the receipt, refuses a clicked order, or runs the steps      *)
(* again.                                                                   *)
Claim(c) ==
  LET k == Key[c] IN
  /\ pc[c] = "claim"
  /\ IF config = "disabled" THEN UNCHANGED orders /\ Answer(c, "refused")
     ELSE IF state[k] = "none" THEN Transition(c, "received") /\ Continue(c, "session")
     ELSE /\ UNCHANGED orders
          /\ IF state[k] \in TERMINAL_OK /\ receipt[k] # None THEN Answer(c, receipt[k])
             ELSE IF state[k] \in NeverReclick THEN Answer(c, "uncertain")
             ELSE Continue(c, "session")
  /\ UNCHANGED <<world, paid>>

Session(c) ==
  /\ pc[c] = "session"
  /\ Transition(c, "session_ok")
  /\ Continue(c, "bind")
  /\ UNCHANGED <<world, paid>>

(* The cart now must hash to the approved cart_hash (product and total). *)
BindCart(c) ==
  /\ pc[c] = "bind"
  /\ IF cart = quote[c].product /\ total[cart] = quote[c].total
     THEN Transition(c, "cart_ok") /\ Continue(c, "token")
     ELSE UNCHANGED orders /\ Answer(c, "refused")
  /\ UNCHANGED <<world, paid>>

(* verify_capture_token: TTL, and the dry_run flag must match the config    *)
(* (the other claims are bound by the adapter to this very request).  The   *)
(* token may have expired by now.                                           *)
VerifyToken(c, fresh) ==
  /\ pc[c] = "token"
  /\ IF fresh /\ (c \in DryTokens) = (config = "dry_run")
     THEN Transition(c, "approval_verified") /\ Continue(c, "guards")
     ELSE UNCHANGED orders /\ Answer(c, "refused")
  /\ UNCHANGED <<world, paid>>

(* Payment method pushed, cart recalculated, then cap, drift and address.   *)
(* A cart that is empty, or that Rappi does not find (404), falls back to   *)
(* the store seen by BindCart.  The address may have moved since the quote. *)
Guards(c, found, moved) ==
  LET due == IF cart = Empty \/ ~found THEN quote[c].total ELSE total[cart] IN
  /\ pc[c] = "guards"
  /\ IF due <= Cap /\ due = quote[c].total /\ ~moved
     THEN Transition(c, "armed") /\ Continue(c, "arm")
     ELSE UNCHANGED orders /\ Answer(c, "refused")
  /\ UNCHANGED <<world, paid>>

FinishDryRun(c) ==
  /\ pc[c] = "arm"
  /\ config = "dry_run"
  /\ state' = [state EXCEPT ![Key[c]] = "dry_run_confirmed"]
  /\ receipt' = [receipt EXCEPT ![Key[c]] = "dry_run_confirmed"]
  /\ Answer(c, "dry_run_confirmed")
  /\ UNCHANGED <<world, paid>>

(* ARMED -> CLICKED, guarded. *)
MarkClicked(c) ==
  /\ pc[c] = "arm"
  /\ config # "dry_run"
  /\ IF state[Key[c]] = "armed"
     THEN Transition(c, "clicked") /\ Continue(c, "place")
     ELSE UNCHANGED orders /\ Answer(c, "refused")
  /\ UNCHANGED <<world, paid>>

(* Mutants of AfterClick: a lost answer is taken for a rejection; an error  *)
(* is taken for an order.                                                   *)
AfterClickLostIsFailed(outcome) ==
  CASE outcome = "placed" -> "confirm"
    [] outcome \in {"blank", "not_found"} -> "confirm_unnamed"
    [] outcome \in {"min_amount", "lost"} -> "fail"
    [] OTHER -> "park"

AfterClickErrorIsPlaced(outcome) ==
  CASE outcome \in {"placed", "error"} -> "confirm"
    [] outcome \in {"blank", "not_found"} -> "confirm_unnamed"
    [] outcome = "min_amount" -> "fail"
    [] OTHER -> "park"

(* How the except/else branches after the click go on: an answer without an *)
(* order_id is confirmed like one with it.                                  *)
AfterClick(outcome) ==
  CASE outcome = "placed" -> "confirm"
    [] outcome \in {"blank", "not_found"} -> "confirm_unnamed"
    [] outcome = "min_amount" -> "fail"
    [] OTHER -> "park"

(* What a click of c on the cart comes to. *)
PaymentOf(c, outcome) ==
  [client |-> c, product |-> cart, outcome |-> outcome, ignored |-> c \in ignored]

(* THE click: Rappi orders what the cart holds at that moment and charges   *)
(* the card, or fails before any capture.  An order may leave the cart      *)
(* empty.                                                                   *)
PlaceOrder(c, outcome) ==
  /\ pc[c] = "place"
  /\ cart # Empty \/ outcome \notin Charging
  /\ paid' = IF outcome \in Charging
             THEN paid \cup {PaymentOf(c, outcome)}
             ELSE paid
  /\ cart' \in IF outcome \in Charging THEN {cart, Empty} ELSE {cart}
  /\ Continue(c, AfterClick(outcome))
  /\ UNCHANGED <<orders, total, config>>

Confirm(c) ==
  /\ pc[c] \in {"confirm", "confirm_unnamed"}
  /\ state' = [state EXCEPT ![Key[c]] = "confirmed"]
  /\ LET made == IF pc[c] = "confirm" THEN "confirmed" ELSE "unnamed" IN
     /\ receipt' = [receipt EXCEPT ![Key[c]] = made]
     /\ Answer(c, made)
  /\ UNCHANGED <<world, paid>>

(* MinAmountRejected: the order may be retried. *)
MarkFailed(c) ==
  /\ pc[c] = "fail"
  /\ Guarded(c, "clicked", "failed", "refused", "refused")
  /\ UNCHANGED <<world, paid>>

(* Any other exception after the click. *)
MarkUncertain(c) ==
  /\ pc[c] = "park"
  /\ Guarded(c, "clicked", "uncertain", "uncertain", "refused")
  /\ UNCHANGED <<world, paid>>

----------------------------------------------------------------------------
(* Failures and the world *)

(* A call to Rappi or to the kernel's JWKS raises, or no usable card is     *)
(* found, before the click: the request ends and the row stays as it is.    *)
Abort(c) ==
  /\ pc[c] \in {"quote", "session", "bind", "token", "guards"}
  /\ Answer(c, "refused")
  /\ UNCHANGED <<orders, world, paid>>

(* The bridge dies and comes up again, perhaps with another configuration;  *)
(* the table survives, every request in progress is gone.                   *)
Restart(cfg) ==
  /\ config' = cfg
  /\ pc' = [c \in Clients |-> IF InFlight(c) THEN "done" ELSE pc[c]]
  /\ answer' = [c \in Clients |-> IF InFlight(c) THEN "refused" ELSE answer[c]]
  /\ quote' = [c \in Clients |-> None]
  /\ ignored' = {}
  /\ UNCHANGED <<orders, cart, total, paid>>

PriceMoves(p, a) ==
  /\ total[p] # a
  /\ total' = [total EXCEPT ![p] = a]
  /\ UNCHANGED <<orders, cart, config, paid, pc, quote, answer, ignored>>

Step(c) ==
  \/ \E taken \in BOOLEAN : AddToCart(c, taken)
  \/ AskQuote(c)
  \/ Claim(c) \/ Session(c) \/ BindCart(c)
  \/ \E fresh \in BOOLEAN : VerifyToken(c, fresh)
  \/ \E found, moved \in BOOLEAN : Guards(c, found, moved)
  \/ FinishDryRun(c) \/ MarkClicked(c)
  \/ \E outcome \in Outcomes : PlaceOrder(c, outcome)
  \/ Confirm(c) \/ MarkFailed(c) \/ MarkUncertain(c) \/ Abort(c)

World ==
  \/ \E cfg \in {"live", "dry_run", "disabled"} : Restart(cfg)
  \/ \E p \in Moving, a \in Amounts : PriceMoves(p, a)

Next == World \/ \E c \in Clients : Step(c)

Spec == Init /\ [][Next]_vars

----------------------------------------------------------------------------
(* Properties *)

(* Clicks for a key that took money, whether the bridge learned of it or not. *)
PaidFor(k) == {x \in paid : Key[x.client] = k}

(* Keys all of whose clients run alone. *)
Alone == {k \in Keys : {c \in Clients : Key[c] = k} \subseteq Exclusive}

(* state.py: one Idempotency-Key, one paying click, ever -- across retries, *)
(* rejections, lost answers and restarts of the bridge, for a key whose     *)
(* requests do not overlap.                                                 *)
OnePayingClick == \A k \in Alone : \A x, y \in PaidFor(k) : x = y

(* Money that moved is on record: whatever dies, the row of a paid key says *)
(* clicked, confirmed or uncertain, so that the retry is refused or         *)
(* replayed and a human can reconcile.                                      *)
MoneyOnRecord ==
  \A k \in Alone : PaidFor(k) # {} => state[k] \in {"clicked", "confirmed", "uncertain"}

(* What a `confirmed' receipt is worth, stored or handed out (replays       *)
(* included): one with an order_id is backed by an order that was placed    *)
(* for its key, also when clients overlap.  One without is no evidence of   *)
(* an order; but for a key served alone no payment whose answer was lost,   *)
(* or named another order, hides behind it.                                 *)
ReceiptsAreTrue ==
  /\ \A k \in Keys :
       \/ receipt[k] = "confirmed"
       \/ \E c \in Clients : Key[c] = k /\ answer[c] = "confirmed"
       => \E x \in PaidFor(k) : x.outcome = "placed"
  /\ \A k \in Alone : receipt[k] = "unnamed" =>
       \A x \in PaidFor(k) : x.outcome = "blank"

(* Reconciling an uncertain order is a human's job: no request and no       *)
(* restart takes the row out of that state, for a key served alone.         *)
UncertainIsFinal ==
  [][\A k \in Alone : state[k] = "uncertain" => state'[k] = "uncertain"]_vars

(* What is ordered for a client that runs alone is what it was approved to  *)
(* buy, whatever an earlier order left in the cart -- unless Rappi refused  *)
(* the cart with the 404 that passes for success.                           *)
OrderedAsApproved ==
  \A x \in paid : x.client \in Exclusive /\ ~x.ignored => x.product = Product[x.client]

(* state.py: one Idempotency-Key, one paying click, ever -- also when the    *)
(* requests of a key overlap.                                               *)
OneClickEver == \A k \in Keys : \A x, y \in PaidFor(k) : x = y

(* service.add_to_cart: the cart can only ever hold what that method put    *)
(* there, so the cart_hash binds the order to the approved product -- also  *)
(* when clients overlap (and Rappi took the cart).                          *)
BoundToTheCart == \A x \in paid : ~x.ignored => x.product = Product[x.client]

----------------------------------------------------------------------------
(* The inductive invariant behind the theorems of BridgeOrderProofs *)

(* A client that runs alone is the only one in flight. *)
RunsAlone == \A c \in Exclusive, d \in Clients : InFlight(c) /\ InFlight(d) => c = d

(* What the row and the payments of a key that is served alone look like at *)
(* each statement of its client.                                            *)
RowAt(c) ==
  LET k == Key[c] IN
  k \in Alone =>
    /\ pc[c] \in {"session", "bind", "token", "guards", "arm"} =>
         state[k] \notin {"none", "clicked", "confirmed", "uncertain"}
    /\ pc[c] \in {"place", "confirm", "confirm_unnamed", "fail", "park"} => state[k] = "clicked"
    /\ pc[c] \in {"place", "fail"} => PaidFor(k) = {}
    /\ pc[c] = "confirm_unnamed" => \A x \in PaidFor(k) : x.outcome = "blank"

(* An order is confirmed only after Rappi said so. *)
PlacedAt(c) == pc[c] = "confirm" => \E x \in PaidFor(Key[c]) : x.outcome = "placed"

(* The cart of a client that runs alone. *)
CartAt(c) == c \in Exclusive \ ignored /\ InFlight(c) => cart \in {Product[c], Empty}

ConfirmedHasReceipt ==
  /\ \A k \in Keys : state[k] = "confirmed" => receipt[k] # None
  /\ \A k \in Alone : receipt[k] = "unnamed" => state[k] = "confirmed"

OrderInv ==
  /\ TypeOK
  /\ RunsAlone
  /\ \A c \in Clients : RowAt(c) /\ PlacedAt(c) /\ CartAt(c)
  /\ ConfirmedHasReceipt
  /\ OnePayingClick /\ MoneyOnRecord /\ ReceiptsAreTrue /\ OrderedAsApproved
=============================================================================
