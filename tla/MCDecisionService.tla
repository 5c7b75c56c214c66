------------------------- MODULE MCDecisionService -------------------------
(* Two intents under one mandate, one of them at the step-up threshold; the *)
(* budget holds both (in memory) or only one of them (in Postgres, where    *)
(* callers race for it), and one authorization is open at a time.           *)
EXTENDS DecisionService, TLC

MCMandate(budget) ==
  [jti |-> "m", status |-> "active", not_before |-> 0, expires_at |-> MaxTime + 1,
   agent |-> "agent", currency |-> "COP", merchants |-> {"shop"}, categories |-> {"food"},
   conditions |-> FALSE, max_per_txn |-> 10, total_budget |-> budget, max_txn |-> 3]

MCStarts == {[deployment |-> "memory", mandate |-> MCMandate(12)],
             [deployment |-> "postgres", mandate |-> MCMandate(11)]}

MCOffer(id, amount) ==
  [id |-> id, merchant |-> "shop", category |-> "food", amount |-> amount, meets |-> TRUE]

(* Callers and request bodies are interchangeable. *)
MCSymmetry == Permutations(Callers) \cup Permutations(Requests)

MCOffers == [small |-> MCOffer("small", 5), big |-> MCOffer("big", 7)]

MCIntents == {"i1", "i2"}

MCClaims(offer, amount) ==
  [mandate |-> "m", agent |-> "agent", merchant |-> "shop", currency |-> "COP",
   offer |-> offer, amount |-> amount]

MCIntent ==
  [i1 |-> MCClaims("small", 5), i2 |-> MCClaims("big", 7)]

(* The callers of i2 may send the purchase id of i1. *)
MCPurchaseIds == [i1 |-> {"i1"}, i2 |-> {"i1", "i2"}]

(* Only the offer at the step-up threshold is ever withdrawn, and no offer  *)
(* and no key expires in the behaviours where an id is shared.              *)
MCNext ==
  /\ Next
  /\ offers'["small"] = offers["small"]
  /\ shared' # {} => offers' = Offers /\ ~ForgetKeys

MCSpec == Init /\ [][MCNext]_vars
=============================================================================
