-------------------------------- MODULE Rail --------------------------------
(***************************************************************************)
(* The simulated payment rail (src/yuno_sim): the vault of payment tokens, *)
(* the capture of a payment under an AP2 mandate, and disputes.  It asks   *)
(* the issuer (module Mandates) whether the presented mandate is live.     *)
(*                                                                         *)
(* A call of POST /v1/payments makes four steps, each of which other       *)
(* requests may come between: the lookup of the idempotency key, the       *)
(* token, the mandate, and the transaction that settles.  Refusals leave   *)
(* no trace: their row is rolled back with the request.  Signatures are    *)
(* taken as sound.                                                         *)
(***************************************************************************)
EXTENDS Mandates

CONSTANTS
  Calls,      \* calls of POST /v1/payments
  Keys,       \* idempotency keys
  Enrolments, \* setup tokens
  Evidence,   \* bundles an adjudication may be given
  MaxDisputes \* bound: disputes opened

ASSUME RailAssumption ==
  /\ None \notin Calls \cup Keys /\ None \notin {"refused", "lost", "SELLER_FAVOR", "BUYER_FAVOR"}
  /\ "refused" \notin Calls /\ "lost" \notin Calls
  /\ Evidence \subseteq [mandate : BOOLEAN, intent : BOOLEAN, cart : BOOLEAN,
                         escalated : BOOLEAN, receipt : BOOLEAN]
  /\ MaxDisputes \in Nat

VARIABLES
  setup,      \* setup_tokens: enrolment, approval, exchange
  tokens,     \* payment_tokens: status, by the confirmation that made them
  confirming, \* confirmations (each with the token it will make) that have read an
              \* approved setup token
  call,       \* the calls: where they are, their key, their answer
  payments,   \* captured payments
  idempotency,\* key -> the payment first captured under it
  disputes,   \* payment -> None, open, or its outcome
  judging,    \* adjudications that have read the dispute as open
  tardy       \* history: calls that came in after the revocation had committed

vault   == <<setup, tokens, confirming>>
ledger  == <<call, payments, idempotency, disputes, judging, tardy>>
rail    == <<vault, ledger>>

NoCall == [pc |-> "none", key |-> None, amount |-> 0, cart |-> 0, answer |-> None]

RailTypeOK ==
  /\ setup \in [Enrolments -> {None, "pending", "approved", "exchanged", "lapsed"}]
  /\ tokens \in [Tokens -> {None, "active", "deleted"}]
  /\ confirming \subseteq [token : Tokens, of : Enrolments]
  /\ call \in [Calls -> [pc : {"none", "lookup", "token", "mandate", "settle", "done"},
                         key : Keys \cup {None}, amount : Nat, cart : Nat,
                         answer : Calls \cup {None, "refused", "lost"}]]
  /\ payments \subseteq [id : Calls, key : Keys, amount : Nat]
  /\ idempotency \in [Keys -> Calls \cup {None}]
  /\ disputes \in [Calls -> {None, "open", "SELLER_FAVOR", "BUYER_FAVOR"}]
  /\ judging \in [Calls -> 0..2]
  /\ tardy \subseteq Calls

RailInit ==
  /\ setup = [n \in Enrolments |-> None]
  /\ tokens = [t \in Tokens |-> None]
  /\ confirming = {}
  /\ call = [c \in Calls |-> NoCall]
  /\ payments = {}
  /\ idempotency = [k \in Keys |-> None]
  /\ disputes = [c \in Calls |-> None]
  /\ judging = [c \in Calls |-> 0]
  /\ tardy = {}

----------------------------------------------------------------------------
(* The vault *)

create_setup_token(n) ==
  /\ setup[n] = None
  /\ setup' = [setup EXCEPT ![n] = "pending"]
  /\ UNCHANGED <<tokens, confirming, ledger>>

approve_setup_token(n) ==
  /\ setup[n] = "pending"
  /\ setup' = [setup EXCEPT ![n] = "approved"]
  /\ UNCHANGED <<tokens, confirming, ledger>>

(* SETUP_TOKEN_TTL_DAYS pass before the exchange. *)
Lapse(n) ==
  /\ setup[n] \in {"pending", "approved"}
  /\ setup' = [setup EXCEPT ![n] = "lapsed"]
  /\ UNCHANGED <<tokens, confirming, ledger>>

(* exchange reads the setup token and writes later, without a guard: two    *)
(* confirmations that overlap make a token each.                            *)
ExchangeRead(n, t) ==
  /\ setup[n] = "approved"
  /\ tokens[t] = None /\ \A x \in confirming : x.token # t
  /\ confirming' = confirming \cup {[token |-> t, of |-> n]}
  /\ UNCHANGED <<setup, tokens, ledger>>

ExchangeWrite(x) ==
  /\ tokens' = [tokens EXCEPT ![x.token] = "active"]
  /\ setup' = [setup EXCEPT ![x.of] = "exchanged"]
  /\ confirming' = confirming \ {x}
  /\ UNCHANGED ledger

get_active_token(t) == t # None /\ tokens[t] = "active"

(* delete_token, called by revoke_mandate; a token already deleted is fine. *)
delete_token(g) ==
  /\ req[g].pc = "delete"
  /\ tokens' = [tokens EXCEPT ![mandate.token] = IF @ = "active" THEN "deleted" ELSE @]
  /\ req' = [req EXCEPT ![g].pc = "mark"]
  /\ UNCHANGED <<setup, confirming, ledger>>
  /\ UNCHANGED <<mandate, instrument, challenge, stale, counts, asserted, credential, changed, outbox>>

----------------------------------------------------------------------------
(* capture *)

(* A call brings an amount and the signed checkout, whose total is "cart". *)
Arrive(c, k, amount, cart) ==
  /\ call[c].pc = "none"
  /\ call' = [call EXCEPT ![c] = [NoCall EXCEPT !.pc = "lookup", !.key = k, !.amount = amount, !.cart = cart]]
  /\ tardy' = IF mandate.status = "revoked" THEN tardy \cup {c} ELSE tardy
  /\ UNCHANGED <<vault, payments, idempotency, disputes, judging>>

Go(c, l) == call' = [call EXCEPT ![c].pc = l]

Reply(c, a) == call' = [call EXCEPT ![c].pc = "done", ![c].answer = a]

(* A refusal is written down, and rolled back when it is raised. *)
Refuse(c) == Reply(c, "refused")

Lookup(c) ==
  /\ call[c].pc = "lookup"
  /\ IF idempotency[call[c].key] # None THEN Reply(c, idempotency[call[c].key]) ELSE Go(c, "token")
  /\ UNCHANGED <<vault, payments, idempotency, disputes, judging, tardy>>

CheckToken(c) ==
  /\ call[c].pc = "token"
  /\ IF get_active_token(mandate.token) THEN Go(c, "mandate") ELSE Refuse(c)
  /\ UNCHANGED <<vault, payments, idempotency, disputes, judging, tardy>>

(* Mutant: the signature alone decides, as it would without an issuer to ask. *)
CheckMandateOffline(c) ==
  /\ call[c].pc = "mandate"
  /\ Go(c, "settle")
  /\ UNCHANGED <<vault, payments, idempotency, disputes, judging, tardy>>

(* IssuerClient.mandate_status: asked live; None when nobody answers. *)
mandate_status == {get_mandate_by_jti, None}

(* The total of the signed checkout is the amount to capture. *)
_check_checkout(c) == call[c].amount = call[c].cart

(* AP2Verifier.verify: a presentation that verifies, of a mandate that is   *)
(* active now, for this cart; an issuer that cannot be reached counts as a  *)
(* refusal.                                                                 *)
CheckMandate(c) ==
  /\ call[c].pc = "mandate"
  /\ \E s \in mandate_status :
       IF Presentable /\ s = "active" /\ _check_checkout(c) THEN Go(c, "settle") ELSE Refuse(c)
  /\ UNCHANGED <<vault, payments, idempotency, disputes, judging, tardy>>

(* Mutant: the loser of the race answers with its own payment. *)
SettleLoserWins(c) ==
  LET k == call[c].key IN
  /\ call[c].pc = "settle"
  /\ Reply(c, c)
  /\ IF idempotency[k] = None
       THEN /\ payments' = payments \cup {[id |-> c, key |-> k, amount |-> call[c].amount]}
            /\ idempotency' = [idempotency EXCEPT ![k] = c]
       ELSE UNCHANGED <<payments, idempotency>>
  /\ UNCHANGED <<vault, disputes, judging, tardy>>

(* The primary key of the idempotency table settles a race: the loser rolls *)
(* back and answers with the winner's payment.                              *)
Settle(c) ==
  LET k == call[c].key IN
  /\ call[c].pc = "settle"
  /\ IF idempotency[k] = None
       THEN /\ payments' = payments \cup {[id |-> c, key |-> k, amount |-> call[c].amount]}
            /\ idempotency' = [idempotency EXCEPT ![k] = c]
            /\ Reply(c, c)
       ELSE /\ Reply(c, idempotency[k])
            /\ UNCHANGED <<payments, idempotency>>
  /\ UNCHANGED <<vault, disputes, judging, tardy>>

(* The rail dies in the middle of a call. *)
RailDies(c) ==
  /\ call[c].pc \notin {"none", "done"}
  /\ Reply(c, "lost")
  /\ UNCHANGED <<vault, payments, idempotency, disputes, judging, tardy>>

----------------------------------------------------------------------------
(* Disputes (bound: one for a payment) *)

open_dispute(c) ==
  /\ \E p \in payments : p.id = c
  /\ disputes[c] = None
  /\ Cardinality({d \in Calls : disputes[d] # None}) < MaxDisputes
  /\ disputes' = [disputes EXCEPT ![c] = "open"]
  /\ UNCHANGED <<vault, call, payments, idempotency, judging, tardy>>

(* A missing link of the chain goes to the buyer. *)
Defensible(e) == e.mandate /\ e.intent /\ e.cart /\ (e.escalated => e.receipt)

(* adjudicate reads the dispute and writes the outcome later, unguarded. *)
AdjudicateRead(c) ==
  /\ disputes[c] = "open" /\ judging[c] < 2
  /\ judging' = [judging EXCEPT ![c] = @ + 1]
  /\ UNCHANGED <<vault, call, payments, idempotency, disputes, tardy>>

adjudicate(c, e) ==
  /\ judging[c] > 0
  /\ judging' = [judging EXCEPT ![c] = @ - 1]
  /\ disputes' = [disputes EXCEPT ![c] = IF Defensible(e) THEN "SELLER_FAVOR" ELSE "BUYER_FAVOR"]
  /\ UNCHANGED <<vault, call, payments, idempotency, tardy>>

DisputeNext(c) ==
  \/ open_dispute(c) \/ AdjudicateRead(c)
  \/ \E e \in Evidence : adjudicate(c, e)

RailNext ==
  \/ \E n \in Enrolments :
       \/ create_setup_token(n) \/ approve_setup_token(n) \/ Lapse(n)
       \/ \E t \in Tokens : ExchangeRead(n, t)
  \/ \E x \in confirming : ExchangeWrite(x)
  \/ \E c \in Calls :
       \/ Lookup(c) \/ CheckToken(c) \/ CheckMandate(c) \/ Settle(c) \/ RailDies(c)
       \/ DisputeNext(c)

----------------------------------------------------------------------------
(* Properties *)

(* A call that reaches the rail after the holder's revocation has committed *)
(* never captures, even when the deletion of the token was lost: the rail   *)
(* asks the issuer, and an old signature is not enough.                     *)
RevocationReachesRail == \A p \in payments : p.id \notin tardy
=============================================================================
