----------------------------- MODULE PolicyGate -----------------------------
(***************************************************************************)
(* The pure policy gate of the API lane (src/api/domain/policy.py and the  *)
(* value objects of models.py): mandate state, binding, price, scope,      *)
(* conditions, limits, velocity (R-BURST) and step-up (R-STEPUP), in the   *)
(* order PolicyGate.evaluate asks them.                                    *)
(*                                                                         *)
(* Amounts are whole numbers of cents, instants whole ticks of the clock.  *)
(* A name (merchant, category, currency...) is a string that is only       *)
(* compared.  What JsonLogic makes of the mandate's condition is the field *)
(* meets of the offer: a condition that raises counts as not met.          *)
(***************************************************************************)
EXTENDS Naturals, Sequences

CONSTANTS
  MaxIntents,      \* BurstConfig.max_intents: intents per window
  MaxOpen,         \* BurstConfig.max_open_authorizations
  MaxEscalations,  \* BurstConfig.max_escalations_per_hour
  Cooldown,        \* BurstConfig.cooldown
  TTL_L3,          \* StepUpConfig.ttl_l3
  TTL_L3_PLUS,     \* StepUpConfig.ttl_l3_plus
  None

(* BurstConfig and StepUpConfig fix 10 minutes of cooldown and envelopes of *)
(* 2 and 5 minutes; only their order matters here.                          *)
ASSUME GateAssumption ==
  /\ {MaxIntents, MaxOpen, MaxEscalations, TTL_L3, TTL_L3_PLUS, Cooldown} \subseteq Nat
  /\ 0 < TTL_L3 /\ TTL_L3 <= TTL_L3_PLUS /\ TTL_L3_PLUS <= Cooldown

----------------------------------------------------------------------------
(* Value objects: what their constructors accept.  An amount is a number of *)
(* cents, never negative; a finer or a malformed one is refused.            *)

Money == Nat

MandateStatus == {"draft", "active", "suspended", "revoked", "expired", "exhausted"}

MandateClaims ==
  {m \in [jti : STRING, agent : STRING, status : MandateStatus, currency : STRING,
          not_before : Nat, expires_at : Nat,
          merchants : SUBSET STRING, categories : SUBSET STRING, conditions : BOOLEAN,
          max_per_txn : Money, total_budget : Money, max_txn : Nat \cup {None}] :
     m.not_before < m.expires_at}

Offer == [id : STRING, merchant : STRING, category : STRING, amount : Money, meets : BOOLEAN]

PurchaseIntent ==
  [mandate : STRING, agent : STRING, merchant : STRING, offer : STRING,
   amount : Money, currency : STRING]

SpendView ==
  [spent : Money, reserved : Money, txn : Nat, intents : Nat, escalations : Nat,
   open : Nat, cooldown : Nat]

----------------------------------------------------------------------------
(* Decisions *)

Levels == {None, "L3", "L3+"}

Approved == [verdict |-> "APPROVED", reason |-> None, level |-> None, until |-> 0]

Rejected(r) == [verdict |-> "REJECTED", reason |-> r, level |-> None, until |-> 0]

(* An escalation of a given level; until is the cooldown it starts, if any. *)
Escalated(r, l, u) == [verdict |-> "ESCALATED", reason |-> r, level |-> l, until |-> u]

(* The first of a sequence of checks that objects; a check that has nothing *)
(* to object answers Approved.                                              *)
FirstObjection(checks) ==
  LET objections == {n \in DOMAIN checks : checks[n] # Approved}
      first == CHOOSE n \in objections : \A m \in objections : n <= m
  IN  IF objections = {} THEN Approved ELSE checks[first]

Unless(ok, r) == IF ok THEN Approved ELSE Rejected(r)

----------------------------------------------------------------------------
(* The checks, in the order of PolicyGate.evaluate *)

StatusReason ==
  [draft |-> "MANDATE_NOT_YET_VALID", suspended |-> "MANDATE_SUSPENDED",
   revoked |-> "MANDATE_REVOKED", expired |-> "MANDATE_EXPIRED",
   exhausted |-> "MANDATE_EXHAUSTED"]

mandate_state_reason(m, now) ==
  IF m.status # "active" THEN Rejected(StatusReason[m.status])
  ELSE FirstObjection(<<
         Unless(m.expires_at > m.not_before, "MANDATE_EXPIRED"),
         Unless(now >= m.not_before, "MANDATE_NOT_YET_VALID"),
         Unless(now < m.expires_at, "MANDATE_EXPIRED")>>)

binding(m, i) ==
  FirstObjection(<<
    Unless(i.mandate = m.jti /\ i.agent = m.agent, "INVALID_PROOF_OF_POSSESSION"),
    Unless(i.currency = m.currency, "CONDITION_FAILED")>>)

price_check(i, o) == Unless(i.offer = o.id /\ i.amount = o.amount, "CONDITION_FAILED")

scope_allows(m, i, o) ==
  FirstObjection(<<
    Unless(i.merchant = o.merchant /\ o.merchant \in m.merchants, "MERCHANT_NOT_ALLOWED"),
    Unless(o.category \in m.categories, "CATEGORY_FORBIDDEN")>>)

evaluate_conditions(m, o) == Unless(m.conditions => o.meets, "CONDITION_FAILED")

limits_decision(m, amount, spend) ==
  FirstObjection(<<
    Unless(amount <= m.max_per_txn, "AMOUNT_EXCEEDS_PER_TXN"),
    Unless(spend.spent + spend.reserved + amount <= m.total_budget, "BUDGET_EXCEEDED"),
    Unless(m.max_txn = None \/ spend.txn + 1 <= m.max_txn, "LIMIT_EXHAUSTED")>>)

(* Mutant: the candidate itself is not counted against the caps. *)
evaluate_burstOffByOne(spend, now) ==
  FirstObjection(<<
    Unless(now >= spend.cooldown, "VELOCITY_BURST"),
    Unless(spend.escalations <= MaxEscalations, "MANDATE_SUSPENDED"),
    IF spend.intents > MaxIntents
      THEN Escalated("VELOCITY_BURST", "L3", now + Cooldown) ELSE Approved,
    IF spend.open > MaxOpen
      THEN Escalated("VELOCITY_BURST", "L3", 0) ELSE Approved>>)

(* R-BURST: the counters describe the state before the candidate.  An       *)
(* escalation for the number of intents starts a cooldown, one for the      *)
(* number of open authorizations does not.                                  *)
evaluate_burst(spend, now) ==
  FirstObjection(<<
    Unless(now >= spend.cooldown, "VELOCITY_BURST"),
    Unless(spend.escalations <= MaxEscalations, "MANDATE_SUSPENDED"),
    IF spend.intents + 1 > MaxIntents
      THEN Escalated("VELOCITY_BURST", "L3", now + Cooldown) ELSE Approved,
    IF spend.open + 1 > MaxOpen
      THEN Escalated("VELOCITY_BURST", "L3", 0) ELSE Approved>>)

(* R-STEPUP: 70 percent of the limit per purchase, 80 percent of the budget; *)
(* both thresholds are inclusive.                                            *)
AtAmountThreshold(m, amount) == m.max_per_txn > 0 /\ 10 * amount >= 7 * m.max_per_txn

AtBudgetThreshold(m, spend) ==
  m.total_budget > 0 /\ 10 * (spend.spent + spend.reserved) >= 8 * m.total_budget

evaluate_step_up(m, amount, spend) ==
  FirstObjection(<<
    IF AtAmountThreshold(m, amount)
      THEN Escalated("STEPUP_AMOUNT_THRESHOLD", "L3+", 0) ELSE Approved,
    IF AtBudgetThreshold(m, spend)
      THEN Escalated("STEPUP_BUDGET_USAGE", "L3+", 0) ELSE Approved>>)

(* An approval given to an escalation waives the step-up, never the rest. A *)
(* step-up takes precedence over the velocity escalation, whose cooldown is *)
(* then not started.                                                        *)
evaluate(m, i, spend, now, o, approved_stepup) ==
  LET hard == FirstObjection(<<
                mandate_state_reason(m, now), binding(m, i), price_check(i, o),
                scope_allows(m, i, o), evaluate_conditions(m, o),
                limits_decision(m, i.amount, spend)>>)
      burst == evaluate_burst(spend, now)
      stepup == IF approved_stepup THEN Approved ELSE evaluate_step_up(m, i.amount, spend)
      refused == IF burst.verdict = "REJECTED" THEN burst ELSE Approved
  IN  FirstObjection(<<hard, refused, stepup, burst>>)

----------------------------------------------------------------------------
(* Envelopes of escalations *)

ttl_for_level(l) == IF l = "L3+" THEN TTL_L3_PLUS ELSE TTL_L3

escalation_deadline(created_at, l) == created_at + ttl_for_level(l)

escalation_expired(timeout_at, now) == now >= timeout_at

(* Mutant: user verification is not asked for. *)
EnvelopeHoldsUnverified(timeout_at, l, now, approve, verified) ==
  ~escalation_expired(timeout_at, now) /\ approve

(* resolve_escalation of the domain: in time, an approval, and at L3+ with *)
(* user verification.                                                       *)
EnvelopeHolds(timeout_at, l, now, approve, verified) ==
  /\ ~escalation_expired(timeout_at, now)
  /\ approve
  /\ l = "L3+" => verified
=============================================================================
