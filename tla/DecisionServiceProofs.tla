----------------------- MODULE DecisionServiceProofs -----------------------
(***************************************************************************)
(* Proofs about DecisionService, for any number of callers and intents,    *)
(* any mandate, any catalogue and any gate configuration, in both          *)
(* deployments.  The inductive invariant IInv is a conjunction of named    *)
(* parts; Spec => []IInv is proved part by part, and every theorem follows *)
(* from it.                                                                *)
(***************************************************************************)
EXTENDS DecisionService, SumTheorems

----------------------------------------------------------------------------
(* The inductive invariant *)

Reasons ==
  {None, "MANDATE_NOT_YET_VALID", "MANDATE_SUSPENDED", "MANDATE_REVOKED", "MANDATE_EXPIRED",
   "MANDATE_EXHAUSTED", "INVALID_PROOF_OF_POSSESSION", "CONDITION_FAILED",
   "MERCHANT_NOT_ALLOWED", "CATEGORY_FORBIDDEN", "AMOUNT_EXCEEDS_PER_TXN", "BUDGET_EXCEEDED",
   "LIMIT_EXHAUSTED", "VELOCITY_BURST", "STEPUP_AMOUNT_THRESHOLD", "STEPUP_BUDGET_USAGE"}

Decision == [verdict : Verdicts, reason : Reasons, level : Levels, until : Nat]

Locals == [pc : PC, i : Intents \cup {None}, p : Intents \cup {None}, at : 0..MaxTime, dec : Decision, rid : BOOLEAN]

Escalations == [status : {None, "pending", "resolved", "expired"}, level : Levels, timeout_at : Nat,
                p : Intents \cup {None}]

EventTypes ==
  {"purchase.rejected", "purchase.escalated", "risk.stepup_required", "agent.paused_cooldown",
   "purchase.verified", "escalation.resolved", "escalation.expired"}

Stores ==
  [purchases : [Intents -> PurchaseStatus], escalations : [Intents -> Escalations],
   owner : [Intents -> Intents \cup {None}], holder : [Intents -> Intents \cup {None}],
   held : SUBSET Intents, reserved : Nat, txn : Nat, intents : [0..MaxTime -> Nat],
   asked : Nat, open : Nat, cooldown : Nat, outbox : SUBSET (EventTypes \X Intents)]

Keys == [Intents -> [request : Requests \cup {None}, response : Verdicts \cup {None}]]

Types ==
  /\ deployment \in {"memory", "postgres"}
  /\ now \in 0..MaxTime
  /\ mandate \in MandateClaims
  /\ db \in Stores
  /\ keys \in Keys
  /\ me \in [Callers -> Locals]
  /\ \A c \in Callers : ~At(c, "idle") => me[c].i \in Intents /\ me[c].p \in Intents
  /\ verified \subseteq Intents /\ told \subseteq Intents
  /\ shared \subseteq Intents /\ duelled \subseteq Intents

(* In memory one call at a time is under way, so nothing is ever duelled.   *)
OneAtATime ==
  deployment = "memory" =>
    /\ duelled = {}
    /\ \A c, o \in Callers : ~At(c, "idle") /\ ~At(o, "idle") => c = o

Verifying(c, i) == me[c].i = i /\ (At(c, "decide") \/ At(c, "apply") \/ At(c, "finish"))

(* The claim of a key belongs to one caller until its response is saved.    *)
ClaimIsExclusive ==
  /\ \A i \in Intents, c \in Callers :
       Verifying(c, i) => keys[i].request # None /\ keys[i].response = None
  /\ \A i \in Intents, c, o \in Callers : Verifying(c, i) /\ Verifying(o, i) => c = o
  /\ \A i \in Intents : keys[i].response # None => keys[i].request # None

(* The intents that nobody verified under another id, and whose id nobody   *)
(* used for another intent.                                                 *)
Clean == Intents \ shared

Paired(i, p) == i = p \/ (i \in shared /\ p \in shared)

(* Whatever relates an intent to a purchase id relates it to its own, or    *)
(* both of them count as shared: a call, an escalation, a row and a hold.   *)
Names ==
  /\ \A c \in Callers : ~At(c, "idle") => Paired(me[c].i, me[c].p)
  /\ \A i \in Intents : db.escalations[i].status # None =>
       db.escalations[i].p \in Intents /\ Paired(i, db.escalations[i].p)
  /\ \A p \in Intents : db.purchases[p] = None <=> db.owner[p] = None
  /\ \A p \in Intents : db.owner[p] # None => Paired(db.owner[p], p)
  /\ \A p \in db.held : db.holder[p] \in Intents /\ Paired(db.holder[p], p)

(* The purchase, its escalation and, in memory, its hold agree.             *)
Agreement ==
  /\ \A c \in Callers : At(c, "apply") /\ me[c].i \in Clean => db.purchases[me[c].i] = None
  /\ \A i \in Clean : db.purchases[i] = None => db.escalations[i].status = None
  /\ \A i \in Clean : db.escalations[i].status = "pending" => db.purchases[i] = "awaiting_escalation"
  /\ \A i \in Clean : deployment = "memory" /\ db.purchases[i] = None => i \notin db.held

(* What a call that resolves an escalation still finds.                     *)
Resolvers ==
  /\ \A i \in Clean, c \in Callers : Resolving(c, i) =>
       db.purchases[i] \in {"awaiting_escalation", "pending_capture", "compensated"}
  /\ \A i \in Clean, c, o \in Callers :
       Resolving(c, i) /\ Resolving(o, i) /\ c # o => i \in duelled
  /\ \A i \in Clean \ duelled, c \in Callers : Resolving(c, i) =>
       \/ db.purchases[i] = "awaiting_escalation" /\ db.escalations[i].status = "pending"
       \/ /\ deployment = "memory" /\ At(c, "compensate") /\ me[c].rid
          /\ db.purchases[i] = "pending_capture"

(* Whoever claims a free key finds no envelope that can still be approved,  *)
(* and, if the purchase is open, nobody who could close it.                 *)
FreeKey(i) == keys[i] = NoKey \/ \E c \in Callers : At(c, "decide") /\ me[c].i = i

FreeKeys ==
  \A i \in Clean : FreeKey(i) =>
    /\ db.escalations[i].timeout_at = 0
    /\ \A c \in Callers : me[c].i = i => ~At(c, "commit")
    /\ db.purchases[i] = "pending_capture" => \A c \in Callers : ~Resolving(c, i)

(* An approval that was given, stored or is about to be given.              *)
Granted(i) ==
  \/ i \in told
  \/ keys[i].response = "APPROVED"
  \/ \E c \in Callers : At(c, "finish") /\ me[c].i = i /\ me[c].dec.verdict = "APPROVED"

GrantsHold ==
  \A i \in Clean : Granted(i) =>
    /\ db.purchases[i] = "pending_capture"
    /\ \A c \in Callers : ~Resolving(c, i)

(* Finitely many purchases are open; money and counts are exact as long as  *)
(* nothing was duelled.                                                     *)
Amounts == [i \in Intents |-> Amount(i)]

Books ==
  shared = {} =>
    /\ IsFiniteSet(Live)
    /\ duelled = {} =>
         /\ db.held = Live
         /\ db.reserved = SumFunctionOnSet(Amounts, Live)
         /\ db.open = Cardinality(Live)

(* A call that is about to buy.                                             *)
Buying(c) == At(c, "commit") \/ (At(c, "apply") /\ me[c].dec.verdict = "APPROVED")

(* With one call at a time, what the gate saw still holds when it buys.     *)
GateStillHolds ==
  deployment = "memory" =>
    /\ db.open <= MaxOpen
    /\ \A c \in Callers : Buying(c) => mandate.status = "active" /\ db.open + 1 <= MaxOpen

(* The step-up decided for an amount is never lost on the way.              *)
StepUps ==
  /\ \A i \in Clean : AtAmountThreshold(mandate, Amount(i)) =>
       /\ db.escalations[i].status # None => db.escalations[i].level = "L3+"
       /\ i \in Live => i \in verified
  /\ \A c \in Callers :
       ~At(c, "idle") /\ me[c].i \in Clean /\ AtAmountThreshold(mandate, Amount(me[c].i)) =>
       /\ At(c, "apply") => me[c].dec.verdict # "APPROVED"
       /\ At(c, "apply") /\ me[c].dec.verdict = "ESCALATED" => me[c].dec.level = "L3+"
       /\ At(c, "commit") => me[c].i \in verified

(* Only in memory, where a failed commit leaves its writes, is a purchase   *)
(* open without its event, until the same call compensates.                 *)
Announced ==
  \A p \in Live :
    \/ <<"purchase.verified", p>> \in db.outbox
    \/ deployment = "memory" /\ \E c \in Callers : At(c, "compensate") /\ me[c].p = p

IInv ==
  /\ Types /\ Names /\ OneAtATime /\ ClaimIsExclusive /\ Agreement /\ Resolvers
  /\ FreeKeys /\ GrantsHold /\ Books /\ GateStillHolds /\ StepUps /\ Announced
  /\ WithinBudget

----------------------------------------------------------------------------
(* The gate *)

(* The first objection is one of the checks, if any of them objects.        *)
LEMMA FirstObjects ==
  ASSUME NEW checks, DOMAIN checks \subseteq Nat
  PROVE  \/ /\ FirstObjection(checks) = Approved
            /\ \A k \in DOMAIN checks : checks[k] = Approved
         \/ \E k \in DOMAIN checks :
              /\ checks[k] # Approved /\ FirstObjection(checks) = checks[k]
              /\ \A j \in DOMAIN checks : j < k => checks[j] = Approved
<1> DEFINE objections == {k \in DOMAIN checks : checks[k] # Approved}
<1>1. CASE objections = {}
  BY <1>1 DEF FirstObjection
<1>2. CASE objections # {}
  <2> DEFINE first == CHOOSE k \in objections : \A m \in objections : k <= m
  <2>1. \E k \in objections : \A m \in objections : k <= m
    <3>1. objections \subseteq Nat
      OBVIOUS
    <3> HIDE DEF objections
    <3> QED BY <1>2, <3>1, LeastNat
  <2>2. first \in objections /\ \A m \in objections : first <= m
    BY <2>1
  <2>3. FirstObjection(checks) = checks[first]
    BY <1>2 DEF FirstObjection
  <2> HIDE DEF first
  <2>4. \A j \in DOMAIN checks : j < first => checks[j] = Approved
    BY <2>2
  <2> QED BY <2>2, <2>3, <2>4
<1> QED BY <1>1, <1>2

LEMMA UnlessObjects ==
  ASSUME NEW ok, NEW r \in Reasons
  PROVE  \/ Unless(ok, r) = Approved
         \/ Unless(ok, r).verdict = "REJECTED" /\ Unless(ok, r) \in Decision
BY DEF Unless, Rejected, Decision, Verdicts, Levels

(* The checks before the velocity only reject, and never an active mandate  *)
(* for its status.                                                          *)
LEMMA HardChecks ==
  ASSUME NEW m \in MandateClaims, NEW i, NEW spend, NEW t, NEW o
  PROVE  LET hard == FirstObjection(<<
                mandate_state_reason(m, t), binding(m, i), price_check(i, o),
                scope_allows(m, i, o), evaluate_conditions(m, o),
                limits_decision(m, i.amount, spend)>>)
         IN  \/ hard = Approved /\ m.status = "active"
             \/ hard.verdict = "REJECTED" /\ hard \in Decision
<1> DEFINE Mild(d) == d = Approved \/ (d.verdict = "REJECTED" /\ d \in Decision)
<1>1. ASSUME NEW a, NEW b, Mild(a), Mild(b)
      PROVE  Mild(FirstObjection(<<a, b>>))
  <2>1. DOMAIN <<a, b>> = 1..2 /\ <<a, b>>[1] = a /\ <<a, b>>[2] = b
    OBVIOUS
  <2> QED BY <1>1, <2>1, FirstObjects
<1>2. ASSUME NEW a, NEW b, NEW c, Mild(a), Mild(b), Mild(c)
      PROVE  Mild(FirstObjection(<<a, b, c>>))
  <2>1. DOMAIN <<a, b, c>> = 1..3 /\ \A k \in 1..3 : <<a, b, c>>[k] \in {a, b, c}
    OBVIOUS
  <2> QED BY <1>2, <2>1, FirstObjects
<1>3. Mild(mandate_state_reason(m, t)) /\ (m.status # "active" => mandate_state_reason(m, t) # Approved)
  <2>1. CASE m.status # "active"
    <3>1. m.status \in MandateStatus
      BY DEF MandateClaims
    <3>2. StatusReason[m.status] \in Reasons
      BY <2>1, <3>1 DEF StatusReason, MandateStatus, Reasons
    <3> QED BY <2>1, <3>2 DEF mandate_state_reason, Rejected, Approved, Decision, Verdicts, Levels
  <2>2. CASE m.status = "active"
    BY <2>2, <1>2, UnlessObjects DEF mandate_state_reason, Reasons
  <2> QED BY <2>1, <2>2
<1>4. Mild(binding(m, i)) /\ Mild(price_check(i, o)) /\ Mild(scope_allows(m, i, o))
  BY <1>1, UnlessObjects DEF binding, price_check, scope_allows, Reasons
<1>5. Mild(evaluate_conditions(m, o)) /\ Mild(limits_decision(m, i.amount, spend))
  BY <1>2, UnlessObjects DEF evaluate_conditions, limits_decision, Reasons
<1> DEFINE all == <<mandate_state_reason(m, t), binding(m, i), price_check(i, o),
                    scope_allows(m, i, o), evaluate_conditions(m, o),
                    limits_decision(m, i.amount, spend)>>
<1>6. DOMAIN all = 1..6 /\ all[1] = mandate_state_reason(m, t) /\ \A k \in 1..6 : Mild(all[k])
  BY <1>3, <1>4, <1>5
<1> HIDE DEF all, Mild
<1>7. \/ FirstObjection(all) = Approved /\ all[1] = Approved
      \/ FirstObjection(all) # Approved /\ Mild(FirstObjection(all))
  BY <1>6, FirstObjects
<1> QED BY <1>3, <1>6, <1>7 DEF all, Mild

(* Velocity rejects or escalates, and lets nothing through at the cap.      *)
LEMMA BurstChecks ==
  ASSUME NEW spend, spend.open \in Nat, NEW t \in Nat
  PROVE  LET burst == evaluate_burst(spend, t)
         IN  \/ burst = Approved /\ spend.open + 1 <= MaxOpen
             \/ burst.verdict \in {"REJECTED", "ESCALATED"} /\ burst \in Decision
<1> DEFINE a == Unless(t >= spend.cooldown, "VELOCITY_BURST")
           b == Unless(spend.escalations <= MaxEscalations, "MANDATE_SUSPENDED")
           c == IF spend.intents + 1 > MaxIntents
                  THEN Escalated("VELOCITY_BURST", "L3", t + Cooldown) ELSE Approved
           d == IF spend.open + 1 > MaxOpen
                  THEN Escalated("VELOCITY_BURST", "L3", 0) ELSE Approved
           Odd(x) == x.verdict \in {"REJECTED", "ESCALATED"} /\ x \in Decision
<1>1. (a = Approved \/ Odd(a)) /\ (b = Approved \/ Odd(b))
  BY UnlessObjects DEF Reasons
<1>2. c = Approved \/ Odd(c)
  BY GateAssumption DEF Escalated, Decision, Reasons, Verdicts, Levels
<1>3. (d = Approved /\ spend.open + 1 <= MaxOpen) \/ (d # Approved /\ Odd(d))
  BY GateAssumption DEF Escalated, Decision, Reasons, Verdicts, Levels, Approved
<1>4. evaluate_burst(spend, t) = FirstObjection(<<a, b, c, d>>)
  BY DEF evaluate_burst
<1> HIDE DEF a, b, c, d, Odd
<1>5. DOMAIN <<a, b, c, d>> = 1..4 /\ <<a, b, c, d>>[4] = d
      /\ \A k \in 1..4 : <<a, b, c, d>>[k] \in {a, b, c, d}
  OBVIOUS
<1>6. \/ FirstObjection(<<a, b, c, d>>) = Approved /\ d = Approved
      \/ Odd(FirstObjection(<<a, b, c, d>>))
  <2> DEFINE all == <<a, b, c, d>>
  <2>1. DOMAIN all = 1..4 /\ all[4] = d /\ \A k \in 1..4 : all[k] = Approved \/ Odd(all[k])
    BY <1>1, <1>2, <1>3, <1>5
  <2> HIDE DEF all
  <2>2. \/ FirstObjection(all) = Approved /\ d = Approved
        \/ Odd(FirstObjection(all))
    BY <2>1, FirstObjects
  <2> QED BY <2>2 DEF all
<1> QED BY <1>3, <1>4, <1>6 DEF Odd

(* At 70 percent of the limit the step-up escalates to L3+, whatever else.  *)
LEMMA StepUpChecks ==
  ASSUME NEW m, NEW amount, NEW spend
  PROVE  LET stepup == evaluate_step_up(m, amount, spend)
         IN  \/ stepup = Approved /\ ~AtAmountThreshold(m, amount)
             \/ /\ stepup.verdict = "ESCALATED" /\ stepup.level = "L3+"
                /\ stepup # Approved /\ stepup \in Decision
<1> DEFINE a == IF AtAmountThreshold(m, amount)
                  THEN Escalated("STEPUP_AMOUNT_THRESHOLD", "L3+", 0) ELSE Approved
           b == IF AtBudgetThreshold(m, spend)
                  THEN Escalated("STEPUP_BUDGET_USAGE", "L3+", 0) ELSE Approved
           Up(x) == /\ x.verdict = "ESCALATED" /\ x.level = "L3+"
                    /\ x # Approved /\ x \in Decision
<1>1. (a = Approved /\ ~AtAmountThreshold(m, amount)) \/ (a # Approved /\ Up(a))
  BY DEF Escalated, Decision, Reasons, Verdicts, Levels, Approved
<1>2. b = Approved \/ Up(b)
  BY DEF Escalated, Decision, Reasons, Verdicts, Levels, Approved
<1>3. evaluate_step_up(m, amount, spend) = FirstObjection(<<a, b>>)
  BY DEF evaluate_step_up
<1> HIDE DEF a, b, Up
<1>4. DOMAIN <<a, b>> = 1..2 /\ <<a, b>>[1] = a /\ <<a, b>>[2] = b
  OBVIOUS
<1>5. \/ FirstObjection(<<a, b>>) = Approved /\ a = Approved
      \/ Up(FirstObjection(<<a, b>>))
  BY <1>1, <1>2, <1>4, FirstObjects
<1> QED BY <1>1, <1>3, <1>5 DEF Up

(* What an answer of the gate says about the state it was asked in.         *)
LEMMA GateAnswers ==
  ASSUME NEW m \in MandateClaims, NEW i, NEW spend, spend.open \in Nat,
         NEW t \in Nat, NEW o, NEW waived \in BOOLEAN
  PROVE  LET e == evaluate(m, i, spend, t, o, waived)
         IN  /\ e \in Decision
             /\ e.verdict = "APPROVED" =>
                  /\ m.status = "active" /\ spend.open + 1 <= MaxOpen
                  /\ ~waived => ~AtAmountThreshold(m, i.amount)
             /\ e.verdict = "ESCALATED" /\ ~waived /\ AtAmountThreshold(m, i.amount)
                  => e.level = "L3+"
<1> DEFINE hard == FirstObjection(<<
                mandate_state_reason(m, t), binding(m, i), price_check(i, o),
                scope_allows(m, i, o), evaluate_conditions(m, o),
                limits_decision(m, i.amount, spend)>>)
           burst == evaluate_burst(spend, t)
           stepup == IF waived THEN Approved ELSE evaluate_step_up(m, i.amount, spend)
           e == evaluate(m, i, spend, t, o, waived)
<1>1. \/ hard = Approved /\ m.status = "active"
      \/ hard.verdict = "REJECTED" /\ hard \in Decision
  BY HardChecks
<1>2. \/ burst = Approved /\ spend.open + 1 <= MaxOpen
      \/ burst.verdict \in {"REJECTED", "ESCALATED"} /\ burst \in Decision
  BY BurstChecks
<1>3. \/ stepup = Approved /\ (~waived => ~AtAmountThreshold(m, i.amount))
      \/ /\ stepup.verdict = "ESCALATED" /\ stepup.level = "L3+"
         /\ stepup # Approved /\ stepup \in Decision
  BY StepUpChecks
<1>4. Approved \in Decision /\ Approved.verdict = "APPROVED"
  BY DEF Approved, Decision, Reasons, Verdicts, Levels
<1> DEFINE refused == IF burst.verdict = "REJECTED" THEN burst ELSE Approved
           all == <<hard, refused, stepup, burst>>
<1>5. e = FirstObjection(all)
  BY DEF evaluate
<1> HIDE DEF hard, burst, stepup, e
<1>6. refused = Approved \/ (refused = burst /\ burst.verdict = "REJECTED")
  OBVIOUS
<1> HIDE DEF refused
<1>7. DOMAIN all = 1..4 /\ all[1] = hard /\ all[2] = refused /\ all[3] = stepup /\ all[4] = burst
  OBVIOUS
<1> HIDE DEF all
<1>8. CASE FirstObjection(all) = Approved /\ \A k \in 1..4 : all[k] = Approved
  <2>1. hard = Approved /\ stepup = Approved /\ burst = Approved
    BY <1>7, <1>8
  <2> QED BY <2>1, <1>1, <1>2, <1>3, <1>4, <1>5, <1>8 DEF e
<1>9. ASSUME NEW k \in 1..4, all[k] # Approved, FirstObjection(all) = all[k],
             \A j \in 1..4 : j < k => all[j] = Approved
      PROVE  /\ e \in Decision /\ e.verdict # "APPROVED"
             /\ e.verdict = "ESCALATED" /\ ~waived /\ AtAmountThreshold(m, i.amount) => e.level = "L3+"
  <2>1. CASE k \in 1..3
    BY <2>1, <1>1, <1>2, <1>3, <1>4, <1>5, <1>6, <1>7, <1>9
  <2>2. CASE k = 4
    <3>1. stepup = Approved
      BY <2>2, <1>7, <1>9
    <3> QED BY <2>2, <3>1, <1>2, <1>3, <1>4, <1>5, <1>7, <1>9
  <2> QED BY <2>1, <2>2
<1> QED BY <1>7, <1>8, <1>9, FirstObjects DEF e

(* The same for the gate on what the stores hold.                           *)
LEMMA EvaluateAnswers ==
  ASSUME Types, NEW i \in Intents, NEW t \in 0..MaxTime, NEW waived \in BOOLEAN
  PROVE  LET e == Evaluate(i, t, waived)
         IN  /\ e \in Decision
             /\ e.verdict = "APPROVED" =>
                  /\ mandate.status = "active" /\ db.open + 1 <= MaxOpen
                  /\ ~waived => ~AtAmountThreshold(mandate, Amount(i))
             /\ e.verdict = "ESCALATED" /\ ~waived /\ AtAmountThreshold(mandate, Amount(i))
                  => e.level = "L3+"
<1> DEFINE offer == offers[Intent[i].offer]
           spend == get_spend_view(t)
<1>1. CASE offer = None
  <2>1. Evaluate(i, t, waived) = Rejected("CONDITION_FAILED")
    BY <1>1 DEF Evaluate
  <2> QED BY <2>1 DEF Rejected, Decision, Reasons, Verdicts, Levels
<1>2. CASE offer # None
  <2>1. Evaluate(i, t, waived) = evaluate(mandate, Intent[i], spend, t, offer, waived)
    BY <1>2 DEF Evaluate
  <2>2. spend.open = db.open /\ db.open \in Nat /\ mandate \in MandateClaims /\ t \in Nat
    BY ServiceAssumption DEF get_spend_view, Types, Stores
  <2> HIDE DEF offer, spend
  <2> DEFINE e == evaluate(mandate, Intent[i], spend, t, offer, waived)
  <2>3. /\ e \in Decision
        /\ e.verdict = "APPROVED" =>
             /\ mandate.status = "active" /\ spend.open + 1 <= MaxOpen
             /\ ~waived => ~AtAmountThreshold(mandate, Intent[i].amount)
        /\ e.verdict = "ESCALATED" /\ ~waived /\ AtAmountThreshold(mandate, Intent[i].amount)
             => e.level = "L3+"
    BY <2>2, GateAnswers
  <2> HIDE DEF e
  <2> QED BY <2>1, <2>2, <2>3 DEF Amount, e
<1> QED BY <1>1, <1>2

----------------------------------------------------------------------------
(* The stores: what the units of work leave *)

(* The hold under an id is the hold of the intent the id stands for.        *)
Honest(d, i) == i \in d.held => d.holder[i] = i

(* n is d with the purchase and the escalation of i replaced, the given     *)
(* money and count, and possibly more events.                               *)
Effect(n, d, i, p, e, h, r, o) ==
  /\ n \in Stores
  /\ n.purchases = [d.purchases EXCEPT ![i] = p]
  /\ n.escalations = [d.escalations EXCEPT ![i] = e]
  /\ n.held = h /\ n.reserved = r /\ n.open = o
  /\ d.outbox \subseteq n.outbox
  /\ Honest(n, i)

(* Effects on one intent compose.                                           *)
LEMMA EffectsCompose ==
  ASSUME NEW i \in Intents, NEW d \in Stores, NEW n, NEW m,
         NEW p, NEW e, NEW h, NEW r, NEW o, NEW p2, NEW e2, NEW h2, NEW r2, NEW o2,
         Effect(n, d, i, p, e, h, r, o), Effect(m, n, i, p2, e2, h2, r2, o2)
  PROVE  Effect(m, d, i, p2, e2, h2, r2, o2)
BY SMTT(30) DEF Effect, Stores, Honest

LEMMA EffectFields ==
  ASSUME NEW i \in Intents, NEW d \in Stores, NEW n,
         NEW p, NEW e, NEW h, NEW r, NEW o, Effect(n, d, i, p, e, h, r, o)
  PROVE  /\ n \in Stores /\ Honest(n, i) /\ n.purchases[i] = p /\ n.escalations[i] = e
         /\ n.held = h /\ n.reserved = r /\ n.open = o
BY DEF Effect, Stores, Honest

LEMMA IncrementIntentEffect ==
  ASSUME NEW d \in Stores, NEW i \in Intents, NEW t \in 0..MaxTime, Honest(d, i)
  PROVE  Effect(increment_intent(d, t), d, i,
                d.purchases[i], d.escalations[i], d.held, d.reserved, d.open)
<1> DEFINE n == increment_intent(d, t)
<1>1. d.intents \in [0..MaxTime -> Nat]
  BY DEF Stores
<1>2. [d.intents EXCEPT ![t] = d.intents[t] + 1] \in [0..MaxTime -> Nat]
  <2> DEFINE f == d.intents
             v == d.intents[t] + 1
             T == 0..MaxTime
  <2>1. f \in [T -> Nat] /\ t \in T /\ v = f[t] + 1
    BY <1>1
  <2> HIDE DEF f, v, T
  <2>2. f[t] \in Nat
    BY <2>1
  <2>3. [f EXCEPT ![t] = v] \in [T -> Nat]
    BY <2>1, <2>2
  <2> QED BY <2>3 DEF f, v, T
<1>3. n = [d EXCEPT !.intents = [d.intents EXCEPT ![t] = d.intents[t] + 1]]
  BY DEF increment_intent, Stores
<1> HIDE DEF n
<1> QED BY <1>2, <1>3 DEF Effect, Stores, Honest, n

LEMMA IncrementEscalationEffect ==
  ASSUME NEW d \in Stores, NEW i \in Intents, NEW u \in Nat, Honest(d, i)
  PROVE  Effect(increment_escalation(d, u), d, i,
                d.purchases[i], d.escalations[i], d.held, d.reserved, d.open)
<1>1. d.asked + 1 \in Nat /\ (IF u > d.cooldown THEN u ELSE d.cooldown) \in Nat
  BY DEF Stores
<1>2. increment_escalation(d, u) =
        [d EXCEPT !.asked = d.asked + 1, !.cooldown = IF u > d.cooldown THEN u ELSE d.cooldown]
  BY DEF increment_escalation, Stores
<1> DEFINE a == d.asked + 1
           c == IF u > d.cooldown THEN u ELSE d.cooldown
<1>3. increment_escalation(d, u) = [d EXCEPT !.asked = a, !.cooldown = c] /\ a \in Nat /\ c \in Nat
  BY <1>1, <1>2
<1> HIDE DEF a, c
<1> QED BY <1>3 DEF Effect, Stores, Honest

LEMMA OpenEffects ==
  ASSUME NEW d \in Stores, NEW i \in Intents, Honest(d, i)
  PROVE  /\ Effect(increment_open_authorizations(d), d, i,
                   d.purchases[i], d.escalations[i], d.held, d.reserved, d.open + 1)
         /\ Effect(decrement_open_authorizations(d), d, i,
                   d.purchases[i], d.escalations[i], d.held, d.reserved,
                   IF d.open > 0 THEN d.open - 1 ELSE 0)
BY DEF increment_open_authorizations, decrement_open_authorizations, Effect, Stores, Honest

LEMMA AppendEffect ==
  ASSUME NEW d \in Stores, NEW i \in Intents, NEW type \in EventTypes, Honest(d, i)
  PROVE  /\ Effect(append(d, type, i), d, i,
                   d.purchases[i], d.escalations[i], d.held, d.reserved, d.open)
         /\ <<type, i>> \in append(d, type, i).outbox
BY DEF append, Effect, Stores, Honest

LEMMA PurchaseEffects ==
  ASSUME NEW d \in Stores, NEW i \in Intents, NEW x, x.i = i, x.p = i, NEW s \in PurchaseStatus, Honest(d, i)
  PROVE  /\ Effect(save_purchase(d, x, s), d, i,
                   IF d.purchases[i] = None THEN s ELSE d.purchases[i],
                   d.escalations[i], d.held, d.reserved, d.open)
         /\ Effect(update_purchase(d, x, s), d, i,
                   IF d.purchases[i] = None THEN None ELSE s,
                   d.escalations[i], d.held, d.reserved, d.open)
<1>1. d.purchases[i] \in PurchaseStatus /\ None \in PurchaseStatus
  BY DEF Stores, PurchaseStatus
<1> QED BY <1>1 DEF save_purchase, update_purchase, Effect, Stores, Honest

LEMMA EscalationEffects ==
  ASSUME NEW d \in Stores, NEW i \in Intents, NEW x, x.i = i, x.p = i, NEW l \in Levels, NEW t \in 0..MaxTime,
         NEW s \in {"resolved", "expired"}, Honest(d, i)
  PROVE  /\ Effect(create_escalation(d, x, l, t), d, i, d.purchases[i],
                   [status |-> "pending", level |-> l, timeout_at |-> escalation_deadline(t, l),
                    p |-> i],
                   d.held, d.reserved, d.open)
         /\ Effect(update_escalation(d, x, s), d, i, d.purchases[i],
                   IF d.escalations[i].status = None THEN d.escalations[i]
                   ELSE [d.escalations[i] EXCEPT !.status = s],
                   d.held, d.reserved, d.open)
<1>1. escalation_deadline(t, l) \in Nat
  BY GateAssumption, ServiceAssumption DEF escalation_deadline, ttl_for_level
<1> DEFINE new == [status |-> "pending", level |-> l, timeout_at |-> escalation_deadline(t, l),
                    p |-> i]
           old == IF d.escalations[i].status = None THEN d.escalations[i]
                  ELSE [d.escalations[i] EXCEPT !.status = s]
<1>2. ASSUME NEW e \in Escalations
      PROVE  Effect([d EXCEPT !.escalations = [d.escalations EXCEPT ![i] = e]], d, i,
                    d.purchases[i], e, d.held, d.reserved, d.open)
  BY DEF Effect, Stores, Honest
<1>3. new \in Escalations
  BY <1>1, ServiceAssumption DEF Escalations
<1>4. d.escalations[i] \in Escalations /\ old \in Escalations
  BY DEF Escalations, Stores
<1>5. create_escalation(d, x, l, t) = [d EXCEPT !.escalations = [d.escalations EXCEPT ![i] = new]]
  BY DEF create_escalation, Stores
<1>6. update_escalation(d, x, s) = [d EXCEPT !.escalations = [d.escalations EXCEPT ![i] = old]]
  BY <1>4 DEF update_escalation, Stores, Escalations
<1> HIDE DEF new, old
<1>7. /\ Effect(create_escalation(d, x, l, t), d, i, d.purchases[i], new, d.held, d.reserved, d.open)
      /\ Effect(update_escalation(d, x, s), d, i, d.purchases[i], old, d.held, d.reserved, d.open)
  BY <1>2, <1>3, <1>4, <1>5, <1>6
<1> QED BY <1>7 DEF new, old

(* For a call under its own id the hold under the id is its own.            *)
LEMMA OwnMoney ==
  ASSUME NEW d, NEW i \in Intents, NEW x, x.i = i, x.p = i, Honest(d, i)
  PROVE  /\ Replayed(d, x) <=> IF deployment = "memory" THEN i \in d.held
                               ELSE d.purchases[i] = "pending_capture"
         /\ CanRelease(d, x) <=>
              /\ IF deployment = "memory" THEN i \in d.held ELSE d.purchases[i] = "pending_capture"
              /\ d.reserved >= Amount(i)
         /\ CanRelease(d, x) => Refund(d, x) = Amount(i)
         /\ TakenUp(d, x) => Replayed(d, x)
BY DEF Replayed, CanRelease, Refund, TakenUp, Honest

LEMMA MoneyEffects ==
  ASSUME NEW d \in Stores, NEW i \in Intents, NEW x, x.i = i, x.p = i, Honest(d, i)
  PROVE  /\ Amount(i) \in Nat
         /\ Replayed(d, x) => reserve(d, x) = d
         /\ ~Replayed(d, x) =>
              Effect(reserve(d, x), d, i, d.purchases[i], d.escalations[i],
                     d.held \cup {i}, d.reserved + Amount(i), d.open)
         /\ d.reserved >= Amount(i) /\ Refund(d, x) = Amount(i) =>
              Effect(release(d, x), d, i, d.purchases[i], d.escalations[i],
                     d.held \ {i}, d.reserved - Amount(i), d.open)
<1>1. Amount(i) \in Nat
  BY ServiceAssumption DEF Amount, PurchaseIntent, Money
<1>2. Replayed(d, x) => reserve(d, x) = d
  BY DEF reserve
<1>3. ASSUME ~Replayed(d, x)
      PROVE  Effect(reserve(d, x), d, i, d.purchases[i], d.escalations[i],
                    d.held \cup {i}, d.reserved + Amount(i), d.open)
  <2>1. reserve(d, x) = [d EXCEPT !.held = d.held \cup {i}, !.holder = [d.holder EXCEPT ![i] = i],
                                  !.reserved = d.reserved + Amount(i), !.txn = d.txn + 1]
    BY <1>3 DEF reserve, Stores
  <2>2. d.reserved + Amount(i) \in Nat /\ d.txn + 1 \in Nat /\ d.held \cup {i} \in SUBSET Intents
    BY <1>1 DEF Stores
  <2> DEFINE h == d.held \cup {i}
             r == d.reserved + Amount(i)
             v == d.txn + 1
             g == [d.holder EXCEPT ![i] = i]
  <2>3. reserve(d, x) = [d EXCEPT !.held = h, !.holder = g, !.reserved = r, !.txn = v]
        /\ h \in SUBSET Intents /\ r \in Nat /\ v \in Nat
        /\ g \in [Intents -> Intents \cup {None}] /\ g[i] = i
    BY <2>1, <2>2 DEF Stores
  <2> HIDE DEF h, r, v, g
  <2>4. Effect(reserve(d, x), d, i, d.purchases[i], d.escalations[i], h, r, d.open)
    BY <2>3 DEF Effect, Stores, Honest
  <2> QED BY <2>4 DEF h, r
<1>4. ASSUME d.reserved >= Amount(i), Refund(d, x) = Amount(i)
      PROVE  Effect(release(d, x), d, i, d.purchases[i], d.escalations[i],
                    d.held \ {i}, d.reserved - Amount(i), d.open)
  <2> DEFINE h == d.held \ {i}
             r == d.reserved - Amount(i)
             v == IF d.txn > 0 THEN d.txn - 1 ELSE 0
  <2>1. release(d, x) = [d EXCEPT !.held = h, !.reserved = r, !.txn = v]
    BY <1>4 DEF release, Stores
  <2>2. h \in SUBSET Intents /\ i \notin h /\ r \in Nat /\ v \in Nat
    BY <1>1, <1>4 DEF Stores
  <2> HIDE DEF h, r, v
  <2>3. Effect(release(d, x), d, i, d.purchases[i], d.escalations[i], h, r, d.open)
    BY <2>1, <2>2 DEF Effect, Stores, Honest
  <2> QED BY <2>3 DEF h, r
<1> QED BY <1>1, <1>2, <1>3, <1>4

(* A failed unit of work leaves its writes in memory and nothing in         *)
(* Postgres.                                                                *)
LEMMA FailedIs ==
  ASSUME NEW a, NEW b
  PROVE  /\ deployment = "memory" => Failed(a, b) = b
         /\ deployment # "memory" => Failed(a, b) = a
BY DEF Failed

LEMMA AppendFirstEffect ==
  ASSUME NEW d \in Stores, NEW i \in Intents, NEW events \in Seq(EventTypes),
         NEW k \in 0..Len(events), Honest(d, i)
  PROVE  /\ Effect(AppendFirst(d, events, k, i), d, i,
                   d.purchases[i], d.escalations[i], d.held, d.reserved, d.open)
         /\ \A j \in 1..k : <<events[j], i>> \in AppendFirst(d, events, k, i).outbox
<1> DEFINE more == {<<events[j], i>> : j \in 1..k}
<1>1. more \subseteq EventTypes \X Intents
  <2>1. \A j \in 1..k : events[j] \in EventTypes
    OBVIOUS
  <2> QED BY <2>1
<1>2. AppendFirst(d, events, k, i) = [d EXCEPT !.outbox = d.outbox \cup more]
  BY DEF AppendFirst, Stores
<1>3. \A j \in 1..k : <<events[j], i>> \in more
  OBVIOUS
<1> HIDE DEF more
<1> QED BY <1>1, <1>2, <1>3, ZenonT(40) DEF Effect, Stores, Honest

(* _rejected: the purchase is refused, or was never there.                  *)
LEMMA RejectedEffect ==
  ASSUME NEW d \in Stores, NEW i \in Intents, NEW x, x.i = i, x.p = i, NEW t \in 0..MaxTime, NEW ok \in BOOLEAN,
         d.purchases[i] \in {None, "pending_capture"}, Honest(d, i)
  PROVE  \E p \in {None, "rejected"} :
           Effect(RejectedDb(d, x, t, ok), d, i, p, d.escalations[i], d.held, d.reserved, d.open)
<1> DEFINE seen == increment_intent(d, t)
           saved == save_purchase(seen, x, "rejected")
           done == update_purchase(saved, x, "rejected")
           e == d.escalations[i]
           h == d.held
           r == d.reserved
           o == d.open
<1>0. "rejected" \in PurchaseStatus /\ None # "rejected" /\ "purchase.rejected" \in EventTypes
  BY ServiceAssumption DEF PurchaseStatus, EventTypes
<1>1. Effect(seen, d, i, d.purchases[i], e, h, r, o)
  BY IncrementIntentEffect
<1>2. seen \in Stores /\ Honest(seen, i) /\ seen.purchases[i] = d.purchases[i] /\ seen.escalations[i] = e
      /\ seen.held = h /\ seen.reserved = r /\ seen.open = o
  <2> HIDE DEF seen, e, h, r, o
  <2> QED BY <1>1, EffectFields
<1>3. \E p \in {"rejected", "pending_capture"} : Effect(saved, seen, i, p, e, h, r, o)
  <2> HIDE DEF seen, e, h, r, o
  <2> QED BY <1>0, <1>2, PurchaseEffects
<1>4. PICK p \in {"rejected", "pending_capture"} : Effect(saved, d, i, p, e, h, r, o)
  <2> HIDE DEF seen, saved, e, h, r, o
  <2> QED BY <1>1, <1>3, EffectsCompose
<1>5. saved \in Stores /\ Honest(saved, i) /\ saved.purchases[i] = p /\ saved.escalations[i] = e
      /\ saved.held = h /\ saved.reserved = r /\ saved.open = o
  <2> HIDE DEF saved, e, h, r, o
  <2> QED BY <1>4, EffectFields
<1>6. Effect(done, saved, i, "rejected", e, h, r, o)
  <2> HIDE DEF saved, e, h, r, o
  <2> QED BY <1>0, <1>5, PurchaseEffects, ServiceAssumption
<1>7. Effect(done, d, i, "rejected", e, h, r, o)
  <2> HIDE DEF saved, done, e, h, r, o
  <2> QED BY <1>4, <1>6, EffectsCompose
<1>8. done \in Stores /\ Honest(done, i) /\ done.purchases[i] = "rejected" /\ done.escalations[i] = e
      /\ done.held = h /\ done.reserved = r /\ done.open = o
  <2> HIDE DEF done, e, h, r, o
  <2> QED BY <1>7, EffectFields
<1>9. CASE ok
  <2>1. RejectedDb(d, x, t, ok) = append(done, "purchase.rejected", i)
    BY <1>9 DEF RejectedDb
  <2> HIDE DEF done, e, h, r, o
  <2> DEFINE last == append(done, "purchase.rejected", i)
  <2>2. Effect(last, done, i, "rejected", e, h, r, o)
    BY <1>0, <1>8, AppendEffect
  <2> HIDE DEF last
  <2>3. Effect(last, d, i, "rejected", e, h, r, o)
    BY <1>7, <2>2, EffectsCompose
  <2> QED BY <2>1, <2>3 DEF last, e, h, r, o
<1>10. CASE ~ok
  <2>1. RejectedDb(d, x, t, ok) = update_purchase(Failed(d, done), x, "rejected")
    BY <1>10 DEF RejectedDb
  <2> HIDE DEF done, e, h, r, o
  <2>2. CASE deployment = "memory"
    <3>1. Effect(update_purchase(done, x, "rejected"), d, i, "rejected", e, h, r, o)
      BY <1>0, <1>7, <1>8, PurchaseEffects, EffectsCompose
    <3> QED BY <2>1, <2>2, <3>1, FailedIs DEF e, h, r, o
  <2>3. CASE deployment # "memory"
    <3>1. \E q \in {None, "rejected"} : Effect(update_purchase(d, x, "rejected"), d, i, q, e, h, r, o)
      BY <1>0, PurchaseEffects DEF e, h, r, o
    <3> QED BY <2>1, <2>3, <3>1, FailedIs DEF e, h, r, o
  <2> QED BY <2>2, <2>3
<1> QED BY <1>9, <1>10

LEMMA EscalatedEventTypes ==
  ASSUME NEW dec \in Decision
  PROVE  EscalatedEvents(dec) \in Seq(EventTypes)
<1> DEFINE a == <<"purchase.escalated">>
           b == IF dec.level = "L3+" THEN <<"risk.stepup_required">> ELSE <<>>
           c == IF dec.until > 0 THEN <<"agent.paused_cooldown">> ELSE <<>>
<1>1. a \in Seq(EventTypes) /\ b \in Seq(EventTypes) /\ c \in Seq(EventTypes)
  <2>1. \A v \in EventTypes : <<v>> \in Seq(EventTypes)
    OBVIOUS
  <2>2. /\ "purchase.escalated" \in EventTypes /\ "risk.stepup_required" \in EventTypes
        /\ "agent.paused_cooldown" \in EventTypes
    BY DEF EventTypes
  <2>3. <<>> \in Seq(EventTypes)
    OBVIOUS
  <2> QED BY <2>1, <2>2, <2>3
<1>2. EscalatedEvents(dec) = a \o b \o c
  BY DEF EscalatedEvents
<1> HIDE DEF a, b, c
<1> QED BY <1>1, <1>2

(* _escalated: the purchase awaits its escalation, or the failure leaves a  *)
(* refused purchase with an expired escalation, or nothing at all.          *)
LEMMA EscalatedEffect ==
  ASSUME NEW d \in Stores, NEW i \in Intents, NEW x, x.i = i, x.p = i, NEW t \in 0..MaxTime, NEW dec \in Decision,
         NEW k \in 0..Len(EscalatedEvents(dec)),
         d.purchases[i] = None, d.escalations[i].status = None, Honest(d, i)
  PROVE  LET n == EscalatedDb(d, x, t, dec, k)
         IN  \E p, e :
               /\ Effect(n, d, i, p, e, d.held, d.reserved, d.open)
               /\ \/ /\ k = Len(EscalatedEvents(dec)) /\ p = "awaiting_escalation"
                     /\ e.status = "pending" /\ e.level = dec.level
                  \/ /\ k # Len(EscalatedEvents(dec)) /\ p = "rejected"
                     /\ e.status = "expired" /\ e.level = dec.level
                  \/ /\ k # Len(EscalatedEvents(dec)) /\ p = None
                     /\ e.status = None
<1> DEFINE seen == increment_intent(d, t)
           asked == increment_escalation(seen, dec.until)
           saved == save_purchase(asked, x, "awaiting_escalation")
           made == create_escalation(saved, x, dec.level, t)
           done == AppendFirst(made, EscalatedEvents(dec), k, i)
           e == d.escalations[i]
           f == [status |-> "pending", level |-> dec.level,
                 timeout_at |-> escalation_deadline(t, dec.level), p |-> i]
           h == d.held
           r == d.reserved
           o == d.open
           w == "awaiting_escalation"
<1>0. /\ w \in PurchaseStatus /\ "rejected" \in PurchaseStatus /\ None # w
      /\ dec.level \in Levels /\ dec.until \in Nat
  BY ServiceAssumption DEF PurchaseStatus, Decision
<1>1. Effect(seen, d, i, None, e, h, r, o)
  BY IncrementIntentEffect
<1>2. Effect(asked, d, i, None, e, h, r, o)
  <2> HIDE DEF seen, e, h, r, o
  <2>1. /\ seen \in Stores /\ Honest(seen, i) /\ seen.purchases[i] = None /\ seen.escalations[i] = e
        /\ seen.held = h /\ seen.reserved = r /\ seen.open = o
    BY <1>1, EffectFields
  <2>2. Effect(asked, seen, i, None, e, h, r, o)
    BY <1>0, <2>1, IncrementEscalationEffect
  <2> HIDE DEF asked
  <2> QED BY <1>1, <2>2, EffectsCompose
<1>3. Effect(saved, d, i, w, e, h, r, o)
  <2> HIDE DEF asked, e, h, r, o
  <2>1. /\ asked \in Stores /\ Honest(asked, i) /\ asked.purchases[i] = None /\ asked.escalations[i] = e
        /\ asked.held = h /\ asked.reserved = r /\ asked.open = o
    BY <1>2, EffectFields
  <2>2. Effect(saved, asked, i, w, e, h, r, o)
    BY <1>0, <2>1, PurchaseEffects
  <2> HIDE DEF saved
  <2> QED BY <1>2, <2>2, EffectsCompose
<1>4. Effect(made, d, i, w, f, h, r, o)
  <2> HIDE DEF saved, e, h, r, o
  <2>1. /\ saved \in Stores /\ Honest(saved, i) /\ saved.purchases[i] = w /\ saved.escalations[i] = e
        /\ saved.held = h /\ saved.reserved = r /\ saved.open = o
    BY <1>3, EffectFields
  <2>2. Effect(made, saved, i, w, f, h, r, o)
    BY <1>0, <2>1, EscalationEffects
  <2> HIDE DEF made, f, w
  <2> QED BY <1>3, <2>2, EffectsCompose
<1>5. Effect(done, d, i, w, f, h, r, o)
  <2> HIDE DEF made, e, f, h, r, o, w
  <2>1. /\ made \in Stores /\ Honest(made, i) /\ made.purchases[i] = w /\ made.escalations[i] = f
        /\ made.held = h /\ made.reserved = r /\ made.open = o
    BY <1>4, EffectFields
  <2> DEFINE events == EscalatedEvents(dec)
  <2>2. events \in Seq(EventTypes) /\ k \in 0..Len(events)
    BY EscalatedEventTypes
  <2>3. done = AppendFirst(made, events, k, i)
    OBVIOUS
  <2> HIDE DEF events, done
  <2>4. Effect(done, made, i, w, f, h, r, o)
    BY <2>1, <2>2, <2>3, AppendFirstEffect
  <2> QED BY <1>4, <2>4, EffectsCompose
<1>6. f.status = "pending" /\ f.level = dec.level
  OBVIOUS
<1> DEFINE n == EscalatedDb(d, x, t, dec, k)
<1>7. CASE k = Len(EscalatedEvents(dec))
  <2>1. n = done
    BY <1>7 DEF EscalatedDb
  <2> HIDE DEF n, done, f, h, r, o
  <2> QED BY <2>1, <1>5, <1>6, <1>7 DEF n, h, r, o
<1>8. CASE k # Len(EscalatedEvents(dec))
  <2> DEFINE left == Failed(d, done)
             undone == update_purchase(left, x, "rejected")
  <2>1. n = update_escalation(undone, x, "expired")
    BY <1>8 DEF EscalatedDb
  <2> HIDE DEF n, done, e, f, h, r, o
  <2>2. CASE deployment = "memory"
    <3>1. left = done
      BY <2>2, FailedIs
    <3>2. /\ done \in Stores /\ Honest(done, i) /\ done.purchases[i] = w /\ done.escalations[i] = f
          /\ done.held = h /\ done.reserved = r /\ done.open = o
      BY <1>5, EffectFields
    <3>3. Effect(undone, done, i, "rejected", f, h, r, o)
      BY <1>0, <3>1, <3>2, PurchaseEffects
    <3> HIDE DEF undone
    <3>4. Effect(undone, d, i, "rejected", f, h, r, o)
      BY <1>5, <3>3, EffectsCompose
    <3>5. /\ undone \in Stores /\ Honest(undone, i) /\ undone.purchases[i] = "rejected" /\ undone.escalations[i] = f
          /\ undone.held = h /\ undone.reserved = r /\ undone.open = o
      BY <3>4, EffectFields
    <3> DEFINE g == [f EXCEPT !.status = "expired"]
    <3>6. g.status = "expired" /\ g.level = dec.level
      BY <1>6 DEF f
    <3>7. Effect(n, undone, i, "rejected", g, h, r, o)
      BY <2>1, <3>5, <1>0, <1>6, EscalationEffects, ServiceAssumption
    <3> HIDE DEF g
    <3>8. Effect(n, d, i, "rejected", g, h, r, o)
      BY <3>4, <3>7, EffectsCompose
    <3> QED BY <3>6, <3>8, <1>8 DEF n, h, r, o
  <2>3. CASE deployment # "memory"
    <3>1. left = d
      BY <2>3, FailedIs
    <3>2. Effect(undone, d, i, None, e, h, r, o)
      BY <1>0, <3>1, PurchaseEffects DEF e, h, r, o
    <3> HIDE DEF undone
    <3>3. /\ undone \in Stores /\ Honest(undone, i) /\ undone.purchases[i] = None /\ undone.escalations[i] = e
          /\ undone.held = h /\ undone.reserved = r /\ undone.open = o
      BY <3>2, EffectFields
    <3>4. e.status = None
      BY DEF e
    <3>5. Effect(n, undone, i, None, e, h, r, o)
      BY <2>1, <3>3, <3>4, <1>0, EscalationEffects
    <3>6. Effect(n, d, i, None, e, h, r, o)
      BY <3>2, <3>5, EffectsCompose
    <3> QED BY <3>4, <3>6, <1>8 DEF n, h, r, o
  <2> QED BY <2>2, <2>3
<1> QED BY <1>7, <1>8

(* _approved: the purchase is open under a hold.                            *)
LEMMA ReservedEffect ==
  ASSUME NEW d \in Stores, NEW i \in Intents, NEW x, x.i = i, x.p = i, NEW t \in 0..MaxTime,
         d.purchases[i] = None, ~Replayed(d, x), Honest(d, i)
  PROVE  Effect(ReservedDb(d, x, t), d, i, "pending_capture", d.escalations[i],
                d.held \cup {i}, d.reserved + Amount(i), d.open + 1)
<1> DEFINE seen == increment_intent(d, t)
           money == reserve(seen, x)
           saved == save_purchase(money, x, "pending_capture")
           n == increment_open_authorizations(saved)
           e == d.escalations[i]
           h == d.held \cup {i}
           r == d.reserved + Amount(i)
           o == d.open
           w == "pending_capture"
<1>0. w \in PurchaseStatus /\ Amount(i) \in Nat
  BY MoneyEffects DEF PurchaseStatus
<1>1. Effect(seen, d, i, None, e, d.held, d.reserved, o)
  BY IncrementIntentEffect
<1>2. Effect(money, d, i, None, e, h, r, o)
  <2> HIDE DEF seen, e, o
  <2>1. /\ seen \in Stores /\ Honest(seen, i) /\ seen.purchases[i] = None /\ seen.escalations[i] = e
        /\ seen.held = d.held /\ seen.reserved = d.reserved /\ seen.open = o
    BY <1>1, EffectFields
  <2>2. ~Replayed(seen, x)
    BY <2>1, OwnMoney
  <2>3. Effect(money, seen, i, None, e, h, r, o)
    BY <2>1, <2>2, MoneyEffects
  <2> HIDE DEF money, h, r
  <2> QED BY <1>1, <2>3, EffectsCompose
<1>3. Effect(saved, d, i, w, e, h, r, o)
  <2> HIDE DEF money, e, h, r, o
  <2>1. /\ money \in Stores /\ Honest(money, i) /\ money.purchases[i] = None /\ money.escalations[i] = e
        /\ money.held = h /\ money.reserved = r /\ money.open = o
    BY <1>2, EffectFields
  <2>2. Effect(saved, money, i, w, e, h, r, o)
    BY <1>0, <2>1, PurchaseEffects
  <2> HIDE DEF saved
  <2> QED BY <1>2, <2>2, EffectsCompose
<1>4. Effect(n, d, i, w, e, h, r, o + 1)
  <2> HIDE DEF saved, e, h, r, o, w
  <2>1. /\ saved \in Stores /\ Honest(saved, i) /\ saved.purchases[i] = w /\ saved.escalations[i] = e
        /\ saved.held = h /\ saved.reserved = r /\ saved.open = o
    BY <1>3, EffectFields
  <2>2. Effect(n, saved, i, w, e, h, r, o + 1)
    BY <2>1, OpenEffects
  <2> HIDE DEF n
  <2> QED BY <1>3, <2>2, EffectsCompose
<1>5. ReservedDb(d, x, t) = n
  BY DEF ReservedDb
<1> HIDE DEF n
<1> QED BY <1>4, <1>5 DEF e, h, r, o, w

(* What can be released is released, with one authorization less.           *)
LEMMA GivenBackEffect ==
  ASSUME NEW d \in Stores, NEW i \in Intents, NEW x, x.i = i, x.p = i, Honest(d, i)
  PROVE  /\ ~CanRelease(d, x) => GivenBack(d, x) = d
         /\ CanRelease(d, x) =>
              Effect(GivenBack(d, x), d, i, d.purchases[i], d.escalations[i], d.held \ {i},
                     d.reserved - Amount(i), IF d.open > 0 THEN d.open - 1 ELSE 0)
<1>1. ~CanRelease(d, x) => GivenBack(d, x) = d
  BY DEF GivenBack
<1>2. ASSUME CanRelease(d, x)
      PROVE  Effect(GivenBack(d, x), d, i, d.purchases[i], d.escalations[i], d.held \ {i},
                    d.reserved - Amount(i), IF d.open > 0 THEN d.open - 1 ELSE 0)
  <2> DEFINE freed == release(d, x)
             n == decrement_open_authorizations(freed)
             p == d.purchases[i]
             e == d.escalations[i]
             h == d.held \ {i}
             r == d.reserved - Amount(i)
             o == IF d.open > 0 THEN d.open - 1 ELSE 0
  <2>1. Effect(freed, d, i, p, e, h, r, d.open)
    BY <1>2, MoneyEffects, OwnMoney
  <2>2. GivenBack(d, x) = n
    BY <1>2 DEF GivenBack
  <2> HIDE DEF freed, p, e, h, r
  <2>3. /\ freed \in Stores /\ Honest(freed, i) /\ freed.purchases[i] = p /\ freed.escalations[i] = e
        /\ freed.held = h /\ freed.reserved = r /\ freed.open = d.open
    BY <2>1, EffectFields
  <2>4. Effect(n, freed, i, p, e, h, r, o)
    BY <2>3, OpenEffects
  <2> HIDE DEF n, o
  <2>5. Effect(n, d, i, p, e, h, r, o)
    BY <2>1, <2>4, EffectsCompose
  <2> QED BY <2>2, <2>5 DEF p, e, h, r, o
<1> QED BY <1>1, <1>2

(* The event of an approval was refused: nothing of the hold stays.         *)
LEMMA ApprovalFailsEffect ==
  ASSUME NEW d \in Stores, NEW i \in Intents, NEW x, x.i = i, x.p = i, NEW t \in 0..MaxTime, NEW ok \in BOOLEAN,
         d.purchases[i] = None, ~Replayed(d, x), Honest(d, i)
  PROVE  \E p \in {None, "rejected"} :
           Effect(RejectedDb(GivenBack(Failed(d, ReservedDb(d, x, t)), x), x, t, ok),
                  d, i, p, d.escalations[i], d.held, d.reserved, d.open)
<1> DEFINE full == ReservedDb(d, x, t)
           back == GivenBack(Failed(d, full), x)
           n == RejectedDb(back, x, t, ok)
           e == d.escalations[i]
           h == d.held
           r == d.reserved
           o == d.open
<1>0. r \in Nat /\ o \in Nat /\ Amount(i) \in Nat /\ None # "pending_capture"
  BY MoneyEffects, ServiceAssumption DEF Stores
<1>1. \E p \in {None, "pending_capture"} : Effect(back, d, i, p, e, h, r, o)
  <2>1. CASE deployment = "memory"
    <3>1. Failed(d, full) = full
      BY <2>1, FailedIs
    <3>2. Effect(full, d, i, "pending_capture", e, h \cup {i}, r + Amount(i), o + 1)
      BY ReservedEffect
    <3>3. i \notin h
      BY <2>1, OwnMoney
    <3> HIDE DEF full, e, h, r, o
    <3>4. /\ full \in Stores /\ Honest(full, i) /\ full.purchases[i] = "pending_capture" /\ full.escalations[i] = e
          /\ full.held = h \cup {i} /\ full.reserved = r + Amount(i) /\ full.open = o + 1
      BY <3>2, EffectFields
    <3>5. CanRelease(full, x)
      BY <2>1, <3>4, <1>0, OwnMoney
    <3>6. (h \cup {i}) \ {i} = h /\ (r + Amount(i)) - Amount(i) = r
          /\ (IF o + 1 > 0 THEN (o + 1) - 1 ELSE 0) = o
      BY <1>0, <3>3
    <3>7. Effect(back, full, i, "pending_capture", e, h, r, o)
      <4>1. Effect(GivenBack(full, x), full, i, full.purchases[i], full.escalations[i],
                   full.held \ {i}, full.reserved - Amount(i),
                   IF full.open > 0 THEN full.open - 1 ELSE 0)
        BY <3>4, <3>5, GivenBackEffect
      <4>2. full.held \ {i} = h /\ full.reserved - Amount(i) = r
            /\ (IF full.open > 0 THEN full.open - 1 ELSE 0) = o
        BY <3>4, <3>6
      <4> QED BY <3>1, <3>4, <4>1, <4>2
    <3> HIDE DEF back
    <3>8. Effect(back, d, i, "pending_capture", e, h, r, o)
      BY <3>2, <3>7, EffectsCompose
    <3> QED BY <3>8
  <2>2. CASE deployment # "memory"
    <3>1. Failed(d, full) = d
      BY <2>2, FailedIs
    <3>2. ~CanRelease(d, x)
      BY <2>2, <1>0 DEF CanRelease
    <3>3. back = d
      BY <3>1, <3>2, GivenBackEffect
    <3>4. Effect(d, d, i, None, e, h, r, o)
      BY DEF Effect, Stores, Honest
    <3> QED BY <3>3, <3>4
  <2> QED BY <2>1, <2>2
<1>2. PICK q \in {None, "pending_capture"} : Effect(back, d, i, q, e, h, r, o)
  BY <1>1
<1> HIDE DEF back, e, h, r, o
<1>3. /\ back \in Stores /\ Honest(back, i) /\ back.purchases[i] = q /\ back.escalations[i] = e
      /\ back.held = h /\ back.reserved = r /\ back.open = o
  BY <1>2, EffectFields
<1>4. PICK p \in {None, "rejected"} : Effect(n, back, i, p, e, h, r, o)
  BY <1>3, RejectedEffect
<1>5. Effect(n, d, i, p, e, h, r, o)
  <2> HIDE DEF n
  <2> QED BY <1>2, <1>4, EffectsCompose
<1> QED BY <1>5 DEF back, e, h, r, o

(* The unit of work that buys after an approval.                            *)
LEMMA ResolvedEffect ==
  ASSUME NEW d \in Stores, NEW i \in Intents, NEW x, x.i = i, x.p = i, NEW k \in 0..2, d.purchases[i] # None, Honest(d, i)
  PROVE  LET n == AppendFirst(ResolvedDb(d, x), ResolvedEvents, k, i)
         IN  \E e, h, r :
               /\ Effect(n, d, i, "pending_capture", e, h, r, d.open + 1)
               /\ e.status # "pending" /\ e.level = d.escalations[i].level
               /\ e.timeout_at = d.escalations[i].timeout_at
               /\ d.escalations[i].status = None => e.status = None
               /\ \/ Replayed(d, x) /\ h = d.held /\ r = d.reserved
                  \/ ~Replayed(d, x) /\ h = d.held \cup {i} /\ r = d.reserved + Amount(i)
               /\ k = 2 => <<"purchase.verified", i>> \in n.outbox
<1> DEFINE money == reserve(d, x)
           told1 == update_escalation(money, x, "resolved")
           bought == update_purchase(told1, x, "pending_capture")
           opened == increment_open_authorizations(bought)
           n == AppendFirst(opened, ResolvedEvents, k, i)
           p == d.purchases[i]
           e == d.escalations[i]
           f == IF e.status = None THEN e ELSE [e EXCEPT !.status = "resolved"]
           o == d.open
           w == "pending_capture"
<1>0. /\ w \in PurchaseStatus /\ None # "pending" /\ e \in Escalations /\ o \in Nat
      /\ ResolvedEvents \in Seq(EventTypes) /\ Len(ResolvedEvents) = 2
      /\ ResolvedEvents[2] = "purchase.verified" /\ p # None
  BY ServiceAssumption DEF PurchaseStatus, Stores, ResolvedEvents, EventTypes
<1>1. /\ f.status # "pending" /\ f.level = e.level /\ f.timeout_at = e.timeout_at
      /\ e.status = None => f.status = None
  BY <1>0 DEF Escalations
<1>2. ResolvedDb(d, x) = opened
  BY DEF ResolvedDb
<1>3. PICK h, r :
        /\ Effect(money, d, i, p, e, h, r, o)
        /\ \/ Replayed(d, x) /\ h = d.held /\ r = d.reserved
           \/ ~Replayed(d, x) /\ h = d.held \cup {i} /\ r = d.reserved + Amount(i)
  <2>1. CASE Replayed(d, x)
    <3>1. money = d
      BY <2>1, MoneyEffects
    <3>2. Effect(d, d, i, p, e, d.held, d.reserved, o)
      BY DEF Effect, Stores, Honest
    <3> HIDE DEF money, p, e, o
    <3> QED BY <2>1, <3>1, <3>2
  <2>2. CASE ~Replayed(d, x)
    <3>1. Effect(money, d, i, p, e, d.held \cup {i}, d.reserved + Amount(i), o)
      BY <2>2, MoneyEffects
    <3> HIDE DEF money, p, e, o
    <3> QED BY <2>2, <3>1
  <2> QED BY <2>1, <2>2
<1>4. Effect(told1, d, i, p, f, h, r, o)
  <2> HIDE DEF money, p, e, o
  <2>1. /\ money \in Stores /\ Honest(money, i) /\ money.purchases[i] = p /\ money.escalations[i] = e
        /\ money.held = h /\ money.reserved = r /\ money.open = o
    BY <1>3, EffectFields
  <2>2. None \in Levels /\ 0 \in 0..MaxTime
    BY ServiceAssumption DEF Levels
  <2>3. Effect(told1, money, i, p, f, h, r, o)
    BY <2>1, <2>2, EscalationEffects
  <2> HIDE DEF told1, f
  <2> QED BY <1>3, <2>3, EffectsCompose
<1>5. Effect(bought, d, i, w, f, h, r, o)
  <2> HIDE DEF told1, p, e, f, o
  <2>1. /\ told1 \in Stores /\ Honest(told1, i) /\ told1.purchases[i] = p /\ told1.escalations[i] = f
        /\ told1.held = h /\ told1.reserved = r /\ told1.open = o
    BY <1>4, EffectFields
  <2>2. Effect(bought, told1, i, w, f, h, r, o)
    BY <1>0, <2>1, PurchaseEffects
  <2> HIDE DEF bought
  <2> QED BY <1>4, <2>2, EffectsCompose
<1>6. Effect(opened, d, i, w, f, h, r, o + 1)
  <2> HIDE DEF bought, f, o, w
  <2>1. /\ bought \in Stores /\ Honest(bought, i) /\ bought.purchases[i] = w /\ bought.escalations[i] = f
        /\ bought.held = h /\ bought.reserved = r /\ bought.open = o
    BY <1>5, EffectFields
  <2>2. Effect(opened, bought, i, w, f, h, r, o + 1)
    BY <2>1, OpenEffects
  <2> HIDE DEF opened
  <2> QED BY <1>5, <2>2, EffectsCompose
<1>7. Effect(n, d, i, w, f, h, r, o + 1) /\ (k = 2 => <<"purchase.verified", i>> \in n.outbox)
  <2> HIDE DEF opened, f, o, w
  <2>1. /\ opened \in Stores /\ Honest(opened, i) /\ opened.purchases[i] = w /\ opened.escalations[i] = f
        /\ opened.held = h /\ opened.reserved = r /\ opened.open = o + 1
    BY <1>6, EffectFields
  <2>2. /\ Effect(n, opened, i, w, f, h, r, o + 1)
        /\ \A j \in 1..k : <<ResolvedEvents[j], i>> \in n.outbox
    BY <1>0, <2>1, AppendFirstEffect
  <2> HIDE DEF n
  <2> QED BY <1>0, <1>6, <2>2, EffectsCompose
<1> HIDE DEF opened, f, w
<1> QED BY <1>1, <1>2, <1>3, <1>7 DEF e, o, w

(* The escalation is recorded as expired and its purchase as compensated.   *)
LEMMA ClosedEffect ==
  ASSUME NEW d \in Stores, NEW i \in Intents, NEW x, x.i = i, x.p = i, d.purchases[i] # None, Honest(d, i)
  PROVE  \E e : /\ Effect(Closed(d, x), d, i, "compensated", e, d.held, d.reserved, d.open)
                /\ e.status # "pending" /\ e.level = d.escalations[i].level
                /\ e.timeout_at = d.escalations[i].timeout_at
                /\ d.escalations[i].status = None => e.status = None
<1> DEFINE expired == update_escalation(d, x, "expired")
           n == update_purchase(expired, x, "compensated")
           p == d.purchases[i]
           e == d.escalations[i]
           f == IF e.status = None THEN e ELSE [e EXCEPT !.status = "expired"]
           h == d.held
           r == d.reserved
           o == d.open
<1>0. /\ "compensated" \in PurchaseStatus /\ e \in Escalations /\ None # "pending" /\ p # None
      /\ None \in Levels /\ 0 \in 0..MaxTime
  BY ServiceAssumption DEF PurchaseStatus, Stores, Levels
<1>1. /\ f.status # "pending" /\ f.level = e.level /\ f.timeout_at = e.timeout_at
      /\ e.status = None => f.status = None
  BY <1>0 DEF Escalations
<1>2. Effect(expired, d, i, p, f, h, r, o)
  BY <1>0, EscalationEffects
<1>3. Effect(n, d, i, "compensated", f, h, r, o)
  <2> HIDE DEF expired, p, e, f, h, r, o
  <2>1. /\ expired \in Stores /\ Honest(expired, i) /\ expired.purchases[i] = p /\ expired.escalations[i] = f
        /\ expired.held = h /\ expired.reserved = r /\ expired.open = o
    BY <1>2, EffectFields
  <2>2. Effect(n, expired, i, "compensated", f, h, r, o)
    BY <1>0, <2>1, PurchaseEffects
  <2> HIDE DEF n
  <2> QED BY <1>2, <2>2, EffectsCompose
<1>4. Closed(d, x) = n
  BY DEF Closed
<1> HIDE DEF n, f
<1> QED BY <1>1, <1>3, <1>4 DEF e, h, r, o

(* Closing, then perhaps one event, on top of an effect that left the       *)
(* purchase and the escalation as they were.                                *)
LEMMA ClosedAfter ==
  ASSUME NEW d \in Stores, NEW i \in Intents, NEW x, x.i = i, x.p = i, d.purchases[i] # None, NEW v, NEW h, NEW r, NEW o,
         Effect(v, d, i, d.purchases[i], d.escalations[i], h, r, o),
         NEW n \in {Closed(v, x), append(Closed(v, x), "escalation.expired", i)}, Honest(d, i)
  PROVE  \E e : /\ Effect(n, d, i, "compensated", e, h, r, o)
                /\ e.status # "pending" /\ e.level = d.escalations[i].level
                /\ e.timeout_at = d.escalations[i].timeout_at
                /\ d.escalations[i].status = None => e.status = None
<1> DEFINE y == Closed(v, x)
           z == append(y, "escalation.expired", i)
           p0 == d.purchases[i]
           e0 == d.escalations[i]
<1>1. /\ v \in Stores /\ Honest(v, i) /\ v.purchases[i] = p0 /\ v.escalations[i] = e0
      /\ v.held = h /\ v.reserved = r /\ v.open = o
  <2> HIDE DEF p0, e0
  <2> QED BY EffectFields DEF p0, e0
<1>2. PICK e : /\ Effect(y, v, i, "compensated", e, h, r, o)
               /\ e.status # "pending" /\ e.level = e0.level
               /\ e.timeout_at = e0.timeout_at
               /\ e0.status = None => e.status = None
  BY <1>1, ClosedEffect
<1>3. Effect(y, d, i, "compensated", e, h, r, o)
  <2> HIDE DEF y
  <2> QED BY <1>2, EffectsCompose
<1>4. Effect(z, d, i, "compensated", e, h, r, o)
  <2>1. "escalation.expired" \in EventTypes
    BY DEF EventTypes
  <2> HIDE DEF y
  <2>2. /\ y \in Stores /\ Honest(y, i) /\ y.purchases[i] = "compensated" /\ y.escalations[i] = e
        /\ y.held = h /\ y.reserved = r /\ y.open = o
    BY <1>3, EffectFields
  <2>3. Effect(z, y, i, "compensated", e, h, r, o)
    BY <2>1, <2>2, AppendEffect
  <2> HIDE DEF z
  <2> QED BY <1>3, <2>3, EffectsCompose
<1> HIDE DEF y, z
<1>5. n \in {y, z}
  BY DEF y, z
<1> QED BY <1>2, <1>3, <1>4, <1>5 DEF e0

----------------------------------------------------------------------------
(* The stores: what any call leaves, whatever id it was sent *)

Call(x) == x.i \in Intents /\ x.p \in Intents

(* Outside the row and the hold of its purchase id and the escalation of    *)
(* its intent a call x changes nothing that belongs to a purchase, and what *)
(* it puts there relates its own intent to its own id.                      *)
Touch(n, d, x) ==
  /\ n \in Stores
  /\ \A q \in Intents : q # x.p =>
       /\ n.purchases[q] = d.purchases[q] /\ n.owner[q] = d.owner[q]
       /\ n.holder[q] = d.holder[q] /\ (q \in n.held <=> q \in d.held)
  /\ \A j \in Intents : j # x.i => n.escalations[j] = d.escalations[j]
  /\ d.outbox \subseteq n.outbox
  /\ n.owner[x.p] = d.owner[x.p] \/ n.owner[x.p] = x.i
  /\ (d.purchases[x.p] = None <=> d.owner[x.p] = None) =>
       (n.purchases[x.p] = None <=> n.owner[x.p] = None)
  /\ x.p \in n.held =>
       \/ n.holder[x.p] = x.i
       \/ x.p \in d.held /\ n.holder[x.p] = d.holder[x.p]
  /\ n.escalations[x.i].status # None =>
       \/ n.escalations[x.i].p = x.p
       \/ /\ d.escalations[x.i].status # None
          /\ n.escalations[x.i].p = d.escalations[x.i].p

Does(n, d, x, s, r, o) ==
  Touch(n, d, x) /\ n.purchases[x.p] = s /\ n.reserved = r /\ n.open = o

LEMMA DoesCompose ==
  ASSUME NEW x, Call(x), NEW d \in Stores, NEW n, NEW m, NEW s, NEW r, NEW o,
         NEW s2, NEW r2, NEW o2, Does(n, d, x, s, r, o), Does(m, n, x, s2, r2, o2)
  PROVE  Does(m, d, x, s2, r2, o2)
<1>1. Touch(n, d, x) /\ Touch(m, n, x)
  BY DEF Does
<1>2. m \in Stores /\ d.outbox \subseteq m.outbox
  BY <1>1 DEF Touch
<1>3. \A q \in Intents : q # x.p =>
        /\ m.purchases[q] = d.purchases[q] /\ m.owner[q] = d.owner[q]
        /\ m.holder[q] = d.holder[q] /\ (q \in m.held <=> q \in d.held)
  BY <1>1 DEF Touch
<1>4. \A j \in Intents : j # x.i => m.escalations[j] = d.escalations[j]
  BY <1>1 DEF Touch
<1>5. m.owner[x.p] = d.owner[x.p] \/ m.owner[x.p] = x.i
  BY <1>1 DEF Touch
<1>6. (d.purchases[x.p] = None <=> d.owner[x.p] = None) =>
        (m.purchases[x.p] = None <=> m.owner[x.p] = None)
  BY <1>1 DEF Touch
<1>7. x.p \in m.held =>
        \/ m.holder[x.p] = x.i
        \/ x.p \in d.held /\ m.holder[x.p] = d.holder[x.p]
  BY <1>1 DEF Touch
<1>8. m.escalations[x.i].status # None =>
        \/ m.escalations[x.i].p = x.p
        \/ /\ d.escalations[x.i].status # None
           /\ m.escalations[x.i].p = d.escalations[x.i].p
  BY <1>1 DEF Touch
<1>9. Touch(m, d, x)
  BY <1>2, <1>3, <1>4, <1>5, <1>6, <1>7, <1>8 DEF Touch
<1> QED BY <1>9 DEF Does

LEMMA DoesFields ==
  ASSUME NEW x, NEW d, NEW n, NEW s, NEW r, NEW o, Does(n, d, x, s, r, o)
  PROVE  n \in Stores /\ n.purchases[x.p] = s /\ n.reserved = r /\ n.open = o
BY DEF Does, Touch

(* Writes that do not concern the purchase.                                 *)
LEMMA DoesCounting ==
  ASSUME NEW x, Call(x), NEW d \in Stores, NEW n \in Stores,
         n.purchases = d.purchases, n.owner = d.owner, n.holder = d.holder, n.held = d.held,
         n.escalations = d.escalations, d.outbox \subseteq n.outbox
  PROVE  Does(n, d, x, d.purchases[x.p], n.reserved, n.open)
BY DEF Does, Touch

LEMMA IncrementIntentDoes ==
  ASSUME NEW x, Call(x), NEW d \in Stores, NEW t \in 0..MaxTime
  PROVE  Does(increment_intent(d, t), d, x, d.purchases[x.p], d.reserved, d.open)
<1> DEFINE f == [d.intents EXCEPT ![t] = d.intents[t] + 1]
           n == increment_intent(d, t)
<1>1. f \in [0..MaxTime -> Nat]
  <2> DEFINE T == 0..MaxTime
             g == d.intents
  <2>1. g \in [T -> Nat] /\ t \in T
    BY DEF Stores
  <2> HIDE DEF T, g
  <2>2. g[t] \in Nat
    BY <2>1
  <2>3. [g EXCEPT ![t] = g[t] + 1] \in [T -> Nat]
    BY <2>1, <2>2
  <2> QED BY <2>3 DEF T, g
<1>2. n = [d EXCEPT !.intents = f]
  BY DEF increment_intent, Stores
<1> HIDE DEF f
<1>3. /\ n \in Stores /\ n.purchases = d.purchases /\ n.owner = d.owner /\ n.holder = d.holder
      /\ n.held = d.held /\ n.escalations = d.escalations /\ n.outbox = d.outbox
      /\ n.reserved = d.reserved /\ n.open = d.open
  BY <1>1, <1>2 DEF Stores
<1> HIDE DEF n
<1> QED BY <1>3, DoesCounting DEF n

LEMMA IncrementEscalationDoes ==
  ASSUME NEW x, Call(x), NEW d \in Stores, NEW u \in Nat
  PROVE  Does(increment_escalation(d, u), d, x, d.purchases[x.p], d.reserved, d.open)
<1> DEFINE a == d.asked + 1
           b == IF u > d.cooldown THEN u ELSE d.cooldown
           n == increment_escalation(d, u)
<1>1. a \in Nat /\ b \in Nat /\ n = [d EXCEPT !.asked = a, !.cooldown = b]
  BY DEF increment_escalation, Stores
<1> HIDE DEF a, b
<1>2. /\ n \in Stores /\ n.purchases = d.purchases /\ n.owner = d.owner /\ n.holder = d.holder
      /\ n.held = d.held /\ n.escalations = d.escalations /\ n.outbox = d.outbox
      /\ n.reserved = d.reserved /\ n.open = d.open
  BY <1>1 DEF Stores
<1> HIDE DEF n
<1> QED BY <1>2, DoesCounting DEF n

LEMMA OpenDoes ==
  ASSUME NEW x, Call(x), NEW d \in Stores
  PROVE  /\ Does(increment_open_authorizations(d), d, x, d.purchases[x.p], d.reserved, d.open + 1)
         /\ Does(decrement_open_authorizations(d), d, x, d.purchases[x.p], d.reserved,
                 IF d.open > 0 THEN d.open - 1 ELSE 0)
<1>1. ASSUME NEW v \in Nat
      PROVE  Does([d EXCEPT !.open = v], d, x, d.purchases[x.p], d.reserved, v)
  <2> DEFINE n == [d EXCEPT !.open = v]
  <2>1. /\ n \in Stores /\ n.purchases = d.purchases /\ n.owner = d.owner /\ n.holder = d.holder
        /\ n.held = d.held /\ n.escalations = d.escalations /\ n.outbox = d.outbox
        /\ n.reserved = d.reserved /\ n.open = v
    BY <1>1 DEF Stores
  <2> HIDE DEF n
  <2>2. Does(n, d, x, d.purchases[x.p], d.reserved, v)
    BY <2>1, DoesCounting
  <2> QED BY <2>2 DEF n
<1>2. d.open + 1 \in Nat /\ (IF d.open > 0 THEN d.open - 1 ELSE 0) \in Nat
  BY DEF Stores
<1>3. /\ increment_open_authorizations(d) = [d EXCEPT !.open = d.open + 1]
      /\ decrement_open_authorizations(d) = [d EXCEPT !.open = IF d.open > 0 THEN d.open - 1 ELSE 0]
  BY DEF increment_open_authorizations, decrement_open_authorizations, Stores
<1> QED BY <1>1, <1>2, <1>3

LEMMA AppendDoes ==
  ASSUME NEW x, Call(x), NEW d \in Stores, NEW type \in EventTypes
  PROVE  /\ Does(append(d, type, x.p), d, x, d.purchases[x.p], d.reserved, d.open)
         /\ <<type, x.p>> \in append(d, type, x.p).outbox
<1> DEFINE n == append(d, type, x.p)
<1>1. /\ n \in Stores /\ n.purchases = d.purchases /\ n.owner = d.owner /\ n.holder = d.holder
      /\ n.held = d.held /\ n.escalations = d.escalations /\ d.outbox \subseteq n.outbox
      /\ n.reserved = d.reserved /\ n.open = d.open /\ <<type, x.p>> \in n.outbox
  BY DEF append, Stores, Call
<1> HIDE DEF n
<1> QED BY <1>1, DoesCounting DEF n

LEMMA AppendFirstDoes ==
  ASSUME NEW x, Call(x), NEW d \in Stores, NEW events \in Seq(EventTypes), NEW k \in 0..Len(events)
  PROVE  /\ Does(AppendFirst(d, events, k, x.p), d, x, d.purchases[x.p], d.reserved, d.open)
         /\ \A j \in 1..k : <<events[j], x.p>> \in AppendFirst(d, events, k, x.p).outbox
<1> DEFINE more == {<<events[j], x.p>> : j \in 1..k}
           n == AppendFirst(d, events, k, x.p)
<1>1. more \subseteq EventTypes \X Intents
  <2>1. \A j \in 1..k : events[j] \in EventTypes
    OBVIOUS
  <2> QED BY <2>1 DEF Call
<1>2. n = [d EXCEPT !.outbox = d.outbox \cup more]
  BY DEF AppendFirst, Stores
<1>3. \A j \in 1..k : <<events[j], x.p>> \in more
  OBVIOUS
<1> HIDE DEF more
<1>4. d.outbox \cup more \in SUBSET (EventTypes \X Intents)
  BY <1>1, Zenon DEF Stores
<1> DEFINE all == d.outbox \cup more
<1>5. n = [d EXCEPT !.outbox = all] /\ all \in SUBSET (EventTypes \X Intents)
      /\ d.outbox \subseteq all
  BY <1>2, <1>4
<1> HIDE DEF all
<1>6. /\ n \in Stores /\ n.purchases = d.purchases /\ n.owner = d.owner /\ n.holder = d.holder
      /\ n.held = d.held /\ n.escalations = d.escalations /\ n.outbox = all
      /\ n.reserved = d.reserved /\ n.open = d.open
  BY <1>5 DEF Stores
<1> HIDE DEF n
<1>7. Does(n, d, x, d.purchases[x.p], d.reserved, d.open)
  BY <1>5, <1>6, DoesCounting
<1> QED BY <1>3, <1>6, <1>7 DEF n, all

LEMMA PurchaseDoes ==
  ASSUME NEW x, Call(x), NEW d \in Stores, NEW s \in PurchaseStatus \ {None}
  PROVE  /\ Does(save_purchase(d, x, s), d, x,
                 IF d.purchases[x.p] = None THEN s ELSE d.purchases[x.p], d.reserved, d.open)
         /\ Does(update_purchase(d, x, s), d, x,
                 IF d.purchases[x.p] = None THEN None ELSE s, d.reserved, d.open)
<1> DEFINE N(a, b) == [d EXCEPT !.purchases = [d.purchases EXCEPT ![x.p] = a],
                               !.owner = [d.owner EXCEPT ![x.p] = b]]
<1>0. None \in PurchaseStatus /\ d.purchases[x.p] \in PurchaseStatus
  BY DEF PurchaseStatus, Stores, Call
<1>1. ASSUME NEW a \in PurchaseStatus, d.purchases[x.p] # None => a # None,
             NEW b \in Intents \cup {None}, b = d.owner[x.p] \/ b = x.i,
             (d.purchases[x.p] = None <=> d.owner[x.p] = None) => (a = None <=> b = None)
      PROVE  Does(N(a, b), d, x, a, d.reserved, d.open)
  <2> DEFINE n == N(a, b)
  <2>1. /\ n \in Stores /\ n.purchases = [d.purchases EXCEPT ![x.p] = a]
        /\ n.owner = [d.owner EXCEPT ![x.p] = b] /\ n.holder = d.holder
        /\ n.held = d.held /\ n.escalations = d.escalations /\ n.outbox = d.outbox
        /\ n.reserved = d.reserved /\ n.open = d.open
    BY <1>1 DEF Stores, Call
  <2>2. d.purchases \in [Intents -> PurchaseStatus] /\ d.owner \in [Intents -> Intents \cup {None}]
    BY DEF Stores
  <2>3. n.purchases[x.p] = a /\ n.owner[x.p] = b
        /\ \A q \in Intents : q # x.p => n.purchases[q] = d.purchases[q] /\ n.owner[q] = d.owner[q]
    <3> HIDE DEF n
    <3> QED BY <2>1, <2>2 DEF Call
  <2> HIDE DEF n
  <2>4. Touch(n, d, x)
    BY <1>1, <2>1, <2>3 DEF Touch
  <2> QED BY <2>1, <2>3, <2>4 DEF Does, n
<1>2. CASE d.purchases[x.p] = None
  <2>1. save_purchase(d, x, s) = N(s, x.i)
    BY <1>2 DEF save_purchase, Stores
  <2>2. Does(save_purchase(d, x, s), d, x, s, d.reserved, d.open)
    <3>1. s # None /\ s \in PurchaseStatus /\ x.i # None /\ x.i \in Intents \cup {None}
      BY ServiceAssumption DEF Call
    <3> HIDE DEF N
    <3> QED BY <1>1, <1>2, <2>1, <3>1
  <2>3. update_purchase(d, x, s) = [d EXCEPT !.purchases = [d.purchases EXCEPT ![x.p] = None]]
    BY <1>2 DEF update_purchase, Stores
  <2>4. update_purchase(d, x, s) = N(None, d.owner[x.p])
    BY <2>3 DEF Stores, Call
  <2>5. Does(update_purchase(d, x, s), d, x, None, d.reserved, d.open)
    <3>1. d.owner[x.p] \in Intents \cup {None}
      BY DEF Stores, Call
    <3> HIDE DEF N
    <3> QED BY <1>0, <1>1, <1>2, <2>4, <3>1
  <2> QED BY <1>2, <2>2, <2>5
<1>3. CASE d.purchases[x.p] # None
  <2>1. save_purchase(d, x, s) = d
    BY <1>3 DEF save_purchase
  <2>2. Does(d, d, x, d.purchases[x.p], d.reserved, d.open)
    BY DoesCounting
  <2>3. update_purchase(d, x, s) = [d EXCEPT !.purchases = [d.purchases EXCEPT ![x.p] = s]]
    BY <1>3 DEF update_purchase, Stores
  <2>4. update_purchase(d, x, s) = N(s, d.owner[x.p])
    BY <2>3 DEF Stores, Call
  <2>5. Does(update_purchase(d, x, s), d, x, s, d.reserved, d.open)
    <3>1. d.owner[x.p] \in Intents \cup {None}
      BY DEF Stores, Call
    <3> HIDE DEF N
    <3> QED BY <1>0, <1>1, <1>3, <2>4, <3>1
  <2> QED BY <1>3, <2>1, <2>2, <2>5
<1> QED BY <1>2, <1>3

LEMMA EscalationDoes ==
  ASSUME NEW x, Call(x), NEW d \in Stores, NEW l \in Levels, NEW t \in 0..MaxTime,
         NEW s \in {"resolved", "expired"}
  PROVE  /\ Does(create_escalation(d, x, l, t), d, x, d.purchases[x.p], d.reserved, d.open)
         /\ Does(update_escalation(d, x, s), d, x, d.purchases[x.p], d.reserved, d.open)
<1> DEFINE new == [status |-> "pending", level |-> l, timeout_at |-> escalation_deadline(t, l),
                   p |-> x.p]
           old == IF d.escalations[x.i].status = None THEN d.escalations[x.i]
                  ELSE [d.escalations[x.i] EXCEPT !.status = s]
<1>1. escalation_deadline(t, l) \in Nat
  BY GateAssumption, ServiceAssumption DEF escalation_deadline, ttl_for_level
<1>2. ASSUME NEW e \in Escalations,
             e.status # None =>
               \/ e.p = x.p
               \/ d.escalations[x.i].status # None /\ e.p = d.escalations[x.i].p
      PROVE  Does([d EXCEPT !.escalations = [d.escalations EXCEPT ![x.i] = e]], d, x,
                  d.purchases[x.p], d.reserved, d.open)
  <2> DEFINE n == [d EXCEPT !.escalations = [d.escalations EXCEPT ![x.i] = e]]
  <2>1. /\ n \in Stores /\ n.purchases = d.purchases /\ n.owner = d.owner /\ n.holder = d.holder
        /\ n.held = d.held /\ n.escalations = [d.escalations EXCEPT ![x.i] = e]
        /\ n.outbox = d.outbox /\ n.reserved = d.reserved /\ n.open = d.open
    BY <1>2 DEF Stores, Call
  <2>2. d.escalations \in [Intents -> Escalations]
    BY DEF Stores
  <2> HIDE DEF n
  <2>3. n.escalations[x.i] = e /\ \A j \in Intents : j # x.i => n.escalations[j] = d.escalations[j]
    BY <2>1, <2>2 DEF Call
  <2>4. Touch(n, d, x)
    BY <1>2, <2>1, <2>3 DEF Touch
  <2> QED BY <2>1, <2>4 DEF Does, n
<1>3. new \in Escalations
  BY <1>1, ServiceAssumption DEF Escalations, Call
<1>4. d.escalations[x.i] \in Escalations /\ old \in Escalations /\ old.p = d.escalations[x.i].p
      /\ (old.status # None => d.escalations[x.i].status # None)
  BY DEF Escalations, Stores, Call
<1>5. create_escalation(d, x, l, t) = [d EXCEPT !.escalations = [d.escalations EXCEPT ![x.i] = new]]
  BY DEF create_escalation, Stores
<1>6. update_escalation(d, x, s) = [d EXCEPT !.escalations = [d.escalations EXCEPT ![x.i] = old]]
  BY <1>4 DEF update_escalation, Stores, Escalations, Call
<1>7. new.p = x.p
  OBVIOUS
<1> HIDE DEF new, old
<1> QED BY <1>2, <1>3, <1>4, <1>5, <1>6, <1>7

LEMMA MoneyDoes ==
  ASSUME NEW x, Call(x), NEW d \in Stores
  PROVE  /\ Amount(x.i) \in Nat
         /\ Replayed(d, x) => reserve(d, x) = d
         /\ ~Replayed(d, x) =>
              Does(reserve(d, x), d, x, d.purchases[x.p], d.reserved + Amount(x.i), d.open)
         /\ d.reserved >= Refund(d, x) /\ Refund(d, x) \in Nat =>
              Does(release(d, x), d, x, d.purchases[x.p], d.reserved - Refund(d, x), d.open)
<1> DEFINE N(h, b, r, v) == [d EXCEPT !.held = h, !.holder = [d.holder EXCEPT ![x.p] = b],
                                     !.reserved = r, !.txn = v]
<1>1. Amount(x.i) \in Nat
  BY ServiceAssumption DEF Amount, PurchaseIntent, Money, Call
<1>2. ASSUME NEW h \in SUBSET Intents, NEW b \in Intents \cup {None}, NEW r \in Nat, NEW v \in Nat,
             \A q \in Intents : q # x.p => (q \in h <=> q \in d.held),
             x.p \in h => b = x.i \/ (x.p \in d.held /\ b = d.holder[x.p])
      PROVE  Does(N(h, b, r, v), d, x, d.purchases[x.p], r, d.open)
  <2> DEFINE n == N(h, b, r, v)
  <2>1. /\ n \in Stores /\ n.purchases = d.purchases /\ n.owner = d.owner
        /\ n.holder = [d.holder EXCEPT ![x.p] = b] /\ n.held = h
        /\ n.escalations = d.escalations /\ n.outbox = d.outbox
        /\ n.reserved = r /\ n.open = d.open
    BY <1>2 DEF Stores, Call
  <2>2. d.holder \in [Intents -> Intents \cup {None}]
    BY DEF Stores
  <2> HIDE DEF n
  <2>3. n.holder[x.p] = b /\ \A q \in Intents : q # x.p => n.holder[q] = d.holder[q]
    BY <2>1, <2>2 DEF Call
  <2>4. Touch(n, d, x)
    BY <1>2, <2>1, <2>3 DEF Touch
  <2> QED BY <2>1, <2>4 DEF Does, n
<1>3. ASSUME ~Replayed(d, x)
      PROVE  Does(reserve(d, x), d, x, d.purchases[x.p], d.reserved + Amount(x.i), d.open)
  <2> DEFINE h == d.held \cup {x.p}
             r == d.reserved + Amount(x.i)
             v == d.txn + 1
  <2>1. reserve(d, x) = N(h, x.i, r, v)
    BY <1>3 DEF reserve, Stores
  <2>2. h \in SUBSET Intents /\ r \in Nat /\ v \in Nat
        /\ \A q \in Intents : q # x.p => (q \in h <=> q \in d.held)
    BY <1>1 DEF Stores, Call
  <2> HIDE DEF h, r, v
  <2>3. Does(reserve(d, x), d, x, d.purchases[x.p], r, d.open)
    <3>1. x.i \in Intents \cup {None}
      BY DEF Call
    <3> HIDE DEF N
    <3> QED BY <1>2, <2>1, <2>2, <3>1
  <2> QED BY <2>3 DEF r
<1>4. ASSUME d.reserved >= Refund(d, x), Refund(d, x) \in Nat
      PROVE  Does(release(d, x), d, x, d.purchases[x.p], d.reserved - Refund(d, x), d.open)
  <2> DEFINE h == d.held \ {x.p}
             r == d.reserved - Refund(d, x)
             v == IF d.txn > 0 THEN d.txn - 1 ELSE 0
  <2>1. release(d, x) = [d EXCEPT !.held = h, !.reserved = r, !.txn = v]
    BY DEF release, Stores
  <2>2. h \in SUBSET Intents /\ r \in Nat /\ v \in Nat /\ x.p \notin h
        /\ \A q \in Intents : q # x.p => (q \in h <=> q \in d.held)
    BY <1>4 DEF Stores
  <2>3. d.holder = [d.holder EXCEPT ![x.p] = d.holder[x.p]] /\ d.holder[x.p] \in Intents \cup {None}
    BY DEF Stores, Call
  <2> HIDE DEF h, r, v
  <2>4. release(d, x) = N(h, d.holder[x.p], r, v)
    BY <2>1, <2>3 DEF Stores
  <2>5. Does(release(d, x), d, x, d.purchases[x.p], r, d.open)
    <3> HIDE DEF N
    <3> QED BY <1>2, <2>2, <2>3, <2>4
  <2> QED BY <2>5 DEF r
<1>5. Replayed(d, x) => reserve(d, x) = d
  BY DEF reserve
<1> QED BY <1>1, <1>3, <1>4, <1>5

(* The hold under the call's id, if there is one, was made for an intent.   *)
Sound(d, x) == x.p \in d.held => d.holder[x.p] \in Intents

LEMMA SoundStays ==
  ASSUME NEW x, Call(x), NEW d, NEW n, Touch(n, d, x), Sound(d, x)
  PROVE  Sound(n, x)
BY DEF Touch, Sound, Call

LEMMA SameDoes ==
  ASSUME NEW x, Call(x), NEW d \in Stores
  PROVE  Does(d, d, x, d.purchases[x.p], d.reserved, d.open)
BY DoesCounting

LEMMA GivenBackDoes ==
  ASSUME NEW x, Call(x), NEW d \in Stores, Sound(d, x)
  PROVE  \E r, o \in Nat : /\ Does(GivenBack(d, x), d, x, d.purchases[x.p], r, o)
                           /\ r <= d.reserved /\ o <= d.open
<1>0. d.reserved \in Nat /\ d.open \in Nat
  BY DEF Stores
<1>1. CASE ~CanRelease(d, x)
  <2>1. GivenBack(d, x) = d
    BY <1>1 DEF GivenBack
  <2> QED BY <1>0, <2>1, SameDoes
<1>2. CASE CanRelease(d, x)
  <2> DEFINE freed == release(d, x)
             n == decrement_open_authorizations(freed)
             s == d.purchases[x.p]
             r == d.reserved - Refund(d, x)
             o == IF d.open > 0 THEN d.open - 1 ELSE 0
  <2>1. Refund(d, x) \in Nat /\ d.reserved >= Refund(d, x)
    BY <1>2, ServiceAssumption DEF CanRelease, Refund, Sound, Amount, PurchaseIntent, Money, Call
  <2>2. r \in Nat /\ o \in Nat /\ r <= d.reserved /\ o <= d.open
    BY <1>0, <2>1
  <2>3. Does(freed, d, x, s, r, d.open)
    BY <2>1, MoneyDoes
  <2>4. GivenBack(d, x) = n
    BY <1>2 DEF GivenBack
  <2> HIDE DEF freed, s, r
  <2>5. freed \in Stores /\ freed.purchases[x.p] = s /\ freed.reserved = r /\ freed.open = d.open
    BY <2>3, DoesFields
  <2>6. Does(n, freed, x, s, r, o)
    BY <2>5, OpenDoes
  <2> HIDE DEF n, o
  <2>7. Does(n, d, x, s, r, o)
    BY <2>3, <2>6, DoesCompose
  <2> QED BY <2>2, <2>4, <2>7 DEF s
<1> QED BY <1>1, <1>2

LEMMA RejectedDoes ==
  ASSUME NEW x, Call(x), NEW d \in Stores, NEW t \in 0..MaxTime, NEW ok \in BOOLEAN
  PROVE  \E s \in {None, "rejected"} :
           Does(RejectedDb(d, x, t, ok), d, x, s, d.reserved, d.open)
<1> DEFINE seen == increment_intent(d, t)
           saved == save_purchase(seen, x, "rejected")
           done == update_purchase(saved, x, "rejected")
           last == append(done, "purchase.rejected", x.p)
           r == d.reserved
           o == d.open
           w == "rejected"
<1>0. w \in PurchaseStatus \ {None} /\ "purchase.rejected" \in EventTypes
  BY ServiceAssumption DEF PurchaseStatus, EventTypes
<1>1. Does(seen, d, x, d.purchases[x.p], r, o)
  BY IncrementIntentDoes
<1>2. \E s \in PurchaseStatus \ {None} : Does(saved, d, x, s, r, o)
  <2> HIDE DEF seen, r, o
  <2>1. seen \in Stores /\ seen.reserved = r /\ seen.open = o
    BY <1>1, DoesFields
  <2>2. seen.purchases[x.p] \in PurchaseStatus
    BY <2>1 DEF Stores, Call
  <2>3. \E s \in PurchaseStatus \ {None} : Does(saved, seen, x, s, r, o)
    BY <1>0, <2>1, <2>2, PurchaseDoes
  <2> HIDE DEF saved
  <2> QED BY <1>1, <2>3, DoesCompose
<1>3. PICK s \in PurchaseStatus \ {None} : Does(saved, d, x, s, r, o)
  BY <1>2
<1>4. Does(done, d, x, w, r, o)
  <2> HIDE DEF saved, r, o
  <2>1. saved \in Stores /\ saved.purchases[x.p] = s /\ saved.reserved = r /\ saved.open = o
    BY <1>3, DoesFields
  <2>2. Does(done, saved, x, w, r, o)
    BY <1>0, <1>3, <2>1, PurchaseDoes
  <2> HIDE DEF done, w
  <2> QED BY <1>3, <2>2, DoesCompose
<1>5. done \in Stores /\ done.purchases[x.p] = w /\ done.reserved = r /\ done.open = o
  <2> HIDE DEF done, r, o, w
  <2> QED BY <1>4, DoesFields
<1>6. CASE ok
  <2>1. RejectedDb(d, x, t, ok) = last
    BY <1>6 DEF RejectedDb
  <2> HIDE DEF done, r, o, w
  <2>2. Does(last, done, x, w, r, o)
    BY <1>0, <1>5, AppendDoes
  <2> HIDE DEF last
  <2>3. Does(last, d, x, w, r, o)
    BY <1>4, <2>2, DoesCompose
  <2> QED BY <2>1, <2>3 DEF r, o, w
<1>7. CASE ~ok
  <2>1. RejectedDb(d, x, t, ok) = update_purchase(Failed(d, done), x, "rejected")
    BY <1>7 DEF RejectedDb
  <2>2. CASE deployment = "memory"
    <3> HIDE DEF done, r, o
    <3>1. Does(update_purchase(done, x, "rejected"), done, x, w, r, o)
      BY <1>0, <1>5, PurchaseDoes
    <3> DEFINE n == update_purchase(done, x, "rejected")
    <3>2. Does(n, done, x, w, r, o)
      BY <3>1
    <3> HIDE DEF n, w
    <3>3. Does(n, d, x, w, r, o)
      BY <1>4, <3>2, DoesCompose
    <3> QED BY <2>1, <2>2, <3>3, FailedIs DEF n, r, o, w
  <2>3. CASE deployment # "memory"
    <3>1. \E q \in {None, "rejected"} : Does(update_purchase(d, x, "rejected"), d, x, q, r, o)
      BY <1>0, PurchaseDoes
    <3> HIDE DEF done
    <3> QED BY <2>1, <2>3, <3>1, FailedIs
  <2> QED BY <2>2, <2>3
<1> QED BY <1>6, <1>7

LEMMA EscalatedDoes ==
  ASSUME NEW x, Call(x), NEW d \in Stores, NEW t \in 0..MaxTime, NEW dec \in Decision,
         NEW k \in 0..Len(EscalatedEvents(dec))
  PROVE  \E s : /\ Does(EscalatedDb(d, x, t, dec, k), d, x, s, d.reserved, d.open)
                /\ s = "pending_capture" => d.purchases[x.p] = "pending_capture"
<1> DEFINE seen == increment_intent(d, t)
           asked == increment_escalation(seen, dec.until)
           saved == save_purchase(asked, x, "awaiting_escalation")
           made == create_escalation(saved, x, dec.level, t)
           done == AppendFirst(made, EscalatedEvents(dec), k, x.p)
           p == d.purchases[x.p]
           q == IF p = None THEN "awaiting_escalation" ELSE p
           r == d.reserved
           o == d.open
<1>0. /\ "awaiting_escalation" \in PurchaseStatus \ {None}
      /\ "rejected" \in PurchaseStatus \ {None} /\ None # "pending_capture"
      /\ dec.level \in Levels /\ dec.until \in Nat
  BY ServiceAssumption DEF PurchaseStatus, Decision
<1>1. Does(seen, d, x, p, r, o)
  BY IncrementIntentDoes
<1>2. Does(asked, d, x, p, r, o)
  <2> HIDE DEF seen, p, r, o
  <2>1. seen \in Stores /\ seen.purchases[x.p] = p /\ seen.reserved = r /\ seen.open = o
    BY <1>1, DoesFields
  <2>2. Does(asked, seen, x, p, r, o)
    BY <1>0, <2>1, IncrementEscalationDoes
  <2> HIDE DEF asked
  <2> QED BY <1>1, <2>2, DoesCompose
<1>3. Does(saved, d, x, q, r, o)
  <2> HIDE DEF asked, p, r, o
  <2>1. asked \in Stores /\ asked.purchases[x.p] = p /\ asked.reserved = r /\ asked.open = o
    BY <1>2, DoesFields
  <2>2. Does(saved, asked, x, q, r, o)
    BY <1>0, <2>1, PurchaseDoes
  <2> HIDE DEF saved, q
  <2> QED BY <1>2, <2>2, DoesCompose
<1>4. Does(made, d, x, q, r, o)
  <2> HIDE DEF saved, q, r, o
  <2>1. saved \in Stores /\ saved.purchases[x.p] = q /\ saved.reserved = r /\ saved.open = o
    BY <1>3, DoesFields
  <2>2. Does(made, saved, x, q, r, o)
    BY <1>0, <2>1, EscalationDoes
  <2> HIDE DEF made
  <2> QED BY <1>3, <2>2, DoesCompose
<1>5. Does(done, d, x, q, r, o)
  <2> HIDE DEF made, q, r, o
  <2>1. made \in Stores /\ made.purchases[x.p] = q /\ made.reserved = r /\ made.open = o
    BY <1>4, DoesFields
  <2> DEFINE events == EscalatedEvents(dec)
  <2>2. events \in Seq(EventTypes) /\ k \in 0..Len(events)
    BY EscalatedEventTypes
  <2>3. done = AppendFirst(made, events, k, x.p)
    OBVIOUS
  <2> HIDE DEF events, done
  <2>4. Does(done, made, x, q, r, o)
    BY <2>1, <2>2, <2>3, AppendFirstDoes
  <2> QED BY <1>4, <2>4, DoesCompose
<1>6. q = "pending_capture" => p = "pending_capture"
  BY <1>0
<1>7. CASE k = Len(EscalatedEvents(dec))
  <2>1. EscalatedDb(d, x, t, dec, k) = done
    BY <1>7 DEF EscalatedDb
  <2> HIDE DEF done, q
  <2> QED BY <1>5, <1>6, <2>1 DEF p, r, o
<1>8. CASE k # Len(EscalatedEvents(dec))
  <2> DEFINE base == Failed(d, done)
             refused == update_purchase(base, x, "rejected")
             n == update_escalation(refused, x, "expired")
  <2>1. EscalatedDb(d, x, t, dec, k) = n
    BY <1>8 DEF EscalatedDb
  <2>2. \E s : Does(base, d, x, s, r, o)
    <3> HIDE DEF done, q
    <3>1. Does(d, d, x, p, r, o)
      BY SameDoes
    <3> QED BY <1>5, <3>1, FailedIs
  <2>3. PICK s : Does(base, d, x, s, r, o)
    BY <2>2
  <2> HIDE DEF base, r, o, p, q
  <2>4. base \in Stores /\ base.reserved = r /\ base.open = o
    BY <2>3, DoesFields
  <2>5. \E s2 \in {None, "rejected"} : Does(refused, base, x, s2, r, o)
    BY <1>0, <2>4, PurchaseDoes
  <2>6. PICK s2 \in {None, "rejected"} : Does(refused, d, x, s2, r, o)
    <3> HIDE DEF refused
    <3> QED BY <2>3, <2>5, DoesCompose
  <2> HIDE DEF refused
  <2>7. refused \in Stores /\ refused.purchases[x.p] = s2 /\ refused.reserved = r /\ refused.open = o
    BY <2>6, DoesFields
  <2>8. None \in Levels /\ 0 \in 0..MaxTime
    BY ServiceAssumption DEF Levels
  <2>9. Does(n, refused, x, s2, r, o)
    BY <2>7, <2>8, EscalationDoes
  <2> HIDE DEF n
  <2>10. Does(n, d, x, s2, r, o)
    BY <2>6, <2>9, DoesCompose
  <2>11. s2 # "pending_capture"
    BY <1>0
  <2> QED BY <2>1, <2>10, <2>11 DEF r, o
<1> QED BY <1>7, <1>8

(* What a reservation adds to the money held: nothing if it is a replay.    *)
Adds(d, x, r) ==
  \/ Replayed(d, x) /\ r = d.reserved
  \/ ~Replayed(d, x) /\ r = d.reserved + Amount(x.i)

LEMMA ReserveDoes ==
  ASSUME NEW x, Call(x), NEW d \in Stores
  PROVE  \E r \in Nat : Does(reserve(d, x), d, x, d.purchases[x.p], r, d.open) /\ Adds(d, x, r)
<1>1. d.reserved \in Nat /\ Amount(x.i) \in Nat /\ d.reserved + Amount(x.i) \in Nat
  BY MoneyDoes DEF Stores
<1>2. CASE Replayed(d, x)
  <2>1. reserve(d, x) = d
    BY <1>2, MoneyDoes
  <2> QED BY <1>1, <1>2, <2>1, SameDoes DEF Adds
<1>3. CASE ~Replayed(d, x)
  BY <1>1, <1>3, MoneyDoes DEF Adds
<1> QED BY <1>2, <1>3

LEMMA ReservedDoes ==
  ASSUME NEW x, Call(x), NEW d \in Stores, NEW t \in 0..MaxTime
  PROVE  \E s, r : /\ Does(ReservedDb(d, x, t), d, x, s, r, d.open + 1)
                   /\ r \in Nat /\ Adds(d, x, r)
<1> DEFINE seen == increment_intent(d, t)
           money == reserve(seen, x)
           saved == save_purchase(money, x, "pending_capture")
           n == increment_open_authorizations(saved)
           p == d.purchases[x.p]
           q == IF p = None THEN "pending_capture" ELSE p
           o == d.open
<1>0. "pending_capture" \in PurchaseStatus \ {None}
  BY ServiceAssumption DEF PurchaseStatus
<1>1. Does(seen, d, x, p, d.reserved, o)
  BY IncrementIntentDoes
<1>2. seen.reserved = d.reserved /\ seen.held = d.held /\ seen.holder = d.holder
      /\ seen.purchases = d.purchases
  BY DEF increment_intent, Stores
<1>3. \A r : Adds(seen, x, r) => Adds(d, x, r)
  BY <1>2 DEF Adds, Replayed
<1>4. PICK r \in Nat : Does(money, d, x, p, r, o) /\ Adds(d, x, r)
  <2> HIDE DEF seen, p, o
  <2>1. seen \in Stores /\ seen.purchases[x.p] = p /\ seen.open = o
    BY <1>1, DoesFields
  <2>2. PICK r \in Nat : Does(money, seen, x, p, r, o) /\ Adds(seen, x, r)
    BY <2>1, ReserveDoes
  <2> HIDE DEF money
  <2>3. Does(money, d, x, p, r, o)
    BY <1>1, <2>2, DoesCompose
  <2> QED BY <1>3, <2>2, <2>3
<1>5. Does(saved, d, x, q, r, o)
  <2> HIDE DEF money, p, o
  <2>1. money \in Stores /\ money.purchases[x.p] = p /\ money.reserved = r /\ money.open = o
    BY <1>4, DoesFields
  <2>2. Does(saved, money, x, q, r, o)
    BY <1>0, <2>1, PurchaseDoes
  <2> HIDE DEF saved, q
  <2> QED BY <1>4, <2>2, DoesCompose
<1>6. Does(n, d, x, q, r, o + 1)
  <2> HIDE DEF saved, q, o
  <2>1. saved \in Stores /\ saved.purchases[x.p] = q /\ saved.reserved = r /\ saved.open = o
    BY <1>5, DoesFields
  <2>2. Does(n, saved, x, q, r, o + 1)
    BY <2>1, OpenDoes
  <2> HIDE DEF n
  <2> QED BY <1>5, <2>2, DoesCompose
<1>7. ReservedDb(d, x, t) = n
  BY DEF ReservedDb
<1> HIDE DEF n, q
<1> QED BY <1>4, <1>6, <1>7 DEF o

LEMMA ApprovalFailsDoes ==
  ASSUME NEW x, Call(x), NEW d \in Stores, Sound(d, x), NEW t \in 0..MaxTime, NEW ok \in BOOLEAN
  PROVE  \E s, r, o, full :
           /\ Does(RejectedDb(GivenBack(Failed(d, ReservedDb(d, x, t)), x), x, t, ok), d, x, s, r, o)
           /\ s \in {None, "rejected"} /\ {r, o, full} \subseteq Nat
           /\ o <= d.open + 1
           /\ r <= full /\ (full = d.reserved \/ Adds(d, x, full))
<1> DEFINE made == ReservedDb(d, x, t)
           base == Failed(d, made)
           back == GivenBack(base, x)
           n == RejectedDb(back, x, t, ok)
<1>0. d.reserved \in Nat /\ d.open \in Nat
  BY DEF Stores
<1>1. \E s, full, o : /\ Does(base, d, x, s, full, o) /\ full \in Nat /\ o \in Nat
                      /\ o <= d.open + 1 /\ (full = d.reserved \/ Adds(d, x, full))
  <2>1. PICK s, r : /\ Does(made, d, x, s, r, d.open + 1)
                    /\ r \in Nat /\ Adds(d, x, r)
    BY ReservedDoes
  <2>2. Does(d, d, x, d.purchases[x.p], d.reserved, d.open)
    BY SameDoes
  <2>3. d.open + 1 \in Nat /\ d.open <= d.open + 1
    BY <1>0
  <2> HIDE DEF made
  <2>4. CASE deployment = "memory"
    BY <2>1, <2>3, <2>4, FailedIs
  <2>5. CASE deployment # "memory"
    BY <1>0, <2>2, <2>3, <2>5, FailedIs
  <2> QED BY <2>4, <2>5
<1>2. PICK s, full, o : /\ Does(base, d, x, s, full, o) /\ full \in Nat /\ o \in Nat
                        /\ o <= d.open + 1 /\ (full = d.reserved \/ Adds(d, x, full))
  BY <1>1
<1> HIDE DEF base
<1>3. base \in Stores /\ base.purchases[x.p] = s /\ base.reserved = full /\ base.open = o
      /\ Sound(base, x)
  BY <1>2, DoesFields, SoundStays DEF Does
<1>4. PICK r, o2 \in Nat : Does(back, base, x, s, r, o2) /\ r <= full /\ o2 <= o
  BY <1>3, GivenBackDoes
<1> HIDE DEF back
<1>5. Does(back, d, x, s, r, o2)
  BY <1>2, <1>4, DoesCompose
<1>6. back \in Stores /\ back.reserved = r /\ back.open = o2
  BY <1>5, DoesFields
<1>7. PICK s2 \in {None, "rejected"} : Does(n, back, x, s2, r, o2)
  BY <1>6, RejectedDoes
<1> HIDE DEF n
<1>8. Does(n, d, x, s2, r, o2)
  BY <1>5, <1>7, DoesCompose
<1>9. o2 <= d.open + 1
  BY <1>0, <1>2, <1>4
<1>10. n = RejectedDb(GivenBack(Failed(d, ReservedDb(d, x, t)), x), x, t, ok)
  BY DEF n, back, base
<1>11. s2 \in {None, "rejected"} /\ {r, o2, full} \subseteq Nat
  BY <1>2, <1>4, <1>7
<1> HIDE DEF Adds
<1> QED BY <1>2, <1>4, <1>8, <1>9, <1>10, <1>11

LEMMA ResolvedDoes ==
  ASSUME NEW x, Call(x), NEW d \in Stores, NEW k \in 0..2
  PROVE  LET n == AppendFirst(ResolvedDb(d, x), ResolvedEvents, k, x.p)
         IN  /\ \E s, r : Does(n, d, x, s, r, d.open + 1) /\ r \in Nat /\ Adds(d, x, r)
             /\ k = 2 => <<"purchase.verified", x.p>> \in n.outbox
<1> DEFINE money == reserve(d, x)
           told1 == update_escalation(money, x, "resolved")
           bought == update_purchase(told1, x, "pending_capture")
           opened == increment_open_authorizations(bought)
           n == AppendFirst(opened, ResolvedEvents, k, x.p)
           p == d.purchases[x.p]
           o == d.open
           q == IF p = None THEN None ELSE "pending_capture"
<1>0. /\ "pending_capture" \in PurchaseStatus \ {None}
      /\ ResolvedEvents \in Seq(EventTypes) /\ Len(ResolvedEvents) = 2
      /\ ResolvedEvents[2] = "purchase.verified" /\ None \in Levels /\ 0 \in 0..MaxTime
  BY ServiceAssumption DEF PurchaseStatus, ResolvedEvents, EventTypes, Levels
<1>1. ResolvedDb(d, x) = opened
  BY DEF ResolvedDb
<1>2. PICK r \in Nat : Does(money, d, x, p, r, o) /\ Adds(d, x, r)
  BY ReserveDoes
<1>3. Does(told1, d, x, p, r, o)
  <2> HIDE DEF money, p, o
  <2>1. money \in Stores /\ money.purchases[x.p] = p /\ money.reserved = r /\ money.open = o
    BY <1>2, DoesFields
  <2>2. Does(told1, money, x, p, r, o)
    BY <1>0, <2>1, EscalationDoes
  <2> HIDE DEF told1
  <2> QED BY <1>2, <2>2, DoesCompose
<1>4. Does(bought, d, x, q, r, o)
  <2> HIDE DEF told1, p, o
  <2>1. told1 \in Stores /\ told1.purchases[x.p] = p /\ told1.reserved = r /\ told1.open = o
    BY <1>3, DoesFields
  <2>2. Does(bought, told1, x, q, r, o)
    BY <1>0, <2>1, PurchaseDoes
  <2> HIDE DEF bought, q
  <2> QED BY <1>3, <2>2, DoesCompose
<1>5. Does(opened, d, x, q, r, o + 1)
  <2> HIDE DEF bought, q, o
  <2>1. bought \in Stores /\ bought.purchases[x.p] = q /\ bought.reserved = r /\ bought.open = o
    BY <1>4, DoesFields
  <2>2. Does(opened, bought, x, q, r, o + 1)
    BY <2>1, OpenDoes
  <2> HIDE DEF opened
  <2> QED BY <1>4, <2>2, DoesCompose
<1>6. Does(n, d, x, q, r, o + 1) /\ (k = 2 => <<"purchase.verified", x.p>> \in n.outbox)
  <2> HIDE DEF opened, q, o
  <2>1. opened \in Stores /\ opened.purchases[x.p] = q /\ opened.reserved = r /\ opened.open = o + 1
    BY <1>5, DoesFields
  <2>2. /\ Does(n, opened, x, q, r, o + 1)
        /\ \A j \in 1..k : <<ResolvedEvents[j], x.p>> \in n.outbox
    BY <1>0, <2>1, AppendFirstDoes
  <2> HIDE DEF n
  <2> QED BY <1>0, <1>5, <2>2, DoesCompose
<1> HIDE DEF opened, q
<1> QED BY <1>1, <1>2, <1>6 DEF o

LEMMA ClosedDoes ==
  ASSUME NEW x, Call(x), NEW d \in Stores
  PROVE  \E s : /\ Does(Closed(d, x), d, x, s, d.reserved, d.open)
                /\ s # "pending_capture"
<1> DEFINE expired == update_escalation(d, x, "expired")
           n == update_purchase(expired, x, "compensated")
           p == d.purchases[x.p]
           r == d.reserved
           o == d.open
           q == IF p = None THEN None ELSE "compensated"
<1>0. /\ "compensated" \in PurchaseStatus \ {None} /\ None \in Levels /\ 0 \in 0..MaxTime
      /\ None # "pending_capture"
  BY ServiceAssumption DEF PurchaseStatus, Levels
<1>1. Does(expired, d, x, p, r, o)
  BY <1>0, EscalationDoes
<1>2. Does(n, d, x, q, r, o)
  <2> HIDE DEF expired, p, r, o
  <2>1. expired \in Stores /\ expired.purchases[x.p] = p /\ expired.reserved = r /\ expired.open = o
    BY <1>1, DoesFields
  <2>2. Does(n, expired, x, q, r, o)
    BY <1>0, <2>1, PurchaseDoes
  <2> HIDE DEF n, q
  <2> QED BY <1>1, <2>2, DoesCompose
<1>3. Closed(d, x) = n /\ q # "pending_capture"
  BY <1>0 DEF Closed
<1> HIDE DEF n, q
<1> QED BY <1>2, <1>3 DEF r, o

LEMMA CompensateDoes ==
  ASSUME Types, Names, NEW c \in Callers, Compensate(c)
  PROVE  \E s, r, o : /\ Does(db', db, me[c], s, r, o)
                      /\ r \in Nat /\ o \in Nat /\ r <= db.reserved /\ o <= db.open
                      /\ s = "pending_capture" =>
                           deployment # "memory" /\ db.purchases[me[c].p] = "pending_capture"
<1> DEFINE x == me[c]
           p == db.purchases[x.p]
           Ends(n) == \E s, r, o : /\ Does(n, db, x, s, r, o)
                                   /\ r \in Nat /\ o \in Nat /\ r <= db.reserved /\ o <= db.open
                                   /\ s = "pending_capture" =>
                                        deployment # "memory" /\ p = "pending_capture"
<1>0. Call(x) /\ db \in Stores /\ db.reserved \in Nat /\ db.open \in Nat /\ Sound(db, x)
  BY DEF Types, Names, Compensate, At, Call, Stores, Sound
<1>1. PICK released \in BOOLEAN :
       LET d == Closed(IF released THEN GivenBack(db, x) ELSE db, x)
           retry == IF released \/ ~Reservation(c) THEN Failed(db, d)
                    ELSE GivenBack(Failed(db, d), x)
       IN  db' \in {append(d, "escalation.expired", x.p), retry}
  BY DEF Compensate
<1> DEFINE base == IF released THEN GivenBack(db, x) ELSE db
           d == Closed(base, x)
           f == Failed(db, d)
<1> HIDE DEF x
<1>2. PICK r \in Nat, o \in Nat : /\ Does(base, db, x, p, r, o)
                                  /\ r <= db.reserved /\ o <= db.open
  <2>1. Does(db, db, x, p, db.reserved, db.open)
    BY <1>0, SameDoes
  <2>2. \E r, o \in Nat : Does(GivenBack(db, x), db, x, p, r, o) /\ r <= db.reserved /\ o <= db.open
    BY <1>0, GivenBackDoes
  <2> QED BY <1>0, <2>1, <2>2
<1> HIDE DEF base, p
<1>3. base \in Stores /\ base.reserved = r /\ base.open = o
  BY <1>2, DoesFields
<1>4. PICK s : Does(d, base, x, s, r, o) /\ s # "pending_capture"
  BY <1>0, <1>3, ClosedDoes
<1> HIDE DEF d
<1>5. Does(d, db, x, s, r, o)
  BY <1>0, <1>2, <1>4, DoesCompose
<1>6. d \in Stores /\ d.purchases[x.p] = s /\ d.reserved = r /\ d.open = o /\ Sound(d, x)
  BY <1>0, <1>5, DoesFields, SoundStays DEF Does
<1>7. Ends(append(d, "escalation.expired", x.p))
  <2> DEFINE n == append(d, "escalation.expired", x.p)
  <2>1. "escalation.expired" \in EventTypes
    BY DEF EventTypes
  <2>2. Does(n, d, x, s, r, o)
    BY <1>0, <1>6, <2>1, AppendDoes
  <2> HIDE DEF n
  <2>3. Does(n, db, x, s, r, o)
    BY <1>0, <1>5, <2>2, DoesCompose
  <2> QED BY <1>2, <1>4, <2>3 DEF n
<1>8. \E s2, r2, o2 : /\ Does(f, db, x, s2, r2, o2)
                      /\ r2 \in Nat /\ o2 \in Nat /\ r2 <= db.reserved /\ o2 <= db.open
                      /\ s2 = "pending_capture" => deployment # "memory" /\ p = "pending_capture"
  <2>1. CASE deployment = "memory"
    BY <1>2, <1>4, <1>5, <2>1, FailedIs
  <2>2. CASE deployment # "memory"
    <3>1. Does(db, db, x, p, db.reserved, db.open)
      BY <1>0, SameDoes DEF p
    <3> QED BY <1>0, <2>2, <3>1, FailedIs
  <2> QED BY <2>1, <2>2
<1>9. PICK s2, r2, o2 : /\ Does(f, db, x, s2, r2, o2)
                        /\ r2 \in Nat /\ o2 \in Nat /\ r2 <= db.reserved /\ o2 <= db.open
                        /\ s2 = "pending_capture" => deployment # "memory" /\ p = "pending_capture"
  BY <1>8
<1> HIDE DEF f
<1>10. Ends(f)
  BY <1>9
<1>11. Ends(GivenBack(f, x))
  <2> DEFINE n == GivenBack(f, x)
  <2>1. f \in Stores /\ f.purchases[x.p] = s2 /\ f.reserved = r2 /\ f.open = o2 /\ Sound(f, x)
    BY <1>0, <1>9, DoesFields, SoundStays DEF Does
  <2>2. PICK r3, o3 \in Nat : Does(n, f, x, s2, r3, o3) /\ r3 <= r2 /\ o3 <= o2
    BY <1>0, <2>1, GivenBackDoes
  <2> HIDE DEF n
  <2>3. Does(n, db, x, s2, r3, o3)
    BY <1>0, <1>9, <2>2, DoesCompose
  <2>4. r3 <= db.reserved /\ o3 <= db.open
    BY <1>0, <1>9, <2>2
  <2> QED BY <1>9, <2>2, <2>3, <2>4 DEF n
<1>12. db' \in {append(d, "escalation.expired", x.p), f, GivenBack(f, x)}
  BY <1>1 DEF f, d, base, x
<1>13. Ends(db')
  <2> HIDE DEF Ends
  <2> QED BY <1>7, <1>10, <1>11, <1>12
<1> QED BY <1>13 DEF x, p

(* _expire_and_compensate: the purchase is closed, unless Postgres rolled   *)
(* that back; the hold is given back or left.                               *)
LEMMA CompensateEffect ==
  ASSUME Types, Names, Resolvers, NEW c \in Callers, Compensate(c), me[c].i \in Clean
  PROVE  LET i == me[c].i
         IN  \E p, e, h, r, o :
               /\ Effect(db', db, i, p, e, h, r, o)
               /\ \/ /\ p = "compensated" /\ e.status # "pending"
                     /\ e.level = db.escalations[i].level
                     /\ e.timeout_at = db.escalations[i].timeout_at
                     /\ db.escalations[i].status = None => e.status = None
                  \/ /\ deployment # "memory"
                     /\ p = db.purchases[i] /\ e = db.escalations[i]
               /\ \/ /\ h = db.held /\ r = db.reserved /\ o = db.open
                     /\ deployment = "memory" => ~(Reservation(c) /\ CanRelease(db, me[c]))
                  \/ /\ Reservation(c) /\ CanRelease(db, me[c])
                     /\ h = db.held \ {i} /\ r = db.reserved - Amount(i)
                     /\ o = IF db.open > 0 THEN db.open - 1 ELSE 0
<1> DEFINE i == me[c].i
           back == GivenBack(db, me[c])
           p0 == db.purchases[i]
           e0 == db.escalations[i]
           h1 == db.held \ {i}
           r1 == db.reserved - Amount(i)
           o1 == IF db.open > 0 THEN db.open - 1 ELSE 0
           Ends(n) == \E p, e, h, r, o :
               /\ Effect(n, db, i, p, e, h, r, o)
               /\ \/ /\ p = "compensated" /\ e.status # "pending"
                     /\ e.level = e0.level
                     /\ e.timeout_at = e0.timeout_at
                     /\ e0.status = None => e.status = None
                  \/ /\ deployment # "memory"
                     /\ p = p0 /\ e = e0
               /\ \/ /\ h = db.held /\ r = db.reserved /\ o = db.open
                     /\ deployment = "memory" => ~(Reservation(c) /\ CanRelease(db, me[c]))
                  \/ /\ Reservation(c) /\ CanRelease(db, me[c])
                     /\ h = h1 /\ r = r1 /\ o = o1
<1>0. i \in Intents /\ db \in Stores /\ p0 # None /\ me[c].p = i /\ Honest(db, i)
  <2>1. i \in Intents /\ db \in Stores /\ i \in Clean
    BY DEF Types, Compensate, At
  <2>2. Resolving(c, i)
    BY DEF Compensate, Resolving
  <2>3. me[c].p = i /\ Honest(db, i)
    BY <2>1 DEF Names, Paired, Clean, Honest, Compensate, At
  <2> QED BY <2>1, <2>2, <2>3, ServiceAssumption DEF Resolvers
<1>1. Effect(db, db, i, p0, e0, db.held, db.reserved, db.open)
  BY <1>0 DEF Effect, Stores
<1>2. CanRelease(db, me[c]) => Effect(back, db, i, p0, e0, h1, r1, o1)
  BY <1>0, GivenBackEffect
<1>3. PICK released \in BOOLEAN :
       /\ released => Reservation(c) /\ CanRelease(db, me[c])
       /\ ~released => ~(Reservation(c) /\ CanRelease(db, me[c])) \/ Contended(c)
       /\ LET d == Closed(IF released THEN GivenBack(db, me[c]) ELSE db, me[c])
              retry == IF released \/ ~Reservation(c) THEN Failed(db, d)
                       ELSE GivenBack(Failed(db, d), me[c])
          IN  db' \in {append(d, "escalation.expired", i), retry}
  BY <1>0 DEF Compensate
<1>4. CASE released
  <2> DEFINE d == Closed(back, me[c])
  <2>1. Reservation(c) /\ CanRelease(db, me[c])
    BY <1>3, <1>4
  <2>2. db' \in {d, append(d, "escalation.expired", i)} \/ (deployment # "memory" /\ db' = db)
    <3>1. db' \in {append(d, "escalation.expired", i), Failed(db, d)}
      BY <1>3, <1>4
    <3> HIDE DEF d
    <3> QED BY <3>1, FailedIs
  <2>3. CASE db' \in {d, append(d, "escalation.expired", i)}
    <3>1. \E e : /\ Effect(db', db, i, "compensated", e, h1, r1, o1)
                 /\ e.status # "pending" /\ e.level = e0.level
                 /\ e.timeout_at = e0.timeout_at
                 /\ e0.status = None => e.status = None
      <4> HIDE DEF back, h1, r1, o1
      <4> QED BY <1>0, <1>2, <2>1, <2>3, ClosedAfter
    <3> HIDE DEF h1, r1, o1, e0, i
    <3>2. Ends(db')
      BY <2>1, <3>1
    <3> QED BY <3>2 DEF h1, r1, o1, e0, i
  <2>4. CASE deployment # "memory" /\ db' = db
    <3> HIDE DEF h1, r1, o1, e0, p0, i
    <3>1. Ends(db')
      BY <2>4, <1>1
    <3> QED BY <3>1 DEF h1, r1, o1, e0, p0, i
  <2> QED BY <2>2, <2>3, <2>4
<1>5. CASE ~released
  <2> DEFINE d == Closed(db, me[c])
  <2>0. deployment = "memory" => ~(Reservation(c) /\ CanRelease(db, me[c]))
    BY <1>3, <1>5 DEF Contended
  <2>1. db' \in {append(d, "escalation.expired", i),
                 IF ~Reservation(c) THEN Failed(db, d) ELSE GivenBack(Failed(db, d), me[c])}
    BY <1>3, <1>5
  <2>2. \E e : /\ Effect(d, db, i, "compensated", e, db.held, db.reserved, db.open)
               /\ e.status # "pending" /\ e.level = e0.level
               /\ e.timeout_at = e0.timeout_at
               /\ e0.status = None => e.status = None
    BY <1>0, ClosedEffect
  <2>3. deployment = "memory" /\ Reservation(c) => GivenBack(d, me[c]) = d
    <3>1. SUFFICES ASSUME deployment = "memory", Reservation(c) PROVE ~CanRelease(d, me[c])
      <4>1. d \in Stores /\ Honest(d, i)
        BY <2>2 DEF Effect
      <4> HIDE DEF d
      <4> QED BY <1>0, <3>1, <4>1, GivenBackEffect
    <3>2. d.held = db.held /\ d.reserved = db.reserved /\ Honest(d, i)
      BY <2>2 DEF Effect
    <3>3. ~CanRelease(db, me[c])
      BY <2>0, <3>1
    <3> HIDE DEF d
    <3> QED BY <1>0, <3>1, <3>2, <3>3, OwnMoney
  <2>4. \/ db' \in {d, append(d, "escalation.expired", i)}
        \/ deployment # "memory" /\ db' = db
        \/ deployment # "memory" /\ Reservation(c) /\ db' = back
    <3> HIDE DEF d
    <3>1. CASE db' = append(d, "escalation.expired", i)
      BY <3>1
    <3>2. CASE ~Reservation(c) /\ db' = Failed(db, d)
      BY <3>2, FailedIs
    <3>3. CASE Reservation(c) /\ db' = GivenBack(Failed(db, d), me[c])
      BY <3>3, <2>3, FailedIs
    <3> QED BY <2>1, <3>1, <3>2, <3>3
  <2>5. CASE db' \in {d, append(d, "escalation.expired", i)}
    <3>1. \E e : /\ Effect(db', db, i, "compensated", e, db.held, db.reserved, db.open)
                 /\ e.status # "pending" /\ e.level = e0.level
                 /\ e.timeout_at = e0.timeout_at
                 /\ e0.status = None => e.status = None
      BY <1>0, <1>1, <2>5, ClosedAfter
    <3> HIDE DEF h1, r1, o1, e0, i
    <3>2. Ends(db')
      BY <2>0, <3>1
    <3> QED BY <3>2 DEF h1, r1, o1, e0, i
  <2>6. CASE deployment # "memory" /\ db' = db
    <3> HIDE DEF h1, r1, o1, e0, p0, i
    <3>1. Ends(db')
      BY <2>6, <1>1
    <3> QED BY <3>1 DEF h1, r1, o1, e0, p0, i
  <2>7. CASE deployment # "memory" /\ Reservation(c) /\ db' = back
    <3>1. CASE CanRelease(db, me[c])
      <4>1. Effect(db', db, i, p0, e0, h1, r1, o1)
        BY <1>2, <2>7, <3>1
      <4> HIDE DEF h1, r1, o1, e0, p0, i
      <4>2. Ends(db')
        BY <2>7, <3>1, <4>1
      <4> QED BY <4>2 DEF h1, r1, o1, e0, p0, i
    <3>2. CASE ~CanRelease(db, me[c])
      <4>1. db' = db
        BY <1>0, <2>7, <3>2, GivenBackEffect
      <4> HIDE DEF h1, r1, o1, e0, p0, i
      <4>2. Ends(db')
        BY <2>7, <4>1, <1>1
      <4> QED BY <4>2 DEF h1, r1, o1, e0, p0, i
    <3> QED BY <3>1, <3>2
  <2> QED BY <2>4, <2>5, <2>6, <2>7
<1> QED BY <1>4, <1>5

----------------------------------------------------------------------------
(* Every step keeps the invariant *)

LEMMA LocalsMove ==
  ASSUME Types, NEW c \in Callers, NEW q \in Locals, me' = [me EXCEPT ![c] = q]
  PROVE  /\ me' \in [Callers -> Locals] /\ me'[c] = q
         /\ \A o \in Callers : o # c => me'[o] = me[o]
BY DEF Types

(* The locals of a call that has just started.                              *)
Started(l, i, p, t) == [Idle EXCEPT !.pc = l, !.i = i, !.p = p, !.at = t]

LEMMA StartedLocals ==
  ASSUME NEW l \in PC, NEW i \in Intents, NEW p \in Intents, NEW t \in 0..MaxTime
  PROVE  /\ Started(l, i, p, t) \in Locals /\ Started(l, i, p, t).pc = l
         /\ Started(l, i, p, t).i = i /\ Started(l, i, p, t).p = p
<1>1. Approved \in Decision
  BY ServiceAssumption DEF Approved, Decision, Reasons, Verdicts, Levels
<1> QED BY <1>1 DEF Locals, Started, Idle

LEMMA IdleLocals == Idle \in Locals /\ Idle.pc = "idle"
<1>1. Approved \in Decision /\ 0 \in 0..MaxTime /\ "idle" \in PC
  BY ServiceAssumption DEF Approved, Decision, Reasons, Verdicts, Levels, PC
<1> QED BY <1>1 DEF Idle, Locals

(* A call under an id of its own, or none of it is clean.                   *)
LEMMA WhoseCall ==
  ASSUME Types, Names, NEW c \in Callers, ~At(c, "idle")
  PROVE  /\ me[c].i \in Intents /\ me[c].p \in Intents /\ Call(me[c])
         /\ Paired(me[c].i, me[c].p) /\ db \in Stores /\ Sound(db, me[c])
         /\ me[c].i \in Clean => me[c].p = me[c].i /\ Honest(db, me[c].i)
         /\ me[c].i \notin Clean => me[c].i \in shared /\ me[c].p \in shared
BY DEF Types, Names, Paired, Clean, Call, Sound, Honest

(* The names after a step that leaves the stores as they are.               *)
LEMMA NamesStay ==
  ASSUME Names, db' = db, shared \subseteq shared',
         \A o \in Callers : ~At(o, "idle")' => Paired(me[o].i, me[o].p)'
  PROVE  Names'
<1>1. /\ \A i \in Intents : db'.escalations[i].status # None =>
           db'.escalations[i].p \in Intents /\ Paired(i, db.escalations[i].p)'
      /\ \A p \in Intents : db'.owner[p] # None => Paired(db.owner[p], p)'
      /\ \A p \in db'.held : db'.holder[p] \in Intents /\ Paired(db.holder[p], p)'
  BY DEF Names, Paired
<1> QED BY <1>1 DEF Names

(* The names after what a call wrote.                                       *)
LEMMA NamesTouched ==
  ASSUME Types, Names, NEW c \in Callers, ~At(c, "idle"), Touch(db', db, me[c]), shared' = shared,
         \A o \in Callers : o # c => me'[o] = me[o],
         me'[c].pc = "idle" \/ (me'[c].i = me[c].i /\ me'[c].p = me[c].p)
  PROVE  Names'
<1> DEFINE x == me[c]
<1>0. x.i \in Intents /\ x.p \in Intents /\ Paired(x.i, x.p)
  BY WhoseCall
<1>2. \A o \in Callers : ~At(o, "idle")' => Paired(me[o].i, me[o].p)'
  BY <1>0 DEF Names, At, Paired
<1>3. \A i \in Intents : db'.escalations[i].status # None =>
        db'.escalations[i].p \in Intents /\ Paired(i, db'.escalations[i].p)
  <2>1. SUFFICES ASSUME NEW i \in Intents, db'.escalations[i].status # None
                 PROVE  db'.escalations[i].p \in Intents /\ Paired(i, db'.escalations[i].p)
    OBVIOUS
  <2>2. CASE i = x.i
    BY <1>0, <2>1, <2>2 DEF Touch, Names
  <2>3. CASE i # x.i
    BY <2>1, <2>3 DEF Touch, Names
  <2> QED BY <2>2, <2>3
<1>4. \A p \in Intents : db'.purchases[p] = None <=> db'.owner[p] = None
  BY <1>0 DEF Touch, Names
<1>5. \A p \in Intents : db'.owner[p] # None => Paired(db'.owner[p], p)
  BY <1>0 DEF Touch, Names
<1>6. \A p \in db'.held : db'.holder[p] \in Intents /\ Paired(db'.holder[p], p)
  <2>1. db'.held \subseteq Intents
    BY DEF Touch, Stores
  <2> QED BY <1>0, <2>1 DEF Touch, Names
<1> QED BY <1>2, <1>3, <1>4, <1>5, <1>6 DEF Names, Paired

(* A step of a call whose intent or id is shared: of the parts about clean  *)
(* intents it disturbs none.                                                *)
LEMMA ForeignStep ==
  ASSUME IInv, NEW c \in Callers, Types', shared \subseteq shared', shared' # {},
         \A o \in Callers : o # c => me'[o] = me[o],
         me[c].pc = "idle" \/ me[c].i \in shared',
         me'[c].pc = "idle" \/ me'[c].i \in shared',
         mandate' = mandate, deployment' = deployment, verified \subseteq verified',
         \A j \in Intents : j \notin shared' =>
           /\ keys'[j] = keys[j] /\ db'.purchases[j] = db.purchases[j]
           /\ db'.escalations[j] = db.escalations[j] /\ (j \in db'.held <=> j \in db.held)
           /\ (j \in told' => j \in told) /\ (j \in duelled' <=> j \in duelled)
  PROVE  Agreement' /\ Resolvers' /\ FreeKeys' /\ GrantsHold' /\ Books' /\ StepUps'
<1>0. /\ Types /\ Agreement /\ Resolvers /\ FreeKeys /\ GrantsHold /\ StepUps
  BY DEF IInv
<1>1. /\ \A j \in Clean' : /\ j \in Clean /\ j \in Intents /\ keys'[j] = keys[j]
                           /\ db'.purchases[j] = db.purchases[j]
                           /\ db'.escalations[j] = db.escalations[j]
                           /\ (j \in db'.held <=> j \in db.held)
                           /\ (j \in told' => j \in told) /\ (j \in duelled' <=> j \in duelled)
      /\ \A o \in Callers, j \in Clean' :
           o = c => /\ me[o].i = j => me[o].pc = "idle"
                    /\ me'[o].i = j => me'[o].pc = "idle"
  BY DEF Clean
<1>2. \A o \in Callers, j \in Clean' : (Resolving(o, j)' <=> o # c /\ Resolving(o, j))
                                      /\ (Resolving(o, j) => o # c)
  BY <1>1 DEF Resolving, At
<1>3. Agreement'
  <2>1. \A o \in Callers : At(o, "apply")' /\ me'[o].i \in Clean' =>
          At(o, "apply") /\ me'[o].i = me[o].i
    BY <1>1 DEF At
  <2> QED BY <1>0, <1>1, <2>1 DEF Agreement
<1>4. Resolvers'
  <2>1. \A o \in Callers : o # c => (At(o, "compensate")' <=> At(o, "compensate")) /\ me'[o].rid = me[o].rid
    BY DEF At
  <2> QED BY <1>0, <1>1, <1>2, <2>1 DEF Resolvers
<1>5. FreeKeys'
  <2>1. \A j \in Clean' : FreeKey(j)' => FreeKey(j)
    BY <1>1 DEF FreeKey, At
  <2>2. \A o \in Callers, j \in Clean' : me'[o].i = j /\ At(o, "commit")' => me[o].i = j /\ At(o, "commit")
    BY <1>1 DEF At
  <2> QED BY <1>0, <1>1, <1>2, <2>1, <2>2 DEF FreeKeys
<1>6. GrantsHold'
  <2>1. \A j \in Clean' : Granted(j)' => Granted(j)
    BY <1>1 DEF Granted, At
  <2> QED BY <1>0, <1>1, <1>2, <2>1 DEF GrantsHold
<1>7. Books'
  BY DEF Books
<1>8. StepUps'
  <2>1. \A a : AtAmountThreshold(mandate, a)' <=> AtAmountThreshold(mandate, a)
    BY DEF AtAmountThreshold
  <2>2. \A j : Amount(j)' = Amount(j)
    BY DEF Amount
  <2>3. \A j \in Clean' : AtAmountThreshold(mandate, Amount(j)) =>
          /\ db'.escalations[j].status # None => db'.escalations[j].level = "L3+"
          /\ j \in Live' => j \in verified'
    BY <1>0, <1>1 DEF StepUps, Live
  <2>4. \A o \in Callers : ~At(o, "idle")' /\ me'[o].i \in Clean' =>
          o # c /\ ~At(o, "idle") /\ me'[o] = me[o] /\ me[o].i \in Clean
    BY <1>1 DEF At
  <2>5. \A o \in Callers :
          ~At(o, "idle")' /\ me'[o].i \in Clean' /\ AtAmountThreshold(mandate, Amount(me'[o].i)) =>
          /\ At(o, "apply")' => me'[o].dec.verdict # "APPROVED"
          /\ At(o, "apply")' /\ me'[o].dec.verdict = "ESCALATED" => me'[o].dec.level = "L3+"
          /\ At(o, "commit")' => me'[o].i \in verified'
    BY <1>0, <2>4 DEF StepUps, At
  <2> QED BY <2>3, <2>5 DEF StepUps, AtAmountThreshold, Amount
<1> QED BY <1>3, <1>4, <1>5, <1>6, <1>7, <1>8

LEMMA AnnouncedStays ==
  ASSUME Announced, UNCHANGED <<deployment, db>>,
         \A o \in Callers : me[o].pc = "compensate" => me'[o].pc = "compensate" /\ me'[o].p = me[o].p
  PROVE  Announced'
<1>1. Live' = Live
  BY DEF Live
<1>2. SUFFICES ASSUME NEW p \in Live, <<"purchase.verified", p>> \notin db.outbox
               PROVE  deployment' = "memory" /\ \E o \in Callers : At(o, "compensate")' /\ me'[o].p = p
  BY <1>1 DEF Announced
<1>3. deployment = "memory" /\ \E o \in Callers : At(o, "compensate") /\ me[o].p = p
  BY <1>2 DEF Announced
<1> QED BY <1>3 DEF At

LEMMA ClaimStep ==
  ASSUME IInv, NEW c \in Callers, NEW i \in Intents, NEW p \in PurchaseIds[i], NEW r \in Requests, Claim(c, i, p, r)
  PROVE  IInv'
<1> DEFINE q == Started("decide", i, p, now)
<1>0. /\ Types /\ Names /\ OneAtATime /\ ClaimIsExclusive /\ Agreement /\ Resolvers
      /\ FreeKeys /\ GrantsHold /\ Books /\ GateStillHolds /\ StepUps /\ Announced
      /\ WithinBudget
  BY DEF IInv
<1>p. p \in Intents
  BY ServiceAssumption
<1>1. /\ q \in Locals /\ q.pc = "decide" /\ q.i = i /\ q.p = p
  <2>1. "decide" \in PC /\ now \in 0..MaxTime
    BY <1>0 DEF Types, PC
  <2> QED BY <2>1, <1>p, StartedLocals
<1>2. UNCHANGED <<deployment, now, mandate, offers, db, verified, told, duelled>>
  BY DEF Claim, world
<1>3. me' = [me EXCEPT ![c] = q] /\ me[c].pc = "idle" /\ keys[i] = NoKey
      /\ (deployment = "memory" => \A o \in Callers : me[o].pc = "idle")
  BY DEF Claim, MayStart, At, Quiet, OwnsClaim, Started
<1>s. shared' = IF p = i THEN shared ELSE shared \cup {i, p}
  BY DEF Claim
<1> HIDE DEF q
<1>4. /\ me' \in [Callers -> Locals] /\ me'[c] = q
      /\ \A o \in Callers : o # c => me'[o] = me[o]
  BY <1>0, <1>1, <1>3, LocalsMove
<1>5. /\ keys' \in Keys /\ keys'[i].request # None /\ keys'[i].response = None
      /\ \A j \in Intents : j # i => keys'[j] = keys[j]
      /\ keys[i].request = None /\ keys[i].response = None
  BY <1>0, <1>3, ServiceAssumption DEF Claim, Types, Keys, NoKey
<1>6. Types'
  BY <1>0, <1>1, <1>2, <1>4, <1>5, <1>p, <1>s DEF Types, At
<1>6a. Names'
  <2>1. \A o \in Callers : ~At(o, "idle")' => Paired(me[o].i, me[o].p)'
    BY <1>0, <1>1, <1>4, <1>s DEF Names, Paired, At
  <2> QED BY <1>0, <1>2, <1>s, <2>1, NamesStay
<1>7. OneAtATime'
  BY <1>0, <1>2, <1>3, <1>4 DEF OneAtATime, At
<1>8. ClaimIsExclusive'
  BY <1>0, <1>1, <1>3, <1>4, <1>5 DEF ClaimIsExclusive, Verifying, At
<1>9. GateStillHolds' /\ WithinBudget'
  BY <1>0, <1>1, <1>2, <1>3, <1>4 DEF GateStillHolds, Buying, At, WithinBudget
<1>10. Announced'
  BY <1>0, <1>2, <1>3, <1>4, AnnouncedStays
<1>11. CASE p = i
  <2>1. shared' = shared /\ Clean' = Clean
    BY <1>11, <1>s DEF Clean
  <2>2. Agreement' /\ Resolvers'
    BY <1>0, <1>1, <1>2, <1>3, <1>4, <2>1 DEF Agreement, Resolvers, Resolving, At
  <2>r. \A o \in Callers, j \in Intents :
          /\ (Resolving(o, j)' <=> Resolving(o, j))
          /\ (me'[o].i = j /\ At(o, "commit")' => me[o].i = j /\ At(o, "commit"))
    BY <1>1, <1>3, <1>4 DEF Resolving, At
  <2>3. FreeKeys'
    <3>1. \A j \in Intents : FreeKey(j)' => FreeKey(j)
      BY <1>1, <1>3, <1>4, <1>5 DEF FreeKey, At
    <3> QED BY <1>0, <1>2, <2>1, <2>r, <3>1 DEF FreeKeys, Clean
  <2>4. GrantsHold'
    <3>1. \A j \in Intents : Granted(j)' => Granted(j)
      BY <1>1, <1>2, <1>3, <1>4, <1>5, ServiceAssumption DEF Granted, At
    <3> QED BY <1>0, <1>2, <2>1, <2>r, <3>1 DEF GrantsHold, Clean
  <2>5. Books'
    BY <1>0, <1>2, <2>1 DEF Books, Live
  <2>6. StepUps'
    BY <1>0, <1>1, <1>2, <1>3, <1>4, <2>1 DEF StepUps, Live, At
  <2> QED BY <1>6, <1>6a, <1>7, <1>8, <1>9, <1>10, <2>2, <2>3, <2>4, <2>5, <2>6 DEF IInv
<1>12. CASE p # i
  <2>1. /\ shared \subseteq shared' /\ shared' # {} /\ i \in shared'
        /\ \A j \in Intents : j \notin shared' => j # i
    BY <1>12, <1>s
  <2>2. Agreement' /\ Resolvers' /\ FreeKeys' /\ GrantsHold' /\ Books' /\ StepUps'
    BY <1>1, <1>2, <1>3, <1>4, <1>5, <1>6, <2>1, ForeignStep
  <2> QED BY <1>6, <1>6a, <1>7, <1>8, <1>9, <1>10, <2>2 DEF IInv
<1> QED BY <1>11, <1>12

(* Steps that only move the clock, the catalogue or the books of who was    *)
(* told what.                                                               *)
LEMMA HistoryStep ==
  ASSUME IInv, UNCHANGED <<deployment, mandate, db, keys, me, verified, shared, duelled>>,
         now' \in 0..MaxTime, told' \subseteq Intents,
         \A i \in Intents : i \in told' => i \in told \/ keys[i].response = "APPROVED"
  PROVE  IInv'
<1>0. /\ Types /\ Names /\ OneAtATime /\ ClaimIsExclusive /\ Agreement /\ Resolvers
      /\ FreeKeys /\ GrantsHold /\ Books /\ GateStillHolds /\ StepUps /\ Announced
      /\ WithinBudget
  BY DEF IInv
<1>a. Clean' = Clean
  BY DEF Clean
<1>1. Types' /\ Names' /\ OneAtATime' /\ ClaimIsExclusive' /\ Agreement'
  BY <1>0, <1>a DEF Types, Names, Paired, OneAtATime, ClaimIsExclusive, Agreement, Verifying, At
<1>2. Resolvers' /\ FreeKeys'
  BY <1>0, <1>a DEF Resolvers, FreeKeys, FreeKey, Resolving, At
<1>3. GrantsHold'
  BY <1>0, <1>a DEF GrantsHold, Granted, Resolving, At, Clean
<1>4. Books' /\ GateStillHolds' /\ StepUps' /\ Announced' /\ WithinBudget'
  BY <1>0, <1>a DEF Books, GateStillHolds, Buying, StepUps, Announced, WithinBudget, Live, At
<1> QED BY <1>1, <1>2, <1>3, <1>4 DEF IInv

LEMMA SetStatusStep ==
  ASSUME IInv, NEW st \in Statuses, SetStatus(st)
  PROVE  IInv'
<1>0. /\ Types /\ Names /\ OneAtATime /\ ClaimIsExclusive /\ Agreement /\ Resolvers
      /\ FreeKeys /\ GrantsHold /\ Books /\ GateStillHolds /\ StepUps /\ Announced
      /\ WithinBudget
  BY DEF IInv
<1>1. /\ mandate' \in MandateClaims /\ mandate'.max_per_txn = mandate.max_per_txn
      /\ mandate'.total_budget = mandate.total_budget
  BY <1>0, ServiceAssumption DEF SetStatus, Types, MandateClaims
<1>2. UNCHANGED <<deployment, now, db, keys, me, verified, told, shared, duelled>>
  BY DEF SetStatus, history
<1>3. deployment = "memory" => \A o \in Callers : me[o].pc = "idle"
  BY DEF SetStatus, Quiet, At
<1>4. \A a : AtAmountThreshold(mandate, a)' <=> AtAmountThreshold(mandate, a)
  BY <1>1 DEF AtAmountThreshold
<1>a. Clean' = Clean
  BY <1>2 DEF Clean
<1>5. Types' /\ Names' /\ OneAtATime' /\ ClaimIsExclusive' /\ Agreement'
  BY <1>0, <1>1, <1>2, <1>a DEF Types, Names, Paired, OneAtATime, ClaimIsExclusive, Agreement, Verifying, At
<1>6. Resolvers' /\ FreeKeys' /\ GrantsHold'
  BY <1>0, <1>2, <1>a DEF Resolvers, FreeKeys, FreeKey, GrantsHold, Granted, Resolving, At
<1>7. Books' /\ Announced' /\ WithinBudget'
  BY <1>0, <1>1, <1>2 DEF Books, Announced, WithinBudget, Live, At
<1>8. GateStillHolds'
  BY <1>0, <1>2, <1>3 DEF GateStillHolds, Buying, At
<1>9. StepUps'
  BY <1>0, <1>1, <1>2, <1>a DEF StepUps, Live, At, AtAmountThreshold
<1> QED BY <1>5, <1>6, <1>7, <1>8, <1>9 DEF IInv

LEMMA LocalsAnswer ==
  ASSUME Types, NEW c \in Callers, NEW l \in PC, NEW v \in Verdicts,
         me' = [me EXCEPT ![c].pc = l, ![c].dec.verdict = v]
  PROVE  /\ me' \in [Callers -> Locals]
         /\ me'[c].pc = l /\ me'[c].i = me[c].i /\ me'[c].p = me[c].p
         /\ me'[c].dec.verdict = v
         /\ \A o \in Callers : o # c => me'[o] = me[o]
<1> DEFINE x == [me[c].dec EXCEPT !.verdict = v]
           q == [me[c] EXCEPT !.pc = l, !.dec = x]
<1>1. me[c] \in Locals /\ me[c].dec \in Decision
  BY DEF Types, Locals
<1>2. x \in Decision /\ x.verdict = v
  BY <1>1 DEF Decision
<1>3. me' = [me EXCEPT ![c] = q]
  BY <1>1 DEF Locals, Types
<1> HIDE DEF x
<1>4. q \in Locals /\ q.pc = l /\ q.i = me[c].i /\ q.p = me[c].p /\ q.dec = x
  BY <1>1, <1>2 DEF Locals
<1> HIDE DEF q
<1> QED BY <1>2, <1>3, <1>4, LocalsMove

LEMMA LocalsDecide ==
  ASSUME Types, NEW c \in Callers, NEW l \in PC, NEW d \in Decision,
         me' = [me EXCEPT ![c].pc = l, ![c].dec = d]
  PROVE  /\ me' \in [Callers -> Locals]
         /\ me'[c].pc = l /\ me'[c].i = me[c].i /\ me'[c].p = me[c].p /\ me'[c].dec = d
         /\ \A o \in Callers : o # c => me'[o] = me[o]
<1> DEFINE q == [me[c] EXCEPT !.pc = l, !.dec = d]
<1>1. me[c] \in Locals
  BY DEF Types
<1>2. me' = [me EXCEPT ![c] = q]
  BY <1>1 DEF Locals, Types
<1>3. q \in Locals /\ q.pc = l /\ q.i = me[c].i /\ q.p = me[c].p /\ q.dec = d
  BY <1>1 DEF Locals
<1> HIDE DEF q
<1> QED BY <1>2, <1>3, LocalsMove

(* A purchase that exists is answered as it stands.                         *)
LEMMA DecideExisting ==
  ASSUME IInv, NEW c \in Callers, Decide(c), NEW row \in RowsOf(me[c].i),
         me' = [me EXCEPT ![c].pc = "finish",
                          ![c].dec.verdict = result_for_existing_purchase(db.purchases[row])]
  PROVE  IInv'
<1>0. /\ Types /\ Names /\ OneAtATime /\ ClaimIsExclusive /\ Agreement /\ Resolvers
      /\ FreeKeys /\ GrantsHold /\ Books /\ GateStillHolds /\ StepUps /\ Announced
      /\ WithinBudget
  BY DEF IInv
<1> DEFINE i == me[c].i
           v == result_for_existing_purchase(db.purchases[row])
<1>1. i \in Intents /\ me[c].pc = "decide"
  BY <1>0 DEF Decide, Types, At
<1>2. v \in Verdicts /\ (v = "APPROVED" /\ i \in Clean => db.purchases[i] = "pending_capture")
  <2>1. i \in Clean => row = i
    BY <1>0, <1>1, ServiceAssumption DEF RowsOf, Names, Paired, Clean
  <2> QED BY <2>1 DEF result_for_existing_purchase, Verdicts
<1>3. UNCHANGED <<deployment, now, mandate, offers, db, keys, verified, told, shared, duelled>>
  BY DEF Decide, world, history
<1>4. me' = [me EXCEPT ![c].pc = "finish", ![c].dec.verdict = v]
  OBVIOUS
<1>c. Clean' = Clean
  BY <1>3 DEF Clean
<1> HIDE DEF v
<1>5. /\ me' \in [Callers -> Locals]
      /\ me'[c].pc = "finish" /\ me'[c].i = i /\ me'[c].p = me[c].p /\ me'[c].dec.verdict = v
      /\ \A o \in Callers : o # c => me'[o] = me[o]
  BY <1>0, <1>2, <1>4, LocalsAnswer DEF PC
<1> HIDE DEF i
<1>6. Types' /\ OneAtATime'
  BY <1>0, <1>1, <1>3, <1>5 DEF Types, OneAtATime, At, i
<1>7. ClaimIsExclusive'
  BY <1>0, <1>1, <1>3, <1>5 DEF ClaimIsExclusive, Verifying, At, i
<1>6a. Names'
  <2>1. \A o \in Callers : ~At(o, "idle")' => Paired(me[o].i, me[o].p)'
    BY <1>0, <1>1, <1>3, <1>5 DEF Names, Paired, At, i
  <2> QED BY <1>0, <1>3, <2>1, NamesStay
<1>8. Agreement' /\ Resolvers'
  BY <1>0, <1>1, <1>3, <1>5, <1>c DEF Agreement, Resolvers, Resolving, At, i
<1>9. FreeKeys'
  BY <1>0, <1>1, <1>3, <1>5, <1>c DEF FreeKeys, FreeKey, Resolving, At, i
<1>10. GrantsHold'
  <2>1. FreeKey(i)
    BY <1>1 DEF FreeKey, At, i
  <2>2. v = "APPROVED" /\ i \in Clean => \A o \in Callers : ~Resolving(o, i)
    BY <1>0, <1>1, <1>2, <2>1 DEF FreeKeys
  <2> QED BY <1>0, <1>1, <1>2, <1>3, <1>5, <1>c, <2>2 DEF GrantsHold, Granted, Resolving, At, i
<1>11. Books' /\ WithinBudget'
  BY <1>0, <1>3 DEF Books, Live, WithinBudget
<1>12. GateStillHolds' /\ StepUps'
  BY <1>0, <1>1, <1>3, <1>5, <1>c DEF GateStillHolds, Buying, StepUps, Live, At, i
<1>13. Announced'
  BY <1>0, <1>1, <1>3, <1>5, AnnouncedStays
<1> QED BY <1>6, <1>6a, <1>7, <1>8, <1>9, <1>10, <1>11, <1>12, <1>13 DEF IInv

(* A new one is decided by the gate.                                        *)
LEMMA DecideNew ==
  ASSUME IInv, NEW c \in Callers, Decide(c), RowsOf(me[c].i) = {},
         me' = [me EXCEPT ![c].pc = "apply", ![c].dec = Evaluate(me[c].i, me[c].at, FALSE)]
  PROVE  IInv'
<1>0. /\ Types /\ Names /\ OneAtATime /\ ClaimIsExclusive /\ Agreement /\ Resolvers
      /\ FreeKeys /\ GrantsHold /\ Books /\ GateStillHolds /\ StepUps /\ Announced
      /\ WithinBudget
  BY DEF IInv
<1> DEFINE i == me[c].i
           d == Evaluate(i, me[c].at, FALSE)
<1>1. i \in Intents /\ me[c].pc = "decide" /\ me[c].at \in 0..MaxTime
  BY <1>0 DEF Decide, Types, At, Locals
<1>2. /\ d \in Decision
      /\ d.verdict = "APPROVED" =>
           /\ mandate.status = "active" /\ db.open + 1 <= MaxOpen
           /\ ~AtAmountThreshold(mandate, Amount(i))
      /\ d.verdict = "ESCALATED" /\ AtAmountThreshold(mandate, Amount(i)) => d.level = "L3+"
  BY <1>0, <1>1, EvaluateAnswers
<1>3. UNCHANGED <<deployment, now, mandate, offers, db, keys, verified, told, shared, duelled>>
  BY DEF Decide, world, history
<1>4. me' = [me EXCEPT ![c].pc = "apply", ![c].dec = d]
  OBVIOUS
<1>c. Clean' = Clean
  BY <1>3 DEF Clean
<1> HIDE DEF d
<1>5. /\ me' \in [Callers -> Locals]
      /\ me'[c].pc = "apply" /\ me'[c].i = i /\ me'[c].p = me[c].p /\ me'[c].dec = d
      /\ \A o \in Callers : o # c => me'[o] = me[o]
  BY <1>0, <1>2, <1>4, LocalsDecide DEF PC
<1>a. i \in Clean => db.purchases[i] = None
  BY <1>0, <1>1, ServiceAssumption DEF RowsOf, Names, Paired, Clean
<1> HIDE DEF i
<1>6. Types' /\ OneAtATime'
  BY <1>0, <1>1, <1>3, <1>5 DEF Types, OneAtATime, At, i
<1>7. ClaimIsExclusive'
  BY <1>0, <1>1, <1>3, <1>5 DEF ClaimIsExclusive, Verifying, At, i
<1>6a. Names'
  <2>1. \A o \in Callers : ~At(o, "idle")' => Paired(me[o].i, me[o].p)'
    BY <1>0, <1>1, <1>3, <1>5 DEF Names, Paired, At, i
  <2> QED BY <1>0, <1>3, <2>1, NamesStay
<1>8. Agreement' /\ Resolvers'
  BY <1>0, <1>1, <1>3, <1>5, <1>a, <1>c DEF Agreement, Resolvers, Resolving, At, i
<1>9. FreeKeys' /\ GrantsHold'
  BY <1>0, <1>1, <1>3, <1>5, <1>c DEF FreeKeys, FreeKey, GrantsHold, Granted, Resolving, At, i
<1>11. Books' /\ WithinBudget'
  BY <1>0, <1>3 DEF Books, Live, WithinBudget
<1>12. GateStillHolds'
  BY <1>0, <1>1, <1>2, <1>3, <1>5 DEF GateStillHolds, Buying, At, i
<1>13. StepUps'
  BY <1>0, <1>1, <1>2, <1>3, <1>5, <1>c DEF StepUps, Live, At, i
<1>14. Announced'
  BY <1>0, <1>1, <1>3, <1>5, AnnouncedStays
<1> QED BY <1>6, <1>6a, <1>7, <1>8, <1>9, <1>11, <1>12, <1>13, <1>14 DEF IInv

LEMMA FinishStep ==
  ASSUME IInv, NEW c \in Callers, Finish(c)
  PROVE  IInv'
<1>0. /\ Types /\ Names /\ OneAtATime /\ ClaimIsExclusive /\ Agreement /\ Resolvers
      /\ FreeKeys /\ GrantsHold /\ Books /\ GateStillHolds /\ StepUps /\ Announced
      /\ WithinBudget
  BY DEF IInv
<1> DEFINE i == me[c].i
           v == me[c].dec.verdict
<1>1. i \in Intents /\ me[c].pc = "finish" /\ v \in Verdicts /\ Verifying(c, i)
  BY <1>0 DEF Finish, Types, At, Locals, Decision, Verifying
<1>2. UNCHANGED <<deployment, now, mandate, offers, db, verified, shared, duelled>>
  BY DEF Finish, world
<1>3. /\ me' \in [Callers -> Locals] /\ me'[c].pc = "idle"
      /\ \A o \in Callers : o # c => me'[o] = me[o]
  BY <1>0, IdleLocals, LocalsMove DEF Finish
<1>4. /\ keys' \in Keys /\ keys'[i].request # None /\ keys'[i].response = v
      /\ \A j \in Intents : j # i => keys'[j] = keys[j]
  <2>1. keys[i].request # None /\ keys[i].response = None
    BY <1>0, <1>1 DEF ClaimIsExclusive
  <2>2. keys' = [keys EXCEPT ![i].response = IF keys[i].response = None THEN v ELSE keys[i].response]
    BY <1>0, <1>1 DEF Finish, Types, Keys
  <2>3. keys' = [keys EXCEPT ![i].response = v]
    BY <2>1, <2>2
  <2> HIDE DEF v, i
  <2> QED BY <2>1, <2>3, <1>0, <1>1 DEF Types, Keys
<1>5. told' \subseteq Intents /\ (\A j \in told' : j \in told \/ (j = i /\ v = "APPROVED"))
  BY <1>0, <1>1 DEF Finish, Types
<1>6. v = "APPROVED" => Granted(i)
  BY <1>1 DEF Granted, At
<1> HIDE DEF i, v
<1>7. Types' /\ OneAtATime'
  BY <1>0, <1>2, <1>3, <1>4, <1>5 DEF Types, OneAtATime, At
<1>8. ClaimIsExclusive'
  <2>1. \A o \in Callers : Verifying(o, i) => o = c
    BY <1>0, <1>1 DEF ClaimIsExclusive
  <2> QED BY <1>0, <1>1, <1>3, <1>4, <2>1 DEF ClaimIsExclusive, Verifying, At
<1>c. Clean' = Clean
  BY <1>2 DEF Clean
<1>8a. Names'
  <2>1. \A o \in Callers : ~At(o, "idle")' => Paired(me[o].i, me[o].p)'
    BY <1>0, <1>1, <1>2, <1>3 DEF Names, Paired, At
  <2> QED BY <1>0, <1>2, <2>1, NamesStay
<1>9. Agreement' /\ Resolvers'
  BY <1>0, <1>2, <1>3, <1>c DEF Agreement, Resolvers, Resolving, At
<1>10. FreeKeys'
  <2>1. \A j \in Intents : FreeKey(j)' => FreeKey(j)
    BY <1>1, <1>3, <1>4 DEF FreeKey, At, NoKey
  <2>2. \A o \in Callers, j \in Intents :
          /\ (Resolving(o, j)' => Resolving(o, j))
          /\ (me'[o].i = j /\ At(o, "commit")' => me[o].i = j /\ At(o, "commit"))
    BY <1>3 DEF Resolving, At
  <2> QED BY <1>0, <1>2, <1>c, <2>1, <2>2 DEF FreeKeys, Clean
<1>11. GrantsHold'
  <2>1. \A j \in Intents : Granted(j)' => Granted(j)
    BY <1>1, <1>3, <1>4, <1>5, <1>6 DEF Granted, At
  <2> QED BY <1>0, <1>2, <1>3, <1>c, <2>1 DEF GrantsHold, Resolving, At, Clean
<1>12. Books' /\ WithinBudget'
  BY <1>0, <1>2 DEF Books, Live, WithinBudget
<1>13. GateStillHolds' /\ StepUps'
  BY <1>0, <1>2, <1>3, <1>c DEF GateStillHolds, Buying, StepUps, Live, At
<1>14. Announced'
  BY <1>0, <1>1, <1>2, <1>3, AnnouncedStays
<1> QED BY <1>7, <1>8, <1>8a, <1>9, <1>10, <1>11, <1>12, <1>13, <1>14 DEF IInv

(* A worker leaves a call behind: its store is unreachable, or it dies.     *)
LEMMA LeaveStep ==
  ASSUME IInv, NEW c \in Callers, deployment = "postgres", me' = [me EXCEPT ![c] = Idle],
         UNCHANGED <<world, db, keys, history>>
  PROVE  IInv'
<1>0. /\ Types /\ Names /\ OneAtATime /\ ClaimIsExclusive /\ Agreement /\ Resolvers
      /\ FreeKeys /\ GrantsHold /\ Books /\ GateStillHolds /\ StepUps /\ Announced
      /\ WithinBudget
  BY DEF IInv
<1>1. UNCHANGED <<deployment, now, mandate, offers, db, keys, verified, told, shared, duelled>>
  BY DEF world, history
<1>2. /\ me' \in [Callers -> Locals] /\ me'[c].pc = "idle"
      /\ \A o \in Callers : o # c => me'[o] = me[o]
  BY <1>0, IdleLocals, LocalsMove
<1>3. Types' /\ OneAtATime'
  BY <1>0, <1>1, <1>2 DEF Types, OneAtATime, At
<1>c. Clean' = Clean
  BY <1>1 DEF Clean
<1>3a. Names'
  <2>1. \A o \in Callers : ~At(o, "idle")' => Paired(me[o].i, me[o].p)'
    BY <1>0, <1>1, <1>2 DEF Names, Paired, At
  <2> QED BY <1>0, <1>1, <2>1, NamesStay
<1>4. ClaimIsExclusive' /\ Agreement'
  BY <1>0, <1>1, <1>2, <1>c DEF ClaimIsExclusive, Verifying, Agreement, At
<1>5. Resolvers'
  BY <1>0, <1>1, <1>2, <1>c DEF Resolvers, Resolving, At
<1>6. FreeKeys' /\ GrantsHold'
  BY <1>0, <1>1, <1>2, <1>c DEF FreeKeys, FreeKey, GrantsHold, Granted, Resolving, At
<1>7. Books' /\ WithinBudget'
  BY <1>0, <1>1 DEF Books, Live, WithinBudget
<1>8. GateStillHolds' /\ StepUps'
  BY <1>0, <1>1, <1>2, <1>c DEF GateStillHolds, Buying, StepUps, Live, At
<1>9. Announced'
  BY <1>0, <1>1 DEF Announced, Live
<1> QED BY <1>3, <1>3a, <1>4, <1>5, <1>6, <1>7, <1>8, <1>9 DEF IInv

LEMMA ResolveStep ==
  ASSUME IInv, NEW c \in Callers, NEW i \in Intents, NEW approve \in BOOLEAN, NEW uv \in BOOLEAN,
         Resolve(c, i, approve, uv)
  PROVE  IInv'
<1>0. /\ Types /\ Names /\ OneAtATime /\ ClaimIsExclusive /\ Agreement /\ Resolvers
      /\ FreeKeys /\ GrantsHold /\ Books /\ GateStillHolds /\ StepUps /\ Announced
      /\ WithinBudget
  BY DEF IInv
<1> DEFINE e == db.escalations[i]
           holds == resolve_envelope(e, approve, uv)
           buys == holds /\ Evaluate(i, now, TRUE) = Approved
           l == IF buys THEN "commit" ELSE "compensate"
           p == e.p
           q == Started(l, i, p, now)
<1>1. /\ me' = [me EXCEPT ![c] = q] /\ me[c].pc = "idle" /\ e.status = "pending"
      /\ (deployment = "memory" => \A o \in Callers : me[o].pc = "idle")
  BY DEF Resolve, MayStart, At, Quiet, Started
<1>2. UNCHANGED <<deployment, now, mandate, offers, db, keys, told, shared>>
  BY DEF Resolve, world
<1>c. Clean' = Clean
  BY <1>2 DEF Clean
<1>p. p \in Intents /\ Paired(i, p)
  BY <1>0, <1>1, ServiceAssumption DEF Names
<1>3. l \in {"commit", "compensate"} /\ (l = "commit" => buys)
  OBVIOUS
<1>4. buys => /\ mandate.status = "active" /\ db.open + 1 <= MaxOpen
              /\ approve /\ now < e.timeout_at /\ (e.level = "L3+" => uv)
  <2>1. holds => approve /\ now < e.timeout_at /\ (e.level = "L3+" => uv)
    <3>1. now \in Nat /\ e.timeout_at \in Nat
      BY <1>0, ServiceAssumption DEF Types, Stores, Escalations
    <3> HIDE DEF e
    <3> QED BY <3>1 DEF resolve_envelope, EnvelopeHolds, escalation_expired
  <2>2. Evaluate(i, now, TRUE) = Approved => mandate.status = "active" /\ db.open + 1 <= MaxOpen
    <3>1. now \in 0..MaxTime
      BY <1>0 DEF Types
    <3>2. Approved.verdict = "APPROVED"
      BY DEF Approved
    <3> QED BY <1>0, <3>1, <3>2, EvaluateAnswers
  <2> QED BY <2>1, <2>2
<1>5. /\ verified \subseteq verified' /\ verified' \subseteq Intents
      /\ approve /\ uv /\ now < e.timeout_at => i \in verified'
  BY <1>0 DEF Resolve, Types
<1>6. /\ duelled \subseteq duelled' /\ duelled' \subseteq duelled \cup {i}
      /\ (\E o \in Callers : Resolving(o, i)) => i \in duelled'
      /\ ~(\E o \in Callers : Resolving(o, i)) => duelled' = duelled
  BY DEF Resolve
<1>7. i \in Clean => db.purchases[i] = "awaiting_escalation"
  BY <1>0, <1>1 DEF Agreement
<1>8. now \in Nat
  BY <1>0, ServiceAssumption DEF Types
<1> HIDE DEF l, buys, holds, p, e
<1>8a. e.timeout_at = 0 => l # "commit"
  BY <1>3, <1>4, <1>8
<1> USE DEF e
<1>9. /\ q \in Locals /\ q.pc = l /\ q.i = i /\ q.p = p
  <2>1. l \in PC /\ now \in 0..MaxTime
    BY <1>0, <1>3 DEF Types, PC
  <2> QED BY <2>1, <1>p, StartedLocals
<1> HIDE DEF q
<1>10. /\ me' \in [Callers -> Locals] /\ me'[c] = q
       /\ \A o \in Callers : o # c => me'[o] = me[o]
  BY <1>0, <1>1, <1>9, LocalsMove
<1>11. Types'
  BY <1>0, <1>2, <1>3, <1>5, <1>6, <1>9, <1>10, <1>p DEF Types, At
<1>11a. Names'
  <2>1. \A o \in Callers : ~At(o, "idle")' => Paired(me[o].i, me[o].p)'
    BY <1>0, <1>2, <1>9, <1>10, <1>p DEF Names, Paired, At
  <2> QED BY <1>0, <1>2, <2>1, NamesStay
<1>12. OneAtATime'
  BY <1>0, <1>1, <1>2, <1>6, <1>10 DEF OneAtATime, Resolving, At
<1>13. ClaimIsExclusive' /\ Agreement'
  BY <1>0, <1>1, <1>2, <1>3, <1>9, <1>10, <1>c DEF ClaimIsExclusive, Verifying, Agreement, At
<1>14. Resolvers'
  <2>1. \A o \in Callers, j \in Intents : Resolving(o, j)' /\ o # c => Resolving(o, j)
    BY <1>10 DEF Resolving, At
  <2>2. \A j \in Intents : Resolving(c, j)' => j = i
    BY <1>9, <1>10 DEF Resolving
  <2>3. \A o \in Callers, j \in Intents : o # c =>
          (me'[o].rid <=> me[o].rid) /\ (At(o, "compensate")' <=> At(o, "compensate"))
    BY <1>10 DEF At
  <2> QED BY <1>0, <1>1, <1>2, <1>6, <1>7, <1>c, <2>1, <2>2, <2>3 DEF Resolvers, Clean
<1>14a. \A o \in Callers, j \in Intents :
          /\ Resolving(o, j)' => Resolving(o, j) \/ j = i
          /\ me'[o].i = j /\ At(o, "commit")' =>
               (me[o].i = j /\ At(o, "commit")) \/ (j = i /\ e.timeout_at # 0)
  BY <1>8a, <1>9, <1>10 DEF Resolving, At
<1>15. FreeKeys'
  <2>1. \A j \in Intents : FreeKey(j)' => FreeKey(j)
    BY <1>2, <1>3, <1>9, <1>10 DEF FreeKey, At
  <2>2. i \in Clean => db.purchases[i] # "pending_capture"
    BY <1>7
  <2> QED BY <1>0, <1>2, <1>14a, <1>c, <2>1, <2>2 DEF FreeKeys, Clean
<1>16. GrantsHold'
  <2>1. \A j \in Intents : Granted(j)' => Granted(j)
    BY <1>2, <1>3, <1>9, <1>10 DEF Granted, At
  <2>2. i \in Clean => db.purchases[i] # "pending_capture"
    BY <1>7
  <2> QED BY <1>0, <1>2, <1>14a, <1>c, <2>1, <2>2 DEF GrantsHold, Clean
<1>17. Books' /\ WithinBudget'
  <2>1. duelled' = {} => duelled = {}
    BY <1>6
  <2> QED BY <1>0, <1>2, <2>1 DEF Books, Live, WithinBudget
<1>18. GateStillHolds'
  BY <1>0, <1>2, <1>3, <1>4, <1>9, <1>10 DEF GateStillHolds, Buying, At
<1>19. StepUps'
  <2>1. i \in Clean /\ AtAmountThreshold(mandate, Amount(i)) => e.level = "L3+"
    BY <1>0, <1>1, ServiceAssumption DEF StepUps
  <2>2. i \in Clean /\ AtAmountThreshold(mandate, Amount(i)) /\ l = "commit" => i \in verified'
    BY <1>3, <1>4, <1>5, <2>1
  <2>3. Live' = Live
    BY <1>2 DEF Live
  <2> QED BY <1>0, <1>2, <1>3, <1>5, <1>9, <1>10, <1>c, <2>2, <2>3 DEF StepUps, At
<1>20. Announced'
  BY <1>0, <1>1, <1>2, <1>10, AnnouncedStays
<1> QED BY <1>11, <1>11a, <1>12, <1>13, <1>14, <1>15, <1>16, <1>17, <1>18, <1>19, <1>20 DEF IInv

(* The books after an effect on one intent.                                 *)
LEMMA LiveMoves ==
  ASSUME Types, NEW i \in Intents, NEW p, NEW e, NEW h, NEW r, NEW o,
         Effect(db', db, i, p, e, h, r, o)
  PROVE  /\ Live' = IF p = "pending_capture" THEN Live \cup {i} ELSE Live \ {i}
         /\ IsFiniteSet(Live) => IsFiniteSet(Live')
<1>1. db \in Stores /\ db'.purchases = [db.purchases EXCEPT ![i] = p]
  BY DEF Types, Effect
<1>2. Live' = IF p = "pending_capture" THEN Live \cup {i} ELSE Live \ {i}
  BY <1>1 DEF Live, Stores
<1> QED BY <1>2, FS_AddElement, FS_RemoveElement

LEMMA LiveSums ==
  ASSUME IsFiniteSet(Live), NEW i \in Intents
  PROVE  /\ Amount(i) \in Nat /\ Cardinality(Live) \in Nat
         /\ SumFunctionOnSet(Amounts, Live) \in Nat
         /\ i \notin Live =>
              /\ SumFunctionOnSet(Amounts, Live \cup {i}) = SumFunctionOnSet(Amounts, Live) + Amount(i)
              /\ Cardinality(Live \cup {i}) = Cardinality(Live) + 1
         /\ i \in Live =>
              /\ SumFunctionOnSet(Amounts, Live \ {i}) = SumFunctionOnSet(Amounts, Live) - Amount(i)
              /\ Amount(i) <= SumFunctionOnSet(Amounts, Live)
              /\ Cardinality(Live \ {i}) = Cardinality(Live) - 1
              /\ Cardinality(Live) > 0
<1>1. \A j \in Intents : Amounts[j] \in Nat /\ Amounts[j] = Amount(j)
  BY ServiceAssumption DEF Amounts, Amount, PurchaseIntent, Money
<1>2. Live \subseteq Intents
  BY DEF Live
<1>3. Cardinality(Live) \in Nat /\ SumFunctionOnSet(Amounts, Live) \in Nat
  BY <1>1, <1>2, SumType, FS_CardinalityType
<1>4. ASSUME i \notin Live
      PROVE  /\ SumFunctionOnSet(Amounts, Live \cup {i}) = SumFunctionOnSet(Amounts, Live) + Amount(i)
             /\ Cardinality(Live \cup {i}) = Cardinality(Live) + 1
  <2>1. SumFunctionOnSet(Amounts, Live \cup {i}) = Amounts[i] + SumFunctionOnSet(Amounts, Live)
    BY <1>1, <1>2, <1>4, SumAdd
  <2>2. Cardinality(Live \cup {i}) = Cardinality(Live) + 1
    BY <1>4, FS_AddElement
  <2> QED BY <1>1, <1>3, <2>1, <2>2
<1>5. ASSUME i \in Live
      PROVE  /\ SumFunctionOnSet(Amounts, Live \ {i}) = SumFunctionOnSet(Amounts, Live) - Amount(i)
             /\ Amount(i) <= SumFunctionOnSet(Amounts, Live)
             /\ Cardinality(Live \ {i}) = Cardinality(Live) - 1
             /\ Cardinality(Live) > 0
  <2>1. SumFunctionOnSet(Amounts, Live) = Amounts[i] + SumFunctionOnSet(Amounts, Live \ {i})
    BY <1>1, <1>2, <1>5, SumRemove
  <2>2. IsFiniteSet(Live \ {i}) /\ Cardinality(Live \ {i}) = Cardinality(Live) - 1
        /\ Cardinality(Live \ {i}) \in Nat
    BY <1>5, FS_RemoveElement, FS_CardinalityType
  <2>3. SumFunctionOnSet(Amounts, Live \ {i}) \in Nat
    BY <1>1, <1>2, <2>2, SumType
  <2> QED BY <1>1, <1>3, <2>1, <2>2, <2>3
<1> QED BY <1>1, <1>3, <1>4, <1>5

(* What a unit of work of a call leaves, whatever id the call was sent: the  *)
(* money, the count and the row stay within what the call may do.           *)
Writes(c, s, r, o) ==
  /\ Does(db', db, me[c], s, r, o)
  /\ r \in Nat /\ o \in Nat
  /\ r <= mandate.total_budget /\ (r <= db.reserved \/ mandate.status = "active")
  /\ o <= db.open \/ (Buying(c) /\ o <= db.open + 1)
  /\ s = "pending_capture" =>
       \/ <<"purchase.verified", me[c].p>> \in db'.outbox
       \/ deployment = "memory" /\ At(c, "compensate")'
       \/ db.purchases[me[c].p] = "pending_capture" /\ (At(c, "compensate") => deployment # "memory")

LEMMA WriteStep ==
  ASSUME IInv, NEW c \in Callers, ~At(c, "idle"), NEW s, NEW r, NEW o, Writes(c, s, r, o),
         me' \in [Callers -> Locals], \A q \in Callers : q # c => me'[q] = me[q],
         \/ me'[c].pc = "idle"
         \/ /\ me'[c].pc \in {"finish", "compensate"}
            /\ me'[c].i = me[c].i /\ me'[c].p = me[c].p,
         me'[c].pc = "finish" => At(c, "apply"),
         UNCHANGED <<world, keys, history>>
  PROVE  /\ Types' /\ Names' /\ OneAtATime' /\ ClaimIsExclusive' /\ GateStillHolds'
         /\ Announced' /\ WithinBudget'
         /\ me[c].i \notin Clean =>
              Agreement' /\ Resolvers' /\ FreeKeys' /\ GrantsHold' /\ Books' /\ StepUps'
<1>0. /\ Types /\ Names /\ OneAtATime /\ ClaimIsExclusive /\ GateStillHolds /\ Announced
      /\ WithinBudget
  BY DEF IInv
<1> DEFINE x == me[c]
<1>1. /\ x.i \in Intents /\ x.p \in Intents /\ Call(x) /\ db \in Stores
      /\ (x.i \notin Clean => x.i \in shared /\ x.p \in shared)
  BY <1>0, WhoseCall
<1>2. UNCHANGED <<deployment, now, mandate, offers, keys, verified, told, shared, duelled>>
  BY DEF world, history
<1>3. /\ Touch(db', db, x) /\ db' \in Stores /\ db'.purchases[x.p] = s
      /\ db'.reserved = r /\ db'.open = o
  BY DEF Writes, Does, Touch
<1>4. Types'
  BY <1>0, <1>1, <1>2, <1>3 DEF Types, At
<1>5. Names'
  BY <1>0, <1>2, <1>3, NamesTouched
<1>6. OneAtATime'
  BY <1>0, <1>2 DEF OneAtATime, At
<1>7. ClaimIsExclusive'
  BY <1>0, <1>2 DEF ClaimIsExclusive, Verifying, At
<1>8. GateStillHolds'
  <2>1. ASSUME deployment = "memory"
        PROVE  o <= MaxOpen /\ \A q \in Callers : ~Buying(q)'
    <3>1. \A q \in Callers : ~Buying(q)'
      BY <1>0, <2>1 DEF OneAtATime, Buying, At
    <3>2. db.open \in Nat /\ o \in Nat /\ MaxOpen \in Nat
      BY <1>1, GateAssumption DEF Stores, Writes
    <3>3. db.open <= MaxOpen /\ (Buying(c) => db.open + 1 <= MaxOpen)
      BY <1>0, <2>1 DEF GateStillHolds
    <3>4. o <= db.open \/ (Buying(c) /\ o <= db.open + 1)
      BY DEF Writes
    <3>5. o <= MaxOpen
      BY <3>2, <3>3, <3>4
    <3> QED BY <3>1, <3>5
  <2> QED BY <1>2, <1>3, <2>1 DEF GateStillHolds
<1>9. Announced'
  <2>1. ASSUME NEW p \in Live'
        PROVE  \/ <<"purchase.verified", p>> \in db'.outbox
               \/ deployment = "memory" /\ \E q \in Callers : At(q, "compensate")' /\ me'[q].p = p
    <3>0. p \in Intents /\ db'.purchases[p] = "pending_capture"
      BY <2>1 DEF Live
    <3>1. db.outbox \subseteq db'.outbox
      BY <1>3 DEF Touch
    <3>2. CASE p # x.p
      <4>1. p \in Live
        BY <1>3, <3>0, <3>2 DEF Touch, Live
      <4>2. \A q \in Callers : At(q, "compensate") /\ me[q].p = p => At(q, "compensate")' /\ me'[q].p = p
        BY <3>2 DEF At
      <4> QED BY <1>0, <3>1, <4>1, <4>2 DEF Announced
    <3>3. CASE p = x.p
      <4>1. \/ <<"purchase.verified", p>> \in db'.outbox
            \/ deployment = "memory" /\ At(c, "compensate")'
            \/ db.purchases[p] = "pending_capture" /\ (At(c, "compensate") => deployment # "memory")
        BY <1>3, <3>0, <3>3 DEF Writes
      <4>2. CASE deployment = "memory" /\ At(c, "compensate")'
        <5>1. me'[c].p = p
          BY <3>3, <4>2 DEF At
        <5> QED BY <4>2, <5>1
      <4>3. CASE db.purchases[p] = "pending_capture" /\ (At(c, "compensate") => deployment # "memory")
        <5>1. p \in Live
          BY <3>0, <4>3 DEF Live
        <5>2. deployment = "memory" =>
                \A q \in Callers : At(q, "compensate") /\ me[q].p = p => At(q, "compensate")' /\ me'[q].p = p
          BY <4>3 DEF At
        <5> QED BY <1>0, <3>1, <5>1, <5>2 DEF Announced
      <4> QED BY <4>1, <4>2, <4>3
    <3> QED BY <3>2, <3>3
  <2> QED BY <1>2, <2>1 DEF Announced
<1>10. WithinBudget'
  BY <1>2, <1>3 DEF Writes, WithinBudget
<1>11. ASSUME x.i \notin Clean
       PROVE  Agreement' /\ Resolvers' /\ FreeKeys' /\ GrantsHold' /\ Books' /\ StepUps'
  <2>1. x.i \in shared /\ x.p \in shared
    BY <1>1, <1>11
  <2>2. \A j \in Intents : j \notin shared' =>
          /\ keys'[j] = keys[j] /\ db'.purchases[j] = db.purchases[j]
          /\ db'.escalations[j] = db.escalations[j] /\ (j \in db'.held <=> j \in db.held)
          /\ (j \in told' => j \in told) /\ (j \in duelled' <=> j \in duelled)
    BY <1>2, <1>3, <2>1 DEF Touch
  <2>3. /\ shared' = shared /\ shared' # {} /\ verified' = verified /\ mandate' = mandate
        /\ deployment' = deployment
    BY <1>2, <2>1
  <2>4. me'[c].pc = "idle" \/ me'[c].i \in shared'
    BY <2>1, <2>3
  <2> QED BY <1>4, <2>1, <2>2, <2>3, <2>4, ForeignStep
<1> QED BY <1>4, <1>5, <1>6, <1>7, <1>8, <1>9, <1>10, <1>11

(* The four ends of a new verify, and the step it takes.                    *)
Answers(c, v) == v \in Verdicts /\ me' = [me EXCEPT ![c].pc = "finish", ![c].dec.verdict = v]

LEMMA AnswersMove ==
  ASSUME Types, NEW c \in Callers, NEW v, Answers(c, v)
  PROVE  /\ v \in Verdicts /\ me' \in [Callers -> Locals]
         /\ me'[c].pc = "finish" /\ me'[c].i = me[c].i /\ me'[c].p = me[c].p
         /\ me'[c].dec.verdict = v
         /\ \A o \in Callers : o # c => me'[o] = me[o]
<1> DEFINE x == [me[c].dec EXCEPT !.verdict = v]
           q == [me[c] EXCEPT !.pc = "finish", !.dec = x]
<1>1. me[c] \in Locals /\ me[c].dec \in Decision /\ "finish" \in PC
  BY DEF Types, Locals, PC
<1>2. x \in Decision /\ x.verdict = v
  BY <1>1 DEF Answers, Decision
<1>3. me' = [me EXCEPT ![c] = q]
  BY <1>1 DEF Answers, Locals, Types
<1> HIDE DEF x
<1>4. q \in Locals /\ q.pc = "finish" /\ q.i = me[c].i /\ q.p = me[c].p /\ q.dec = x
  BY <1>1, <1>2 DEF Locals
<1> HIDE DEF q
<1> QED BY <1>2, <1>3, <1>4, LocalsMove DEF Answers

LEMMA ApplyWrites ==
  ASSUME IInv, NEW c \in Callers,
         ApplyRejected(c) \/ ApplyEscalated(c) \/ ApplyApproved(c) \/ ApplyUnreserved(c)
  PROVE  \E v, s, r, o : Writes(c, s, r, o) /\ Answers(c, v)
<1> DEFINE x == me[c]
           t == me[c].at
<1>0. /\ Types /\ Names /\ GateStillHolds /\ WithinBudget /\ At(c, "apply")
      /\ "REJECTED" \in Verdicts /\ "ESCALATED" \in Verdicts /\ "APPROVED" \in Verdicts
  BY DEF IInv, ApplyRejected, ApplyEscalated, ApplyApproved, ApplyUnreserved, Verdicts
<1>1. /\ Call(x) /\ db \in Stores /\ Sound(db, x) /\ t \in 0..MaxTime /\ x.dec \in Decision
      /\ db.reserved \in Nat /\ db.open \in Nat /\ deployment \in {"memory", "postgres"}
      /\ ~At(c, "compensate")
  <2>1. ~At(c, "idle") /\ ~At(c, "compensate")
    BY <1>0 DEF At
  <2>2. me[c] \in Locals /\ db \in Stores /\ deployment \in {"memory", "postgres"}
    BY <1>0 DEF Types
  <2> QED BY <1>0, <2>1, <2>2, WhoseCall DEF Locals, Stores
<1>2. db.reserved <= mandate.total_budget
  BY <1>0 DEF WithinBudget
<1>3. ASSUME NEW v \in Verdicts, NEW s, Does(db', db, x, s, db.reserved, db.open),
             s = "pending_capture" => db.purchases[x.p] = "pending_capture",
             me' = [me EXCEPT ![c].pc = "finish", ![c].dec.verdict = v]
      PROVE  \E w, s2, r, o : Writes(c, s2, r, o) /\ Answers(c, w)
  <2>1. Writes(c, s, db.reserved, db.open)
    BY <1>1, <1>2, <1>3 DEF Writes
  <2> QED BY <1>3, <2>1 DEF Answers
<1>4. CASE ApplyRejected(c)
  <2>1. PICK ok \in BOOLEAN : Conclude(c, RejectedDb(db, x, t, ok), "REJECTED")
    BY <1>4 DEF ApplyRejected
  <2>2. PICK s \in {None, "rejected"} : Does(db', db, x, s, db.reserved, db.open)
    BY <1>1, <2>1, RejectedDoes DEF Conclude
  <2>3. s # "pending_capture"
    BY ServiceAssumption
  <2> QED BY <1>0, <1>3, <2>1, <2>2, <2>3 DEF Conclude
<1>5. CASE ApplyEscalated(c)
  <2> DEFINE n == Len(EscalatedEvents(x.dec))
  <2>1. PICK k \in 0..n : Conclude(c, EscalatedDb(db, x, t, x.dec, k),
                                   IF k = n THEN "ESCALATED" ELSE "REJECTED")
    BY <1>5 DEF ApplyEscalated
  <2>2. PICK s : /\ Does(db', db, x, s, db.reserved, db.open)
                 /\ s = "pending_capture" => db.purchases[x.p] = "pending_capture"
    BY <1>1, <2>1, EscalatedDoes DEF Conclude
  <2> DEFINE v == IF k = n THEN "ESCALATED" ELSE "REJECTED"
  <2>3. v \in Verdicts /\ me' = [me EXCEPT ![c].pc = "finish", ![c].dec.verdict = v]
    BY <1>0, <2>1 DEF Conclude
  <2> HIDE DEF v, n
  <2> QED BY <1>3, <2>2, <2>3
<1>6. CASE ApplyUnreserved(c)
  <2> DEFINE d == Failed(db, increment_intent(db, t))
  <2>1. PICK ok \in BOOLEAN : Conclude(c, RejectedDb(d, x, t, ok), "REJECTED")
    BY <1>6 DEF ApplyUnreserved
  <2>2. Does(d, db, x, db.purchases[x.p], db.reserved, db.open)
    <3>1. Does(db, db, x, db.purchases[x.p], db.reserved, db.open)
      BY <1>1, SameDoes
    <3>2. Does(increment_intent(db, t), db, x, db.purchases[x.p], db.reserved, db.open)
      BY <1>1, IncrementIntentDoes
    <3> QED BY <3>1, <3>2, FailedIs
  <2> HIDE DEF d
  <2>3. d \in Stores /\ d.reserved = db.reserved /\ d.open = db.open
    BY <2>2, DoesFields
  <2>4. PICK s \in {None, "rejected"} : Does(db', d, x, s, db.reserved, db.open)
    BY <1>1, <2>1, <2>3, RejectedDoes DEF Conclude
  <2>5. Does(db', db, x, s, db.reserved, db.open)
    BY <1>1, <2>2, <2>4, DoesCompose
  <2>6. s # "pending_capture"
    BY ServiceAssumption
  <2> QED BY <1>0, <1>3, <2>1, <2>5, <2>6 DEF Conclude
<1>7. CASE ApplyApproved(c)
  <2>0. Buying(c) /\ CanReserve(db, x)
    BY <1>0, <1>7 DEF ApplyApproved, Buying
  <2>1. ASSUME NEW r \in Nat, Adds(db, x, r)
        PROVE  r <= mandate.total_budget /\ (r <= db.reserved \/ mandate.status = "active")
    <3>1. deployment = "memory" => mandate.status = "active"
      BY <1>0, <2>0 DEF GateStillHolds
    <3>2. CASE Replayed(db, x)
      <4>1. r = db.reserved
        BY <2>1, <3>2 DEF Adds
      <4> QED BY <1>1, <1>2, <4>1
    <3>3. CASE ~Replayed(db, x)
      BY <1>1, <2>0, <2>1, <3>1, <3>3 DEF Adds, CanReserve
    <3> QED BY <3>2, <3>3
  <2>2. CASE Conclude(c, append(ReservedDb(db, x, t), "purchase.verified", x.p), "APPROVED")
    <3> DEFINE d == ReservedDb(db, x, t)
    <3>1. PICK s, r : Does(d, db, x, s, r, db.open + 1) /\ r \in Nat /\ Adds(db, x, r)
      BY <1>1, ReservedDoes
    <3> HIDE DEF d
    <3>2. d \in Stores /\ d.purchases[x.p] = s /\ d.reserved = r /\ d.open = db.open + 1
      BY <3>1, DoesFields
    <3>3. db' = append(d, "purchase.verified", x.p) /\ Answers(c, "APPROVED")
      BY <1>0, <2>2 DEF Conclude, d, Answers
    <3>4. "purchase.verified" \in EventTypes
      BY DEF EventTypes
    <3>5. Does(db', d, x, s, r, db.open + 1)
      BY <1>1, <3>2, <3>3, <3>4, AppendDoes
    <3>6. <<"purchase.verified", x.p>> \in db'.outbox
      BY <3>2, <3>3 DEF append, Stores
    <3>7. Does(db', db, x, s, r, db.open + 1)
      BY <1>1, <3>1, <3>5, DoesCompose
    <3>8. Writes(c, s, r, db.open + 1)
      BY <1>1, <2>0, <2>1, <3>1, <3>6, <3>7 DEF Writes
    <3> QED BY <3>3, <3>8
  <2>3. CASE \E ok \in BOOLEAN :
               Conclude(c, RejectedDb(GivenBack(Failed(db, ReservedDb(db, x, t)), x), x, t, ok), "REJECTED")
    <3>1. PICK ok \in BOOLEAN :
            /\ db' = RejectedDb(GivenBack(Failed(db, ReservedDb(db, x, t)), x), x, t, ok)
            /\ Answers(c, "REJECTED")
      BY <1>0, <2>3 DEF Conclude, Answers
    <3>2. PICK s, r, o, full :
            /\ Does(db', db, x, s, r, o)
            /\ s \in {None, "rejected"} /\ {r, o, full} \subseteq Nat
            /\ o <= db.open + 1
            /\ r <= full /\ (full = db.reserved \/ Adds(db, x, full))
      BY <1>1, <3>1, ApprovalFailsDoes
    <3>3. s # "pending_capture" /\ r \in Nat /\ o \in Nat /\ full \in Nat
      BY <3>2, ServiceAssumption
    <3>4. /\ full <= mandate.total_budget
          /\ full <= db.reserved \/ mandate.status = "active"
      BY <1>1, <1>2, <2>1, <3>2, <3>3
    <3>5. mandate.total_budget \in Nat
      BY <1>0 DEF Types, MandateClaims, Money
    <3>6. r <= mandate.total_budget /\ (r <= db.reserved \/ mandate.status = "active")
      BY <1>1, <3>2, <3>3, <3>4, <3>5
    <3>7. Writes(c, s, r, o)
      BY <2>0, <3>2, <3>3, <3>6 DEF Writes
    <3> QED BY <3>1, <3>7
  <2> QED BY <1>7, <2>2, <2>3 DEF ApplyApproved
<1> QED BY <1>4, <1>5, <1>6, <1>7

LEMMA CommitWrites ==
  ASSUME IInv, NEW c \in Callers, Commit(c)
  PROVE  \/ db' = db /\ me' = [me EXCEPT ![c].pc = "compensate", ![c].rid = TRUE]
         \/ \E s, r, o :
              /\ Writes(c, s, r, o)
              /\ \/ me' = [me EXCEPT ![c] = Idle]
                 \/ me' = [me EXCEPT ![c].pc = "compensate", ![c].rid = TRUE]
<1> DEFINE x == me[c]
           done(k) == AppendFirst(ResolvedDb(db, x), ResolvedEvents, k, x.p)
           Goes == me' = [me EXCEPT ![c].pc = "compensate", ![c].rid = TRUE]
<1>0. Types /\ Names /\ GateStillHolds /\ WithinBudget /\ At(c, "commit") /\ Buying(c)
  BY DEF IInv, Commit, Buying
<1>1. /\ Call(x) /\ db \in Stores /\ CanReserve(db, x) /\ db.open \in Nat /\ db.reserved \in Nat
      /\ deployment \in {"memory", "postgres"}
  <2>1. ~At(c, "idle")
    BY <1>0 DEF At
  <2> QED BY <1>0, <2>1, WhoseCall DEF Types, Stores, Commit
<1>2. ASSUME NEW k \in 0..2, db' = done(k),
             k = 2 \/ (deployment = "memory" /\ At(c, "compensate")')
      PROVE  \E s, r, o : Writes(c, s, r, o)
  <2>1. PICK s, r : Does(db', db, x, s, r, db.open + 1) /\ r \in Nat /\ Adds(db, x, r)
    BY <1>1, <1>2, ResolvedDoes
  <2>2. k = 2 => <<"purchase.verified", x.p>> \in db'.outbox
    BY <1>1, <1>2, ResolvedDoes
  <2>3. r <= mandate.total_budget /\ (r <= db.reserved \/ mandate.status = "active")
    <3>1. deployment = "memory" => mandate.status = "active"
      BY <1>0 DEF GateStillHolds
    <3>2. CASE Replayed(db, x)
      <4>1. r = db.reserved
        BY <2>1, <3>2 DEF Adds
      <4> QED BY <1>0, <1>1, <4>1 DEF WithinBudget
    <3>3. CASE ~Replayed(db, x)
      BY <1>1, <2>1, <3>1, <3>3 DEF Adds, CanReserve
    <3> QED BY <3>2, <3>3
  <2>4. Writes(c, s, r, db.open + 1)
    BY <1>0, <1>1, <1>2, <2>1, <2>2, <2>3 DEF Writes
  <2> QED BY <2>4
<1>3. CASE db' = done(2) /\ me' = [me EXCEPT ![c] = Idle]
  BY <1>2, <1>3
<1>4. ASSUME NEW k \in 0..1, db' = Failed(db, done(k)), Goes
      PROVE  (db' = db /\ Goes) \/ \E s, r, o : Writes(c, s, r, o) /\ Goes
  <2>1. (deployment = "memory" /\ db' = done(k)) \/ db' = db
    <3> HIDE DEF done
    <3> QED BY <1>4, FailedIs
  <2>2. k \in 0..2 /\ At(c, "compensate")'
    BY <1>0, <1>4 DEF Types, At, Locals
  <2> HIDE DEF done, Goes
  <2> QED BY <1>2, <1>4, <2>1, <2>2
<1>5. \/ db' = done(2) /\ me' = [me EXCEPT ![c] = Idle]
      \/ \E k \in 0..1 : db' = Failed(db, done(k)) /\ Goes
  BY DEF Commit
<1> HIDE DEF done
<1> QED BY <1>3, <1>4, <1>5

LEMMA CompensateWrites ==
  ASSUME IInv, NEW c \in Callers, Compensate(c)
  PROVE  \E s, r, o : Writes(c, s, r, o) /\ r <= db.reserved
<1>1. Types /\ Names /\ WithinBudget
  BY DEF IInv
<1>2. PICK s, r, o : /\ Does(db', db, me[c], s, r, o)
                     /\ r \in Nat /\ o \in Nat /\ r <= db.reserved /\ o <= db.open
                     /\ s = "pending_capture" =>
                          deployment # "memory" /\ db.purchases[me[c].p] = "pending_capture"
  BY <1>1, CompensateDoes
<1>3. db.reserved \in Nat /\ mandate.total_budget \in Nat /\ db.reserved <= mandate.total_budget
  BY <1>1 DEF Types, Stores, MandateClaims, Money, WithinBudget
<1>4. r <= mandate.total_budget
  BY <1>2, <1>3
<1> QED BY <1>2, <1>4 DEF Writes

(* How verify ends on a new purchase: refused, waiting or bought.           *)
Outcome(i, v, p, e, h, r, o) ==
  /\ AtAmountThreshold(mandate, Amount(i)) /\ e.status # None => e.level = "L3+"
  /\ \/ /\ v = "REJECTED" /\ p \in {None, "rejected"} /\ e.status \in {None, "expired"}
        /\ p = None => e.status = None
        /\ h = db.held /\ r = db.reserved /\ o = db.open
     \/ /\ v = "ESCALATED" /\ p = "awaiting_escalation" /\ e.status = "pending"
        /\ h = db.held /\ r = db.reserved /\ o = db.open
     \/ /\ v = "APPROVED" /\ p = "pending_capture" /\ e.status = None
        /\ h = db.held \cup {i} /\ r = db.reserved + Amount(i) /\ o = db.open + 1

Applies(c) ==
  \E v, p, e, h, r, o :
    /\ Effect(db', db, me[c].i, p, e, h, r, o) /\ Outcome(me[c].i, v, p, e, h, r, o)
    /\ v = "APPROVED" => me[c].dec.verdict = "APPROVED"
    /\ me' = [me EXCEPT ![c].pc = "finish", ![c].dec.verdict = v]

(* What a caller about to apply its decision finds, under its own id.       *)
LEMMA AtApply ==
  ASSUME IInv, NEW c \in Callers, At(c, "apply"), me[c].i \in Clean
  PROVE  /\ me[c].i \in Intents /\ me[c].at \in 0..MaxTime /\ me[c].dec \in Decision
         /\ me[c].p = me[c].i /\ Honest(db, me[c].i)
         /\ db \in Stores /\ db.purchases[me[c].i] = None
         /\ db.escalations[me[c].i].status = None
         /\ ~Replayed(db, me[c])
<1>1. Types /\ Names /\ Agreement
  BY DEF IInv
<1> DEFINE i == me[c].i
<1>2. /\ i \in Intents /\ me[c] \in Locals /\ db \in Stores
      /\ me[c].p = i /\ Honest(db, i)
  <2>1. ~At(c, "idle")
    BY DEF At
  <2> QED BY <1>1, <2>1, WhoseCall DEF Types
<1>3. db.purchases[i] = None /\ db.escalations[i].status = None
      /\ (deployment = "memory" => i \notin db.held)
  BY <1>1, <1>2 DEF Agreement
<1>4. ~Replayed(db, me[c])
  BY <1>2, <1>3, OwnMoney, ServiceAssumption
<1> QED BY <1>2, <1>3, <1>4 DEF Locals

LEMMA ApplyRejectedIs ==
  ASSUME IInv, NEW c \in Callers, ApplyRejected(c) \/ ApplyUnreserved(c), me[c].i \in Clean
  PROVE  Applies(c)
<1> DEFINE i == me[c].i
           e == db.escalations[i]
<1>0. i \in Intents /\ me[c].at \in 0..MaxTime /\ db \in Stores
      /\ db.purchases[i] = None /\ e.status = None /\ me[c].p = i /\ Honest(db, i)
  BY AtApply DEF ApplyRejected, ApplyUnreserved
<1>1. \E p \in {None, "rejected"} : Effect(db', db, i, p, e, db.held, db.reserved, db.open)
  <2>1. CASE ApplyRejected(c)
    <3>1. PICK ok \in BOOLEAN : db' = RejectedDb(db, me[c], me[c].at, ok)
      BY <2>1 DEF ApplyRejected, Conclude
    <3> QED BY <1>0, <3>1, RejectedEffect
  <2>2. CASE ApplyUnreserved(c)
    <3> DEFINE d == Failed(db, increment_intent(db, me[c].at))
    <3>1. PICK ok \in BOOLEAN : db' = RejectedDb(d, me[c], me[c].at, ok)
      BY <2>2 DEF ApplyUnreserved, Conclude
    <3>2. Effect(d, db, i, None, e, db.held, db.reserved, db.open)
      <4>1. Effect(db, db, i, None, e, db.held, db.reserved, db.open)
        BY <1>0 DEF Effect, Stores
      <4>2. Effect(increment_intent(db, me[c].at), db, i, None, e, db.held, db.reserved, db.open)
        BY <1>0, IncrementIntentEffect
      <4> QED BY <4>1, <4>2, FailedIs
    <3>a. me[c].i = i
      OBVIOUS
    <3> HIDE DEF d, e, i
    <3>3. d \in Stores /\ d.purchases[i] = None /\ d.escalations[i] = e /\ d.held = db.held
          /\ d.reserved = db.reserved /\ d.open = db.open /\ Honest(d, i)
      BY <1>0, <3>2, EffectFields
    <3>4. PICK p \in {None, "rejected"} : Effect(db', d, i, p, e, db.held, db.reserved, db.open)
      BY <1>0, <3>a, <3>1, <3>3, RejectedEffect
    <3> QED BY <1>0, <3>2, <3>4, EffectsCompose DEF e, i
  <2> QED BY <2>1, <2>2
<1>2. me' = [me EXCEPT ![c].pc = "finish", ![c].dec.verdict = "REJECTED"]
  BY DEF ApplyRejected, ApplyUnreserved, Conclude
<1>3. PICK p \in {None, "rejected"} : Effect(db', db, i, p, e, db.held, db.reserved, db.open)
  BY <1>1
<1>4. Outcome(i, "REJECTED", p, e, db.held, db.reserved, db.open)
  BY <1>0, <1>3 DEF Outcome
<1> HIDE DEF e
<1> QED BY <1>2, <1>3, <1>4 DEF Applies

LEMMA ApplyEscalatedIs ==
  ASSUME IInv, NEW c \in Callers, ApplyEscalated(c), me[c].i \in Clean
  PROVE  Applies(c)
<1> DEFINE i == me[c].i
           dec == me[c].dec
           n == Len(EscalatedEvents(dec))
<1>0. i \in Intents /\ me[c].at \in 0..MaxTime /\ db \in Stores /\ dec \in Decision
      /\ db.purchases[i] = None /\ db.escalations[i].status = None
      /\ me[c].p = i /\ Honest(db, i)
  BY AtApply DEF ApplyEscalated
<1>1. AtAmountThreshold(mandate, Amount(i)) => dec.level = "L3+"
  BY <1>0 DEF IInv, StepUps, ApplyEscalated, At
<1>2. PICK k \in 0..n : Conclude(c, EscalatedDb(db, me[c], me[c].at, dec, k),
                                 IF k = n THEN "ESCALATED" ELSE "REJECTED")
  BY DEF ApplyEscalated
<1>3. PICK p, e :
        /\ Effect(db', db, i, p, e, db.held, db.reserved, db.open)
        /\ \/ k = n /\ p = "awaiting_escalation" /\ e.status = "pending" /\ e.level = dec.level
           \/ k # n /\ p = "rejected" /\ e.status = "expired" /\ e.level = dec.level
           \/ k # n /\ p = None /\ e.status = None
  <2>1. db' = EscalatedDb(db, me[c], me[c].at, dec, k)
    BY <1>2 DEF Conclude
  <2> QED BY <1>0, <2>1, EscalatedEffect
<1> DEFINE v == IF k = n THEN "ESCALATED" ELSE "REJECTED"
<1>4. me' = [me EXCEPT ![c].pc = "finish", ![c].dec.verdict = v] /\ v # "APPROVED"
  BY <1>2 DEF Conclude
<1>5. Outcome(i, v, p, e, db.held, db.reserved, db.open)
  <2>1. (k = n => v = "ESCALATED") /\ (k # n => v = "REJECTED")
    OBVIOUS
  <2> HIDE DEF v, n, dec, i
  <2> QED BY <1>1, <1>3, <2>1, ServiceAssumption DEF Outcome
<1> HIDE DEF v, n
<1> QED BY <1>3, <1>4, <1>5 DEF Applies

LEMMA ApplyApprovedIs ==
  ASSUME IInv, NEW c \in Callers, ApplyApproved(c), me[c].i \in Clean
  PROVE  Applies(c)
<1> DEFINE i == me[c].i
           t == me[c].at
           e == db.escalations[i]
<1>0. /\ i \in Intents /\ t \in 0..MaxTime /\ db \in Stores
      /\ db.purchases[i] = None /\ e.status = None /\ ~Replayed(db, me[c])
      /\ me[c].dec.verdict = "APPROVED" /\ me[c].p = i /\ Honest(db, i)
  BY AtApply DEF ApplyApproved
<1>2. CASE Conclude(c, append(ReservedDb(db, me[c], t), "purchase.verified", i), "APPROVED")
  <2> DEFINE d == ReservedDb(db, me[c], t)
             h == db.held \cup {i}
             r == db.reserved + Amount(i)
             o == db.open + 1
  <2>1. Effect(d, db, i, "pending_capture", e, h, r, o)
    BY <1>0, ReservedEffect
  <2>2. db' = append(d, "purchase.verified", i)
        /\ me' = [me EXCEPT ![c].pc = "finish", ![c].dec.verdict = "APPROVED"]
    BY <1>2 DEF Conclude
  <2>3. "purchase.verified" \in EventTypes
    BY DEF EventTypes
  <2> HIDE DEF d, h, r, o, e
  <2>4. /\ d \in Stores /\ Honest(d, i) /\ d.purchases[i] = "pending_capture" /\ d.escalations[i] = e
        /\ d.held = h /\ d.reserved = r /\ d.open = o
    BY <1>0, <2>1, EffectFields
  <2>5. Effect(db', d, i, "pending_capture", e, h, r, o)
    BY <1>0, <2>2, <2>3, <2>4, AppendEffect
  <2>6. Effect(db', db, i, "pending_capture", e, h, r, o)
    BY <1>0, <2>1, <2>5, EffectsCompose
  <2>7. Outcome(i, "APPROVED", "pending_capture", e, h, r, o)
    BY <1>0 DEF Outcome, h, r, o
  <2> QED BY <1>0, <2>2, <2>6, <2>7 DEF Applies
<1>3. CASE \E ok \in BOOLEAN :
             Conclude(c, RejectedDb(GivenBack(Failed(db, ReservedDb(db, me[c], t)), me[c]), me[c], t, ok), "REJECTED")
  <2>1. PICK ok \in BOOLEAN :
          /\ db' = RejectedDb(GivenBack(Failed(db, ReservedDb(db, me[c], t)), me[c]), me[c], t, ok)
          /\ me' = [me EXCEPT ![c].pc = "finish", ![c].dec.verdict = "REJECTED"]
    BY <1>3 DEF Conclude
  <2>2. PICK p \in {None, "rejected"} : Effect(db', db, i, p, e, db.held, db.reserved, db.open)
    BY <1>0, <2>1, ApprovalFailsEffect
  <2>3. Outcome(i, "REJECTED", p, e, db.held, db.reserved, db.open)
    BY <1>0, <2>2 DEF Outcome
  <2> HIDE DEF e
  <2> QED BY <2>1, <2>2, <2>3 DEF Applies
<1> QED BY <1>0, <1>2, <1>3 DEF ApplyApproved

(* An effect on one intent leaves the records of the others.                *)
LEMMA OthersStay ==
  ASSUME NEW i \in Intents, NEW d \in Stores, NEW n, NEW p, NEW e, NEW h, NEW r, NEW o,
         Effect(n, d, i, p, e, h, r, o)
  PROVE  \A j \in Intents : j # i => /\ n.purchases[j] = d.purchases[j]
                                    /\ n.escalations[j] = d.escalations[j]
BY DEF Effect, Stores

LEMMA ApplyStep ==
  ASSUME IInv, NEW c \in Callers, At(c, "apply"), UNCHANGED <<world, keys, history>>,
         \E v, s, r, o : Writes(c, s, r, o) /\ Answers(c, v),
         me[c].i \in Clean => Applies(c)
  PROVE  IInv'
<1>0. /\ Types /\ Names /\ OneAtATime /\ ClaimIsExclusive /\ Agreement /\ Resolvers
      /\ FreeKeys /\ GrantsHold /\ Books /\ GateStillHolds /\ StepUps /\ Announced
      /\ WithinBudget
  BY DEF IInv
<1>a. PICK v0, s0, r0, o0 : Writes(c, s0, r0, o0) /\ Answers(c, v0)
  OBVIOUS
<1>b. /\ Types' /\ Names' /\ OneAtATime' /\ ClaimIsExclusive' /\ GateStillHolds'
      /\ Announced' /\ WithinBudget'
      /\ me[c].i \notin Clean =>
           Agreement' /\ Resolvers' /\ FreeKeys' /\ GrantsHold' /\ Books' /\ StepUps'
  <2>1. /\ me' \in [Callers -> Locals]
        /\ me'[c].pc = "finish" /\ me'[c].i = me[c].i /\ me'[c].p = me[c].p
        /\ \A q \in Callers : q # c => me'[q] = me[q]
    BY <1>0, <1>a, AnswersMove
  <2>2. ~At(c, "idle")
    BY DEF At
  <2> QED BY <1>a, <2>1, <2>2, WriteStep
<1>c. SUFFICES ASSUME me[c].i \in Clean
               PROVE  Agreement' /\ Resolvers' /\ FreeKeys' /\ GrantsHold' /\ Books' /\ StepUps'
  BY <1>b DEF IInv
<1> DEFINE i == me[c].i
<1>1. PICK v, p, e, h, r, o :
        /\ Effect(db', db, i, p, e, h, r, o) /\ Outcome(i, v, p, e, h, r, o)
        /\ v = "APPROVED" => me[c].dec.verdict = "APPROVED"
        /\ me' = [me EXCEPT ![c].pc = "finish", ![c].dec.verdict = v]
  BY <1>c DEF Applies
<1>2. /\ i \in Intents /\ me[c].pc = "apply" /\ db \in Stores
      /\ db.purchases[i] = None /\ db.escalations[i].status = None
      /\ Verifying(c, i) /\ i \in Clean
      /\ (deployment = "memory" => i \notin db.held)
  BY <1>0, <1>c, AtApply DEF At, Verifying, Agreement
<1>3. UNCHANGED <<deployment, now, mandate, offers, keys, verified, told, shared, duelled>>
  BY DEF world, history
<1>d. Clean' = Clean
  BY <1>3 DEF Clean
<1>4. /\ me' \in [Callers -> Locals]
      /\ me'[c].pc = "finish" /\ me'[c].i = i /\ me'[c].dec.verdict = v
      /\ \A q \in Callers : q # c => me'[q] = me[q]
  <2>1. v \in Verdicts /\ "finish" \in PC
    BY <1>1 DEF Outcome, Verdicts, PC
  <2>2. Answers(c, v)
    BY <1>1, <2>1 DEF Answers
  <2> QED BY <1>0, <2>2, AnswersMove
<1>5. /\ db' \in Stores /\ db'.purchases[i] = p /\ db'.escalations[i] = e
      /\ db'.held = h /\ db'.reserved = r /\ db'.open = o /\ db.outbox \subseteq db'.outbox
  <2>1. db.outbox \subseteq db'.outbox
    BY <1>1 DEF Effect
  <2> HIDE DEF i
  <2> QED BY <1>1, <1>2, <2>1, EffectFields
<1>6. \A j \in Intents : j # i => /\ db'.purchases[j] = db.purchases[j]
                                 /\ db'.escalations[j] = db.escalations[j]
  <2> HIDE DEF i
  <2> QED BY <1>1, <1>2, OthersStay
<1>6a. \A j \in Intents : j # i => (j \in db'.held <=> j \in db.held)
  BY <1>1, <1>5 DEF Outcome
<1>7. \A q \in Callers : Verifying(q, i) => q = c
  BY <1>0, <1>2 DEF ClaimIsExclusive
<1>8. keys[i].request # None /\ keys[i].response = None
  BY <1>0, <1>2 DEF ClaimIsExclusive
<1>9. \A q \in Callers : ~Resolving(q, i)
  BY <1>0, <1>2, ServiceAssumption DEF Resolvers
<1>10. i \notin Live /\ i \notin told
  <2>1. i \notin Live
    BY <1>2, ServiceAssumption DEF Live
  <2>2. i \in told => Granted(i)
    BY DEF Granted
  <2> QED BY <1>0, <1>2, <2>1, <2>2, ServiceAssumption DEF GrantsHold
<1>11. (shared = {} => IsFiniteSet(Live')) /\ Live' = IF p = "pending_capture" THEN Live \cup {i} ELSE Live \ {i}
  <2> HIDE DEF i
  <2> QED BY <1>0, <1>1, <1>2, LiveMoves DEF Books
<1> HIDE DEF i
<1>14. Agreement'
  <2>1. \A q \in Callers : At(q, "apply")' => At(q, "apply") /\ me'[q].i = me[q].i /\ me[q].i # i
    BY <1>4, <1>7 DEF At, Verifying
  <2>2. \A q \in Callers : At(q, "apply")' /\ me'[q].i \in Clean => db'.purchases[me'[q].i] = None
    BY <1>0, <1>6, <2>1 DEF Agreement, Clean
  <2>3. /\ p = None => e.status = None
        /\ e.status = "pending" => p = "awaiting_escalation"
        /\ deployment = "memory" /\ p = None => i \notin h
    BY <1>1, <1>2, ServiceAssumption DEF Outcome
  <2> QED BY <1>0, <1>3, <1>5, <1>6, <1>6a, <1>d, <2>2, <2>3 DEF Agreement, Clean
<1>15. Resolvers'
  <2>1. \A q \in Callers, j \in Intents : Resolving(q, j)' =>
          /\ q # c /\ j # i /\ Resolving(q, j)
          /\ (At(q, "compensate")' <=> At(q, "compensate")) /\ (me'[q].rid <=> me[q].rid)
    BY <1>4, <1>9 DEF Resolving, At
  <2> QED BY <1>0, <1>3, <1>6, <1>d, <2>1 DEF Resolvers, Clean
<1>16. FreeKeys'
  <2>1. \A j \in Intents : FreeKey(j)' => FreeKey(j) /\ j # i
    BY <1>2, <1>3, <1>4, <1>7, <1>8 DEF FreeKey, Verifying, At, NoKey
  <2>2. \A q \in Callers, j \in Intents : Resolving(q, j)' => Resolving(q, j)
    BY <1>4 DEF Resolving, At
  <2>3. \A q \in Callers : At(q, "commit")' => At(q, "commit") /\ me'[q].i = me[q].i
    BY <1>4 DEF At
  <2> QED BY <1>0, <1>6, <1>d, <2>1, <2>2, <2>3 DEF FreeKeys, Clean
<1>17. GrantsHold'
  <2>1. \A j \in Intents : Granted(j)' => Granted(j) \/ (j = i /\ v = "APPROVED")
    BY <1>3, <1>4 DEF Granted, At
  <2>2. ~Granted(i)
    BY <1>0, <1>2, ServiceAssumption DEF GrantsHold
  <2>3. v = "APPROVED" => p = "pending_capture"
    BY <1>1 DEF Outcome
  <2>4. \A q \in Callers, j \in Intents : Resolving(q, j)' => Resolving(q, j)
    BY <1>4 DEF Resolving, At
  <2> QED BY <1>0, <1>5, <1>6, <1>9, <1>d, <2>1, <2>2, <2>3, <2>4 DEF GrantsHold, Clean
<1>18. Books'
  <2>1. \/ p = "pending_capture" /\ h = db.held \cup {i} /\ r = db.reserved + Amount(i) /\ o = db.open + 1
        \/ p # "pending_capture" /\ h = db.held /\ r = db.reserved /\ o = db.open
    BY <1>1, ServiceAssumption DEF Outcome
  <2>2. ASSUME duelled = {}, shared = {}
        PROVE  h = Live' /\ r = SumFunctionOnSet(Amounts, Live') /\ o = Cardinality(Live')
    <3>1. db.held = Live /\ db.reserved = SumFunctionOnSet(Amounts, Live) /\ db.open = Cardinality(Live)
      BY <1>0, <2>2 DEF Books
    <3>2. CASE p = "pending_capture"
      <4>1. Live' = Live \cup {i}
        BY <1>11, <3>2
      <4>2. IsFiniteSet(Live)
        BY <1>0, <2>2 DEF Books
      <4> QED BY <1>2, <1>10, <2>1, <3>1, <3>2, <4>1, <4>2, LiveSums
    <3>3. CASE p # "pending_capture"
      <4>1. Live' = Live
        BY <1>10, <1>11, <3>3
      <4> QED BY <2>1, <3>1, <3>3, <4>1
    <3> QED BY <3>2, <3>3
  <2>3. Amounts' = Amounts
    BY DEF Amounts, Amount
  <2> QED BY <1>3, <1>5, <1>11, <2>2, <2>3 DEF Books
<1>20. StepUps'
  <2>1. AtAmountThreshold(mandate, Amount(i)) => v # "APPROVED"
    BY <1>0, <1>1, <1>2 DEF StepUps, At, i
  <2>2. AtAmountThreshold(mandate, Amount(i)) => (e.status # None => e.level = "L3+") /\ p # "pending_capture"
    BY <1>1, <2>1, ServiceAssumption DEF Outcome
  <2>3. \A j \in Clean : AtAmountThreshold(mandate, Amount(j)) =>
          /\ db'.escalations[j].status # None => db'.escalations[j].level = "L3+"
          /\ j \in Live' => j \in verified
    BY <1>0, <1>5, <1>6, <1>11, <2>2 DEF StepUps, Clean
  <2> QED BY <1>0, <1>3, <1>4, <1>d, <2>3 DEF StepUps, At
<1> QED BY <1>14, <1>15, <1>16, <1>17, <1>18, <1>20

(* A commit that did not happen: the call goes on to compensate.            *)
LEMMA CommitFailsStep ==
  ASSUME IInv, NEW c \in Callers, At(c, "commit"), NEW q \in Locals, me' = [me EXCEPT ![c] = q],
         q.pc = "compensate", q.i = me[c].i, q.p = me[c].p, UNCHANGED <<world, db, keys, history>>
  PROVE  IInv'
<1>0. /\ Types /\ Names /\ OneAtATime /\ ClaimIsExclusive /\ Agreement /\ Resolvers
      /\ FreeKeys /\ GrantsHold /\ Books /\ GateStillHolds /\ StepUps /\ Announced
      /\ WithinBudget
  BY DEF IInv
<1>1. UNCHANGED <<deployment, now, mandate, offers, db, keys, verified, told, shared, duelled>>
  BY DEF world, history
<1>2. /\ me' \in [Callers -> Locals] /\ me'[c] = q /\ me[c].pc = "commit"
      /\ \A o \in Callers : o # c => me'[o] = me[o]
  BY <1>0, LocalsMove DEF At
<1>c. Clean' = Clean
  BY <1>1 DEF Clean
<1>3. Types' /\ OneAtATime'
  BY <1>0, <1>1, <1>2 DEF Types, OneAtATime, At
<1>3a. Names'
  <2>1. \A o \in Callers : ~At(o, "idle")' => Paired(me[o].i, me[o].p)'
    BY <1>0, <1>1, <1>2 DEF Names, Paired, At
  <2> QED BY <1>0, <1>1, <2>1, NamesStay
<1>4. ClaimIsExclusive' /\ Agreement'
  BY <1>0, <1>1, <1>2, <1>c DEF ClaimIsExclusive, Verifying, Agreement, At
<1>5. Resolvers'
  <2>1. \A o \in Callers, j \in Intents : Resolving(o, j)' <=> Resolving(o, j)
    BY <1>2 DEF Resolving, At
  <2>2. \A o \in Callers : o # c => (At(o, "compensate")' <=> At(o, "compensate")) /\ me'[o].rid = me[o].rid
    BY <1>2 DEF At
  <2>3. \A j \in Clean \ duelled : Resolving(c, j) =>
          db.purchases[j] = "awaiting_escalation" /\ db.escalations[j].status = "pending"
    BY <1>0, <1>2 DEF Resolvers, At
  <2>4. ASSUME NEW j \in Clean \ duelled, NEW o \in Callers, Resolving(o, j)
        PROVE  \/ db.purchases[j] = "awaiting_escalation" /\ db.escalations[j].status = "pending"
               \/ /\ deployment = "memory" /\ At(o, "compensate")' /\ me'[o].rid
                  /\ db.purchases[j] = "pending_capture"
    BY <1>0, <2>2, <2>3, <2>4 DEF Resolvers
  <2> QED BY <1>0, <1>1, <1>c, <2>1, <2>4 DEF Resolvers, Clean
<1>6. FreeKeys' /\ GrantsHold'
  <2>1. \A j \in Intents : (FreeKey(j)' <=> FreeKey(j)) /\ (Granted(j)' <=> Granted(j))
    BY <1>1, <1>2 DEF FreeKey, Granted, At
  <2>2. \A o \in Callers, j \in Intents :
          /\ (Resolving(o, j)' <=> Resolving(o, j))
          /\ (me'[o].i = j /\ At(o, "commit")' => me[o].i = j /\ At(o, "commit"))
    BY <1>2 DEF Resolving, At
  <2> QED BY <1>0, <1>1, <1>c, <2>1, <2>2 DEF FreeKeys, GrantsHold, Clean
<1>7. Books' /\ WithinBudget'
  BY <1>0, <1>1 DEF Books, Live, WithinBudget
<1>8. GateStillHolds' /\ StepUps'
  BY <1>0, <1>1, <1>2, <1>c DEF GateStillHolds, Buying, StepUps, Live, At
<1>9. Announced'
  BY <1>0, <1>1, <1>2, AnnouncedStays
<1> QED BY <1>3, <1>3a, <1>4, <1>5, <1>6, <1>7, <1>8, <1>9 DEF IInv

(* What the unit of work of a commit writes.                                *)
Buys(c, e, h, r) ==
  /\ Effect(db', db, me[c].i, "pending_capture", e, h, r, db.open + 1)
  /\ e.status # "pending" /\ e.level = db.escalations[me[c].i].level
  /\ e.timeout_at = db.escalations[me[c].i].timeout_at
  /\ db.escalations[me[c].i].status = None => e.status = None
  /\ \/ Replayed(db, me[c]) /\ h = db.held /\ r = db.reserved
     \/ ~Replayed(db, me[c]) /\ h = db.held \cup {me[c].i} /\ r = db.reserved + Amount(me[c].i)

(* What a caller about to commit finds, under its own id.                   *)
LEMMA AtCommit ==
  ASSUME IInv, NEW c \in Callers, At(c, "commit"), me[c].i \in Clean
  PROVE  /\ me[c].i \in Intents /\ db \in Stores /\ db.purchases[me[c].i] # None
         /\ me[c].p = me[c].i /\ Honest(db, me[c].i)
         /\ Resolving(c, me[c].i)
         /\ me[c].i \notin duelled => db.purchases[me[c].i] = "awaiting_escalation"
<1>1. Types /\ Names /\ Resolvers
  BY DEF IInv
<1>2. /\ me[c].i \in Intents /\ db \in Stores /\ Resolving(c, me[c].i)
      /\ me[c].p = me[c].i /\ Honest(db, me[c].i)
  <2>1. ~At(c, "idle")
    BY DEF At
  <2> QED BY <1>1, <2>1, WhoseCall DEF At, Resolving
<1>3. db.purchases[me[c].i] # None
  BY <1>1, <1>2, ServiceAssumption DEF Resolvers
<1>4. me[c].i \notin duelled => db.purchases[me[c].i] = "awaiting_escalation"
  BY <1>1, <1>2 DEF Resolvers, At
<1> QED BY <1>2, <1>3, <1>4

LEMMA CommitIs ==
  ASSUME IInv, NEW c \in Callers, Commit(c), me[c].i \in Clean
  PROVE  \/ /\ \E e, h, r : Buys(c, e, h, r)
            /\ me' = [me EXCEPT ![c] = Idle]
         \/ /\ \E e, h, r : Buys(c, e, h, r)
            /\ deployment = "memory"
            /\ me' = [me EXCEPT ![c].pc = "compensate", ![c].rid = TRUE]
         \/ /\ db' = db
            /\ me' = [me EXCEPT ![c].pc = "compensate", ![c].rid = TRUE]
<1> DEFINE i == me[c].i
           done(k) == AppendFirst(ResolvedDb(db, me[c]), ResolvedEvents, k, i)
<1>0. /\ i \in Intents /\ db \in Stores /\ db.purchases[i] # None /\ At(c, "commit")
      /\ me[c].p = i /\ Honest(db, i)
  BY AtCommit DEF Commit
<1>2. ASSUME NEW k \in 0..2, db' = done(k)
      PROVE  \E e, h, r : Buys(c, e, h, r)
  <2>1. PICK e, h, r :
               /\ Effect(db', db, i, "pending_capture", e, h, r, db.open + 1)
               /\ e.status # "pending" /\ e.level = db.escalations[i].level
               /\ e.timeout_at = db.escalations[i].timeout_at
               /\ db.escalations[i].status = None => e.status = None
               /\ \/ Replayed(db, me[c]) /\ h = db.held /\ r = db.reserved
                  \/ ~Replayed(db, me[c]) /\ h = db.held \cup {i} /\ r = db.reserved + Amount(i)
               /\ k = 2 => <<"purchase.verified", i>> \in done(k).outbox
    BY <1>0, <1>2, ResolvedEffect
  <2>2. Buys(c, e, h, r)
    BY <2>1 DEF Buys
  <2> QED BY <2>2
<1>3. CASE db' = done(2) /\ me' = [me EXCEPT ![c] = Idle]
  BY <1>2, <1>3
<1>4. ASSUME NEW k \in 0..1, db' = Failed(db, done(k)),
             me' = [me EXCEPT ![c].pc = "compensate", ![c].rid = TRUE]
      PROVE  (deployment = "memory" /\ \E e, h, r : Buys(c, e, h, r)) \/ db' = db
  <2>1. (deployment = "memory" /\ db' = done(k)) \/ db' = db
    <3> HIDE DEF done
    <3> QED BY <1>4, FailedIs
  <2>2. k \in 0..2
    OBVIOUS
  <2> HIDE DEF done
  <2> QED BY <2>1, <2>2, <1>2
<1>5. \/ db' = done(2) /\ me' = [me EXCEPT ![c] = Idle]
      \/ \E k \in 0..1 : /\ db' = Failed(db, done(k))
                         /\ me' = [me EXCEPT ![c].pc = "compensate", ![c].rid = TRUE]
  BY <1>0 DEF Commit
<1> HIDE DEF done
<1> QED BY <1>3, <1>4, <1>5

(* The commit wrote: the call is over, or in memory it goes on to           *)
(* compensate what it wrote.                                                *)
LEMMA BuyStep ==
  ASSUME IInv, NEW c \in Callers, At(c, "commit"), \E s, r, o : Writes(c, s, r, o),
         me[c].i \in Clean => \E e, h, r : Buys(c, e, h, r),
         NEW q \in Locals, me' = [me EXCEPT ![c] = q], UNCHANGED <<world, keys, history>>,
         \/ q.pc = "idle"
         \/ /\ q.pc = "compensate" /\ q.i = me[c].i /\ q.p = me[c].p /\ q.rid = TRUE
            /\ me[c].i \in Clean => deployment = "memory"
  PROVE  IInv'
<1>0. /\ Types /\ Names /\ OneAtATime /\ ClaimIsExclusive /\ Agreement /\ Resolvers
      /\ FreeKeys /\ GrantsHold /\ Books /\ GateStillHolds /\ StepUps /\ Announced
      /\ WithinBudget
  BY DEF IInv
<1>a. /\ Types' /\ Names' /\ OneAtATime' /\ ClaimIsExclusive' /\ GateStillHolds'
      /\ Announced' /\ WithinBudget'
      /\ me[c].i \notin Clean =>
           Agreement' /\ Resolvers' /\ FreeKeys' /\ GrantsHold' /\ Books' /\ StepUps'
  <2>1. /\ me' \in [Callers -> Locals] /\ me'[c] = q
        /\ \A o \in Callers : o # c => me'[o] = me[o]
    BY <1>0, LocalsMove
  <2>2. ~At(c, "idle")
    BY DEF At
  <2> QED BY <2>1, <2>2, WriteStep
<1>b. SUFFICES ASSUME me[c].i \in Clean
               PROVE  Agreement' /\ Resolvers' /\ FreeKeys' /\ GrantsHold' /\ Books' /\ StepUps'
  BY <1>a DEF IInv
<1>d. PICK e, h, r : Buys(c, e, h, r)
  BY <1>b
<1> DEFINE i == me[c].i
           w == "pending_capture"
<1>1. UNCHANGED <<deployment, now, mandate, offers, keys, verified, told, shared, duelled>>
  BY DEF world, history
<1>2. /\ i \in Intents /\ db \in Stores /\ db.purchases[i] # None /\ Resolving(c, i)
      /\ i \notin duelled => db.purchases[i] = "awaiting_escalation"
      /\ i \in Clean /\ me[c].i = i /\ me[c].p = i /\ Honest(db, i)
  BY <1>b, AtCommit
<1>3. /\ Effect(db', db, i, w, e, h, r, db.open + 1)
      /\ e.status # "pending" /\ e.level = db.escalations[i].level
      /\ e.timeout_at = db.escalations[i].timeout_at
      /\ db.escalations[i].status = None => e.status = None
      /\ \/ Replayed(db, me[c]) /\ h = db.held /\ r = db.reserved
         \/ ~Replayed(db, me[c]) /\ h = db.held \cup {i} /\ r = db.reserved + Amount(i)
  BY <1>d DEF Buys
<1>4. /\ me' \in [Callers -> Locals] /\ me'[c] = q /\ me[c].pc = "commit"
      /\ \A o \in Callers : o # c => me'[o] = me[o]
  BY <1>0, LocalsMove DEF At
<1>5. \/ q.pc = "idle"
      \/ deployment = "memory" /\ q.pc = "compensate" /\ q.i = i /\ q.rid
  BY <1>b
<1>c. Clean' = Clean
  BY <1>1 DEF Clean
<1> HIDE DEF i
<1>6. /\ db' \in Stores /\ db'.purchases[i] = w /\ db'.escalations[i] = e
      /\ db'.held = h /\ db'.reserved = r /\ db'.open = db.open + 1
      /\ db.outbox \subseteq db'.outbox
  <2>1. db.outbox \subseteq db'.outbox
    BY <1>3 DEF Effect
  <2> QED BY <1>2, <1>3, <2>1, EffectFields
<1>7. \A j \in Intents : j # i => /\ db'.purchases[j] = db.purchases[j]
                                 /\ db'.escalations[j] = db.escalations[j]
  BY <1>2, <1>3, OthersStay
<1>7a. \A j \in Intents : j # i => (j \in db'.held <=> j \in db.held)
  BY <1>3, <1>6
<1>8. (shared = {} => IsFiniteSet(Live')) /\ Live' = Live \cup {i}
  BY <1>0, <1>2, <1>3, LiveMoves DEF Books
<1>9. \A o \in Callers, j \in Intents : Resolving(o, j)' =>
        /\ Resolving(o, j)
        /\ o # c => (At(o, "compensate")' <=> At(o, "compensate")) /\ me'[o].rid = me[o].rid
  BY <1>4, <1>5 DEF Resolving, At, i
<1>13. Agreement'
  <2>1. \A o \in Callers : At(o, "apply")' => At(o, "apply") /\ me'[o].i = me[o].i
    BY <1>4, <1>5 DEF At
  <2>2. \A o \in Callers : At(o, "apply") /\ me[o].i \in Clean => me[o].i # i /\ me[o].i \in Intents
    BY <1>0, <1>2 DEF Agreement, Clean
  <2> QED BY <1>0, <1>1, <1>3, <1>6, <1>7, <1>7a, <1>c, <2>1, <2>2, ServiceAssumption DEF Agreement, Clean
<1>14. Resolvers'
  <2>1. \A o \in Callers, j \in Intents : Resolving(o, j)' /\ j = i /\ o # c => j \in duelled
    BY <1>0, <1>2, <1>9 DEF Resolvers
  <2>2. \A j \in Intents : Resolving(c, j)' => deployment = "memory" /\ At(c, "compensate")' /\ me'[c].rid
    BY <1>4, <1>5 DEF Resolving, At
  <2>3. \A o \in Callers, j \in Intents : Resolving(o, j)' /\ j # i => o # c
    BY <1>4, <1>5 DEF Resolving, At
  <2> QED BY <1>0, <1>1, <1>6, <1>7, <1>9, <1>c, <2>1, <2>2, <2>3 DEF Resolvers, Clean
<1>15. FreeKeys'
  <2>1. \A j \in Intents : FreeKey(j)' => FreeKey(j)
    BY <1>1, <1>4, <1>5 DEF FreeKey, At
  <2>2. ~FreeKey(i)
    BY <1>0, <1>2, <1>4 DEF FreeKeys, At, i
  <2>3. \A o \in Callers : At(o, "commit")' => At(o, "commit") /\ me'[o].i = me[o].i
    BY <1>4, <1>5 DEF At
  <2> QED BY <1>0, <1>7, <1>9, <1>c, <2>1, <2>2, <2>3 DEF FreeKeys, Clean
<1>16. GrantsHold'
  <2>1. \A j \in Intents : Granted(j)' => Granted(j)
    BY <1>1, <1>4, <1>5 DEF Granted, At
  <2> QED BY <1>0, <1>2, <1>7, <1>9, <1>c, <2>1 DEF GrantsHold, Clean
<1>17. Books'
  <2>1. ASSUME duelled = {}, shared = {}
        PROVE  h = Live' /\ r = SumFunctionOnSet(Amounts, Live') /\ db.open + 1 = Cardinality(Live')
    <3>1. db.held = Live /\ db.reserved = SumFunctionOnSet(Amounts, Live) /\ db.open = Cardinality(Live)
      BY <1>0, <2>1 DEF Books
    <3>2. db.purchases[i] = "awaiting_escalation" /\ i \notin Live
      BY <1>2, <2>1 DEF Live
    <3>3. ~Replayed(db, me[c])
      BY <1>2, <3>1, <3>2, OwnMoney
    <3>4. IsFiniteSet(Live)
      BY <1>0, <2>1 DEF Books
    <3> QED BY <1>2, <1>3, <1>8, <3>1, <3>2, <3>3, <3>4, LiveSums
  <2>2. Amounts' = Amounts
    BY DEF Amounts, Amount
  <2> QED BY <1>1, <1>6, <1>8, <2>1, <2>2 DEF Books
<1>19. StepUps'
  <2>1. AtAmountThreshold(mandate, Amount(i)) => i \in verified
    BY <1>0, <1>2, <1>4 DEF StepUps, At
  <2>2. \A j \in Clean : AtAmountThreshold(mandate, Amount(j)) =>
          /\ db'.escalations[j].status # None => db'.escalations[j].level = "L3+"
          /\ j \in Live' => j \in verified
    BY <1>0, <1>3, <1>6, <1>7, <1>8, <2>1 DEF StepUps, Clean
  <2> QED BY <1>0, <1>1, <1>4, <1>5, <1>c, <2>2 DEF StepUps, At
<1> QED BY <1>13, <1>14, <1>15, <1>16, <1>17, <1>19

LEMMA CommitStep ==
  ASSUME IInv, NEW c \in Callers, Commit(c)
  PROVE  IInv'
<1> DEFINE q == [me[c] EXCEPT !.pc = "compensate", !.rid = TRUE]
<1>1. At(c, "commit") /\ UNCHANGED <<world, keys, history>> /\ Types
  BY DEF Commit, IInv
<1>2. q \in Locals /\ q.pc = "compensate" /\ q.i = me[c].i /\ q.p = me[c].p /\ q.rid = TRUE
  <2>1. me[c] \in Locals /\ "compensate" \in PC
    BY <1>1 DEF Types, PC
  <2> QED BY <2>1 DEF Locals
<1>3. me' = [me EXCEPT ![c].pc = "compensate", ![c].rid = TRUE] => me' = [me EXCEPT ![c] = q]
  <2>1. me[c] \in Locals /\ me \in [Callers -> Locals]
    BY <1>1 DEF Types
  <2> QED BY <2>1 DEF Locals
<1> HIDE DEF q
<1> DEFINE Goes == me' = [me EXCEPT ![c].pc = "compensate", ![c].rid = TRUE]
           Ends == me' = [me EXCEPT ![c] = Idle]
           Wrote == \E s, r, o : Writes(c, s, r, o)
           Bought == \E e, h, r : Buys(c, e, h, r)
<1>4. (db' = db /\ Goes) \/ (Wrote /\ (Ends \/ Goes))
  BY CommitWrites
<1>5. me[c].i \in Clean =>
        (Bought /\ Ends) \/ (Bought /\ deployment = "memory" /\ Goes) \/ (db' = db /\ Goes)
  BY CommitIs
<1>6. CASE db' = db /\ Goes
  BY <1>1, <1>2, <1>3, <1>6, CommitFailsStep
<1>7. CASE Wrote /\ Ends /\ (me[c].i \in Clean => Bought)
  BY <1>1, <1>7, BuyStep, IdleLocals
<1>8. CASE Wrote /\ Goes /\ (me[c].i \in Clean => Bought /\ deployment = "memory")
  BY <1>1, <1>2, <1>3, <1>8, BuyStep
<1>9. ~(Ends /\ Goes)
  <2>1. ASSUME Ends, Goes PROVE FALSE
    <3>1. me'[c].pc = "idle" /\ me'[c].pc = "compensate"
      BY <1>1, <1>2, <1>3, <2>1, IdleLocals DEF Types
    <3> QED BY <3>1
  <2> QED BY <2>1
<1> HIDE DEF Goes, Ends, Wrote, Bought
<1> QED BY <1>4, <1>5, <1>6, <1>7, <1>8, <1>9

LEMMA CommitUnreservedStep ==
  ASSUME IInv, NEW c \in Callers, CommitUnreserved(c)
  PROVE  IInv'
<1> DEFINE q == [me[c] EXCEPT !.pc = "compensate"]
<1>1. At(c, "commit") /\ UNCHANGED <<world, db, keys, history>> /\ Types
  BY DEF CommitUnreserved, IInv
<1>2. me[c] \in Locals /\ me \in [Callers -> Locals] /\ "compensate" \in PC
  BY <1>1 DEF Types, PC
<1>3. q \in Locals /\ q.pc = "compensate" /\ q.i = me[c].i /\ q.p = me[c].p
  BY <1>2 DEF Locals
<1>4. me' = [me EXCEPT ![c] = q]
  BY <1>2 DEF Locals, CommitUnreserved
<1> HIDE DEF q
<1> QED BY <1>1, <1>3, <1>4, CommitFailsStep

LEMMA CompensateStep ==
  ASSUME IInv, NEW c \in Callers, Compensate(c)
  PROVE  IInv'
<1>0. /\ Types /\ Names /\ OneAtATime /\ ClaimIsExclusive /\ Agreement /\ Resolvers
      /\ FreeKeys /\ GrantsHold /\ Books /\ GateStillHolds /\ StepUps /\ Announced
      /\ WithinBudget
  BY DEF IInv
<1>b. /\ me' \in [Callers -> Locals] /\ me'[c].pc = "idle" /\ ~At(c, "idle")
      /\ \A q \in Callers : q # c => me'[q] = me[q]
  BY <1>0, IdleLocals, LocalsMove DEF Compensate, At
<1>c. /\ Types' /\ Names' /\ OneAtATime' /\ ClaimIsExclusive' /\ GateStillHolds'
      /\ Announced' /\ WithinBudget'
      /\ me[c].i \notin Clean =>
           Agreement' /\ Resolvers' /\ FreeKeys' /\ GrantsHold' /\ Books' /\ StepUps'
  <2>1. PICK s, r, o : Writes(c, s, r, o)
    BY CompensateWrites
  <2>2. UNCHANGED <<world, keys, history>>
    BY DEF Compensate
  <2> QED BY <1>b, <2>1, <2>2, WriteStep
<1>d. SUFFICES ASSUME me[c].i \in Clean
               PROVE  Agreement' /\ Resolvers' /\ FreeKeys' /\ GrantsHold' /\ Books' /\ StepUps'
  BY <1>c DEF IInv
<1> DEFINE i == me[c].i
<1>1. UNCHANGED <<deployment, now, mandate, offers, keys, verified, told, shared, duelled>>
  BY DEF Compensate, world, history
<1>2. /\ i \in Intents /\ db \in Stores /\ Resolving(c, i) /\ me[c].pc = "compensate"
      /\ i \in Clean /\ me[c].i = i /\ me[c].p = i /\ Honest(db, i)
  BY <1>0, <1>b, <1>d, WhoseCall DEF Compensate, Types, At, Resolving
<1>2a. db.purchases[i] # None /\ db.reserved \in Nat /\ db.open \in Nat /\ Amount(i) \in Nat
  <2>1. db.purchases[i] \in {"awaiting_escalation", "pending_capture", "compensated"}
    BY <1>0, <1>2 DEF Resolvers
  <2> QED BY <1>2, <2>1, ServiceAssumption DEF Stores, Amount, PurchaseIntent, Money
<1>3. PICK p, e, h, r, o :
        /\ Effect(db', db, i, p, e, h, r, o)
        /\ \/ /\ p = "compensated" /\ e.status # "pending"
              /\ e.level = db.escalations[i].level
              /\ e.timeout_at = db.escalations[i].timeout_at
              /\ db.escalations[i].status = None => e.status = None
           \/ /\ deployment # "memory"
              /\ p = db.purchases[i] /\ e = db.escalations[i]
        /\ \/ /\ h = db.held /\ r = db.reserved /\ o = db.open
              /\ deployment = "memory" => ~(Reservation(c) /\ CanRelease(db, me[c]))
           \/ /\ Reservation(c) /\ CanRelease(db, me[c])
              /\ h = db.held \ {i} /\ r = db.reserved - Amount(i)
              /\ o = IF db.open > 0 THEN db.open - 1 ELSE 0
  BY <1>0, <1>d, CompensateEffect
<1>4. /\ me' \in [Callers -> Locals] /\ me'[c].pc = "idle"
      /\ \A q \in Callers : q # c => me'[q] = me[q]
  BY <1>b
<1>a. me[c].rid => Reservation(c)
  BY DEF Reservation
<1>e. Clean' = Clean
  BY <1>1 DEF Clean
<1> HIDE DEF i
<1>5. /\ db' \in Stores /\ db'.purchases[i] = p /\ db'.escalations[i] = e
      /\ db'.held = h /\ db'.reserved = r /\ db'.open = o
      /\ db.outbox \subseteq db'.outbox
  <2>1. db.outbox \subseteq db'.outbox
    BY <1>3 DEF Effect
  <2> QED BY <1>2, <1>3, <2>1, EffectFields
<1>6. \A j \in Intents : j # i => /\ db'.purchases[j] = db.purchases[j]
                                 /\ db'.escalations[j] = db.escalations[j]
  BY <1>2, <1>3, OthersStay
<1>6a. \A j \in Intents : j # i => (j \in db'.held <=> j \in db.held)
  BY <1>3, <1>5
<1>7. (shared = {} => IsFiniteSet(Live')) /\ Live' = IF p = "pending_capture" THEN Live \cup {i} ELSE Live \ {i}
  BY <1>0, <1>2, <1>3, LiveMoves DEF Books
<1>8. p = "pending_capture" => deployment # "memory" /\ i \in Live /\ e = db.escalations[i]
  BY <1>2, <1>3 DEF Live
<1>9. \A q \in Callers, j \in Intents : Resolving(q, j)' =>
        /\ Resolving(q, j) /\ q # c
        /\ (At(q, "compensate")' <=> At(q, "compensate")) /\ me'[q].rid = me[q].rid
  BY <1>4 DEF Resolving, At
<1>13. Agreement'
  <2>1. \A q \in Callers : At(q, "apply")' => At(q, "apply") /\ me'[q].i = me[q].i
    BY <1>4 DEF At
  <2>2. \A q \in Callers : At(q, "apply") /\ me[q].i \in Clean => me[q].i # i /\ me[q].i \in Intents
    BY <1>0, <1>2, <1>2a DEF Agreement, Clean
  <2>3. p # None /\ (e.status = "pending" => p = "awaiting_escalation")
    BY <1>0, <1>2, <1>2a, <1>3, ServiceAssumption DEF Agreement
  <2> QED BY <1>0, <1>1, <1>5, <1>6, <1>6a, <1>e, <2>1, <2>2, <2>3 DEF Agreement, Clean
<1>14. Resolvers'
  <2>1. \A q \in Callers, j \in Intents : Resolving(q, j)' /\ j = i => j \in duelled
    BY <1>0, <1>2, <1>9 DEF Resolvers
  <2>2. p \in {"awaiting_escalation", "pending_capture", "compensated"}
    BY <1>0, <1>2, <1>3 DEF Resolvers
  <2> QED BY <1>0, <1>1, <1>5, <1>6, <1>9, <1>e, <2>1, <2>2 DEF Resolvers, Clean
<1>15. FreeKeys'
  <2>1. \A j \in Intents : FreeKey(j)' => FreeKey(j)
    BY <1>1, <1>4 DEF FreeKey, At
  <2>2. FreeKey(i) => p # "pending_capture"
    BY <1>0, <1>2, <1>8 DEF FreeKeys, Live
  <2>3. \A q \in Callers : At(q, "commit")' => At(q, "commit") /\ me'[q].i = me[q].i
    BY <1>4 DEF At
  <2>4. e.timeout_at = db.escalations[i].timeout_at
    BY <1>3
  <2> QED BY <1>0, <1>2, <1>5, <1>6, <1>9, <1>e, <2>1, <2>2, <2>3, <2>4 DEF FreeKeys, Clean
<1>16. GrantsHold'
  <2>1. \A j \in Intents : Granted(j)' => Granted(j)
    BY <1>1, <1>4 DEF Granted, At
  <2> QED BY <1>0, <1>2, <1>6, <1>9, <1>e, <2>1 DEF GrantsHold, Clean
<1>17. Books'
  <2>1. ASSUME duelled = {}, shared = {}
        PROVE  h = Live' /\ r = SumFunctionOnSet(Amounts, Live') /\ o = Cardinality(Live')
    <3>1. db.held = Live /\ db.reserved = SumFunctionOnSet(Amounts, Live) /\ db.open = Cardinality(Live)
      BY <1>0, <2>1 DEF Books
    <3>2. CASE db.purchases[i] = "awaiting_escalation"
      <4>1. i \notin Live /\ p # "pending_capture"
        BY <1>8, <3>2 DEF Live
      <4>2. ~CanRelease(db, me[c])
        BY <1>2, <1>2a, <3>1, <3>2, <4>1, ServiceAssumption DEF CanRelease
      <4> QED BY <1>3, <1>7, <3>1, <4>1, <4>2
    <3>3. CASE /\ deployment = "memory" /\ me[c].rid
               /\ db.purchases[i] = "pending_capture"
      <4>1. i \in Live /\ p # "pending_capture"
        BY <1>2, <1>8, <3>3 DEF Live
      <4>2. /\ Amount(i) <= db.reserved /\ db.open > 0
            /\ SumFunctionOnSet(Amounts, Live \ {i}) = db.reserved - Amount(i)
            /\ Cardinality(Live \ {i}) = db.open - 1
        BY <1>0, <1>2, <2>1, <3>1, <4>1, LiveSums DEF Books
      <4>3. CanRelease(db, me[c]) /\ Reservation(c)
        <5>1. Refund(db, me[c]) = Amount(i) /\ me[c].p \in db.held
          BY <1>2, <3>1, <4>1 DEF Refund, Honest
        <5> QED BY <1>2a, <1>a, <3>1, <3>3, <4>2, <5>1 DEF CanRelease
      <4> QED BY <1>3, <1>7, <3>1, <3>3, <4>1, <4>2, <4>3
    <3> QED BY <1>0, <1>2, <2>1, <3>2, <3>3 DEF Resolvers
  <2>2. Amounts' = Amounts
    BY DEF Amounts, Amount
  <2> QED BY <1>1, <1>5, <1>7, <2>1, <2>2 DEF Books
<1>19. StepUps'
  <2>1. Live' \subseteq Live
    BY <1>7, <1>8
  <2>2. /\ e.level = db.escalations[i].level
        /\ db.escalations[i].status = None => e.status = None
    BY <1>3
  <2>3. \A j \in Clean : AtAmountThreshold(mandate, Amount(j)) =>
          /\ db'.escalations[j].status # None => db'.escalations[j].level = "L3+"
          /\ j \in Live' => j \in verified
    BY <1>0, <1>2, <1>5, <1>6, <2>1, <2>2 DEF StepUps, Clean
  <2> QED BY <1>0, <1>1, <1>4, <1>e, <2>3 DEF StepUps, At
<1> QED BY <1>13, <1>14, <1>15, <1>16, <1>17, <1>19

LEMMA ForgetKeysStep ==
  ASSUME IInv, ForgetKeys
  PROVE  IInv'
<1>0. /\ Types /\ Names /\ OneAtATime /\ ClaimIsExclusive /\ Agreement /\ Resolvers
      /\ FreeKeys /\ GrantsHold /\ Books /\ GateStillHolds /\ StepUps /\ Announced
      /\ WithinBudget
  BY DEF IInv
<1>1. UNCHANGED <<deployment, now, mandate, offers, me, verified, told, shared, duelled>>
  BY DEF ForgetKeys, world, history
<1>2. \A c \in Callers : me[c].pc = "idle"
  BY DEF ForgetKeys, Quiet, At
<1>3. keys' \in Keys /\ \A i \in Intents : keys'[i] = NoKey
  BY DEF ForgetKeys, Keys, NoKey
<1> DEFINE E == [i \in Intents |-> [db.escalations[i] EXCEPT !.timeout_at = 0]]
           T == [t \in 0..MaxTime |-> 0]
<1>4. db' = [db EXCEPT !.intents = T, !.asked = 0, !.cooldown = 0, !.escalations = E]
  BY <1>0 DEF ForgetKeys, Types, Stores
<1>5. T \in [0..MaxTime -> Nat]
  OBVIOUS
<1>6. /\ E \in [Intents -> Escalations]
      /\ \A i \in Intents : /\ E[i].status = db.escalations[i].status
                            /\ E[i].level = db.escalations[i].level /\ E[i].timeout_at = 0
                            /\ E[i].p = db.escalations[i].p
  <2>1. \A i \in Intents : db.escalations[i] \in Escalations
    BY <1>0 DEF Types, Stores
  <2> QED BY <2>1 DEF Escalations
<1> HIDE DEF E, T
<1>7. /\ db' \in Stores /\ db'.purchases = db.purchases /\ db'.escalations = E
      /\ db'.held = db.held /\ db'.reserved = db.reserved /\ db'.open = db.open
      /\ db'.outbox = db.outbox /\ db'.owner = db.owner /\ db'.holder = db.holder
  BY <1>0, <1>4, <1>5, <1>6 DEF Types, Stores
<1>8. Types' /\ OneAtATime'
  BY <1>0, <1>1, <1>3, <1>7 DEF Types, OneAtATime, At
<1>a. Clean' = Clean
  BY <1>1 DEF Clean
<1>b. Names'
  BY <1>0, <1>1, <1>2, <1>6, <1>7 DEF Names, Paired, At
<1>9. ClaimIsExclusive' /\ Resolvers'
  BY <1>1, <1>2, <1>3 DEF ClaimIsExclusive, Resolvers, Verifying, Resolving, At, NoKey
<1>10. Agreement'
  BY <1>0, <1>1, <1>2, <1>6, <1>7, <1>a DEF Agreement, Clean, At
<1>11. FreeKeys'
  BY <1>1, <1>2, <1>6, <1>7 DEF FreeKeys, Clean, Resolving, At
<1>12. GrantsHold'
  <2>1. \A i \in Intents : Granted(i)' => i \in told
    BY <1>1, <1>2, <1>3, ServiceAssumption DEF Granted, At, NoKey
  <2>2. \A i \in Intents : i \in told => Granted(i)
    BY DEF Granted
  <2> QED BY <1>0, <1>1, <1>2, <1>7, <1>a, <2>1, <2>2 DEF GrantsHold, Clean, Resolving, At
<1>13. Live' = Live
  BY <1>7 DEF Live
<1>14. Books' /\ WithinBudget'
  BY <1>0, <1>1, <1>7, <1>13 DEF Books, WithinBudget, Amounts
<1>15. GateStillHolds' /\ StepUps'
  BY <1>0, <1>1, <1>2, <1>6, <1>7, <1>13, <1>a DEF GateStillHolds, Buying, StepUps, Clean, At
<1>16. Announced'
  BY <1>0, <1>1, <1>7, <1>13 DEF Announced, At
<1> QED BY <1>b, <1>8, <1>9, <1>10, <1>11, <1>12, <1>14, <1>15, <1>16 DEF IInv

----------------------------------------------------------------------------
(* The invariant of every behaviour *)

LEMMA InitInv ==
  ASSUME Init
  PROVE  IInv
<1>1. /\ deployment \in {"memory", "postgres"} /\ mandate \in MandateClaims
      /\ now = 0 /\ db = EmptyDb /\ keys = [i \in Intents |-> NoKey]
      /\ me = [c \in Callers |-> Idle]
      /\ verified = {} /\ told = {} /\ shared = {} /\ duelled = {}
  BY ServiceAssumption DEF Init
<1>2. /\ \A i \in Intents : db.purchases[i] = None /\ db.escalations[i] = NoEscalation
      /\ db.held = {} /\ db.reserved = 0 /\ db.open = 0 /\ db.outbox = {}
      /\ \A i \in Intents : db.owner[i] = None
  BY <1>1 DEF EmptyDb
<1>3. db \in Stores
  <2>1. NoEscalation \in Escalations
    BY DEF NoEscalation, Escalations, Levels
  <2>2. None \in PurchaseStatus
    BY DEF PurchaseStatus
  <2> QED BY <1>1, <2>1, <2>2 DEF EmptyDb, Stores
<1>4. \A c \in Callers : me[c] = Idle /\ me[c].pc = "idle"
  BY <1>1, IdleLocals
<1>5. Types
  <2>1. keys \in Keys
    BY <1>1 DEF Keys, NoKey
  <2>2. me \in [Callers -> Locals]
    BY <1>1, IdleLocals
  <2>3. now \in 0..MaxTime
    BY <1>1, ServiceAssumption
  <2> QED BY <1>1, <1>3, <1>4, <2>1, <2>2, <2>3 DEF Types, At
<1>6. OneAtATime /\ ClaimIsExclusive
  BY <1>1, <1>4 DEF OneAtATime, ClaimIsExclusive, Verifying, At, NoKey
<1>a. Names
  BY <1>2, <1>4 DEF Names, At, NoEscalation
<1>7. Agreement /\ Resolvers
  BY <1>2, <1>4, ServiceAssumption DEF Agreement, Resolvers, Resolving, At, NoEscalation, Clean
<1>8. FreeKeys
  BY <1>2, <1>4 DEF FreeKeys, Resolving, At, NoEscalation, Clean
<1>9. GrantsHold
  BY <1>1, <1>4, ServiceAssumption DEF GrantsHold, Granted, At, NoKey, Clean
<1>10. Live = {}
  BY <1>2, ServiceAssumption DEF Live
<1>11. Books
  <2>1. IsFiniteSet({}) /\ Cardinality({}) = 0
    BY FS_EmptySet
  <2>2. SumFunctionOnSet(Amounts, {}) = 0
    BY <2>1, SumType
  <2> QED BY <1>2, <1>10, <2>1, <2>2 DEF Books
<1>12. GateStillHolds
  BY <1>2, <1>4, GateAssumption DEF GateStillHolds, Buying, At
<1>13. StepUps /\ Announced
  BY <1>2, <1>4, <1>10 DEF StepUps, Announced, At, NoEscalation, Clean
<1>14. WithinBudget
  BY <1>1, <1>2 DEF WithinBudget, MandateClaims, Money
<1> QED BY <1>a, <1>5, <1>6, <1>7, <1>8, <1>9, <1>11, <1>12, <1>13, <1>14 DEF IInv

LEMMA Inductive ==
  ASSUME IInv, [Next]_vars
  PROVE  IInv'
<1>1. ASSUME NEW c \in Callers, Verify(c) PROVE IInv'
  <2>1. ASSUME NEW i \in Intents, NEW p \in PurchaseIds[i], NEW r \in Requests, Claim(c, i, p, r) PROVE IInv'
    BY <2>1, ClaimStep
  <2>2. ASSUME NEW i \in Intents, NEW r \in Requests, ClaimConflict(c, i, r) PROVE IInv'
    <3>1. UNCHANGED <<deployment, now, mandate, db, keys, me, verified, told, shared, duelled>>
      BY <2>2 DEF ClaimConflict, vars, world, history
    <3>2. now' \in 0..MaxTime /\ told' \subseteq Intents
      BY <3>1 DEF IInv, Types
    <3> QED BY <3>1, <3>2, HistoryStep
  <2>3. ASSUME NEW i \in Intents, NEW r \in Requests, Replay(c, i, r) PROVE IInv'
    <3>1. UNCHANGED <<deployment, now, mandate, db, keys, me, verified, shared, duelled>>
      BY <2>3 DEF Replay, world
    <3>2. now' \in 0..MaxTime /\ told' \subseteq Intents
      BY <2>3, <3>1 DEF Replay, IInv, Types
    <3>3. \A j \in Intents : j \in told' => j \in told \/ keys[j].response = "APPROVED"
      BY <2>3 DEF Replay
    <3> QED BY <3>1, <3>2, <3>3, HistoryStep
  <2>4. CASE Decide(c)
    <3>1. ASSUME NEW p \in RowsOf(me[c].i),
                 me' = [me EXCEPT ![c].pc = "finish",
                                  ![c].dec.verdict = result_for_existing_purchase(db.purchases[p])]
          PROVE  IInv'
      BY <2>4, <3>1, DecideExisting
    <3>2. ASSUME RowsOf(me[c].i) = {},
                 me' = [me EXCEPT ![c].pc = "apply", ![c].dec = Evaluate(me[c].i, me[c].at, FALSE)]
          PROVE  IInv'
      BY <2>4, <3>2, DecideNew
    <3> QED BY <2>4, <3>1, <3>2 DEF Decide
  <2>5. CASE ApplyRejected(c) \/ ApplyEscalated(c) \/ ApplyApproved(c) \/ ApplyUnreserved(c)
    <3>1. At(c, "apply") /\ UNCHANGED <<world, keys, history>>
      BY <2>5 DEF ApplyRejected, ApplyEscalated, ApplyApproved, ApplyUnreserved, Conclude
    <3>2. \E v, s, r, o : Writes(c, s, r, o) /\ Answers(c, v)
      BY <2>5, ApplyWrites
    <3>3. me[c].i \in Clean => Applies(c)
      BY <2>5, ApplyRejectedIs, ApplyEscalatedIs, ApplyApprovedIs
    <3> QED BY <3>1, <3>2, <3>3, ApplyStep
  <2>6. CASE Finish(c)
    BY <2>6, FinishStep
  <2>7. CASE FinishFails(c)
    BY <2>7, LeaveStep DEF FinishFails
  <2> QED BY <1>1, <2>1, <2>2, <2>3, <2>4, <2>5, <2>6, <2>7 DEF Verify
<1>2. ASSUME NEW c \in Callers, ResolveEscalation(c) PROVE IInv'
  BY <1>2, ResolveStep, CommitStep, CommitUnreservedStep, CompensateStep DEF ResolveEscalation
<1>3. ASSUME NEW c \in Callers, Die(c) PROVE IInv'
  BY <1>3, LeaveStep DEF Die
<1>4. CASE Tick
  <2>1. UNCHANGED <<deployment, mandate, db, keys, me, verified, told, shared, duelled>>
    BY <1>4 DEF Tick, history
  <2>2. now' \in 0..MaxTime
    BY <1>4, ServiceAssumption DEF Tick, IInv, Types
  <2>3. told' \subseteq Intents
    BY <2>1 DEF IInv, Types
  <2> QED BY <2>1, <2>2, <2>3, HistoryStep
<1>5. ASSUME NEW st \in Statuses, SetStatus(st) PROVE IInv'
  BY <1>5, SetStatusStep
<1>6. ASSUME NEW o \in DOMAIN Offers, NEW p \in Prices, SetPrice(o, p) PROVE IInv'
  <2>1. UNCHANGED <<deployment, now, mandate, db, keys, me, verified, told, shared, duelled>>
    BY <1>6 DEF SetPrice, history
  <2>2. now' \in 0..MaxTime /\ told' \subseteq Intents
    BY <2>1 DEF IInv, Types
  <2> QED BY <2>1, <2>2, HistoryStep
<1>7. CASE ForgetKeys
  BY <1>7, ForgetKeysStep
<1>8. CASE UNCHANGED vars
  <2>1. UNCHANGED <<deployment, now, mandate, db, keys, me, verified, told, shared, duelled>>
    BY <1>8 DEF vars, world, history
  <2>2. now' \in 0..MaxTime /\ told' \subseteq Intents
    BY <2>1 DEF IInv, Types
  <2> QED BY <2>1, <2>2, HistoryStep
<1> QED BY <1>1, <1>2, <1>3, <1>4, <1>5, <1>6, <1>7, <1>8 DEF Next

LEMMA AlwaysInv == Spec => []IInv
BY InitInv, Inductive, PTL DEF Spec

(* The purchases and the money held only move in the units of work of       *)
(* verify and of resolve_escalation.                                        *)
Applying(c) == ApplyRejected(c) \/ ApplyEscalated(c) \/ ApplyApproved(c) \/ ApplyUnreserved(c)

Moves(c) == Applying(c) \/ Commit(c) \/ Compensate(c)

LEMMA WhoMoves ==
  ASSUME IInv, [Next]_vars
  PROVE  \/ db'.purchases = db.purchases /\ db'.reserved = db.reserved
         \/ \E c \in Callers : Moves(c)
<1> DEFINE Stay == db'.purchases = db.purchases /\ db'.reserved = db.reserved
<1>1. ASSUME NEW c \in Callers, Verify(c)
      PROVE  Stay \/ Applying(c)
  <2>1. CASE ~Applying(c)
    BY <1>1, <2>1 DEF Verify, Applying, Claim, ClaimConflict, Replay, Decide, Finish, FinishFails, vars
  <2> QED BY <2>1
<1>2. ASSUME NEW c \in Callers, ResolveEscalation(c)
      PROVE  Stay \/ Commit(c) \/ Compensate(c)
  BY <1>2 DEF ResolveEscalation, Resolve, CommitUnreserved
<1>3. ASSUME NEW c \in Callers, Die(c) PROVE Stay
  BY <1>3 DEF Die
<1>4. ASSUME Tick \/ (\E s \in Statuses : SetStatus(s))
               \/ (\E o \in DOMAIN Offers, p \in Prices : SetPrice(o, p)) \/ UNCHANGED vars
      PROVE  Stay
  BY <1>4 DEF Tick, SetStatus, SetPrice, vars
<1>5. ASSUME ForgetKeys PROVE Stay
  BY <1>5 DEF ForgetKeys, IInv, Types, Stores
<1> HIDE DEF Stay
<1>6. ASSUME NEW c \in Callers, Verify(c) \/ ResolveEscalation(c) \/ Die(c)
      PROVE  Stay \/ Moves(c)
  BY <1>1, <1>2, <1>3, <1>6 DEF Moves
<1>7. \/ \E c \in Callers : Verify(c) \/ ResolveEscalation(c) \/ Die(c)
      \/ Stay
  BY <1>4, <1>5 DEF Next
<1>8. Stay \/ \E c \in Callers : Moves(c)
  BY <1>6, <1>7
<1> QED BY <1>8 DEF Stay

(* What a unit of work does to a purchase, whoever's it is, and to the      *)
(* money: a call touches the row of its own id only, and takes money only   *)
(* from an active mandate.                                                  *)
LEMMA MovesWrite ==
  ASSUME IInv, NEW c \in Callers, Moves(c)
  PROVE  /\ ~At(c, "idle")
         /\ \A q \in Intents : q # me[c].p => db'.purchases[q] = db.purchases[q]
         /\ db'.reserved <= db.reserved \/ mandate.status = "active"
<1>1. ~At(c, "idle")
  BY DEF Moves, Applying, ApplyRejected, ApplyEscalated, ApplyApproved, ApplyUnreserved, Commit,
         Compensate, At
<1>2. db.reserved \in Nat
  BY DEF IInv, Types, Stores
<1>3. CASE db' = db
  BY <1>1, <1>2, <1>3
<1>4. ASSUME NEW s, NEW r, NEW o, Writes(c, s, r, o)
      PROVE  /\ \A q \in Intents : q # me[c].p => db'.purchases[q] = db.purchases[q]
             /\ db'.reserved <= db.reserved \/ mandate.status = "active"
  BY <1>4 DEF Writes, Does, Touch
<1>5. db' = db \/ \E s, r, o : Writes(c, s, r, o)
  <2>1. CASE Applying(c)
    BY <2>1, ApplyWrites DEF Applying
  <2>2. CASE Commit(c)
    BY <2>2, CommitWrites
  <2>3. CASE Compensate(c)
    BY <2>3, CompensateWrites
  <2> QED BY <2>1, <2>2, <2>3 DEF Moves
<1> QED BY <1>1, <1>3, <1>4, <1>5

----------------------------------------------------------------------------
(* The theorems *)

(* Types: the stores, keys, locals and histories of the decision service    *)
(* stay within their domains; the spend view the gate reads is well formed, *)
(* the sum of the velocity buckets included.                                *)
THEOREM DecisionTypes == Spec => []TypeOK
<1>1. IInv => TypeOK
  <2>1. SUFFICES ASSUME IInv PROVE TypeOK
    OBVIOUS
  <2>2. Types
    BY <2>1 DEF IInv
  <2>3. db \in Stores /\ me \in [Callers -> Locals] /\ mandate.status \in MandateStatus
    BY <2>2 DEF Types, MandateClaims
  <2>4. SumFunctionOnSet(db.intents, Recent(now)) \in Nat
    <3>1. IsFiniteSet(0..MaxTime)
      BY ServiceAssumption, FS_Interval
    <3>2. Recent(now) \subseteq 0..MaxTime
      BY DEF Recent
    <3>3. \A b \in 0..MaxTime : db.intents[b] \in Nat
      BY <2>3 DEF Stores
    <3> QED BY <3>1, <3>2, <3>3, FS_Subset, SumType
  <2>5. get_spend_view(now) \in SpendView
    <3>1. Projected(db.reserved) \in Nat /\ Projected(db.txn) \in Nat
          /\ db.asked \in Nat /\ db.open \in Nat /\ db.cooldown \in Nat
      BY <2>3 DEF Projected, Stores
    <3> QED BY <2>4, <3>1 DEF get_spend_view, SpendView, Money
  <2> QED BY <2>2, <2>3, <2>5 DEF TypeOK, Types, Stores, Escalations, Keys, Locals
<1> QED BY <1>1, AlwaysInv, PTL

(* The budget: whatever requests interleave, fail, repeat or die, the money *)
(* the reservation store holds back never exceeds the mandate's budget,     *)
(* although the gate decides on a view that may be stale.                   *)
THEOREM BudgetHolds == Spec => []WithinBudget
<1>1. IInv => WithinBudget
  BY DEF IInv
<1> QED BY <1>1, AlwaysInv, PTL

(* The holds: the money held is the sum of the purchases pending capture,   *)
(* for any number of intents, in every run of the in-memory service and in  *)
(* every run on Postgres in which no escalation was resolved twice at once, *)
(* as long as no purchase id was used for two intents.                      *)
THEOREM HoldsAreExact == Spec => []HoldsMatch
<1>1. IInv => HoldsMatch
  BY DEF IInv, HoldsMatch, Undisturbed, Books, OneAtATime, Amounts
<1> QED BY <1>1, AlwaysInv, PTL

(* The answer: an intent whose verify was answered APPROVED, at once or as  *)
(* a replay of the stored response, is pending capture and stays so, unless *)
(* its purchase id was used for another intent, or it for another id.       *)
THEOREM ApprovalsAreHeld == Spec => []ApprovedIsHeld
<1>1. IInv => ApprovedIsHeld
  <2>1. SUFFICES ASSUME IInv, NEW i \in told \ shared PROVE i \in Live
    BY DEF ApprovedIsHeld
  <2>2. i \in Clean /\ i \in Intents /\ Granted(i)
    BY <2>1 DEF IInv, Types, Granted, Clean
  <2> QED BY <2>1, <2>2 DEF IInv, GrantsHold, Live
<1> QED BY <1>1, AlwaysInv, PTL

(* The step-up: a purchase of 70 percent of the limit or more is open only  *)
(* if an approval with user verification arrived in time for it, as long as *)
(* its purchase id stands for one intent.                                   *)
THEOREM StepUpIsVerified == Spec => []StepUpNeedsUV
<1>1. IInv => StepUpNeedsUV
  BY DEF IInv, StepUps, StepUpNeedsUV, Live, Clean
<1> QED BY <1>1, AlwaysInv, PTL

(* The cap: the counter of open authorizations is the number of open        *)
(* purchases, and one call at a time never opens more than the cap allows,  *)
(* unless an escalation was resolved twice at once or a purchase id was     *)
(* used for two intents.                                                    *)
THEOREM OpenAuthorizationsAreCounted == Spec => []OpenIsCounted
<1>1. IInv => OpenIsCounted
  <2>1. SUFFICES ASSUME IInv PROVE OpenIsCounted
    OBVIOUS
  <2>2. Undisturbed => db.open = Cardinality(Live)
    BY <2>1 DEF IInv, Books, OneAtATime, Undisturbed
  <2>3. deployment = "memory" => db.open <= MaxOpen
    BY <2>1 DEF IInv, GateStillHolds
  <2> QED BY <2>2, <2>3 DEF OpenIsCounted
<1> QED BY <1>1, AlwaysInv, PTL

(* The event: no purchase is open without its purchase.verified event,      *)
(* except while the call that failed to write it is about to compensate.    *)
THEOREM OpenPurchasesAreAnnounced == Spec => []OpenIsAnnounced
<1>1. IInv => OpenIsAnnounced
  BY DEF IInv, Announced, OpenIsAnnounced
<1> QED BY <1>1, AlwaysInv, PTL

(* The refusal: a purchase that was rejected or compensated stays as it is, *)
(* unless two calls resolved its escalation at once or its purchase id was  *)
(* used for two intents.                                                    *)
THEOREM RefusalsAreFinal == Spec => RefusalIsFinal
<1> DEFINE Final == \A p \in Intents \ (duelled \cup shared) :
             db.purchases[p] \in {"rejected", "compensated"} => db'.purchases[p] = db.purchases[p]
<1>1. IInv /\ [Next]_vars => [Final]_vars
  <2>1. SUFFICES ASSUME IInv, [Next]_vars PROVE Final
    OBVIOUS
  <2>2. Types /\ Names /\ Resolvers
    BY <2>1 DEF IInv
  <2>3. ASSUME NEW c \in Callers, Moves(c)
        PROVE  Final
    <3>1. /\ ~At(c, "idle")
          /\ \A q \in Intents : q # me[c].p => db'.purchases[q] = db.purchases[q]
      BY <2>1, <2>3, MovesWrite
    <3>2. CASE me[c].i \notin Clean
      <4>1. me[c].p \in shared
        BY <2>2, <3>1, <3>2, WhoseCall
      <4> QED BY <3>1, <4>1
    <3>3. CASE me[c].i \in Clean
      <4>1. me[c].p = me[c].i /\ me[c].i \in Intents
        BY <2>2, <3>1, <3>3, WhoseCall
      <4>2. CASE Applying(c)
        <5>1. At(c, "apply")
          BY <4>2 DEF Applying, ApplyRejected, ApplyEscalated, ApplyApproved, ApplyUnreserved
        <5>2. db.purchases[me[c].i] = None
          BY <2>1, <3>3, <5>1, AtApply
        <5> QED BY <3>1, <4>1, <5>2, ServiceAssumption
      <4>3. CASE Commit(c)
        <5>1. me[c].i \in duelled \/ db.purchases[me[c].i] = "awaiting_escalation"
          BY <2>1, <3>3, <4>3, AtCommit DEF Commit
        <5> QED BY <3>1, <4>1, <5>1
      <4>4. CASE Compensate(c)
        <5>1. Resolving(c, me[c].i)
          BY <4>4 DEF Compensate, At, Resolving
        <5>2. me[c].i \in duelled \/ db.purchases[me[c].i] \notin {"rejected", "compensated"}
          BY <2>2, <3>3, <5>1 DEF Resolvers
        <5> QED BY <3>1, <4>1, <5>2
      <4> QED BY <2>3, <4>2, <4>3, <4>4 DEF Moves
    <3> QED BY <3>2, <3>3
  <2> QED BY <2>1, <2>3, WhoMoves
<1>2. [][Final]_vars => RefusalIsFinal
  BY PTL DEF RefusalIsFinal
<1> QED BY <1>1, <1>2, AlwaysInv, PTL DEF Spec

(* The revocation: no step holds more money unless the mandate is active at *)
(* that moment, whatever the call had read before.                          *)
THEOREM RevocationsBite == Spec => RevocationBites
<1> DEFINE Bites == db'.reserved <= db.reserved \/ mandate.status = "active"
<1>1. IInv /\ [Next]_vars => [Bites]_vars
  <2>1. SUFFICES ASSUME IInv, [Next]_vars PROVE Bites
    OBVIOUS
  <2>2. ASSUME db'.reserved = db.reserved
        PROVE  Bites
    BY <2>1, <2>2 DEF IInv, Types, Stores
  <2> QED BY <2>1, <2>2, WhoMoves, MovesWrite
<1>2. [][Bites]_vars => RevocationBites
  BY PTL DEF RevocationBites
<1> QED BY <1>1, <1>2, AlwaysInv, PTL DEF Spec


----------------------------------------------------------------------------
(* The gate as a whole: what its order of checks amounts to *)

(* What the mandate, the offer and the limits ask of an intent.             *)
Permits(m, i, spend, t, o) ==
  /\ m.status = "active" /\ m.not_before <= t /\ t < m.expires_at
  /\ i.mandate = m.jti /\ i.agent = m.agent /\ i.currency = m.currency
  /\ i.offer = o.id /\ i.amount = o.amount
  /\ i.merchant = o.merchant /\ o.merchant \in m.merchants /\ o.category \in m.categories
  /\ m.conditions => o.meets
  /\ i.amount <= m.max_per_txn
  /\ spend.spent + spend.reserved + i.amount <= m.total_budget
  /\ m.max_txn = None \/ spend.txn + 1 <= m.max_txn

(* What the velocity asks, the candidate counted.                           *)
Calm(spend, t) ==
  /\ spend.cooldown <= t /\ spend.escalations <= MaxEscalations
  /\ spend.intents + 1 <= MaxIntents /\ spend.open + 1 <= MaxOpen

(* What it asks without a person being able to answer for it.               *)
Tolerable(spend, t) == spend.cooldown <= t /\ spend.escalations <= MaxEscalations

Discreet(m, i, spend) == ~AtAmountThreshold(m, i.amount) /\ ~AtBudgetThreshold(m, spend)

(* The checks before the velocity, as evaluate asks them.                   *)
HardGate(m, i, spend, t, o) ==
  FirstObjection(<<
    mandate_state_reason(m, t), binding(m, i), price_check(i, o),
    scope_allows(m, i, o), evaluate_conditions(m, o),
    limits_decision(m, i.amount, spend)>>)

(* A sequence of checks approves exactly when each of them does.            *)
LEMMA AllApprove ==
  ASSUME NEW checks, DOMAIN checks \subseteq Nat
  PROVE  FirstObjection(checks) = Approved <=> \A k \in DOMAIN checks : checks[k] = Approved
BY FirstObjects

LEMMA TwoApprove ==
  ASSUME NEW a, NEW b
  PROVE  FirstObjection(<<a, b>>) = Approved <=> a = Approved /\ b = Approved
<1> DEFINE all == <<a, b>>
<1>1. DOMAIN all = 1..2 /\ all[1] = a /\ all[2] = b
  OBVIOUS
<1> HIDE DEF all
<1>2. FirstObjection(all) = Approved <=> a = Approved /\ b = Approved
  BY <1>1, AllApprove
<1> QED BY <1>2 DEF all

LEMMA ThreeApprove ==
  ASSUME NEW a, NEW b, NEW c
  PROVE  FirstObjection(<<a, b, c>>) = Approved <=> a = Approved /\ b = Approved /\ c = Approved
<1> DEFINE all == <<a, b, c>>
<1>1. DOMAIN all = 1..3 /\ all[1] = a /\ all[2] = b /\ all[3] = c
  OBVIOUS
<1> HIDE DEF all
<1>2. FirstObjection(all) = Approved <=> a = Approved /\ b = Approved /\ c = Approved
  BY <1>1, AllApprove
<1> QED BY <1>2 DEF all

LEMMA FourApprove ==
  ASSUME NEW a, NEW b, NEW c, NEW d
  PROVE  FirstObjection(<<a, b, c, d>>) = Approved
           <=> a = Approved /\ b = Approved /\ c = Approved /\ d = Approved
<1> DEFINE all == <<a, b, c, d>>
<1>1. DOMAIN all = 1..4 /\ all[1] = a /\ all[2] = b /\ all[3] = c /\ all[4] = d
  OBVIOUS
<1> HIDE DEF all
<1>2. FirstObjection(all) = Approved
        <=> a = Approved /\ b = Approved /\ c = Approved /\ d = Approved
  BY <1>1, AllApprove
<1> QED BY <1>2 DEF all

(* No rejection and no escalation is an approval.                           *)
LEMMA ObjectionsObject ==
  ASSUME NEW r, NEW l, NEW u
  PROVE  Rejected(r) # Approved /\ Escalated(r, l, u) # Approved
<1>1. Rejected(r).verdict # Approved.verdict /\ Escalated(r, l, u).verdict # Approved.verdict
  BY DEF Rejected, Escalated, Approved
<1> QED BY <1>1

(* The hard checks approve exactly what the mandate permits.                *)
LEMMA HardGateApproves ==
  ASSUME NEW m \in MandateClaims, NEW i, NEW spend, NEW t \in Nat, NEW o, o.meets \in BOOLEAN
  PROVE  HardGate(m, i, spend, t, o) = Approved <=> Permits(m, i, spend, t, o)
<1>1. /\ m.expires_at \in Nat /\ m.not_before \in Nat /\ m.not_before < m.expires_at
      /\ m.conditions \in BOOLEAN
  BY DEF MandateClaims
<1>2. mandate_state_reason(m, t) = Approved
        <=> m.status = "active" /\ m.not_before <= t /\ t < m.expires_at
  <2>1. CASE m.status # "active"
    BY <2>1, ObjectionsObject DEF mandate_state_reason
  <2>2. CASE m.status = "active"
    <3>1. mandate_state_reason(m, t) = Approved
            <=> /\ Unless(m.expires_at > m.not_before, "MANDATE_EXPIRED") = Approved
                /\ Unless(t >= m.not_before, "MANDATE_NOT_YET_VALID") = Approved
                /\ Unless(t < m.expires_at, "MANDATE_EXPIRED") = Approved
      BY <2>2, ThreeApprove DEF mandate_state_reason
    <3>2. /\ Unless(m.expires_at > m.not_before, "MANDATE_EXPIRED") = Approved
          /\ Unless(t >= m.not_before, "MANDATE_NOT_YET_VALID") = Approved <=> t >= m.not_before
          /\ Unless(t < m.expires_at, "MANDATE_EXPIRED") = Approved <=> t < m.expires_at
      BY <1>1, ObjectionsObject DEF Unless
    <3> QED BY <2>2, <3>1, <3>2, <1>1
  <2> QED BY <2>1, <2>2
<1>3. binding(m, i) = Approved
        <=> i.mandate = m.jti /\ i.agent = m.agent /\ i.currency = m.currency
  BY TwoApprove, ObjectionsObject DEF binding, Unless
<1>4. price_check(i, o) = Approved <=> i.offer = o.id /\ i.amount = o.amount
  BY ObjectionsObject DEF price_check, Unless
<1>5. scope_allows(m, i, o) = Approved
        <=> i.merchant = o.merchant /\ o.merchant \in m.merchants /\ o.category \in m.categories
  BY TwoApprove, ObjectionsObject DEF scope_allows, Unless
<1>6. evaluate_conditions(m, o) = Approved <=> (m.conditions => o.meets)
  BY ObjectionsObject DEF evaluate_conditions, Unless
<1>7. limits_decision(m, i.amount, spend) = Approved
        <=> /\ i.amount <= m.max_per_txn
            /\ spend.spent + spend.reserved + i.amount <= m.total_budget
            /\ m.max_txn = None \/ spend.txn + 1 <= m.max_txn
  BY ThreeApprove, ObjectionsObject DEF limits_decision, Unless
<1> DEFINE a == mandate_state_reason(m, t)
           b == binding(m, i)
           c == price_check(i, o)
           d == scope_allows(m, i, o)
           e == evaluate_conditions(m, o)
           f == limits_decision(m, i.amount, spend)
           all == <<a, b, c, d, e, f>>
<1>8. HardGate(m, i, spend, t, o) = FirstObjection(all)
  BY DEF HardGate
<1> HIDE DEF a, b, c, d, e, f
<1>9. /\ DOMAIN all = 1..6 /\ all[1] = a /\ all[2] = b /\ all[3] = c
      /\ all[4] = d /\ all[5] = e /\ all[6] = f
  OBVIOUS
<1> HIDE DEF all
<1>10. FirstObjection(all) = Approved
         <=> /\ a = Approved /\ b = Approved /\ c = Approved
             /\ d = Approved /\ e = Approved /\ f = Approved
  <2>1. FirstObjection(all) = Approved <=> \A k \in 1..6 : all[k] = Approved
    BY <1>9, AllApprove
  <2>2. ASSUME NEW k \in 1..6
        PROVE  k = 1 \/ k = 2 \/ k = 3 \/ k = 4 \/ k = 5 \/ k = 6
    OBVIOUS
  <2> QED BY <2>1, <2>2, <1>9
<1> QED BY <1>2, <1>3, <1>4, <1>5, <1>6, <1>7, <1>8, <1>10 DEF Permits, a, b, c, d, e, f

(* The velocity approves exactly when every cap leaves room, and rejects    *)
(* exactly when no person may answer for it.                                *)
LEMMA BurstApproves ==
  ASSUME NEW spend \in SpendView, NEW t \in Nat
  PROVE  LET burst == evaluate_burst(spend, t)
         IN  /\ burst = Approved <=> Calm(spend, t)
             /\ burst.verdict = "REJECTED" <=> ~Tolerable(spend, t)
<1> DEFINE a == Unless(t >= spend.cooldown, "VELOCITY_BURST")
           b == Unless(spend.escalations <= MaxEscalations, "MANDATE_SUSPENDED")
           c == IF spend.intents + 1 > MaxIntents
                  THEN Escalated("VELOCITY_BURST", "L3", t + Cooldown) ELSE Approved
           d == IF spend.open + 1 > MaxOpen
                  THEN Escalated("VELOCITY_BURST", "L3", 0) ELSE Approved
           all == <<a, b, c, d>>
<1>1. /\ spend.cooldown \in Nat /\ spend.escalations \in Nat
      /\ spend.intents \in Nat /\ spend.open \in Nat
  BY DEF SpendView
<1>2. /\ a = Approved <=> spend.cooldown <= t
      /\ b = Approved <=> spend.escalations <= MaxEscalations
      /\ a = Approved \/ a.verdict = "REJECTED"
      /\ b = Approved \/ b.verdict = "REJECTED"
  BY <1>1, GateAssumption, ObjectionsObject DEF Unless, Rejected
<1>3. /\ c = Approved <=> spend.intents + 1 <= MaxIntents
      /\ d = Approved <=> spend.open + 1 <= MaxOpen
      /\ c = Approved \/ c.verdict = "ESCALATED"
      /\ d = Approved \/ d.verdict = "ESCALATED"
  BY <1>1, GateAssumption, ObjectionsObject DEF Escalated
<1>4. evaluate_burst(spend, t) = FirstObjection(all)
  BY DEF evaluate_burst
<1>5. Approved.verdict = "APPROVED"
  BY DEF Approved
<1> HIDE DEF a, b, c, d
<1>6. DOMAIN all = 1..4 /\ all[1] = a /\ all[2] = b /\ all[3] = c /\ all[4] = d
  OBVIOUS
<1> HIDE DEF all
<1>7. FirstObjection(all) = Approved
        <=> a = Approved /\ b = Approved /\ c = Approved /\ d = Approved
  <2>1. FirstObjection(all) = Approved <=> \A k \in 1..4 : all[k] = Approved
    BY <1>6, AllApprove
  <2> QED BY <2>1, <1>6
<1>8. FirstObjection(all).verdict = "REJECTED" <=> a # Approved \/ b # Approved
  <2>1. CASE FirstObjection(all) = Approved
    BY <2>1, <1>5, <1>7
  <2>2. ASSUME NEW k \in 1..4, all[k] # Approved, FirstObjection(all) = all[k],
               \A j \in 1..4 : j < k => all[j] = Approved
        PROVE  FirstObjection(all).verdict = "REJECTED" <=> a # Approved \/ b # Approved
    <3>1. CASE k = 1
      BY <3>1, <2>2, <1>2, <1>6
    <3>2. CASE k = 2
      BY <3>2, <2>2, <1>2, <1>6
    <3>3. CASE k = 3
      BY <3>3, <2>2, <1>3, <1>6
    <3>4. CASE k = 4
      BY <3>4, <2>2, <1>3, <1>6
    <3> QED BY <3>1, <3>2, <3>3, <3>4
  <2> QED BY <2>1, <2>2, <1>6, FirstObjects
<1> QED BY <1>2, <1>3, <1>4, <1>7, <1>8 DEF Calm, Tolerable

(* The step-up approves exactly below both thresholds; otherwise it asks    *)
(* for an answer with user verification.                                    *)
LEMMA StepUpApproves ==
  ASSUME NEW m, NEW i, NEW spend
  PROVE  LET stepup == evaluate_step_up(m, i.amount, spend)
         IN  /\ stepup = Approved <=> Discreet(m, i, spend)
             /\ stepup = Approved
                \/ /\ stepup.verdict = "ESCALATED" /\ stepup.level = "L3+"
                   /\ stepup.reason \in {"STEPUP_AMOUNT_THRESHOLD", "STEPUP_BUDGET_USAGE"}
<1> DEFINE a == IF AtAmountThreshold(m, i.amount)
                  THEN Escalated("STEPUP_AMOUNT_THRESHOLD", "L3+", 0) ELSE Approved
           b == IF AtBudgetThreshold(m, spend)
                  THEN Escalated("STEPUP_BUDGET_USAGE", "L3+", 0) ELSE Approved
           all == <<a, b>>
           Up(x) == /\ x.verdict = "ESCALATED" /\ x.level = "L3+"
                    /\ x.reason \in {"STEPUP_AMOUNT_THRESHOLD", "STEPUP_BUDGET_USAGE"}
<1>1. /\ a = Approved <=> ~AtAmountThreshold(m, i.amount)
      /\ b = Approved <=> ~AtBudgetThreshold(m, spend)
  BY ObjectionsObject
<1>2. (a = Approved \/ Up(a)) /\ (b = Approved \/ Up(b))
  BY DEF Escalated
<1>3. evaluate_step_up(m, i.amount, spend) = FirstObjection(all)
  BY DEF evaluate_step_up
<1> HIDE DEF a, b, Up
<1>4. DOMAIN all = 1..2 /\ all[1] = a /\ all[2] = b
  OBVIOUS
<1> HIDE DEF all
<1>5. /\ FirstObjection(all) = Approved <=> a = Approved /\ b = Approved
      /\ FirstObjection(all) = Approved \/ Up(FirstObjection(all))
  BY <1>2, <1>4, FirstObjects
<1> QED BY <1>1, <1>3, <1>5 DEF Discreet, Up

(* evaluate by its parts.                                                   *)
LEMMA EvaluateParts ==
  ASSUME NEW m, NEW i, NEW spend, NEW t, NEW o, NEW waived
  PROVE  LET burst == evaluate_burst(spend, t)
         IN  evaluate(m, i, spend, t, o, waived) = FirstObjection(<<
               HardGate(m, i, spend, t, o),
               IF burst.verdict = "REJECTED" THEN burst ELSE Approved,
               IF waived THEN Approved ELSE evaluate_step_up(m, i.amount, spend),
               burst>>)
BY DEF evaluate, HardGate

(* The policy gate (PolicyGate.evaluate) approves exactly an intent that    *)
(* its mandate permits at that instant, bound to its agent, at the offered  *)
(* price, in scope, within every limit and every velocity cap, and below    *)
(* both step-up thresholds unless a person has approved the step-up.  It    *)
(* rejects exactly what the mandate forbids or no person may answer for     *)
(* (the cooldown, the cap on escalations), and escalates the rest: the      *)
(* order in which the code asks decides only the reason given.              *)
THEOREM GateIsExact ==
  ASSUME NEW m \in MandateClaims, NEW i \in PurchaseIntent, NEW spend \in SpendView,
         NEW t \in Nat, NEW o \in Offer, NEW waived \in BOOLEAN
  PROVE  LET e == evaluate(m, i, spend, t, o, waived)
         IN  /\ e = Approved
                  <=> /\ Permits(m, i, spend, t, o)
                      /\ Calm(spend, t)
                      /\ ~waived => Discreet(m, i, spend)
             /\ e.verdict = "REJECTED"
                  <=> ~Permits(m, i, spend, t, o) \/ ~Tolerable(spend, t)
             /\ e = Approved \/ e.verdict = "REJECTED" \/ e.verdict = "ESCALATED"
<1> DEFINE hard == HardGate(m, i, spend, t, o)
           burst == evaluate_burst(spend, t)
           refused == IF burst.verdict = "REJECTED" THEN burst ELSE Approved
           stepup == IF waived THEN Approved ELSE evaluate_step_up(m, i.amount, spend)
<1>1. evaluate(m, i, spend, t, o, waived) = FirstObjection(<<hard, refused, stepup, burst>>)
  BY EvaluateParts
<1>2. o.meets \in BOOLEAN
  BY DEF Offer
<1>3. hard = Approved <=> Permits(m, i, spend, t, o)
  BY <1>2, HardGateApproves
<1>4. /\ burst = Approved <=> Calm(spend, t)
      /\ burst.verdict = "REJECTED" <=> ~Tolerable(spend, t)
  BY BurstApproves
<1>5. /\ stepup = Approved <=> (~waived => Discreet(m, i, spend))
      /\ stepup = Approved \/ stepup.verdict = "ESCALATED"
  BY StepUpApproves
<1>6. hard = Approved \/ hard.verdict = "REJECTED"
  BY HardChecks DEF HardGate
<1>7. Approved.verdict = "APPROVED"
  BY DEF Approved
<1>8. /\ burst = Approved => refused = Approved
      /\ burst.verdict = "REJECTED" => refused = burst
      /\ burst.verdict # "REJECTED" => refused = Approved
  OBVIOUS
<1> DEFINE e == evaluate(m, i, spend, t, o, waived)
           all == <<hard, refused, stepup, burst>>
<1> HIDE DEF hard, burst, refused, stepup, e
<1>9. e = Approved
        <=> hard = Approved /\ refused = Approved /\ stepup = Approved /\ burst = Approved
  BY <1>1, FourApprove DEF e
<1>10. DOMAIN all = 1..4 /\ all[1] = hard /\ all[2] = refused /\ all[3] = stepup /\ all[4] = burst
  OBVIOUS
<1>11. e = FirstObjection(all)
  BY <1>1 DEF e
<1> HIDE DEF all
<1>12. e.verdict = "REJECTED" <=> hard # Approved \/ burst.verdict = "REJECTED"
  <2>1. CASE e = Approved
    BY <2>1, <1>7, <1>9
  <2>2. ASSUME NEW k \in 1..4, all[k] # Approved, e = all[k],
               \A j \in 1..4 : j < k => all[j] = Approved
        PROVE  e.verdict = "REJECTED" <=> hard # Approved \/ burst.verdict = "REJECTED"
    <3>1. CASE k = 1
      BY <3>1, <2>2, <1>6, <1>10
    <3>2. CASE k = 2
      BY <3>2, <2>2, <1>8, <1>10
    <3>3. CASE k = 3
      BY <3>3, <2>2, <1>5, <1>7, <1>8, <1>10
    <3>4. CASE k = 4
      BY <3>4, <2>2, <1>7, <1>8, <1>10
    <3> QED BY <3>1, <3>2, <3>3, <3>4
  <2> QED BY <2>1, <2>2, <1>10, <1>11, FirstObjects
<1>13. e = Approved <=> hard = Approved /\ burst = Approved /\ stepup = Approved
  BY <1>8, <1>9
<1>14. e = Approved
         <=> /\ Permits(m, i, spend, t, o)
             /\ Calm(spend, t)
             /\ ~waived => Discreet(m, i, spend)
  BY <1>3, <1>4, <1>5, <1>13, Zenon
<1>15. e.verdict = "REJECTED" <=> ~Permits(m, i, spend, t, o) \/ ~Tolerable(spend, t)
  BY <1>3, <1>4, <1>12, Zenon
<1>16. e = Approved \/ e.verdict = "REJECTED" \/ e.verdict = "ESCALATED"
  <2>1. burst = Approved \/ burst.verdict = "REJECTED" \/ burst.verdict = "ESCALATED"
    <3>1. spend.open \in Nat
      BY DEF SpendView
    <3> QED BY <3>1, BurstChecks DEF burst
  <2>2. refused = Approved \/ refused = burst
    BY <1>8
  <2>3. ASSUME NEW k \in 1..4
        PROVE  all[k] = hard \/ all[k] = refused \/ all[k] = stepup \/ all[k] = burst
    BY <1>10
  <2>4. \A k \in 1..4 : \/ all[k] = Approved \/ all[k].verdict = "REJECTED"
                         \/ all[k].verdict = "ESCALATED"
    BY <2>1, <2>2, <2>3, <1>5, <1>6, Zenon
  <2> QED BY <2>4, <1>10, <1>11, FirstObjects
<1> QED BY <1>14, <1>15, <1>16, Zenon DEF e

(* The waiver (approved_stepup of PolicyGate.evaluate, set when a person    *)
(* approves an escalation): it turns nothing but a step-up into something   *)
(* else.  What the gate rejects it rejects with the approval too, for the   *)
(* same reason; what it approves stays approved; and an answer that the     *)
(* approval changes was an L3+ step-up.                                     *)
THEOREM ApprovalWaivesOnlyStepUp ==
  ASSUME NEW m \in MandateClaims, NEW i \in PurchaseIntent, NEW spend \in SpendView,
         NEW t \in Nat, NEW o \in Offer
  PROVE  LET asked == evaluate(m, i, spend, t, o, FALSE)
             approved == evaluate(m, i, spend, t, o, TRUE)
         IN  /\ asked # approved =>
                  /\ asked.verdict = "ESCALATED" /\ asked.level = "L3+"
                  /\ asked.reason \in {"STEPUP_AMOUNT_THRESHOLD", "STEPUP_BUDGET_USAGE"}
             /\ approved.verdict = "REJECTED" => asked = approved
<1> DEFINE hard == HardGate(m, i, spend, t, o)
           burst == evaluate_burst(spend, t)
           refused == IF burst.verdict = "REJECTED" THEN burst ELSE Approved
           stepup == evaluate_step_up(m, i.amount, spend)
           asked == evaluate(m, i, spend, t, o, FALSE)
           approved == evaluate(m, i, spend, t, o, TRUE)
           plain == <<hard, refused, stepup, burst>>
           waived == <<hard, refused, Approved, burst>>
           Up(x) == /\ x.verdict = "ESCALATED" /\ x.level = "L3+"
                    /\ x.reason \in {"STEPUP_AMOUNT_THRESHOLD", "STEPUP_BUDGET_USAGE"}
<1>1. asked = FirstObjection(plain) /\ approved = FirstObjection(waived)
  BY EvaluateParts
<1>2. stepup = Approved \/ Up(stepup)
  BY StepUpApproves
<1>3. Approved.verdict = "APPROVED"
  BY DEF Approved
<1>4. burst.verdict = "REJECTED" => refused = burst
  OBVIOUS
<1> HIDE DEF hard, burst, refused, stepup, asked, approved, Up
<1>5. /\ DOMAIN plain = 1..4 /\ DOMAIN waived = 1..4
      /\ plain[1] = hard /\ plain[2] = refused /\ plain[3] = stepup /\ plain[4] = burst
      /\ waived[1] = hard /\ waived[2] = refused /\ waived[3] = Approved /\ waived[4] = burst
  OBVIOUS
<1> HIDE DEF plain, waived
<1>6. PICK p \in 0..4 :
        /\ p = 0 => asked = Approved /\ \A j \in 1..4 : plain[j] = Approved
        /\ p # 0 => /\ plain[p] # Approved /\ asked = plain[p]
                    /\ \A j \in 1..4 : j < p => plain[j] = Approved
  <2>1. CASE asked = Approved /\ \A j \in 1..4 : plain[j] = Approved
    BY <2>1
  <2>2. ASSUME NEW k \in 1..4, plain[k] # Approved, asked = plain[k],
               \A j \in 1..4 : j < k => plain[j] = Approved
        PROVE  \E q \in 1..4 : /\ plain[q] # Approved /\ asked = plain[q]
                               /\ \A j \in 1..4 : j < q => plain[j] = Approved
    BY <2>2
  <2> QED BY <2>1, <2>2, <1>1, <1>5, FirstObjects
<1>7. PICK w \in 0..4 :
        /\ w = 0 => approved = Approved /\ \A j \in 1..4 : waived[j] = Approved
        /\ w # 0 => /\ waived[w] # Approved /\ approved = waived[w]
                    /\ \A j \in 1..4 : j < w => waived[j] = Approved
  <2>1. CASE approved = Approved /\ \A j \in 1..4 : waived[j] = Approved
    BY <2>1
  <2>2. ASSUME NEW k \in 1..4, waived[k] # Approved, approved = waived[k],
               \A j \in 1..4 : j < k => waived[j] = Approved
        PROVE  \E q \in 1..4 : /\ waived[q] # Approved /\ approved = waived[q]
                               /\ \A j \in 1..4 : j < q => waived[j] = Approved
    BY <2>2
  <2> QED BY <2>1, <2>2, <1>1, <1>5, FirstObjects
<1>8. CASE stepup = Approved
  <2>1. \A j \in 1..4 : plain[j] = waived[j]
    BY <1>8, <1>5
  <2>2. p = w
    BY <2>1, <1>6, <1>7
  <2>3. asked = approved
    BY <2>1, <2>2, <1>6, <1>7
  <2> QED BY <2>3 DEF asked, approved
<1>9. CASE stepup # Approved
  <2>1. p \in 1..3
    BY <1>9, <1>5, <1>6
  <2>2. CASE p \in 1..2
    <3>1. w = p
      BY <2>2, <1>5, <1>6, <1>7
    <3>2. asked = approved
      BY <2>2, <3>1, <1>5, <1>6, <1>7
    <3> QED BY <3>2 DEF asked, approved
  <2>3. CASE p = 3
    <3>1. Up(asked)
      BY <2>3, <1>2, <1>5, <1>6, <1>9
    <3>2. w = 0 \/ w = 4
      BY <2>3, <1>5, <1>6, <1>7
    <3>3. approved.verdict # "REJECTED"
      <4>1. refused = Approved
        BY <2>3, <1>5, <1>6
      <4>2. w = 4 => burst.verdict # "REJECTED"
        BY <4>1, <1>4, <1>5, <1>7
      <4> QED BY <3>2, <4>2, <1>3, <1>5, <1>7
    <3> QED BY <3>1, <3>3 DEF asked, approved, Up
  <2>4. p \in 1..2 \/ p = 3
    BY <2>1
  <2> QED BY <2>2, <2>3, <2>4
<1> QED BY <1>8, <1>9
=============================================================================
