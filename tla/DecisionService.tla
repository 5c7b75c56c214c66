-------------------------- MODULE DecisionService --------------------------
(***************************************************************************)
(* The decision service of the API lane (src/api/decision): verify and     *)
(* resolve_escalation around the policy gate, with the stores they write.  *)
(*                                                                         *)
(* Two deployments are modelled.  "memory" is the wiring of api/deps.py:   *)
(* in-memory stores, async handlers that never yield (one call at a time)  *)
(* and no transaction manager, so a failure rolls nothing back.            *)
(* "postgres" is the service over the Postgres adapters: several workers,  *)
(* every unit of work one transaction, compare-and-swap on the mandate's   *)
(* row, workers that die between two transactions.                         *)
(*                                                                         *)
(* One mandate.  A purchase is named purchase-<jti> of its intent, unless  *)
(* the caller of verify sends a purchase_id of its own, which nothing binds *)
(* to the intent: ids are named by the intent whose default they are, and  *)
(* an intent may be verified under another one's id.  Idempotency keys and *)
(* escalations belong to the intent; the row, the reservation and the      *)
(* events belong to the purchase id.                                       *)
(***************************************************************************)
EXTENDS PolicyGate, FiniteSets, FiniteSetsExt

CONSTANTS
  Callers,        \* requests being served
  Intents,        \* purchase intents (the tokens, by jti)
  Intent,         \* Intent[i]: the claims of intent i
  Offers,         \* the catalogue at the start: offer id -> offer
  Starts,         \* wirings and mandates a behaviour may start with
  Statuses,       \* statuses the mandate may be moved to
  Prices,         \* prices the catalogue may move to
  Requests,       \* request bodies: what the fingerprint tells apart
  PurchaseIds,    \* PurchaseIds[i]: ids the callers of intent i may send
  Window,         \* width of the intent window, in ticks
  SecretsAgree,   \* do the service and its idempotency store share a secret?
  MaxTime         \* bound: ticks of the clock

ASSUME ServiceAssumption ==
  /\ \A s \in Starts : s.deployment \in {"memory", "postgres"} /\ s.mandate \in MandateClaims
  /\ \A i \in Intents : Intent[i] \in PurchaseIntent /\ PurchaseIds[i] \subseteq Intents
  /\ \A o \in DOMAIN Offers : Offers[o] \in Offer
  /\ Statuses \subseteq MandateStatus
  /\ Window \in Nat /\ MaxTime \in Nat
  /\ SecretsAgree \in BOOLEAN
  /\ None \notin Intents \cup Callers \cup Requests
  /\ None \notin {"pending_capture", "awaiting_escalation", "rejected", "compensated",
                  "pending", "resolved", "expired", "APPROVED", "REJECTED", "ESCALATED"}

VARIABLES
  deployment,   \* which wiring this process runs
  now,          \* the clock
  mandate,      \* the mandate as the mandate reader sees it
  offers,       \* the catalogue
  db,           \* the business stores
  keys,         \* idempotency_keys
  me,           \* each caller's locals
  verified,     \* history: escalations approved in time with user verification
  told,         \* history: intents whose verify was answered APPROVED
  shared,       \* history: intents verified under another's id, and those ids
  duelled       \* history: intents whose escalation two calls have resolved at once

history == <<verified, told, shared, duelled>>
world   == <<deployment, now, mandate, offers>>
vars    == <<world, db, keys, me, history>>

----------------------------------------------------------------------------
(* The stores *)

PurchaseStatus == {None, "pending_capture", "awaiting_escalation", "rejected", "compensated"}

NoEscalation == [status |-> None, level |-> None, timeout_at |-> 0, p |-> None]

(* purchases with the intent their row names, escalations, reservations     *)
(* with the intent they were made for and the mandate's money columns,      *)
(* the velocity counters by minute bucket, the outbox (event ids are        *)
(* derived from the content, so a repeated event is one event).             *)
EmptyDb ==
  [purchases   |-> [p \in Intents |-> None],
   escalations |-> [i \in Intents |-> NoEscalation],
   owner       |-> [p \in Intents |-> None],
   held        |-> {},
   holder      |-> [p \in Intents |-> None],
   reserved    |-> 0,
   txn         |-> 0,
   intents     |-> [t \in 0..MaxTime |-> 0],
   asked       |-> 0,
   open        |-> 0,
   cooldown    |-> 0,
   outbox      |-> {}]

Amount(i) == Intent[i].amount

(* get_spend_view: money from the mandate's projection, velocity from the   *)
(* velocity store.  In memory the projection is the record put at the start *)
(* and no reservation ever reaches it.                                      *)
Recent(t) == {b \in 0..MaxTime : b <= t /\ t <= b + Window}

Projected(x) == IF deployment = "memory" THEN 0 ELSE x

get_spend_view(t) ==
  [spent       |-> 0,
   reserved    |-> Projected(db.reserved),
   txn         |-> Projected(db.txn),
   intents     |-> SumFunctionOnSet(db.intents, Recent(t)),
   escalations |-> db.asked,
   open        |-> db.open,
   cooldown    |-> db.cooldown]

increment_intent(d, t) == [d EXCEPT !.intents[t] = @ + 1]

increment_escalation(d, until) ==
  [d EXCEPT !.asked = @ + 1, !.cooldown = IF until > @ THEN until ELSE @]

increment_open_authorizations(d) == [d EXCEPT !.open = @ + 1]

decrement_open_authorizations(d) == [d EXCEPT !.open = IF @ > 0 THEN @ - 1 ELSE 0]

append(d, type, i) == [d EXCEPT !.outbox = @ \cup {<<type, i>>}]

(* x is a call: the intent x.i under the purchase id x.p.  reserve answers  *)
(* the reservation already made under this id, or makes one if the mandate  *)
(* is active and the money and the count allow it.  The Postgres store      *)
(* recognises its own replay by the purchase's status; the in-memory store  *)
(* keeps its own account, which no revocation reaches, and refuses an id    *)
(* that holds another amount.                                               *)
Replayed(d, x) ==
  IF deployment = "memory" THEN x.p \in d.held /\ Amount(d.holder[x.p]) = Amount(x.i)
  ELSE d.purchases[x.p] = "pending_capture"

TakenUp(d, x) == deployment = "memory" /\ x.p \in d.held

(* Mutants: the money already held does not count; the mandate's status does *)
(* not count.                                                                *)
CanReserveIgnoringHolds(d, x) ==
  \/ Replayed(d, x)
  \/ /\ deployment = "postgres" => mandate.status = "active"
     /\ Amount(x.i) <= mandate.total_budget

CanReserveWhateverStatus(d, x) ==
  \/ Replayed(d, x)
  \/ /\ ~TakenUp(d, x)
     /\ d.reserved + Amount(x.i) <= mandate.total_budget
     /\ mandate.max_txn # None => d.txn + 1 <= mandate.max_txn

CanReserve(d, x) ==
  \/ Replayed(d, x)
  \/ /\ ~TakenUp(d, x)
     /\ deployment = "postgres" => mandate.status = "active"
     /\ d.reserved + Amount(x.i) <= mandate.total_budget
     /\ mandate.max_txn # None => d.txn + 1 <= mandate.max_txn

reserve(d, x) ==
  IF Replayed(d, x) THEN d
  ELSE [d EXCEPT !.held = @ \cup {x.p}, !.holder[x.p] = x.i,
                 !.reserved = @ + Amount(x.i), !.txn = @ + 1]

(* release: in memory the reservation must exist and its own amount is      *)
(* given back, in Postgres the purchase must still be pending_capture under *)
(* it and the amount is the caller's.                                       *)
Refund(d, x) == IF deployment = "memory" THEN Amount(d.holder[x.p]) ELSE Amount(x.i)

CanRelease(d, x) ==
  /\ IF deployment = "memory" THEN x.p \in d.held ELSE d.purchases[x.p] = "pending_capture"
  /\ d.reserved >= Refund(d, x)

release(d, x) ==
  [d EXCEPT !.held = @ \ {x.p}, !.reserved = @ - Refund(d, x),
            !.txn = IF @ > 0 THEN @ - 1 ELSE 0]

(* create keeps a record that is already there, whoever's it is; update     *)
(* does not look at the intent.                                             *)
save_purchase(d, x, s) ==
  IF d.purchases[x.p] = None
  THEN [d EXCEPT !.purchases[x.p] = s, !.owner[x.p] = x.i] ELSE d

update_purchase(d, x, s) ==
  [d EXCEPT !.purchases[x.p] = IF @ = None THEN @ ELSE s]

create_escalation(d, x, l, t) ==
  [d EXCEPT !.escalations[x.i] =
     [status |-> "pending", level |-> l, timeout_at |-> escalation_deadline(t, l), p |-> x.p]]

update_escalation(d, x, s) ==
  [d EXCEPT !.escalations[x.i].status = IF @ = None THEN @ ELSE s]

(* What a unit of work that fails leaves behind: in memory nothing is       *)
(* undone; with "postgres" the rollback ports.py promises of UnitOfWork.    *)
Failed(before, after) == IF deployment = "memory" THEN after ELSE before

----------------------------------------------------------------------------
(* Types and initial states *)

PC == {"idle", "decide", "apply", "finish", "commit", "compensate"}

(* A caller's locals: the instant it read at the start, the intent and the  *)
(* purchase id, the decision so far and whether it has made a reservation.  *)
Idle == [pc |-> "idle", i |-> None, p |-> None, at |-> 0, dec |-> Approved, rid |-> FALSE]

NoKey == [request |-> None, response |-> None]

Verdicts == {"APPROVED", "REJECTED", "ESCALATED"}

TypeOK ==
  /\ deployment \in {"memory", "postgres"}
  /\ now \in 0..MaxTime
  /\ mandate.status \in MandateStatus
  /\ db.purchases \in [Intents -> PurchaseStatus]
  /\ db.escalations \in [Intents ->
       [status : {None, "pending", "resolved", "expired"}, level : Levels, timeout_at : Nat,
        p : Intents \cup {None}]]
  /\ {db.owner, db.holder} \subseteq [Intents -> Intents \cup {None}]
  /\ db.held \subseteq Intents
  /\ {db.reserved, db.txn} \subseteq Nat
  /\ get_spend_view(now) \in SpendView
  /\ db.intents \in [0..MaxTime -> Nat]
  /\ keys \in [Intents -> [request : Requests \cup {None}, response : Verdicts \cup {None}]]
  /\ \A c \in Callers : me[c].pc \in PC /\ {me[c].i, me[c].p} \subseteq Intents \cup {None} /\ me[c].at \in 0..MaxTime
  /\ verified \subseteq Intents /\ told \subseteq Intents /\ shared \subseteq Intents
  /\ duelled \subseteq Intents

Init ==
  /\ \E s \in Starts : deployment = s.deployment /\ mandate = s.mandate
  /\ now = 0
  /\ offers = Offers
  /\ db = EmptyDb
  /\ keys = [i \in Intents |-> NoKey]
  /\ me = [c \in Callers |-> Idle]
  /\ verified = {} /\ told = {} /\ shared = {} /\ duelled = {}

At(c, l) == me[c].pc = l

Quiet == \A c \in Callers : At(c, "idle")

(* Async handlers without an await never overlap; workers do. *)
MayStart(c) == At(c, "idle") /\ (deployment = "memory" => Quiet)

(* Another unit of work is under way, so a compare-and-swap may miss. *)
Contended(c) ==
  deployment = "postgres" /\ \E o \in Callers \ {c} : me[o].pc \in {"apply", "commit", "compensate"}

(* The gate on what the stores hold now; an offer may have been withdrawn. *)
Evaluate(i, t, approved_stepup) ==
  LET offer == offers[Intent[i].offer] IN
  IF offer = None THEN Rejected("CONDITION_FAILED")
  ELSE evaluate(mandate, Intent[i], get_spend_view(t), t, offer, approved_stepup)

----------------------------------------------------------------------------
(* verify: claim the idempotency key *)

(* A key is free, or the caller presents another request than the one that  *)
(* claimed it, or it has to wait, or it gets the stored answer.  The store  *)
(* derives the key again with its own secret before it looks at anything.   *)
Conflicts(i, r) == ~SecretsAgree \/ (keys[i].request \notin {None, r})

(* owns_claim: the record that comes back carries this caller's token. *)
OwnsClaim(i) == keys[i] = NoKey

Claim(c, i, p, r) ==
  /\ MayStart(c)
  /\ ~Conflicts(i, r)
  /\ OwnsClaim(i)
  /\ keys' = [keys EXCEPT ![i].request = r]
  /\ me' = [me EXCEPT ![c] = [Idle EXCEPT !.pc = "decide", !.i = i, !.p = p, !.at = now]]
  /\ shared' = IF p = i THEN shared ELSE shared \cup {i, p}
  /\ UNCHANGED <<world, db, verified, told, duelled>>

(* IdempotencyConflict leaves verify; the router turns it into a 400. *)
ClaimConflict(c, i, r) ==
  /\ MayStart(c)
  /\ Conflicts(i, r)
  /\ UNCHANGED vars

(* The stored response is returned as it is; without one the claim belongs  *)
(* to somebody else and the caller is told RAIL_ERROR.                      *)
Replay(c, i, r) ==
  /\ MayStart(c)
  /\ ~Conflicts(i, r)
  /\ ~OwnsClaim(i)
  /\ told' = IF keys[i].response = "APPROVED" THEN told \cup {i} ELSE told
  /\ UNCHANGED <<world, db, keys, me, verified, shared, duelled>>

----------------------------------------------------------------------------
(* verify: read and decide *)

result_for_existing_purchase(s) ==
  IF s = "pending_capture" THEN "APPROVED"
  ELSE IF s = "awaiting_escalation" THEN "ESCALATED" ELSE "REJECTED"

(* get_by_intent: the row that names this intent, under whatever id. *)
RowsOf(i) == {p \in Intents : db.owner[p] = i}

Decide(c) ==
  LET i == me[c].i IN
  /\ At(c, "decide")
  /\ \/ \E p \in RowsOf(i) :
          me' = [me EXCEPT ![c].pc = "finish",
                           ![c].dec.verdict = result_for_existing_purchase(db.purchases[p])]
     \/ /\ RowsOf(i) = {}
        /\ me' = [me EXCEPT ![c].pc = "apply", ![c].dec = Evaluate(i, me[c].at, FALSE)]
  /\ UNCHANGED <<world, db, keys, history>>

----------------------------------------------------------------------------
(* verify: exactly one side-effect branch *)

(* _rejected; ok says whether the outbox accepts the event. *)
RejectedDb(d, x, t, ok) ==
  LET seen == increment_intent(d, t)
      done == update_purchase(save_purchase(seen, x, "rejected"), x, "rejected")
  IN  IF ok THEN append(done, "purchase.rejected", x.p)
      ELSE update_purchase(Failed(d, done), x, "rejected")

(* _escalated emits two or three events; k of them were accepted. *)
EscalatedEvents(dec) ==
  <<"purchase.escalated">>
    \o (IF dec.level = "L3+" THEN <<"risk.stepup_required">> ELSE <<>>)
    \o (IF dec.until > 0 THEN <<"agent.paused_cooldown">> ELSE <<>>)

AppendFirst(d, events, k, p) ==
  [d EXCEPT !.outbox = @ \cup {<<events[j], p>> : j \in 1..k}]

EscalatedDb(d, x, t, dec, k) ==
  LET seen == increment_escalation(increment_intent(d, t), dec.until)
      made == create_escalation(save_purchase(seen, x, "awaiting_escalation"), x, dec.level, t)
      done == AppendFirst(made, EscalatedEvents(dec), k, x.p)
  IN  IF k = Len(EscalatedEvents(dec)) THEN done
      ELSE update_escalation(update_purchase(Failed(d, done), x, "rejected"), x, "expired")

(* _approved up to its event. *)
ReservedDb(d, x, t) ==
  increment_open_authorizations(
    save_purchase(reserve(increment_intent(d, t), x), x, "pending_capture"))

(* Mutants: nothing is given back; the release is not asked whether it may. *)
GivenBackNothing(d, x) == d

GivenBackAnyway(d, x) == decrement_open_authorizations(release(d, x))

(* The event was refused: the reservation is given back, then _rejected. *)
GivenBack(d, x) ==
  IF CanRelease(d, x) THEN decrement_open_authorizations(release(d, x)) ELSE d

Conclude(c, d, verdict) ==
  /\ db' = d
  /\ me' = [me EXCEPT ![c].pc = "finish", ![c].dec.verdict = verdict]
  /\ UNCHANGED <<world, keys, history>>

ApplyRejected(c) ==
  /\ At(c, "apply") /\ me[c].dec.verdict = "REJECTED"
  /\ \E ok \in BOOLEAN : Conclude(c, RejectedDb(db, me[c], me[c].at, ok), "REJECTED")

ApplyEscalated(c) ==
  LET dec == me[c].dec  n == Len(EscalatedEvents(dec)) IN
  /\ At(c, "apply") /\ dec.verdict = "ESCALATED"
  /\ \E k \in 0..n :
       Conclude(c, EscalatedDb(db, me[c], me[c].at, dec, k), IF k = n THEN "ESCALATED" ELSE "REJECTED")

(* Mutants: the event's failure is swallowed; the purchase is given back but *)
(* the caller keeps the answer decided before.                               *)
ApplyApprovedSilently(c) ==
  /\ At(c, "apply") /\ me[c].dec.verdict = "APPROVED"
  /\ CanReserve(db, me[c])
  /\ Conclude(c, ReservedDb(db, me[c], me[c].at), "APPROVED")

ApplyApprovedForgetful(c) ==
  LET x == me[c]  t == me[c].at IN
  /\ At(c, "apply") /\ me[c].dec.verdict = "APPROVED"
  /\ CanReserve(db, x)
  /\ Conclude(c, RejectedDb(GivenBack(Failed(db, ReservedDb(db, x, t)), x), x, t, TRUE), "APPROVED")

ApplyApproved(c) ==
  LET x == me[c]  t == me[c].at IN
  /\ At(c, "apply") /\ me[c].dec.verdict = "APPROVED"
  /\ CanReserve(db, x)
  /\ \/ Conclude(c, append(ReservedDb(db, x, t), "purchase.verified", x.p), "APPROVED")
     \/ \E ok \in BOOLEAN :
          LET back == GivenBack(Failed(db, ReservedDb(db, x, t)), x)
          IN  Conclude(c, RejectedDb(back, x, t, ok), "REJECTED")

(* ReservationRejected: no money, or the compare-and-swap missed. *)
ApplyUnreserved(c) ==
  LET x == me[c]  t == me[c].at IN
  /\ At(c, "apply") /\ me[c].dec.verdict = "APPROVED"
  /\ ~CanReserve(db, x) \/ Contended(c)
  /\ \E ok \in BOOLEAN :
       Conclude(c, RejectedDb(Failed(db, increment_intent(db, t)), x, t, ok), "REJECTED")

(* finish: save_response keeps the first response. *)
Finish(c) ==
  LET i == me[c].i IN
  /\ At(c, "finish")
  /\ keys' = [keys EXCEPT ![i].response = IF @ = None THEN me[c].dec.verdict ELSE @]
  /\ told' = IF me[c].dec.verdict = "APPROVED" THEN told \cup {i} ELSE told
  /\ me' = [me EXCEPT ![c] = Idle]
  /\ UNCHANGED <<world, db, verified, shared, duelled>>

(* The store cannot be reached: the caller is told REJECTED, whatever was   *)
(* decided, and the claim stays without a response.                         *)
FinishFails(c) ==
  /\ deployment = "postgres"
  /\ At(c, "finish")
  /\ me' = [me EXCEPT ![c] = Idle]
  /\ UNCHANGED <<world, db, keys, history>>

----------------------------------------------------------------------------
(* resolve_escalation *)

resolve_envelope(e, approve, uv) == EnvelopeHolds(e.timeout_at, e.level, now, approve, uv)

Resolving(c, i) == me[c].i = i /\ (At(c, "commit") \/ At(c, "compensate"))

(* Mutant: an escalation that was closed can be resolved again. *)
ResolveAgain(c, i, approve, uv) ==
  LET e == db.escalations[i]
      holds == resolve_envelope(e, approve, uv)
  IN
  /\ MayStart(c)
  /\ e.status # None
  /\ me' = [me EXCEPT ![c] = [Idle EXCEPT
                !.pc = IF holds /\ Evaluate(i, now, TRUE) = Approved THEN "commit" ELSE "compensate",
                !.i = i, !.p = e.p, !.at = now]]
  /\ UNCHANGED <<world, db, keys, history>>

(* Read the escalation and, unless the envelope is void, run the whole gate *)
(* again with the step-up waived.  An escalation that is no longer pending  *)
(* is answered from its purchase and nothing changes.                       *)
Resolve(c, i, approve, uv) ==
  LET e == db.escalations[i]
      holds == resolve_envelope(e, approve, uv)
      buys  == holds /\ Evaluate(i, now, TRUE) = Approved
  IN
  /\ MayStart(c)
  /\ e.status = "pending"
  /\ me' = [me EXCEPT ![c] = [Idle EXCEPT !.pc = IF buys THEN "commit" ELSE "compensate",
                                          !.i = i, !.p = e.p, !.at = now]]
  /\ verified' = IF approve /\ uv /\ now < e.timeout_at THEN verified \cup {i} ELSE verified
  /\ duelled' = IF \E o \in Callers : Resolving(o, i) THEN duelled \cup {i} ELSE duelled
  /\ UNCHANGED <<world, db, keys, told, shared>>

ResolvedDb(d, x) ==
  increment_open_authorizations(
    update_purchase(update_escalation(reserve(d, x), x, "resolved"), x, "pending_capture"))

ResolvedEvents == <<"escalation.resolved", "purchase.verified">>

(* The unit of work that buys: reserve, resolve, two events.  The status    *)
(* read before is not read again.                                           *)
Commit(c) ==
  LET x == me[c]
      done(k) == AppendFirst(ResolvedDb(db, x), ResolvedEvents, k, x.p)
  IN
  /\ At(c, "commit")
  /\ CanReserve(db, x)
  /\ \/ /\ db' = done(2)
        /\ me' = [me EXCEPT ![c] = Idle]
     \/ \E k \in 0..1 :
          /\ db' = Failed(db, done(k))
          /\ me' = [me EXCEPT ![c].pc = "compensate", ![c].rid = TRUE]
  /\ UNCHANGED <<world, keys, history>>

CommitUnreserved(c) ==
  /\ At(c, "commit")
  /\ ~CanReserve(db, me[c]) \/ Contended(c)
  /\ me' = [me EXCEPT ![c].pc = "compensate"]
  /\ UNCHANGED <<world, db, keys, history>>

(* _expire_and_compensate gives back what the purchase or this very call    *)
(* has reserved, and records the escalation as expired.  When the event is  *)
(* refused it tries the release once more, unless the first one worked.     *)
Closed(d, x) == update_purchase(update_escalation(d, x, "expired"), x, "compensated")

Reservation(c) == me[c].rid \/ db.purchases[me[c].p] = "pending_capture"

Compensate(c) ==
  LET x == me[c] IN
  /\ At(c, "compensate")
  /\ \E released \in BOOLEAN :
       /\ released => Reservation(c) /\ CanRelease(db, x)
       /\ ~released => ~(Reservation(c) /\ CanRelease(db, x)) \/ Contended(c)
       /\ LET d == Closed(IF released THEN GivenBack(db, x) ELSE db, x)
              retry == IF released \/ ~Reservation(c) THEN Failed(db, d)
                       ELSE GivenBack(Failed(db, d), x)
          IN  db' \in {append(d, "escalation.expired", x.p), retry}
  /\ me' = [me EXCEPT ![c] = Idle]
  /\ UNCHANGED <<world, keys, history>>

----------------------------------------------------------------------------
(* The surroundings *)

Tick ==
  /\ now < MaxTime
  /\ now' = now + 1
  /\ UNCHANGED <<deployment, mandate, offers, db, keys, me, history>>

(* The mandate's status and the catalogue change under the service. *)
SetStatus(s) ==
  /\ deployment = "memory" => Quiet
  /\ mandate.status \notin {"revoked", s}
  /\ mandate' = [mandate EXCEPT !.status = s]
  /\ UNCHANGED <<deployment, now, offers, db, keys, me, history>>

SetPrice(o, p) ==
  /\ deployment = "memory" => Quiet
  /\ offers' = [offers EXCEPT ![o] = IF p = None THEN None ELSE [Offers[o] EXCEPT !.amount = p]]
  /\ offers' # offers
  /\ UNCHANGED <<deployment, now, mandate, db, keys, me, history>>

(* A worker dies between two units of work; its claim keeps no response. *)
Die(c) ==
  /\ deployment = "postgres"
  /\ ~At(c, "idle")
  /\ me' = [me EXCEPT ![c] = Idle]
  /\ UNCHANGED <<world, db, keys, history>>

(* IDEMPOTENCY_TTL passes: every key is free again, and every window and    *)
(* every envelope, all of them far shorter, is over.                        *)
ForgetKeys ==
  /\ Quiet
  /\ \E i \in Intents : keys[i] # NoKey
  /\ keys' = [i \in Intents |-> NoKey]
  /\ db' = [db EXCEPT !.intents = [t \in 0..MaxTime |-> 0], !.asked = 0, !.cooldown = 0,
                      !.escalations = [i \in Intents |-> [@[i] EXCEPT !.timeout_at = 0]]]
  /\ UNCHANGED <<world, me, history>>

Verify(c) ==
  \/ \E i \in Intents, r \in Requests :
       \/ \E p \in PurchaseIds[i] : Claim(c, i, p, r)
       \/ ClaimConflict(c, i, r) \/ Replay(c, i, r)
  \/ Decide(c)
  \/ ApplyRejected(c) \/ ApplyEscalated(c) \/ ApplyApproved(c) \/ ApplyUnreserved(c)
  \/ Finish(c) \/ FinishFails(c)

ResolveEscalation(c) ==
  \/ \E i \in Intents, approve \in BOOLEAN, uv \in BOOLEAN : Resolve(c, i, approve, uv)
  \/ Commit(c) \/ CommitUnreserved(c) \/ Compensate(c)

Next ==
  \/ \E c \in Callers : Verify(c) \/ ResolveEscalation(c) \/ Die(c)
  \/ Tick
  \/ \E s \in Statuses : SetStatus(s)
  \/ \E o \in DOMAIN Offers, p \in Prices : SetPrice(o, p)
  \/ ForgetKeys

Spec == Init /\ [][Next]_vars

----------------------------------------------------------------------------
(* Properties *)

Live == {p \in Intents : db.purchases[p] = "pending_capture"}

(* No escalation was resolved by two calls at once, and no purchase id was  *)
(* used for two intents: the two things that nothing in the service stops.  *)
Undisturbed == shared = {} /\ (duelled = {} \/ deployment = "memory")

(* The money the reservation store holds back never exceeds the mandate's   *)
(* budget, although the gate decides on a projection that may be stale (in  *)
(* memory it never moves at all).                                           *)
WithinBudget == db.reserved <= mandate.total_budget

(* The money held is exactly the money of the purchases that are pending    *)
(* capture: whatever event, race, crash or rollback came in between, none   *)
(* of them is without its hold and no hold outlives its purchase.  Only two *)
(* calls that resolve one escalation at once, which one call at a time      *)
(* never does, or a purchase id sent for two intents can break it.          *)
HoldsMatch ==
  Undisturbed => db.reserved = SumFunctionOnSet([i \in Intents |-> Amount(i)], Live)

(* An intent whose verify was answered APPROVED is pending capture and      *)
(* stays so: no failure after the answer, no replay and no late compensation *)
(* takes the hold away from under the merchant.  Only a verify of another   *)
(* intent under its purchase id can (_rejected updates the row by its id).  *)
ApprovedIsHeld == told \ shared \subseteq Live

(* A purchase of 70 percent of the limit or more is only ever bought when   *)
(* the user was verified in time for exactly that escalation (of the        *)
(* purchases whose id stands for one intent).                               *)
StepUpNeedsUV ==
  \A i \in Live \ shared : AtAmountThreshold(mandate, Amount(i)) => i \in verified

(* The count of open authorizations, which the cap is checked against, is   *)
(* the number of purchases that are open, unless two calls have resolved    *)
(* one escalation at once or two intents have shared an id; with one call   *)
(* at a time the cap holds.                                                 *)
OpenIsCounted ==
  Undisturbed =>
    /\ db.open = Cardinality(Live)
    /\ deployment = "memory" => Cardinality(Live) <= MaxOpen

(* No purchase is open without its purchase.verified event in the outbox,   *)
(* except while the call that failed to emit it is about to compensate.     *)
OpenIsAnnounced ==
  \A p \in Live : \/ <<"purchase.verified", p>> \in db.outbox
                  \/ \E c \in Callers : At(c, "compensate") /\ me[c].p = p

(* A purchase that was refused, or whose escalation was denied or timed out, *)
(* is never opened again: no late approval, retry or replay brings it back. *)
(* Only two resolutions of one escalation at the same time can do that, or  *)
(* the escalation of another intent under the same purchase id.             *)
RefusalIsFinal ==
  [][\A p \in Intents \ (duelled \cup shared) :
       db.purchases[p] \in {"rejected", "compensated"} => db'.purchases[p] = db.purchases[p]]_vars

(* No money is newly held while the mandate is not active, even for a call  *)
(* that read the mandate before it was revoked.                             *)
RevocationBites == [][db'.reserved <= db.reserved \/ mandate.status = "active"]_vars
=============================================================================
