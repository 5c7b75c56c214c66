# Formal model of trystrus2

trystrus2 lets a software agent buy on a person's behalf. The person signs a
*mandate* (scope, conditions, limits, validity); the agent proposes; a gate
decides; a saga reserves budget, pays and settles; a human is asked when the
gate cannot say yes by itself; everything is written to an audit chain. This
directory holds TLA+ modules of that machinery, the TLC configurations that
check them on small instances, and TLAPS proofs for every instance.

Source paths below are relative to the repository root. The modules are
translated from the code, not from its documents. A property that restates a
documented claim names its label (M2, S7, ... of `aval/docs/PROPERTIES.md`).

## 1. Inventory

The program has two lanes over one PostgreSQL database, and services beside
them.

| Component | State it keeps | Operations | Talks to |
|---|---|---|---|
| Agent kernel (`src/agent/kernel.py`, `mandate.py`) | `mandates` (status, reserved, spent, count), `purchases`, `payment_instruments` | `submit_purchase`: verify, gate, `reserve_chain`, charge, `settle`, `_compensate`; issue and revoke a mandate | rail and merchants through `ports/`; escalation when the gate defers |
| Remote merchants (`src/agent/ports/merchants_mcp.py`) | none of its own | quote, settle over MCP or HTTP | MCP servers, the Rappi bridge |
| Rappi bridge (`src/rappi_bridge/`) | `bridge_orders` checkpoints; the account's one cart at Rappi | `add_to_cart`, `quote`, `place_order` | Rappi's API; capture tokens of the API lane |
| Agent runs (`src/agent/graph.py`, chat, Telegram, CLI, HTTP) | `agent_runs` (node, status, state) | start, the nodes, `run_until_pause`, `resume`, guidance | kernel, escalations |
| Agent escalations (`src/agent/escalation.py`) | `escalations` | open, resolve, expire, sweep, retry through the gate | kernel, runs |
| Watcher and limits (`src/agent/watcher.py`, `limits.py`) | `watches`, advisory lock, rate buckets | tick, check, cancel, take, bump | escalations, kernel, relay |
| Decision service (`src/api/decision/`) | idempotency records, reservations, purchases, escalations, velocity counters and outbox behind repository ports | verify, resolve escalation, expire and compensate | policy gate; called by the merchant |
| Policy gate (`src/api/domain/policy.py`) | none (pure) | evaluate, the envelope of an escalation | - |
| Issuer (`src/api/routers/mandates.py`, `services/passkey.py`, `state_machine.py`) | `mandates`, `webauthn_challenges`, credentials, `payment_instruments` | register a passkey, create, activate, revoke | rail (enrolment, token deletion); asked by the rail |
| API escalations (`src/api/services/escalations.py`) | `escalations`, verdict events | create, list, resolve, sweep | outbox |
| Merchant server (`src/merchant/`) | catalogue, `merchant_orders` | quote, update a price, charge (seven steps) | decision service, rail |
| Yuno simulator (`src/yuno_sim/`) | vault, payments, idempotency keys, disputes | enrol, exchange, delete a token, capture, dispute, adjudicate | issuer (live status) |
| Agent audit (`src/agent/audit.py`) | one hash chain per mandate, checkpoints | append, checkpoint, verify | outbox |
| API audit (`src/api/audit/`) | one hash chain, root signatures, witness | append, sign_root, verify_chain | - |
| Outbox relays (`src/agent/relay.py`, `src/api/events/relay.py`) | `outbox` rows | drain by a worker, drain by a job | subscribers, sinks |

What is hard in it:

* **Interleaving.** Agent connections run in autocommit mode, so each SQL
  statement is its own transaction. Chat, Telegram, HTTP, CLI and cron are
  separate processes or threads on the same rows. Some writes are guarded
  (`reserve_chain`'s compare-and-swap, `ARMED -> CLICKED`); others write what
  was read some statements ago (`settle`, `_unreserve`, `escalation.resolve`,
  most bridge checkpoints).
* **Crashes.** A process may die between any two statements; nothing resumes a
  half-done saga, a run goes on only when a person writes again.
* **Lost answers.** A remote merchant, or Rappi, may take the money and the
  answer may be lost.
* **Time.** Mandates, capture tokens and escalations expire while calls that
  already read them are in flight.
* **Shared outside state.** All purchases through the bridge share one cart.

What makes each part correct is stated in sections 3 to 7; `PROJECT.json`
lists the individual hazards at the lines where they bite.

## 2. Modules

| Module | Models | Composition |
|---|---|---|
| `MandateAccount` | abstract specification of a mandate's money: reserve within the budget, release, settle | implemented by `AgentKernel` while calls do not overlap |
| `AgentKernel` | the purchase saga of the agent lane, statement by statement | |
| `BridgeOrder` | adapter, bridge and checkpoint table around one paying click | |
| `AgentRun` | runs, escalations and the watcher around the kernel | the kernel is one step |
| `PolicyGate` | the gate of the API lane, as operators | used by `DecisionService` |
| `DecisionService` | verify and resolve_escalation over both repositories | |
| `Mandates` | the issuer: passkeys, mandates, revocation | extended by `Rail` |
| `Rail` | the vault, capture and disputes | extended by `Merchant` |
| `Merchant` | catalogue, quote and charge; `CommerceSpec` composes issuer, rail and shop | |
| `ApiEscalations`, `AuditTrail`, `Ledger`, `Outbox` | the escalations, the two evidence ledgers and the two relays | independent; all in `MCPlatform` |

`MC*` modules give the constants their values and restrict the environment
where an instance would otherwise be too large. The `*Proofs` modules hold the
theorems (section 8): `AgentKernelProofs`, `BridgeOrderProofs`,
`AgentRunProofs`, `DecisionServiceProofs`, `CommerceProofs` (issuer, rail and
shop), `EvidenceProofs` (`AuditTrail`, `Ledger` and `Outbox`) and
`PlatformProofs` (`ApiEscalations`, and the platform as a whole). `SumTheorems`
has the facts about sums over finite sets and about numbers that they share.

What a continuation would take up, in this order: the composition of kernel
and bridge, so that the adapter's timeout and the bridge's late click meet in
one model; the composition of `Merchant` with `DecisionService` in place of its
nondeterministic kernel.

## 3. `AgentKernel` and `MandateAccount`

**State.** `mandates`, `instruments`, `purchases`, `price` are the tables and
the live catalogue. `paid` is what rail or remote merchant really captured.
`past` and `revoking` are the clock and a revocation between its two
statements. Each call of `submit_purchase` has a program counter `pc`, the
inputs it was made with, the loop positions `top` (rows reserved) and `walk`,
the row it last read `snap`, and `late` (what its one reading of the clock
said). `Chain[m]`, a mandate followed by its ancestors, is a constant, for
`parent_jti` is never changed.

**Actions.** One per SQL statement or external call: `Submit`, the verify and
gate steps, `ReserveRead`/`ReserveWrite`/`ReserveLost` (compare-and-swap),
`Checkout`, `RailCheck`/`RailCapture`, `RemotePay` with its three outcomes,
`SettleRead`/`SettleWrite`, the two `Unreserve` steps, `Compensate`. The
environment issues, revokes (two steps), suspends, reactivates, lets validity
end, moves prices, and lets a process die.

**Abstractions.** Money is a natural number (the code's decimals never divide);
signatures are taken as sound; the JSON-logic conditions and the scope are the
constant relations `Unmet` and `OutOfScope`; the two rejections that have the
same effect on state are one.

| Run | Question | Result |
|---|---|---|
| `kernel_serial` | With one call in flight: `WithinBudget`, `BooksBalance` (both money columns are exactly what the calls hold or settled), `ImplementsAccount`, `EveryCallEnds` | pass, 306,128 states |
| `kernel_concurrent` | Two calls statement by statement: `OnePathToMoney`, `SpendIsPaid`, `RevocationBites` | pass, 352,686 states |
| `kernel_overspend` | Is what was captured within budget, calls overlapping? | violated: `settle` overwrites another call's reservation |
| `kernel_revival` | Does a revoked mandate stay revoked? | violated: `settle` writes back the status it read |

**Bounds.** Two mandates, parent and child, because every ancestor loop then
has a first, a last and a failing later step; two purchases because each race
is between one read-write pair and one other writer (three where the budget
has to be overrun); prices and budgets such that one purchase fits and two do
not, so the compare-and-swap and the refusals happen. `Revocable`,
`Suspendable`, `Expiring` and `Moving` bound what the environment touches.
Deadlock checking is off: when all calls have ended nothing is left to do.

**Fairness.** `EveryCallEnds` assumes weak fairness of the next statement of
each call: a running handler executes its next statement unless it dies.
Nothing is assumed of holders, merchants or callers.

## 4. `BridgeOrder`

**State.** `state` and `receipt` of each Idempotency-Key are the checkpoint
table; `cart` and `total` are Rappi's account; `config` is the bridge's mode;
`paid` records each click that took money with what came back. `ignored` is a
history variable: clients whose cart Rappi refused with the 404 that
`RappiClient._request` turns into a normal answer (rappi.py:143). A receipt of
the state `confirmed` is `confirmed` when Rappi's answer named an order and
`unnamed` when it had no order_id. A client is one run of the adapter: cart/add, quote, capture token, order.
`Exclusive` names clients that never overlap with another; the rest overlap
freely.

**Actions.** `AddToCart`, `AskQuote`, `Claim`, `Session`, `BindCart`,
`VerifyToken` (fresh or expired), `Guards` (the address moved or not),
`FinishDryRun`, `MarkClicked`, `PlaceOrder` (placed and answered, with an empty
body, or with the answer lost; not placed: a 404 that mentions stores, the store
minimum, another error), `Confirm`, `MarkFailed`, `MarkUncertain`, `Abort`; the
environment moves prices and restarts the bridge in another mode.

| Run | Question | Result |
|---|---|---|
| `bridge_retry` | A purchase and its retry, beside two overlapping requests of another key: `OnePayingClick`, `MoneyOnRecord`, `ReceiptsAreTrue`, `OrderedAsApproved`, `UncertainIsFinal` | pass, 1,508,074 states |
| `bridge_two_clicks` | One key, one paying click, also for overlapping requests? | violated: an unguarded checkpoint rewinds `clicked` |
| `bridge_cart_swap` | Is the cart that was approved the one that is bought? | violated: only the total is compared before the click |

Four clients (two exclusive under one key, two overlapping under another, one
of them with a dry-run token), two products and totals below and above the cap
let every guard pass and fail. `ReceiptsAreTrue` is checked for overlapping
clients too: a receipt with an order_id has an order behind it. One without is
no evidence of an order (section 10); what holds of it is that, for a key whose
requests do not overlap, it hides no payment whose answer was lost or named
another order. `OrderedAsApproved` excepts the carts in `ignored`.

## 5. `AgentRun`

**State.** `runs`, `purchases`, `escalations`, `watches` are the tables (only
purchases that captured or asked a human get a row: a refusal is final and
nobody reads it again); `overdue` and `due` are the clock; `lock` is the
advisory lock of the tick; `me[w]` are a worker's locals, with the copy of the
run row that `_save` writes back whole. `kernel.submit_purchase` is one step
(`Submit`) with each outcome it can have; section 3 has its statements. One of
them is `lost`: a remote merchant took the money and the answer did not arrive.
The kernel then compensates and reports RAIL_ERROR (kernel.py:606), which a run
takes for a refusal worth another try (graph.py:38) and which leaves a watch
active (watcher.py:206).

**Actions.** The loop (`Start`, `Think` for perceive, search and propose,
`Gate`/`GateAnswer`, `Park`, `Receipt`, `Finish`, `Fail`, `Throttle`), guidance
(`Guide`, `GuideWrite`), an answer (`Answer`, which includes resolve's read,
`ResolveWrite`, `Reject`, `Retry`, the `Expire` steps), `graph.resume`
(`ResumeRead`, `ResumeMark`, `ResumeSave`, `ResumeEnd`), the tick (`Tick`, `SweepOne`,
`Claim`, `Pass`, `Match`, `Fire`, `Fired`, `Unlock`), and `Elapse`, `ComeDue`,
`Cancel`, `Die`. Two consecutive statements are one step where the first only
takes the lock or reads rows that the call has not used yet.

**Crossing.** Nothing in the code keeps two processes from answering one
escalation, or from working on one run, at the same time, nor a deadline from
passing between resolve's look at the clock and its write. `crossed` records
the escalations and runs this has happened to; `MayCross` says which of them it
may happen to in an instance. The properties about answers except the
escalations that crossed, and say so; `run_two_answers` shows what crossing
answers do. An answer that races with the sweep and is not past resolve's read,
or with the run that is about to park, is no exception.

| Run | Question | Result |
|---|---|---|
| `run_answers` | `OneRetry` (M5), `DeniedMeansDenied` (S3, H2), `AnswerIsFinal`, `RunBuysOnce` (H1, S7), `WatchFiresOnce`, `DoneIsTrue`, `TimeoutDenies`, types (the replans stay within their bound) | pass, 519,131 states |
| `run_two_answers` | Is an escalation charged once when two approvals overlap? | violated: `resolve`'s write does not repeat the condition of its read |
| `run_denied_paid` | Has a run that ends denied or failed not paid? | violated: the wall clock is checked between capture and receipt |

`RunBuysOnce` and `WatchFiresOnce` allow one more purchase per process that
died and per payment whose answer was lost: the code re-enters at the gate,
replans, or finds the watch still active, and the model confirms that this is
the whole price. Each of the two exceptions is needed: without it TLC finds a
run, and a watch, that pays twice.

**Bounds.** `run_answers` starts in one of two situations: around a run (the
watch is cancelled, two purchase ids are left: a question and its retry, or a
purchase and the one repeated after a crash) or around a watch (the run is
over, three ids: a question and two retries, or repeated firings). Two workers
give every pair of overlapping activities; `MayCross` has every escalation, and
`MaxMishaps` bounds deaths and crossings together by 1, so that each is met
alone (two workers that drive one run at once are not in the run, only in the
theorems: `RunTypes`, `WatchesFireOnce` and `DoneRunsAreTrue` hold with them);
`MAX_REPLANS` is
1 instead of 2, so that both a counted and an exhausted replan occur. In
the model the purchase ids run out: `Submit` then has only the outcomes that
record nothing. The wall clock is a nondeterministic `Fail`, so its length is
no bound.

**Fairness.** `TimeoutDenies` assumes that a handler's next statement is
executed unless its process dies (weak fairness of `Step(w)`), and that cron,
which has its own timer, is not kept from starting a tick for ever by callers
that occupy the model's few workers (strong fairness of `Tick`). Deaths are
bounded: if every tick died nothing would ever be swept.

## 6. `PolicyGate` and `DecisionService`

**Gate.** Pure operators, in the order the code asks its questions: state of the
mandate, binding, price, scope, conditions, limits, burst, step-up; a rejection
beats an escalation and a step-up beats a velocity escalation. Amounts are
cents; the two thresholds (70 % of the limit, 80 % of the budget) are exact and
inclusive. A JsonLogic condition is a field of the offer.

**State.** `db` is everything one unit of work writes (purchases, escalations,
holds, the money columns, counters, outbox), so that a rollback is one
assignment: `Failed` is the database before in Postgres and the half-written
one in memory, where there is no transaction manager. `keys` are the
idempotency records and `me` each caller's locals. `deployment` chooses the
wiring: in memory the handlers never await and so never overlap, in Postgres
callers interleave between units of work, may die there, and a compare-and-swap
may miss while another unit of work is under way.

**Actions.** verify is `Claim`/`ClaimConflict`/`Replay`, `Decide`, one of
`ApplyRejected`, `ApplyEscalated`, `ApplyApproved`, `ApplyUnreserved` (each with
the outbox accepting or refusing every event), `Finish`/`FinishFails`. A caller
may send a purchase id of its own (routers/decision.py:94, service.py:254):
`PurchaseIds[i]` are the ids the callers of intent `i` use, rows, reservations
and escalations are named by them, and `owner` and `holder` say whose intent a
row and a reservation are. An intent keeps its latest escalation only.
resolve_escalation is `Resolve`, `Commit`/`CommitUnreserved`, `Compensate`.
Around them the clock, a revocation, a withdrawn offer, deaths and
`ForgetKeys` (the time to live of the keys passes).

`duelled` records escalations that two calls resolved at the same time. Such
duels are in the run; three properties are stated for the rest (section 10).
`shared` records the purchase ids that were sent for two intents. They are in
the run too, and without the exception for them TLC refutes `ApprovedIsHeld`,
`HoldsMatch`, `OpenIsCounted` and `RefusalIsFinal`: the second intent's verify
updates the first one's row (service.py:670). `StepUpNeedsUV` excepts them
because it takes the amount from the id.

| Run | Question | Result |
|---|---|---|
| `decision_calls` | `WithinBudget`, `HoldsMatch` (the money held is the sum of the open purchases), `ApprovedIsHeld` (nothing takes back what verify has answered), `StepUpNeedsUV`, `OpenIsCounted`, `OpenIsAnnounced`, `RefusalIsFinal`, `RevocationBites`, types | pass, 1,207,568 states |

**Bounds.** Two callers give every pair of overlapping calls; two intents, one
below and one at the step-up threshold, with a budget that holds both (memory)
or only one (Postgres, where they race for it); one open authorization, one
intent per window and one escalation per hour, so that each counter reaches its
limit; three instants, so that an envelope of one and one of two ticks both run
out. The callers of the larger intent may send the smaller one's purchase id.
`MCNext` withdraws only the larger offer, and neither an offer nor the keys go
once an id is shared: that keeps the run within minutes, and the theorems are
proved without the restriction. `SecretsAgree` is TRUE: the service as its
tests wire it (section 10 says what FALSE means). Deadlock checking is off: the
clock and the intents run out.

That a unit of work over Postgres rolls back as a whole rests on what
`ports.py:203-205` promises of a transaction manager: the repository has no
Postgres store of purchases or escalations and no such manager yet.

## 7. The platform around the decision

`Merchant` extends `Rail` extends `Mandates`; `CommerceSpec` is their
composition.

**Issuer.** One user, one authenticator, one mandate. A request is one
transaction: `_verify_gesture` claims the challenge (and locks its row),
`assert_passkey` or `revoke_mandate` makes the guarded transition and commits,
`Rollback` frees the challenge. After the commit of a revocation the token is
deleted at the rail (`delete_token`, `mark_instrument_deleted`) or not
(`GiveUpDelete`). `Move` stands for transitions without a gesture. `counts`
says whether the authenticator counts its signatures. The agent's kernel writes
the same mandates table and does not go through these transitions
(`kernel.py:381`, run `kernel_revival`); it is no part of this composition, so
what is said here of a revoked mandate is said of the requests of the API lane.

**Rail.** A capture makes four steps that other requests may come between:
`Lookup`, `CheckToken`, `CheckMandate` (which asks the issuer; no answer is a
refusal), `Settle`, where the primary key of the idempotency table decides a
race; `RailDies` ends it anywhere. The vault's exchange and the adjudication
are a read and an unguarded write each.

**Shop.** One signed cart and several attempts. The rail's idempotency key is
global and not bound to the request (`payments.py:85`), and the shop's callers
choose it (`charge.py:127`): the calls in `Others` pay for other carts at prices
of their own, under keys that an attempt may use too (`ChargeElsewhere`). `Present` has steps 1 to 3,
`VerifyCheckout` locks the row, `Capture` calls the rail, `mark_captured`
stores the receipt; `RailRefuses`, `GiveUp` (a timeout, answered as a refusal),
`Unapproved` and `Unsettled` are the other ends. `lost` records attempts that
ended without the rail's answer on record.

**Escalations.** An answer is a transaction that first expires what is due by
the clock it has read, keeping those rows locked (`ResolveBegin`), and then
makes the guarded UPDATE (`resolve`). Whole seconds, as stored. The agent lane
writes its own escalations in the same table by unguarded updates
(`agent/escalation.py:127, 175`); `AgentRun` has those.

**Evidence.** In `AuditTrail` and `Ledger` a digest is the sequence of payloads
it covers, so that digests are equal when the contents are. The auditor of
`AuditTrail` reads rows and head of each chain in separate queries; alterations
edit one event or rewrite the end of a chain consistently. `Ledger` signs,
annotates and publishes in three calls that others may come between, and a
process may stop in the middle (`disturbed`). The range that `sign_root` chooses
by itself is modelled; an explicit one (`seq_start`, `seq_end`), which only
tests pass, is not.

**Outbox.** A worker of the agent lane holds its rows locked for the pass and
counts failures; a job of the API lane does neither.

These four share no state with the shop or with each other. `MCPlatform` has a
variable `focus`, chosen at the start, that says which part a behaviour
exercises; an interleaving of independent parts would add states and no case.

| Run | Question | Result |
|---|---|---|
| `platform` | `OneGestureOneChange`, `RevocationReachesRail`, `OneCartOnePayment`, `ReceiptIsPaid`, `OneVerdict`, `VerdictIsRight` (the auditor), `VerificationIsHonest` (the ledger), `RelayedMeansDelivered`, `EveryEventSettles`, types | pass, 303,185 states |

**Bounds.** Two of everything that races (gestures, attempts, resolvers,
writers, signers, workers) and one job; two keys and two purchase ids in the
three combinations a retry can have (same body, another purchase under the
same key, another under another key); one other cart, charged another price
under the key of an attempt, in the behaviours where the price stays and nobody
revokes; two events with a batch of one, so that
one waits behind another; two attempts per event and one death; three seconds
with a timeout of one, so that an answer comes before, at and after the
deadline. With the focus on the shop the holder enrols and activates once
before the first quote, and the price only goes up. Deadlock checking is off:
each part comes to its end.

**Fairness.** `EveryEventSettles` assumes weak fairness of each worker's next
step: `run_forever` of `agent/relay.py` makes one pass after another, and
`drain` catches what a subscriber raises. A worker that dies is started again
by whoever runs it. Nothing is assumed of the job. Deaths are bounded: a worker
that always dies before its commit would never count an attempt.

## 8. What is proved

The `*Proofs` modules are checked by TLAPS for every value of the constants
that satisfies the named assumptions (`ChainAssumption`, `LimitAssumption`,
`NameAssumption`, `BridgeAssumption`, `RunAssumption`, `GateAssumption`,
`ServiceAssumption`, `MandatesAssumption`, `RailAssumption`, `MerchantAssumption`, `EscalationsAssumption`, `AuditAssumption`,
`LedgerAssumption`, `OutboxAssumption`), which TLC evaluates in the runs. The
theorems are about the modules' own specifications, without the restrictions
and starting points of the `MC` modules and configurations; only the two about
the composed platform are about `MCSpec` of `MCPlatform`, where the composition
is written down. Every invariant and action property that a passing run checks
is a theorem.

*Sums* (`SumTheorems`). The money properties compare a column with a sum over a
set of calls or intents. `SumFunctionOnSet` is a recursive function on the
subsets of a set; that the recursion has a solution, and what a changed
summand or another element does to the sum, is shown by induction on the
cardinality. The induction theorems of the library take a formula as parameter,
which the provers cannot instantiate; the induction here is over sets of
numbers instead: a non-empty set of naturals has a least element (`LeastNat`,
from `WFMin`), so the set of sizes for which a fact holds is all of `Nat`
(`NatSet`).

*Kernel, any number of concurrent calls.* `TypeCorrect`, `MoneyHasOnePath` and
`RevocationHolds` rest on `TypeInv`: types, where the two loop counters stand
at each statement (`Positions`), and what the gate established for a call that
went past it (`Approved`). `OnePathToMoney` alone is not inductive, since it
says nothing of a call that is about to pay.

*Kernel, one call in flight.* `BudgetHoldsSerially` and
`SagaImplementsAccount` assume `Concurrent = FALSE` and rest on `SerialInv`: at
most one call is in flight, the snapshot behind a pending unguarded write is
current (`CurrentSnapshot`), and each row the call holds covers its amount
(`HoldsCovered`). The first two are what overlap destroys, which is how
`kernel_overspend` comes about. The proof takes the three writes that move
money (reserve, unreserve, settle) one at a time; all other steps leave the
columns alone (`QuietMoney`, `QuietHolds`, `QuietSnapshot`).

*Kernel, the books.* `SpendIsCovered` needs no exclusiveness and rests on
`SpendInv`: spent, also in a snapshot that a call is about to write back, is at
most the sum over the calls that have settled on the row, and only a call that
captured settles; an overwritten settle takes money off the column and never
adds to it. `BooksAreExact` (calls do not overlap) rests on `BooksInv` beside
`SerialInv`: both columns of every row are equal to their sums.

*Bridge.* `OneClickWhenAlone`, `MoneyStaysOnRecord`, `ReceiptsHold`,
`ApprovedIsOrdered` and `UncertainStays` rest on `OrderInv`: a client that runs
alone is the only one in flight, its row is in the state its statement expects
(`RowAt`), a confirmation that names an order follows a placed order
(`PlacedAt`), and the cart is the one it filled, unless Rappi ignored it
(`CartAt`). What `ReceiptsHold` says of receipts with an order_id needs no
exclusiveness.

*Runs, whatever overlaps* (`AgentRunProofs`). `RunTypes`, `WatchesFireOnce` and
`DoneRunsAreTrue` assume nothing about who works on what at once. They rest on
`LooseInv` (what the locals of a worker mean where it stands, that an escalation
is about a purchase which was not captured), which no overlap can break. On it
`WatchInv` builds an accounting argument: the purchases of a watch and the chance
to make another (an active watch that nobody has just fired) are together at
most one more than the deaths and the lost payments; the advisory lock of the tick makes its holder
the only one at work on any watch. `DoneInv` says what a row of a run, and every
copy of it that some worker is going to write back, however stale, have in
common: the kind of the request, and that the node receipt or done was earned by
a capture, which no step undoes.

*Runs, where nothing crossed.* `RetriedOnce`, `DenialsHold`, `AnswersAreFinal`
and `RunsBuyOnce` allow every overlap the code does, and except what crossed
(section 5); `run_two_answers` shows what crossing does. The first three rest on
`AnswerInv`: for each worker what its statement expects of the escalation it
read, for each escalation that has not crossed which answer goes with which
retries, and that one worker at most decides such a question. `RunsBuyOnce`
adds `RunInv` (a worker in the loop has the run for itself, and its copy is the
row) and `CostInv`, the account of a run: its purchases, open questions and
retries under way and the chance to ask again (a worker before its gate, or a
row that would be entered again there) are together at most one more than the
deaths and the payments whose answer was lost; these two are the only steps that
give back a chance that was used. Each action is first reduced to what it does
(the lemmas `...Is`), then to one of a few kinds of step (nothing, a purchase, a
lost one, a mark, a purchase voided).

*Decision service* (`DecisionServiceProofs`). Nine theorems, with both
repositories, any callers, deaths and forgotten keys, rest on `IInv`. It relates
the database to the callers' locals: a claimed key belongs to one caller until
its response is saved (`ClaimIsExclusive`); what a call that resolves an
escalation still finds (`Resolvers`); whoever claims a free key finds nobody who
could still close the purchase (`FreeKeys`), which is why an approval, once
given, stored or about to be given, holds (`GrantsHold`); in memory, where calls
do not overlap, what the gate saw still holds when the call buys
(`GateStillHolds`); a step-up is not lost between decision and commit
(`StepUps`). `BudgetHolds` and `RevocationsBite` come from the condition that
the reserving statement repeats, whatever the gate had seen. `HoldsAreExact` and
`OpenAuthorizationsAreCounted` are equalities with a sum and a cardinality
(`Books`) and hold outside `duelled` and `shared` (section 10), as does
`RefusalsAreFinal`. What a caller that sends a purchase id of its own does to
the rows of that id is told apart in the invariant: an intent that shares no id
is named by its own (`Names`), and only rows in `shared` are ever written for
two intents (`Paired`). A step's effect on the rows of its own call (`Effect`)
is kept apart from what any call may do to anybody's (`Does`, `Touch`).

*The gate* (`DecisionServiceProofs`). `PolicyGate.evaluate` asks its
questions one after the other and stops at the first objection. `GateIsExact`
says what comes out of it without the order: approved exactly if the mandate
permits the purchase (`Permits`), no velocity signal is up (`Calm`) and it is
below the step-up thresholds or a person has waived them (`Discreet`); rejected
exactly if the mandate forbids it or no person may answer for it (`Tolerable`
fails); escalated otherwise. `ApprovalWaivesOnlyStepUp` is about the second
evaluation, after a person's approval: it can differ from the first only where
the first asked for an L3+ step-up. Both are about the operators, for every
mandate, intent, spend view, instant and offer; lemmas say first what each group
of questions lets through.

*Issuer* (`CommerceProofs`). `GestureCountsOnce` rests on `IssuerInv`: a
request that has verified a gesture holds its challenge, alone (`ClaimIsHeld`);
the number of transitions of a purpose is one exactly when its challenge is
consumed (`ChangeConsumes`); and a status beyond draft was earned by the
transition for it (`StatusIsEarned`).

*Rail and shop* (`CommerceProofs`). `RevokedNeverCaptures`, `CartIsPaidOnce` and
`ReceiptsArePaid` rest on `MoneyInv`: a call that came in after the revocation
is never about to settle, because the mandate stays revoked (`RevokedStays`)
and the call's last check asked for it (`TardyIsStopped`); payments, calls and
remembered keys agree (`Booked`, `Called`); one attempt holds the order's row,
and none once it is captured (`OneLock`); whatever a key remembers was paid
under that key, by an attempt or elsewhere (`Backed`); and nobody leaves a call that may
still capture, or has, without a trace in `lost` (`Watched`). `OneCartOnePayment`
is not inductive alone: when a second call settles, it is `OneLock` and
`Watched` that place one of the two calls among the lost.

*Vault and disputes* (`CommerceProofs`). `CommerceTypes`, `DeletionIsTrue` and
`DisputesHavePayments` add `VaultInv`: which token a request, the vault and the
mandate's row may name at each of its statements (`Linked`), and that a dispute
is about a payment that is booked (`Disputed`). A mandate's instrument is marked
deleted in a request of its own after the rail has answered, so that the mark
alone says nothing of the vault. `EndedStaysEnded` is an action property: no
request of issuer, rail or shop leaves an ended status of a mandate or takes a
settled payment back. The agent's kernel, whose settle can (section 9), is
outside.

*Escalations* (`PlatformProofs`). `EscalationHasOneVerdict` rests on
`EscInv`: what a transaction has expired and not committed is still pending for
everybody else (`SweptIsPending`) and no two transactions have expired the same
row (`OneHolder`). `ClosedIsFinal`, an action property from the same invariant:
no step touches the row or the verdicts of an escalation that is closed, though
a transaction commits what it read as pending some steps before.

*The platform* (`PlatformProofs`). `PlatformIsItsParts`: a behaviour of the
composition is a behaviour of each part, so that every theorem about a part
holds in it. `PlatformTypes` is the type invariant of the composition; its
strengthening `PlatformInv` is the conjunction of the invariants of the parts,
each of which stands still while another part moves (`PartSteps`).

*Agent audit* (`EvidenceProofs`). `AuditorIsRight` assumes one alteration at
most, since a second may undo the first. It rests on `AuditInv`: row, head and
links of a chain agree even after an alteration (`Stored`); an edited event
never again hashes to its digest (`EditsShow`); a rewritten chain differs, at
the place of the rewriting, from every root signed before (`RewritesShow`),
because untouched heads only grow (`RootsAgree`); and an audit under way has
found the edit or has its chain still ahead of it (`Auditing`). `AlarmsAreReal`
is the half of it that survives any number of alterations: its invariant
`AlarmInv` asks for `AuditInv` only while nothing was altered, and else only for
types and for which checkpoint the audit is about, so that it need not say what
several alterations leave behind.

*API ledger* (`EvidenceProofs`). `LedgerVerifiesHonestly` rests on `LedgerInv`:
nothing repairs an altered event (`AlterationShows`), and as long as signings
run one at a time each signature covers exactly the events that carry it and is
published or about to be (`Marks`, `OneSigning`, `Published`).

*Outbox* (`EvidenceProofs`). `RelayedIsDelivered` rests on `OutboxInv`: rows
about to be marked, by a worker or a job, have already been taken by all
subscribers or all sinks (`AboutToMark`).

`TypeCorrect` proves that no interleaving of the saga drives a money column
below zero; with that theorem no run repeats it.

Only model-checked: `EveryCallEnds`, `TimeoutDenies` and `EveryEventSettles`
(liveness under fairness is out of TLAPS's reach). The runs that end in a
violation are counterexamples and have no theorem.

## 9. Disagreements between the code and its words

| Run | The code | Its words |
|---|---|---|
| `kernel_overspend` | `kernel.py:374` writes money columns from a stale read | M2: no double-spend |
| `kernel_revival` | `kernel.py:381` writes the status back | `state_machine.py:5`: nothing leaves revoked |
| `bridge_two_clicks` | `service.py:423` checkpoints without `expect` | `state.py:1`: one paying click, ever |
| `bridge_cart_swap` | `service.py:453` orders whatever the cart holds | `service.py:174`: cart_hash binding |
| `run_two_answers` | `escalation.py:127` writes unconditionally | `escalation.py:105`: not a second charge |
| `run_denied_paid` | `graph.py:425` fails a run that has paid | `graph.py:412`: never pays |

`PROJECT.json` quotes each line in full.

## 10. Further observations

Disagreements met while modelling that have no run of their own. Where a
property of a passing run is stated with an exception, the exception is one of
these.

*Bridge.* `RappiClient._request` does not raise on every error: a 404 whose
body mentions stores is answered `{"stores": []}` and an empty body `{}`
(`rappi.py:143-150`), for every call. (1) A click that ended so is stored as
`confirmed` with a receipt whose order_id is null (`service.py:468-470`), whether
Rappi placed the order (empty body) or not (404); the adapter accepts that receipt
as a settlement (`merchants_mcp.py:671-702`) and the kernel books the money as
spent. `ReceiptsAreTrue` therefore vouches for receipts with an order_id only.
(2) A cart/add that ended so changed nothing, and the quote, the token and the
order are then about whatever the cart held before (the exception of
`OrderedAsApproved`). (3) A recalculation that ended so makes the guards compare
the total they had already approved (`service.py:411`).

*Runs.* A payment at a remote merchant whose answer is lost is reported as
RAIL_ERROR: a run replans and may pay again, a watch stays active and fires
again, and no process has to die for it (the exception of `RunBuysOnce` and
`WatchFiresOnce`). A deadline that passes between resolve's check
(`escalation.py:113`) and its write (127) may be written over an approval that
pays, and the other way round (the exception of `OneRetry`, `DeniedMeansDenied`
and `AnswerIsFinal`).

*Decision service.* The routers take the caller's `purchase_id` before the
intent's own (`routers/decision.py:94, 118, 142`, `service.py:254`). When it is
sent for two intents, the second one's verify writes the first one's row
(`service.py:670`): an approved purchase becomes rejected while its hold stays,
the count of open authorizations and the number of open purchases part, and a
refused purchase can be opened by the other intent. No two calls have to
overlap. `ApprovedIsHeld`, `StepUpNeedsUV` and `RefusalIsFinal` except the ids in
`shared`, `HoldsMatch` and `OpenIsCounted` hold while there are none.
Two resolutions of one escalation at once: the status is
read at `service.py:1107` and written without a condition at 1177, and a
release may be tried again after a rollback (1060 and following). A refused
purchase can be opened again, and the reserved column and the count of open
authorizations can fall below what is open (`RefusalIsFinal`, `HoldsMatch`,
`OpenIsCounted` hold outside `duelled`). `api/deps.py:48-73` gives the in-memory
idempotency store a secret that it does not give to the service: as it is wired
there (`SecretsAgree = FALSE`) every verify is refused as a conflict and answered
400, and nothing else in this section happens. What the run and the theorems say
is about the service as its tests wire it, with one secret.

*Merchant.* A timeout at the rail is answered 402, which `charge.py:22`
describes with "The rail has not been invoked at this point."; a caller that
then tries a fresh purchase id under a fresh key pays twice (the exception of
`OneCartOnePayment`). A retry after a price change is refused although the
money was taken, for the price is checked before the stored receipt is found.

The idempotency key a caller sends goes to the rail as it is (`charge.py:127`),
and the rail answers a key it knows with the stored payment without comparing
the request (`payments.py:85-96`). A second cart charged under the key of a first
one is marked captured with the first one's payment, whatever its amount
(`checkout_jwt.py:157-172`); `ReceiptIsPaid` says that this is the only way a
receipt is not a payment of the cart's price.

*Rail.* The row of a refusal is rolled back with the request. Two confirmations
of one setup token make two tokens; two adjudications overwrite each other.

*Issuer.* A second request for a revocation challenge meets the primary key
(challenge, purpose): once the first challenge has expired unused the mandate
cannot be revoked any more. A failed token deletion is logged and not tried
again. A rail call that has read the status before the revocation still
settles. The agent's kernel can make a revoked mandate active again
(`kernel_revival`), and then `RevocationReachesRail`, which is about the API
lane's own requests, no longer speaks of that row. The sign counter may go backwards, being written unconditionally.

*API escalations.* The clock is read before the UPDATE and compared in whole
seconds: an approval may commit after the deadline (`OneVerdict` speaks of the
clock reading). A conflict rolls back the expiry made on the way.

*Agent audit.* verify_chain reads the rows and then the head: an append
committed in between raises a false alarm (`raced` in `VerdictIsRight`).
verify_checkpoint never reads the witness file.

*API audit.* A crash between annotating and publishing, or two signings at
once, leave an untouched ledger that no longer verifies (`disturbed`).
`repository_postgres.py` numbers all chains with one sequence and filters by
chain, which validation reports as a gap; nothing builds it.

*Outbox.* The API job gives up its row locks before it delivers, so that an
event may be delivered twice, and an event that always fails is at the front of
every pass of the job (the worker of the agent lane gives it up).

## 11. What is not modelled

* Cryptography, key storage, login and `trustlib`: signatures, encodings and
  WebAuthn are taken as sound; what is modelled of them is freshness, single
  use, purpose and the counter.
* The token buckets of `limits.py`: they throttle requests, and no money,
  mandate or escalation depends on them.
* Outgoing webhooks of the rail (one signed attempt; the merchant only logs
  them) and the reading of evidence bundles (a bundle is which links it has).
* The Postgres repository of the evidence ledger, which nothing builds.
* The language model, chat texts, catalogue search, Telegram transport, the
  web console, migrations and deployment: I/O without a protocol of their own.
* `parent_jti` limits on the number of purchases: `settle` counts a child's
  purchase on its ancestors but the gate looks at the child's count only; the
  model has it as the code does and no property is stated about it.

## 12. Running

    tlc -workers 2 -config Platform.cfg MCPlatform
    tlapm CommerceProofs.tla

`PROJECT.json` pairs each configuration with its module, lists for every
property a plausible bug (a mutant operator in the module) under which TLC
finds it violated, and maps each definition to the lines it models.
