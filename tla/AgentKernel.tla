---------------------------- MODULE AgentKernel ----------------------------
(***************************************************************************)
(* The purchase saga of the agent lane (src/agent/kernel.py), with the     *)
(* mandate store (mandate.py), the local merchant's checkout and the local *)
(* rail (mocks/merchant.py, mocks/rail.py) and the remote merchants        *)
(* (ports/merchants_mcp.py) it settles through.                            *)
(*                                                                         *)
(* Every connection of the agent lane is in autocommit mode (db.py), so    *)
(* one SQL statement is one atomic step here, and what a statement read is *)
(* kept in the process's own snapshot until a later statement uses it.     *)
(* Chat, the Telegram channel, the HTTP bridge and the cron watcher are    *)
(* separate processes: a call of submit_purchase is a process `p' that     *)
(* runs beside the others, and may die between any two statements.         *)
(***************************************************************************)
EXTENDS Integers, Sequences, FiniteSetsExt

CONSTANTS
  Mandates,      \* mandate jti
  Chain,         \* Chain[m]: m and the mandates it derives from, child first
  Instruments,   \* payment tokens vaulted at the rail
  Instrument,    \* Instrument[m]: the claim payment_method_ref of m
  Budget,        \* Budget[m]: limits.total_budget
  MaxPerTxn,     \* MaxPerTxn[m]: limits.max_per_txn
  MaxTxn,        \* MaxTxn[m]: limits.max_txn.count
  Offers,        \* catalogue entries
  Prices,        \* prices an offer may have
  Remote,        \* offers of the MCP merchants, which settle without our rail
  OutOfScope,    \* <<m, o>>: category, merchant or currency is refused
  Unmet,         \* <<m, o>>: the signed conditions of m are false for o
  Purchases,     \* one identity per call of submit_purchase
  Revocable,     \* bound: mandates their holder may revoke
  Suspendable,   \* bound: mandates the API lane may suspend
  Expiring,      \* bound: mandates whose validity may end
  Moving,        \* bound: offers whose price may move
  Concurrent,    \* may two calls be in flight at once?
  None           \* "no such mandate", "no such offer"

(* `parent_jti' never changes once a mandate is issued, so the chain of a   *)
(* mandate is a constant: child first, no repeats (kernel.chain stops at a  *)
(* jti it has seen).                                                        *)
ASSUME ChainAssumption ==
  /\ Chain \in [Mandates -> Seq(Mandates)]
  /\ \A m \in Mandates :
       /\ Len(Chain[m]) >= 1
       /\ Chain[m][1] = m
       /\ \A i, j \in 1..Len(Chain[m]) : Chain[m][i] = Chain[m][j] => i = j

ASSUME LimitAssumption ==
  /\ Budget \in [Mandates -> Nat]
  /\ MaxPerTxn \in [Mandates -> Nat]
  /\ MaxTxn \in [Mandates -> Nat]
  /\ Prices \subseteq Nat \ {0}

ASSUME NameAssumption ==
  /\ Instrument \in [Mandates -> Instruments]
  /\ Remote \subseteq Offers
  /\ Revocable \cup Suspendable \cup Expiring \subseteq Mandates
  /\ Moving \subseteq Offers
  /\ None \notin Mandates \cup Offers \cup Nat
  /\ Concurrent \in BOOLEAN

VARIABLES
  mandates,      \* the mandates table
  instruments,   \* the payment_instruments table: status of each token
  past,          \* mandates whose validity window has ended
  revoking,      \* revocations between their two statements
  price,         \* the live catalogue
  purchases,     \* the purchases table: status of each purchase
  paid,          \* captures taken by the rail or a remote merchant
  pc,            \* where each call of submit_purchase stands
  alive,         \* FALSE once the process running the call died
  mandate,       \* the mandate the call was made under
  offer,         \* the offer it buys
  amount,        \* the amount signed in its intent
  late,          \* calls whose clock reading was past the mandate's validity
  top,           \* rows of Chain[mandate] whose reservation it made
  walk,          \* position of a loop over Chain[mandate]
  snap           \* the mandates row the call read last

rows  == <<mandates, instruments, past, revoking, price>>
calls == <<mandate, offer, amount, late>>
vars  == <<rows, purchases, paid, pc, alive, calls, top, walk, snap>>

----------------------------------------------------------------------------
(* Types *)

MandateStatus == {"none", "active", "suspended", "revoked", "expired", "exhausted"}

Row == [status : MandateStatus, reserved : Nat, spent : Nat, count : Nat]

NoRow == [status |-> "none", reserved |-> 0, spent |-> 0, count |-> 0]

PurchaseStatus ==
  {"none", "pending", "rejected", "awaiting_escalation", "charging", "captured",
   "compensated"}

PC == {"idle", "verify", "ancestors", "gate", "refused", "escalate",
       "reserve_read", "reserve_write", "charge", "checkout", "rail_check",
       "rail_capture", "remote_pay", "settle_read", "settle_write", "capture",
       "unreserve_read", "unreserve_write", "compensate", "done"}

Reserving == {"reserve_read", "reserve_write"}
Unreserving == {"unreserve_read", "unreserve_write"}
Settling == {"settle_read", "settle_write"}
Reserved == {"charge", "checkout", "rail_check", "rail_capture", "remote_pay"}

TypeOK ==
  /\ mandates \in [Mandates -> Row]
  /\ instruments \in [Instruments -> {"none", "active", "deleted"}]
  /\ past \subseteq Mandates
  /\ revoking \subseteq Mandates
  /\ price \in [Offers -> Prices \cup {None}]
  /\ purchases \in [Purchases -> PurchaseStatus]
  /\ paid \subseteq Purchases
  /\ pc \in [Purchases -> PC]
  /\ alive \in [Purchases -> BOOLEAN]
  /\ mandate \in [Purchases -> Mandates]
  /\ offer \in [Purchases -> Offers]
  /\ amount \in [Purchases -> Nat]
  /\ late \subseteq Purchases
  /\ top \in [Purchases -> Nat]
  /\ walk \in [Purchases -> Nat \ {0}]
  /\ snap \in [Purchases -> Row]

Init ==
  /\ mandates = [m \in Mandates |-> NoRow]
  /\ instruments = [t \in Instruments |-> "none"]
  /\ past = {}
  /\ revoking = {}
  /\ price \in [Offers -> Prices]
  /\ purchases = [p \in Purchases |-> "none"]
  /\ paid = {}
  /\ pc = [p \in Purchases |-> "idle"]
  /\ alive = [p \in Purchases |-> TRUE]
  /\ mandate \in [Purchases -> Mandates]
  /\ offer \in [Purchases -> Offers]
  /\ amount = [p \in Purchases |-> 0]
  /\ late = {}
  /\ top = [p \in Purchases |-> 0]
  /\ walk = [p \in Purchases |-> 1]
  /\ snap = [p \in Purchases |-> NoRow]

----------------------------------------------------------------------------
(* Helpers *)

Max0(n) == IF n < 0 THEN 0 ELSE n

At(p, l) == alive[p] /\ pc[p] = l

InFlight(p) == alive[p] /\ pc[p] \notin {"idle", "done"}

Length(p) == Len(Chain[mandate[p]])

(* The k-th row of the chain a call works on. *)
Link(p, k) == Chain[mandate[p]][k]

Goto(p, l) == pc' = [pc EXCEPT ![p] = l]

(* UPDATE of one column of a mandates row. *)
SetStatus(m, s) == mandates' = [mandates EXCEPT ![m] = [@ EXCEPT !.status = s]]

SetReserved(m, r) == mandates' = [mandates EXCEPT ![m] = [@ EXCEPT !.reserved = r]]

(* The last statement of a call: the purchase's final status.  The call's   *)
(* locals end with it.                                                      *)
Return(p, status) ==
  /\ purchases' = [purchases EXCEPT ![p] = status]
  /\ Goto(p, "done")
  /\ walk' = [walk EXCEPT ![p] = 1]
  /\ snap' = [snap EXCEPT ![p] = NoRow]
  /\ UNCHANGED <<rows, paid, alive, calls, top>>

(* kernel.gate: the decision for one purchase, a function of the signed     *)
(* mandate, the offer, the amount and the spend columns that were read.     *)
gate(m, o, a, spend) ==
  IF \/ <<m, o>> \in OutOfScope
     \/ spend.count >= MaxTxn[m]
     \/ a > Budget[m] - (spend.spent + spend.reserved)
  THEN "REJECTED"
  ELSE IF a > MaxPerTxn[m] \/ <<m, o>> \in Unmet THEN "ESCALATED" ELSE "APPROVED"

----------------------------------------------------------------------------
(* Mandates, catalogue and time *)

(* mandate.issue: the row, and the instrument unless the token exists       *)
(* (ON CONFLICT DO NOTHING: a deleted token stays deleted).                 *)
Issue(m) ==
  /\ mandates[m].status = "none"
  /\ SetStatus(m, "active")
  /\ instruments' = [instruments EXCEPT ![Instrument[m]] =
                       IF @ = "none" THEN "active" ELSE @]
  /\ UNCHANGED <<past, revoking, price, purchases, paid, pc, alive, calls, top,
                 walk, snap>>

(* mandate.revoke, first statement: the row, whatever its status is. *)
RevokeRow(m) ==
  /\ mandates[m].status # "none"
  /\ m \notin revoking
  /\ SetStatus(m, "revoked")
  /\ revoking' = revoking \cup {m}
  /\ UNCHANGED <<instruments, past, price, purchases, paid, pc, alive, calls, top,
                 walk, snap>>

(* mandate.revoke, then rail.delete_token. *)
RevokeToken(m) ==
  /\ m \in revoking
  /\ revoking' = revoking \ {m}
  /\ instruments' = [instruments EXCEPT ![Instrument[m]] =
                       IF @ = "active" THEN "deleted" ELSE @]
  /\ UNCHANGED <<mandates, past, price, purchases, paid, pc, alive, calls, top,
                 walk, snap>>

(* The API lane's guarded transitions on the same table. *)
Suspend(m) ==
  /\ mandates[m].status = "active"
  /\ SetStatus(m, "suspended")
  /\ UNCHANGED <<instruments, past, revoking, price, purchases, paid, pc, alive,
                 calls, top, walk, snap>>

Reactivate(m) ==
  /\ mandates[m].status = "suspended"
  /\ SetStatus(m, "active")
  /\ UNCHANGED <<instruments, past, revoking, price, purchases, paid, pc, alive,
                 calls, top, walk, snap>>

EndOfValidity(m) ==
  /\ m \notin past
  /\ past' = past \cup {m}
  /\ UNCHANGED <<mandates, instruments, revoking, price, purchases, paid, pc, alive,
                 calls, top, walk, snap>>

(* merchant.set_price, or a remote catalogue moving; None: offer withdrawn. *)
SetPrice(o, v) ==
  /\ price[o] # v
  /\ price' = [price EXCEPT ![o] = v]
  /\ UNCHANGED <<mandates, instruments, past, revoking, purchases, paid, pc, alive,
                 calls, top, walk, snap>>

----------------------------------------------------------------------------
(* submit_purchase up to the decision *)

(* The offer is fetched, the intent built with its price and signed, the    *)
(* purchase row inserted, and verify reads the clock.  A missing offer      *)
(* returns before any write.                                                *)
Submit(p) ==
  /\ At(p, "idle")
  /\ Concurrent \/ \A q \in Purchases : ~InFlight(q)
  /\ mandates[mandate[p]].status # "none"
  /\ price[offer[p]] # None
  /\ amount' = [amount EXCEPT ![p] = price[offer[p]]]
  /\ late' = IF mandate[p] \in past THEN late \cup {p} ELSE late
  /\ purchases' = [purchases EXCEPT ![p] = "pending"]
  /\ Goto(p, "verify")
  /\ UNCHANGED <<rows, paid, alive, mandate, offer, top, walk, snap>>

(* verify, check 2: the mandate's own row.  The gate will use this snapshot. *)
VerifyRead(p) ==
  LET row == mandates[mandate[p]] IN
  /\ At(p, "verify")
  /\ snap' = [snap EXCEPT ![p] = row]
  /\ walk' = [walk EXCEPT ![p] = 2]
  /\ Goto(p, IF row.status = "revoked" THEN "refused"
             ELSE IF Length(p) = 1 THEN "gate" ELSE "ancestors")
  /\ UNCHANGED <<rows, purchases, paid, alive, calls, top>>

(* verify, check 2: every ancestor must be active; one read per ancestor. *)
VerifyAncestor(p) ==
  /\ At(p, "ancestors")
  /\ walk' = [walk EXCEPT ![p] = @ + 1]
  /\ Goto(p, IF mandates[Link(p, walk[p])].status # "active" THEN "refused"
             ELSE IF walk[p] = Length(p) THEN "gate" ELSE "ancestors")
  /\ UNCHANGED <<rows, purchases, paid, alive, calls, top, snap>>

(* verify: past the validity window the row is set to expired, unguarded. *)
VerifyExpired(p) ==
  /\ At(p, "gate")
  /\ snap[p].status \notin {"suspended", "exhausted"}
  /\ p \in late
  /\ SetStatus(mandate[p], "expired")
  /\ Goto(p, "refused")
  /\ UNCHANGED <<instruments, past, revoking, price, purchases, paid, alive, calls,
                 top, walk, snap>>

(* verify, check 3: the offer is fetched again and the gate decides on the  *)
(* spend columns read by VerifyRead.                                        *)
VerifyGate(p) ==
  LET decision == IF \/ snap[p].status \in {"suspended", "exhausted"}
                     \/ price[offer[p]] # amount[p]
                  THEN "REJECTED"
                  ELSE gate(mandate[p], offer[p], amount[p], snap[p])
  IN
  /\ At(p, "gate")
  /\ snap[p].status \in {"suspended", "exhausted"} \/ p \notin late
  /\ Goto(p, IF decision = "REJECTED" THEN "refused"
             ELSE IF decision = "ESCALATED" THEN "escalate" ELSE "reserve_read")
  /\ UNCHANGED <<rows, purchases, paid, alive, calls, top, walk, snap>>

Refuse(p) == At(p, "refused") /\ Return(p, "rejected")

(* The saga stops here; the escalation itself is another component. *)
Escalate(p) == At(p, "escalate") /\ Return(p, "awaiting_escalation")

----------------------------------------------------------------------------
(* reserve_chain, _unreserve and release *)

(* _unreserve over the rows reserved so far: start, or nothing to do. *)
AfterUnreserve(p) == IF purchases[p] = "charging" THEN "compensate" ELSE "refused"

(* Mutant of Unreserve: the failure path forgets to give anything back. *)
UnreserveNothing(p) == Goto(p, AfterUnreserve(p)) /\ UNCHANGED walk

Unreserve(p) ==
  /\ walk' = [walk EXCEPT ![p] = 1]
  /\ Goto(p, IF top[p] = 0 THEN AfterUnreserve(p) ELSE "unreserve_read")

(* Mutant of ReserveRead: the budget check forgets what is reserved. *)
ReserveReadIgnoringHolds(p) ==
  LET row == mandates[Link(p, top[p] + 1)] IN
  /\ At(p, "reserve_read")
  /\ snap' = [snap EXCEPT ![p] = row]
  /\ IF /\ row.status = "active"
        /\ row.spent + amount[p] <= Budget[Link(p, top[p] + 1)]
     THEN Goto(p, "reserve_write") /\ UNCHANGED walk
     ELSE Unreserve(p)
  /\ UNCHANGED <<rows, purchases, paid, alive, calls, top>>

ReserveRead(p) ==
  LET row == mandates[Link(p, top[p] + 1)] IN
  /\ At(p, "reserve_read")
  /\ snap' = [snap EXCEPT ![p] = row]
  /\ IF /\ row.status = "active"
        /\ row.spent + row.reserved + amount[p] <= Budget[Link(p, top[p] + 1)]
     THEN Goto(p, "reserve_write") /\ UNCHANGED walk
     ELSE Unreserve(p)
  /\ UNCHANGED <<rows, purchases, paid, alive, calls, top>>

(* Mutant of ReserveWrite: only the child row is reserved. *)
ReserveWriteChildOnly(p) ==
  LET m == Link(p, top[p] + 1) IN
  /\ At(p, "reserve_write")
  /\ mandates[m] = snap[p]
  /\ SetReserved(m, snap[p].reserved + amount[p])
  /\ top' = [top EXCEPT ![p] = @ + 1]
  /\ Goto(p, "charge")
  /\ UNCHANGED <<instruments, past, revoking, price, purchases, paid, alive, calls,
                 walk, snap>>

(* The compare-and-swap: the row must still be active with the same money   *)
(* columns (the snapshot's status is active).                               *)
ReserveWrite(p) ==
  LET m == Link(p, top[p] + 1) IN
  /\ At(p, "reserve_write")
  /\ mandates[m] = snap[p]
  /\ SetReserved(m, snap[p].reserved + amount[p])
  /\ top' = [top EXCEPT ![p] = @ + 1]
  /\ Goto(p, IF top[p] + 1 = Length(p) THEN "charge" ELSE "reserve_read")
  /\ UNCHANGED <<instruments, past, revoking, price, purchases, paid, alive, calls,
                 walk, snap>>

(* Mutant of ReserveLost: retry the same swap with the stale snapshot. *)
ReserveLostSpins(p) ==
  /\ At(p, "reserve_write")
  /\ mandates[Link(p, top[p] + 1)] # snap[p]
  /\ UNCHANGED vars

(* Zero rows updated: give back what was taken and refuse. *)
ReserveLost(p) ==
  /\ At(p, "reserve_write")
  /\ mandates[Link(p, top[p] + 1)] # snap[p]
  /\ Unreserve(p)
  /\ UNCHANGED <<rows, purchases, paid, alive, calls, top, snap>>

UnreserveRead(p) ==
  /\ At(p, "unreserve_read")
  /\ snap' = [snap EXCEPT ![p] = mandates[Link(p, walk[p])]]
  /\ Goto(p, "unreserve_write")
  /\ UNCHANGED <<rows, purchases, paid, alive, calls, top, walk>>

(* The write is not guarded by what was read. *)
UnreserveWrite(p) ==
  /\ At(p, "unreserve_write")
  /\ SetReserved(Link(p, walk[p]), Max0(snap[p].reserved - amount[p]))
  /\ walk' = [walk EXCEPT ![p] = @ + 1]
  /\ Goto(p, IF walk[p] = top[p] THEN AfterUnreserve(p) ELSE "unreserve_read")
  /\ UNCHANGED <<instruments, past, revoking, price, purchases, paid, alive, calls,
                 top, snap>>

----------------------------------------------------------------------------
(* _charge: checkout, capture, then settle or compensate *)

(* The intent is recorded and the purchase marked charging. *)
Charge(p) ==
  /\ At(p, "charge")
  /\ purchases' = [purchases EXCEPT ![p] = "charging"]
  /\ Goto(p, "checkout")
  /\ UNCHANGED <<rows, paid, alive, calls, top, walk, snap>>

(* port.settle: the local merchant compares the price with its catalogue,   *)
(* then every merchant asks live_state, which re-reads the mandate's row.   *)
(* Both refusals end the same way and the price is not used again, so the   *)
(* two reads are one step.                                                  *)
Checkout(p) ==
  LET live == mandates[mandate[p]].status = "active" IN
  /\ At(p, "checkout")
  /\ IF live /\ (offer[p] \in Remote \/ price[offer[p]] = amount[p])
     THEN /\ Goto(p, IF offer[p] \in Remote THEN "remote_pay" ELSE "rail_check")
          /\ UNCHANGED walk
     ELSE Unreserve(p)
  /\ UNCHANGED <<rows, purchases, paid, alive, calls, top, snap>>

(* Mutant of RailCheck: the rail does not look at the token. *)
RailCheckSkipped(p) ==
  /\ At(p, "rail_check")
  /\ Goto(p, "rail_capture")
  /\ UNCHANGED <<rows, purchases, paid, alive, calls, top, walk, snap>>

(* rail.capture, first statement: the token must be active. *)
RailCheck(p) ==
  /\ At(p, "rail_check")
  /\ IF instruments[Instrument[mandate[p]]] = "active"
     THEN Goto(p, "rail_capture") /\ UNCHANGED walk
     ELSE Unreserve(p)
  /\ UNCHANGED <<rows, purchases, paid, alive, calls, top, snap>>

(* rail.capture, second statement: the money moves. *)
RailCapture(p) ==
  /\ At(p, "rail_capture")
  /\ paid' = paid \cup {p}
  /\ walk' = [walk EXCEPT ![p] = 1]
  /\ Goto(p, "settle_read")
  /\ UNCHANGED <<rows, purchases, alive, calls, top, snap>>

(* Mutant of RemotePay: a refusal is settled as if it had been accepted. *)
RemotePayUnread(p, answer) ==
  /\ At(p, "remote_pay")
  /\ paid' = IF answer = "refused" THEN paid ELSE paid \cup {p}
  /\ Goto(p, "settle_read")
  /\ walk' = [walk EXCEPT ![p] = 1]
  /\ UNCHANGED <<rows, purchases, alive, calls, top, snap>>

(* A remote merchant's `pay': it pays, refuses, or pays and the answer is   *)
(* lost, which the saga cannot tell from a refusal.                         *)
RemotePay(p, answer) ==
  /\ At(p, "remote_pay")
  /\ paid' = IF answer = "refused" THEN paid ELSE paid \cup {p}
  /\ IF answer = "paid"
     THEN Goto(p, "settle_read") /\ walk' = [walk EXCEPT ![p] = 1]
     ELSE Unreserve(p)
  /\ UNCHANGED <<rows, purchases, alive, calls, top, snap>>

SettleRead(p) ==
  /\ At(p, "settle_read")
  /\ snap' = [snap EXCEPT ![p] = mandates[Link(p, walk[p])]]
  /\ Goto(p, "settle_write")
  /\ UNCHANGED <<rows, purchases, paid, alive, calls, top, walk>>

(* Mutant of SettleWrite: spend grows and the reservation is kept. *)
SettleWriteKeepsHold(p) ==
  LET m == Link(p, walk[p]) IN
  /\ At(p, "settle_write")
  /\ mandates' = [mandates EXCEPT ![m].spent = snap[p].spent + amount[p],
                                  ![m].count = snap[p].count + 1]
  /\ walk' = [walk EXCEPT ![p] = @ + 1]
  /\ Goto(p, IF walk[p] = Length(p) THEN "capture" ELSE "settle_read")
  /\ UNCHANGED <<instruments, past, revoking, price, purchases, paid, alive, calls,
                 top, snap>>

(* Money columns and status are written from the snapshot, unguarded. *)
SettleWrite(p) ==
  LET m     == Link(p, walk[p])
      spent == snap[p].spent + amount[p]
  IN
  /\ At(p, "settle_write")
  /\ mandates' = [mandates EXCEPT ![m] =
                    [status   |-> IF spent >= Budget[m] THEN "exhausted"
                                  ELSE snap[p].status,
                     reserved |-> Max0(snap[p].reserved - amount[p]),
                     spent    |-> spent,
                     count    |-> snap[p].count + 1]]
  /\ walk' = [walk EXCEPT ![p] = @ + 1]
  /\ Goto(p, IF walk[p] = Length(p) THEN "capture" ELSE "settle_read")
  /\ UNCHANGED <<instruments, past, revoking, price, purchases, paid, alive, calls,
                 top, snap>>

Capture(p) == At(p, "capture") /\ Return(p, "captured")

Compensate(p) == At(p, "compensate") /\ Return(p, "compensated")

(* The process dies between two statements; nothing resumes the call. *)
Crash(p) ==
  /\ InFlight(p)
  /\ alive' = [alive EXCEPT ![p] = FALSE]
  /\ snap' = [snap EXCEPT ![p] = NoRow]
  /\ UNCHANGED <<rows, purchases, paid, pc, calls, top, walk>>

----------------------------------------------------------------------------
Step(p) ==
  \/ VerifyRead(p) \/ VerifyAncestor(p) \/ VerifyExpired(p) \/ VerifyGate(p)
  \/ Refuse(p) \/ Escalate(p)
  \/ ReserveRead(p) \/ ReserveWrite(p) \/ ReserveLost(p)
  \/ UnreserveRead(p) \/ UnreserveWrite(p)
  \/ Charge(p) \/ Checkout(p) \/ RailCheck(p) \/ RailCapture(p)
  \/ \E answer \in {"paid", "refused", "lost"} : RemotePay(p, answer)
  \/ SettleRead(p) \/ SettleWrite(p) \/ Capture(p) \/ Compensate(p)

Environment ==
  \/ \E m \in Mandates : Issue(m)
  \/ \E m \in Revocable : RevokeRow(m) \/ RevokeToken(m)
  \/ \E m \in Suspendable : Suspend(m) \/ Reactivate(m)
  \/ \E m \in Expiring : EndOfValidity(m)
  \/ \E o \in Moving, v \in Prices \cup {None} : SetPrice(o, v)

Next ==
  \/ Environment
  \/ \E p \in Purchases : Submit(p) \/ Step(p) \/ Crash(p)

Spec == Init /\ [][Next]_vars

(* A call that was made is a running program: its next statement is always  *)
(* enabled and is executed unless the process dies.  Nothing is assumed of  *)
(* holders, merchants or of anybody making a call.                          *)
Fairness == \A p \in Purchases : WF_vars(Step(p))

FairSpec == Spec /\ Fairness

----------------------------------------------------------------------------
(* Properties *)

(* Rows on which p has a reservation that was neither released nor settled, *)
(* and rows on which its reservation became spend.                          *)
Holding(p) ==
  {k \in 1..top[p] : \/ pc[p] \in Reserving \cup Reserved
                     \/ pc[p] \in Unreserving \cup Settling /\ k >= walk[p]}

Settled(p) ==
  {k \in 1..Length(p) : \/ pc[p] \in Settling /\ k < walk[p]
                        \/ pc[p] = "capture"
                        \/ purchases[p] = "captured"}

(* The calls that hold a reservation on the row of m, the calls that        *)
(* settled on it, and the calls paid for under m or a mandate derived of m. *)
Holders(m)  == {p \in Purchases : \E k \in Holding(p) : Link(p, k) = m}
Settlers(m) == {p \in Purchases : \E k \in Settled(p) : Link(p, k) = m}
Payers(m)   == {p \in paid : \E k \in 1..Length(p) : Link(p, k) = m}

TotalOf(S) == SumFunctionOnSet(amount, S)

(* M2: for every mandate, what is spent and what is reserved never exceed   *)
(* the signed budget, also through derived mandates and dead processes.     *)
WithinBudget ==
  \A m \in Mandates : mandates[m].spent + mandates[m].reserved <= Budget[m]

(* M6: the two money columns are exactly accounted for by the calls that    *)
(* reserved or settled on the row: no reservation is dropped or counted     *)
(* twice by reserve_chain, _unreserve and settle, whatever point a call has *)
(* reached, failed or died at.                                              *)
BooksBalance ==
  \A m \in Mandates :
    /\ mandates[m].reserved = TotalOf(Holders(m))
    /\ mandates[m].spent = TotalOf(Settlers(m))

Account == INSTANCE MandateAccount WITH
  Amounts  <- Prices,
  reserved <- [m \in Mandates |-> mandates[m].reserved],
  spent    <- [m \in Mandates |-> mandates[m].spent]

(* The statements of the saga implement the abstract account: each write of *)
(* a row is one reservation, release or settlement of one amount.           *)
ImplementsAccount == Account!Spec

(* M6, X3: a call whose process survives reaches a final status; no refusal,*)
(* lost compare-and-swap or rail error leaves it hanging.                   *)
EveryCallEnds == \A p \in Purchases : InFlight(p) ~> ~InFlight(p)

(* S2, H4: money moves only for a call that the gate approved and that holds*)
(* a reservation on its mandate and on every ancestor.                      *)
OnePathToMoney ==
  \A p \in paid :
    /\ top[p] = Length(p)
    /\ amount[p] <= MaxPerTxn[mandate[p]]
    /\ <<mandate[p], offer[p]>> \notin OutOfScope \cup Unmet

(* The books never claim more than was paid: even when concurrent settles   *)
(* overwrite each other, spent_total stays covered by captures.             *)
SpendIsPaid ==
  \A m \in Mandates : mandates[m].spent <= TotalOf(Payers(m))

(* A call that buys through our rail, whose token is deleted, and for which *)
(* the rail has not yet looked at the token.                                *)
Barred(p) ==
  /\ offer[p] \notin Remote
  /\ instruments[Instrument[mandate[p]]] = "deleted"
  /\ pc[p] # "rail_capture"
  /\ p \notin paid

(* M8: once revocation deleted the token, no call that the rail had not     *)
(* already let through is ever captured, wherever the saga stood.           *)
RevocationBites == [][\A p \in Purchases : Barred(p) => Barred(p)']_vars

(* "Revoked" is what the holder was told: a revoked mandate never goes back *)
(* to active.                                                               *)
NeverRevived ==
  [][\A m \in Mandates : mandates[m].status = "revoked" =>
                           mandates'[m].status # "active"]_vars

(* M2: what the rail really captured under a mandate fits its budget. *)
CapturedWithinBudget ==
  \A m \in Mandates : TotalOf(Payers(m)) <= Budget[m]

----------------------------------------------------------------------------
(* The inductive invariant behind the theorems of AgentKernelProofs *)

(* Where the two loop counters stand at each statement of a call. *)
Positions(p) ==
  /\ pc[p] # "idle" => amount[p] \in Prices
  /\ pc[p] \in {"idle", "verify", "ancestors", "gate", "escalate"} => top[p] = 0
  /\ pc[p] = "ancestors" => walk[p] <= Length(p)
  /\ pc[p] \in Reserving => top[p] < Length(p)
  /\ pc[p] \in Unreserving => walk[p] <= top[p]
  /\ pc[p] \in Settling => walk[p] <= Length(p)
  /\ pc[p] \in Reserved \cup Settling \cup {"capture"} => top[p] = Length(p)
  /\ top[p] <= Length(p)
  /\ pc[p] = "remote_pay" => offer[p] \in Remote

(* What the gate established for a call that went past it. *)
GatePassed(p) ==
  /\ amount[p] <= MaxPerTxn[mandate[p]]
  /\ <<mandate[p], offer[p]>> \notin OutOfScope \cup Unmet

Approved(p) ==
  /\ pc[p] \in Reserving \cup Reserved => GatePassed(p)
  /\ p \in paid => GatePassed(p) /\ top[p] = Length(p)
  /\ p \in paid => pc[p] \notin {"idle", "verify"}

TypeInv == TypeOK /\ \A p \in Purchases : Positions(p) /\ Approved(p)

(* With one call in flight at a time: the snapshot of a pending unguarded   *)
(* write is current, and each row the call holds covers its amount.         *)
OneInFlight == \A p, q \in Purchases : InFlight(p) /\ InFlight(q) => p = q

CurrentSnapshot(p) ==
  /\ At(p, "reserve_write") =>
       snap[p].spent + snap[p].reserved + amount[p] <= Budget[Link(p, top[p] + 1)]
  /\ At(p, "unreserve_write") =>
       snap[p].reserved = mandates[Link(p, walk[p])].reserved
  /\ At(p, "settle_write") =>
       /\ snap[p].reserved = mandates[Link(p, walk[p])].reserved
       /\ snap[p].spent = mandates[Link(p, walk[p])].spent

HoldsCovered(p) ==
  InFlight(p) => \A k \in Holding(p) : amount[p] <= mandates[Link(p, k)].reserved

SerialInv ==
  /\ OneInFlight
  /\ WithinBudget
  /\ \A p \in Purchases : CurrentSnapshot(p) /\ HoldsCovered(p)

(* What the sums rest on.  A call settles only what was paid, and its row   *)
(* says captured only at the end; what a row counts as spent, or what a     *)
(* pending settle has read of it, is covered by calls that settled on it.   *)
PaidFirst(p) ==
  /\ pc[p] \in Settling \cup {"capture"} => p \in paid
  /\ purchases[p] = "captured" => pc[p] = "done" /\ p \in paid

SnapshotCovered(p) ==
  At(p, "settle_write") => snap[p].spent <= TotalOf(Settlers(Link(p, walk[p])))

SpendInv ==
  /\ \A p \in Purchases : PaidFirst(p) /\ SnapshotCovered(p)
  /\ IsFiniteSet(paid)
  /\ \A m \in Mandates : /\ IsFiniteSet(Settlers(m))
                         /\ mandates[m].spent <= TotalOf(Settlers(m))

BooksInv == BooksBalance /\ \A m \in Mandates : IsFiniteSet(Holders(m))
=============================================================================
