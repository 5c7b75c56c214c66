------------------------------ MODULE AgentRun ------------------------------
(***************************************************************************)
(* How a purchase is asked for and answered in the agent lane: the run     *)
(* graph (src/agent/graph.py), human escalations (escalation.py) and the   *)
(* watcher's cron tick (watcher.py, limits.single_flight).                 *)
(*                                                                         *)
(* Chat, Telegram, the HTTP bridge, the CLI and cron are workers that      *)
(* share the tables agent_runs, purchases, escalations and watches; every  *)
(* statement commits by itself.  A call of kernel.submit_purchase is one   *)
(* step here with every outcome it can have (AgentKernel has its           *)
(* statements).  A purchase it refuses is final and nobody reads it again, *)
(* so only purchases that took money or asked a human have a row.          *)
(***************************************************************************)
EXTENDS Naturals, FiniteSets

CONSTANTS
  Workers,      \* processes and threads; each serves one caller, or cron, at a time
  Runs,         \* runs of the agent, one per request
  Watches,      \* standing orders
  Autobuy,      \* watches that buy; the others only notify
  Purchases,    \* purchase ids, given out in order
  MAX_REPLANS,  \* graph.MAX_REPLANS
  MayCross,     \* bound: escalations and runs on which two handlers may cross
  MaxMishaps,   \* bound: workers that die, and escalations and runs that crossed
  None

ASSUME RunAssumption ==
  /\ Autobuy \subseteq Watches
  /\ Purchases \subseteq Nat \ {0}
  /\ IsFiniteSet(Purchases)
  /\ MAX_REPLANS \in Nat
  /\ MaxMishaps \in Nat
  /\ MayCross \subseteq Runs \cup Purchases
  /\ None \notin Runs \cup Watches \cup Workers
  /\ Runs \cap Watches = {}

VARIABLES
  runs,         \* the agent_runs table
  purchases,    \* the purchases table
  escalations,  \* status and decision of the escalation of each purchase
  overdue,      \* escalations whose timeout_at has passed
  watches,      \* status of each watch
  due,          \* watches whose interval has elapsed
  lock,         \* holder of the advisory lock "watcher.tick"
  me,           \* what each worker is doing: its locals
  deaths,       \* workers that died so far
  crossed       \* history: escalations that were answered while another answer
                \* was under way or while their deadline passed, and runs that
                \* a second worker joined

tables == <<runs, purchases, escalations, watches>>
vars   == <<tables, overdue, due, lock, me, deaths, crossed>>

----------------------------------------------------------------------------
(* Types *)

Nodes == {"perceive", "search", "propose", "gate", "await_human", "receipt",
          "done", "denied"}

RunStatus == {"none", "running", "awaiting_human", "done", "denied", "failed"}

Run == [node : Nodes, status : RunStatus, esc : Purchases \cup {0},
        replans : 0..MAX_REPLANS, search : BOOLEAN]

NoRun ==
  [node |-> "perceive", status |-> "none", esc |-> 0, replans |-> 0, search |-> FALSE]

(* A `lost' purchase is one the database has as rejected: a remote merchant  *)
(* took the money and the answer did not arrive.                            *)
Purchase == [status : {"none", "awaiting_escalation", "rejected", "captured", "lost"},
             by : Runs \cup Watches \cup {None}, retries : Purchases \cup {0}]

NoPurchase == [status |-> "none", by |-> None, retries |-> 0]

PC == {"idle", "loop", "submit", "guide", "resolve_write", "reject",
       "retry", "expire_read", "expire_write", "expire_purchase", "resume_read",
       "resume_mark", "resume_save", "resume_end", "sweeping", "watching", "fire", "fired"}

Decisions == {"none", "approve", "sticky", "reject"}

(* A worker's locals: the run and the copy of its row it works with, the    *)
(* node the loop is at, the purchase whose escalation is at stake, the      *)
(* answer it carries, and what a tick still has to do.                      *)
Local == [pc : PC, run : Runs \cup {None}, copy : Run, node : Nodes,
          item : Purchases \cup {0}, decision : Decisions,
          todo : SUBSET (Purchases \cup Watches), watch : Watches \cup {None}]

Idle == [pc |-> "idle", run |-> None, copy |-> NoRun, node |-> "perceive",
         item |-> 0, decision |-> "none", todo |-> {}, watch |-> None]

TypeOK ==
  /\ runs \in [Runs -> Run]
  /\ purchases \in [Purchases -> Purchase]
  /\ escalations \in [Purchases -> {"none", "pending", "approved", "rejected", "expired"}]
  /\ overdue \subseteq Purchases
  /\ watches \in [Watches -> {"active", "fired", "cancelled"}]
  /\ due \subseteq Watches
  /\ lock \in Workers \cup {None}
  /\ me \in [Workers -> Local]
  /\ deaths \in Nat
  /\ crossed \subseteq MayCross

Init ==
  /\ runs = [r \in Runs |-> NoRun]
  /\ purchases = [u \in Purchases |-> NoPurchase]
  /\ escalations = [u \in Purchases |-> "none"]
  /\ overdue = {}
  /\ watches = [v \in Watches |-> "active"]
  /\ due = Watches
  /\ lock = None
  /\ me = [w \in Workers |-> Idle]
  /\ deaths = 0
  /\ crossed = {}

----------------------------------------------------------------------------
(* Helpers *)

At(w, l) == me[w].pc = l

(* The worker goes on at l; its other locals stay. *)
Goto(w, l) == me' = [me EXCEPT ![w].pc = l]

Return(w) == me' = [me EXCEPT ![w] = Idle]

(* graph._save: the whole row is written from the worker's own copy. *)
Saved(w, n, s) == [me[w].copy EXCEPT !.node = n, !.status = s]

Save(w, row) == runs' = [runs EXCEPT ![me[w].run] = row]

(* The id the next recorded purchase gets; 0 when the bound is reached. *)
Fresh ==
  IF \E u \in Purchases : purchases[u].status = "none"
  THEN CHOOSE u \in Purchases :
         /\ purchases[u].status = "none"
         /\ \A x \in Purchases : purchases[x].status = "none" => u <= x
  ELSE 0

(* What submit_purchase can come back with: no row worth keeping (refused   *)
(* for good, refused but worth another try, an exception), a capture, an    *)
(* escalation, a purchase that should escalate when the approver's quota is *)
(* used up (LimitExceeded, after the purchase was marked), or a rail error  *)
(* after a remote merchant took the money, which looks like a refusal.      *)
Unrecorded == {"refused", "retryable", "raised"}
Recorded == {"captured", "lost", "escalated", "throttled"}
Outcomes == Unrecorded \cup Recorded

(* submit_purchase on behalf of a run or watch, perhaps as a retry. *)
Submit(by, retries, outcome) ==
  /\ outcome \in Recorded => Fresh # 0
  /\ purchases' = IF outcome \in Recorded
                  THEN [purchases EXCEPT ![Fresh] =
                          [status  |-> IF outcome \in {"captured", "lost"} THEN outcome
                                       ELSE "awaiting_escalation",
                           by      |-> by,
                           retries |-> retries]]
                  ELSE purchases
  /\ escalations' = IF outcome = "escalated"
                    THEN [escalations EXCEPT ![Fresh] = "pending"]
                    ELSE escalations

(* Nobody is at work on the run; nobody is between resolve's look at the    *)
(* escalation and its write.                                                *)
Untouched(r) == \A w \in Workers : me[w].run # r
Unanswered(u) == \A w \in Workers : At(w, "resolve_write") => me[w].item # u

(* A handler enters, or a deadline passes; x has crossed unless it was calm. *)
Cross(x, calm) ==
  \/ calm /\ UNCHANGED crossed
  \/ /\ ~calm
     /\ x \in MayCross
     /\ crossed' = crossed \cup {x}
     /\ deaths + Cardinality(crossed') <= MaxMishaps

----------------------------------------------------------------------------
(* graph.py: the loop run_until_pause *)

(* start, then run_until_pause.  The request asks for a purchase or only    *)
(* for a search (state["request_mode"]).                                    *)
Start(w, r, search) ==
  /\ At(w, "idle")
  /\ runs[r].status = "none"
  /\ LET row == [NoRun EXCEPT !.status = "running", !.search = search] IN
     /\ runs' = [runs EXCEPT ![r] = row]
     /\ me' = [me EXCEPT ![w] = [Idle EXCEPT !.pc = "loop", !.run = r, !.copy = row]]
  /\ UNCHANGED <<purchases, escalations, watches, overdue, due, lock, deaths, crossed>>

(* A message to a running run: add_guidance loads the row ... *)
Guide(w, r) ==
  /\ At(w, "idle")
  /\ runs[r].status = "running"
  /\ Cross(r, Untouched(r))
  /\ me' = [me EXCEPT ![w] = [Idle EXCEPT !.pc = "guide", !.run = r, !.copy = runs[r]]]
  /\ UNCHANGED <<tables, overdue, due, lock, deaths>>

(* ... writes its state back as running with its replans forgotten, and     *)
(* run_until_pause goes on at the node of the row.  A state that was saved  *)
(* when the run parked holds the answer with the escalation.                *)
GuideWrite(w) ==
  /\ At(w, "guide")
  /\ LET row == [runs[me[w].run] EXCEPT !.status = "running", !.replans = 0] IN
     /\ Save(w, row)
     /\ me' = [me EXCEPT ![w].pc = "loop", ![w].copy = row, ![w].node = row.node,
                         ![w].item = IF me[w].copy.node = "await_human" THEN me[w].copy.esc ELSE 0]
  /\ UNCHANGED <<purchases, escalations, watches, overdue, due, lock, deaths, crossed>>

(* Where the nodes that only read and rank may go. *)
Successors(row, n) ==
  IF n = "perceive" THEN {"search"}
  ELSE IF n = "search" THEN {"propose", "denied"}
  ELSE {IF row.search THEN "done" ELSE "gate", "denied"}

Think(w, next) ==
  /\ At(w, "loop")
  /\ me[w].node \in {"perceive", "search", "propose"}
  /\ next \in Successors(me[w].copy, me[w].node)
  /\ LET row == Saved(w, me[w].node, me[w].copy.status) IN
     /\ Save(w, row)
     /\ me' = [me EXCEPT ![w].copy = row, ![w].node = next]
  /\ UNCHANGED <<purchases, escalations, watches, overdue, due, lock, deaths, crossed>>

(* node_gate saves, then submits. *)
Gate(w) ==
  /\ At(w, "loop")
  /\ me[w].node = "gate"
  /\ LET row == Saved(w, "gate", me[w].copy.status) IN
     /\ Save(w, row)
     /\ me' = [me EXCEPT ![w].copy = row, ![w].pc = "submit"]
  /\ UNCHANGED <<purchases, escalations, watches, overdue, due, lock, deaths, crossed>>

(* Mutants of AfterGate: an escalation is handled like a receipt; an        *)
(* escalation is handled like a refusal worth another try; the number of    *)
(* replans is not compared with its bound.                                  *)
AfterGateSold(outcome, replans) ==
  CASE outcome \in {"captured", "escalated"} -> "receipt"
    [] outcome \in {"retryable", "lost"} /\ replans < MAX_REPLANS -> "search"
    [] OTHER -> "denied"

AfterGateAsksOn(outcome, replans) ==
  CASE outcome = "captured" -> "receipt"
    [] outcome \in {"escalated", "retryable", "lost"} /\ replans < MAX_REPLANS -> "search"
    [] OTHER -> "denied"

AfterGateForever(outcome, replans) ==
  CASE outcome = "captured"  -> "receipt"
    [] outcome = "escalated" -> "await_human"
    [] outcome \in {"retryable", "lost"} -> "search"
    [] OTHER -> "denied"

(* The node that follows an answer of the kernel. *)
AfterGate(outcome, replans) ==
  IF outcome = "captured" THEN "receipt"
  ELSE IF outcome = "escalated" THEN "await_human"
  ELSE IF outcome \in {"retryable", "lost"} /\ replans < MAX_REPLANS THEN "search"
  ELSE "denied"

CountReplan(replans, next) == IF next = "search" THEN replans + 1 ELSE replans

(* The kernel answers.  An exception ends the run: denied when a limit was  *)
(* hit, failed otherwise.                                                   *)
GateAnswer(w, outcome) ==
  LET next == AfterGate(outcome, me[w].copy.replans) IN
  /\ At(w, "submit")
  /\ Submit(me[w].run, 0, outcome)
  /\ IF outcome \in {"throttled", "raised"}
     THEN /\ Save(w, Saved(w, "gate", IF outcome = "throttled" THEN "denied" ELSE "failed"))
          /\ Return(w)
     ELSE /\ me' = [me EXCEPT ![w].pc = "loop", ![w].node = next,
                              ![w].copy.replans = CountReplan(@, next),
                              ![w].item = IF outcome = "escalated" THEN Fresh ELSE @]
          /\ UNCHANGED runs
  /\ UNCHANGED <<watches, overdue, due, lock, deaths, crossed>>

(* node_await_human: persist and return.  The escalation comes from the     *)
(* answer in state["result"], which the worker that asked has, and one that *)
(* loaded a parked row; for another the node raises (Fail).                 *)
Park(w) ==
  /\ At(w, "loop")
  /\ me[w].node = "await_human"
  /\ me[w].item # 0
  /\ Save(w, [Saved(w, "await_human", "awaiting_human") EXCEPT !.esc = me[w].item])
  /\ Return(w)
  /\ UNCHANGED <<purchases, escalations, watches, overdue, due, lock, deaths, crossed>>

Receipt(w) ==
  /\ At(w, "loop")
  /\ me[w].node = "receipt"
  /\ LET row == Saved(w, "receipt", me[w].copy.status) IN
     /\ Save(w, row)
     /\ me' = [me EXCEPT ![w].copy = row, ![w].node = "done"]
  /\ UNCHANGED <<purchases, escalations, watches, overdue, due, lock, deaths, crossed>>

(* node_done and node_denied. *)
Finish(w) ==
  /\ At(w, "loop")
  /\ me[w].node \in {"done", "denied"}
  /\ Save(w, Saved(w, me[w].node, me[w].node))
  /\ Return(w)
  /\ UNCHANGED <<purchases, escalations, watches, overdue, due, lock, deaths, crossed>>

(* Before any node: the wall clock or the step budget is used up; or the    *)
(* node raises.                                                             *)
Fail(w) ==
  /\ At(w, "loop")
  /\ Save(w, Saved(w, me[w].node, "failed"))
  /\ Return(w)
  /\ UNCHANGED <<purchases, escalations, watches, overdue, due, lock, deaths, crossed>>

(* A model or merchant call is over its rate limit. *)
Throttle(w) ==
  /\ At(w, "loop")
  /\ me[w].node \in {"perceive", "search", "propose"}
  /\ Save(w, Saved(w, me[w].node, "denied"))
  /\ Return(w)
  /\ UNCHANGED <<purchases, escalations, watches, overdue, due, lock, deaths, crossed>>
----------------------------------------------------------------------------
(* escalation.py: resolve and expire, each followed by graph.resume *)

(* Mutant of ResolveTo: an answered escalation may be answered again. *)
ResolveToAgain(u) == IF u \in overdue THEN "expire_read" ELSE "resolve_write"

(* Where resolve goes after it has read the row: not pending is a replay,   *)
(* past the timeout means expire.                                           *)
ResolveTo(u) ==
  IF escalations[u] # "pending" THEN "resume_read"
  ELSE IF u \in overdue THEN "expire_read" ELSE "resolve_write"

(* An approver answers an escalation, by chat, CLI or HTTP; answering again *)
(* or too late is allowed.  `sticky' asks for a derived mandate.            *)
Answer(w, u, decision) ==
  /\ At(w, "idle")
  /\ escalations[u] # "none"
  /\ Cross(u, Unanswered(u))
  /\ me' = [me EXCEPT ![w] = [Idle EXCEPT !.pc = ResolveTo(u), !.item = u,
             !.decision = IF ResolveTo(u) = "resolve_write" THEN decision ELSE "none"]]
  /\ UNCHANGED <<tables, overdue, due, lock, deaths>>

(* Mutant of ResolveWrite: a rejection, too, goes on to the retry. *)
ResolveWriteBuys(w) ==
  /\ At(w, "resolve_write")
  /\ escalations' = [escalations EXCEPT ![me[w].item] =
                       IF me[w].decision = "reject" THEN "rejected" ELSE "approved"]
  /\ Goto(w, "retry")
  /\ UNCHANGED <<runs, purchases, watches, overdue, due, lock, deaths, crossed>>

(* The answer is written whatever the row says by now. *)
ResolveWrite(w) ==
  /\ At(w, "resolve_write")
  /\ escalations' = [escalations EXCEPT ![me[w].item] =
                       IF me[w].decision = "reject" THEN "rejected" ELSE "approved"]
  /\ me' = [me EXCEPT ![w].pc = IF me[w].decision = "reject" THEN "reject" ELSE "retry",
                      ![w].decision = IF @ = "reject" THEN "none" ELSE @]
  /\ UNCHANGED <<runs, purchases, watches, overdue, due, lock, deaths, crossed>>

Reject(w) ==
  /\ At(w, "reject")
  /\ purchases' = [purchases EXCEPT ![me[w].item].status = "rejected"]
  /\ Goto(w, "resume_read")
  /\ UNCHANGED <<runs, escalations, watches, overdue, due, lock, deaths, crossed>>

(* _retry_through_gate: a new purchase of the same offer.  The escalated    *)
(* one keeps its status.  A derived mandate carries the purchase's amount   *)
(* as its limit and no condition, so its purchase does not escalate.  An    *)
(* exception leaves the handler before resume.                              *)
Retry(w, outcome) ==
  /\ At(w, "retry")
  /\ me[w].decision = "sticky" => outcome \notin {"escalated", "throttled"}
  /\ Submit(purchases[me[w].item].by, me[w].item, outcome)
  /\ IF outcome \in {"throttled", "raised"} THEN Return(w)
     ELSE me' = [me EXCEPT ![w].pc = "resume_read", ![w].decision = "none"]
  /\ UNCHANGED <<runs, watches, overdue, due, lock, deaths, crossed>>

(* A tick goes on with its sweep, an answer with resume. *)
AfterExpire(w) == IF lock = w THEN "sweeping" ELSE "resume_read"

ExpireRead(w) ==
  /\ At(w, "expire_read")
  /\ Goto(w, IF escalations[me[w].item] = "pending" THEN "expire_write" ELSE AfterExpire(w))
  /\ UNCHANGED <<tables, overdue, due, lock, deaths, crossed>>

ExpireWrite(w) ==
  /\ At(w, "expire_write")
  /\ escalations' = [escalations EXCEPT ![me[w].item] = "expired"]
  /\ Goto(w, "expire_purchase")
  /\ UNCHANGED <<runs, purchases, watches, overdue, due, lock, deaths, crossed>>

ExpirePurchase(w) ==
  /\ At(w, "expire_purchase")
  /\ purchases' = [purchases EXCEPT ![me[w].item].status = "rejected"]
  /\ Goto(w, AfterExpire(w))
  /\ UNCHANGED <<runs, escalations, watches, overdue, due, lock, deaths, crossed>>

(* graph.resume of the run that asked: only a parked run whose escalation   *)
(* exists and is settled; a watch has no run.                               *)
ResumeRead(w) ==
  LET r == purchases[me[w].item].by IN
  /\ At(w, "resume_read")
  /\ IF /\ r \in Runs
        /\ runs[r].status = "awaiting_human"
        /\ runs[r].esc # 0
        /\ escalations[runs[r].esc] # "pending"
     THEN me' = [me EXCEPT ![w].pc = "resume_mark", ![w].run = r, ![w].copy = runs[r],
                           ![w].node = IF purchases[runs[r].esc].status = "captured"
                                       THEN "receipt" ELSE "denied"]
     ELSE Return(w)
  /\ UNCHANGED <<tables, overdue, due, lock, deaths, crossed>>

(* Status running in one statement, the gate node saved in the next. *)
ResumeMark(w) ==
  /\ At(w, "resume_mark")
  /\ runs' = [runs EXCEPT ![me[w].run].status = "running"]
  /\ Goto(w, "resume_save")
  /\ UNCHANGED <<purchases, escalations, watches, overdue, due, lock, deaths, crossed>>

ResumeSave(w) ==
  /\ At(w, "resume_save")
  /\ LET row == Saved(w, "gate", "running") IN
     /\ Save(w, row)
     /\ me' = [me EXCEPT ![w].pc = "resume_end", ![w].copy = row]
  /\ UNCHANGED <<purchases, escalations, watches, overdue, due, lock, deaths, crossed>>

(* node_receipt or node_denied, once; the loop is not entered again. *)
ResumeEnd(w) ==
  /\ At(w, "resume_end")
  /\ Save(w, Saved(w, me[w].node, IF me[w].node = "denied" THEN "denied" ELSE "running"))
  /\ Return(w)
  /\ UNCHANGED <<purchases, escalations, watches, overdue, due, lock, deaths, crossed>>

----------------------------------------------------------------------------
(* watcher.py: one tick, under the advisory lock *)

(* cron starts a tick, which takes the lock and reads what to sweep.  One   *)
(* that finds the lock taken is skipped and changes nothing.                *)
Tick(w) ==
  /\ At(w, "idle")
  /\ lock = None
  /\ lock' = w
  /\ me' = [me EXCEPT ![w].pc = "sweeping",
                      ![w].todo = {u \in overdue : escalations[u] = "pending"}]
  /\ UNCHANGED <<tables, overdue, due, deaths, crossed>>

SweepOne(w) ==
  /\ At(w, "sweeping")
  /\ \E u \in me[w].todo :
       me' = [me EXCEPT ![w].pc = "expire_read", ![w].item = u, ![w].todo = @ \ {u}]
  /\ UNCHANGED <<tables, overdue, due, lock, deaths, crossed>>

(* _claim_due: one statement takes the active watches that are due. *)
Claim(w) ==
  /\ At(w, "sweeping")
  /\ me[w].todo = {}
  /\ LET taken == {v \in due : watches[v] = "active"} IN
     /\ due' = due \ taken
     /\ me' = [me EXCEPT ![w].pc = "watching", ![w].todo = taken, ![w].item = 0]
  /\ UNCHANGED <<tables, overdue, lock, deaths, crossed>>

(* check: nothing to do for a watch that is no longer active or whose       *)
(* threshold does not match.  A poll stamps last_checked_at again; so has   *)
(* _claim_due already when the poll is throttled before it does.            *)
Pass(w) ==
  /\ At(w, "watching")
  /\ \E v \in me[w].todo :
       /\ me' = [me EXCEPT ![w].todo = @ \ {v}]
       /\ due' = IF watches[v] = "active" THEN due \ {v} ELSE due
  /\ UNCHANGED <<tables, overdue, lock, deaths, crossed>>

(* check: active when read, and the threshold matches. *)
Match(w) ==
  /\ At(w, "watching")
  /\ \E v \in me[w].todo :
       /\ watches[v] = "active"
       /\ me' = [me EXCEPT ![w].pc = IF v \in Autobuy THEN "fire" ELSE "fired",
                           ![w].watch = v, ![w].todo = @ \ {v}]
       /\ due' = due \ {v}
  /\ UNCHANGED <<tables, overdue, lock, deaths, crossed>>

(* Mutant of Fires: a purchase that asks a human does not stop the watch. *)
FiresCaptured == {"captured"}

(* The outcomes after which a watch has fired. *)
Fires == {"captured", "escalated"}

(* Into the same gate.  LimitExceeded is caught by the tick, another        *)
(* exception ends it and frees the lock.                                    *)
Fire(w, outcome) ==
  LET v == me[w].watch IN
  /\ At(w, "fire")
  /\ Submit(v, 0, outcome)
  /\ IF outcome = "raised"
     THEN Return(w) /\ lock' = None
     ELSE /\ me' = [me EXCEPT ![w].pc = IF outcome \in Fires THEN "fired" ELSE "watching",
                              ![w].watch = IF outcome \in Fires THEN v ELSE None]
          /\ UNCHANGED lock
  /\ UNCHANGED <<runs, watches, overdue, due, deaths, crossed>>

Fired(w) ==
  /\ At(w, "fired")
  /\ watches' = [watches EXCEPT ![me[w].watch] = "fired"]
  /\ me' = [me EXCEPT ![w].pc = "watching", ![w].watch = None]
  /\ UNCHANGED <<runs, purchases, escalations, overdue, due, lock, deaths, crossed>>

(* The tick ends; relay.drain before it touches the outbox only. *)
Unlock(w) ==
  /\ At(w, "watching")
  /\ me[w].todo = {}
  /\ lock' = None
  /\ Return(w)
  /\ UNCHANGED <<tables, overdue, due, deaths, crossed>>

----------------------------------------------------------------------------
(* Time, people and failures *)

(* timeout_at passes, perhaps between the check and the write of an answer. *)
Elapse(u) ==
  /\ escalations[u] = "pending"
  /\ u \notin overdue
  /\ Cross(u, Unanswered(u))
  /\ overdue' = overdue \cup {u}
  /\ UNCHANGED <<tables, due, lock, me, deaths>>

(* Only active watches are ever claimed. *)
ComeDue(v) ==
  /\ v \notin due
  /\ watches[v] = "active"
  /\ due' = due \cup {v}
  /\ UNCHANGED <<tables, overdue, lock, me, deaths, crossed>>

(* watcher.cancel, whatever the watch is doing. *)
Cancel(v) ==
  /\ watches[v] # "cancelled"
  /\ watches' = [watches EXCEPT ![v] = "cancelled"]
  /\ UNCHANGED <<runs, purchases, escalations, overdue, due, lock, me, deaths, crossed>>

(* Mutant of Freed: a lock row that outlives its session. *)
FreedNever(w) == lock

(* An advisory lock dies with the session that holds it. *)
Freed(w) == IF lock = w THEN None ELSE lock

Die(w) ==
  /\ ~At(w, "idle")
  /\ deaths + Cardinality(crossed) < MaxMishaps
  /\ deaths' = deaths + 1
  /\ Return(w)
  /\ lock' = Freed(w)
  /\ UNCHANGED <<tables, overdue, due, crossed>>

Step(w) ==
  \/ GuideWrite(w) \/ \E next \in Nodes : Think(w, next)
  \/ Gate(w) \/ \E outcome \in Outcomes : GateAnswer(w, outcome)
  \/ Park(w) \/ Receipt(w) \/ Finish(w) \/ Fail(w) \/ Throttle(w)
  \/ ResolveWrite(w) \/ Reject(w)
  \/ \E outcome \in Outcomes : Retry(w, outcome)
  \/ ExpireRead(w) \/ ExpireWrite(w) \/ ExpirePurchase(w)
  \/ ResumeRead(w) \/ ResumeMark(w) \/ ResumeSave(w) \/ ResumeEnd(w)
  \/ SweepOne(w) \/ Claim(w) \/ Pass(w) \/ Match(w)
  \/ \E outcome \in Outcomes : Fire(w, outcome)
  \/ Fired(w) \/ Unlock(w)

Next ==
  \/ \E w \in Workers : Step(w) \/ Tick(w) \/ Die(w)
  \/ \E w \in Workers, r \in Runs : Guide(w, r) \/ \E search \in BOOLEAN : Start(w, r, search)
  \/ \E w \in Workers, u \in Purchases, d \in Decisions \ {"none"} : Answer(w, u, d)
  \/ \E u \in Purchases : Elapse(u)
  \/ \E v \in Watches : ComeDue(v) \/ Cancel(v)

Spec == Init /\ [][Next]_vars

(* A handler that was entered goes on until it returns or its process dies. *)
(* cron has a timer of its own: callers that keep the processes busy do not *)
(* keep it from starting a tick for ever.  Nothing is assumed of buyers and *)
(* approvers.                                                               *)
Fairness ==
  /\ \A w \in Workers : WF_vars(Step(w))
  /\ SF_vars(\E w \in Workers : Tick(w))

FairSpec == Spec /\ Fairness

----------------------------------------------------------------------------
(* Properties *)

RetriesOf(u) == {x \in Purchases : purchases[x].retries = u}

(* Money that was taken for a run or watch, also through an approver; what  *)
(* of it was captured, and what the kernel knows nothing of; and what a     *)
(* human is asked.                                                          *)
PaidFor(b) ==
  {u \in Purchases : purchases[u].by = b /\ purchases[u].status \in {"captured", "lost"}}

CapturedFor(b) == {u \in Purchases : purchases[u].by = b /\ purchases[u].status = "captured"}

LostFor(b) == {u \in Purchases : purchases[u].by = b /\ purchases[u].status = "lost"}

Pending(b) == {u \in Purchases : purchases[u].by = b /\ escalations[u] = "pending"}

(* What it bought or asked a human for by itself. *)
AskedBy(b) ==
  {u \in Purchases : /\ purchases[u].by = b
                     /\ purchases[u].retries = 0
                     /\ purchases[u].status \in {"captured", "lost"} \/ escalations[u] # "none"}

(* M5: an escalation is retried at most once, however often it is answered  *)
(* and by whomever, unless two of its answers crossed, or an answer and its *)
(* deadline.                                                                *)
OneRetry == \A u \in Purchases \ crossed : Cardinality(RetriesOf(u)) <= 1

(* escalation.resolve: answered twice, charged once -- also when two        *)
(* answers overlap.                                                         *)
NoSecondCharge ==
  \A u \in Purchases :
    Cardinality({x \in RetriesOf(u) : purchases[x].status = "captured"}) <= 1

(* S3, H2: a `no' and silence never buy; neither an answer that comes after *)
(* the timeout nor the tick's sweep lets a denied purchase through.  Not so *)
(* where answers crossed: resolve's write does not look at the row again.   *)
DeniedMeansDenied ==
  \A u \in Purchases \ crossed : escalations[u] \in {"rejected", "expired"} =>
    RetriesOf(u) = {} /\ purchases[u].status # "captured"

(* The signed answer is the record of what a person decided: no later       *)
(* answer, replay or sweep changes it, unless it crossed with another       *)
(* answer or with its deadline.                                             *)
AnswerIsFinal ==
  [][\A u \in Purchases : escalations[u] \notin {"none", "pending"} =>
       escalations'[u] = escalations[u] \/ u \in crossed]_vars

(* H1, S7: as long as nothing crossed, a run asks or buys once: while its   *)
(* question is open nothing was paid for it, and the approval is the only   *)
(* purchase that follows -- one more for each process that died, and one    *)
(* for each payment whose answer was lost, which the run takes for a        *)
(* refusal worth another try.                                               *)
RunBuysOnce ==
  crossed = {} => \A r \in Runs :
    Cardinality(PaidFor(r)) + Cardinality(Pending(r)) <= 1 + deaths + Cardinality(LostFor(r))

(* A fired watch stops firing, with overlapping ticks, crossing answers and *)
(* a buyer who cancels; a process that dies between purchase and mark, and  *)
(* a payment whose answer is lost, may cost one more each.                  *)
WatchFiresOnce ==
  \A v \in Watches :
    Cardinality(AskedBy(v)) <= 1 + deaths + Cardinality(AskedBy(v) \cap LostFor(v))

(* A run that says done has bought something, or was a mere search, which   *)
(* never buys.                                                              *)
DoneIsTrue ==
  \A r \in Runs :
    /\ runs[r].status = "done" /\ ~runs[r].search => CapturedFor(r) # {}
    /\ runs[r].search => \A u \in Purchases : purchases[u].by # r

(* H2: an escalation past its deadline does not stay open: there is always  *)
(* a later moment at which every one of them is closed.                     *)
TimeoutDenies == []<>(\A u \in overdue : escalations[u] # "pending")

(* graph.py: a run that ends denied or failed has not paid. *)
DeniedNeverPays ==
  \A r \in Runs : runs[r].status \in {"denied", "failed"} => CapturedFor(r) = {}
=============================================================================
