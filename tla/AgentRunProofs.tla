--------------------------- MODULE AgentRunProofs ---------------------------
(***************************************************************************)
(* Theorems about runs, escalations and watches of the agent lane, for any *)
(* number of workers, runs, watches, purchases and deaths.  The ones about *)
(* an answer except the escalations on which handlers crossed, what a run  *)
(* costs is stated as long as nothing crossed, and the types, what a watch *)
(* costs and what a finished run says hold whatever crosses.               *)
(***************************************************************************)
EXTENDS AgentRun, SumTheorems

----------------------------------------------------------------------------
(* The inductive invariant *)

OnRun     == {"guide", "loop", "submit", "resume_mark", "resume_save", "resume_end"}
Looping   == {"guide", "loop", "submit"}
Resuming  == {"resume_mark", "resume_save", "resume_end"}
Deciding  == {"resolve_write", "reject", "retry"}
Expiring  == {"expire_read", "expire_write", "expire_purchase"}
Ticking   == {"sweeping", "watching", "fire", "fired"}
Asking    == {"perceive", "search", "propose", "gate"}

(* What the locals of a worker mean where it stands. *)
Locals(w) ==
  /\ me[w].pc = "idle" => me[w] = Idle
  /\ me[w].pc \in OnRun <=> me[w].run # None
  /\ me[w].pc \in Deciding \cup Expiring \cup Resuming \cup {"resume_read"} =>
       me[w].item \in Purchases /\ escalations[me[w].item] # "none"
  /\ me[w].pc \in {"fire", "fired"} => me[w].watch \in Watches
  /\ me[w].pc \in Ticking => lock = w
  /\ lock = w => me[w].pc \in Ticking \cup Expiring
  /\ me[w].pc \in {"sweeping"} \cup Expiring => me[w].todo \subseteq overdue
  /\ me[w].pc \in {"watching", "fire", "fired"} => me[w].todo \subseteq Watches
  /\ me[w].pc \in Expiring => me[w].item \in overdue

(* What a worker that handles an escalation may rely on, if nothing crossed *)
(* on it.                                                                   *)
Answers(w) == me[w].item \notin crossed =>
  /\ me[w].pc = "resolve_write" =>
       /\ escalations[me[w].item] = "pending"
       /\ me[w].item \notin overdue
  /\ me[w].pc = "reject" => escalations[me[w].item] = "rejected"
  /\ me[w].pc = "retry" =>
       escalations[me[w].item] = "approved" /\ RetriesOf(me[w].item) = {}
  /\ me[w].pc = "expire_write" => escalations[me[w].item] \in {"pending", "expired"}
  /\ me[w].pc = "expire_purchase" => escalations[me[w].item] = "expired"

OneDecides ==
  \A w, x \in Workers :
    me[w].pc \in Deciding /\ me[x].pc \in Deciding /\ me[w].item = me[x].item =>
      w = x \/ me[w].item \in crossed

(* The purchase an escalation is about is not captured; only an approved    *)
(* escalation was retried, once, if nothing crossed on it.                  *)
Questions(u) ==
  /\ escalations[u] # "none" => purchases[u].status \in {"awaiting_escalation", "rejected"}
  /\ u \notin crossed /\ RetriesOf(u) # {} => escalations[u] = "approved"
  /\ u \notin crossed => \A x, y \in RetriesOf(u) : x = y
  /\ u \in overdue => escalations[u] # "none"

(* The row of a run. *)
Parked(r) == runs[r].esc \in Purchases /\ escalations[runs[r].esc] # "none"

Rows(r) ==
  /\ runs[r].status = "none" =>
       runs[r].node = "perceive" /\ \A u \in Purchases : purchases[u].by # r
  /\ runs[r].status = "running" /\ runs[r].node = "await_human" => Parked(r)
  /\ runs[r].status = "awaiting_human" => Parked(r)
  /\ runs[r].status = "done" => runs[r].node = "done"
  /\ runs[r].node \in {"receipt", "done"} /\ ~runs[r].search => CapturedFor(r) # {}
  /\ runs[r].search =>
       /\ runs[r].node \notin {"gate", "await_human", "receipt"}
       /\ runs[r].status # "awaiting_human"
       /\ \A u \in Purchases : purchases[u].by # r

(* A worker in the loop has the run for itself; what it is about to do is   *)
(* backed by what was bought.                                               *)
Loops(w) ==
  /\ me[w].pc \in OnRun =>
       /\ runs[me[w].run].status # "none"
       /\ me[w].copy.search = runs[me[w].run].search
  /\ me[w].pc \in Looping =>
       /\ runs[me[w].run].status = "running"
       /\ \A x \in Workers : me[x].run = me[w].run => x = w
  /\ me[w].pc = "guide" /\ me[w].copy.node = "await_human" =>
       me[w].copy.esc \in Purchases /\ escalations[me[w].copy.esc] # "none"
  /\ me[w].pc \in {"loop", "submit", "resume_end"} => me[w].copy.status = "running"
  /\ me[w].pc = "submit" => runs[me[w].run].node = "gate" /\ ~me[w].copy.search
  /\ me[w].pc = "loop" =>
       /\ me[w].node \in Asking => runs[me[w].run].node \in Asking
       /\ me[w].node = "await_human" /\ me[w].item # 0 =>
            me[w].item \in Purchases /\ escalations[me[w].item] # "none"
       /\ me[w].node \in {"gate", "await_human", "receipt"} => ~me[w].copy.search
       /\ me[w].node \in {"receipt", "done"} /\ ~me[w].copy.search =>
            CapturedFor(me[w].run) # {}
  /\ me[w].pc \in Resuming =>
       /\ ~me[w].copy.search /\ me[w].node = "denied"
       /\ runs[me[w].run].node = "await_human" => Parked(me[w].run)

(* What a run may still cost: captures, open questions, retries under way;  *)
(* and whether it may still ask by itself.                                  *)
Retrying(u) == \E w \in Workers : me[w].pc = "retry" /\ me[w].item = u

Live(r) ==
  {u \in Purchases : /\ purchases[u].by = r
                     /\ \/ purchases[u].status = "captured"
                        \/ escalations[u] = "pending"
                        \/ Retrying(u)}

MayAsk(w) ==
  me[w].pc \in {"guide", "submit"} \/ (me[w].pc = "loop" /\ me[w].node \in Asking)

Open(r) ==
  \/ runs[r].status = "none"
  \/ /\ runs[r].status = "running"
     /\ runs[r].node \in Asking
     /\ \A w \in Workers : me[w].run = r => MayAsk(w)

RunCosts(r) ==
  /\ IsFiniteSet(Live(r))
  /\ Cardinality(Live(r)) + (IF Open(r) THEN 1 ELSE 0) <= 1 + deaths

(* The same for a watch: what it bought or asked for, lost answers aside. *)
Counted(v) ==
  {u \in Purchases : /\ purchases[u].by = v /\ purchases[u].retries = 0
                     /\ purchases[u].status = "captured" \/ escalations[u] # "none"}

Armed(v) ==
  \/ watches[v] = "active" /\ \A w \in Workers : ~(me[w].pc = "fired" /\ me[w].watch = v)
  \/ \E w \in Workers : me[w].pc = "fire" /\ me[w].watch = v

WatchCosts(v) ==
  /\ IsFiniteSet(Counted(v))
  /\ Cardinality(Counted(v)) + (IF Armed(v) THEN 1 ELSE 0) <= 1 + deaths

AnswerInv ==
  /\ TypeOK
  /\ \A w \in Workers : Locals(w) /\ Answers(w)
  /\ OneDecides
  /\ \A u \in Purchases : Questions(u)

(* An escalation is about a recorded purchase that was not captured, and    *)
(* only an escalation has a deadline.                                       *)
Asked(u) ==
  /\ escalations[u] # "none" => purchases[u].status \in {"awaiting_escalation", "rejected"}
  /\ u \in overdue => escalations[u] # "none"

(* What holds whatever overlaps. *)
LooseInv ==
  /\ TypeOK
  /\ \A w \in Workers : Locals(w)
  /\ \A u \in Purchases : Asked(u)

RunInv == (\A r \in Runs : Rows(r)) /\ (\A w \in Workers : Loops(w))

CostInv  == \A r \in Runs : RunCosts(r)
WatchInv == \A v \in Watches : WatchCosts(v)

----------------------------------------------------------------------------
(* Types *)

(* The id of a new purchase is one that was not used. *)
LEMMA FreshIs ==
  ASSUME TypeOK, Fresh # 0
  PROVE  Fresh \in Purchases /\ purchases[Fresh].status = "none"
  <1> DEFINE Unused == {u \in Purchases : purchases[u].status = "none"}
  <1>1. Unused # {}
    BY DEF Fresh
  <1>2. Unused \subseteq Nat
    BY RunAssumption
  <1>3. \E u \in Unused : \A x \in Unused : u <= x
    <2> HIDE DEF Unused
    <2> QED
      BY <1>1, <1>2, LeastNat
  <1>4. \E u \in Purchases : /\ purchases[u].status = "none"
                             /\ \A x \in Purchases : purchases[x].status = "none" => u <= x
    BY <1>3
  <1> QED
    BY <1>1, <1>4 DEF Fresh

(* What a call of submit_purchase leaves behind. *)
Records(f, by, retries, outcome) ==
  /\ f \in Purchases
  /\ purchases[f].status = "none"
  /\ purchases'[f].status = (IF outcome \in {"captured", "lost"} THEN outcome
                             ELSE "awaiting_escalation")
  /\ purchases'[f].by = by
  /\ purchases'[f].retries = retries
  /\ escalations'[f] = (IF outcome = "escalated" THEN "pending" ELSE escalations[f])
  /\ \A u \in Purchases : u # f => purchases'[u] = purchases[u] /\ escalations'[u] = escalations[u]

LEMMA SubmitIs ==
  ASSUME TypeOK, NEW by \in Runs \cup Watches \cup {None}, NEW retries \in Purchases \cup {0},
         NEW outcome \in Outcomes, Submit(by, retries, outcome)
  PROVE  /\ purchases' \in [Purchases -> Purchase]
         /\ escalations' \in [Purchases -> {"none", "pending", "approved", "rejected", "expired"}]
         /\ \/ outcome \in Unrecorded /\ UNCHANGED <<purchases, escalations>>
            \/ outcome \in Recorded /\ Fresh # 0 /\ Records(Fresh, by, retries, outcome)
  <1>1. CASE outcome \in Unrecorded
    <2>1. UNCHANGED <<purchases, escalations>>
      BY <1>1 DEF Submit, Unrecorded, Recorded
    <2> QED
      BY <1>1, <2>1 DEF TypeOK
  <1>2. CASE outcome \in Recorded
    <2>1. Fresh \in Purchases /\ purchases[Fresh].status = "none" /\ Fresh # 0
      BY <1>2, FreshIs DEF Submit
    <2> DEFINE new == [status  |-> IF outcome \in {"captured", "lost"} THEN outcome
                                   ELSE "awaiting_escalation",
                       by      |-> by,
                       retries |-> retries]
    <2>2. /\ new \in Purchase /\ new.by = by /\ new.retries = retries
          /\ new.status = (IF outcome \in {"captured", "lost"} THEN outcome
                            ELSE "awaiting_escalation")
      BY DEF Purchase
    <2>3. purchases' = [purchases EXCEPT ![Fresh] = new]
      BY <1>2 DEF Submit
    <2>4. escalations' = IF outcome = "escalated"
                         THEN [escalations EXCEPT ![Fresh] = "pending"] ELSE escalations
      BY DEF Submit
    <2> HIDE DEF new
    <2>5. /\ purchases' \in [Purchases -> Purchase]
          /\ purchases'[Fresh] = new
          /\ \A u \in Purchases : u # Fresh => purchases'[u] = purchases[u]
      BY <2>1, <2>2, <2>3 DEF TypeOK
    <2>6. /\ escalations' \in [Purchases -> {"none", "pending", "approved", "rejected", "expired"}]
          /\ escalations'[Fresh] = (IF outcome = "escalated" THEN "pending" ELSE escalations[Fresh])
          /\ \A u \in Purchases : u # Fresh => escalations'[u] = escalations[u]
      BY <2>1, <2>4 DEF TypeOK
    <2> QED
      BY <1>2, <2>1, <2>2, <2>5, <2>6 DEF Records
  <1> QED
    BY <1>1, <1>2 DEF Outcomes

(* A row saved from the worker's copy is a row. *)
LEMMA SavedIs ==
  ASSUME TypeOK, NEW w \in Workers, NEW n \in Nodes, NEW s \in RunStatus
  PROVE  /\ Saved(w, n, s) \in Run
         /\ Saved(w, n, s).node = n /\ Saved(w, n, s).status = s
         /\ Saved(w, n, s).search = me[w].copy.search /\ Saved(w, n, s).esc = me[w].copy.esc
         /\ Saved(w, n, s).replans = me[w].copy.replans
  BY ZenonT(40) DEF TypeOK, Saved, Local, Run

LEMMA SaveIs ==
  ASSUME TypeOK, NEW w \in Workers, me[w].run \in Runs, NEW row \in Run, Save(w, row)
  PROVE  /\ runs' \in [Runs -> Run]
         /\ runs'[me[w].run] = row
         /\ \A r \in Runs : r # me[w].run => runs'[r] = runs[r]
  BY DEF TypeOK, Save

LEMMA IdleIs ==
  /\ Idle \in Local /\ Idle.pc = "idle" /\ Idle.run = None /\ Idle.item = 0
  /\ Idle.watch = None /\ Idle.todo = {} /\ Idle.decision = "none"
  /\ Idle.copy = NoRun /\ Idle.node = "perceive"
  /\ NoRun \in Run /\ NoRun.status = "none" /\ NoRun.node = "perceive" /\ NoRun.esc = 0
  /\ NoRun.replans = 0 /\ NoRun.search = FALSE
  <1>1. /\ NoRun \in Run /\ NoRun.status = "none" /\ NoRun.node = "perceive" /\ NoRun.esc = 0
        /\ NoRun.replans = 0 /\ NoRun.search = FALSE
    BY RunAssumption DEF NoRun, Run, Nodes, RunStatus
  <1>2. /\ Idle \in Local /\ Idle.pc = "idle" /\ Idle.run = None /\ Idle.item = 0
        /\ Idle.watch = None /\ Idle.todo = {} /\ Idle.decision = "none"
        /\ Idle.copy = NoRun /\ Idle.node = "perceive"
    BY <1>1 DEF Idle, Local, PC, Nodes, Decisions
  <1> QED
    BY <1>1, <1>2

----------------------------------------------------------------------------
(* What each action does to the locals of the worker and to the tables *)

Alone(w) ==
  /\ me' \in [Workers -> Local]
  /\ \A x \in Workers : x # w => me'[x] = me[x]

(* The locals that decide what a worker may do next. *)
Becomes(w, p, r, n, i, t, v) ==
  /\ Alone(w)
  /\ me'[w].pc = p /\ me'[w].run = r /\ me'[w].node = n
  /\ me'[w].item = i /\ me'[w].todo = t /\ me'[w].watch = v

(* Only the label moves. *)
MovesTo(w, p) ==
  Becomes(w, p, me[w].run, me[w].node, me[w].item, me[w].todo, me[w].watch)

Ends(w) == Alone(w) /\ me'[w] = Idle

HasCopy(w, s, b) == me'[w].copy.status = s /\ me'[w].copy.search = b

WritesRow(r, n, s, e, b) ==
  /\ runs' \in [Runs -> Run]
  /\ runs'[r].node = n /\ runs'[r].status = s /\ runs'[r].esc = e /\ runs'[r].search = b
  /\ \A q \in Runs : q # r => runs'[q] = runs[q]

(* The parts of the state other than the locals and one table. *)
rest == <<overdue, due, lock, deaths, crossed>>

LEMMA ReturnIs ==
  ASSUME TypeOK, NEW w \in Workers, Return(w)
  PROVE  Ends(w)
  BY IdleIs DEF TypeOK, Return, Ends, Alone

LEMMA StartIs ==
  ASSUME TypeOK, NEW w \in Workers, NEW r \in Runs, NEW search \in BOOLEAN, Start(w, r, search)
  PROVE  /\ me[w].pc = "idle" /\ runs[r].status = "none"
         /\ WritesRow(r, "perceive", "running", 0, search)
         /\ Becomes(w, "loop", r, "perceive", 0, {}, None)
         /\ HasCopy(w, "running", search)
         /\ UNCHANGED <<purchases, escalations, watches, rest>>
         /\ TypeOK'
  <1> DEFINE row == [NoRun EXCEPT !.status = "running", !.search = search]
             new == [Idle EXCEPT !.pc = "loop", !.run = r, !.copy = row]
  <1>1. /\ row \in Run /\ row.node = "perceive" /\ row.status = "running" /\ row.esc = 0
        /\ row.search = search
    BY IdleIs DEF Run, RunStatus
  <1>2. /\ me[w].pc = "idle" /\ runs[r].status = "none"
        /\ runs' = [runs EXCEPT ![r] = row] /\ me' = [me EXCEPT ![w] = new]
        /\ UNCHANGED <<purchases, escalations, watches, rest>>
    BY DEF Start, At, rest
  <1> HIDE DEF row
  <1>3. /\ new \in Local /\ new.pc = "loop" /\ new.run = r /\ new.node = "perceive" /\ new.item = 0
        /\ new.todo = {} /\ new.watch = None /\ new.copy = row
    BY <1>1, IdleIs DEF Local, PC
  <1> HIDE DEF new
  <1>4. WritesRow(r, "perceive", "running", 0, search)
    BY <1>1, <1>2 DEF WritesRow, TypeOK
  <1>5. Becomes(w, "loop", r, "perceive", 0, {}, None) /\ HasCopy(w, "running", search)
    BY <1>1, <1>2, <1>3 DEF Becomes, HasCopy, Alone, TypeOK
  <1> QED
    BY <1>2, <1>4, <1>5 DEF TypeOK, WritesRow, Becomes, Alone, rest

LEMMA GuideIs ==
  ASSUME TypeOK, NEW w \in Workers, NEW r \in Runs, Guide(w, r)
  PROVE  /\ me[w].pc = "idle" /\ runs[r].status = "running" /\ (r \notin crossed' => Untouched(r))
         /\ Becomes(w, "guide", r, "perceive", 0, {}, None)
         /\ HasCopy(w, "running", runs[r].search) /\ me'[w].copy = runs[r]
         /\ crossed \subseteq crossed' /\ UNCHANGED <<tables, overdue, due, lock, deaths>>
         /\ TypeOK'
  <1> DEFINE new == [Idle EXCEPT !.pc = "guide", !.run = r, !.copy = runs[r]]
  <1>1. /\ me[w].pc = "idle" /\ runs[r].status = "running" /\ (r \notin crossed' => Untouched(r))
        /\ me' = [me EXCEPT ![w] = new] /\ UNCHANGED <<tables, overdue, due, lock, deaths>>
        /\ crossed \subseteq crossed' /\ crossed' \subseteq MayCross
    BY DEF Guide, At, Cross, TypeOK
  <1>2. runs[r] \in Run
    BY DEF TypeOK
  <1>3. /\ new \in Local /\ new.pc = "guide" /\ new.run = r /\ new.node = "perceive" /\ new.item = 0
        /\ new.todo = {} /\ new.watch = None /\ new.copy = runs[r]
    BY <1>2, IdleIs DEF Local, PC
  <1> HIDE DEF new
  <1>4. /\ Becomes(w, "guide", r, "perceive", 0, {}, None)
        /\ HasCopy(w, "running", runs[r].search) /\ me'[w].copy = runs[r]
    BY <1>1, <1>3 DEF Becomes, HasCopy, Alone, TypeOK
  <1> QED
    BY <1>1, <1>4 DEF TypeOK, Becomes, Alone, tables

LEMMA GuideWriteIs ==
  ASSUME TypeOK, NEW w \in Workers, me[w].run \in Runs, GuideWrite(w)
  PROVE  /\ me[w].pc = "guide"
         /\ WritesRow(me[w].run, runs[me[w].run].node, "running", runs[me[w].run].esc,
                      runs[me[w].run].search)
         /\ Becomes(w, "loop", me[w].run, runs[me[w].run].node,
                    IF me[w].copy.node = "await_human" THEN me[w].copy.esc ELSE 0,
                    me[w].todo, me[w].watch)
         /\ HasCopy(w, "running", runs[me[w].run].search)
         /\ UNCHANGED <<purchases, escalations, watches, rest>>
         /\ TypeOK'
  <1>0. PICK old \in Run : old = runs[me[w].run]
    BY DEF TypeOK
  <1> DEFINE row == [old EXCEPT !.status = "running", !.replans = 0]
             i == IF me[w].copy.node = "await_human" THEN me[w].copy.esc ELSE 0
  <1>1. /\ me[w].pc = "guide" /\ Save(w, row)
        /\ me' = [me EXCEPT ![w].pc = "loop", ![w].copy = row, ![w].node = row.node,
                            ![w].item = i]
        /\ UNCHANGED <<purchases, escalations, watches, rest>>
    BY <1>0 DEF GuideWrite, At, rest
  <1>3. /\ row \in Run /\ row.node = old.node /\ row.status = "running" /\ row.esc = old.esc
        /\ row.search = old.search /\ row.node \in Nodes
    <2>1. 0 \in 0..MAX_REPLANS /\ "running" \in RunStatus
      BY RunAssumption DEF RunStatus
    <2> QED
      BY <2>1 DEF Run
  <1>2. i \in Purchases \cup {0}
    BY DEF TypeOK, Local, Run
  <1> HIDE DEF row, i
  <1>4. WritesRow(me[w].run, old.node, "running", old.esc, old.search)
    BY <1>1, <1>3, SaveIs DEF WritesRow
  <1>5. /\ me[w] \in Local /\ me'[w] = [me[w] EXCEPT !.pc = "loop", !.copy = row, !.node = row.node,
                                    !.item = i]
        /\ \A x \in Workers : x # w => me'[x] = me[x]
    BY <1>1 DEF TypeOK
  <1>6. me'[w] \in Local
    BY <1>2, <1>3, <1>5 DEF Local, PC
  <1>7. Alone(w)
    BY <1>1, <1>5, <1>6 DEF Alone, TypeOK
  <1>8. /\ Becomes(w, "loop", me[w].run, old.node, i, me[w].todo, me[w].watch)
        /\ HasCopy(w, "running", old.search)
    BY <1>3, <1>5, <1>7 DEF Becomes, HasCopy, Local
  <1> QED
    BY <1>0, <1>1, <1>4, <1>8 DEF TypeOK, WritesRow, Becomes, Alone, rest, i

LEMMA ThinkIs ==
  ASSUME TypeOK, NEW w \in Workers, me[w].run \in Runs, NEW next \in Nodes, Think(w, next)
  PROVE  /\ me[w].pc = "loop" /\ me[w].node \in {"perceive", "search", "propose"}
         /\ next \in {"search", "propose", "denied"} \cup {IF me[w].copy.search THEN "done" ELSE "gate"}
         /\ WritesRow(me[w].run, me[w].node, me[w].copy.status, me[w].copy.esc, me[w].copy.search)
         /\ Becomes(w, "loop", me[w].run, next, me[w].item, me[w].todo, me[w].watch)
         /\ HasCopy(w, me[w].copy.status, me[w].copy.search)
         /\ UNCHANGED <<purchases, escalations, watches, rest>>
         /\ TypeOK'
  <1> DEFINE row == Saved(w, me[w].node, me[w].copy.status)
  <1>1. /\ me[w].pc = "loop" /\ me[w].node \in {"perceive", "search", "propose"}
        /\ next \in Successors(me[w].copy, me[w].node)
        /\ Save(w, row)
        /\ me' = [me EXCEPT ![w].copy = row, ![w].node = next]
        /\ UNCHANGED <<purchases, escalations, watches, rest>>
    BY DEF Think, At, rest
  <1>2. next \in {"search", "propose", "denied"} \cup {IF me[w].copy.search THEN "done" ELSE "gate"}
    BY <1>1 DEF Successors
  <1>3. /\ row \in Run /\ row.node = me[w].node /\ row.status = me[w].copy.status
        /\ row.esc = me[w].copy.esc /\ row.search = me[w].copy.search
    <2>1. me[w].node \in Nodes /\ me[w].copy.status \in RunStatus
      BY DEF TypeOK, Local, Run
    <2> QED
      BY <2>1, SavedIs
  <1> HIDE DEF row
  <1>4. WritesRow(me[w].run, me[w].node, me[w].copy.status, me[w].copy.esc, me[w].copy.search)
    BY <1>1, <1>3, SaveIs DEF WritesRow
  <1>5. /\ Becomes(w, "loop", me[w].run, next, me[w].item, me[w].todo, me[w].watch)
        /\ HasCopy(w, me[w].copy.status, me[w].copy.search)
    BY <1>1, <1>3, ZenonT(40) DEF Becomes, HasCopy, Alone, TypeOK, Local
  <1> QED
    BY <1>1, <1>2, <1>4, <1>5 DEF TypeOK, WritesRow, Becomes, Alone, rest

LEMMA GateIs ==
  ASSUME TypeOK, NEW w \in Workers, me[w].run \in Runs, Gate(w)
  PROVE  /\ me[w].pc = "loop" /\ me[w].node = "gate"
         /\ WritesRow(me[w].run, "gate", me[w].copy.status, me[w].copy.esc, me[w].copy.search)
         /\ MovesTo(w, "submit")
         /\ HasCopy(w, me[w].copy.status, me[w].copy.search)
         /\ UNCHANGED <<purchases, escalations, watches, rest>>
         /\ TypeOK'
  <1> DEFINE row == Saved(w, "gate", me[w].copy.status)
  <1>1. /\ me[w].pc = "loop" /\ me[w].node = "gate" /\ Save(w, row)
        /\ me' = [me EXCEPT ![w].copy = row, ![w].pc = "submit"]
        /\ UNCHANGED <<purchases, escalations, watches, rest>>
    BY DEF Gate, At, rest
  <1>3. /\ row \in Run /\ row.node = "gate" /\ row.status = me[w].copy.status
        /\ row.esc = me[w].copy.esc /\ row.search = me[w].copy.search
    <2>1. "gate" \in Nodes /\ me[w].copy.status \in RunStatus
      BY DEF TypeOK, Local, Run, Nodes
    <2> QED
      BY <2>1, SavedIs
  <1> HIDE DEF row
  <1>4. WritesRow(me[w].run, "gate", me[w].copy.status, me[w].copy.esc, me[w].copy.search)
    BY <1>1, <1>3, SaveIs DEF WritesRow
  <1>5. MovesTo(w, "submit") /\ HasCopy(w, me[w].copy.status, me[w].copy.search)
    BY <1>1, <1>3 DEF MovesTo, Becomes, HasCopy, Alone, TypeOK, Local, PC
  <1> QED
    BY <1>1, <1>4, <1>5 DEF TypeOK, WritesRow, MovesTo, Becomes, Alone, rest

(* The worker saves the row of its run and returns. *)
LEMMA SaveReturnIs ==
  ASSUME TypeOK, NEW w \in Workers, me[w].run \in Runs, NEW n \in Nodes, NEW s \in RunStatus,
         Save(w, Saved(w, n, s)), Return(w)
  PROVE  WritesRow(me[w].run, n, s, me[w].copy.esc, me[w].copy.search) /\ Ends(w)
  <1> DEFINE row == Saved(w, n, s)
  <1>1. /\ row \in Run /\ row.node = n /\ row.status = s
        /\ row.esc = me[w].copy.esc /\ row.search = me[w].copy.search
    BY SavedIs
  <1>2. Save(w, row)
    OBVIOUS
  <1> HIDE DEF row
  <1>3. WritesRow(me[w].run, n, s, me[w].copy.esc, me[w].copy.search)
    BY <1>1, <1>2, SaveIs DEF WritesRow
  <1> QED
    BY <1>3, ReturnIs

LEMMA AfterGateIs ==
  ASSUME NEW outcome \in Outcomes \ {"throttled", "raised"}, NEW k \in 0..MAX_REPLANS
  PROVE  /\ AfterGate(outcome, k) \in {"receipt", "await_human", "search", "denied"}
         /\ CountReplan(k, AfterGate(outcome, k)) \in 0..MAX_REPLANS
         /\ AfterGate(outcome, k) = "receipt" <=> outcome = "captured"
         /\ AfterGate(outcome, k) = "await_human" <=> outcome = "escalated"
         /\ AfterGate(outcome, k) = "search" => outcome \in {"retryable", "lost"}
  <1>1. MAX_REPLANS \in Nat
    BY RunAssumption
  <1> QED
    BY <1>1 DEF AfterGate, CountReplan

(* The replies of the kernel after which a run ends at once. *)
Aborts == {"throttled", "raised"}

LEMMA GateAnswerIs ==
  ASSUME TypeOK, NEW w \in Workers, me[w].run \in Runs, NEW outcome \in Outcomes,
         GateAnswer(w, outcome)
  PROVE  /\ me[w].pc = "submit"
         /\ Submit(me[w].run, 0, outcome)
         /\ outcome \in Aborts =>
              /\ \E s \in {"denied", "failed"} :
                   WritesRow(me[w].run, "gate", s, me[w].copy.esc, me[w].copy.search)
              /\ Ends(w)
         /\ outcome \notin Aborts =>
              /\ runs' = runs
              /\ \E next \in {"receipt", "await_human", "search", "denied"} :
                   /\ next = "receipt" <=> outcome = "captured"
                   /\ next = "await_human" <=> outcome = "escalated"
                   /\ next = "search" => outcome \in {"retryable", "lost"}
                   /\ Becomes(w, "loop", me[w].run, next,
                              IF outcome = "escalated" THEN Fresh ELSE me[w].item,
                              me[w].todo, me[w].watch)
              /\ HasCopy(w, me[w].copy.status, me[w].copy.search)
         /\ UNCHANGED <<watches, rest>>
         /\ TypeOK'
  <1>0. me[w] \in Local /\ me[w].copy \in Run /\ me[w].copy.replans \in 0..MAX_REPLANS
    BY DEF TypeOK, Local, Run
  <1>1. me[w].pc = "submit" /\ Submit(me[w].run, 0, outcome) /\ UNCHANGED <<watches, rest>>
    BY DEF GateAnswer, At, rest
  <1>2. /\ purchases' \in [Purchases -> Purchase]
        /\ escalations' \in [Purchases -> {"none", "pending", "approved", "rejected", "expired"}]
        /\ outcome = "escalated" => Fresh \in Purchases
    <2>1. me[w].run \in Runs \cup Watches \cup {None} /\ 0 \in Purchases \cup {0}
      OBVIOUS
    <2> QED
      BY <1>1, <2>1, SubmitIs DEF Records, Unrecorded
  <1>3. CASE outcome \in Aborts
    <2>1. \E s \in {"denied", "failed"} : Save(w, Saved(w, "gate", s)) /\ Return(w)
      BY <1>3 DEF GateAnswer, Aborts
    <2>2. "gate" \in Nodes /\ {"denied", "failed"} \subseteq RunStatus
      BY DEF Nodes, RunStatus
    <2>3. /\ \E s \in {"denied", "failed"} :
                WritesRow(me[w].run, "gate", s, me[w].copy.esc, me[w].copy.search)
          /\ Ends(w)
      BY <2>1, <2>2, SaveReturnIs
    <2> QED
      BY <1>1, <1>2, <1>3, <2>3 DEF TypeOK, WritesRow, Ends, Alone, rest
  <1>4. CASE outcome \notin Aborts
    <2>0. outcome \in Outcomes \ {"throttled", "raised"}
      BY <1>4 DEF Aborts
    <2> DEFINE next == AfterGate(outcome, me[w].copy.replans)
               count == CountReplan(me[w].copy.replans, next)
               item == IF outcome = "escalated" THEN Fresh ELSE me[w].item
    <2>1. /\ runs' = runs
          /\ me' = [me EXCEPT ![w].pc = "loop", ![w].node = next, ![w].copy.replans = count,
                              ![w].item = item]
      BY <2>0 DEF GateAnswer
    <2>2. /\ next \in {"receipt", "await_human", "search", "denied"}
          /\ count \in 0..MAX_REPLANS
          /\ next = "receipt" <=> outcome = "captured"
          /\ next = "await_human" <=> outcome = "escalated"
          /\ next = "search" => outcome \in {"retryable", "lost"}
      BY <1>0, <2>0, AfterGateIs
    <2>3. item \in Purchases \cup {0}
      BY <1>0, <1>2 DEF Local
    <2> HIDE DEF next, count, item
    <2>4. next \in Nodes
      BY <2>2 DEF Nodes
    <2>5. PICK c : c = me[w].copy
      OBVIOUS
    <2>6. [c EXCEPT !.replans = count] \in Run
      BY <1>0, <2>2, <2>5 DEF Run
    <2>7. /\ [c EXCEPT !.replans = count].status = c.status
          /\ [c EXCEPT !.replans = count].search = c.search
      BY <1>0, <2>5 DEF Run
    <2> DEFINE cc == [c EXCEPT !.replans = count]
    <2>8. /\ me'[w] = [me[w] EXCEPT !.pc = "loop", !.node = next, !.copy = cc, !.item = item]
          /\ \A x \in Workers : x # w => me'[x] = me[x]
      BY <1>0, <2>1, <2>5 DEF TypeOK, Local
    <2>9. cc \in Run /\ cc.status = c.status /\ cc.search = c.search
      BY <2>6, <2>7
    <2> HIDE DEF cc
    <2>10. /\ me'[w] \in Local /\ me'[w].pc = "loop" /\ me'[w].run = me[w].run
           /\ me'[w].node = next /\ me'[w].copy = cc /\ me'[w].item = item
           /\ me'[w].todo = me[w].todo /\ me'[w].watch = me[w].watch
      BY <1>0, <2>3, <2>4, <2>8, <2>9 DEF Local, PC
    <2>11. Alone(w)
      BY <2>1, <2>8, <2>10 DEF Alone, TypeOK
    <2>12. /\ Becomes(w, "loop", me[w].run, next, item, me[w].todo, me[w].watch)
           /\ HasCopy(w, me[w].copy.status, me[w].copy.search)
      BY <2>5, <2>9, <2>10, <2>11 DEF Becomes, HasCopy
    <2>13. TypeOK'
      BY <1>1, <1>2, <2>1, <2>11 DEF TypeOK, Alone, rest
    <2> QED
      BY <1>1, <1>4, <2>1, <2>2, <2>12, <2>13 DEF item
  <1> QED
    BY <1>3, <1>4

LEMMA ParkIs ==
  ASSUME TypeOK, NEW w \in Workers, me[w].run \in Runs, Park(w)
  PROVE  /\ me[w].pc = "loop" /\ me[w].node = "await_human" /\ me[w].item # 0
         /\ WritesRow(me[w].run, "await_human", "awaiting_human", me[w].item, me[w].copy.search)
         /\ Ends(w)
         /\ UNCHANGED <<purchases, escalations, watches, rest>>
         /\ TypeOK'
  <1>0. PICK old \in Run : old = Saved(w, "await_human", "awaiting_human")
    BY SavedIs DEF Nodes, RunStatus
  <1>1. /\ old.node = "await_human" /\ old.status = "awaiting_human" /\ old.esc = me[w].copy.esc
        /\ old.search = me[w].copy.search
    BY <1>0, SavedIs DEF Nodes, RunStatus
  <1> DEFINE row == [old EXCEPT !.esc = me[w].item]
  <1>2. /\ me[w].pc = "loop" /\ me[w].node = "await_human" /\ me[w].item # 0
        /\ Save(w, row) /\ Return(w)
        /\ UNCHANGED <<purchases, escalations, watches, rest>>
    BY <1>0 DEF Park, At, rest
  <1>3. me[w].item \in Purchases \cup {0}
    BY DEF TypeOK, Local
  <1>4. /\ row \in Run /\ row.node = "await_human" /\ row.status = "awaiting_human"
        /\ row.esc = me[w].item
        /\ row.search = me[w].copy.search
    BY <1>1, <1>3 DEF Run
  <1> HIDE DEF row
  <1>5. WritesRow(me[w].run, "await_human", "awaiting_human", me[w].item, me[w].copy.search)
    BY <1>2, <1>4, SaveIs DEF WritesRow
  <1>6. Ends(w)
    BY <1>2, ReturnIs
  <1> QED
    BY <1>2, <1>5, <1>6 DEF TypeOK, WritesRow, Ends, Alone, rest

LEMMA ReceiptIs ==
  ASSUME TypeOK, NEW w \in Workers, me[w].run \in Runs, Receipt(w)
  PROVE  /\ me[w].pc = "loop" /\ me[w].node = "receipt"
         /\ WritesRow(me[w].run, "receipt", me[w].copy.status, me[w].copy.esc, me[w].copy.search)
         /\ Becomes(w, "loop", me[w].run, "done", me[w].item, me[w].todo, me[w].watch)
         /\ HasCopy(w, me[w].copy.status, me[w].copy.search)
         /\ UNCHANGED <<purchases, escalations, watches, rest>>
         /\ TypeOK'
  <1> DEFINE row == Saved(w, "receipt", me[w].copy.status)
  <1>1. /\ me[w].pc = "loop" /\ me[w].node = "receipt" /\ Save(w, row)
        /\ me' = [me EXCEPT ![w].copy = row, ![w].node = "done"]
        /\ UNCHANGED <<purchases, escalations, watches, rest>>
    BY DEF Receipt, At, rest
  <1>3. /\ row \in Run /\ row.node = "receipt" /\ row.status = me[w].copy.status
        /\ row.esc = me[w].copy.esc /\ row.search = me[w].copy.search
    <2>1. "receipt" \in Nodes /\ me[w].copy.status \in RunStatus
      BY DEF TypeOK, Local, Run, Nodes
    <2> QED
      BY <2>1, SavedIs
  <1> HIDE DEF row
  <1>4. WritesRow(me[w].run, "receipt", me[w].copy.status, me[w].copy.esc, me[w].copy.search)
    BY <1>1, <1>3, SaveIs DEF WritesRow
  <1>5. /\ Becomes(w, "loop", me[w].run, "done", me[w].item, me[w].todo, me[w].watch)
        /\ HasCopy(w, me[w].copy.status, me[w].copy.search)
    BY <1>1, <1>3 DEF Becomes, HasCopy, Alone, TypeOK, Local, Nodes
  <1> QED
    BY <1>1, <1>4, <1>5 DEF TypeOK, WritesRow, Becomes, Alone, rest

LEMMA FinishIs ==
  ASSUME TypeOK, NEW w \in Workers, me[w].run \in Runs, Finish(w)
  PROVE  /\ me[w].pc = "loop" /\ me[w].node \in {"done", "denied"}
         /\ WritesRow(me[w].run, me[w].node, me[w].node, me[w].copy.esc, me[w].copy.search)
         /\ Ends(w)
         /\ UNCHANGED <<purchases, escalations, watches, rest>>
         /\ TypeOK'
  <1>1. /\ me[w].pc = "loop" /\ me[w].node \in {"done", "denied"}
        /\ Save(w, Saved(w, me[w].node, me[w].node)) /\ Return(w)
        /\ UNCHANGED <<purchases, escalations, watches, rest>>
    BY DEF Finish, At, rest
  <1>2. me[w].node \in Nodes /\ me[w].node \in RunStatus
    BY <1>1 DEF Nodes, RunStatus
  <1>3. WritesRow(me[w].run, me[w].node, me[w].node, me[w].copy.esc, me[w].copy.search) /\ Ends(w)
    BY <1>1, <1>2, SaveReturnIs
  <1> QED
    BY <1>1, <1>3 DEF TypeOK, WritesRow, Ends, Alone, rest

(* A run that is given up, by Fail or Throttle. *)
LEMMA GiveUpIs ==
  ASSUME TypeOK, NEW w \in Workers, me[w].run \in Runs, Fail(w) \/ Throttle(w)
  PROVE  /\ me[w].pc = "loop"
         /\ \E s \in {"failed", "denied"} :
              WritesRow(me[w].run, me[w].node, s, me[w].copy.esc, me[w].copy.search)
         /\ Ends(w)
         /\ UNCHANGED <<purchases, escalations, watches, rest>>
         /\ TypeOK'
  <1>1. PICK s \in {"failed", "denied"} :
          /\ me[w].pc = "loop" /\ Save(w, Saved(w, me[w].node, s)) /\ Return(w)
          /\ UNCHANGED <<purchases, escalations, watches, rest>>
    BY DEF Fail, Throttle, At, rest
  <1>2. me[w].node \in Nodes /\ s \in RunStatus
    BY DEF TypeOK, Local, RunStatus
  <1>3. WritesRow(me[w].run, me[w].node, s, me[w].copy.esc, me[w].copy.search) /\ Ends(w)
    BY <1>1, <1>2, SaveReturnIs
  <1> QED
    BY <1>1, <1>3 DEF TypeOK, WritesRow, Ends, Alone, rest

----------------------------------------------------------------------------
(* The same for answers, expiry and resume *)

Marks(u, e) ==
  /\ escalations' \in [Purchases -> {"none", "pending", "approved", "rejected", "expired"}]
  /\ escalations'[u] = e
  /\ \A x \in Purchases : x # u => escalations'[x] = escalations[x]

Voids(u) ==
  /\ purchases' \in [Purchases -> Purchase]
  /\ purchases'[u].status = "rejected"
  /\ purchases'[u].by = purchases[u].by /\ purchases'[u].retries = purchases[u].retries
  /\ \A x \in Purchases : x # u => purchases'[x] = purchases[x]

LEMMA GotoIs ==
  ASSUME TypeOK, NEW w \in Workers, NEW p \in PC, Goto(w, p)
  PROVE  MovesTo(w, p)
  BY DEF TypeOK, Goto, MovesTo, Becomes, Alone, Local

LEMMA AnswerIs ==
  ASSUME TypeOK, NEW w \in Workers, NEW u \in Purchases,
         NEW d \in Decisions \ {"none"}, Answer(w, u, d)
  PROVE  /\ me[w].pc = "idle" /\ escalations[u] # "none" /\ (u \notin crossed' => Unanswered(u))
         /\ Becomes(w, ResolveTo(u), None, "perceive", u, {}, None)
         /\ crossed \subseteq crossed' /\ UNCHANGED <<tables, overdue, due, lock, deaths>>
         /\ TypeOK'
  <1> DEFINE p == ResolveTo(u)
             e == IF ResolveTo(u) = "resolve_write" THEN d ELSE "none"
             new == [Idle EXCEPT !.pc = p, !.item = u, !.decision = e]
  <1>1. /\ me[w].pc = "idle" /\ escalations[u] # "none" /\ (u \notin crossed' => Unanswered(u))
        /\ me' = [me EXCEPT ![w] = new] /\ UNCHANGED <<tables, overdue, due, lock, deaths>>
        /\ crossed \subseteq crossed' /\ crossed' \subseteq MayCross
    BY DEF Answer, At, Cross, TypeOK
  <1>2. p \in PC /\ e \in Decisions
    BY DEF ResolveTo, PC, Decisions
  <1> HIDE DEF p, e
  <1>3. /\ new \in Local /\ new.pc = p /\ new.run = None /\ new.node = "perceive" /\ new.item = u
        /\ new.todo = {} /\ new.watch = None
    BY <1>2, IdleIs DEF Local
  <1> HIDE DEF new
  <1>4. Becomes(w, p, None, "perceive", u, {}, None)
    BY <1>1, <1>3 DEF Becomes, Alone, TypeOK
  <1> QED
    BY <1>1, <1>4 DEF TypeOK, Becomes, Alone, tables, p

LEMMA ResolveWriteIs ==
  ASSUME TypeOK, NEW w \in Workers, me[w].item \in Purchases, ResolveWrite(w)
  PROVE  /\ me[w].pc = "resolve_write"
         /\ \/ Marks(me[w].item, "rejected") /\ MovesTo(w, "reject")
            \/ Marks(me[w].item, "approved") /\ MovesTo(w, "retry")
         /\ UNCHANGED <<runs, purchases, watches, rest>>
         /\ TypeOK'
  <1> DEFINE no == me[w].decision = "reject"
             d == IF no THEN "none" ELSE me[w].decision
             p == IF no THEN "reject" ELSE "retry"
             e == IF no THEN "rejected" ELSE "approved"
  <1>1. /\ me[w].pc = "resolve_write" /\ UNCHANGED <<runs, purchases, watches, rest>>
        /\ escalations' = [escalations EXCEPT ![me[w].item] = e]
        /\ me' = [me EXCEPT ![w].pc = p, ![w].decision = d]
    BY DEF ResolveWrite, At, rest
  <1>2. p \in PC /\ d \in Decisions /\ e \in {"rejected", "approved"}
    BY DEF TypeOK, Local, PC, Decisions
  <1> HIDE DEF p, d
  <1>3. MovesTo(w, p)
    BY <1>1, <1>2, ZenonT(40) DEF MovesTo, Becomes, Alone, TypeOK, Local
  <1> HIDE DEF e
  <1>4. Marks(me[w].item, e)
    BY <1>1, <1>2 DEF Marks, TypeOK
  <1>5. \/ Marks(me[w].item, "rejected") /\ MovesTo(w, "reject")
        \/ Marks(me[w].item, "approved") /\ MovesTo(w, "retry")
    BY <1>3, <1>4 DEF e, p
  <1> QED
    BY <1>1, <1>3, <1>4, <1>5 DEF TypeOK, Marks, MovesTo, Becomes, Alone, rest

(* A worker voids the purchase of its escalation: in Reject or ExpirePurchase. *)
LEMMA VoidsIs ==
  ASSUME TypeOK, NEW u \in Purchases, purchases' = [purchases EXCEPT ![u].status = "rejected"]
  PROVE  Voids(u)
  BY DEF TypeOK, Voids, Purchase

LEMMA RejectIs ==
  ASSUME TypeOK, NEW w \in Workers, me[w].item \in Purchases, Reject(w)
  PROVE  /\ me[w].pc = "reject" /\ Voids(me[w].item) /\ MovesTo(w, "resume_read")
         /\ UNCHANGED <<runs, escalations, watches, rest>>
         /\ TypeOK'
  <1>1. /\ me[w].pc = "reject" /\ Goto(w, "resume_read")
        /\ purchases' = [purchases EXCEPT ![me[w].item].status = "rejected"]
        /\ UNCHANGED <<runs, escalations, watches, rest>>
    BY DEF Reject, At, rest
  <1>2. Voids(me[w].item)
    BY <1>1, VoidsIs
  <1>3. MovesTo(w, "resume_read")
    BY <1>1, GotoIs DEF PC
  <1> QED
    BY <1>1, <1>2, <1>3 DEF TypeOK, Voids, MovesTo, Becomes, Alone, rest

LEMMA RetryIs ==
  ASSUME TypeOK, NEW w \in Workers, me[w].item \in Purchases, NEW outcome \in Outcomes,
         Retry(w, outcome)
  PROVE  /\ me[w].pc = "retry"
         /\ Submit(purchases[me[w].item].by, me[w].item, outcome)
         /\ purchases[me[w].item].by \in Runs \cup Watches \cup {None}
         /\ Ends(w) \/ MovesTo(w, "resume_read")
         /\ UNCHANGED <<runs, watches, rest>>
         /\ TypeOK'
  <1>1. /\ me[w].pc = "retry" /\ Submit(purchases[me[w].item].by, me[w].item, outcome)
        /\ \/ Return(w)
           \/ me' = [me EXCEPT ![w].pc = "resume_read", ![w].decision = "none"]
        /\ UNCHANGED <<runs, watches, rest>>
    BY DEF Retry, At, rest
  <1>2. purchases[me[w].item].by \in Runs \cup Watches \cup {None}
    BY DEF TypeOK, Purchase
  <1>3. /\ purchases' \in [Purchases -> Purchase]
        /\ escalations' \in [Purchases -> {"none", "pending", "approved", "rejected", "expired"}]
    BY <1>1, <1>2, SubmitIs
  <1>4. CASE Return(w)
    <2>1. Ends(w)
      BY <1>4, ReturnIs
    <2> QED
      BY <1>1, <1>2, <1>3, <2>1 DEF TypeOK, Ends, Alone, rest
  <1>5. CASE me' = [me EXCEPT ![w].pc = "resume_read", ![w].decision = "none"]
    <2>1. MovesTo(w, "resume_read")
      <3>1. /\ me[w] \in Local
            /\ me'[w] = [me[w] EXCEPT !.pc = "resume_read", !.decision = "none"]
            /\ \A x \in Workers : x # w => me'[x] = me[x]
        BY <1>5 DEF TypeOK
      <3>2. me'[w] \in Local
        BY <3>1 DEF Local, PC, Decisions
      <3> QED
        BY <1>5, <3>1, <3>2 DEF MovesTo, Becomes, Alone, TypeOK, Local
    <2> QED
      BY <1>1, <1>2, <1>3, <2>1 DEF TypeOK, MovesTo, Becomes, Alone, rest
  <1> QED
    BY <1>1, <1>4, <1>5

LEMMA ExpireReadIs ==
  ASSUME TypeOK, NEW w \in Workers, me[w].item \in Purchases, ExpireRead(w)
  PROVE  /\ me[w].pc = "expire_read"
         /\ IF escalations[me[w].item] = "pending" THEN MovesTo(w, "expire_write")
            ELSE IF lock = w THEN MovesTo(w, "sweeping") ELSE MovesTo(w, "resume_read")
         /\ UNCHANGED <<tables, rest>>
         /\ TypeOK'
  <1> DEFINE p == IF escalations[me[w].item] = "pending" THEN "expire_write" ELSE AfterExpire(w)
  <1>1. me[w].pc = "expire_read" /\ Goto(w, p) /\ UNCHANGED <<tables, rest>>
    BY DEF ExpireRead, At, rest
  <1>2. p \in PC
    BY DEF PC, AfterExpire
  <1> HIDE DEF p
  <1>3. MovesTo(w, p)
    BY <1>1, <1>2, GotoIs
  <1> QED
    BY <1>1, <1>3 DEF TypeOK, MovesTo, Becomes, Alone, rest, tables, AfterExpire, p

LEMMA ExpireWriteIs ==
  ASSUME TypeOK, NEW w \in Workers, me[w].item \in Purchases, ExpireWrite(w)
  PROVE  /\ me[w].pc = "expire_write" /\ Marks(me[w].item, "expired")
         /\ MovesTo(w, "expire_purchase")
         /\ UNCHANGED <<runs, purchases, watches, rest>>
         /\ TypeOK'
  <1>1. /\ me[w].pc = "expire_write" /\ Goto(w, "expire_purchase")
        /\ escalations' = [escalations EXCEPT ![me[w].item] = "expired"]
        /\ UNCHANGED <<runs, purchases, watches, rest>>
    BY DEF ExpireWrite, At, rest
  <1>2. Marks(me[w].item, "expired")
    BY <1>1 DEF Marks, TypeOK
  <1>3. MovesTo(w, "expire_purchase")
    BY <1>1, GotoIs DEF PC
  <1> QED
    BY <1>1, <1>2, <1>3 DEF TypeOK, Marks, MovesTo, Becomes, Alone, rest

LEMMA ExpirePurchaseIs ==
  ASSUME TypeOK, NEW w \in Workers, me[w].item \in Purchases, ExpirePurchase(w)
  PROVE  /\ me[w].pc = "expire_purchase" /\ Voids(me[w].item)
         /\ IF lock = w THEN MovesTo(w, "sweeping") ELSE MovesTo(w, "resume_read")
         /\ UNCHANGED <<runs, escalations, watches, rest>>
         /\ TypeOK'
  <1> DEFINE p == AfterExpire(w)
  <1>1. /\ me[w].pc = "expire_purchase" /\ Goto(w, p)
        /\ purchases' = [purchases EXCEPT ![me[w].item].status = "rejected"]
        /\ UNCHANGED <<runs, escalations, watches, rest>>
    BY DEF ExpirePurchase, At, rest
  <1>2. p \in PC
    BY DEF PC, AfterExpire
  <1> HIDE DEF p
  <1>3. MovesTo(w, p)
    BY <1>1, <1>2, GotoIs
  <1>4. Voids(me[w].item)
    BY <1>1, VoidsIs
  <1> QED
    BY <1>1, <1>3, <1>4 DEF TypeOK, Voids, MovesTo, Becomes, Alone, rest, AfterExpire, p

LEMMA ResumeReadIs ==
  ASSUME TypeOK, NEW w \in Workers, me[w].item \in Purchases, ResumeRead(w)
  PROVE  /\ me[w].pc = "resume_read"
         /\ \/ Ends(w)
            \/ \E r \in Runs :
                 /\ r = purchases[me[w].item].by
                 /\ runs[r].status = "awaiting_human" /\ escalations[runs[r].esc] # "pending"
                 /\ Becomes(w, "resume_mark", r,
                            IF purchases[runs[r].esc].status = "captured" THEN "receipt" ELSE "denied",
                            me[w].item, me[w].todo, me[w].watch)
                 /\ HasCopy(w, "awaiting_human", runs[r].search) /\ me'[w].copy.esc = runs[r].esc
         /\ UNCHANGED <<tables, rest>>
         /\ TypeOK'
  <1>1. me[w].pc = "resume_read" /\ UNCHANGED <<tables, rest>>
    BY DEF ResumeRead, At, rest
  <1>2. CASE Return(w)
    <2>1. Ends(w)
      BY <1>2, ReturnIs
    <2> QED
      BY <1>1, <2>1 DEF TypeOK, Ends, Alone, rest, tables
  <1>3. CASE ~Return(w)
    <2>1. PICK r \in Runs : r = purchases[me[w].item].by
      BY <1>3 DEF ResumeRead
    <2> DEFINE n == IF purchases[runs[r].esc].status = "captured" THEN "receipt" ELSE "denied"
               row == runs[r]
    <2>2. /\ runs[r].status = "awaiting_human" /\ escalations[runs[r].esc] # "pending"
          /\ me' = [me EXCEPT ![w].pc = "resume_mark", ![w].run = r, ![w].copy = row, ![w].node = n]
      BY <1>3, <2>1 DEF ResumeRead
    <2>3. n \in Nodes /\ row \in Run
      BY DEF Nodes, TypeOK
    <2>4. row.status = "awaiting_human" /\ row.search = runs[r].search /\ row.esc = runs[r].esc
      BY <2>2
    <2> HIDE DEF n, row
    <2>5. /\ me[w] \in Local
          /\ me'[w] = [me[w] EXCEPT !.pc = "resume_mark", !.run = r, !.copy = row, !.node = n]
          /\ \A x \in Workers : x # w => me'[x] = me[x]
      BY <2>2 DEF TypeOK
    <2>6. /\ me'[w] \in Local /\ me'[w].pc = "resume_mark" /\ me'[w].run = r /\ me'[w].copy = row
          /\ me'[w].node = n /\ me'[w].item = me[w].item /\ me'[w].todo = me[w].todo
          /\ me'[w].watch = me[w].watch
      BY <2>3, <2>5 DEF Local, PC
    <2>7. Alone(w)
      BY <2>2, <2>5, <2>6 DEF Alone, TypeOK
    <2>8. /\ Becomes(w, "resume_mark", r, n, me[w].item, me[w].todo, me[w].watch)
          /\ HasCopy(w, "awaiting_human", runs[r].search) /\ me'[w].copy.esc = runs[r].esc
      BY <2>4, <2>6, <2>7 DEF Becomes, HasCopy
    <2>9. TypeOK'
      BY <1>1, <2>7 DEF TypeOK, Alone, rest, tables
    <2> QED
      BY <1>1, <2>1, <2>2, <2>8, <2>9 DEF n
  <1> QED
    BY <1>2, <1>3

LEMMA ResumeMarkIs ==
  ASSUME TypeOK, NEW w \in Workers, me[w].run \in Runs, ResumeMark(w)
  PROVE  /\ me[w].pc = "resume_mark"
         /\ WritesRow(me[w].run, runs[me[w].run].node, "running", runs[me[w].run].esc,
                      runs[me[w].run].search)
         /\ MovesTo(w, "resume_save") /\ me'[w].copy = me[w].copy
         /\ UNCHANGED <<purchases, escalations, watches, rest>>
         /\ TypeOK'
  <1>0. PICK old \in Run : old = runs[me[w].run]
    BY DEF TypeOK
  <1> DEFINE row == [old EXCEPT !.status = "running"]
  <1>1. /\ me[w].pc = "resume_mark" /\ Goto(w, "resume_save")
        /\ runs' = [runs EXCEPT ![me[w].run].status = "running"]
        /\ UNCHANGED <<purchases, escalations, watches, rest>>
    BY DEF ResumeMark, At, rest
  <1>2. /\ row \in Run /\ row.node = old.node /\ row.status = "running" /\ row.esc = old.esc
        /\ row.search = old.search
    BY DEF Run, RunStatus
  <1>3. runs' = [runs EXCEPT ![me[w].run] = row]
    BY <1>0, <1>1 DEF TypeOK
  <1> HIDE DEF row
  <1>4. WritesRow(me[w].run, old.node, "running", old.esc, old.search)
    BY <1>2, <1>3 DEF WritesRow, TypeOK
  <1>5. MovesTo(w, "resume_save")
    BY <1>1, GotoIs DEF PC
  <1>6. me'[w].copy = me[w].copy
    BY <1>1 DEF Goto, TypeOK, Local
  <1> QED
    BY <1>0, <1>1, <1>4, <1>5, <1>6 DEF TypeOK, WritesRow, MovesTo, Becomes, Alone, rest

LEMMA ResumeSaveIs ==
  ASSUME TypeOK, NEW w \in Workers, me[w].run \in Runs, ResumeSave(w)
  PROVE  /\ me[w].pc = "resume_save"
         /\ WritesRow(me[w].run, "gate", "running", me[w].copy.esc, me[w].copy.search)
         /\ MovesTo(w, "resume_end")
         /\ HasCopy(w, "running", me[w].copy.search)
         /\ UNCHANGED <<purchases, escalations, watches, rest>>
         /\ TypeOK'
  <1> DEFINE row == Saved(w, "gate", "running")
  <1>1. /\ me[w].pc = "resume_save" /\ Save(w, row)
        /\ me' = [me EXCEPT ![w].pc = "resume_end", ![w].copy = row]
        /\ UNCHANGED <<purchases, escalations, watches, rest>>
    BY DEF ResumeSave, At, rest
  <1>2. /\ row \in Run /\ row.node = "gate" /\ row.status = "running"
        /\ row.esc = me[w].copy.esc /\ row.search = me[w].copy.search
    BY SavedIs DEF Nodes, RunStatus
  <1> HIDE DEF row
  <1>3. WritesRow(me[w].run, "gate", "running", me[w].copy.esc, me[w].copy.search)
    BY <1>1, <1>2, SaveIs DEF WritesRow
  <1>4. MovesTo(w, "resume_end") /\ HasCopy(w, "running", me[w].copy.search)
    <2>1. /\ me[w] \in Local
          /\ me'[w] = [me[w] EXCEPT !.pc = "resume_end", !.copy = row]
          /\ \A x \in Workers : x # w => me'[x] = me[x]
      BY <1>1 DEF TypeOK
    <2>2. me'[w] \in Local /\ me'[w].copy = row
      BY <1>2, <2>1 DEF Local, PC
    <2> QED
      BY <1>1, <1>2, <2>1, <2>2 DEF MovesTo, Becomes, HasCopy, Alone, TypeOK, Local
  <1> QED
    BY <1>1, <1>3, <1>4 DEF TypeOK, WritesRow, MovesTo, Becomes, Alone, rest

LEMMA ResumeEndIs ==
  ASSUME TypeOK, NEW w \in Workers, me[w].run \in Runs, ResumeEnd(w)
  PROVE  /\ me[w].pc = "resume_end"
         /\ WritesRow(me[w].run, me[w].node, IF me[w].node = "denied" THEN "denied" ELSE "running",
                      me[w].copy.esc, me[w].copy.search)
         /\ Ends(w)
         /\ UNCHANGED <<purchases, escalations, watches, rest>>
         /\ TypeOK'
  <1> DEFINE s == IF me[w].node = "denied" THEN "denied" ELSE "running"
  <1>1. /\ me[w].pc = "resume_end" /\ Save(w, Saved(w, me[w].node, s)) /\ Return(w)
        /\ UNCHANGED <<purchases, escalations, watches, rest>>
    BY DEF ResumeEnd, At, rest
  <1>2. me[w].node \in Nodes /\ s \in RunStatus
    BY DEF TypeOK, Local, RunStatus
  <1> HIDE DEF s
  <1>3. WritesRow(me[w].run, me[w].node, s, me[w].copy.esc, me[w].copy.search) /\ Ends(w)
    BY <1>1, <1>2, SaveReturnIs
  <1> QED
    BY <1>1, <1>3 DEF TypeOK, WritesRow, Ends, Alone, rest, s

----------------------------------------------------------------------------
(* The same for the tick *)

LEMMA TickIs ==
  ASSUME TypeOK, NEW w \in Workers, Tick(w)
  PROVE  /\ me[w].pc = "idle" /\ lock = None /\ lock' = w
         /\ \E t \in SUBSET overdue :
              Becomes(w, "sweeping", me[w].run, me[w].node, me[w].item, t, me[w].watch)
         /\ UNCHANGED <<tables, overdue, due, deaths, crossed>>
         /\ TypeOK'
  <1> DEFINE t == {u \in overdue : escalations[u] = "pending"}
  <1>1. /\ me[w].pc = "idle" /\ lock = None /\ lock' = w /\ UNCHANGED <<tables, overdue, due, deaths, crossed>>
        /\ me' = [me EXCEPT ![w].pc = "sweeping", ![w].todo = t]
    BY DEF Tick, At
  <1>2. t \subseteq overdue /\ t \subseteq Purchases \cup Watches
    BY DEF TypeOK
  <1> HIDE DEF t
  <1>3. Becomes(w, "sweeping", me[w].run, me[w].node, me[w].item, t, me[w].watch)
    <2>1. /\ me[w] \in Local
          /\ me'[w] = [me[w] EXCEPT !.pc = "sweeping", !.todo = t]
          /\ \A x \in Workers : x # w => me'[x] = me[x]
      BY <1>1 DEF TypeOK
    <2>2. me'[w] \in Local
      BY <1>2, <2>1 DEF Local, PC
    <2> QED
      BY <1>1, <2>1, <2>2 DEF Becomes, Alone, TypeOK, Local
  <1> QED
    BY <1>1, <1>2, <1>3 DEF TypeOK, Becomes, Alone, tables

LEMMA SweepOneIs ==
  ASSUME TypeOK, NEW w \in Workers, SweepOne(w), me[w].todo \subseteq Purchases
  PROVE  /\ me[w].pc = "sweeping"
         /\ \E u \in me[w].todo :
              Becomes(w, "expire_read", me[w].run, me[w].node, u, me[w].todo \ {u}, me[w].watch)
         /\ UNCHANGED <<tables, rest>>
         /\ TypeOK'
  <1>1. /\ me[w].pc = "sweeping" /\ UNCHANGED <<tables, rest>>
    BY DEF SweepOne, At, rest
  <1>2. PICK u \in me[w].todo :
          me' = [me EXCEPT ![w].pc = "expire_read", ![w].item = u, ![w].todo = @ \ {u}]
    BY DEF SweepOne
  <1> DEFINE t == me[w].todo \ {u}
  <1>3. /\ me[w] \in Local
        /\ me'[w] = [me[w] EXCEPT !.pc = "expire_read", !.item = u, !.todo = t]
        /\ \A x \in Workers : x # w => me'[x] = me[x]
    BY <1>2 DEF TypeOK, Local
  <1>4. t \in SUBSET (Purchases \cup Watches) /\ u \in Purchases
    BY <1>3 DEF Local
  <1> HIDE DEF t
  <1>5. /\ me'[w] \in Local /\ me'[w].pc = "expire_read" /\ me'[w].run = me[w].run
        /\ me'[w].node = me[w].node /\ me'[w].item = u /\ me'[w].todo = t
        /\ me'[w].watch = me[w].watch
    BY <1>3, <1>4 DEF Local, PC
  <1>6. Becomes(w, "expire_read", me[w].run, me[w].node, u, t, me[w].watch)
    BY <1>2, <1>3, <1>5 DEF Becomes, Alone, TypeOK
  <1> QED
    BY <1>1, <1>6 DEF TypeOK, Becomes, Alone, rest, tables, t

LEMMA ClaimIs ==
  ASSUME TypeOK, NEW w \in Workers, Claim(w)
  PROVE  /\ me[w].pc = "sweeping" /\ due' \subseteq due
         /\ \E t \in SUBSET Watches :
              Becomes(w, "watching", me[w].run, me[w].node, 0, t, me[w].watch)
         /\ UNCHANGED <<tables, overdue, lock, deaths, crossed>>
         /\ TypeOK'
  <1> DEFINE t == {v \in due : watches[v] = "active"}
  <1>1. /\ me[w].pc = "sweeping" /\ UNCHANGED <<tables, overdue, lock, deaths, crossed>>
        /\ due' = due \ t
        /\ me' = [me EXCEPT ![w].pc = "watching", ![w].todo = t, ![w].item = 0]
    BY DEF Claim, At
  <1>2. t \subseteq Watches /\ t \in SUBSET (Purchases \cup Watches)
    BY DEF TypeOK
  <1> HIDE DEF t
  <1>3. /\ me[w] \in Local
        /\ me'[w] = [me[w] EXCEPT !.pc = "watching", !.todo = t, !.item = 0]
        /\ \A x \in Workers : x # w => me'[x] = me[x]
    BY <1>1 DEF TypeOK
  <1>4. /\ me'[w] \in Local /\ me'[w].pc = "watching" /\ me'[w].run = me[w].run
        /\ me'[w].node = me[w].node /\ me'[w].item = 0 /\ me'[w].todo = t
        /\ me'[w].watch = me[w].watch
    BY <1>2, <1>3 DEF Local, PC
  <1>5. Becomes(w, "watching", me[w].run, me[w].node, 0, t, me[w].watch)
    BY <1>1, <1>3, <1>4 DEF Becomes, Alone, TypeOK
  <1>6. due' \subseteq due /\ due \subseteq Watches
    BY <1>1 DEF TypeOK
  <1> QED
    BY <1>1, <1>2, <1>5, <1>6 DEF TypeOK, Becomes, Alone, tables

LEMMA PassIs ==
  ASSUME TypeOK, NEW w \in Workers, Pass(w)
  PROVE  /\ me[w].pc = "watching" /\ due' \subseteq due
         /\ \E t \in SUBSET me[w].todo :
              Becomes(w, "watching", me[w].run, me[w].node, me[w].item, t, me[w].watch)
         /\ UNCHANGED <<tables, overdue, lock, deaths, crossed>>
         /\ TypeOK'
  <1>1. /\ me[w].pc = "watching" /\ UNCHANGED <<tables, overdue, lock, deaths, crossed>>
    BY DEF Pass, At
  <1>2. PICK v \in me[w].todo :
          /\ me' = [me EXCEPT ![w].todo = @ \ {v}]
          /\ due' = IF watches[v] = "active" THEN due \ {v} ELSE due
    BY DEF Pass
  <1> DEFINE t == me[w].todo \ {v}
  <1>3. /\ me[w] \in Local
        /\ me'[w] = [me[w] EXCEPT !.todo = t]
        /\ \A x \in Workers : x # w => me'[x] = me[x]
    BY <1>2 DEF TypeOK, Local
  <1>4. t \in SUBSET me[w].todo /\ t \in SUBSET (Purchases \cup Watches)
    BY <1>3 DEF Local
  <1> HIDE DEF t
  <1>5. /\ me'[w] \in Local /\ me'[w].pc = "watching" /\ me'[w].run = me[w].run
        /\ me'[w].node = me[w].node /\ me'[w].item = me[w].item /\ me'[w].todo = t
        /\ me'[w].watch = me[w].watch
    BY <1>1, <1>3, <1>4 DEF Local
  <1>6. Becomes(w, "watching", me[w].run, me[w].node, me[w].item, t, me[w].watch)
    BY <1>2, <1>3, <1>5 DEF Becomes, Alone, TypeOK
  <1>7. due' \subseteq due /\ due \subseteq Watches
    BY <1>2 DEF TypeOK
  <1> QED
    BY <1>1, <1>4, <1>6, <1>7 DEF TypeOK, Becomes, Alone, tables

LEMMA MatchIs ==
  ASSUME TypeOK, NEW w \in Workers, Match(w), me[w].todo \subseteq Watches
  PROVE  /\ me[w].pc = "watching" /\ due' \subseteq due
         /\ \E v \in Watches, t \in SUBSET me[w].todo, p \in {"fire", "fired"} :
              /\ watches[v] = "active"
              /\ Becomes(w, p, me[w].run, me[w].node, me[w].item, t, v)
         /\ UNCHANGED <<tables, overdue, lock, deaths, crossed>>
         /\ TypeOK'
  <1>1. /\ me[w].pc = "watching" /\ UNCHANGED <<tables, overdue, lock, deaths, crossed>>
    BY DEF Match, At
  <1>2. PICK v \in me[w].todo :
          /\ watches[v] = "active"
          /\ me' = [me EXCEPT ![w].pc = IF v \in Autobuy THEN "fire" ELSE "fired",
                              ![w].watch = v, ![w].todo = @ \ {v}]
          /\ due' = due \ {v}
    BY DEF Match
  <1> DEFINE t == me[w].todo \ {v}
             p == IF v \in Autobuy THEN "fire" ELSE "fired"
  <1>3. /\ me[w] \in Local
        /\ me'[w] = [me[w] EXCEPT !.pc = p, !.watch = v, !.todo = t]
        /\ \A x \in Workers : x # w => me'[x] = me[x]
    BY <1>2 DEF TypeOK, Local
  <1>4. /\ t \in SUBSET me[w].todo /\ t \in SUBSET (Purchases \cup Watches)
        /\ p \in {"fire", "fired"} /\ v \in Watches
    BY <1>3 DEF Local
  <1> HIDE DEF t, p
  <1>5. /\ me'[w] \in Local /\ me'[w].pc = p /\ me'[w].run = me[w].run
        /\ me'[w].node = me[w].node /\ me'[w].item = me[w].item /\ me'[w].todo = t
        /\ me'[w].watch = v
    BY <1>3, <1>4 DEF Local, PC
  <1>6. Becomes(w, p, me[w].run, me[w].node, me[w].item, t, v)
    BY <1>2, <1>3, <1>5 DEF Becomes, Alone, TypeOK
  <1>7. due' \subseteq due /\ due \subseteq Watches
    BY <1>2 DEF TypeOK
  <1>8. TypeOK'
    BY <1>1, <1>6, <1>7 DEF TypeOK, Becomes, Alone, tables
  <1> QED
    BY <1>1, <1>2, <1>4, <1>6, <1>7, <1>8

LEMMA FireIs ==
  ASSUME TypeOK, NEW w \in Workers, me[w].watch \in Watches, NEW outcome \in Outcomes,
         Fire(w, outcome)
  PROVE  /\ me[w].pc = "fire"
         /\ Submit(me[w].watch, 0, outcome)
         /\ \/ outcome = "raised" /\ Ends(w) /\ lock' = None
            \/ /\ outcome \in Fires /\ lock' = lock
               /\ Becomes(w, "fired", me[w].run, me[w].node, me[w].item, me[w].todo, me[w].watch)
            \/ /\ outcome \notin Fires /\ lock' = lock
               /\ Becomes(w, "watching", me[w].run, me[w].node, me[w].item, me[w].todo, None)
         /\ UNCHANGED <<runs, watches, overdue, due, deaths, crossed>>
         /\ TypeOK'
  <1>1. /\ me[w].pc = "fire" /\ Submit(me[w].watch, 0, outcome)
        /\ UNCHANGED <<runs, watches, overdue, due, deaths, crossed>>
    BY DEF Fire, At
  <1>2. /\ purchases' \in [Purchases -> Purchase]
        /\ escalations' \in [Purchases -> {"none", "pending", "approved", "rejected", "expired"}]
    <2>1. me[w].watch \in Runs \cup Watches \cup {None} /\ 0 \in Purchases \cup {0}
      OBVIOUS
    <2> QED
      BY <1>1, <2>1, SubmitIs
  <1>3. CASE outcome = "raised"
    <2>1. Ends(w) /\ lock' = None
      BY <1>3, ReturnIs DEF Fire
    <2> QED
      BY <1>1, <1>2, <1>3, <2>1 DEF TypeOK, Ends, Alone
  <1>4. CASE outcome # "raised"
    <2> DEFINE p == IF outcome \in Fires THEN "fired" ELSE "watching"
               v == IF outcome \in Fires THEN me[w].watch ELSE None
    <2>1. lock' = lock /\ me' = [me EXCEPT ![w].pc = p, ![w].watch = v]
      BY <1>4 DEF Fire
    <2>2. p \in PC /\ v \in Watches \cup {None}
      BY DEF PC
    <2> HIDE DEF p, v
    <2>3. Becomes(w, p, me[w].run, me[w].node, me[w].item, me[w].todo, v)
      BY <2>1, <2>2, ZenonT(40) DEF Becomes, Alone, TypeOK, Local
    <2>4. TypeOK'
      BY <1>1, <1>2, <2>1, <2>3 DEF TypeOK, Becomes, Alone
    <2> QED
      BY <1>1, <1>4, <2>1, <2>3, <2>4 DEF p, v
  <1> QED
    BY <1>3, <1>4

LEMMA FiredIs ==
  ASSUME TypeOK, NEW w \in Workers, me[w].watch \in Watches, Fired(w)
  PROVE  /\ me[w].pc = "fired"
         /\ watches' \in [Watches -> {"active", "fired", "cancelled"}]
         /\ watches'[me[w].watch] = "fired"
         /\ \A v \in Watches : v # me[w].watch => watches'[v] = watches[v]
         /\ Becomes(w, "watching", me[w].run, me[w].node, me[w].item, me[w].todo, None)
         /\ UNCHANGED <<runs, purchases, escalations, rest>>
         /\ TypeOK'
  <1>1. /\ me[w].pc = "fired" /\ UNCHANGED <<runs, purchases, escalations, rest>>
        /\ watches' = [watches EXCEPT ![me[w].watch] = "fired"]
        /\ me' = [me EXCEPT ![w].pc = "watching", ![w].watch = None]
    BY DEF Fired, At, rest
  <1>2. Becomes(w, "watching", me[w].run, me[w].node, me[w].item, me[w].todo, None)
    <2>1. /\ me[w] \in Local
          /\ me'[w] = [me[w] EXCEPT !.pc = "watching", !.watch = None]
          /\ \A x \in Workers : x # w => me'[x] = me[x]
      BY <1>1 DEF TypeOK
    <2>2. me'[w] \in Local
      BY <2>1 DEF Local, PC
    <2> QED
      BY <1>1, <2>1, <2>2 DEF Becomes, Alone, TypeOK, Local
  <1>3. /\ watches' \in [Watches -> {"active", "fired", "cancelled"}]
        /\ watches'[me[w].watch] = "fired"
        /\ \A v \in Watches : v # me[w].watch => watches'[v] = watches[v]
    BY <1>1 DEF TypeOK
  <1> QED
    BY <1>1, <1>2, <1>3 DEF TypeOK, Becomes, Alone, rest

(* The tick ends, or the process does. *)
LEMMA UnlockIs ==
  ASSUME TypeOK, NEW w \in Workers, Unlock(w)
  PROVE  /\ me[w].pc = "watching" /\ Ends(w) /\ lock' = None
         /\ UNCHANGED <<tables, overdue, due, deaths, crossed>>
         /\ TypeOK'
  <1>1. /\ me[w].pc = "watching" /\ lock' = None /\ Return(w)
        /\ UNCHANGED <<tables, overdue, due, deaths, crossed>>
    BY DEF Unlock, At
  <1>2. Ends(w)
    BY <1>1, ReturnIs
  <1> QED
    BY <1>1, <1>2 DEF TypeOK, Ends, Alone, tables

LEMMA DieIs ==
  ASSUME TypeOK, NEW w \in Workers, Die(w)
  PROVE  /\ me[w].pc # "idle" /\ Ends(w) /\ lock' = (IF lock = w THEN None ELSE lock)
         /\ deaths' = deaths + 1
         /\ UNCHANGED <<tables, overdue, due, crossed>>
         /\ TypeOK'
  <1>1. /\ me[w].pc # "idle" /\ lock' = (IF lock = w THEN None ELSE lock) /\ Return(w)
        /\ deaths' = deaths + 1 /\ UNCHANGED <<tables, overdue, due, crossed>>
    BY DEF Die, At, Freed
  <1>2. Ends(w)
    BY <1>1, ReturnIs
  <1>3. deaths' \in Nat
    BY <1>1 DEF TypeOK
  <1> QED
    BY <1>1, <1>2, <1>3 DEF TypeOK, Ends, Alone, tables

LEMMA ElapseIs ==
  ASSUME TypeOK, NEW u \in Purchases, Elapse(u)
  PROVE  /\ escalations[u] = "pending" /\ overdue' = overdue \cup {u}
         /\ u \notin crossed' => Unanswered(u)
         /\ crossed \subseteq crossed'
         /\ UNCHANGED <<tables, due, lock, me, deaths>>
         /\ TypeOK'
  BY DEF Elapse, At, Cross, TypeOK, tables

(* Steps of the clock and the buyer that touch watches only. *)
LEMMA WatchStepIs ==
  ASSUME TypeOK, NEW v \in Watches, ComeDue(v) \/ Cancel(v)
  PROVE  /\ watches' = watches \/ watches' = [watches EXCEPT ![v] = "cancelled"]
         /\ UNCHANGED <<runs, purchases, escalations, overdue, lock, me, deaths, crossed>>
         /\ TypeOK'
  BY DEF ComeDue, Cancel, TypeOK, tables

----------------------------------------------------------------------------
(* The answers: what a step of one worker leaves to the others *)

(* The lock stays, is taken or is given back by the worker. *)
LockMoves(w) ==
  \/ lock' = lock
  \/ lock = None /\ lock' = w
  \/ lock = w /\ lock' = None

LEMMA OthersLocals ==
  ASSUME \A x \in Workers : Locals(x), NEW w \in Workers, Alone(w), LockMoves(w),
         \A u \in Purchases : escalations[u] # "none" => escalations'[u] # "none",
         overdue' = overdue
  PROVE  \A x \in Workers : x # w => Locals(x)'
  <1> SUFFICES ASSUME NEW x \in Workers, x # w
               PROVE  Locals(x)'
    OBVIOUS
  <1>1. me'[x] = me[x] /\ Locals(x)
    BY DEF Alone
  <1>2. (lock' = x) <=> (lock = x)
    BY RunAssumption DEF LockMoves
  <1> QED
    BY <1>1, <1>2 DEF Locals

(* Where an effect reaches a worker that handles an escalation. *)
OneDecidesAfter(w) ==
  me'[w].pc \in Deciding =>
    \A x \in Workers : x # w /\ me[x].pc \in Deciding =>
      me[x].item # me'[w].item \/ me[x].item \in crossed'

LEMMA OneDecidesStep ==
  ASSUME AnswerInv, NEW w \in Workers, Alone(w), OneDecidesAfter(w), crossed \subseteq crossed'
  PROVE  OneDecides'
  BY DEF AnswerInv, OneDecides, OneDecidesAfter, Alone

LEMMA AnswerInvFrom ==
  ASSUME AnswerInv, NEW w \in Workers, Alone(w), TypeOK', LockMoves(w), OneDecidesAfter(w),
         \A u \in Purchases : escalations[u] # "none" => escalations'[u] # "none",
         overdue' = overdue, crossed \subseteq crossed',
         Locals(w)', Answers(w)',
         \A x \in Workers : x # w => Answers(x)',
         \A u \in Purchases : Questions(u)'
  PROVE  AnswerInv'
  <1>1. \A x \in Workers : Locals(x)'
    BY OthersLocals DEF AnswerInv
  <1>2. OneDecides'
    BY OneDecidesStep
  <1> QED
    BY <1>1, <1>2 DEF AnswerInv

(* A step that leaves purchases and escalations alone. *)
LEMMA QuietStep ==
  ASSUME AnswerInv, NEW w \in Workers, Alone(w), TypeOK', LockMoves(w), OneDecidesAfter(w),
         UNCHANGED <<purchases, escalations, overdue>>, crossed \subseteq crossed',
         Locals(w)', Answers(w)'
  PROVE  AnswerInv'
  <1>1. \A u \in Purchases : RetriesOf(u)' = RetriesOf(u)
    BY DEF RetriesOf
  <1>2. \A u \in Purchases : Questions(u)'
    BY <1>1 DEF Questions, AnswerInv
  <1>3. ASSUME NEW x \in Workers, x # w
        PROVE  Answers(x)'
    <2>1. Answers(x) /\ me'[x] = me[x]
      BY <1>3 DEF Alone, AnswerInv
    <2> QED
      BY <2>1, <1>1 DEF Answers, RetriesOf
  <1> QED
    BY <1>2, <1>3, AnswerInvFrom

(* A step that calls submit_purchase. *)
LEMMA SubmitStep ==
  ASSUME AnswerInv, NEW w \in Workers, Alone(w), TypeOK', LockMoves(w),
         NEW by \in Runs \cup Watches \cup {None}, NEW retries \in Purchases \cup {0},
         NEW outcome \in Outcomes, Submit(by, retries, outcome),
         retries = 0 \/ (me[w].pc = "retry" /\ retries = me[w].item),
         me'[w].pc \notin Deciding, overdue' = overdue, crossed' = crossed,
         Locals(w)', Answers(w)'
  PROVE  AnswerInv'
  <1>0. OneDecidesAfter(w) /\ TypeOK
    BY DEF OneDecidesAfter, AnswerInv
  <1>1. CASE UNCHANGED <<purchases, escalations>>
    BY <1>0, <1>1, QuietStep
  <1>2. CASE Records(Fresh, by, retries, outcome)
    <2>0. PICK f \in Purchases : f = Fresh
      BY <1>2 DEF Records
    <2>1. Records(f, by, retries, outcome) /\ f # 0 /\ 0 \notin Purchases
      BY <1>2, <2>0, RunAssumption
    <2>2. /\ escalations[f] = "none" /\ f \notin overdue
          /\ f \notin crossed => RetriesOf(f) = {}
      <3>1. Questions(f) /\ purchases[f].status = "none"
        BY <2>1 DEF AnswerInv, Records
      <3> QED
        BY <3>1 DEF Questions
    <2>3. retries # f
      <3>1. CASE retries = 0
        BY <3>1, <2>1
      <3>2. CASE me[w].pc = "retry" /\ retries = me[w].item
        BY <3>2, <2>2 DEF AnswerInv, Locals, Deciding
      <3> QED
        BY <3>1, <3>2
    <2>4. \A u \in Purchases : /\ RetriesOf(u)' \subseteq RetriesOf(u) \cup {f}
                               /\ u # retries => RetriesOf(u)' \subseteq RetriesOf(u)
      BY <2>1 DEF RetriesOf, Records
    <2>5. \A u \in Purchases : u # f => /\ escalations'[u] = escalations[u]
                                        /\ purchases'[u] = purchases[u]
      BY <2>1 DEF Records
    <2>6. retries \in Purchases /\ retries \notin crossed =>
            RetriesOf(retries) = {} /\ escalations[retries] = "approved"
      BY <2>1 DEF AnswerInv, Answers
    <2>7. ASSUME NEW u \in Purchases
          PROVE  Questions(u)'
      <3>1. Questions(u)
        BY DEF AnswerInv
      <3>2. CASE u = f
        <4>1. /\ escalations'[f] # "none" => purchases'[f].status = "awaiting_escalation"
          BY <2>1, <2>2 DEF Records
        <4>2. f \notin crossed' => RetriesOf(f)' = {}
          BY <2>2, <2>3, <2>4
        <4> QED
          BY <3>2, <4>1, <4>2, <2>2 DEF Questions
      <3>3. CASE u # f /\ u = retries
        <4>1. u \notin crossed' => RetriesOf(u)' \subseteq {f} /\ escalations'[u] = "approved"
          BY <3>3, <2>4, <2>5, <2>6
        <4> QED
          BY <3>1, <3>3, <4>1, <2>5 DEF Questions
      <3>4. CASE u # f /\ u # retries
        BY <3>1, <3>4, <2>4, <2>5 DEF Questions
      <3> QED
        BY <3>2, <3>3, <3>4
    <2>8. ASSUME NEW x \in Workers, x # w
          PROVE  Answers(x)'
      <3>1. me'[x] = me[x] /\ Answers(x) /\ Locals(x)
        BY <2>8 DEF Alone, AnswerInv
      <3>2. CASE me[x].pc \in Deciding \cup Expiring
        <4>1. me[x].item \in Purchases /\ me[x].item # f
          BY <3>1, <3>2, <2>2 DEF Locals
        <4>2. me[x].pc = "retry" => me[x].item # retries \/ me[x].item \in crossed
          <5>1. CASE retries = 0
            BY <5>1, <4>1, <2>1
          <5>2. CASE me[w].pc = "retry" /\ retries = me[w].item
            BY <5>2, <2>8 DEF AnswerInv, OneDecides, Deciding
          <5> QED
            BY <5>1, <5>2
        <4> QED
          BY <3>1, <4>1, <4>2, <2>4, <2>5 DEF Answers
      <3>3. CASE me[x].pc \notin Deciding \cup Expiring
        BY <3>1, <3>3 DEF Answers, Deciding, Expiring
      <3> QED
        BY <3>2, <3>3
    <2>9. \A u \in Purchases : escalations[u] # "none" => escalations'[u] # "none"
      BY <2>2, <2>5
    <2> QED
      BY <1>0, <2>7, <2>8, <2>9, AnswerInvFrom
  <1> QED
    BY <1>0, <1>1, <1>2, SubmitIs

(* A step that writes the answer into an escalation. *)
LEMMA MarkStep ==
  ASSUME AnswerInv, NEW w \in Workers, NEW p \in PC, MovesTo(w, p), TypeOK', lock' = lock,
         NEW e \in {"approved", "rejected", "expired"}, Marks(me[w].item, e),
         \/ me[w].pc = "resolve_write" /\ e # "expired" /\ p \in Deciding
         \/ me[w].pc = "expire_write" /\ e = "expired" /\ p \notin Deciding,
         purchases' = purchases, overdue' = overdue, crossed' = crossed,
         Locals(w)', Answers(w)'
  PROVE  AnswerInv'
  <1> DEFINE i == me[w].item
  <1>1. /\ i \in Purchases /\ escalations[i] # "none"
        /\ i \notin crossed => escalations[i] \in {"pending", "expired"}
        /\ i \notin crossed /\ me[w].pc = "resolve_write" =>
             escalations[i] = "pending" /\ i \notin overdue
        /\ me[w].pc = "expire_write" => i \in overdue
    BY DEF AnswerInv, Locals, Answers, Deciding, Expiring
  <1>2. Alone(w) /\ me'[w].pc = p /\ me'[w].item = i
    BY DEF MovesTo, Becomes
  <1>3. OneDecidesAfter(w)
    BY <1>2 DEF OneDecidesAfter, AnswerInv, OneDecides, Deciding
  <1>4. \A u \in Purchases : RetriesOf(u)' = RetriesOf(u)
    BY DEF RetriesOf
  <1>5. \A u \in Purchases : escalations[u] # "none" => escalations'[u] # "none"
    BY DEF Marks
  <1>6. ASSUME NEW u \in Purchases
        PROVE  Questions(u)'
    <2>1. Questions(u)
      BY DEF AnswerInv
    <2>2. CASE u = i
      BY <1>1, <1>4, <2>1, <2>2 DEF Questions, Marks
    <2>3. CASE u # i
      BY <1>4, <2>1, <2>3 DEF Questions, Marks
    <2> QED
      BY <2>2, <2>3
  <1>7. ASSUME NEW x \in Workers, x # w
        PROVE  Answers(x)'
    <2>1. me'[x] = me[x] /\ Answers(x) /\ Locals(x)
      BY <1>2, <1>7 DEF Alone, AnswerInv
    <2>0. CASE me[x].item \in crossed
      BY <2>0, <2>1 DEF Answers
    <2>2. CASE me[x].pc \in Deciding \cup Expiring /\ me[x].item # i
      <3>1. me[x].item \in Purchases
        BY <2>1, <2>2 DEF Locals
      <3> QED
        BY <2>1, <2>2, <3>1, <1>4 DEF Answers, Marks
    <2>3. CASE me[x].pc \in Deciding /\ me[x].item = i /\ i \notin crossed
      <3>1. me[w].pc # "resolve_write"
        BY <2>3, <1>7 DEF AnswerInv, OneDecides, Deciding
      <3>2. me[x].pc # "resolve_write"
        BY <3>1, <1>1, <2>1, <2>3 DEF Answers
      <3>3. FALSE
        BY <3>1, <3>2, <1>1, <2>1, <2>3 DEF Answers, Deciding
      <3> QED
        BY <3>3
    <2>4. CASE me[x].pc \in Expiring /\ me[x].item = i /\ i \notin crossed
      <3>1. CASE me[w].pc = "resolve_write"
        BY <3>1, <2>1, <2>4, <1>1 DEF Locals
      <3>2. CASE me[w].pc = "expire_write"
        <4>1. escalations'[i] = "expired"
          BY <3>2 DEF Marks
        <4> QED
          BY <4>1, <2>1, <2>4 DEF Answers, Expiring
      <3> QED
        BY <3>1, <3>2
    <2>5. CASE me[x].pc \notin Deciding \cup Expiring
      BY <2>1, <2>5 DEF Answers, Deciding, Expiring
    <2> QED
      BY <2>0, <2>2, <2>3, <2>4, <2>5
  <1> QED
    BY <1>2, <1>3, <1>5, <1>6, <1>7, AnswerInvFrom DEF LockMoves

(* A step that voids the purchase of an escalation. *)
LEMMA VoidStep ==
  ASSUME AnswerInv, NEW w \in Workers, NEW p \in PC, MovesTo(w, p), TypeOK', lock' = lock,
         me[w].item \in Purchases, Voids(me[w].item), p \notin Deciding,
         escalations' = escalations, overdue' = overdue, crossed' = crossed,
         Locals(w)', Answers(w)'
  PROVE  AnswerInv'
  <1>1. Alone(w) /\ me'[w].pc = p
    BY DEF MovesTo, Becomes
  <1>2. OneDecidesAfter(w)
    BY <1>1 DEF OneDecidesAfter
  <1>3. \A u \in Purchases : purchases'[u].retries = purchases[u].retries
    BY DEF Voids
  <1>4. \A u : RetriesOf(u)' = RetriesOf(u)
    BY <1>3 DEF RetriesOf
  <1>5. \A u \in Purchases : Questions(u)'
    BY <1>4 DEF Questions, AnswerInv, Voids
  <1>6. ASSUME NEW x \in Workers, x # w
        PROVE  Answers(x)'
    <2>1. me'[x] = me[x] /\ Answers(x)
      BY <1>1, <1>6 DEF Alone, AnswerInv
    <2> QED
      BY <1>4, <2>1 DEF Answers
  <1> QED
    BY <1>1, <1>2, <1>5, <1>6, AnswerInvFrom DEF LockMoves

----------------------------------------------------------------------------
(* The answers: each action *)

LEMMA LoopOwn ==
  ASSUME NEW w \in Workers, me'[w].pc \in Looping, me'[w].run # None, lock' # w
  PROVE  Locals(w)' /\ Answers(w)' /\ OneDecidesAfter(w)
  BY DEF Locals, Answers, OneDecidesAfter, Looping, OnRun, Deciding, Expiring, Resuming, Ticking

LEMMA EndsOwn ==
  ASSUME NEW w \in Workers, Ends(w), lock' # w
  PROVE  Locals(w)' /\ Answers(w)' /\ OneDecidesAfter(w) /\ me'[w].pc \notin Deciding
  BY IdleIs DEF Ends, Locals, Answers, OneDecidesAfter, OnRun, Deciding, Expiring, Resuming, Ticking

(* Where a worker stands decides whether it has a run or the lock. *)
LEMMA Stands ==
  ASSUME AnswerInv, NEW w \in Workers
  PROVE  /\ TypeOK /\ Locals(w) /\ Answers(w)
         /\ me[w].pc \in OnRun => me[w].run \in Runs
         /\ me[w].pc \notin OnRun => me[w].run = None
         /\ me[w].pc \notin Ticking \cup Expiring => lock # w
         /\ me[w].pc \in Ticking => lock = w
  BY DEF AnswerInv, TypeOK, Locals, Local

(* A worker in the loop that goes on or ends there. *)
LEMMA LoopQuiet ==
  ASSUME AnswerInv, NEW w \in Workers, TypeOK', me[w].pc \notin Ticking \cup Expiring,
         UNCHANGED <<purchases, escalations, overdue, lock>>, crossed \subseteq crossed',
         \/ Alone(w) /\ me'[w].pc \in Looping /\ me'[w].run # None
         \/ Ends(w)
  PROVE  AnswerInv'
  <1>1. lock' # w
    BY Stands
  <1>2. CASE Alone(w) /\ me'[w].pc \in Looping /\ me'[w].run # None
    BY <1>1, <1>2, LoopOwn, QuietStep DEF LockMoves
  <1>3. CASE Ends(w)
    BY <1>1, <1>3, EndsOwn, QuietStep DEF LockMoves, Ends
  <1> QED
    BY <1>2, <1>3

(* The steps of the loop change no purchase: the worker goes on or ends.    *)
LEMMA LoopActions ==
  ASSUME TypeOK, NEW w \in Workers, me[w].run \in Runs,
         \/ GuideWrite(w) \/ (\E next \in Nodes : Think(w, next)) \/ Gate(w)
         \/ Park(w) \/ Receipt(w) \/ Finish(w) \/ Fail(w) \/ Throttle(w)
  PROVE  /\ TypeOK' /\ me[w].pc \in {"guide", "loop"}
         /\ UNCHANGED <<purchases, escalations, watches, overdue, lock, deaths, crossed>>
         /\ \/ Alone(w) /\ me'[w].pc \in Looping /\ me'[w].run # None
            \/ Ends(w)
  <1>1. me[w].run # None
    BY RunAssumption
  <1>2. CASE GuideWrite(w)
    BY <1>1, <1>2, GuideWriteIs DEF Becomes, Looping, rest
  <1>3. CASE \E next \in Nodes : Think(w, next)
    BY <1>1, <1>3, ThinkIs DEF Becomes, Looping, rest
  <1>4. CASE Gate(w)
    BY <1>1, <1>4, GateIs DEF MovesTo, Becomes, Looping, rest
  <1>5. CASE Park(w)
    BY <1>5, ParkIs DEF rest
  <1>6. CASE Receipt(w)
    BY <1>1, <1>6, ReceiptIs DEF Becomes, Looping, rest
  <1>7. CASE Finish(w)
    BY <1>7, FinishIs DEF rest
  <1>8. CASE Fail(w) \/ Throttle(w)
    BY <1>8, GiveUpIs DEF rest
  <1> QED
    BY <1>2, <1>3, <1>4, <1>5, <1>6, <1>7, <1>8

LEMMA AnswersOnRun ==
  ASSUME AnswerInv, NEW w \in Workers,
         \/ GuideWrite(w) \/ (\E next \in Nodes : Think(w, next)) \/ Gate(w)
         \/ Park(w) \/ Receipt(w) \/ Finish(w) \/ Fail(w) \/ Throttle(w)
  PROVE  AnswerInv'
  <1>1. TypeOK /\ me[w].run \in Runs
    <2>1. me[w].pc \in OnRun
      BY DEF GuideWrite, Think, Gate, Park, Receipt, Finish, Fail, Throttle, At, OnRun
    <2> QED
      BY <2>1, Stands
  <1>2. /\ TypeOK' /\ me[w].pc \in {"guide", "loop"}
        /\ UNCHANGED <<purchases, escalations, overdue, lock, crossed>>
        /\ \/ Alone(w) /\ me'[w].pc \in Looping /\ me'[w].run # None
           \/ Ends(w)
    BY <1>1, LoopActions
  <1> QED
    BY <1>2, LoopQuiet DEF Ticking, Expiring

LEMMA AnswersStart ==
  ASSUME AnswerInv, NEW w \in Workers, NEW r \in Runs,
         Guide(w, r) \/ \E search \in BOOLEAN : Start(w, r, search)
  PROVE  AnswerInv'
  <1>1. TypeOK /\ r # None
    BY RunAssumption DEF AnswerInv
  <1>2. /\ TypeOK' /\ me[w].pc = "idle" /\ UNCHANGED <<purchases, escalations, overdue, lock>>
        /\ crossed \subseteq crossed'
        /\ Alone(w) /\ me'[w].pc \in Looping /\ me'[w].run # None
    <2>1. CASE Guide(w, r)
      BY <1>1, <2>1, GuideIs DEF Becomes, Looping, tables
    <2>2. CASE \E search \in BOOLEAN : Start(w, r, search)
      BY <1>1, <2>2, StartIs DEF Becomes, Looping, rest
    <2> QED
      BY <2>1, <2>2
  <1> QED
    BY <1>2, LoopQuiet DEF Ticking, Expiring

LEMMA AnswersGate ==
  ASSUME AnswerInv, NEW w \in Workers, NEW outcome \in Outcomes, GateAnswer(w, outcome)
  PROVE  AnswerInv'
  <1>1. TypeOK /\ me[w].pc = "submit" /\ me[w].run \in Runs /\ me[w].run # None /\ lock # w
    BY Stands, RunAssumption DEF GateAnswer, At, OnRun, Ticking, Expiring
  <1>2. /\ Submit(me[w].run, 0, outcome) /\ TypeOK' /\ UNCHANGED <<lock, overdue, crossed>>
        /\ me[w].run \in Runs \cup Watches \cup {None} /\ 0 \in Purchases \cup {0}
    BY <1>1, GateAnswerIs DEF rest
  <1>3. /\ Alone(w) /\ Locals(w)' /\ Answers(w)' /\ me'[w].pc \notin Deciding
    <2>1. CASE outcome \in Aborts
      <3>1. Ends(w)
        BY <1>1, <2>1, GateAnswerIs
      <3> QED
        BY <1>1, <1>2, <3>1, EndsOwn DEF Ends
    <2>2. CASE outcome \notin Aborts
      <3>1. Alone(w) /\ me'[w].pc = "loop" /\ me'[w].run # None
        BY <1>1, <2>2, GateAnswerIs DEF Becomes
      <3> QED
        BY <1>1, <1>2, <3>1, LoopOwn DEF Looping, Deciding
    <2> QED
      BY <2>1, <2>2
  <1> QED
    BY <1>2, <1>3, SubmitStep DEF LockMoves

LEMMA AnswersAnswer ==
  ASSUME AnswerInv, NEW w \in Workers, NEW u \in Purchases,
         NEW d \in Decisions \ {"none"}, Answer(w, u, d)
  PROVE  AnswerInv'
  <1>1. TypeOK /\ Locals(w) /\ me[w].pc = "idle" /\ lock # w
    BY Stands DEF Answer, At, Ticking, Expiring
  <1>2. /\ escalations[u] # "none" /\ (u \notin crossed' => Unanswered(u))
        /\ Becomes(w, ResolveTo(u), None, "perceive", u, {}, None)
        /\ UNCHANGED <<purchases, escalations, overdue, lock>> /\ TypeOK'
        /\ crossed \subseteq crossed'
    BY <1>1, AnswerIs DEF tables
  <1>3. Alone(w)
    BY <1>2 DEF Becomes
  <1>4. OneDecidesAfter(w)
    <2>1. ASSUME NEW x \in Workers, x # w, me[x].pc \in Deciding, me[x].item = u,
                 u \notin crossed', ResolveTo(u) \in Deciding
          PROVE  FALSE
      <3>1. Answers(x) /\ u \notin crossed
        BY <1>2, <2>1 DEF AnswerInv
      <3>2. escalations[u] = "pending"
        BY <2>1 DEF ResolveTo, Deciding
      <3>3. me[x].pc = "resolve_write"
        BY <2>1, <3>1, <3>2 DEF Answers, Deciding
      <3> QED
        BY <1>2, <2>1, <3>3 DEF Unanswered, At
    <2> QED
      BY <1>2, <2>1 DEF OneDecidesAfter, Becomes
  <1>5. me'[w].pc = ResolveTo(u) /\ me'[w].run = None /\ me'[w].item = u /\ me'[w].todo = {}
    BY <1>2 DEF Becomes
  <1>6. CASE ResolveTo(u) = "resume_read"
    <2>1. Locals(w)' /\ Answers(w)'
      BY <1>1, <1>2, <1>5, <1>6
         DEF Locals, Answers, OnRun, Deciding, Expiring, Resuming, Ticking
    <2> QED
      BY <1>2, <1>3, <1>4, <2>1, QuietStep DEF LockMoves
  <1>7. CASE ResolveTo(u) = "expire_read" /\ u \in overdue
    <2>1. Locals(w)' /\ Answers(w)'
      BY <1>1, <1>2, <1>5, <1>7
         DEF Locals, Answers, OnRun, Deciding, Expiring, Resuming, Ticking
    <2> QED
      BY <1>2, <1>3, <1>4, <2>1, QuietStep DEF LockMoves
  <1>8. CASE ResolveTo(u) = "resolve_write" /\ escalations[u] = "pending" /\ u \notin overdue
    <2>1. Locals(w)' /\ Answers(w)'
      BY <1>1, <1>2, <1>5, <1>8
         DEF Locals, Answers, OnRun, Deciding, Expiring, Resuming, Ticking
    <2> QED
      BY <1>2, <1>3, <1>4, <2>1, QuietStep DEF LockMoves
  <1> QED
    BY <1>6, <1>7, <1>8 DEF ResolveTo

(* The labels at which a worker holds an escalation. *)
Holding == Deciding \cup Expiring \cup Resuming \cup {"resume_read"}

LEMMA HoldingIs ==
  ASSUME AnswerInv, NEW w \in Workers, me[w].pc \in Holding
  PROVE  TypeOK /\ me[w].item \in Purchases /\ escalations[me[w].item] # "none"
  BY DEF AnswerInv, Locals, Holding

LEMMA AnswersLoose ==
  ASSUME AnswerInv
  PROVE  LooseInv
  BY DEF AnswerInv, LooseInv, Questions, Asked

LEMMA LooseStands ==
  ASSUME LooseInv, NEW w \in Workers
  PROVE  /\ TypeOK /\ Locals(w)
         /\ me[w].pc \in OnRun => me[w].run \in Runs
         /\ me[w].pc \notin OnRun => me[w].run = None
         /\ me[w].pc \notin Ticking \cup Expiring => lock # w
         /\ me[w].pc \in Ticking => lock = w
         /\ me[w].pc \in Holding => me[w].item \in Purchases /\ escalations[me[w].item] # "none"
  BY DEF LooseInv, TypeOK, Locals, Local, Holding

LEMMA AnswersResolve ==
  ASSUME AnswerInv, NEW w \in Workers, ResolveWrite(w)
  PROVE  AnswerInv'
  <1>1. /\ TypeOK /\ me[w].item \in Purchases /\ me[w].pc = "resolve_write" /\ me[w].run = None
        /\ me[w].item \notin crossed => escalations[me[w].item] = "pending"
        /\ escalations[me[w].item] # "none" /\ lock # w
    BY Stands, HoldingIs
       DEF Answers, ResolveWrite, At, Holding, OnRun, Deciding, Ticking, Expiring
  <1>2. /\ UNCHANGED <<purchases, overdue, lock, crossed>> /\ TypeOK'
        /\ \/ Marks(me[w].item, "rejected") /\ MovesTo(w, "reject")
           \/ Marks(me[w].item, "approved") /\ MovesTo(w, "retry")
    BY <1>1, ResolveWriteIs DEF rest
  <1>3. me[w].item \notin crossed => \A x \in Purchases : purchases'[x].retries # me[w].item
    <2>1. Questions(me[w].item)
      BY <1>1 DEF AnswerInv
    <2>2. me[w].item \notin crossed => RetriesOf(me[w].item) = {}
      BY <1>1, <2>1 DEF Questions
    <2> QED
      BY <1>2, <2>2 DEF RetriesOf
  <1>4. CASE Marks(me[w].item, "rejected") /\ MovesTo(w, "reject")
    <2>1. /\ me'[w].pc = "reject" /\ me'[w].item = me[w].item /\ me'[w].run = None
          /\ escalations'[me[w].item] = "rejected" /\ lock' # w
      BY <1>1, <1>2, <1>4 DEF MovesTo, Becomes, Marks
    <2>2. Locals(w)' /\ Answers(w)'
      BY <1>1, <2>1 DEF Locals, Answers, OnRun, Deciding, Expiring, Resuming, Ticking
    <2> QED
      BY <1>1, <1>2, <1>4, <2>2, MarkStep DEF PC, Deciding
  <1>5. CASE Marks(me[w].item, "approved") /\ MovesTo(w, "retry")
    <2>1. /\ me'[w].pc = "retry" /\ me'[w].item = me[w].item /\ me'[w].run = None
          /\ escalations'[me[w].item] = "approved" /\ lock' # w
      BY <1>1, <1>2, <1>5 DEF MovesTo, Becomes, Marks
    <2>2. Locals(w)'
      BY <1>1, <2>1 DEF Locals, OnRun, Deciding, Expiring, Resuming, Ticking
    <2>3. Answers(w)'
      BY <1>2, <1>3, <2>1 DEF Answers, RetriesOf
    <2> QED
      BY <1>1, <1>2, <1>5, <2>2, <2>3, MarkStep DEF PC, Deciding
  <1> QED
    BY <1>2, <1>4, <1>5

(* A worker that goes on to resume the run. *)
LEMMA ResumeOwn ==
  ASSUME NEW w \in Workers, me'[w].pc = "resume_read", me'[w].run = None, lock' # w,
         me'[w].item \in Purchases, escalations'[me'[w].item] # "none"
  PROVE  Locals(w)' /\ Answers(w)' /\ OneDecidesAfter(w) /\ me'[w].pc \notin Deciding
  BY DEF Locals, Answers, OneDecidesAfter, OnRun, Deciding, Expiring, Resuming, Ticking

(* A tick that goes on with its sweep. *)
LEMMA SweepOwn ==
  ASSUME NEW w \in Workers, me'[w].pc = "sweeping", me'[w].run = None, lock' = w,
         me'[w].todo \subseteq overdue'
  PROVE  Locals(w)' /\ Answers(w)' /\ OneDecidesAfter(w) /\ me'[w].pc \notin Deciding
  BY DEF Locals, Answers, OneDecidesAfter, OnRun, Deciding, Expiring, Resuming, Ticking

LEMMA AnswersReject ==
  ASSUME AnswerInv, NEW w \in Workers, Reject(w)
  PROVE  AnswerInv'
  <1>1. /\ TypeOK /\ me[w].item \in Purchases /\ escalations[me[w].item] # "none"
        /\ me[w].run = None /\ lock # w
    BY Stands, HoldingIs DEF Reject, At, Holding, OnRun, Deciding, Ticking, Expiring
  <1>2. /\ UNCHANGED <<escalations, overdue, lock, crossed>> /\ TypeOK'
        /\ Voids(me[w].item) /\ MovesTo(w, "resume_read")
    BY <1>1, RejectIs DEF rest
  <1>3. Locals(w)' /\ Answers(w)'
    BY <1>1, <1>2, ResumeOwn DEF MovesTo, Becomes
  <1> QED
    BY <1>1, <1>2, <1>3, VoidStep DEF PC, Deciding

LEMMA AnswersRetry ==
  ASSUME AnswerInv, NEW w \in Workers, NEW outcome \in Outcomes, Retry(w, outcome)
  PROVE  AnswerInv'
  <1>1. /\ TypeOK /\ me[w].item \in Purchases /\ escalations[me[w].item] # "none"
        /\ me[w].pc = "retry" /\ me[w].run = None /\ lock # w
    BY Stands, HoldingIs DEF Retry, At, Holding, OnRun, Deciding, Ticking, Expiring
  <1>2. /\ Submit(purchases[me[w].item].by, me[w].item, outcome)
        /\ purchases[me[w].item].by \in Runs \cup Watches \cup {None}
        /\ Ends(w) \/ MovesTo(w, "resume_read")
        /\ TypeOK' /\ UNCHANGED <<lock, overdue, crossed>>
    BY <1>1, RetryIs DEF rest
  <1>3. escalations'[me[w].item] # "none"
    BY <1>1, <1>2, SubmitIs DEF Records
  <1>4. Alone(w) /\ Locals(w)' /\ Answers(w)' /\ me'[w].pc \notin Deciding
    <2>1. CASE Ends(w)
      BY <1>1, <1>2, <2>1, EndsOwn DEF Ends
    <2>2. CASE MovesTo(w, "resume_read")
      BY <1>1, <1>2, <1>3, <2>2, ResumeOwn DEF MovesTo, Becomes
    <2> QED
      BY <1>2, <2>1, <2>2
  <1> QED
    BY <1>1, <1>2, <1>4, SubmitStep DEF LockMoves

LEMMA AnswersExpireRead ==
  ASSUME AnswerInv, NEW w \in Workers, ExpireRead(w)
  PROVE  AnswerInv'
  <1>1. /\ TypeOK /\ me[w].item \in Purchases /\ escalations[me[w].item] # "none"
        /\ me[w].run = None /\ me[w].todo \subseteq overdue /\ me[w].item \in overdue
    BY Stands, HoldingIs DEF Locals, ExpireRead, At, Holding, OnRun, Expiring
  <1>2. /\ UNCHANGED <<purchases, escalations, overdue, lock, crossed>> /\ TypeOK'
        /\ \/ MovesTo(w, "expire_write") /\ escalations[me[w].item] = "pending"
           \/ MovesTo(w, "sweeping") /\ lock = w
           \/ MovesTo(w, "resume_read") /\ lock # w
    BY <1>1, ExpireReadIs DEF rest, tables
  <1>3. Alone(w)
    BY <1>2 DEF MovesTo, Becomes
  <1>4. CASE MovesTo(w, "expire_write") /\ escalations[me[w].item] = "pending"
    <2>1. Locals(w)' /\ Answers(w)' /\ OneDecidesAfter(w)
      BY <1>1, <1>2, <1>4
         DEF MovesTo, Becomes, Locals, Answers, OneDecidesAfter, OnRun, Deciding, Expiring,
             Resuming, Ticking
    <2> QED
      BY <1>2, <1>3, <2>1, QuietStep DEF LockMoves
  <1>5. CASE MovesTo(w, "sweeping") /\ lock = w
    <2>1. Locals(w)' /\ Answers(w)' /\ OneDecidesAfter(w)
      BY <1>1, <1>2, <1>5, SweepOwn DEF MovesTo, Becomes
    <2> QED
      BY <1>2, <1>3, <2>1, QuietStep DEF LockMoves
  <1>6. CASE MovesTo(w, "resume_read") /\ lock # w
    <2>1. Locals(w)' /\ Answers(w)' /\ OneDecidesAfter(w)
      BY <1>1, <1>2, <1>6, ResumeOwn DEF MovesTo, Becomes
    <2> QED
      BY <1>2, <1>3, <2>1, QuietStep DEF LockMoves
  <1> QED
    BY <1>2, <1>4, <1>5, <1>6

LEMMA AnswersExpireWrite ==
  ASSUME AnswerInv, NEW w \in Workers, ExpireWrite(w)
  PROVE  AnswerInv'
  <1>1. /\ TypeOK /\ me[w].item \in Purchases /\ me[w].pc = "expire_write"
        /\ me[w].run = None /\ me[w].todo \subseteq overdue /\ me[w].item \in overdue
    BY Stands, HoldingIs DEF Locals, ExpireWrite, At, Holding, OnRun, Expiring
  <1>2. /\ UNCHANGED <<purchases, overdue, lock, crossed>> /\ TypeOK'
        /\ Marks(me[w].item, "expired") /\ MovesTo(w, "expire_purchase")
    BY <1>1, ExpireWriteIs DEF rest
  <1>3. Locals(w)' /\ Answers(w)'
    <2>1. /\ me'[w].pc = "expire_purchase" /\ me'[w].item = me[w].item /\ me'[w].run = None
          /\ me'[w].todo = me[w].todo /\ escalations'[me[w].item] = "expired"
      BY <1>1, <1>2 DEF MovesTo, Becomes, Marks
    <2> QED
      BY <1>1, <1>2, <2>1 DEF Locals, Answers, OnRun, Deciding, Expiring, Resuming, Ticking
  <1> QED
    BY <1>1, <1>2, <1>3, MarkStep DEF PC, Deciding

LEMMA AnswersExpirePurchase ==
  ASSUME AnswerInv, NEW w \in Workers, ExpirePurchase(w)
  PROVE  AnswerInv'
  <1>1. /\ TypeOK /\ me[w].item \in Purchases /\ escalations[me[w].item] # "none"
        /\ me[w].run = None /\ me[w].todo \subseteq overdue
    BY Stands, HoldingIs DEF Locals, ExpirePurchase, At, Holding, OnRun, Expiring
  <1>2. /\ UNCHANGED <<escalations, overdue, lock, crossed>> /\ TypeOK' /\ Voids(me[w].item)
        /\ \/ MovesTo(w, "sweeping") /\ lock = w
           \/ MovesTo(w, "resume_read") /\ lock # w
    BY <1>1, ExpirePurchaseIs DEF rest
  <1>3. CASE MovesTo(w, "sweeping") /\ lock = w
    <2>1. Locals(w)' /\ Answers(w)'
      BY <1>1, <1>2, <1>3, SweepOwn DEF MovesTo, Becomes
    <2> QED
      BY <1>1, <1>2, <1>3, <2>1, VoidStep DEF PC, Deciding
  <1>4. CASE MovesTo(w, "resume_read") /\ lock # w
    <2>1. Locals(w)' /\ Answers(w)'
      BY <1>1, <1>2, <1>4, ResumeOwn DEF MovesTo, Becomes
    <2> QED
      BY <1>1, <1>2, <1>4, <2>1, VoidStep DEF PC, Deciding
  <1> QED
    BY <1>2, <1>3, <1>4

LEMMA AnswersResume ==
  ASSUME AnswerInv, NEW w \in Workers, ResumeRead(w) \/ ResumeMark(w) \/ ResumeSave(w) \/ ResumeEnd(w)
  PROVE  AnswerInv'
  <1>1. /\ TypeOK /\ me[w].item \in Purchases /\ escalations[me[w].item] # "none" /\ lock # w
        /\ me[w].pc \in Resuming => me[w].run \in Runs /\ me[w].run # None
    BY Stands, HoldingIs, RunAssumption
       DEF ResumeRead, ResumeMark, ResumeSave, ResumeEnd, At, Holding, OnRun, Resuming, Deciding, Ticking,
           Expiring
  <1>2. ASSUME Alone(w), me'[w].pc \in Resuming, me'[w].run # None, me'[w].item = me[w].item,
               UNCHANGED <<purchases, escalations, overdue, lock, crossed>>, TypeOK'
        PROVE  AnswerInv'
    <2>1. Locals(w)' /\ Answers(w)' /\ OneDecidesAfter(w)
      BY <1>1, <1>2
         DEF Locals, Answers, OneDecidesAfter, OnRun, Deciding, Expiring, Resuming, Ticking
    <2> QED
      BY <1>2, <2>1, QuietStep DEF LockMoves
  <1>3. ASSUME Ends(w), UNCHANGED <<purchases, escalations, overdue, lock, crossed>>, TypeOK'
        PROVE  AnswerInv'
    <2>1. Locals(w)' /\ Answers(w)' /\ OneDecidesAfter(w)
      BY <1>1, <1>3, EndsOwn
    <2> QED
      BY <1>3, <2>1, QuietStep DEF LockMoves, Ends
  <1>4. CASE ResumeRead(w)
    <2>1. /\ UNCHANGED <<purchases, escalations, overdue, lock, crossed>> /\ TypeOK'
          /\ \/ Ends(w)
             \/ Alone(w) /\ me'[w].pc = "resume_mark" /\ me'[w].run \in Runs
                /\ me'[w].item = me[w].item
      BY <1>1, <1>4, ResumeReadIs DEF Becomes, rest, tables
    <2> QED
      BY <1>2, <1>3, <2>1, RunAssumption DEF Resuming
  <1>5. CASE ResumeMark(w)
    <2>1. me[w].pc = "resume_mark"
      BY <1>5 DEF ResumeMark, At
    <2>2. /\ UNCHANGED <<purchases, escalations, overdue, lock, crossed>> /\ TypeOK'
          /\ Alone(w) /\ me'[w].pc = "resume_save" /\ me'[w].run = me[w].run
          /\ me'[w].item = me[w].item
      BY <1>1, <1>5, <2>1, ResumeMarkIs DEF MovesTo, Becomes, rest, Resuming
    <2> QED
      BY <1>1, <1>2, <2>1, <2>2 DEF Resuming
  <1>7. CASE ResumeSave(w)
    <2>1. me[w].pc = "resume_save"
      BY <1>7 DEF ResumeSave, At
    <2>2. /\ UNCHANGED <<purchases, escalations, overdue, lock, crossed>> /\ TypeOK'
          /\ Alone(w) /\ me'[w].pc = "resume_end" /\ me'[w].run = me[w].run
          /\ me'[w].item = me[w].item
      BY <1>1, <1>7, <2>1, ResumeSaveIs DEF MovesTo, Becomes, rest, Resuming
    <2> QED
      BY <1>1, <1>2, <2>1, <2>2 DEF Resuming
  <1>6. CASE ResumeEnd(w)
    <2>1. me[w].pc = "resume_end"
      BY <1>6 DEF ResumeEnd, At
    <2>2. UNCHANGED <<purchases, escalations, overdue, lock, crossed>> /\ TypeOK' /\ Ends(w)
      BY <1>1, <1>6, <2>1, ResumeEndIs DEF rest, Resuming
    <2> QED
      BY <1>3, <2>2
  <1> QED
    BY <1>4, <1>5, <1>6, <1>7

(* A tick that goes on with the watches. *)
LEMMA WatchOwn ==
  ASSUME NEW w \in Workers, me'[w].pc \in {"watching", "fire", "fired"}, me'[w].run = None,
         lock' = w, me'[w].todo \subseteq Watches,
         me'[w].pc \in {"fire", "fired"} => me'[w].watch \in Watches
  PROVE  Locals(w)' /\ Answers(w)' /\ OneDecidesAfter(w) /\ me'[w].pc \notin Deciding
  BY DEF Locals, Answers, OneDecidesAfter, OnRun, Deciding, Expiring, Resuming, Ticking

LEMMA AnswersSweep ==
  ASSUME AnswerInv, NEW w \in Workers, Tick(w) \/ SweepOne(w) \/ Claim(w)
  PROVE  AnswerInv'
  <1>1. TypeOK /\ Locals(w)
    BY DEF AnswerInv
  <1>2. me[w].run = None /\ (me[w].pc = "sweeping" => lock = w /\ me[w].todo \subseteq overdue)
    BY Stands DEF Locals, Tick, SweepOne, Claim, At, OnRun, Ticking
  <1>3. CASE Tick(w)
    <2>1. /\ UNCHANGED <<purchases, escalations, overdue, crossed>> /\ TypeOK' /\ lock = None /\ lock' = w
          /\ Alone(w) /\ me'[w].pc = "sweeping" /\ me'[w].run = None
          /\ me'[w].todo \subseteq overdue'
      BY <1>1, <1>2, <1>3, TickIs DEF Becomes, tables
    <2>2. Locals(w)' /\ Answers(w)' /\ OneDecidesAfter(w)
      BY <2>1, SweepOwn
    <2> QED
      BY <2>1, <2>2, QuietStep DEF LockMoves
  <1>4. CASE SweepOne(w)
    <2>1. me[w].pc = "sweeping"
      BY <1>4 DEF SweepOne, At
    <2>2. me[w].todo \subseteq Purchases
      BY <1>1, <1>2, <2>1 DEF TypeOK
    <2>3. PICK u \in me[w].todo :
            /\ UNCHANGED <<purchases, escalations, overdue, lock, crossed>> /\ TypeOK'
            /\ Alone(w) /\ me'[w].pc = "expire_read" /\ me'[w].run = None
            /\ me'[w].item = u /\ me'[w].todo \subseteq me[w].todo
      BY <1>1, <1>2, <1>4, <2>2, SweepOneIs DEF Becomes, rest, tables
    <2>4. u \in Purchases /\ u \in overdue /\ escalations[u] # "none"
      BY <1>2, <2>1, <2>2, <2>3 DEF AnswerInv, Questions
    <2>5. Locals(w)' /\ Answers(w)' /\ OneDecidesAfter(w)
      BY <1>2, <2>1, <2>3, <2>4
         DEF Locals, Answers, OneDecidesAfter, OnRun, Deciding, Expiring, Resuming, Ticking
    <2> QED
      BY <2>3, <2>5, QuietStep DEF LockMoves
  <1>5. CASE Claim(w)
    <2>1. /\ UNCHANGED <<purchases, escalations, overdue, lock, crossed>> /\ TypeOK'
          /\ Alone(w) /\ me'[w].pc = "watching" /\ me'[w].run = None
          /\ me'[w].todo \subseteq Watches /\ lock = w
      BY <1>1, <1>2, <1>5, ClaimIs DEF Becomes, tables
    <2>2. Locals(w)' /\ Answers(w)' /\ OneDecidesAfter(w)
      BY <2>1, WatchOwn
    <2> QED
      BY <2>1, <2>2, QuietStep DEF LockMoves
  <1> QED
    BY <1>3, <1>4, <1>5

LEMMA AnswersWatch ==
  ASSUME AnswerInv, NEW w \in Workers, Pass(w) \/ Match(w) \/ Fired(w) \/ Unlock(w)
  PROVE  AnswerInv'
  <1>1. /\ TypeOK /\ me[w].run = None /\ lock = w /\ me[w].todo \subseteq Watches
        /\ me[w].pc = "fired" => me[w].watch \in Watches
    BY Stands DEF Locals, Pass, Match, Fired, Unlock, At, OnRun, Ticking
  <1>2. CASE Unlock(w)
    <2>1. /\ UNCHANGED <<purchases, escalations, overdue, crossed>> /\ TypeOK' /\ Ends(w) /\ lock' = None
      BY <1>1, <1>2, UnlockIs DEF tables
    <2>2. Locals(w)' /\ Answers(w)' /\ OneDecidesAfter(w)
      BY <2>1, EndsOwn, RunAssumption
    <2> QED
      BY <1>1, <2>1, <2>2, QuietStep DEF LockMoves, Ends
  <1>3. CASE Pass(w) \/ Match(w) \/ Fired(w)
    <2>1. /\ UNCHANGED <<purchases, escalations, overdue, lock, crossed>> /\ TypeOK'
          /\ Alone(w) /\ me'[w].pc \in {"watching", "fire", "fired"} /\ me'[w].run = None
          /\ me'[w].todo \subseteq Watches
          /\ me'[w].pc \in {"fire", "fired"} => me'[w].watch \in Watches
      <3>1. CASE Pass(w)
        BY <1>1, <3>1, PassIs DEF Becomes, tables
      <3>2. CASE Match(w)
        BY <1>1, <3>2, MatchIs DEF Becomes, tables
      <3>3. CASE Fired(w)
        <4>1. me[w].watch \in Watches
          BY <1>1, <3>3 DEF Fired, At
        <4> QED
          BY <1>1, <3>3, <4>1, FiredIs DEF Becomes, rest
      <3> QED
        BY <1>3, <3>1, <3>2, <3>3
    <2>2. Locals(w)' /\ Answers(w)' /\ OneDecidesAfter(w)
      BY <1>1, <2>1, WatchOwn
    <2> QED
      BY <2>1, <2>2, QuietStep DEF LockMoves
  <1> QED
    BY <1>2, <1>3

LEMMA AnswersFire ==
  ASSUME AnswerInv, NEW w \in Workers, NEW outcome \in Outcomes, Fire(w, outcome)
  PROVE  AnswerInv'
  <1>1. /\ TypeOK /\ me[w].run = None /\ lock = w /\ me[w].todo \subseteq Watches
        /\ me[w].watch \in Watches
    BY Stands DEF Locals, Fire, At, OnRun, Ticking
  <1>2. /\ Submit(me[w].watch, 0, outcome) /\ UNCHANGED <<overdue, crossed>> /\ TypeOK'
        /\ me[w].watch \in Runs \cup Watches \cup {None} /\ 0 \in Purchases \cup {0}
    BY <1>1, FireIs
  <1>3. CASE Ends(w) /\ lock' = None
    <2>1. Locals(w)' /\ Answers(w)' /\ me'[w].pc \notin Deciding
      BY <1>3, EndsOwn, RunAssumption
    <2> QED
      BY <1>1, <1>2, <1>3, <2>1, SubmitStep DEF LockMoves, Ends
  <1>4. CASE /\ lock' = lock /\ Alone(w) /\ me'[w].pc \in {"fired", "watching"}
             /\ me'[w].run = None /\ me'[w].todo = me[w].todo
             /\ me'[w].pc = "fired" => me'[w].watch = me[w].watch
    <2>1. Locals(w)' /\ Answers(w)' /\ me'[w].pc \notin Deciding
      BY <1>1, <1>4, WatchOwn
    <2> QED
      BY <1>1, <1>2, <1>4, <2>1, SubmitStep DEF LockMoves
  <1> QED
    BY <1>1, <1>3, <1>4, FireIs DEF Becomes

LEMMA AnswersDie ==
  ASSUME AnswerInv, NEW w \in Workers, Die(w)
  PROVE  AnswerInv'
  <1>1. /\ TypeOK' /\ Ends(w) /\ lock' = (IF lock = w THEN None ELSE lock)
        /\ UNCHANGED <<purchases, escalations, overdue, crossed>>
    BY DieIs DEF AnswerInv, tables
  <1>2. lock' # w /\ LockMoves(w)
    BY <1>1, RunAssumption DEF LockMoves
  <1>3. Locals(w)' /\ Answers(w)' /\ OneDecidesAfter(w)
    BY <1>1, <1>2, EndsOwn
  <1> QED
    BY <1>1, <1>2, <1>3, QuietStep DEF Ends

LEMMA AnswersClock ==
  ASSUME AnswerInv,
         \/ \E u \in Purchases : Elapse(u)
         \/ \E v \in Watches : ComeDue(v) \/ Cancel(v)
         \/ UNCHANGED vars
  PROVE  AnswerInv'
  <1>1. ASSUME NEW u \in Purchases, Elapse(u)
        PROVE  AnswerInv'
    <2>1. /\ escalations[u] = "pending" /\ overdue' = overdue \cup {u} /\ TypeOK'
          /\ u \notin crossed' => \A w \in Workers : me[w].pc = "resolve_write" => me[w].item # u
          /\ UNCHANGED <<purchases, escalations, lock, me>> /\ crossed \subseteq crossed'
      BY <1>1, ElapseIs DEF AnswerInv, tables, Unanswered, At
    <2>2. \A w \in Workers : Locals(w)' /\ Answers(w)'
      BY <2>1 DEF AnswerInv, Locals, Answers, RetriesOf
    <2>3. OneDecides' /\ \A x \in Purchases : Questions(x)'
      BY <2>1 DEF AnswerInv, OneDecides, Questions, RetriesOf
    <2> QED
      BY <2>1, <2>2, <2>3 DEF AnswerInv
  <1>2. ASSUME UNCHANGED <<purchases, escalations, overdue, lock, me, crossed>>, TypeOK'
        PROVE  AnswerInv'
    BY <1>2 DEF AnswerInv, OneDecides, Questions, RetriesOf, Locals, Answers
  <1>3. ASSUME NEW v \in Watches, ComeDue(v) \/ Cancel(v)
        PROVE  AnswerInv'
    BY <1>2, <1>3, WatchStepIs DEF AnswerInv
  <1>4. CASE UNCHANGED vars
    BY <1>2, <1>4 DEF AnswerInv, vars, tables, TypeOK
  <1> QED
    BY <1>1, <1>3, <1>4

LEMMA AnswerStep ==
  ASSUME AnswerInv, [Next]_vars
  PROVE  AnswerInv'
  <1>1. ASSUME NEW w \in Workers, Step(w)
        PROVE  AnswerInv'
    BY <1>1, AnswersOnRun, AnswersGate, AnswersResolve, AnswersReject, AnswersRetry,
       AnswersExpireRead, AnswersExpireWrite, AnswersExpirePurchase, AnswersResume, AnswersSweep,
       AnswersWatch, AnswersFire DEF Step
  <1>2. ASSUME NEW w \in Workers, Tick(w) \/ Die(w)
        PROVE  AnswerInv'
    BY <1>2, AnswersSweep, AnswersDie
  <1>3. ASSUME NEW w \in Workers, NEW r \in Runs,
               Guide(w, r) \/ \E search \in BOOLEAN : Start(w, r, search)
        PROVE  AnswerInv'
    BY <1>3, AnswersStart
  <1>4. ASSUME NEW w \in Workers, NEW u \in Purchases, NEW d \in Decisions \ {"none"},
               Answer(w, u, d)
        PROVE  AnswerInv'
    BY <1>4, AnswersAnswer
  <1> QED
    BY <1>1, <1>2, <1>3, <1>4, AnswersClock DEF Next

LEMMA AnswerInit ==
  ASSUME Init
  PROVE  AnswerInv
  <1>1. TypeOK
    BY IdleIs, RunAssumption DEF Init, TypeOK, NoPurchase, Purchase
  <1>2. \A u \in Purchases : purchases[u].retries = 0 /\ escalations[u] = "none"
    BY DEF Init, NoPurchase
  <1>3. \A u \in Purchases : Questions(u)
    BY <1>2, RunAssumption DEF Init, Questions, RetriesOf
  <1>4. \A w \in Workers : me[w] = Idle /\ lock = None
    BY DEF Init
  <1>5. \A w \in Workers : Locals(w) /\ Answers(w)
    BY <1>4, IdleIs, RunAssumption
       DEF Locals, Answers, OnRun, Deciding, Expiring, Resuming, Ticking
  <1>6. OneDecides
    BY <1>4, IdleIs DEF OneDecides, Deciding
  <1> QED
    BY <1>1, <1>3, <1>5, <1>6 DEF AnswerInv

LEMMA AnswersAlways == Spec => []AnswerInv
  <1>1. Init => AnswerInv
    BY AnswerInit
  <1>2. AnswerInv /\ [Next]_vars => AnswerInv'
    BY AnswerStep
  <1> QED
    BY <1>1, <1>2, PTL DEF Spec

(* The only writes to an escalation that has been answered and on which     *)
(* nothing crossed: none.  A sweep that expires it writes what is there.    *)
LEMMA FinalStep ==
  ASSUME AnswerInv, [Next]_vars, NEW u \in Purchases, u \notin crossed,
         escalations[u] \notin {"none", "pending"}
  PROVE  escalations'[u] = escalations[u]
  <1>1. TypeOK /\ Questions(u)
    BY DEF AnswerInv
  <1>2. ASSUME NEW by \in Runs \cup Watches \cup {None}, NEW retries \in Purchases \cup {0},
               NEW outcome \in Outcomes, Submit(by, retries, outcome)
        PROVE  escalations'[u] = escalations[u]
    <2>1. \/ escalations' = escalations
          \/ Records(Fresh, by, retries, outcome)
      BY <1>1, <1>2, SubmitIs
    <2>2. CASE Records(Fresh, by, retries, outcome)
      <3>1. purchases[Fresh].status = "none" /\ purchases[u].status # "none"
        BY <1>1, <2>2 DEF Records, Questions
      <3> QED
        BY <2>2, <3>1 DEF Records
    <2> QED
      BY <2>1, <2>2
  <1>3. ASSUME NEW w \in Workers, Step(w)
        PROVE  escalations'[u] = escalations[u]
    <2>1. Locals(w) /\ Answers(w)
      BY DEF AnswerInv
    <2>2. ASSUME NEW outcome \in Outcomes, GateAnswer(w, outcome)
          PROVE  escalations'[u] = escalations[u]
      <3>1. me[w].run \in Runs \cup Watches \cup {None} /\ 0 \in Purchases \cup {0}
        BY <1>1 DEF TypeOK, Local
      <3> QED
        BY <1>2, <2>2, <3>1 DEF GateAnswer
    <2>3. ASSUME NEW outcome \in Outcomes, Retry(w, outcome)
          PROVE  escalations'[u] = escalations[u]
      <3>1. me[w].item \in Purchases /\ purchases[me[w].item].by \in Runs \cup Watches \cup {None}
        BY <1>1, <2>1, <2>3 DEF Retry, At, Locals, Deciding, TypeOK, Purchase
      <3> QED
        BY <1>2, <2>3, <3>1 DEF Retry
    <2>4. ASSUME NEW outcome \in Outcomes, Fire(w, outcome)
          PROVE  escalations'[u] = escalations[u]
      <3>1. me[w].watch \in Runs \cup Watches \cup {None} /\ 0 \in Purchases \cup {0}
        BY <1>1 DEF TypeOK, Local
      <3> QED
        BY <1>2, <2>4, <3>1 DEF Fire
    <2>5. CASE ResolveWrite(w)
      <3>1. /\ me[w].item \in Purchases
            /\ me[w].item = u => escalations[me[w].item] = "pending"
        BY <2>1, <2>5 DEF ResolveWrite, At, Answers, Locals, Deciding
      <3> QED
        BY <1>1, <2>5, <3>1 DEF ResolveWrite, TypeOK
    <2>6. CASE ExpireWrite(w)
      <3>1. /\ me[w].item \in Purchases
            /\ me[w].item = u => escalations[me[w].item] \in {"pending", "expired"}
        BY <2>1, <2>6 DEF ExpireWrite, At, Answers, Locals, Expiring
      <3> QED
        BY <1>1, <2>6, <3>1 DEF ExpireWrite, TypeOK
    <2>7. CASE \/ GuideWrite(w) \/ (\E next \in Nodes : Think(w, next))
               \/ Gate(w) \/ Park(w) \/ Receipt(w) \/ Finish(w) \/ Fail(w) \/ Throttle(w)
               \/ Reject(w) \/ ExpireRead(w) \/ ExpirePurchase(w)
               \/ ResumeRead(w) \/ ResumeMark(w) \/ ResumeSave(w) \/ ResumeEnd(w)
               \/ SweepOne(w) \/ Claim(w) \/ Pass(w) \/ Match(w) \/ Fired(w) \/ Unlock(w)
      BY <2>7 DEF GuideWrite, Think, Gate, Park, Receipt, Finish, Fail, Throttle, Reject,
                  ExpireRead, ExpirePurchase, ResumeRead, ResumeMark, ResumeSave, ResumeEnd,
                  SweepOne, Claim, Pass, Match, Fired, Unlock, tables
    <2> QED
      BY <1>3, <2>2, <2>3, <2>4, <2>5, <2>6, <2>7 DEF Step
  <1> QED
    BY <1>3 DEF Next, Tick, Die, Guide, Start, Answer, Elapse, ComeDue, Cancel, tables, vars

----------------------------------------------------------------------------
(* Theorems about the answers *)

(* M5: escalation._retry_through_gate runs at most once for an escalation,  *)
(* however often and by whomever it is answered, unless two of its answers  *)
(* crossed, or an answer and its deadline: the writes of escalation.py do   *)
(* not look at the row again, and two answers that both read `pending' each *)
(* buy (NoSecondCharge is refuted).                                         *)
THEOREM RetriedOnce == Spec => []OneRetry
  <1>1. AnswerInv => OneRetry
    <2> SUFFICES ASSUME AnswerInv, NEW u \in Purchases \ crossed
                 PROVE  Cardinality(RetriesOf(u)) <= 1
      BY DEF OneRetry
    <2>1. \A x, y \in RetriesOf(u) : x = y
      BY DEF AnswerInv, Questions
    <2>2. CASE RetriesOf(u) = {}
      BY <2>2, FS_EmptySet
    <2>3. CASE RetriesOf(u) # {}
      <3>1. PICK x : RetriesOf(u) = {x}
        BY <2>1, <2>3
      <3>2. Cardinality({x}) = 1
        BY FS_Singleton
      <3> QED
        BY <3>1, <3>2
    <2> QED
      BY <2>2, <2>3
  <1> QED
    BY <1>1, AnswersAlways, PTL

(* S3, H2: a refused or expired escalation never leads to a purchase: no    *)
(* retry of it exists and the purchase it was about is not captured.  The   *)
(* exception is an escalation on which answers, or an answer and the        *)
(* deadline, crossed between resolve's look at the row and its write.       *)
THEOREM DenialsHold == Spec => []DeniedMeansDenied
  <1>1. AnswerInv => DeniedMeansDenied
    <2> SUFFICES ASSUME AnswerInv, NEW u \in Purchases \ crossed,
                        escalations[u] \in {"rejected", "expired"}
                 PROVE  RetriesOf(u) = {} /\ purchases[u].status # "captured"
      BY DEF DeniedMeansDenied
    <2>1. Questions(u)
      BY DEF AnswerInv
    <2> QED
      BY <2>1 DEF Questions
  <1> QED
    BY <1>1, AnswersAlways, PTL

(* The answer to an escalation, once escalation.resolve or expire wrote it, *)
(* is changed neither by a later answer or a replay of it nor by the tick's *)
(* sweep, unless it crossed with another answer or with its deadline: then  *)
(* the unguarded writes overwrite it.                                       *)
THEOREM AnswersAreFinal == Spec => AnswerIsFinal
  <1>1. AnswerInv /\ [Next]_vars =>
          [\A u \in Purchases : escalations[u] \notin {"none", "pending"} =>
                                  escalations'[u] = escalations[u] \/ u \in crossed]_vars
    BY FinalStep
  <1> QED
    BY <1>1, AnswersAlways, PTL DEF Spec, AnswerIsFinal

----------------------------------------------------------------------------
(* The rows of the runs *)

(* Nothing that was asked or bought is undone, and a run that was not       *)
(* started or only searches is not charged.                                 *)
Grows ==
  /\ \A u \in Purchases : escalations[u] # "none" => escalations'[u] # "none"
  /\ \A u \in Purchases : purchases[u].status = "captured" =>
       purchases'[u].status = "captured" /\ purchases'[u].by = purchases[u].by
  /\ \A r \in Runs : /\ runs[r].search \/ runs[r].status = "none"
                     /\ \A u \in Purchases : purchases[u].by # r
                     => \A u \in Purchases : purchases'[u].by # r

LEMMA SubmitGrows ==
  ASSUME LooseInv, NEW by \in Runs \cup Watches \cup {None}, NEW retries \in Purchases \cup {0},
         NEW outcome \in Outcomes, Submit(by, retries, outcome),
         \A r \in Runs : by = r /\ (runs[r].search \/ runs[r].status = "none") =>
                          \E u \in Purchases : purchases[u].by = r
  PROVE  Grows
  <1>1. TypeOK
    BY DEF LooseInv
  <1>2. CASE UNCHANGED <<purchases, escalations>>
    BY <1>2 DEF Grows
  <1>3. CASE Records(Fresh, by, retries, outcome)
    <2>0. PICK f \in Purchases : f = Fresh
      BY <1>3 DEF Records
    <2>1. /\ purchases[f].status = "none" /\ purchases'[f].by = by
          /\ escalations'[f] = (IF outcome = "escalated" THEN "pending" ELSE escalations[f])
          /\ \A u \in Purchases : u # f => /\ purchases'[u] = purchases[u]
                                           /\ escalations'[u] = escalations[u]
      BY <1>3, <2>0 DEF Records
    <2> QED
      BY <2>1 DEF Grows
  <1> QED
    BY <1>1, <1>2, <1>3, SubmitIs

(* Only a run that was started, to buy, submits. *)
Buys(w) ==
  me[w].pc = "submit" => runs[me[w].run].status # "none" /\ ~runs[me[w].run].search

LEMMA GrowsStep ==
  ASSUME LooseInv, \A w \in Workers : Buys(w), [Next]_vars
  PROVE  Grows
  <1>1. TypeOK
    BY DEF LooseInv
  <1>2. ASSUME UNCHANGED <<purchases, escalations>>
        PROVE  Grows
    BY <1>2 DEF Grows
  <1>3. ASSUME NEW w \in Workers, Step(w)
        PROVE  Grows
    <2>1. Locals(w) /\ Buys(w)
      BY DEF LooseInv
    <2>2. ASSUME NEW outcome \in Outcomes, GateAnswer(w, outcome)
          PROVE  Grows
      <3>1. me[w].run \in Runs \cup Watches \cup {None} /\ 0 \in Purchases \cup {0}
        BY <1>1 DEF TypeOK, Local
      <3>2. /\ Submit(me[w].run, 0, outcome) /\ ~runs[me[w].run].search
            /\ runs[me[w].run].status # "none"
        BY <2>1, <2>2 DEF GateAnswer, At, Buys
      <3> QED
        BY <3>1, <3>2, SubmitGrows
    <2>3. ASSUME NEW outcome \in Outcomes, Retry(w, outcome)
          PROVE  Grows
      <3>1. me[w].item \in Purchases /\ purchases[me[w].item].by \in Runs \cup Watches \cup {None}
        BY <1>1, <2>1, <2>3 DEF Retry, At, Locals, Deciding, TypeOK, Purchase
      <3>2. Submit(purchases[me[w].item].by, me[w].item, outcome)
        BY <2>3 DEF Retry
      <3> QED
        BY <3>1, <3>2, SubmitGrows
    <2>4. ASSUME NEW outcome \in Outcomes, Fire(w, outcome)
          PROVE  Grows
      <3>1. me[w].watch \in Watches /\ 0 \in Purchases \cup {0}
        BY <2>1, <2>4 DEF Fire, At, Locals
      <3>2. me[w].watch \in Runs \cup Watches \cup {None} /\ me[w].watch \notin Runs
        BY <3>1, RunAssumption
      <3>3. Submit(me[w].watch, 0, outcome)
        BY <2>4 DEF Fire
      <3> QED
        BY <3>1, <3>2, <3>3, SubmitGrows
    <2>5. CASE ResolveWrite(w)
      <3>1. me[w].item \in Purchases
        BY <2>1, <2>5 DEF ResolveWrite, At, Locals, Deciding
      <3> QED
        BY <1>1, <2>5, <3>1 DEF ResolveWrite, TypeOK, Grows
    <2>6. CASE ExpireWrite(w)
      <3>1. me[w].item \in Purchases
        BY <2>1, <2>6 DEF ExpireWrite, At, Locals, Expiring
      <3> QED
        BY <1>1, <2>6, <3>1 DEF ExpireWrite, TypeOK, Grows
    <2>7. CASE Reject(w) \/ ExpirePurchase(w)
      <3>1. me[w].item \in Purchases /\ escalations[me[w].item] # "none"
        BY <2>1, <2>7 DEF Reject, ExpirePurchase, At, Locals, Deciding, Expiring
      <3>2. purchases[me[w].item].status # "captured"
        BY <3>1 DEF LooseInv, Asked
      <3>3. Voids(me[w].item) /\ escalations' = escalations
        BY <1>1, <2>7, <3>1, VoidsIs DEF Reject, ExpirePurchase
      <3> QED
        BY <3>1, <3>2, <3>3 DEF Voids, Grows
    <2>8. CASE \/ GuideWrite(w) \/ (\E next \in Nodes : Think(w, next))
               \/ Gate(w) \/ Park(w) \/ Receipt(w) \/ Finish(w) \/ Fail(w) \/ Throttle(w)
               \/ ExpireRead(w)
               \/ ResumeRead(w) \/ ResumeMark(w) \/ ResumeSave(w) \/ ResumeEnd(w)
               \/ SweepOne(w) \/ Claim(w) \/ Pass(w) \/ Match(w) \/ Fired(w) \/ Unlock(w)
      <3>1. UNCHANGED <<purchases, escalations>>
        BY <2>8 DEF GuideWrite, Think, Gate, Park, Receipt, Finish, Fail, Throttle,
                    ExpireRead, ResumeRead, ResumeMark, ResumeSave, ResumeEnd, SweepOne, Claim,
                    Pass, Match, Fired, Unlock, tables
      <3> QED
        BY <1>2, <3>1
    <2> QED
      BY <1>3, <2>2, <2>3, <2>4, <2>5, <2>6, <2>7, <2>8 DEF Step
  <1>4. CASE ~\E w \in Workers : Step(w)
    <2>1. UNCHANGED <<purchases, escalations>>
      BY <1>4 DEF Next, Tick, Die, Guide, Start, Answer, Elapse, ComeDue, Cancel, tables, vars
    <2> QED
      BY <1>2, <2>1
  <1> QED
    BY <1>3, <1>4

(* The row of a run that the step does not write. *)
LEMMA OthersRows ==
  ASSUME RunInv, Grows, NEW r \in Runs, runs'[r] = runs[r]
  PROVE  Rows(r)'
  <1>1. Rows(r)
    BY DEF RunInv
  <1>2. CapturedFor(r) # {} => CapturedFor(r)' # {}
    BY DEF CapturedFor, Grows
  <1>3. runs[r].search \/ runs[r].status = "none" => \A u \in Purchases : purchases'[u].by # r
    BY <1>1 DEF Rows, Grows
  <1> QED
    BY <1>1, <1>2, <1>3 DEF Rows, Parked, Grows

(* Another worker on a run whose row the step may write. *)
Leaves(w, r) ==
  \/ runs'[r] = runs[r]
  \/ \A x \in Workers : x # w => me[x].run # r
  \/ /\ runs'[r].status # "none" /\ runs'[r].search = runs[r].search
     /\ runs'[r].node = "await_human" =>
          runs'[r].esc \in Purchases /\ escalations[runs'[r].esc] # "none"
     /\ \A x \in Workers : x # w /\ me[x].run = r => me[x].pc \notin Looping

Joins(w) ==
  \/ me'[w].run \in {me[w].run, None}
  \/ \A x \in Workers : x # w /\ me[x].run = me'[w].run => me[x].pc \notin Looping

LEMMA OthersLoops ==
  ASSUME AnswerInv, RunInv, Grows, NEW w \in Workers, Alone(w), Joins(w),
         \A r \in Runs : Leaves(w, r)
  PROVE  \A x \in Workers : x # w => Loops(x)'
  <1> SUFFICES ASSUME NEW x \in Workers, x # w
               PROVE  Loops(x)'
    OBVIOUS
  <1>1. /\ me'[x] = me[x] /\ Loops(x)
        /\ me[x].pc \in OnRun => me[x].run \in Runs /\ me[x].run # None
    BY Stands, RunAssumption DEF Alone, RunInv
  <1>2. CASE me[x].pc \notin OnRun
    BY <1>1, <1>2 DEF Loops, OnRun, Looping, Resuming
  <1>3. CASE me[x].pc \in OnRun
    <2>0. PICK r \in Runs : r = me[x].run
      BY <1>1, <1>3
    <2>1. /\ runs'[r].status # "none" /\ runs'[r].search = runs[r].search
          /\ me[x].pc \in Looping => runs'[r] = runs[r]
          /\ me[x].pc \in Resuming /\ runs'[r].node = "await_human" =>
               runs'[r].esc \in Purchases /\ escalations'[runs'[r].esc] # "none"
      <3>1. Leaves(w, r) /\ runs[r].status # "none"
        BY <1>1, <1>3, <2>0 DEF Loops
      <3>2. me[x].pc \in Resuming /\ runs[r].node = "await_human" =>
              runs[r].esc \in Purchases /\ escalations[runs[r].esc] # "none"
        BY <1>1, <2>0 DEF Loops, Parked
      <3> QED
        BY <2>0, <3>1, <3>2 DEF Leaves, Grows
    <2>2. me[x].pc \in Looping => \A y \in Workers : me'[y].run = r => y = x
      <3> SUFFICES ASSUME me[x].pc \in Looping, NEW y \in Workers, me'[y].run = r, y # x
                   PROVE  FALSE
        OBVIOUS
      <3>1. \A z \in Workers : me[z].run = r => z = x
        BY <1>1, <2>0 DEF Loops
      <3>2. y = w /\ me[w].run # r
        BY <3>1 DEF Alone
      <3> QED
        BY <1>1, <1>3, <2>0, <3>2 DEF Joins
    <2>3. CapturedFor(r) # {} => \E u \in Purchases : /\ purchases'[u].by = r
                                                     /\ purchases'[u].status = "captured"
      BY DEF CapturedFor, Grows
    <2>4. me[x].pc \in Looping => \A y \in Workers : me'[y].run = me'[x].run => y = x
      BY <1>1, <2>0, <2>2
    <2>5. /\ me[x].pc \in OnRun =>
               runs'[me[x].run].status # "none" /\ me[x].copy.search = runs'[me[x].run].search
          /\ me[x].pc \in Looping => runs'[me[x].run] = runs[me[x].run]
          /\ me[x].pc \in Resuming /\ runs'[me[x].run].node = "await_human" =>
               /\ runs'[me[x].run].esc \in Purchases
               /\ escalations'[runs'[me[x].run].esc] # "none"
      BY <1>1, <2>0, <2>1 DEF Loops
    <2>6. /\ me[x].pc = "loop" /\ me[x].node = "await_human" /\ me[x].item # 0 =>
               me[x].item \in Purchases /\ escalations'[me[x].item] # "none"
          /\ me[x].pc = "guide" /\ me[x].copy.node = "await_human" =>
               me[x].copy.esc \in Purchases /\ escalations'[me[x].copy.esc] # "none"
      BY <1>1 DEF Loops, Grows
    <2>7. me[x].pc = "loop" /\ me[x].node \in {"receipt", "done"} /\ ~me[x].copy.search =>
            {u \in Purchases : purchases'[u].by = me'[x].run /\ purchases'[u].status = "captured"} # {}
      BY <1>1, <2>0, <2>3 DEF Loops
    <2> QED
      BY <1>1, <2>4, <2>5, <2>6, <2>7 DEF Loops, Parked, CapturedFor, Looping
  <1> QED
    BY <1>2, <1>3

(* The row a step writes. *)
FitRow(r, n, s, e) ==
  /\ s # "none"
  /\ s = "awaiting_human" \/ (s = "running" /\ n = "await_human") =>
       e \in Purchases /\ escalations[e] # "none"
  /\ s = "done" => n = "done"
  /\ n \in {"receipt", "done"} /\ ~runs[r].search => CapturedFor(r) # {}
  /\ runs[r].search => n \notin {"gate", "await_human", "receipt"} /\ s # "awaiting_human"

LEMMA WrittenRow ==
  ASSUME RunInv, Grows, NEW r \in Runs, NEW n, NEW s, NEW e, WritesRow(r, n, s, e, runs[r].search),
         FitRow(r, n, s, e)
  PROVE  Rows(r)'
  <1>1. CapturedFor(r) # {} => CapturedFor(r)' # {}
    BY DEF CapturedFor, Grows
  <1>2. runs[r].search => \A u \in Purchases : purchases'[u].by # r
    BY DEF RunInv, Rows, Grows
  <1>3. escalations[e] # "none" /\ e \in Purchases => escalations'[e] # "none"
    BY DEF Grows
  <1>4. runs'[r].node = n /\ runs'[r].status = s /\ runs'[r].esc = e
        /\ runs'[r].search = runs[r].search
    BY DEF WritesRow
  <1> QED
    BY <1>1, <1>2, <1>3, <1>4 DEF Rows, Parked, FitRow

(* A worker on a run writes its row, and goes on or returns. *)
LEMMA RunWriteStep ==
  ASSUME AnswerInv, RunInv, Grows, NEW w \in Workers, Alone(w), NEW r \in Runs,
         me[w].run = r, me[w].pc \in OnRun, me'[w].run \in {r, None},
         NEW n, NEW s, NEW e, WritesRow(r, n, s, e, runs[r].search), FitRow(r, n, s, e),
         n # "await_human" \/ s = "running" \/ me[w].pc \notin Resuming,
         Loops(w)'
  PROVE  RunInv'
  <1>1. \A q \in Runs : Rows(q)'
    BY OthersRows, WrittenRow DEF WritesRow
  <1>2. \A x \in Workers : x # w /\ me[x].run = r => me[x].pc \notin Looping
    BY DEF RunInv, Loops
  <1>3. \A q \in Runs : Leaves(w, q)
    <2>1. me[w].pc \in Looping \/ me[w].pc \in Resuming
      BY DEF OnRun, Looping, Resuming
    <2>2. me[w].pc \in Looping => \A x \in Workers : x # w => me[x].run # r
      BY DEF RunInv, Loops
    <2> QED
      BY <1>2, <2>1, <2>2 DEF Leaves, WritesRow, FitRow
  <1>4. \A x \in Workers : Loops(x)'
    BY <1>3, OthersLoops DEF Joins
  <1> QED
    BY <1>1, <1>4 DEF RunInv

(* A worker that is off the runs after the step. *)
LEMMA OffRun ==
  ASSUME NEW w \in Workers, me'[w].pc \notin OnRun
  PROVE  Loops(w)'
  BY DEF Loops, OnRun, Looping, Resuming

LEMMA IdleOffRun ==
  ASSUME NEW w \in Workers, Ends(w)
  PROVE  Alone(w) /\ me'[w].pc \notin OnRun /\ me'[w].run = None /\ Loops(w)'
  <1>1. Alone(w) /\ me'[w].pc \notin OnRun /\ me'[w].run = None
    BY IdleIs DEF Ends, OnRun
  <1> QED
    BY <1>1, OffRun

(* What a worker on a run knows. *)
LEMMA OnRunIs ==
  ASSUME AnswerInv, RunInv, NEW w \in Workers, me[w].pc \in OnRun
  PROVE  /\ TypeOK /\ me[w].run \in Runs /\ me[w].run # None
         /\ Rows(me[w].run) /\ Loops(w)
         /\ Questions(me[w].item) \/ me[w].item \notin Purchases
         /\ me[w].copy.search = runs[me[w].run].search
  <1>1. TypeOK /\ me[w].run \in Runs /\ me[w].run # None
    BY Stands, RunAssumption
  <1> QED
    BY <1>1 DEF AnswerInv, RunInv, Loops

LEMMA RowsGuideWrite ==
  ASSUME AnswerInv, RunInv, Grows, NEW w \in Workers, GuideWrite(w)
  PROVE  RunInv'
  <1>1. me[w].pc = "guide" /\ me[w].pc \in OnRun
    BY DEF GuideWrite, At, OnRun
  <1>2. PICK r \in Runs : r = me[w].run
    BY <1>1, OnRunIs
  <1>3. /\ TypeOK /\ Rows(r) /\ Loops(w) /\ r # None
        /\ runs[r].status = "running" /\ \A x \in Workers : me[x].run = r => x = w
    BY <1>1, <1>2, OnRunIs DEF RunInv, Loops, Looping
  <1>4. /\ WritesRow(r, runs[r].node, "running", runs[r].esc, runs[r].search)
        /\ Becomes(w, "loop", r, runs[r].node,
                   IF me[w].copy.node = "await_human" THEN me[w].copy.esc ELSE 0,
                   me[w].todo, me[w].watch)
        /\ HasCopy(w, "running", runs[r].search)
    BY <1>2, <1>3, GuideWriteIs
  <1>5. FitRow(r, runs[r].node, "running", runs[r].esc)
    BY <1>3 DEF Rows, Parked, FitRow
  <1>6. Loops(w)'
    <2>1. /\ me'[w].pc = "loop" /\ me'[w].run = r /\ me'[w].node = runs[r].node
          /\ me'[w].copy.status = "running" /\ me'[w].copy.search = runs[r].search
          /\ runs'[r].status = "running" /\ runs'[r].node = runs[r].node
          /\ runs'[r].search = runs[r].search
      BY <1>4 DEF Becomes, HasCopy, WritesRow
    <2>2. \A x \in Workers : me'[x].run = r => x = w
      BY <1>3, <1>4 DEF Becomes, Alone
    <2>3. me'[w].node \in {"receipt", "done"} /\ ~me'[w].copy.search =>
            {u \in Purchases : purchases'[u].by = me'[w].run /\ purchases'[u].status = "captured"} # {}
      BY <1>3, <2>1 DEF Rows, CapturedFor, Grows
    <2>4. me'[w].node \in {"gate", "await_human", "receipt"} => ~me'[w].copy.search
      BY <1>3, <2>1 DEF Rows
    <2>5. me'[w].item # 0 => me'[w].item \in Purchases /\ escalations'[me'[w].item] # "none"
      BY <1>1, <1>3, <1>4 DEF Loops, Becomes, Grows
    <2> QED
      BY <2>1, <2>2, <2>3, <2>4, <2>5 DEF Loops, CapturedFor, Looping, OnRun, Resuming
  <1> QED
    BY <1>1, <1>2, <1>4, <1>5, <1>6, RunWriteStep DEF Becomes, Resuming

(* A worker in the loop that stays there or goes to submit. *)
LEMMA LoopGoes ==
  ASSUME AnswerInv, RunInv, Grows, NEW w \in Workers, me[w].pc = "loop", NEW r \in Runs,
         r = me[w].run, NEW n, n \notin {"await_human", "done", "denied"},
         WritesRow(r, n, "running", me[w].copy.esc, runs[r].search),
         n = "receipt" /\ ~runs[r].search => CapturedFor(r) # {},
         n \in {"gate", "receipt"} => ~runs[r].search,
         NEW p \in {"loop", "submit"}, NEW next,
         Becomes(w, p, r, next, me[w].item, me[w].todo, me[w].watch),
         HasCopy(w, "running", runs[r].search),
         p = "submit" => n = "gate",
         p = "loop" =>
           /\ next \in Asking => n \in Asking
           /\ next # "await_human"
           /\ next \in {"gate", "receipt"} => ~runs[r].search
           /\ next \in {"receipt", "done"} /\ ~runs[r].search => CapturedFor(r) # {}
  PROVE  RunInv'
  <1>1. me[w].pc \in OnRun /\ Loops(w) /\ \A x \in Workers : me[x].run = r => x = w
    BY DEF OnRun, RunInv, Loops, Looping
  <1>2. FitRow(r, n, "running", me[w].copy.esc)
    BY DEF FitRow
  <1>3. Loops(w)'
    <2>1. /\ me'[w].pc = p /\ me'[w].run = r /\ me'[w].node = next
          /\ me'[w].copy.status = "running" /\ me'[w].copy.search = runs[r].search
          /\ runs'[r].status = "running" /\ runs'[r].node = n
          /\ runs'[r].search = runs[r].search
      BY DEF Becomes, HasCopy, WritesRow
    <2>2. \A x \in Workers : me'[x].run = r => x = w
      BY <1>1 DEF Becomes, Alone
    <2>3. p = "loop" /\ next \in {"receipt", "done"} /\ ~me'[w].copy.search =>
            {u \in Purchases : purchases'[u].by = me'[w].run /\ purchases'[u].status = "captured"} # {}
      BY <2>1 DEF CapturedFor, Grows
    <2> QED
      BY <2>1, <2>2, <2>3 DEF Loops, CapturedFor, Looping, OnRun, Resuming
  <1> QED
    BY <1>1, <1>2, <1>3, RunWriteStep DEF Becomes

LEMMA RowsLoop ==
  ASSUME AnswerInv, RunInv, Grows, NEW w \in Workers,
         (\E next \in Nodes : Think(w, next)) \/ Gate(w) \/ Receipt(w)
  PROVE  RunInv'
  <1>1. me[w].pc = "loop" /\ me[w].pc \in OnRun
    BY DEF Think, Gate, Receipt, At, OnRun
  <1>2. PICK r \in Runs : r = me[w].run
    BY <1>1, OnRunIs
  <1>3. TypeOK /\ Loops(w) /\ me[w].copy.search = runs[r].search /\ me[w].copy.status = "running"
    BY <1>1, <1>2, OnRunIs DEF Loops, RunInv
  <1>4. ASSUME NEW next \in Nodes, Think(w, next)
        PROVE  RunInv'
    <2>1. /\ me[w].node \in {"perceive", "search", "propose"}
          /\ next \in {"search", "propose", "denied"} \cup {IF runs[r].search THEN "done" ELSE "gate"}
          /\ WritesRow(r, me[w].node, "running", me[w].copy.esc, runs[r].search)
          /\ Becomes(w, "loop", r, next, me[w].item, me[w].todo, me[w].watch)
          /\ HasCopy(w, "running", runs[r].search)
      BY <1>2, <1>3, <1>4, ThinkIs
    <2> QED
      BY <1>1, <1>2, <2>1, LoopGoes DEF Asking
  <1>5. CASE Gate(w)
    <2>1. /\ me[w].node = "gate"
          /\ WritesRow(r, "gate", "running", me[w].copy.esc, runs[r].search)
          /\ Becomes(w, "submit", r, "gate", me[w].item, me[w].todo, me[w].watch)
          /\ HasCopy(w, "running", runs[r].search)
      BY <1>2, <1>3, <1>5, GateIs DEF MovesTo
    <2>2. ~runs[r].search
      BY <1>1, <1>3, <2>1 DEF Loops
    <2> QED
      BY <1>1, <1>2, <2>1, <2>2, LoopGoes
  <1>6. CASE Receipt(w)
    <2>1. /\ me[w].node = "receipt"
          /\ WritesRow(r, "receipt", "running", me[w].copy.esc, runs[r].search)
          /\ Becomes(w, "loop", r, "done", me[w].item, me[w].todo, me[w].watch)
          /\ HasCopy(w, "running", runs[r].search)
      BY <1>2, <1>3, <1>6, ReceiptIs
    <2>2. ~runs[r].search /\ CapturedFor(r) # {}
      BY <1>1, <1>2, <1>3, <2>1 DEF Loops
    <2> QED
      BY <1>1, <1>2, <2>1, <2>2, LoopGoes DEF Asking
  <1> QED
    BY <1>4, <1>5, <1>6

(* A worker on a run saves its row for the last time. *)
LEMMA RunEnds ==
  ASSUME AnswerInv, RunInv, Grows, NEW w \in Workers, me[w].pc \in OnRun, NEW r \in Runs,
         r = me[w].run, NEW n, NEW s, NEW e, WritesRow(r, n, s, e, runs[r].search), Ends(w),
         FitRow(r, n, s, e), n # "await_human" \/ me[w].pc \notin Resuming
  PROVE  RunInv'
  <1>1. Alone(w) /\ me'[w].run = None /\ Loops(w)'
    BY IdleOffRun
  <1> QED
    BY <1>1, RunWriteStep

LEMMA RowsEnd ==
  ASSUME AnswerInv, RunInv, Grows, NEW w \in Workers,
         Park(w) \/ Finish(w) \/ Fail(w) \/ Throttle(w) \/ ResumeEnd(w)
  PROVE  RunInv'
  <1>1. me[w].pc \in {"loop", "resume_end"} /\ me[w].pc \in OnRun
    BY DEF Park, Finish, Fail, Throttle, ResumeEnd, At, OnRun
  <1>2. PICK r \in Runs : r = me[w].run
    BY <1>1, OnRunIs
  <1>3. TypeOK /\ Loops(w) /\ me[w].copy.search = runs[r].search
    BY <1>1, <1>2, OnRunIs DEF Loops, RunInv
  <1>4. CASE Park(w)
    <2>1. /\ me[w].pc = "loop" /\ me[w].node = "await_human" /\ me[w].item # 0 /\ Ends(w)
          /\ WritesRow(r, "await_human", "awaiting_human", me[w].item, runs[r].search)
      BY <1>2, <1>3, <1>4, ParkIs
    <2>2. me[w].item \in Purchases /\ escalations[me[w].item] # "none" /\ ~runs[r].search
      BY <1>2, <1>3, <2>1 DEF Loops
    <2>3. FitRow(r, "await_human", "awaiting_human", me[w].item)
      BY <2>2 DEF FitRow
    <2> QED
      BY <1>1, <1>2, <2>1, <2>3, RunEnds DEF Resuming
  <1>5. CASE Finish(w)
    <2>1. /\ me[w].pc = "loop" /\ me[w].node \in {"done", "denied"} /\ Ends(w)
          /\ WritesRow(r, me[w].node, me[w].node, me[w].copy.esc, runs[r].search)
      BY <1>2, <1>3, <1>5, FinishIs
    <2>2. me[w].node = "done" /\ ~runs[r].search => CapturedFor(r) # {}
      BY <1>2, <1>3, <2>1 DEF Loops
    <2>3. FitRow(r, me[w].node, me[w].node, me[w].copy.esc)
      BY <2>1, <2>2 DEF FitRow
    <2> QED
      BY <1>1, <1>2, <2>1, <2>3, RunEnds DEF Resuming
  <1>6. CASE Fail(w) \/ Throttle(w)
    <2>1. PICK s \in {"failed", "denied"} :
            /\ me[w].pc = "loop" /\ Ends(w)
            /\ WritesRow(r, me[w].node, s, me[w].copy.esc, runs[r].search)
      BY <1>2, <1>3, <1>6, GiveUpIs
    <2>2. /\ me[w].node \in {"receipt", "done"} /\ ~runs[r].search => CapturedFor(r) # {}
          /\ runs[r].search => me[w].node \notin {"gate", "await_human", "receipt"}
      BY <1>2, <1>3, <2>1 DEF Loops
    <2>3. FitRow(r, me[w].node, s, me[w].copy.esc)
      BY <2>1, <2>2 DEF FitRow
    <2> QED
      BY <1>1, <1>2, <2>1, <2>3, RunEnds DEF Resuming
  <1>7. CASE ResumeEnd(w)
    <2>0. me[w].pc = "resume_end" /\ me[w].node = "denied"
      BY <1>3, <1>7 DEF ResumeEnd, At, Loops, Resuming
    <2>1. WritesRow(r, "denied", "denied", me[w].copy.esc, runs[r].search) /\ Ends(w)
      BY <1>2, <1>3, <1>7, <2>0, ResumeEndIs
    <2>2. FitRow(r, "denied", "denied", me[w].copy.esc)
      BY DEF FitRow
    <2> QED
      BY <1>1, <1>2, <2>1, <2>2, RunEnds
  <1> QED
    BY <1>4, <1>5, <1>6, <1>7

LEMMA RowsResumeMark ==
  ASSUME AnswerInv, RunInv, Grows, NEW w \in Workers, ResumeMark(w)
  PROVE  RunInv'
  <1>1. me[w].pc = "resume_mark" /\ me[w].pc \in OnRun
    BY DEF ResumeMark, At, OnRun
  <1>2. PICK r \in Runs : r = me[w].run
    BY <1>1, OnRunIs
  <1>3. /\ TypeOK /\ Loops(w) /\ Rows(r) /\ me[w].copy.search = runs[r].search
        /\ ~runs[r].search /\ me[w].node = "denied"
        /\ runs[r].node = "await_human" => Parked(r)
    BY <1>1, <1>2, OnRunIs DEF Loops, RunInv, Resuming
  <1>4. /\ WritesRow(r, runs[r].node, "running", runs[r].esc, runs[r].search)
        /\ Becomes(w, "resume_save", r, "denied", me[w].item, me[w].todo, me[w].watch)
        /\ me'[w].copy = me[w].copy
    BY <1>2, <1>3, ResumeMarkIs DEF MovesTo
  <1>5. FitRow(r, runs[r].node, "running", runs[r].esc)
    BY <1>3 DEF FitRow, Rows, Parked
  <1>6. Loops(w)'
    <2>1. /\ me'[w].pc = "resume_save" /\ me'[w].run = r /\ me'[w].node = "denied"
          /\ runs'[r].status = "running" /\ runs'[r].search = runs[r].search
          /\ runs'[r].node = runs[r].node /\ runs'[r].esc = runs[r].esc
      BY <1>4 DEF Becomes, WritesRow
    <2>2. Parked(r) => Parked(r)'
      BY <2>1 DEF Parked, Grows
    <2> QED
      BY <1>3, <1>4, <2>1, <2>2 DEF Loops, Parked, Looping, OnRun, Resuming
  <1> QED
    BY <1>1, <1>2, <1>4, <1>5, <1>6, RunWriteStep DEF Becomes

LEMMA RowsResumeSave ==
  ASSUME AnswerInv, RunInv, Grows, NEW w \in Workers, ResumeSave(w)
  PROVE  RunInv'
  <1>1. me[w].pc = "resume_save" /\ me[w].pc \in OnRun
    BY DEF ResumeSave, At, OnRun
  <1>2. PICK r \in Runs : r = me[w].run
    BY <1>1, OnRunIs
  <1>3. /\ TypeOK /\ Loops(w) /\ me[w].copy.search = runs[r].search
        /\ ~runs[r].search /\ me[w].node = "denied"
    BY <1>1, <1>2, OnRunIs DEF Loops, RunInv, Resuming
  <1>4. /\ WritesRow(r, "gate", "running", me[w].copy.esc, runs[r].search)
        /\ Becomes(w, "resume_end", r, "denied", me[w].item, me[w].todo, me[w].watch)
        /\ HasCopy(w, "running", runs[r].search)
    BY <1>2, <1>3, ResumeSaveIs DEF MovesTo
  <1>5. FitRow(r, "gate", "running", me[w].copy.esc)
    BY <1>3 DEF FitRow
  <1>6. Loops(w)'
    BY <1>3, <1>4 DEF Becomes, HasCopy, WritesRow, Loops, Looping, OnRun, Resuming
  <1> QED
    BY <1>1, <1>2, <1>4, <1>5, <1>6, RunWriteStep DEF Becomes

(* A step that writes no row. *)
LEMMA RunKeepStep ==
  ASSUME AnswerInv, RunInv, Grows, NEW w \in Workers, Alone(w), Joins(w), runs' = runs, Loops(w)'
  PROVE  RunInv'
  <1>1. \A q \in Runs : Rows(q)'
    BY OthersRows
  <1>2. \A q \in Runs : Leaves(w, q)
    BY DEF Leaves
  <1>3. \A x \in Workers : Loops(x)'
    BY <1>2, OthersLoops
  <1> QED
    BY <1>1, <1>3 DEF RunInv

LEMMA RowsGateAnswer ==
  ASSUME AnswerInv, RunInv, Grows, NEW w \in Workers, NEW outcome \in Outcomes,
         GateAnswer(w, outcome)
  PROVE  RunInv'
  <1>1. me[w].pc = "submit" /\ me[w].pc \in OnRun
    BY DEF GateAnswer, At, OnRun
  <1>2. PICK r \in Runs : r = me[w].run
    BY <1>1, OnRunIs
  <1>3. /\ TypeOK /\ Loops(w) /\ me[w].copy.search = runs[r].search /\ r # None
        /\ me[w].copy.status = "running" /\ runs[r].status = "running" /\ runs[r].node = "gate"
        /\ ~runs[r].search /\ \A x \in Workers : me[x].run = r => x = w
    BY <1>1, <1>2, OnRunIs DEF Loops, RunInv, Looping
  <1>4. CASE outcome \in Aborts
    <2>1. PICK s \in {"denied", "failed"} :
            WritesRow(r, "gate", s, me[w].copy.esc, runs[r].search) /\ Ends(w)
      BY <1>2, <1>3, <1>4, GateAnswerIs
    <2>2. FitRow(r, "gate", s, me[w].copy.esc)
      BY <1>3 DEF FitRow
    <2> QED
      BY <1>1, <1>2, <2>1, <2>2, RunEnds
  <1>5. CASE outcome \notin Aborts
    <2>1. /\ runs' = runs /\ Submit(r, 0, outcome) /\ HasCopy(w, "running", runs[r].search)
      BY <1>2, <1>3, <1>5, GateAnswerIs
    <2>2. PICK next \in {"receipt", "await_human", "search", "denied"} :
            /\ next = "receipt" <=> outcome = "captured"
            /\ next = "await_human" <=> outcome = "escalated"
            /\ Becomes(w, "loop", r, next, IF outcome = "escalated" THEN Fresh ELSE me[w].item,
                       me[w].todo, me[w].watch)
      BY <1>2, <1>3, <1>5, GateAnswerIs
    <2>3. outcome \in Recorded => Records(Fresh, r, 0, outcome)
      <3>1. r \in Runs \cup Watches \cup {None} /\ 0 \in Purchases \cup {0}
        OBVIOUS
      <3> QED
        BY <1>3, <2>1, <3>1, SubmitIs DEF Unrecorded, Recorded
    <2>4. next = "receipt" =>
            \E u \in Purchases : purchases'[u].by = r /\ purchases'[u].status = "captured"
      BY <2>2, <2>3 DEF Recorded, Records
    <2>5. next = "await_human" => Fresh \in Purchases /\ escalations'[Fresh] # "none"
      BY <2>2, <2>3 DEF Recorded, Records
    <2>6. /\ me'[w].pc = "loop" /\ me'[w].run = r /\ me'[w].node = next /\ Alone(w)
          /\ me'[w].copy.status = "running" /\ me'[w].copy.search = runs[r].search
          /\ next = "await_human" => me'[w].item = Fresh
      BY <2>1, <2>2 DEF Becomes, HasCopy
    <2>7. \A x \in Workers : me'[x].run = r => x = w
      BY <1>3, <2>6 DEF Alone
    <2>8. /\ next = "await_human" => me'[w].item \in Purchases /\ escalations'[me'[w].item] # "none"
          /\ next \in {"receipt", "done"} =>
               {u \in Purchases : purchases'[u].by = me'[w].run /\ purchases'[u].status = "captured"} # {}
      BY <2>2, <2>4, <2>5, <2>6
    <2>9. Loops(w)'
      BY <1>3, <2>1, <2>2, <2>6, <2>7, <2>8
         DEF Loops, CapturedFor, Looping, OnRun, Resuming, Asking
    <2> QED
      BY <1>2, <2>1, <2>6, <2>9, RunKeepStep DEF Joins
  <1> QED
    BY <1>4, <1>5

LEMMA RowsStart ==
  ASSUME AnswerInv, RunInv, Grows, NEW w \in Workers, NEW r \in Runs, NEW search \in BOOLEAN,
         Start(w, r, search)
  PROVE  RunInv'
  <1>1. TypeOK /\ r # None
    BY RunAssumption DEF AnswerInv
  <1>2. /\ runs[r].status = "none" /\ WritesRow(r, "perceive", "running", 0, search)
        /\ Becomes(w, "loop", r, "perceive", 0, {}, None) /\ HasCopy(w, "running", search)
    BY <1>1, StartIs
  <1>3. \A x \in Workers : me[x].run # r
    BY <1>1, <1>2, Stands DEF RunInv, Loops
  <1>4. \A q \in Runs : Rows(q)'
    <2>1. \A u \in Purchases : purchases'[u].by # r
      BY <1>2 DEF RunInv, Rows, Grows
    <2>2. Rows(r)'
      BY <1>2, <2>1 DEF WritesRow, Rows
    <2> QED
      BY <1>2, <2>2, OthersRows DEF WritesRow
  <1>5. Alone(w) /\ \A x \in Workers : x # w => Loops(x)'
    <2>1. \A q \in Runs : Leaves(w, q)
      BY <1>2, <1>3 DEF Leaves, WritesRow
    <2> QED
      BY <1>2, <1>3, <2>1, OthersLoops DEF Joins, Becomes
  <1>6. Loops(w)'
    <2>1. \A x \in Workers : me'[x].run = r => x = w
      BY <1>3, <1>5 DEF Alone
    <2> QED
      BY <1>2, <2>1
         DEF Becomes, HasCopy, WritesRow, Loops, Looping, OnRun, Resuming, Asking
  <1> QED
    BY <1>4, <1>5, <1>6 DEF RunInv

LEMMA RowsGuide ==
  ASSUME AnswerInv, RunInv, Grows, crossed' = {}, NEW w \in Workers, NEW r \in Runs, Guide(w, r)
  PROVE  RunInv'
  <1>1. TypeOK /\ r # None
    BY RunAssumption DEF AnswerInv
  <1>2. /\ runs[r].status = "running" /\ Untouched(r) /\ runs' = runs
        /\ Becomes(w, "guide", r, "perceive", 0, {}, None) /\ HasCopy(w, "running", runs[r].search)
    BY <1>1, GuideIs DEF tables
  <1>3. \A x \in Workers : me'[x].run = r => x = w
    BY <1>2 DEF Becomes, Alone, Untouched
  <1>4. Loops(w)'
    <2>1. Rows(r) /\ me'[w].copy = runs[r]
      BY <1>1, GuideIs DEF RunInv
    <2>2. me'[w].copy.node = "await_human" =>
            me'[w].copy.esc \in Purchases /\ escalations'[me'[w].copy.esc] # "none"
      BY <1>2, <2>1 DEF Rows, Parked, Grows
    <2> QED
      BY <1>2, <1>3, <2>2 DEF Becomes, HasCopy, Loops, Looping, OnRun, Resuming
  <1> QED
    BY <1>2, <1>4, RunKeepStep DEF Becomes, Joins, Untouched

LEMMA RowsResumeRead ==
  ASSUME AnswerInv, RunInv, Grows, NEW w \in Workers, ResumeRead(w)
  PROVE  RunInv'
  <1>1. TypeOK /\ me[w].item \in Purchases
    BY HoldingIs DEF ResumeRead, At, Holding
  <1>2. runs' = runs
    BY DEF ResumeRead, tables
  <1>3. CASE Ends(w)
    BY <1>2, <1>3, IdleOffRun, RunKeepStep DEF Joins
  <1>4. CASE ~Ends(w)
    <2>1. PICK r \in Runs :
            /\ runs[r].status = "awaiting_human"
            /\ Becomes(w, "resume_mark", r,
                       IF purchases[runs[r].esc].status = "captured" THEN "receipt" ELSE "denied",
                       me[w].item, me[w].todo, me[w].watch)
            /\ HasCopy(w, "awaiting_human", runs[r].search)
      BY <1>1, <1>4, ResumeReadIs
    <2>2. Rows(r)
      BY DEF RunInv
    <2>3. runs[r].esc \in Purchases /\ escalations[runs[r].esc] # "none" /\ ~runs[r].search
      BY <2>1, <2>2 DEF Rows, Parked
    <2>4. purchases[runs[r].esc].status # "captured"
      BY <2>3 DEF AnswerInv, Questions
    <2>5. /\ me'[w].pc = "resume_mark" /\ me'[w].run = r /\ me'[w].node = "denied" /\ Alone(w)
          /\ me'[w].copy.search = runs[r].search
      BY <2>1, <2>4 DEF Becomes, HasCopy
    <2>6. Loops(w)'
      <3>1. Parked(r)'
        BY <1>2, <2>3 DEF Parked, Grows
      <3> QED
        BY <1>2, <2>1, <2>3, <2>5, <3>1 DEF Loops, Parked, Looping, OnRun, Resuming
    <2>7. Joins(w)
      BY <2>1, <2>5 DEF Joins, RunInv, Loops
    <2> QED
      BY <1>2, <2>5, <2>6, <2>7, RunKeepStep
  <1> QED
    BY <1>3, <1>4

(* Steps of a worker that is on no run and stays on none. *)
OffRunStep(w) ==
  \/ \E u \in Purchases, d \in Decisions \ {"none"} : Answer(w, u, d)
  \/ ResolveWrite(w) \/ Reject(w) \/ \E outcome \in Outcomes : Retry(w, outcome)
  \/ ExpireRead(w) \/ ExpireWrite(w) \/ ExpirePurchase(w)
  \/ Tick(w) \/ SweepOne(w) \/ Claim(w) \/ Pass(w) \/ Match(w)
  \/ \E outcome \in Outcomes : Fire(w, outcome)
  \/ Fired(w) \/ Unlock(w) \/ Die(w)

LEMMA OffRunIs ==
  ASSUME LooseInv, NEW w \in Workers, OffRunStep(w)
  PROVE  runs' = runs /\ Alone(w) /\ me'[w].pc \notin OnRun /\ me'[w].run = None
  <1>1. TypeOK /\ Locals(w)
    BY DEF LooseInv
  <1>2. ASSUME runs' = runs, Ends(w)
        PROVE  runs' = runs /\ Alone(w) /\ me'[w].pc \notin OnRun /\ me'[w].run = None
    BY <1>2, IdleOffRun
  <1>3. ASSUME NEW u \in Purchases, NEW d \in Decisions \ {"none"}, Answer(w, u, d)
        PROVE  runs' = runs /\ Alone(w) /\ me'[w].pc \notin OnRun /\ me'[w].run = None
    BY <1>1, <1>3, AnswerIs DEF Becomes, ResolveTo, OnRun, tables
  <1>4. ASSUME me[w].pc \in Deciding \cup Expiring
        PROVE  me[w].item \in Purchases /\ me[w].run = None
    BY <1>4, LooseStands DEF Holding, OnRun, Deciding, Expiring
  <1>5. CASE ResolveWrite(w)
    <2>1. me[w].pc \in Deciding
      BY <1>5 DEF ResolveWrite, At, Deciding
    <2> QED
      BY <1>1, <1>4, <1>5, <2>1, ResolveWriteIs DEF MovesTo, Becomes, OnRun
  <1>6. CASE Reject(w)
    <2>1. me[w].pc \in Deciding
      BY <1>6 DEF Reject, At, Deciding
    <2> QED
      BY <1>1, <1>4, <1>6, <2>1, RejectIs DEF MovesTo, Becomes, OnRun
  <1>7. ASSUME NEW outcome \in Outcomes, Retry(w, outcome)
        PROVE  runs' = runs /\ Alone(w) /\ me'[w].pc \notin OnRun /\ me'[w].run = None
    <2>1. me[w].pc \in Deciding
      BY <1>7 DEF Retry, At, Deciding
    <2> QED
      BY <1>1, <1>2, <1>4, <1>7, <2>1, RetryIs DEF MovesTo, Becomes, OnRun
  <1>8. CASE ExpireRead(w)
    <2>1. me[w].pc \in Expiring
      BY <1>8 DEF ExpireRead, At, Expiring
    <2> QED
      BY <1>1, <1>4, <1>8, <2>1, ExpireReadIs DEF MovesTo, Becomes, OnRun, tables
  <1>9. CASE ExpireWrite(w)
    <2>1. me[w].pc \in Expiring
      BY <1>9 DEF ExpireWrite, At, Expiring
    <2> QED
      BY <1>1, <1>4, <1>9, <2>1, ExpireWriteIs DEF MovesTo, Becomes, OnRun
  <1>10. CASE ExpirePurchase(w)
    <2>1. me[w].pc \in Expiring
      BY <1>10 DEF ExpirePurchase, At, Expiring
    <2> QED
      BY <1>1, <1>4, <1>10, <2>1, ExpirePurchaseIs DEF MovesTo, Becomes, OnRun
  <1>11. CASE Tick(w) \/ SweepOne(w) \/ Claim(w) \/ Pass(w) \/ Match(w) \/ Fired(w)
    <2>1. me[w].run = None
      BY <1>11, LooseStands DEF Tick, SweepOne, Claim, Pass, Match, Fired, At, OnRun
    <2>2. CASE Tick(w)
      BY <1>1, <2>1, <2>2, TickIs DEF Becomes, OnRun, tables
    <2>3. CASE SweepOne(w)
      <3>1. me[w].todo \subseteq Purchases
        BY <1>1, <2>3 DEF SweepOne, At, Locals, TypeOK
      <3> QED
        BY <1>1, <2>1, <2>3, <3>1, SweepOneIs DEF Becomes, OnRun, tables
    <2>4. CASE Claim(w)
      BY <1>1, <2>1, <2>4, ClaimIs DEF Becomes, OnRun, tables
    <2>5. CASE Pass(w)
      BY <1>1, <2>1, <2>5, PassIs DEF Becomes, OnRun, tables
    <2>6. CASE Match(w)
      <3>1. me[w].todo \subseteq Watches
        BY <1>1, <2>6 DEF Match, At, Locals
      <3> QED
        BY <1>1, <2>1, <2>6, <3>1, MatchIs DEF Becomes, OnRun, tables
    <2>7. CASE Fired(w)
      <3>1. me[w].watch \in Watches
        BY <1>1, <2>7 DEF Fired, At, Locals
      <3> QED
        BY <1>1, <2>1, <2>7, <3>1, FiredIs DEF Becomes, OnRun
    <2> QED
      BY <1>11, <2>2, <2>3, <2>4, <2>5, <2>6, <2>7
  <1>12. ASSUME NEW outcome \in Outcomes, Fire(w, outcome)
         PROVE  runs' = runs /\ Alone(w) /\ me'[w].pc \notin OnRun /\ me'[w].run = None
    <2>1. me[w].watch \in Watches /\ me[w].run = None
      BY <1>1, <1>12, LooseStands DEF Fire, At, Locals, OnRun
    <2> QED
      BY <1>1, <1>2, <1>12, <2>1, FireIs DEF Becomes, OnRun
  <1>13. CASE Unlock(w)
    BY <1>1, <1>2, <1>13, UnlockIs DEF tables
  <1>14. CASE Die(w)
    BY <1>1, <1>2, <1>14, DieIs DEF tables
  <1> QED
    BY <1>3, <1>5, <1>6, <1>7, <1>8, <1>9, <1>10, <1>11, <1>12, <1>13, <1>14 DEF OffRunStep

LEMMA RunStep ==
  ASSUME AnswerInv, RunInv, crossed' = {}, [Next]_vars
  PROVE  RunInv'
  <1>0. Grows
    <2>1. \A w \in Workers : Buys(w)
      BY DEF RunInv, Loops, Buys, OnRun
    <2> QED
      BY <2>1, AnswersLoose, GrowsStep
  <1>1. ASSUME NEW w \in Workers, OffRunStep(w)
        PROVE  RunInv'
    <2>1. runs' = runs /\ Alone(w) /\ me'[w].pc \notin OnRun /\ me'[w].run = None
      BY <1>1, AnswersLoose, OffRunIs
    <2> QED
      BY <1>0, <2>1, OffRun, RunKeepStep DEF Joins
  <1>2. ASSUME NEW w \in Workers, Step(w)
        PROVE  RunInv'
    BY <1>0, <1>1, <1>2, RowsGuideWrite, RowsLoop, RowsEnd, RowsResumeMark, RowsResumeSave,
       RowsGateAnswer, RowsResumeRead DEF Step, OffRunStep
  <1>3. ASSUME NEW w \in Workers, NEW r \in Runs,
               Guide(w, r) \/ \E search \in BOOLEAN : Start(w, r, search)
        PROVE  RunInv'
    BY <1>0, <1>3, RowsGuide, RowsStart
  <1>4. ASSUME NEW w \in Workers, \/ Tick(w) \/ Die(w)
                                  \/ \E u \in Purchases, d \in Decisions \ {"none"} : Answer(w, u, d)
        PROVE  RunInv'
    BY <1>1, <1>4 DEF OffRunStep
  <1>5. ASSUME UNCHANGED <<runs, purchases, escalations, me>>
        PROVE  RunInv'
    BY <1>5 DEF RunInv, Rows, Loops, Parked, CapturedFor
  <1>6. ASSUME \/ \E u \in Purchases : Elapse(u)
               \/ \E v \in Watches : ComeDue(v) \/ Cancel(v)
               \/ UNCHANGED vars
        PROVE  RunInv'
    BY <1>5, <1>6 DEF Elapse, ComeDue, Cancel, tables, vars
  <1> QED
    BY <1>2, <1>3, <1>4, <1>6 DEF Next

LEMMA RunInit ==
  ASSUME Init
  PROVE  RunInv
  <1>1. \A u \in Purchases : \A r \in Runs : purchases[u].by # r
    BY RunAssumption DEF Init, NoPurchase
  <1>2. \A r \in Runs : runs[r] = NoRun
    BY DEF Init
  <1>3. \A w \in Workers : me[w] = Idle
    BY DEF Init
  <1>4. \A r \in Runs : Rows(r)
    BY <1>1, <1>2, IdleIs DEF Rows, Parked
  <1>5. \A w \in Workers : Loops(w)
    BY <1>3, IdleIs DEF Loops, OnRun, Looping, Resuming
  <1> QED
    BY <1>4, <1>5 DEF RunInv

(* What crossed stays crossed. *)
LEMMA CrossedGrows ==
  ASSUME [Next]_vars
  PROVE  crossed \subseteq crossed'
  <1>1. ASSUME NEW w \in Workers, Step(w)
        PROVE  crossed' = crossed
    <2>1. ASSUME NEW outcome \in Outcomes, GateAnswer(w, outcome) \/ Retry(w, outcome) \/ Fire(w, outcome)
          PROVE  crossed' = crossed
      BY <2>1 DEF GateAnswer, Retry, Fire
    <2>2. CASE \/ GuideWrite(w) \/ (\E next \in Nodes : Think(w, next)) \/ Gate(w)
               \/ Park(w) \/ Receipt(w) \/ Finish(w) \/ Fail(w) \/ Throttle(w)
               \/ ResumeMark(w) \/ ResumeSave(w) \/ ResumeEnd(w)
      BY <2>2 DEF GuideWrite, Think, Gate, Park, Receipt, Finish, Fail, Throttle, ResumeMark,
                  ResumeSave, ResumeEnd
    <2>3. CASE \/ ResolveWrite(w) \/ Reject(w) \/ ExpireRead(w) \/ ExpireWrite(w)
               \/ ExpirePurchase(w) \/ ResumeRead(w) \/ SweepOne(w) \/ Claim(w) \/ Pass(w)
               \/ Match(w) \/ Fired(w) \/ Unlock(w)
      BY <2>3 DEF ResolveWrite, Reject, ExpireRead, ExpireWrite, ExpirePurchase, ResumeRead,
                  SweepOne, Claim, Pass, Match, Fired, Unlock
    <2> QED
      BY <1>1, <2>1, <2>2, <2>3 DEF Step
  <1>2. ASSUME NEW w \in Workers, Tick(w) \/ Die(w)
        PROVE  crossed' = crossed
    BY <1>2 DEF Tick, Die
  <1>3. ASSUME NEW w \in Workers, NEW r \in Runs,
               Guide(w, r) \/ \E search \in BOOLEAN : Start(w, r, search)
        PROVE  crossed \subseteq crossed'
    BY <1>3 DEF Guide, Start, Cross
  <1>4. ASSUME NEW w \in Workers, NEW u \in Purchases, NEW d \in Decisions \ {"none"}, Answer(w, u, d)
        PROVE  crossed \subseteq crossed'
    BY <1>4 DEF Answer, Cross
  <1>5. ASSUME \/ \E u \in Purchases : Elapse(u)
               \/ \E v \in Watches : ComeDue(v) \/ Cancel(v)
               \/ UNCHANGED vars
        PROVE  crossed \subseteq crossed'
    BY <1>5 DEF Elapse, Cross, ComeDue, Cancel, vars
  <1> QED
    BY <1>1, <1>2, <1>3, <1>4, <1>5 DEF Next

LEMMA RunsAlways == Spec => [](crossed = {} => RunInv)
  <1>1. Init => (crossed = {} => RunInv)
    BY RunInit
  <1>2. AnswerInv /\ (crossed = {} => RunInv) /\ [Next]_vars => (crossed = {} => RunInv)'
    BY RunStep, CrossedGrows
  <1> QED
    BY <1>1, <1>2, AnswersAlways, PTL DEF Spec

----------------------------------------------------------------------------
(* What a run may still cost *)

(* A worker that may ask on its run finds the run open. *)
LEMMA AskingIsOpen ==
  ASSUME AnswerInv, RunInv, NEW w \in Workers, NEW r \in Runs, me[w].run = r, MayAsk(w),
         me[w].pc = "guide" => runs[r].node \in Asking
  PROVE  Open(r)
  <1>1. /\ Loops(w) /\ me[w].pc \in Looping
    BY DEF RunInv, MayAsk, Looping
  <1>2. runs[r].status = "running" /\ \A x \in Workers : me[x].run = r => x = w
    BY <1>1 DEF Loops
  <1>3. runs[r].node \in Asking
    BY <1>1 DEF Loops, MayAsk, Asking
  <1> QED
    BY <1>2, <1>3 DEF Open

(* Runs whose rows and workers the step does not touch. *)
LEMMA OpenElsewhere ==
  ASSUME NEW w \in Workers, Alone(w), NEW q \in Runs, runs'[q] = runs[q],
         me[w].run # q, me'[w].run # q
  PROVE  Open(q)' <=> Open(q)
  BY DEF Open, Alone, MayAsk

LEMMA OpenStepOnRun ==
  ASSUME AnswerInv, RunInv, NEW w \in Workers,
         \/ GuideWrite(w) \/ (\E next \in Nodes : Think(w, next)) \/ Gate(w)
         \/ Park(w) \/ Receipt(w) \/ Finish(w) \/ Fail(w) \/ Throttle(w)
         \/ ResumeMark(w) \/ ResumeSave(w) \/ ResumeEnd(w)
  PROVE  \A q \in Runs : Open(q)' => Open(q)
  <1>1. /\ me[w].pc \in {"guide", "loop", "resume_mark", "resume_save", "resume_end"}
        /\ me[w].pc \in OnRun
    BY DEF GuideWrite, Think, Gate, Park, Receipt, Finish, Fail, Throttle, ResumeMark, ResumeSave,
           ResumeEnd, At, OnRun
  <1>2. PICK r \in Runs : r = me[w].run
    BY <1>1, OnRunIs
  <1>3. /\ TypeOK /\ Loops(w) /\ Rows(r) /\ r # None
        /\ me[w].pc \in {"loop", "resume_end"} => me[w].copy.status = "running"
    BY <1>1, <1>2, OnRunIs DEF RunInv, Loops
  <1>4. ASSUME Alone(w), me'[w].run \in {r, None}, \A q \in Runs : q # r => runs'[q] = runs[q],
               Open(r)' => Open(r)
        PROVE  \A q \in Runs : Open(q)' => Open(q)
    <2> SUFFICES ASSUME NEW q \in Runs
                 PROVE  Open(q)' => Open(q)
      OBVIOUS
    <2>1. CASE q = r
      BY <1>4, <2>1
    <2>2. CASE q # r
      <3>1. me[w].run # q /\ me'[w].run # q /\ runs'[q] = runs[q]
        BY <1>2, <1>4, <2>2, RunAssumption
      <3> QED
        BY <1>4, <3>1, OpenElsewhere
    <2> QED
      BY <2>1, <2>2
  <1>5. ASSUME NEW n, NEW s, NEW e, NEW b, WritesRow(r, n, s, e, b), s \notin {"none", "running"},
               Ends(w)
        PROVE  \A q \in Runs : Open(q)' => Open(q)
    <2>1. ~Open(r)'
      BY <1>5 DEF WritesRow, Open
    <2> QED
      BY <1>4, <1>5, <2>1, IdleOffRun DEF WritesRow
  <1>6. CASE GuideWrite(w)
    <2>1. /\ me[w].pc = "guide"
          /\ WritesRow(r, runs[r].node, "running", runs[r].esc, runs[r].search)
          /\ \E i : Becomes(w, "loop", r, runs[r].node, i, me[w].todo, me[w].watch)
      BY <1>2, <1>3, <1>6, GuideWriteIs
    <2>2. Open(r)' => runs[r].node \in Asking
      BY <2>1 DEF WritesRow, Open
    <2>3. Open(r)' => Open(r)
      BY <1>2, <2>1, <2>2, AskingIsOpen DEF MayAsk
    <2> QED
      BY <1>4, <2>1, <2>3 DEF WritesRow, Becomes
  <1>7. ASSUME NEW next \in Nodes, Think(w, next)
        PROVE  \A q \in Runs : Open(q)' => Open(q)
    <2>1. /\ me[w].pc = "loop" /\ me[w].node \in {"perceive", "search", "propose"}
          /\ WritesRow(r, me[w].node, me[w].copy.status, me[w].copy.esc, me[w].copy.search)
          /\ Becomes(w, "loop", r, next, me[w].item, me[w].todo, me[w].watch)
      BY <1>2, <1>3, <1>7, ThinkIs
    <2>2. Open(r)
      BY <1>2, <2>1, AskingIsOpen DEF MayAsk, Asking
    <2> QED
      BY <1>4, <2>1, <2>2 DEF WritesRow, Becomes
  <1>8. CASE Gate(w)
    <2>1. /\ me[w].pc = "loop" /\ me[w].node = "gate"
          /\ WritesRow(r, "gate", me[w].copy.status, me[w].copy.esc, me[w].copy.search)
          /\ MovesTo(w, "submit")
      BY <1>2, <1>3, <1>8, GateIs
    <2>2. Open(r)
      BY <1>2, <2>1, AskingIsOpen DEF MayAsk, Asking
    <2> QED
      BY <1>2, <1>4, <2>1, <2>2 DEF WritesRow, MovesTo, Becomes
  <1>9. CASE Receipt(w)
    <2>1. /\ WritesRow(r, "receipt", me[w].copy.status, me[w].copy.esc, me[w].copy.search)
          /\ Becomes(w, "loop", r, "done", me[w].item, me[w].todo, me[w].watch)
          /\ me[w].copy.status = "running"
      BY <1>2, <1>3, <1>9, ReceiptIs
    <2>2. ~Open(r)'
      BY <2>1 DEF WritesRow, Open, Asking
    <2> QED
      BY <1>4, <2>1, <2>2 DEF WritesRow, Becomes
  <1>10. CASE Park(w)
    <2>1. PICK e : WritesRow(r, "await_human", "awaiting_human", e, me[w].copy.search) /\ Ends(w)
      BY <1>2, <1>3, <1>10, ParkIs
    <2> QED
      BY <1>5, <2>1
  <1>11. CASE Finish(w)
    <2>1. /\ WritesRow(r, me[w].node, me[w].node, me[w].copy.esc, me[w].copy.search) /\ Ends(w)
          /\ me[w].node \in {"done", "denied"}
      BY <1>2, <1>3, <1>11, FinishIs
    <2> QED
      BY <1>5, <2>1
  <1>12. CASE Fail(w) \/ Throttle(w)
    <2>1. PICK s \in {"failed", "denied"} :
            WritesRow(r, me[w].node, s, me[w].copy.esc, me[w].copy.search) /\ Ends(w)
      BY <1>2, <1>3, <1>12, GiveUpIs
    <2> QED
      BY <1>5, <2>1
  <1>13. CASE ResumeMark(w) \/ ResumeSave(w)
    <2>1. PICK n, e, b : WritesRow(r, n, "running", e, b)
      BY <1>2, <1>3, <1>13, ResumeMarkIs, ResumeSaveIs
    <2>2. MovesTo(w, "resume_save") \/ MovesTo(w, "resume_end")
      BY <1>2, <1>3, <1>13, ResumeMarkIs, ResumeSaveIs
    <2>3. Alone(w) /\ me'[w].run = r /\ ~MayAsk(w)'
      BY <1>2, <2>2 DEF MovesTo, Becomes, MayAsk
    <2>4. ~Open(r)'
      BY <2>1, <2>3 DEF WritesRow, Open
    <2> QED
      BY <1>4, <2>1, <2>3, <2>4 DEF WritesRow
  <1>14. CASE ResumeEnd(w)
    <2>1. me[w].node = "denied"
      BY <1>3, <1>14 DEF ResumeEnd, At, Loops, Resuming
    <2>2. WritesRow(r, "denied", "denied", me[w].copy.esc, me[w].copy.search) /\ Ends(w)
      BY <1>2, <1>3, <1>14, <2>1, ResumeEndIs
    <2> QED
      BY <1>5, <2>2
  <1> QED
    BY <1>6, <1>7, <1>8, <1>9, <1>10, <1>11, <1>12, <1>13, <1>14

LEMMA OpenStepEnter ==
  ASSUME AnswerInv, RunInv, crossed' = {}, NEW w \in Workers,
         \/ \E r \in Runs : Guide(w, r) \/ \E search \in BOOLEAN : Start(w, r, search)
         \/ ResumeRead(w)
  PROVE  \A q \in Runs : Open(q)' => Open(q)
  <1>1. TypeOK /\ me[w].run = None
    BY Stands DEF Guide, Start, ResumeRead, At, OnRun
  <1>2. ASSUME Alone(w), NEW r \in Runs, me'[w].run = r, \A q \in Runs : q # r => runs'[q] = runs[q],
               Open(r)' => Open(r)
        PROVE  \A q \in Runs : Open(q)' => Open(q)
    <2> SUFFICES ASSUME NEW q \in Runs
                 PROVE  Open(q)' => Open(q)
      OBVIOUS
    <2>1. CASE q = r
      BY <1>2, <2>1
    <2>2. CASE q # r
      <3>1. me[w].run # q /\ me'[w].run # q /\ runs'[q] = runs[q]
        BY <1>1, <1>2, <2>2, RunAssumption
      <3> QED
        BY <1>2, <3>1, OpenElsewhere
    <2> QED
      BY <2>1, <2>2
  <1>3. ASSUME NEW r \in Runs, Guide(w, r)
        PROVE  \A q \in Runs : Open(q)' => Open(q)
    <2>1. /\ runs[r].status = "running" /\ Untouched(r) /\ runs' = runs
          /\ Becomes(w, "guide", r, "perceive", 0, {}, None)
      BY <1>1, <1>3, GuideIs DEF tables
    <2>2. Open(r)' => Open(r)
      BY <2>1 DEF Open, Untouched
    <2> QED
      BY <1>2, <2>1, <2>2 DEF Becomes
  <1>4. ASSUME NEW r \in Runs, NEW search \in BOOLEAN, Start(w, r, search)
        PROVE  \A q \in Runs : Open(q)' => Open(q)
    <2>1. /\ runs[r].status = "none" /\ WritesRow(r, "perceive", "running", 0, search)
          /\ Becomes(w, "loop", r, "perceive", 0, {}, None)
      BY <1>1, <1>4, StartIs
    <2>2. Open(r)
      BY <2>1 DEF Open
    <2> QED
      BY <1>2, <2>1, <2>2 DEF Becomes, WritesRow
  <1>5. CASE ResumeRead(w)
    <2>1. runs' = runs /\ me[w].item \in Purchases
      BY <1>5, HoldingIs DEF ResumeRead, tables, At, Holding
    <2>2. CASE Ends(w)
      BY <1>1, <2>1, <2>2, IdleOffRun, OpenElsewhere, RunAssumption
    <2>3. CASE ~Ends(w)
      <3>1. PICK r \in Runs :
              /\ runs[r].status = "awaiting_human"
              /\ Alone(w) /\ me'[w].run = r
        BY <1>1, <1>5, <2>1, <2>3, ResumeReadIs DEF Becomes
      <3>2. ~Open(r)'
        BY <2>1, <3>1 DEF Open
      <3> QED
        BY <1>2, <2>1, <3>1, <3>2
    <2> QED
      BY <2>2, <2>3
  <1> QED
    BY <1>3, <1>4, <1>5

LEMMA OpenStepOff ==
  ASSUME AnswerInv, crossed' = {}, NEW w \in Workers, OffRunStep(w), ~Die(w)
  PROVE  \A q \in Runs : Open(q)' => Open(q)
  <1>1. runs' = runs /\ Alone(w) /\ me'[w].run = None
    BY AnswersLoose, OffRunIs
  <1>2. me[w].pc \notin OnRun
    BY DEF OffRunStep, Answer, ResolveWrite, Reject, Retry, ExpireRead, ExpireWrite,
           ExpirePurchase, Tick, SweepOne, Claim, Pass, Match, Fire, Fired, Unlock, At, OnRun
  <1>3. me[w].run = None
    BY <1>2, Stands
  <1> QED
    BY <1>1, <1>3, OpenElsewhere, RunAssumption

(* The kernel's answer to a run: it was open, and is no longer once it has  *)
(* bought or asked.                                                         *)
LEMMA OpenStepGate ==
  ASSUME AnswerInv, RunInv, NEW w \in Workers, NEW r \in Runs, r = me[w].run,
         NEW outcome \in Outcomes, GateAnswer(w, outcome)
  PROVE  /\ Open(r)
         /\ outcome \in {"captured", "escalated"} => ~Open(r)'
         /\ \A q \in Runs : Open(q)' => Open(q)
  <1>1. me[w].pc = "submit" /\ me[w].pc \in OnRun
    BY DEF GateAnswer, At, OnRun
  <1>2. TypeOK /\ Open(r)
    BY <1>1, AskingIsOpen DEF MayAsk, AnswerInv
  <1>3. /\ Alone(w) /\ me'[w].run \in {r, None}
        /\ \A q \in Runs : q # r => runs'[q] = runs[q]
        /\ outcome \in {"captured", "escalated"} =>
             me'[w].pc = "loop" /\ me'[w].run = r /\ me'[w].node \in {"receipt", "await_human"}
             /\ runs' = runs
    <2>1. CASE outcome \in Aborts
      <3>1. \E s \in {"denied", "failed"} :
              WritesRow(r, "gate", s, me[w].copy.esc, me[w].copy.search) /\ Ends(w)
        BY <1>2, <2>1, GateAnswerIs
      <3> QED
        BY <2>1, <3>1, IdleOffRun DEF WritesRow, Aborts
    <2>2. CASE outcome \notin Aborts
      <3>1. PICK next \in {"receipt", "await_human", "search", "denied"} :
              /\ runs' = runs
              /\ next = "receipt" <=> outcome = "captured"
              /\ next = "await_human" <=> outcome = "escalated"
              /\ Becomes(w, "loop", r, next, IF outcome = "escalated" THEN Fresh ELSE me[w].item,
                         me[w].todo, me[w].watch)
        BY <1>2, <2>2, GateAnswerIs
      <3> QED
        BY <3>1 DEF Becomes
    <2> QED
      BY <2>1, <2>2
  <1>4. outcome \in {"captured", "escalated"} => ~Open(r)'
    <2> SUFFICES ASSUME outcome \in {"captured", "escalated"}
                 PROVE  ~Open(r)'
      OBVIOUS
    <2>1. ~MayAsk(w)' /\ me'[w].run = r
      BY <1>3 DEF MayAsk, Asking
    <2>2. runs[r].status = "running" /\ runs' = runs
      BY <1>1, <1>3 DEF RunInv, Loops, Looping
    <2> QED
      BY <2>1, <2>2 DEF Open
  <1>5. ASSUME NEW q \in Runs
        PROVE  Open(q)' => Open(q)
    <2>1. CASE q = r
      BY <1>2, <2>1
    <2>2. CASE q # r
      BY <1>3, <2>2, OpenElsewhere, RunAssumption
    <2> QED
      BY <2>1, <2>2
  <1> QED
    BY <1>2, <1>4, <1>5

----------------------------------------------------------------------------
(* The accounts of runs and watches *)

(* The accounts of a set that does not grow, that swaps one member and that *)
(* gains one.                                                               *)
LEMMA NoMore ==
  ASSUME NEW S, IsFiniteSet(S), NEW T \in SUBSET S, NEW a \in {0, 1}, NEW b \in {0, 1}, b <= a,
         NEW k \in Nat, Cardinality(S) + a <= 1 + k
  PROVE  IsFiniteSet(T) /\ Cardinality(T) + b <= 1 + k
  <1>1. IsFiniteSet(T) /\ Cardinality(T) <= Cardinality(S)
    BY FS_Subset
  <1>2. Cardinality(S) \in Nat /\ Cardinality(T) \in Nat
    BY <1>1, FS_CardinalityType
  <1> QED
    BY <1>1, <1>2

LEMMA OneForOne ==
  ASSUME NEW S, IsFiniteSet(S), NEW u \in S, NEW f
  PROVE  IsFiniteSet((S \ {u}) \cup {f}) /\ Cardinality((S \ {u}) \cup {f}) <= Cardinality(S)
  <1> DEFINE R == S \ {u}
  <1>1. IsFiniteSet(R) /\ Cardinality(R) = Cardinality(S) - 1
    BY FS_RemoveElement
  <1>2. Cardinality(R) \in Nat /\ Cardinality(S) \in Nat
    BY <1>1, FS_CardinalityType
  <1> HIDE DEF R
  <1>3. /\ IsFiniteSet(R \cup {f})
        /\ Cardinality(R \cup {f}) = (IF f \in R THEN Cardinality(R) ELSE Cardinality(R) + 1)
    BY <1>1, FS_AddElement
  <1>4. IsFiniteSet(R \cup {f}) /\ Cardinality(R \cup {f}) <= Cardinality(S)
    BY <1>1, <1>2, <1>3
  <1> QED
    BY <1>4 DEF R

LEMMA OneMore ==
  ASSUME NEW S, IsFiniteSet(S), NEW f, NEW T \in SUBSET (S \cup {f}), NEW k \in Nat,
         Cardinality(S) + 1 <= 1 + k
  PROVE  IsFiniteSet(T) /\ Cardinality(T) + 0 <= 1 + k
  <1>1. /\ IsFiniteSet(S \cup {f})
        /\ Cardinality(S \cup {f}) = (IF f \in S THEN Cardinality(S) ELSE Cardinality(S) + 1)
    BY FS_AddElement
  <1>2. IsFiniteSet(T) /\ Cardinality(T) <= Cardinality(S \cup {f})
    BY <1>1, FS_Subset
  <1>3. Cardinality(S) \in Nat /\ Cardinality(T) \in Nat
    BY <1>2, FS_CardinalityType
  <1> QED
    BY <1>1, <1>2, <1>3

LEMMA OneDeath ==
  ASSUME NEW S, IsFiniteSet(S), NEW T \in SUBSET S, NEW a \in {0, 1}, NEW b \in {0, 1},
         NEW k \in Nat, Cardinality(S) + a <= 1 + k
  PROVE  IsFiniteSet(T) /\ Cardinality(T) + b <= 1 + (k + 1)
  <1>1. IsFiniteSet(T) /\ Cardinality(T) <= Cardinality(S)
    BY FS_Subset
  <1>2. Cardinality(S) \in Nat /\ Cardinality(T) \in Nat
    BY <1>1, FS_CardinalityType
  <1> QED
    BY <1>1, <1>2

LEMMA RunCostsKept ==
  ASSUME TypeOK, NEW r \in Runs, RunCosts(r), Live(r)' \subseteq Live(r), Open(r)' => Open(r),
         deaths' = deaths
  PROVE  RunCosts(r)'
  <1> DEFINE a == IF Open(r) THEN 1 ELSE 0
             b == IF Open(r)' THEN 1 ELSE 0
  <1>1. a \in {0, 1} /\ b \in {0, 1} /\ b <= a /\ deaths \in Nat
    BY RunAssumption DEF TypeOK
  <1>2. IsFiniteSet(Live(r)) /\ Cardinality(Live(r)) + a <= 1 + deaths
    BY DEF RunCosts
  <1> HIDE DEF a, b
  <1>3. IsFiniteSet(Live(r)') /\ Cardinality(Live(r)') + b <= 1 + deaths
    BY <1>1, <1>2, NoMore
  <1> QED
    BY <1>3 DEF RunCosts, b

LEMMA WatchCostsKept ==
  ASSUME TypeOK, NEW v \in Watches, WatchCosts(v), Counted(v)' \subseteq Counted(v),
         Armed(v)' => Armed(v), deaths' = deaths
  PROVE  WatchCosts(v)'
  <1> DEFINE a == IF Armed(v) THEN 1 ELSE 0
             b == IF Armed(v)' THEN 1 ELSE 0
  <1>1. a \in {0, 1} /\ b \in {0, 1} /\ b <= a /\ deaths \in Nat
    BY RunAssumption DEF TypeOK
  <1>2. IsFiniteSet(Counted(v)) /\ Cardinality(Counted(v)) + a <= 1 + deaths
    BY DEF WatchCosts
  <1> HIDE DEF a, b
  <1>3. IsFiniteSet(Counted(v)') /\ Cardinality(Counted(v)') + b <= 1 + deaths
    BY <1>1, <1>2, NoMore
  <1> QED
    BY <1>3 DEF WatchCosts, b

(* A step that adds to no account. *)
LEMMA CostsKept ==
  ASSUME AnswerInv, CostInv, deaths' = deaths,
         \A r \in Runs : Live(r)' \subseteq Live(r) /\ (Open(r)' => Open(r))
  PROVE  CostInv'
  BY RunCostsKept DEF AnswerInv, CostInv

LEMMA RetryingAfter ==
  ASSUME NEW w \in Workers, Alone(w), me'[w].pc # "retry"
  PROVE  \A u : Retrying(u)' => Retrying(u)
  BY DEF Retrying, Alone

LEMMA ArmedAfter ==
  ASSUME NEW w \in Workers, Alone(w), watches' = watches,
         me[w].pc \notin {"fire", "fired"}, me'[w].pc \notin {"fire", "fired"}
  PROVE  \A v \in Watches : Armed(v)' => Armed(v)
  BY DEF Armed, Alone

(* A step that leaves purchases and escalations alone. *)
LEMMA CostsQuiet ==
  ASSUME AnswerInv, CostInv, NEW w \in Workers, Alone(w), deaths' = deaths,
         UNCHANGED <<purchases, escalations>>, me'[w].pc # "retry",
         \A r \in Runs : Open(r)' => Open(r)
  PROVE  CostInv'
  <1>1. \A r \in Runs : Live(r)' \subseteq Live(r)
    BY RetryingAfter DEF Live
  <1> QED
    BY <1>1, CostsKept

LEMMA CostsOnRun ==
  ASSUME AnswerInv, RunInv, CostInv, NEW w \in Workers,
         \/ GuideWrite(w) \/ (\E next \in Nodes : Think(w, next)) \/ Gate(w)
         \/ Park(w) \/ Receipt(w) \/ Finish(w) \/ Fail(w) \/ Throttle(w)
         \/ ResumeMark(w) \/ ResumeSave(w) \/ ResumeEnd(w)
  PROVE  CostInv'
  <1>1. me[w].pc \in OnRun /\ UNCHANGED <<purchases, escalations, watches, deaths>>
    BY DEF GuideWrite, Think, Gate, Park, Receipt, Finish, Fail, Throttle, ResumeMark, ResumeSave,
           ResumeEnd, At, OnRun
  <1>2. TypeOK /\ me[w].run \in Runs
    BY <1>1, Stands
  <1>3. Alone(w) /\ me'[w].pc \in {"loop", "submit", "resume_save", "resume_end", "idle"}
    <2>1. ASSUME Ends(w)
          PROVE  Alone(w) /\ me'[w].pc \in {"loop", "submit", "resume_save", "resume_end", "idle"}
      BY <2>1, IdleIs DEF Ends
    <2>2. CASE GuideWrite(w)
      BY <1>2, <2>2, GuideWriteIs DEF Becomes
    <2>3. CASE \E next \in Nodes : Think(w, next)
      BY <1>2, <2>3, ThinkIs DEF Becomes
    <2>4. CASE Gate(w)
      BY <1>2, <2>4, GateIs DEF MovesTo, Becomes
    <2>5. CASE Receipt(w)
      BY <1>2, <2>5, ReceiptIs DEF Becomes
    <2>6. CASE Park(w)
      BY <1>2, <2>1, <2>6, ParkIs
    <2>7. CASE Finish(w)
      BY <1>2, <2>1, <2>7, FinishIs
    <2>8. CASE Fail(w) \/ Throttle(w)
      BY <1>2, <2>1, <2>8, GiveUpIs
    <2>9. CASE ResumeMark(w) \/ ResumeSave(w)
      BY <1>2, <2>9, ResumeMarkIs, ResumeSaveIs DEF MovesTo, Becomes
    <2>10. CASE ResumeEnd(w)
      BY <1>2, <2>1, <2>10, ResumeEndIs
    <2> QED
      BY <2>2, <2>3, <2>4, <2>5, <2>6, <2>7, <2>8, <2>9, <2>10
  <1>4. \A r \in Runs : Open(r)' => Open(r)
    BY OpenStepOnRun
  <1> QED
    BY <1>1, <1>3, <1>4, CostsQuiet

LEMMA CostsEnter ==
  ASSUME AnswerInv, RunInv, CostInv, crossed = {}, crossed' = {}, NEW w \in Workers,
         \/ \E r \in Runs : Guide(w, r) \/ \E search \in BOOLEAN : Start(w, r, search)
         \/ ResumeRead(w)
  PROVE  CostInv'
  <1>1. TypeOK /\ me[w].pc \in {"idle", "resume_read"}
        /\ UNCHANGED <<purchases, escalations, watches, deaths>>
    BY DEF AnswerInv, Guide, Start, ResumeRead, At, tables
  <1>2. Alone(w) /\ me'[w].pc \in {"guide", "loop", "resume_mark", "idle"}
    <2>1. CASE \E r \in Runs : Guide(w, r)
      BY <1>1, <2>1, GuideIs DEF Becomes
    <2>2. CASE \E r \in Runs : \E search \in BOOLEAN : Start(w, r, search)
      BY <1>1, <2>2, StartIs DEF Becomes
    <2>3. CASE ResumeRead(w)
      <3>1. me[w].item \in Purchases
        BY <2>3, HoldingIs DEF ResumeRead, At, Holding
      <3>2. CASE Ends(w)
        BY <3>2, IdleIs DEF Ends
      <3>3. CASE ~Ends(w)
        BY <1>1, <2>3, <3>1, <3>3, ResumeReadIs DEF Becomes
      <3> QED
        BY <3>2, <3>3
    <2> QED
      BY <2>1, <2>2, <2>3
  <1>3. \A r \in Runs : Open(r)' => Open(r)
    BY OpenStepEnter
  <1> QED
    BY <1>1, <1>2, <1>3, CostsQuiet

LEMMA CostsOffQuiet ==
  ASSUME AnswerInv, RunInv, CostInv, crossed = {}, crossed' = {}, NEW w \in Workers,
         \/ \E u \in Purchases, d \in Decisions \ {"none"} : Answer(w, u, d)
         \/ ExpireRead(w) \/ Tick(w) \/ SweepOne(w) \/ Claim(w) \/ Pass(w) \/ Match(w)
         \/ Fired(w) \/ Unlock(w)
  PROVE  CostInv'
  <1>1. TypeOK /\ UNCHANGED <<purchases, escalations, deaths>>
    BY DEF AnswerInv, Answer, ExpireRead, Tick, SweepOne, Claim, Pass, Match, Fired, Unlock, tables
  <1>2. OffRunStep(w) /\ ~Die(w)
    <2>1. deaths' # deaths + 1
      BY <1>1 DEF TypeOK
    <2> QED
      BY <2>1 DEF OffRunStep, Die
  <1>3. Alone(w) /\ \A r \in Runs : Open(r)' => Open(r)
    BY <1>2, AnswersLoose, OffRunIs, OpenStepOff
  <1>4. me'[w].pc # "retry"
    <2>1. CASE \E u \in Purchases, d \in Decisions \ {"none"} : Answer(w, u, d)
      BY <1>1, <2>1, AnswerIs DEF Becomes, ResolveTo
    <2>2. CASE ExpireRead(w)
      <3>1. me[w].item \in Purchases
        BY <2>2, HoldingIs DEF ExpireRead, At, Holding, Expiring
      <3> QED
        BY <1>1, <2>2, <3>1, ExpireReadIs DEF MovesTo, Becomes
    <2>3. CASE Tick(w)
      BY <1>1, <2>3, TickIs DEF Becomes
    <2>4. CASE SweepOne(w)
      <3>1. me[w].todo \subseteq Purchases
        BY <1>1, <2>4 DEF SweepOne, At, AnswerInv, Locals, TypeOK
      <3> QED
        BY <1>1, <2>4, <3>1, SweepOneIs DEF Becomes
    <2>5. CASE Claim(w)
      BY <1>1, <2>5, ClaimIs DEF Becomes
    <2>6. CASE Pass(w)
      BY <1>1, <2>6, PassIs DEF Becomes
    <2>7. CASE Unlock(w)
      BY <1>1, <2>7, UnlockIs, IdleIs DEF Ends
    <2>8. CASE Match(w)
      <3>1. me[w].todo \subseteq Watches
        BY <2>8 DEF Match, At, AnswerInv, Locals
      <3> QED
        BY <1>1, <2>8, <3>1, MatchIs DEF Becomes
    <2>9. CASE Fired(w)
      <3>1. me[w].watch \in Watches
        BY <2>9 DEF Fired, At, AnswerInv, Locals
      <3> QED
        BY <1>1, <2>9, <3>1, FiredIs DEF Becomes
    <2> QED
      BY <2>1, <2>2, <2>3, <2>4, <2>5, <2>6, <2>7, <2>8, <2>9
  <1> QED
    BY <1>1, <1>3, <1>4, CostsQuiet

(* An answer is written or a purchase voided. *)
LEMMA CostsWrite ==
  ASSUME AnswerInv, RunInv, CostInv, crossed = {}, crossed' = {}, NEW w \in Workers,
         ResolveWrite(w) \/ ExpireWrite(w) \/ Reject(w) \/ ExpirePurchase(w)
  PROVE  CostInv'
  <1>1. /\ me[w].pc \in {"resolve_write", "expire_write", "reject", "expire_purchase"}
        /\ UNCHANGED <<watches, deaths>>
    BY DEF ResolveWrite, ExpireWrite, Reject, ExpirePurchase, At
  <1>2. TypeOK /\ me[w].item \in Purchases /\ escalations[me[w].item] # "none"
    BY <1>1, HoldingIs DEF Holding, Deciding, Expiring
  <1>3. OffRunStep(w) /\ ~Die(w)
    <2>1. deaths' # deaths + 1
      BY <1>1, <1>2 DEF TypeOK
    <2> QED
      BY <2>1 DEF OffRunStep, Die
  <1>4. Alone(w) /\ \A r \in Runs : Open(r)' => Open(r)
    BY <1>3, AnswersLoose, OffRunIs, OpenStepOff
  <1>5. /\ ~ResolveWrite(w) => me'[w].pc # "retry"
        /\ \/ Voids(me[w].item) /\ escalations' = escalations
           \/ /\ \E e \in {"approved", "rejected", "expired"} : Marks(me[w].item, e)
              /\ purchases' = purchases
        /\ me'[w].item = me[w].item
    <2>1. CASE ResolveWrite(w)
      BY <1>2, <2>1, ResolveWriteIs DEF MovesTo, Becomes
    <2>2. CASE ExpireWrite(w)
      BY <1>2, <2>2, ExpireWriteIs DEF MovesTo, Becomes
    <2>3. CASE Reject(w)
      BY <1>2, <2>3, RejectIs DEF MovesTo, Becomes
    <2>4. CASE ExpirePurchase(w)
      BY <1>2, <2>4, ExpirePurchaseIs DEF MovesTo, Becomes
    <2> QED
      BY <2>1, <2>2, <2>3, <2>4
  <1>6. /\ \A u \in Purchases : purchases'[u].by = purchases[u].by
                                /\ purchases'[u].retries = purchases[u].retries
                                /\ (purchases'[u].status = "captured" =>
                                      purchases[u].status = "captured")
                                /\ (escalations'[u] # "none" => escalations[u] # "none")
                                /\ (escalations'[u] = "pending" => escalations[u] = "pending")
    BY <1>2, <1>5 DEF Voids, Marks
  <1>7. \A u \in Purchases : Retrying(u)' => Retrying(u) \/ escalations[u] = "pending"
    <2>1. CASE ResolveWrite(w)
      <3>1. escalations[me[w].item] = "pending"
        BY <2>1 DEF ResolveWrite, At, AnswerInv, Answers
      <3> QED
        BY <1>4, <1>5, <3>1 DEF Retrying, Alone
    <2>2. CASE ~ResolveWrite(w)
      BY <1>4, <1>5, <2>2, RetryingAfter
    <2> QED
      BY <2>1, <2>2
  <1>8. \A r \in Runs : Live(r)' \subseteq Live(r)
    BY <1>6, <1>7 DEF Live
  <1> QED
    BY <1>1, <1>4, <1>8, CostsKept

(* What a call of submit_purchase adds to the accounts. *)
LEMMA SubmitCosts ==
  ASSUME AnswerInv, NEW w \in Workers, Alone(w), me'[w].pc # "retry",
         NEW by \in Runs \cup Watches \cup {None}, NEW retries \in Purchases \cup {0},
         NEW outcome \in Outcomes, Submit(by, retries, outcome)
  PROVE  \A b : \/ Live(b)' \subseteq Live(b)
                \/ /\ b = by /\ outcome \in {"captured", "escalated"}
                   /\ \E f \in Purchases : Live(b)' \subseteq Live(b) \cup {f}
  <1>1. \A u : Retrying(u)' => Retrying(u)
    BY RetryingAfter
  <1>2. CASE UNCHANGED <<purchases, escalations>>
    BY <1>1, <1>2 DEF Live
  <1>3. CASE Records(Fresh, by, retries, outcome)
    <2>0. PICK f \in Purchases : f = Fresh
      BY <1>3 DEF Records
    <2>1. /\ purchases[f].status = "none" /\ purchases'[f].by = by /\ purchases'[f].retries = retries
          /\ purchases'[f].status = (IF outcome \in {"captured", "lost"} THEN outcome
                                     ELSE "awaiting_escalation")
          /\ escalations'[f] = (IF outcome = "escalated" THEN "pending" ELSE escalations[f])
          /\ \A u \in Purchases : u # f => /\ purchases'[u] = purchases[u]
                                           /\ escalations'[u] = escalations[u]
      BY <1>3, <2>0 DEF Records
    <2>2. escalations[f] = "none"
      BY <2>1 DEF AnswerInv, Questions
    <2>3. ~Retrying(f)'
      BY <1>1, <2>2 DEF Retrying, AnswerInv, Locals, Deciding
    <2>4. \A b : Live(b)' \subseteq Live(b) \cup {f}
      BY <1>1, <2>1 DEF Live
    <2>5. \A b : f \in Live(b)' => b = by /\ outcome \in {"captured", "escalated"}
      BY <2>1, <2>2, <2>3 DEF Live
    <2> QED
      BY <2>4, <2>5
  <1> QED
    BY <1>2, <1>3, SubmitIs DEF AnswerInv

LEMMA CostsGate ==
  ASSUME AnswerInv, RunInv, CostInv, NEW w \in Workers, NEW outcome \in Outcomes,
         GateAnswer(w, outcome)
  PROVE  CostInv'
  <1>1. me[w].pc = "submit" /\ me[w].pc \in OnRun /\ deaths' = deaths
    BY DEF GateAnswer, At, OnRun
  <1>2. PICK r \in Runs : r = me[w].run
    BY <1>1, OnRunIs
  <1>3. TypeOK /\ Submit(r, 0, outcome) /\ r \in Runs \cup Watches \cup {None}
    BY <1>2 DEF AnswerInv, GateAnswer
  <1>4. Alone(w) /\ me'[w].pc \in {"loop", "idle"}
    <2>1. CASE outcome \in Aborts
      BY <1>2, <1>3, <2>1, GateAnswerIs, IdleIs DEF Ends
    <2>2. CASE outcome \notin Aborts
      BY <1>2, <1>3, <2>2, GateAnswerIs DEF Becomes
    <2> QED
      BY <2>1, <2>2
  <1>5. /\ Open(r)
        /\ outcome \in {"captured", "escalated"} => ~Open(r)'
        /\ \A q \in Runs : Open(q)' => Open(q)
    BY <1>2, OpenStepGate
  <1>6. 0 \in Purchases \cup {0}
    OBVIOUS
  <1>7. \A b : \/ Live(b)' \subseteq Live(b)
               \/ /\ b = r /\ outcome \in {"captured", "escalated"}
                  /\ \E f \in Purchases : Live(b)' \subseteq Live(b) \cup {f}
    BY <1>3, <1>4, <1>6, SubmitCosts
  <1>8. ASSUME NEW q \in Runs
        PROVE  RunCosts(q)'
    <2>1. RunCosts(q) /\ (Open(q)' => Open(q))
      BY <1>5 DEF CostInv
    <2>2. CASE Live(q)' \subseteq Live(q)
      BY <1>1, <1>3, <2>1, <2>2, RunCostsKept
    <2>3. CASE ~(Live(q)' \subseteq Live(q))
      <3>1. PICK f \in Purchases : Live(q)' \subseteq Live(q) \cup {f}
        BY <1>7, <2>3
      <3>2. Open(q) /\ ~Open(q)'
        BY <1>5, <1>7, <2>3
      <3>3. IsFiniteSet(Live(q)) /\ Cardinality(Live(q)) + 1 <= 1 + deaths /\ deaths \in Nat
        BY <1>3, <2>1, <3>2, RunAssumption DEF RunCosts, TypeOK
      <3>4. IsFiniteSet(Live(q)') /\ Cardinality(Live(q)') + 0 <= 1 + deaths
        BY <3>1, <3>3, OneMore
      <3> QED
        BY <1>1, <3>2, <3>4 DEF RunCosts
    <2> QED
      BY <2>2, <2>3
  <1> QED
    BY <1>8 DEF CostInv

LEMMA CostsRetry ==
  ASSUME AnswerInv, RunInv, CostInv, crossed = {}, crossed' = {}, NEW w \in Workers, NEW outcome \in Outcomes,
         Retry(w, outcome)
  PROVE  CostInv'
  <1>1. me[w].pc = "retry" /\ deaths' = deaths
    BY DEF Retry, At
  <1>2. PICK u \in Purchases : u = me[w].item
    BY <1>1, HoldingIs DEF Holding, Deciding
  <1>3. TypeOK /\ escalations[u] = "approved" /\ purchases[u].status # "captured"
    BY <1>1, <1>2 DEF AnswerInv, Answers, Questions
  <1>4. PICK by \in Runs \cup Watches \cup {None} : by = purchases[u].by
    BY <1>3 DEF TypeOK, Purchase
  <1>5. /\ Submit(by, u, outcome) /\ u \in Purchases \cup {0} /\ u # 0
        /\ Ends(w) \/ MovesTo(w, "resume_read")
    BY <1>2, <1>3, <1>4, RetryIs, RunAssumption
  <1>6. Alone(w) /\ me'[w].pc \in {"resume_read", "idle"}
    BY <1>5, IdleIs DEF Ends, MovesTo, Becomes
  <1>7. OffRunStep(w) /\ ~Die(w)
    <2>1. deaths' # deaths + 1
      BY <1>1, <1>3 DEF TypeOK
    <2> QED
      BY <2>1 DEF OffRunStep, Die
  <1>8. \A r \in Runs : Open(r)' => Open(r)
    BY <1>7, OpenStepOff
  <1>9. \A b : \/ Live(b)' \subseteq Live(b)
               \/ b = by /\ \E f \in Purchases : Live(b)' \subseteq Live(b) \cup {f}
    BY <1>5, <1>6, SubmitCosts
  <1>10. ~Retrying(u)'
    BY <1>1, <1>2, <1>6 DEF Retrying, Alone, AnswerInv, OneDecides, Deciding
  <1>11. \A b : u \notin Live(b)'
    <2>1. purchases'[u].status # "captured" /\ escalations'[u] # "pending"
      <3>1. purchases[u].status # "none"
        BY <1>3 DEF AnswerInv, Questions
      <3> QED
        BY <1>3, <1>5, <3>1, SubmitIs DEF Records
    <2> QED
      BY <1>10, <2>1 DEF Live
  <1>12. u \in Live(by)
    BY <1>1, <1>2, <1>4 DEF Live, Retrying
  <1>13. ASSUME NEW q \in Runs
         PROVE  RunCosts(q)'
    <2>1. RunCosts(q) /\ (Open(q)' => Open(q))
      BY <1>8 DEF CostInv
    <2>2. CASE Live(q)' \subseteq Live(q)
      BY <1>1, <1>3, <2>1, <2>2, RunCostsKept
    <2>3. CASE ~(Live(q)' \subseteq Live(q))
      <3>1. PICK f \in Purchases : q = by /\ Live(q)' \subseteq Live(q) \cup {f}
        BY <1>9, <2>3
      <3> DEFINE S == (Live(q) \ {u}) \cup {f}
                 a == IF Open(q) THEN 1 ELSE 0
                 b == IF Open(q)' THEN 1 ELSE 0
      <3>2. u \in Live(q) /\ IsFiniteSet(Live(q)) /\ Cardinality(Live(q)) + a <= 1 + deaths
        BY <1>12, <2>1, <3>1 DEF RunCosts
      <3>3. Live(q)' \subseteq S
        BY <1>11, <3>1
      <3>4. IsFiniteSet(S) /\ Cardinality(S) <= Cardinality(Live(q))
        BY <3>2, OneForOne
      <3>5. /\ a \in {0, 1} /\ b \in {0, 1} /\ b <= a /\ deaths \in Nat
        BY <1>3, <2>1, RunAssumption DEF TypeOK
      <3>6. Cardinality(S) \in Nat /\ Cardinality(Live(q)) \in Nat
        BY <3>2, <3>4, FS_CardinalityType
      <3> HIDE DEF S, a, b
      <3>7. Cardinality(S) + a <= 1 + deaths
        BY <3>2, <3>4, <3>5, <3>6
      <3>8. IsFiniteSet(Live(q)') /\ Cardinality(Live(q)') + b <= 1 + deaths
        BY <3>3, <3>4, <3>5, <3>7, NoMore
      <3> QED
        BY <1>1, <3>8 DEF RunCosts, b
    <2> QED
      BY <2>2, <2>3
  <1> QED
    BY <1>13 DEF CostInv

LEMMA CostsFire ==
  ASSUME AnswerInv, RunInv, CostInv, crossed = {}, crossed' = {}, NEW w \in Workers, NEW outcome \in Outcomes,
         Fire(w, outcome)
  PROVE  CostInv'
  <1>1. TypeOK /\ lock = w /\ me[w].pc = "fire" /\ deaths' = deaths
    BY Stands DEF Fire, At, Ticking
  <1>2. PICK v \in Watches : v = me[w].watch
    BY <1>1 DEF AnswerInv, Locals
  <1>3. OffRunStep(w) /\ ~Die(w)
    <2>1. deaths' # deaths + 1
      BY <1>1 DEF TypeOK
    <2> QED
      BY <2>1 DEF OffRunStep, Die
  <1>4. Alone(w) /\ \A r \in Runs : Open(r)' => Open(r)
    BY <1>3, AnswersLoose, OffRunIs, OpenStepOff
  <1>5. /\ Submit(v, 0, outcome) /\ v \in Runs \cup Watches \cup {None} /\ v \notin Runs
        /\ 0 \in Purchases \cup {0} /\ me'[w].pc \in {"idle", "fired", "watching"}
    BY <1>1, <1>2, FireIs, IdleIs, RunAssumption DEF Becomes, Ends
  <1>6. \A b : Live(b)' \subseteq Live(b) \/ b = v
    BY <1>4, <1>5, SubmitCosts
  <1>7. \A q \in Runs : Live(q)' \subseteq Live(q)
    BY <1>5, <1>6
  <1> QED
    BY <1>1, <1>4, <1>7, CostsKept

(* A process that dies may cost one more. *)
LEMMA CostsDie ==
  ASSUME AnswerInv, CostInv, NEW w \in Workers, Die(w)
  PROVE  CostInv'
  <1>1. /\ TypeOK /\ deaths \in Nat /\ deaths' = deaths + 1 /\ Ends(w)
        /\ UNCHANGED <<purchases, escalations>>
    BY DieIs, RunAssumption DEF AnswerInv, TypeOK, tables
  <1>2. Alone(w) /\ me'[w].pc # "retry"
    BY <1>1, IdleIs DEF Ends
  <1>3. ASSUME NEW r \in Runs
        PROVE  RunCosts(r)'
    <2> DEFINE a == IF Open(r) THEN 1 ELSE 0
               b == IF Open(r)' THEN 1 ELSE 0
    <2>1. Live(r)' \subseteq Live(r)
      BY <1>1, <1>2, RetryingAfter DEF Live
    <2>2. IsFiniteSet(Live(r)) /\ Cardinality(Live(r)) + a <= 1 + deaths
      BY DEF CostInv, RunCosts
    <2>3. a \in {0, 1} /\ b \in {0, 1}
      OBVIOUS
    <2> HIDE DEF a, b
    <2>4. IsFiniteSet(Live(r)') /\ Cardinality(Live(r)') + b <= 1 + (deaths + 1)
      BY <1>1, <2>1, <2>2, <2>3, OneDeath
    <2> QED
      BY <1>1, <2>4 DEF RunCosts, b
  <1> QED
    BY <1>3 DEF CostInv

LEMMA CostsClock ==
  ASSUME AnswerInv, CostInv,
         \/ \E u \in Purchases : Elapse(u)
         \/ \E v \in Watches : ComeDue(v) \/ Cancel(v)
         \/ UNCHANGED vars
  PROVE  CostInv'
  <1>1. UNCHANGED <<runs, purchases, escalations, me, deaths>>
    BY DEF Elapse, ComeDue, Cancel, tables, vars
  <1>2. \A r \in Runs : Live(r)' \subseteq Live(r) /\ (Open(r)' => Open(r))
    BY <1>1 DEF Live, Open, Retrying, MayAsk
  <1> QED
    BY <1>1, <1>2, CostsKept

LEMMA CostStep ==
  ASSUME AnswerInv, RunInv, CostInv, crossed = {}, crossed' = {}, [Next]_vars
  PROVE  CostInv'
  <1>1. ASSUME NEW w \in Workers, Step(w)
        PROVE  CostInv'
    BY <1>1, CostsOnRun, CostsEnter, CostsOffQuiet, CostsWrite, CostsGate, CostsRetry, CostsFire
       DEF Step
  <1>2. ASSUME NEW w \in Workers, Tick(w) \/ Die(w)
        PROVE  CostInv'
    BY <1>2, CostsOffQuiet, CostsDie
  <1>3. ASSUME NEW w \in Workers, NEW r \in Runs,
               Guide(w, r) \/ \E search \in BOOLEAN : Start(w, r, search)
        PROVE  CostInv'
    BY <1>3, CostsEnter
  <1>4. ASSUME NEW w \in Workers, NEW u \in Purchases, NEW d \in Decisions \ {"none"},
               Answer(w, u, d)
        PROVE  CostInv'
    BY <1>4, CostsOffQuiet
  <1> QED
    BY <1>1, <1>2, <1>3, <1>4, CostsClock DEF Next

LEMMA CostInit ==
  ASSUME Init
  PROVE  CostInv
  <1>1. \A r \in Runs : Live(r) = {}
    BY RunAssumption DEF Init, NoPurchase, Live
  <1>2. IsFiniteSet({}) /\ Cardinality({}) = 0 /\ deaths = 0
    BY FS_EmptySet DEF Init
  <1> QED
    BY <1>1, <1>2 DEF CostInv, RunCosts

LEMMA CostsAlways == Spec => [](crossed = {} => CostInv)
  <1>1. Init => (crossed = {} => CostInv)
    BY CostInit
  <1>2. /\ AnswerInv /\ (crossed = {} => RunInv) /\ (crossed = {} => CostInv) /\ [Next]_vars
        => (crossed = {} => CostInv)'
    BY CostStep, CrossedGrows
  <1> QED
    BY <1>1, <1>2, AnswersAlways, RunsAlways, PTL DEF Spec

----------------------------------------------------------------------------
(* The theorem about what runs cost *)

LEMMA AtMostBoth ==
  ASSUME NEW A, IsFiniteSet(A), NEW B, IsFiniteSet(B), NEW C \in SUBSET (A \cup B)
  PROVE  /\ Cardinality(C) <= Cardinality(A) + Cardinality(B)
         /\ Cardinality(A) \in Nat /\ Cardinality(B) \in Nat /\ Cardinality(C) \in Nat
  <1>1. /\ IsFiniteSet(A \cup B) /\ IsFiniteSet(A \cap B)
        /\ Cardinality(A \cup B) = Cardinality(A) + Cardinality(B) - Cardinality(A \cap B)
    <2>1. A \cap B \subseteq A
      OBVIOUS
    <2> QED
      BY <2>1, FS_Union, FS_Subset
  <1>2. IsFiniteSet(C) /\ Cardinality(C) <= Cardinality(A \cup B)
    BY <1>1, FS_Subset
  <1>3. /\ Cardinality(A) \in Nat /\ Cardinality(B) \in Nat /\ Cardinality(C) \in Nat
        /\ Cardinality(A \cap B) \in Nat
    BY <1>1, <1>2, FS_CardinalityType
  <1> QED
    BY <1>1, <1>2, <1>3

(* H1, S7: while no two handlers crossed on a run or on an escalation, a    *)
(* run that graph.py drives buys or asks once.  What was paid for it and    *)
(* what is still pending add up to at most one, plus one for each process   *)
(* that died and left a run to be picked up again, and one for each payment *)
(* whose answer was lost: the kernel reports it as a rail error, and the    *)
(* graph tries again.                                                       *)
THEOREM RunsBuyOnce == Spec => []RunBuysOnce
  <1>1. AnswerInv /\ (crossed = {} => CostInv) => RunBuysOnce
    <2> SUFFICES ASSUME AnswerInv, CostInv, NEW r \in Runs
                 PROVE  Cardinality(PaidFor(r)) + Cardinality(Pending(r))
                          <= 1 + deaths + Cardinality(LostFor(r))
      BY DEF RunBuysOnce
    <2>1. CapturedFor(r) \subseteq Live(r) /\ Pending(r) \subseteq Live(r)
      BY DEF CapturedFor, Pending, Live
    <2>2. CapturedFor(r) \cap Pending(r) = {}
      BY DEF CapturedFor, Pending, AnswerInv, Questions
    <2>3. IsFiniteSet(Live(r)) /\ deaths \in Nat
      BY DEF CostInv, RunCosts, AnswerInv, TypeOK
    <2>4. Cardinality(Live(r)) \in Nat
      BY <2>3, FS_CardinalityType
    <2>5. Cardinality(Live(r)) <= 1 + deaths
      <3>1. \/ Cardinality(Live(r)) + 1 <= 1 + deaths
            \/ Cardinality(Live(r)) + 0 <= 1 + deaths
        BY DEF CostInv, RunCosts
      <3> QED
        BY <2>3, <2>4, <3>1
    <2>6. IsFiniteSet(CapturedFor(r)) /\ IsFiniteSet(Pending(r))
      BY <2>1, <2>3, FS_Subset
    <2> DEFINE B == CapturedFor(r) \cup Pending(r)
    <2>7. Cardinality(B) = Cardinality(CapturedFor(r)) + Cardinality(Pending(r)) - Cardinality({})
      BY <2>2, <2>6, FS_Union
    <2>8. /\ Cardinality(CapturedFor(r)) \in Nat /\ Cardinality(Pending(r)) \in Nat
          /\ Cardinality({}) = 0
      BY <2>6, FS_CardinalityType, FS_EmptySet
    <2>9. Cardinality(B) <= Cardinality(Live(r))
      <3>1. B \in SUBSET Live(r)
        BY <2>1
      <3> HIDE DEF B
      <3> QED
        BY <2>3, <3>1, FS_Subset
    <2>10. /\ Cardinality(PaidFor(r)) <= Cardinality(CapturedFor(r)) + Cardinality(LostFor(r))
           /\ Cardinality(PaidFor(r)) \in Nat /\ Cardinality(LostFor(r)) \in Nat
      <3>1. LostFor(r) \subseteq Purchases /\ PaidFor(r) \subseteq CapturedFor(r) \cup LostFor(r)
        BY DEF LostFor, PaidFor, CapturedFor
      <3>2. IsFiniteSet(LostFor(r))
        BY <3>1, FS_Subset, RunAssumption
      <3> QED
        BY <2>6, <3>1, <3>2, AtMostBoth
    <2> HIDE DEF B
    <2>11. Cardinality(B) \in Nat
      BY <2>7, <2>8
    <2>12. Cardinality(CapturedFor(r)) + Cardinality(Pending(r)) <= 1 + deaths
      BY <2>3, <2>4, <2>5, <2>7, <2>8, <2>9
    <2> QED
      BY <2>3, <2>8, <2>10, <2>12
  <1> QED
    BY <1>1, AnswersAlways, CostsAlways, PTL

----------------------------------------------------------------------------
(* Whatever overlaps: what the advisory lock is enough for *)

(* A step of a worker that is not at a watch and adds nothing to its account. *)
Silent(w) ==
  /\ Alone(w) /\ UNCHANGED <<watches, deaths>>
  /\ me[w].pc \notin {"fire", "fired"} /\ me'[w].pc \notin {"fire", "fired"}
  /\ \A v \in Watches : Counted(v)' \subseteq Counted(v)

LEMMA LooseFrom ==
  ASSUME LooseInv, NEW w \in Workers, Alone(w), TypeOK', LockMoves(w),
         \A u \in Purchases : escalations[u] # "none" => escalations'[u] # "none",
         overdue' = overdue,
         Locals(w)',
         \A u \in Purchases : Asked(u)'
  PROVE  LooseInv'
  <1>1. \A x \in Workers : Locals(x)'
    BY OthersLocals DEF LooseInv
  <1> QED
    BY <1>1 DEF LooseInv

(* A step that leaves purchases and escalations alone. *)
LEMMA LooseQuiet ==
  ASSUME LooseInv, NEW w \in Workers, Alone(w), TypeOK', LockMoves(w),
         UNCHANGED <<purchases, escalations, overdue>>, Locals(w)'
  PROVE  LooseInv' /\ \A v \in Watches : Counted(v)' \subseteq Counted(v)
  <1>1. \A u \in Purchases : Asked(u)'
    BY DEF LooseInv, Asked
  <1>2. \A v \in Watches : Counted(v)' \subseteq Counted(v)
    BY DEF Counted
  <1> QED
    BY <1>1, <1>2, LooseFrom

(* A step that calls submit_purchase. *)
LEMMA LooseSubmit ==
  ASSUME LooseInv, NEW w \in Workers, Alone(w), TypeOK', LockMoves(w),
         NEW by \in Runs \cup Watches \cup {None}, NEW retries \in Purchases \cup {0},
         NEW outcome \in Outcomes, Submit(by, retries, outcome), overdue' = overdue,
         Locals(w)'
  PROVE  /\ LooseInv'
         /\ \A v \in Watches :
              \/ Counted(v)' \subseteq Counted(v)
              \/ /\ v = by /\ retries = 0 /\ outcome \in {"captured", "escalated"}
                 /\ \E f \in Purchases : Counted(v)' \subseteq Counted(v) \cup {f}
  <1>1. TypeOK
    BY DEF LooseInv
  <1>2. CASE UNCHANGED <<purchases, escalations>>
    BY <1>2, LooseQuiet
  <1>3. CASE Records(Fresh, by, retries, outcome)
    <2>0. PICK f \in Purchases : f = Fresh
      BY <1>3 DEF Records
    <2>1. /\ purchases[f].status = "none" /\ purchases'[f].by = by /\ purchases'[f].retries = retries
          /\ purchases'[f].status = (IF outcome \in {"captured", "lost"} THEN outcome
                                     ELSE "awaiting_escalation")
          /\ escalations'[f] = (IF outcome = "escalated" THEN "pending" ELSE escalations[f])
          /\ \A u \in Purchases : u # f => /\ purchases'[u] = purchases[u]
                                           /\ escalations'[u] = escalations[u]
      BY <1>3, <2>0 DEF Records
    <2>2. escalations[f] = "none" /\ f \notin overdue
      BY <2>1 DEF LooseInv, Asked
    <2>3. \A u \in Purchases : Asked(u)'
      BY <2>1, <2>2 DEF LooseInv, Asked
    <2>4. \A u \in Purchases : escalations[u] # "none" => escalations'[u] # "none"
      BY <2>1, <2>2
    <2>5. \A v : Counted(v)' \subseteq Counted(v) \cup {f}
      BY <2>1 DEF Counted
    <2>6. \A v : f \in Counted(v)' => v = by /\ retries = 0 /\ outcome \in {"captured", "escalated"}
      BY <2>1, <2>2 DEF Counted
    <2>7. LooseInv'
      BY <2>3, <2>4, LooseFrom
    <2> QED
      BY <2>5, <2>6, <2>7
  <1> QED
    BY <1>1, <1>2, <1>3, SubmitIs

(* A step that writes an answer, or voids the purchase it is about. *)
LEMMA LooseWrite ==
  ASSUME LooseInv, NEW w \in Workers, Alone(w), TypeOK', LockMoves(w), overdue' = overdue,
         NEW u \in Purchases, escalations[u] # "none",
         \/ /\ purchases' = purchases
            /\ \E e \in {"approved", "rejected", "expired"} : Marks(u, e)
         \/ escalations' = escalations /\ Voids(u),
         Locals(w)'
  PROVE  LooseInv' /\ \A v \in Watches : Counted(v)' \subseteq Counted(v)
  <1>1. \A x \in Purchases :
          /\ escalations'[x] # "none" <=> escalations[x] # "none"
          /\ purchases'[x].by = purchases[x].by /\ purchases'[x].retries = purchases[x].retries
          /\ purchases'[x].status = purchases[x].status \/ purchases'[x].status = "rejected"
    BY DEF Marks, Voids
  <1>2. \A x \in Purchases : Asked(x)'
    BY <1>1 DEF LooseInv, Asked
  <1>3. \A v \in Watches : Counted(v)' \subseteq Counted(v)
    BY <1>1 DEF Counted
  <1>4. LooseInv'
    BY <1>1, <1>2, LooseFrom
  <1> QED
    BY <1>3, <1>4

(* A worker on a run goes on, or a worker comes back. *)
LEMMA LooseMove ==
  ASSUME LooseInv, NEW w \in Workers, TypeOK', me[w].pc \notin Ticking \cup Expiring,
         UNCHANGED <<purchases, escalations, watches, overdue, lock, deaths>>,
         \/ Alone(w) /\ me'[w].pc \in Looping /\ me'[w].run # None
         \/ Ends(w)
  PROVE  LooseInv' /\ Silent(w)
  <1>1. lock' # w
    BY LooseStands
  <1>2. Alone(w) /\ Locals(w)' /\ me'[w].pc \notin {"fire", "fired"}
    <2>1. CASE Alone(w) /\ me'[w].pc \in Looping /\ me'[w].run # None
      BY <1>1, <2>1, LoopOwn DEF Looping
    <2>2. CASE Ends(w)
      BY <1>1, <2>2, EndsOwn, IdleIs DEF Ends
    <2> QED
      BY <2>1, <2>2
  <1>3. LooseInv' /\ \A v \in Watches : Counted(v)' \subseteq Counted(v)
    BY <1>2, LooseQuiet DEF LockMoves
  <1> QED
    BY <1>2, <1>3 DEF Silent, Ticking

LEMMA LooseOnRun ==
  ASSUME LooseInv, NEW w \in Workers,
         \/ GuideWrite(w) \/ (\E next \in Nodes : Think(w, next)) \/ Gate(w)
         \/ Park(w) \/ Receipt(w) \/ Finish(w) \/ Fail(w) \/ Throttle(w)
  PROVE  LooseInv' /\ Silent(w)
  <1>1. TypeOK /\ me[w].run \in Runs
    <2>1. me[w].pc \in OnRun
      BY DEF GuideWrite, Think, Gate, Park, Receipt, Finish, Fail, Throttle, At, OnRun
    <2> QED
      BY <2>1, LooseStands
  <1>2. /\ TypeOK' /\ me[w].pc \in {"guide", "loop"}
        /\ UNCHANGED <<purchases, escalations, watches, overdue, lock, deaths>>
        /\ \/ Alone(w) /\ me'[w].pc \in Looping /\ me'[w].run # None
           \/ Ends(w)
    BY <1>1, LoopActions
  <1> QED
    BY <1>2, LooseMove DEF Ticking, Expiring

LEMMA LooseStart ==
  ASSUME LooseInv, NEW w \in Workers, NEW r \in Runs,
         Guide(w, r) \/ \E search \in BOOLEAN : Start(w, r, search)
  PROVE  LooseInv' /\ Silent(w)
  <1>1. TypeOK /\ r # None
    BY RunAssumption DEF LooseInv
  <1>2. /\ TypeOK' /\ me[w].pc = "idle"
        /\ UNCHANGED <<purchases, escalations, watches, overdue, lock, deaths>>
        /\ Alone(w) /\ me'[w].pc \in Looping /\ me'[w].run # None
    <2>1. CASE Guide(w, r)
      BY <1>1, <2>1, GuideIs DEF Becomes, Looping, rest, tables
    <2>2. CASE \E search \in BOOLEAN : Start(w, r, search)
      BY <1>1, <2>2, StartIs DEF Becomes, Looping, rest
    <2> QED
      BY <2>1, <2>2
  <1> QED
    BY <1>2, LooseMove DEF Ticking, Expiring

LEMMA LooseGate ==
  ASSUME LooseInv, NEW w \in Workers, NEW outcome \in Outcomes, GateAnswer(w, outcome)
  PROVE  LooseInv' /\ Silent(w)
  <1>1. TypeOK /\ me[w].pc = "submit" /\ me[w].run \in Runs /\ me[w].run # None /\ lock # w
    BY LooseStands, RunAssumption DEF GateAnswer, At, OnRun, Ticking, Expiring
  <1>2. /\ Submit(me[w].run, 0, outcome) /\ TypeOK' /\ UNCHANGED <<watches, overdue, lock, deaths>>
        /\ me[w].run \in Runs \cup Watches \cup {None} /\ 0 \in Purchases \cup {0}
        /\ me[w].run \notin Watches
    BY <1>1, GateAnswerIs, RunAssumption DEF rest, GateAnswer
  <1>3. /\ Alone(w) /\ Locals(w)' /\ me'[w].pc \in {"loop", "idle"}
    <2>1. CASE outcome \in Aborts
      <3>1. Ends(w)
        BY <1>1, <2>1, GateAnswerIs
      <3> QED
        BY <1>1, <1>2, <3>1, EndsOwn, IdleIs DEF Ends
    <2>2. CASE outcome \notin Aborts
      <3>1. Alone(w) /\ me'[w].pc = "loop" /\ me'[w].run # None
        BY <1>1, <2>2, GateAnswerIs DEF Becomes
      <3> QED
        BY <1>1, <1>2, <3>1, LoopOwn DEF Looping
    <2> QED
      BY <2>1, <2>2
  <1>4. LooseInv' /\ \A v \in Watches : Counted(v)' \subseteq Counted(v) \/ v = me[w].run
    BY <1>2, <1>3, LooseSubmit DEF LockMoves
  <1> QED
    BY <1>1, <1>2, <1>3, <1>4 DEF Silent

LEMMA LooseAnswer ==
  ASSUME LooseInv, NEW w \in Workers, NEW u \in Purchases,
         NEW d \in Decisions \ {"none"}, Answer(w, u, d)
  PROVE  LooseInv' /\ Silent(w)
  <1>1. TypeOK /\ me[w].pc = "idle" /\ lock # w
    BY LooseStands DEF Answer, At, Ticking, Expiring
  <1>2. /\ escalations[u] # "none"
        /\ Becomes(w, ResolveTo(u), None, "perceive", u, {}, None)
        /\ UNCHANGED <<purchases, escalations, watches, overdue, lock, deaths>> /\ TypeOK'
    BY <1>1, AnswerIs DEF rest, tables
  <1>3. /\ Alone(w) /\ me'[w].pc = ResolveTo(u) /\ me'[w].run = None /\ me'[w].item = u
        /\ me'[w].todo = {}
    BY <1>2 DEF Becomes
  <1>4. /\ ResolveTo(u) \in {"resume_read", "expire_read", "resolve_write"}
        /\ ResolveTo(u) = "expire_read" => u \in overdue
    BY DEF ResolveTo
  <1>5. Locals(w)'
    BY <1>1, <1>2, <1>3, <1>4 DEF Locals, OnRun, Deciding, Expiring, Resuming, Ticking
  <1>6. LooseInv' /\ \A v \in Watches : Counted(v)' \subseteq Counted(v)
    BY <1>2, <1>3, <1>5, LooseQuiet DEF LockMoves
  <1> QED
    BY <1>1, <1>2, <1>3, <1>4, <1>6 DEF Silent

LEMMA LooseResolve ==
  ASSUME LooseInv, NEW w \in Workers, ResolveWrite(w) \/ Reject(w) \/ ExpireWrite(w) \/ ExpirePurchase(w)
  PROVE  LooseInv' /\ Silent(w)
  <1>1. /\ TypeOK /\ me[w].item \in Purchases /\ escalations[me[w].item] # "none"
        /\ me[w].run = None
        /\ me[w].pc \in {"resolve_write", "reject", "expire_write", "expire_purchase"}
        /\ me[w].pc \in {"resolve_write", "reject"} => lock # w
        /\ me[w].pc \in {"expire_write", "expire_purchase"} =>
             me[w].todo \subseteq overdue /\ me[w].item \in overdue
    BY LooseStands
       DEF Locals, ResolveWrite, Reject, ExpireWrite, ExpirePurchase, At, Holding, OnRun, Deciding,
           Ticking, Expiring
  <1>2. /\ TypeOK' /\ UNCHANGED <<watches, overdue, lock, deaths>>
        /\ \/ /\ purchases' = purchases
              /\ \E e \in {"approved", "rejected", "expired"} : Marks(me[w].item, e)
           \/ escalations' = escalations /\ Voids(me[w].item)
        /\ \/ me[w].pc = "resolve_write" /\ (MovesTo(w, "reject") \/ MovesTo(w, "retry"))
           \/ me[w].pc = "reject" /\ MovesTo(w, "resume_read")
           \/ me[w].pc = "expire_write" /\ MovesTo(w, "expire_purchase")
           \/ me[w].pc = "expire_purchase" /\ MovesTo(w, "sweeping") /\ lock = w
           \/ me[w].pc = "expire_purchase" /\ MovesTo(w, "resume_read") /\ lock # w
    <2>1. CASE ResolveWrite(w)
      BY <1>1, <2>1, ResolveWriteIs DEF rest
    <2>2. CASE Reject(w)
      BY <1>1, <2>2, RejectIs DEF rest
    <2>3. CASE ExpireWrite(w)
      BY <1>1, <2>3, ExpireWriteIs DEF rest
    <2>4. CASE ExpirePurchase(w)
      BY <1>1, <2>4, ExpirePurchaseIs DEF rest
    <2> QED
      BY <2>1, <2>2, <2>3, <2>4
  <1>3. escalations'[me[w].item] # "none"
    BY <1>1, <1>2 DEF Marks
  <1>4. /\ Alone(w) /\ Locals(w)' /\ me'[w].pc \notin {"fire", "fired"}
    <2>1. ASSUME NEW p \in {"reject", "retry", "resume_read"}, MovesTo(w, p), lock # w
          PROVE  Alone(w) /\ Locals(w)' /\ me'[w].pc \notin {"fire", "fired"}
      BY <1>1, <1>2, <1>3, <2>1
         DEF MovesTo, Becomes, Locals, OnRun, Deciding, Expiring, Resuming, Ticking
    <2>2. ASSUME me[w].pc = "expire_write", MovesTo(w, "expire_purchase")
          PROVE  Alone(w) /\ Locals(w)' /\ me'[w].pc \notin {"fire", "fired"}
      BY <1>1, <1>2, <1>3, <2>2
         DEF MovesTo, Becomes, Locals, OnRun, Deciding, Expiring, Resuming, Ticking
    <2>3. ASSUME me[w].pc = "expire_purchase", MovesTo(w, "sweeping"), lock = w
          PROVE  Alone(w) /\ Locals(w)' /\ me'[w].pc \notin {"fire", "fired"}
      BY <1>1, <1>2, <2>3, SweepOwn DEF MovesTo, Becomes
    <2> QED
      BY <1>1, <1>2, <2>1, <2>2, <2>3
  <1>5. LooseInv' /\ \A v \in Watches : Counted(v)' \subseteq Counted(v)
    BY <1>1, <1>2, <1>4, LooseWrite DEF LockMoves
  <1> QED
    BY <1>1, <1>2, <1>4, <1>5 DEF Silent

LEMMA LooseRetry ==
  ASSUME LooseInv, NEW w \in Workers, NEW outcome \in Outcomes, Retry(w, outcome)
  PROVE  LooseInv' /\ Silent(w)
  <1>1. /\ TypeOK /\ me[w].item \in Purchases /\ escalations[me[w].item] # "none"
        /\ me[w].pc = "retry" /\ me[w].run = None /\ lock # w
    BY LooseStands DEF Retry, At, Holding, OnRun, Deciding, Ticking, Expiring
  <1>2. PICK by \in Runs \cup Watches \cup {None}, i \in Purchases \cup {0} :
          by = purchases[me[w].item].by /\ i = me[w].item
    BY <1>1 DEF TypeOK, Purchase
  <1>3. /\ Submit(by, i, outcome) /\ i # 0
        /\ Ends(w) \/ MovesTo(w, "resume_read")
        /\ TypeOK' /\ UNCHANGED <<watches, overdue, lock, deaths>>
    BY <1>1, <1>2, RetryIs, RunAssumption DEF rest, Retry
  <1>4. escalations'[me[w].item] # "none"
    BY <1>1, <1>2, <1>3, SubmitIs DEF Records
  <1>5. Alone(w) /\ Locals(w)' /\ me'[w].pc \in {"idle", "resume_read"}
    <2>1. CASE Ends(w)
      BY <1>1, <1>3, <2>1, EndsOwn, IdleIs DEF Ends
    <2>2. CASE MovesTo(w, "resume_read")
      BY <1>1, <1>3, <1>4, <2>2, ResumeOwn DEF MovesTo, Becomes
    <2> QED
      BY <1>3, <2>1, <2>2
  <1>6. LooseInv' /\ \A v \in Watches : Counted(v)' \subseteq Counted(v)
    BY <1>3, <1>5, LooseSubmit DEF LockMoves
  <1> QED
    BY <1>1, <1>3, <1>5, <1>6 DEF Silent

LEMMA LooseExpireRead ==
  ASSUME LooseInv, NEW w \in Workers, ExpireRead(w)
  PROVE  LooseInv' /\ Silent(w)
  <1>1. /\ TypeOK /\ me[w].item \in Purchases /\ escalations[me[w].item] # "none"
        /\ me[w].pc = "expire_read"
        /\ me[w].run = None /\ me[w].todo \subseteq overdue /\ me[w].item \in overdue
    BY LooseStands DEF Locals, ExpireRead, At, Holding, OnRun, Expiring
  <1>2. /\ UNCHANGED <<purchases, escalations, watches, overdue, lock, deaths>> /\ TypeOK'
        /\ \/ MovesTo(w, "expire_write")
           \/ MovesTo(w, "sweeping") /\ lock = w
           \/ MovesTo(w, "resume_read") /\ lock # w
    BY <1>1, ExpireReadIs DEF rest, tables
  <1>3. Alone(w) /\ Locals(w)' /\ me'[w].pc \notin {"fire", "fired"}
    <2>1. CASE MovesTo(w, "expire_write")
      BY <1>1, <1>2, <2>1
         DEF MovesTo, Becomes, Locals, OnRun, Deciding, Expiring, Resuming, Ticking
    <2>2. CASE MovesTo(w, "sweeping") /\ lock = w
      BY <1>1, <1>2, <2>2, SweepOwn DEF MovesTo, Becomes
    <2>3. CASE MovesTo(w, "resume_read") /\ lock # w
      BY <1>1, <1>2, <2>3, ResumeOwn DEF MovesTo, Becomes
    <2> QED
      BY <1>2, <2>1, <2>2, <2>3
  <1>4. LooseInv' /\ \A v \in Watches : Counted(v)' \subseteq Counted(v)
    BY <1>2, <1>3, LooseQuiet DEF LockMoves
  <1> QED
    BY <1>1, <1>2, <1>3, <1>4 DEF Silent

LEMMA LooseResume ==
  ASSUME LooseInv, NEW w \in Workers,
         ResumeRead(w) \/ ResumeMark(w) \/ ResumeSave(w) \/ ResumeEnd(w)
  PROVE  LooseInv' /\ Silent(w)
  <1>1. /\ TypeOK /\ me[w].item \in Purchases /\ escalations[me[w].item] # "none" /\ lock # w
        /\ me[w].pc \in Resuming \cup {"resume_read"}
        /\ me[w].pc \in Resuming => me[w].run \in Runs /\ me[w].run # None
    BY LooseStands, RunAssumption
       DEF ResumeRead, ResumeMark, ResumeSave, ResumeEnd, At, Holding, OnRun, Resuming, Deciding,
           Ticking, Expiring
  <1>2. /\ UNCHANGED <<purchases, escalations, watches, overdue, lock, deaths>> /\ TypeOK'
        /\ \/ Ends(w)
           \/ /\ Alone(w) /\ me'[w].pc \in Resuming /\ me'[w].run # None
              /\ me'[w].item = me[w].item
    <2>1. CASE ResumeRead(w)
      <3>1. UNCHANGED <<purchases, escalations, watches, overdue, lock, deaths>> /\ TypeOK'
        BY <1>1, <2>1, ResumeReadIs DEF rest, tables
      <3>2. \/ Ends(w)
            \/ Alone(w) /\ me'[w].pc = "resume_mark" /\ me'[w].run \in Runs
               /\ me'[w].item = me[w].item
        BY <1>1, <2>1, ResumeReadIs DEF Becomes
      <3> QED
        BY <3>1, <3>2, RunAssumption DEF Resuming
    <2>2. CASE ResumeMark(w) \/ ResumeSave(w)
      <3>1. me[w].pc \in Resuming
        BY <2>2 DEF ResumeMark, ResumeSave, At, Resuming
      <3> QED
        BY <1>1, <2>2, <3>1, ResumeMarkIs, ResumeSaveIs DEF MovesTo, Becomes, rest, Resuming
    <2>3. CASE ResumeEnd(w)
      <3>1. me[w].pc = "resume_end"
        BY <2>3 DEF ResumeEnd, At
      <3> QED
        BY <1>1, <2>3, <3>1, ResumeEndIs DEF rest, Resuming
    <2> QED
      BY <2>1, <2>2, <2>3
  <1>3. Alone(w) /\ Locals(w)' /\ me'[w].pc \notin {"fire", "fired"}
    <2>1. CASE Ends(w)
      BY <1>1, <1>2, <2>1, EndsOwn, IdleIs DEF Ends
    <2>2. CASE /\ Alone(w) /\ me'[w].pc \in Resuming /\ me'[w].run # None
               /\ me'[w].item = me[w].item
      BY <1>1, <1>2, <2>2 DEF Locals, OnRun, Deciding, Expiring, Resuming, Ticking
    <2> QED
      BY <1>2, <2>1, <2>2
  <1>4. LooseInv' /\ \A v \in Watches : Counted(v)' \subseteq Counted(v)
    BY <1>2, <1>3, LooseQuiet DEF LockMoves
  <1> QED
    BY <1>1, <1>2, <1>3, <1>4 DEF Silent, Resuming

LEMMA LooseSweep ==
  ASSUME LooseInv, NEW w \in Workers, Tick(w) \/ SweepOne(w) \/ Claim(w) \/ Pass(w) \/ Unlock(w)
  PROVE  LooseInv' /\ Silent(w)
  <1>1. /\ TypeOK /\ me[w].run = None /\ me[w].pc \in {"idle", "sweeping", "watching"}
        /\ me[w].pc \in {"sweeping", "watching"} => lock = w
        /\ me[w].pc = "sweeping" => me[w].todo \subseteq overdue
        /\ me[w].pc = "watching" => me[w].todo \subseteq Watches
    BY LooseStands DEF Locals, Tick, SweepOne, Claim, Pass, Unlock, At, OnRun, Ticking
  <1>2. /\ TypeOK' /\ UNCHANGED <<purchases, escalations, watches, overdue, deaths>>
        /\ LockMoves(w) /\ Alone(w) /\ Locals(w)' /\ me'[w].pc \notin {"fire", "fired"}
    <2>1. CASE Tick(w)
      <3>1. /\ UNCHANGED <<purchases, escalations, watches, overdue, deaths>> /\ TypeOK'
            /\ lock = None /\ lock' = w
            /\ Alone(w) /\ me'[w].pc = "sweeping" /\ me'[w].run = None
            /\ me'[w].todo \subseteq overdue'
        BY <1>1, <2>1, TickIs DEF Becomes, tables
      <3> QED
        BY <3>1, SweepOwn DEF LockMoves
    <2>2. CASE SweepOne(w)
      <3>1. me[w].pc = "sweeping" /\ lock = w
        BY <1>1, <2>2 DEF SweepOne, At
      <3>2. me[w].todo \subseteq Purchases
        BY <1>1, <3>1 DEF TypeOK
      <3>3. PICK u \in me[w].todo :
              /\ UNCHANGED <<purchases, escalations, watches, overdue, lock, deaths>> /\ TypeOK'
              /\ Alone(w) /\ me'[w].pc = "expire_read" /\ me'[w].run = None
              /\ me'[w].item = u /\ me'[w].todo \subseteq me[w].todo
        BY <1>1, <2>2, <3>2, SweepOneIs DEF Becomes, rest, tables
      <3>4. u \in Purchases /\ u \in overdue /\ escalations[u] # "none"
        BY <1>1, <3>1, <3>2, <3>3 DEF LooseInv, Asked
      <3>5. Locals(w)'
        BY <1>1, <3>1, <3>3, <3>4 DEF Locals, OnRun, Deciding, Expiring, Resuming, Ticking
      <3> QED
        BY <3>3, <3>5 DEF LockMoves
    <2>3. CASE Claim(w)
      <3>1. me[w].pc = "sweeping" /\ lock = w
        BY <1>1, <2>3 DEF Claim, At
      <3>2. /\ UNCHANGED <<purchases, escalations, watches, overdue, lock, deaths>> /\ TypeOK'
            /\ Alone(w) /\ me'[w].pc = "watching" /\ me'[w].run = None
            /\ me'[w].todo \subseteq Watches
        BY <1>1, <2>3, ClaimIs DEF Becomes, tables
      <3> QED
        BY <3>1, <3>2, WatchOwn DEF LockMoves
    <2>4. CASE Pass(w)
      <3>1. me[w].pc = "watching" /\ lock = w
        BY <1>1, <2>4 DEF Pass, At
      <3>2. /\ UNCHANGED <<purchases, escalations, watches, overdue, lock, deaths>> /\ TypeOK'
            /\ Alone(w) /\ me'[w].pc = "watching" /\ me'[w].run = None
            /\ me'[w].todo \subseteq Watches
        BY <1>1, <2>4, <3>1, PassIs DEF Becomes, tables
      <3> QED
        BY <3>1, <3>2, WatchOwn DEF LockMoves
    <2>5. CASE Unlock(w)
      <3>1. me[w].pc = "watching" /\ lock = w
        BY <1>1, <2>5 DEF Unlock, At
      <3>2. /\ UNCHANGED <<purchases, escalations, watches, overdue, deaths>> /\ TypeOK'
            /\ Ends(w) /\ lock' = None
        BY <1>1, <2>5, UnlockIs DEF tables
      <3>3. Locals(w)' /\ Alone(w) /\ me'[w].pc = "idle"
        BY <3>2, EndsOwn, IdleIs, RunAssumption DEF Ends
      <3> QED
        BY <3>1, <3>2, <3>3 DEF LockMoves
    <2> QED
      BY <2>1, <2>2, <2>3, <2>4, <2>5
  <1>3. LooseInv' /\ \A v \in Watches : Counted(v)' \subseteq Counted(v)
    BY <1>2, LooseQuiet
  <1> QED
    BY <1>1, <1>2, <1>3 DEF Silent

(* A silent step costs no watch anything. *)
LEMMA WatchSilent ==
  ASSUME LooseInv, WatchInv, NEW w \in Workers, Silent(w)
  PROVE  WatchInv'
  <1>1. TypeOK
    BY DEF LooseInv
  <1>2. \A v \in Watches : Armed(v)' => Armed(v)
    BY ArmedAfter DEF Silent
  <1> QED
    BY <1>1, <1>2, WatchCostsKept DEF WatchInv, Silent

(* Only the holder of the lock is at work on a watch. *)
LEMMA OneFires ==
  ASSUME LooseInv, NEW w \in Workers, lock = w, NEW x \in Workers,
         me[x].pc \in {"fire", "fired"}
  PROVE  x = w
  BY DEF LooseInv, Locals, Ticking

LEMMA LooseMatch ==
  ASSUME LooseInv, WatchInv, NEW w \in Workers, Match(w) \/ Fired(w)
  PROVE  LooseInv' /\ WatchInv'
  <1>1. /\ TypeOK /\ me[w].run = None /\ lock = w /\ me[w].todo \subseteq Watches
        /\ me[w].pc \in {"watching", "fired"}
        /\ me[w].pc = "fired" => me[w].watch \in Watches
    BY LooseStands DEF Locals, Match, Fired, At, OnRun, Ticking
  <1>2. CASE Match(w)
    <2>1. me[w].pc = "watching"
      BY <1>2 DEF Match, At
    <2>2. PICK v \in Watches, t \in SUBSET me[w].todo, p \in {"fire", "fired"} :
            /\ watches[v] = "active"
            /\ Becomes(w, p, me[w].run, me[w].node, me[w].item, t, v)
      BY <1>1, <1>2, MatchIs
    <2>3. TypeOK' /\ UNCHANGED <<purchases, escalations, watches, overdue, lock, deaths>>
      BY <1>1, <1>2, MatchIs DEF tables
    <2>4. /\ Alone(w) /\ me'[w].pc = p /\ me'[w].watch = v /\ me'[w].run = None
          /\ me'[w].todo \subseteq Watches
      BY <1>1, <2>2 DEF Becomes
    <2>5. Locals(w)'
      BY <1>1, <2>2, <2>3, <2>4, WatchOwn
    <2>6. LooseInv' /\ \A y \in Watches : Counted(y)' \subseteq Counted(y)
      BY <2>3, <2>4, <2>5, LooseQuiet DEF LockMoves
    <2>7. \A x \in Workers : me[x].pc \notin {"fire", "fired"}
      BY <1>1, <2>1, OneFires
    <2>8. \A y \in Watches : Armed(y)' => Armed(y)
      BY <2>2, <2>3, <2>4, <2>7 DEF Armed, Alone
    <2> QED
      BY <1>1, <2>3, <2>6, <2>8, WatchCostsKept DEF WatchInv
  <1>3. CASE Fired(w)
    <2>1. me[w].pc = "fired" /\ me[w].watch \in Watches
      BY <1>1, <1>3 DEF Fired, At
    <2>2. /\ TypeOK' /\ UNCHANGED <<purchases, escalations, overdue, lock, deaths>>
          /\ watches'[me[w].watch] = "fired" /\ Alone(w) /\ me'[w].pc = "watching"
          /\ me'[w].run = None /\ me'[w].todo = me[w].todo
          /\ \A v \in Watches : v # me[w].watch => watches'[v] = watches[v]
      BY <1>1, <1>3, <2>1, FiredIs DEF Becomes, rest
    <2>3. Locals(w)'
      BY <1>1, <2>2, WatchOwn
    <2>4. LooseInv' /\ \A y \in Watches : Counted(y)' \subseteq Counted(y)
      BY <2>2, <2>3, LooseQuiet DEF LockMoves
    <2>5. \A y \in Watches : Armed(y)' => Armed(y)
      BY <1>1, <2>1, <2>2, OneFires DEF Armed, Alone
    <2> QED
      BY <1>1, <2>2, <2>4, <2>5, WatchCostsKept DEF WatchInv
  <1> QED
    BY <1>2, <1>3

LEMMA LooseFire ==
  ASSUME LooseInv, WatchInv, NEW w \in Workers, NEW outcome \in Outcomes, Fire(w, outcome)
  PROVE  LooseInv' /\ WatchInv'
  <1>1. /\ TypeOK /\ me[w].pc = "fire" /\ me[w].run = None /\ lock = w
        /\ me[w].todo \subseteq Watches /\ me[w].watch \in Watches
    BY LooseStands DEF Locals, Fire, At, OnRun, Ticking
  <1>2. PICK v \in Watches : v = me[w].watch
    BY <1>1
  <1>3. /\ Submit(v, 0, outcome) /\ UNCHANGED <<watches, overdue, deaths>> /\ TypeOK'
        /\ v \in Runs \cup Watches \cup {None} /\ 0 \in Purchases \cup {0}
    BY <1>1, <1>2, FireIs
  <1>4. \/ outcome = "raised" /\ Ends(w) /\ lock' = None
        \/ /\ lock' = lock /\ Alone(w) /\ me'[w].run = None /\ me'[w].todo = me[w].todo
           /\ \/ outcome \in Fires /\ me'[w].pc = "fired" /\ me'[w].watch = v
              \/ outcome \notin Fires /\ me'[w].pc = "watching"
    BY <1>1, <1>2, FireIs DEF Becomes
  <1>5. /\ Alone(w) /\ LockMoves(w) /\ Locals(w)'
        /\ me'[w].pc \in {"idle", "fired", "watching"}
        /\ me'[w].pc = "fired" => me'[w].watch = v
        /\ outcome \in Fires => me'[w].pc = "fired"
    <2>1. CASE outcome = "raised" /\ Ends(w) /\ lock' = None
      BY <1>1, <2>1, EndsOwn, IdleIs, RunAssumption DEF Ends, LockMoves, Fires
    <2>2. CASE /\ lock' = lock /\ Alone(w) /\ me'[w].run = None /\ me'[w].todo = me[w].todo
               /\ \/ outcome \in Fires /\ me'[w].pc = "fired" /\ me'[w].watch = v
                  \/ outcome \notin Fires /\ me'[w].pc = "watching"
      <3>1. Locals(w)'
        BY <1>1, <2>2, WatchOwn
      <3> QED
        BY <2>2, <3>1 DEF LockMoves
    <2> QED
      BY <1>4, <2>1, <2>2
  <1>6. /\ LooseInv'
        /\ \A y \in Watches :
             \/ Counted(y)' \subseteq Counted(y)
             \/ /\ y = v /\ outcome \in {"captured", "escalated"}
                /\ \E f \in Purchases : Counted(y)' \subseteq Counted(y) \cup {f}
    BY <1>3, <1>5, LooseSubmit
  <1>7. /\ Armed(v) /\ (outcome \in Fires => ~Armed(v)')
        /\ \A y \in Watches : Armed(y)' => Armed(y)
    <2>1. Armed(v)
      BY <1>1, <1>2 DEF Armed
    <2>2. \A x \in Workers : x # w => me[x].pc \notin {"fire", "fired"} /\ me'[x] = me[x]
      BY <1>1, <1>5, OneFires DEF Alone
    <2>3. outcome \in Fires => ~Armed(v)'
      BY <1>5, <2>2 DEF Armed
    <2>4. \A y \in Watches : y # v /\ Armed(y)' => Armed(y)
      BY <1>1, <1>2, <1>3, <1>5, <2>2 DEF Armed
    <2> QED
      BY <2>1, <2>3, <2>4
  <1>8. ASSUME NEW y \in Watches
        PROVE  WatchCosts(y)'
    <2>1. WatchCosts(y) /\ (Armed(y)' => Armed(y))
      BY <1>7 DEF WatchInv
    <2>2. CASE Counted(y)' \subseteq Counted(y)
      BY <1>1, <1>3, <2>1, <2>2, WatchCostsKept
    <2>3. CASE ~(Counted(y)' \subseteq Counted(y))
      <3>1. PICK f \in Purchases : Counted(y)' \subseteq Counted(y) \cup {f}
        BY <1>6, <2>3
      <3>2. Armed(y) /\ ~Armed(y)'
        BY <1>6, <1>7, <2>3 DEF Fires
      <3>3. IsFiniteSet(Counted(y)) /\ Cardinality(Counted(y)) + 1 <= 1 + deaths /\ deaths \in Nat
        BY <1>1, <2>1, <3>2, RunAssumption DEF WatchCosts, TypeOK
      <3>4. IsFiniteSet(Counted(y)') /\ Cardinality(Counted(y)') + 0 <= 1 + deaths
        BY <3>1, <3>3, OneMore
      <3> QED
        BY <1>3, <3>2, <3>4 DEF WatchCosts
    <2> QED
      BY <2>2, <2>3
  <1> QED
    BY <1>6, <1>8 DEF WatchInv

(* A process that dies may cost one more. *)
LEMMA LooseDie ==
  ASSUME LooseInv, WatchInv, NEW w \in Workers, Die(w)
  PROVE  LooseInv' /\ WatchInv'
  <1>1. /\ TypeOK /\ TypeOK' /\ Ends(w) /\ lock' = (IF lock = w THEN None ELSE lock)
        /\ deaths \in Nat /\ deaths' = deaths + 1
        /\ UNCHANGED <<purchases, escalations, overdue>>
    BY DieIs, RunAssumption DEF LooseInv, TypeOK, tables
  <1>2. lock' # w /\ LockMoves(w)
    BY <1>1, RunAssumption DEF LockMoves
  <1>3. Locals(w)' /\ Alone(w)
    BY <1>1, <1>2, EndsOwn DEF Ends
  <1>4. LooseInv' /\ \A v \in Watches : Counted(v)' \subseteq Counted(v)
    BY <1>1, <1>2, <1>3, LooseQuiet
  <1>5. ASSUME NEW v \in Watches
        PROVE  WatchCosts(v)'
    <2> DEFINE a == IF Armed(v) THEN 1 ELSE 0
               b == IF Armed(v)' THEN 1 ELSE 0
    <2>1. IsFiniteSet(Counted(v)) /\ Cardinality(Counted(v)) + a <= 1 + deaths
      BY DEF WatchInv, WatchCosts
    <2>2. a \in {0, 1} /\ b \in {0, 1}
      OBVIOUS
    <2> HIDE DEF a, b
    <2>3. IsFiniteSet(Counted(v)') /\ Cardinality(Counted(v)') + b <= 1 + (deaths + 1)
      BY <1>1, <1>4, <2>1, <2>2, OneDeath
    <2> QED
      BY <1>1, <2>3 DEF WatchCosts, b
  <1> QED
    BY <1>4, <1>5 DEF WatchInv

LEMMA LooseClock ==
  ASSUME LooseInv, WatchInv,
         \/ \E u \in Purchases : Elapse(u)
         \/ \E v \in Watches : ComeDue(v) \/ Cancel(v)
         \/ UNCHANGED vars
  PROVE  LooseInv' /\ WatchInv'
  <1>1. TypeOK /\ UNCHANGED <<purchases, escalations, lock, me, deaths>>
    BY DEF LooseInv, Elapse, ComeDue, Cancel, tables, vars
  <1>2. TypeOK' /\ \A v \in Watches : watches'[v] = watches[v] \/ watches'[v] = "cancelled"
    <2>1. ASSUME NEW u \in Purchases, Elapse(u)
          PROVE  TypeOK' /\ UNCHANGED watches
      BY <1>1, <2>1, ElapseIs DEF tables
    <2>2. ASSUME NEW v \in Watches, ComeDue(v) \/ Cancel(v)
          PROVE  TypeOK' /\ \A y \in Watches : watches'[y] = watches[y] \/ watches'[y] = "cancelled"
      BY <1>1, <2>2, WatchStepIs DEF TypeOK
    <2>3. CASE UNCHANGED vars
      BY <1>1, <2>3 DEF TypeOK, vars, tables
    <2> QED
      BY <2>1, <2>2, <2>3
  <1>3. /\ overdue \subseteq overdue'
        /\ \A u \in overdue' : u \in overdue \/ escalations[u] = "pending"
    BY DEF Elapse, ComeDue, Cancel, tables, vars
  <1>4. \A w \in Workers : Locals(w)'
    BY <1>1, <1>3 DEF LooseInv, Locals
  <1>5. \A u \in Purchases : Asked(u)'
    BY <1>1, <1>3 DEF LooseInv, Asked
  <1>6. \A v \in Watches : Counted(v)' \subseteq Counted(v) /\ (Armed(v)' => Armed(v))
    BY <1>1, <1>2 DEF Counted, Armed
  <1> QED
    BY <1>1, <1>2, <1>4, <1>5, <1>6, WatchCostsKept DEF LooseInv, WatchInv

LEMMA LooseStep ==
  ASSUME LooseInv, WatchInv, [Next]_vars
  PROVE  LooseInv' /\ WatchInv'
  <1>1. ASSUME NEW w \in Workers, Step(w)
        PROVE  (LooseInv' /\ Silent(w)) \/ (LooseInv' /\ WatchInv')
    BY <1>1, LooseOnRun, LooseGate, LooseResolve, LooseRetry, LooseExpireRead, LooseResume,
       LooseSweep, LooseMatch, LooseFire DEF Step
  <1>2. ASSUME NEW w \in Workers, Tick(w) \/ Die(w)
        PROVE  (LooseInv' /\ Silent(w)) \/ (LooseInv' /\ WatchInv')
    BY <1>2, LooseSweep, LooseDie
  <1>3. ASSUME NEW w \in Workers, NEW r \in Runs,
               Guide(w, r) \/ \E search \in BOOLEAN : Start(w, r, search)
        PROVE  LooseInv' /\ Silent(w)
    BY <1>3, LooseStart
  <1>4. ASSUME NEW w \in Workers, NEW u \in Purchases, NEW d \in Decisions \ {"none"},
               Answer(w, u, d)
        PROVE  LooseInv' /\ Silent(w)
    BY <1>4, LooseAnswer
  <1> QED
    BY <1>1, <1>2, <1>3, <1>4, LooseClock, WatchSilent DEF Next

LEMMA LooseInit ==
  ASSUME Init
  PROVE  LooseInv /\ WatchInv
  <1>1. AnswerInv
    BY AnswerInit
  <1>2. LooseInv
    BY <1>1 DEF AnswerInv, LooseInv, Questions, Asked
  <1>3. \A v \in Watches : Counted(v) = {}
    BY RunAssumption DEF Init, NoPurchase, Counted
  <1>4. IsFiniteSet({}) /\ Cardinality({}) = 0 /\ deaths = 0
    BY FS_EmptySet DEF Init
  <1> QED
    BY <1>2, <1>3, <1>4 DEF WatchInv, WatchCosts

LEMMA LooseAlways == Spec => [](LooseInv /\ WatchInv)
  <1>1. Init => LooseInv /\ WatchInv
    BY LooseInit
  <1>2. (LooseInv /\ WatchInv) /\ [Next]_vars => (LooseInv /\ WatchInv)'
    BY LooseStep
  <1> QED
    BY <1>1, <1>2, PTL DEF Spec

----------------------------------------------------------------------------
(* Whatever overlaps: a run that says done *)

(* The row of a run.  Unlike Rows it says nothing about who else works on   *)
(* the run.                                                                 *)
DoneRow(r) ==
  /\ runs[r].status = "none" => \A u \in Purchases : purchases[u].by # r
  /\ runs[r].status = "awaiting_human" =>
       ~runs[r].search /\ runs[r].esc \in Purchases /\ escalations[runs[r].esc] # "none"
  /\ runs[r].status = "done" => runs[r].node = "done"
  /\ runs[r].node \in {"receipt", "done"} /\ ~runs[r].search => CapturedFor(r) # {}
  /\ runs[r].search =>
       /\ runs[r].node \notin {"gate", "await_human", "receipt"}
       /\ \A u \in Purchases : purchases[u].by # r

(* A worker's copy may be stale, but the kind of its request is not, and    *)
(* the node it is at was earned by a capture that nothing undoes.           *)
DoneCopy(w) ==
  /\ me[w].pc \in OnRun =>
       /\ runs[me[w].run].status # "none"
       /\ me[w].copy.search = runs[me[w].run].search
  /\ me[w].pc \in {"loop", "submit"} => me[w].copy.status = "running"
  /\ me[w].pc = "submit" => ~me[w].copy.search
  /\ me[w].pc \in Looping => me[w].item = 0 \/ escalations[me[w].item] # "none"
  /\ me[w].pc = "loop" =>
       /\ me[w].node \in {"gate", "await_human", "receipt"} => ~me[w].copy.search
       /\ me[w].node \in {"receipt", "done"} /\ ~me[w].copy.search => CapturedFor(me[w].run) # {}
  /\ me[w].pc \in Resuming => ~me[w].copy.search /\ me[w].node = "denied"

DoneInv == (\A r \in Runs : DoneRow(r)) /\ (\A w \in Workers : DoneCopy(w))

(* The escalation that a row or a copy of it names was asked. *)
Known(e) == e = 0 \/ escalations[e] # "none"

Knows ==
  /\ \A r \in Runs : Known(runs[r].esc)
  /\ \A w \in Workers : Known(me[w].copy.esc)

LEMMA DoneRowKept ==
  ASSUME DoneInv, Grows, NEW r \in Runs, runs'[r] = runs[r]
  PROVE  DoneRow(r)'
  <1>1. DoneRow(r)
    BY DEF DoneInv
  <1>2. CapturedFor(r) # {} => CapturedFor(r)' # {}
    BY DEF CapturedFor, Grows
  <1>3. runs[r].search \/ runs[r].status = "none" => \A u \in Purchases : purchases'[u].by # r
    BY <1>1 DEF DoneRow, Grows
  <1> QED
    BY <1>1, <1>2, <1>3 DEF DoneRow, Grows

(* The other workers: no step takes a run back or changes what it is for. *)
Steady == \A r \in Runs : runs[r].status # "none" =>
                            runs'[r].status # "none" /\ runs'[r].search = runs[r].search

LEMMA DoneOthers ==
  ASSUME LooseInv, DoneInv, Grows, NEW w \in Workers, Alone(w), Steady
  PROVE  \A x \in Workers : x # w => DoneCopy(x)'
  <1> SUFFICES ASSUME NEW x \in Workers, x # w
               PROVE  DoneCopy(x)'
    OBVIOUS
  <1>1. /\ me'[x] = me[x] /\ DoneCopy(x)
        /\ me[x].pc \in OnRun => me[x].run \in Runs
    BY LooseStands DEF Alone, DoneInv
  <1>2. CASE me[x].pc \notin OnRun
    BY <1>1, <1>2 DEF DoneCopy, OnRun, Looping, Resuming
  <1>3. CASE me[x].pc \in OnRun
    <2>0. PICK r \in Runs : r = me[x].run
      BY <1>1, <1>3
    <2>1. runs'[r].status # "none" /\ me[x].copy.search = runs'[r].search
      BY <1>1, <1>3, <2>0 DEF DoneCopy, Steady
    <2>2. CapturedFor(r) # {} =>
            {u \in Purchases : purchases'[u].by = r /\ purchases'[u].status = "captured"} # {}
      BY DEF CapturedFor, Grows
    <2>3. me[x].item \in Purchases \cup {0}
      BY DEF LooseInv, TypeOK, Local
    <2>4. me[x].item # 0 /\ escalations[me[x].item] # "none" => escalations'[me[x].item] # "none"
      BY <2>3 DEF Grows
    <2>5. me[x].pc = "loop" /\ me[x].node \in {"receipt", "done"} /\ ~me[x].copy.search =>
            {u \in Purchases : purchases'[u].by = me'[x].run /\ purchases'[u].status = "captured"} # {}
      BY <1>1, <2>0, <2>2 DEF DoneCopy
    <2> QED
      BY <1>1, <2>0, <2>1, <2>4, <2>5 DEF DoneCopy, CapturedFor
  <1> QED
    BY <1>2, <1>3

(* The row a step writes. *)
FitDone(r, n, s, e) ==
  /\ s # "none"
  /\ s = "awaiting_human" => ~runs[r].search /\ e \in Purchases /\ escalations[e] # "none"
  /\ s = "done" => n = "done"
  /\ n \in {"receipt", "done"} /\ ~runs[r].search => CapturedFor(r) # {}
  /\ runs[r].search => n \notin {"gate", "await_human", "receipt"}

LEMMA DoneWrite ==
  ASSUME LooseInv, DoneInv, Grows, NEW w \in Workers, Alone(w), NEW r \in Runs,
         NEW n, NEW s, NEW e, WritesRow(r, n, s, e, runs[r].search), FitDone(r, n, s, e),
         DoneCopy(w)'
  PROVE  DoneInv'
  <1>1. DoneRow(r)'
    <2>1. CapturedFor(r) # {} => CapturedFor(r)' # {}
      BY DEF CapturedFor, Grows
    <2>2. runs[r].search => \A u \in Purchases : purchases'[u].by # r
      BY DEF DoneInv, DoneRow, Grows
    <2>3. escalations[e] # "none" /\ e \in Purchases => escalations'[e] # "none"
      BY DEF Grows
    <2>4. /\ runs'[r].node = n /\ runs'[r].status = s /\ runs'[r].esc = e
          /\ runs'[r].search = runs[r].search
      BY DEF WritesRow
    <2> QED
      BY <2>1, <2>2, <2>3, <2>4 DEF DoneRow, FitDone
  <1>2. Steady
    BY DEF Steady, WritesRow, FitDone
  <1>3. \A q \in Runs : DoneRow(q)'
    BY <1>1, DoneRowKept DEF WritesRow
  <1>4. \A x \in Workers : DoneCopy(x)'
    BY <1>2, DoneOthers
  <1> QED
    BY <1>3, <1>4 DEF DoneInv

(* A step that writes no row. *)
LEMMA DoneKeep ==
  ASSUME LooseInv, DoneInv, Grows, NEW w \in Workers, Alone(w), runs' = runs, DoneCopy(w)'
  PROVE  DoneInv'
  <1>1. \A q \in Runs : DoneRow(q)'
    BY DoneRowKept
  <1>2. \A x \in Workers : DoneCopy(x)'
    BY DoneOthers DEF Steady
  <1> QED
    BY <1>1, <1>2 DEF DoneInv

LEMMA DoneOff ==
  ASSUME NEW w \in Workers, me'[w].pc \notin OnRun
  PROVE  DoneCopy(w)'
  BY DEF DoneCopy, OnRun, Looping, Resuming

(* What a worker on a run knows. *)
LEMMA DoneOn ==
  ASSUME LooseInv, DoneInv, NEW w \in Workers, me[w].pc \in OnRun
  PROVE  /\ TypeOK /\ me[w].run \in Runs /\ DoneRow(me[w].run) /\ DoneCopy(w)
         /\ me[w].item \in Purchases \cup {0}
         /\ runs[me[w].run].status # "none" /\ me[w].copy.search = runs[me[w].run].search
  <1>1. TypeOK /\ me[w].run \in Runs /\ DoneCopy(w)
    BY LooseStands DEF DoneInv
  <1>2. me[w].item \in Purchases \cup {0}
    BY <1>1 DEF TypeOK, Local
  <1> QED
    BY <1>1, <1>2 DEF DoneInv, DoneCopy

(* A worker that goes on in the loop, or to submit. *)
LEMMA DoneGoes ==
  ASSUME LooseInv, DoneInv, Grows, NEW w \in Workers, me[w].pc \in {"guide", "loop"}, NEW r \in Runs,
         r = me[w].run, NEW n, NEW e, WritesRow(r, n, "running", e, runs[r].search),
         n \in {"receipt", "done"} /\ ~runs[r].search => CapturedFor(r) # {},
         runs[r].search => n \notin {"gate", "await_human", "receipt"},
         NEW p \in {"loop", "submit"}, NEW next, NEW i \in Purchases \cup {0}, Known(i),
         Becomes(w, p, r, next, i, me[w].todo, me[w].watch),
         HasCopy(w, "running", runs[r].search),
         p = "submit" => ~runs[r].search,
         p = "loop" =>
           /\ next \in {"gate", "await_human", "receipt"} => ~runs[r].search
           /\ next \in {"receipt", "done"} /\ ~runs[r].search => CapturedFor(r) # {}
  PROVE  DoneInv'
  <1>1. me[w].pc \in OnRun /\ me[w].pc \in Looping
    BY DEF OnRun, Looping
  <1>2. FitDone(r, n, "running", e)
    BY DEF FitDone
  <1>3. DoneCopy(w)'
    <2>1. /\ me'[w].pc = p /\ me'[w].run = r /\ me'[w].node = next /\ me'[w].item = i
          /\ me'[w].copy.status = "running" /\ me'[w].copy.search = runs[r].search
          /\ runs'[r].status = "running" /\ runs'[r].search = runs[r].search
      BY DEF Becomes, HasCopy, WritesRow
    <2>2. p = "loop" /\ next \in {"receipt", "done"} /\ ~me'[w].copy.search =>
            {u \in Purchases : purchases'[u].by = me'[w].run /\ purchases'[u].status = "captured"} # {}
      BY <2>1 DEF CapturedFor, Grows
    <2>3. i = 0 \/ escalations'[i] # "none"
      BY DEF Known, Grows
    <2> QED
      BY <2>1, <2>2, <2>3 DEF DoneCopy, CapturedFor, Looping, OnRun, Resuming
  <1> QED
    BY <1>2, <1>3, DoneWrite DEF Becomes

LEMMA DoneLoop ==
  ASSUME LooseInv, DoneInv, Knows, Grows, NEW w \in Workers,
         GuideWrite(w) \/ (\E next \in Nodes : Think(w, next)) \/ Gate(w) \/ Receipt(w)
  PROVE  DoneInv'
  <1>1. me[w].pc \in {"guide", "loop"} /\ me[w].pc \in OnRun
    BY DEF GuideWrite, Think, Gate, Receipt, At, OnRun
  <1>2. PICK r \in Runs : r = me[w].run
    BY <1>1, DoneOn
  <1>3. /\ TypeOK /\ DoneRow(r) /\ DoneCopy(w) /\ me[w].copy.search = runs[r].search
        /\ me[w].pc = "loop" => me[w].copy.status = "running"
        /\ me[w].item \in Purchases \cup {0} /\ Known(me[w].item)
    BY <1>1, <1>2, DoneOn DEF DoneCopy, Looping, Known
  <1>4. CASE GuideWrite(w)
    <2>1. /\ WritesRow(r, runs[r].node, "running", runs[r].esc, runs[r].search)
          /\ Becomes(w, "loop", r, runs[r].node,
                     IF me[w].copy.node = "await_human" THEN me[w].copy.esc ELSE 0,
                     me[w].todo, me[w].watch)
          /\ HasCopy(w, "running", runs[r].search)
      BY <1>2, <1>3, <1>4, GuideWriteIs
    <2>3. PICK i \in Purchases \cup {0} :
            Known(i) /\ i = IF me[w].copy.node = "await_human" THEN me[w].copy.esc ELSE 0
      BY <1>3 DEF Knows, Known, TypeOK, Local, Run
    <2>2. /\ runs[r].node \in {"receipt", "done"} /\ ~runs[r].search => CapturedFor(r) # {}
          /\ runs[r].search => runs[r].node \notin {"gate", "await_human", "receipt"}
      BY <1>3 DEF DoneRow
    <2> QED
      BY <1>1, <1>2, <2>1, <2>2, <2>3, DoneGoes
  <1>5. ASSUME NEW next \in Nodes, Think(w, next)
        PROVE  DoneInv'
    <2>1. /\ me[w].pc = "loop" /\ me[w].node \in {"perceive", "search", "propose"}
          /\ next \in {"search", "propose", "denied"} \cup {IF runs[r].search THEN "done" ELSE "gate"}
          /\ WritesRow(r, me[w].node, "running", me[w].copy.esc, runs[r].search)
          /\ Becomes(w, "loop", r, next, me[w].item, me[w].todo, me[w].watch)
          /\ HasCopy(w, "running", runs[r].search)
      BY <1>2, <1>3, <1>5, ThinkIs
    <2> QED
      BY <1>1, <1>2, <1>3, <2>1, DoneGoes
  <1>6. CASE Gate(w)
    <2>1. /\ me[w].pc = "loop" /\ me[w].node = "gate"
          /\ WritesRow(r, "gate", "running", me[w].copy.esc, runs[r].search)
          /\ Becomes(w, "submit", r, "gate", me[w].item, me[w].todo, me[w].watch)
          /\ HasCopy(w, "running", runs[r].search)
      BY <1>2, <1>3, <1>6, GateIs DEF MovesTo
    <2>2. ~runs[r].search
      BY <1>3, <2>1 DEF DoneCopy
    <2> QED
      BY <1>1, <1>2, <1>3, <2>1, <2>2, DoneGoes
  <1>7. CASE Receipt(w)
    <2>1. /\ me[w].pc = "loop" /\ me[w].node = "receipt"
          /\ WritesRow(r, "receipt", "running", me[w].copy.esc, runs[r].search)
          /\ Becomes(w, "loop", r, "done", me[w].item, me[w].todo, me[w].watch)
          /\ HasCopy(w, "running", runs[r].search)
      BY <1>2, <1>3, <1>7, ReceiptIs
    <2>2. ~runs[r].search /\ CapturedFor(r) # {}
      BY <1>2, <1>3, <2>1 DEF DoneCopy
    <2> QED
      BY <1>1, <1>2, <1>3, <2>1, <2>2, DoneGoes
  <1> QED
    BY <1>4, <1>5, <1>6, <1>7

(* A worker on a run saves its row for the last time. *)
LEMMA DoneEnds ==
  ASSUME LooseInv, DoneInv, Grows, NEW w \in Workers, NEW r \in Runs, NEW n, NEW s, NEW e,
         WritesRow(r, n, s, e, runs[r].search), Ends(w), FitDone(r, n, s, e)
  PROVE  DoneInv'
  <1>1. Alone(w) /\ DoneCopy(w)'
    BY IdleOffRun, DoneOff
  <1> QED
    BY <1>1, DoneWrite

LEMMA DoneEnd ==
  ASSUME LooseInv, DoneInv, Grows, NEW w \in Workers,
         Park(w) \/ Finish(w) \/ Fail(w) \/ Throttle(w) \/ ResumeEnd(w)
  PROVE  DoneInv'
  <1>1. me[w].pc \in {"loop", "resume_end"} /\ me[w].pc \in OnRun
    BY DEF Park, Finish, Fail, Throttle, ResumeEnd, At, OnRun
  <1>2. PICK r \in Runs : r = me[w].run
    BY <1>1, DoneOn
  <1>3. /\ TypeOK /\ DoneCopy(w) /\ me[w].copy.search = runs[r].search
        /\ me[w].item \in Purchases \cup {0}
    BY <1>1, <1>2, DoneOn
  <1>4. CASE Park(w)
    <2>1. /\ me[w].pc = "loop" /\ me[w].node = "await_human" /\ me[w].item # 0 /\ Ends(w)
          /\ WritesRow(r, "await_human", "awaiting_human", me[w].item, runs[r].search)
      BY <1>2, <1>3, <1>4, ParkIs
    <2>2. me[w].item \in Purchases /\ escalations[me[w].item] # "none" /\ ~runs[r].search
      BY <1>3, <2>1 DEF DoneCopy, Looping
    <2>3. FitDone(r, "await_human", "awaiting_human", me[w].item)
      BY <2>2 DEF FitDone
    <2> QED
      BY <2>1, <2>3, DoneEnds
  <1>5. CASE Finish(w)
    <2>1. /\ me[w].pc = "loop" /\ me[w].node \in {"done", "denied"} /\ Ends(w)
          /\ WritesRow(r, me[w].node, me[w].node, me[w].copy.esc, runs[r].search)
      BY <1>2, <1>3, <1>5, FinishIs
    <2>2. me[w].node = "done" /\ ~runs[r].search => CapturedFor(r) # {}
      BY <1>2, <1>3, <2>1 DEF DoneCopy
    <2>3. FitDone(r, me[w].node, me[w].node, me[w].copy.esc)
      BY <2>1, <2>2 DEF FitDone
    <2> QED
      BY <2>1, <2>3, DoneEnds
  <1>6. CASE Fail(w) \/ Throttle(w)
    <2>1. PICK s \in {"failed", "denied"} :
            /\ me[w].pc = "loop" /\ Ends(w)
            /\ WritesRow(r, me[w].node, s, me[w].copy.esc, runs[r].search)
      BY <1>2, <1>3, <1>6, GiveUpIs
    <2>2. /\ me[w].node \in {"receipt", "done"} /\ ~runs[r].search => CapturedFor(r) # {}
          /\ runs[r].search => me[w].node \notin {"gate", "await_human", "receipt"}
      BY <1>2, <1>3, <2>1 DEF DoneCopy
    <2>3. FitDone(r, me[w].node, s, me[w].copy.esc)
      BY <2>1, <2>2 DEF FitDone
    <2> QED
      BY <2>1, <2>3, DoneEnds
  <1>7. CASE ResumeEnd(w)
    <2>0. me[w].pc = "resume_end" /\ me[w].node = "denied"
      BY <1>3, <1>7 DEF ResumeEnd, At, DoneCopy, Resuming
    <2>1. WritesRow(r, "denied", "denied", me[w].copy.esc, runs[r].search) /\ Ends(w)
      BY <1>2, <1>3, <1>7, <2>0, ResumeEndIs
    <2>2. FitDone(r, "denied", "denied", me[w].copy.esc)
      BY DEF FitDone
    <2> QED
      BY <2>1, <2>2, DoneEnds
  <1> QED
    BY <1>4, <1>5, <1>6, <1>7

LEMMA DoneResume ==
  ASSUME LooseInv, DoneInv, Grows, NEW w \in Workers,
         ResumeRead(w) \/ ResumeMark(w) \/ ResumeSave(w)
  PROVE  DoneInv'
  <1>1. CASE ResumeMark(w) \/ ResumeSave(w)
    <2>1. me[w].pc \in Resuming /\ me[w].pc \in OnRun
      BY <1>1 DEF ResumeMark, ResumeSave, At, OnRun, Resuming
    <2>2. PICK r \in Runs : r = me[w].run
      BY <2>1, DoneOn
    <2>3. /\ TypeOK /\ me[w].copy.search = runs[r].search /\ DoneRow(r)
          /\ ~runs[r].search /\ me[w].node = "denied"
      BY <2>1, <2>2, DoneOn DEF DoneCopy, Resuming
    <2>4. PICK n, e, p :
            /\ WritesRow(r, n, "running", e, runs[r].search)
            /\ n \in {"receipt", "done"} => CapturedFor(r) # {}
            /\ p \in {"resume_save", "resume_end"}
            /\ Becomes(w, p, r, "denied", me[w].item, me[w].todo, me[w].watch)
            /\ me'[w].copy.search = runs[r].search
      <3>1. CASE ResumeMark(w)
        BY <2>2, <2>3, <3>1, ResumeMarkIs DEF MovesTo, DoneRow
      <3>2. CASE ResumeSave(w)
        BY <2>2, <2>3, <3>2, ResumeSaveIs DEF MovesTo, HasCopy
      <3> QED
        BY <1>1, <3>1, <3>2
    <2>5. FitDone(r, n, "running", e)
      BY <2>3, <2>4 DEF FitDone
    <2>6. DoneCopy(w)'
      BY <2>3, <2>4 DEF Becomes, WritesRow, DoneCopy, Looping, OnRun, Resuming
    <2> QED
      BY <2>4, <2>5, <2>6, DoneWrite DEF Becomes
  <1>2. CASE ResumeRead(w)
    <2>1. TypeOK /\ me[w].item \in Purchases /\ runs' = runs
      BY <1>2, LooseStands DEF ResumeRead, At, Holding, tables
    <2>2. CASE Ends(w)
      BY <2>1, <2>2, IdleOffRun, DoneOff, DoneKeep
    <2>3. CASE ~Ends(w)
      <3>1. PICK r \in Runs :
              /\ runs[r].status = "awaiting_human"
              /\ Becomes(w, "resume_mark", r,
                         IF purchases[runs[r].esc].status = "captured" THEN "receipt" ELSE "denied",
                         me[w].item, me[w].todo, me[w].watch)
              /\ HasCopy(w, "awaiting_human", runs[r].search)
        BY <1>2, <2>1, <2>3, ResumeReadIs
      <3>2. DoneRow(r)
        BY DEF DoneInv
      <3>3. runs[r].esc \in Purchases /\ escalations[runs[r].esc] # "none" /\ ~runs[r].search
        BY <3>1, <3>2 DEF DoneRow
      <3>4. purchases[runs[r].esc].status # "captured"
        BY <3>3 DEF LooseInv, Asked
      <3>5. /\ me'[w].pc = "resume_mark" /\ me'[w].run = r /\ me'[w].node = "denied" /\ Alone(w)
            /\ me'[w].copy.search = runs[r].search
        BY <3>1, <3>4 DEF Becomes, HasCopy
      <3>6. DoneCopy(w)'
        BY <2>1, <3>1, <3>3, <3>5 DEF DoneCopy, Looping, OnRun, Resuming
      <3> QED
        BY <2>1, <3>5, <3>6, DoneKeep
    <2> QED
      BY <2>2, <2>3
  <1> QED
    BY <1>1, <1>2

LEMMA DoneGate ==
  ASSUME LooseInv, DoneInv, Grows, NEW w \in Workers, NEW outcome \in Outcomes,
         GateAnswer(w, outcome)
  PROVE  DoneInv'
  <1>1. me[w].pc = "submit" /\ me[w].pc \in OnRun
    BY DEF GateAnswer, At, OnRun
  <1>2. PICK r \in Runs : r = me[w].run
    BY <1>1, DoneOn
  <1>3. /\ TypeOK /\ DoneCopy(w) /\ me[w].copy.search = runs[r].search /\ runs[r].status # "none"
        /\ me[w].copy.status = "running" /\ ~runs[r].search /\ me[w].item \in Purchases \cup {0}
    BY <1>1, <1>2, DoneOn DEF DoneCopy
  <1>4. CASE outcome \in Aborts
    <2>1. PICK s \in {"denied", "failed"} :
            WritesRow(r, "gate", s, me[w].copy.esc, runs[r].search) /\ Ends(w)
      BY <1>2, <1>3, <1>4, GateAnswerIs
    <2>2. FitDone(r, "gate", s, me[w].copy.esc)
      BY <1>3 DEF FitDone
    <2> QED
      BY <2>1, <2>2, DoneEnds
  <1>5. CASE outcome \notin Aborts
    <2>1. /\ runs' = runs /\ Submit(r, 0, outcome) /\ HasCopy(w, "running", runs[r].search)
      BY <1>2, <1>3, <1>5, GateAnswerIs
    <2>2. PICK next \in {"receipt", "await_human", "search", "denied"} :
            /\ next = "receipt" <=> outcome = "captured"
            /\ next = "await_human" <=> outcome = "escalated"
            /\ Becomes(w, "loop", r, next, IF outcome = "escalated" THEN Fresh ELSE me[w].item,
                       me[w].todo, me[w].watch)
      BY <1>2, <1>3, <1>5, GateAnswerIs
    <2>3. outcome \in Recorded => Records(Fresh, r, 0, outcome)
      <3>1. r \in Runs \cup Watches \cup {None} /\ 0 \in Purchases \cup {0}
        OBVIOUS
      <3> QED
        BY <1>3, <2>1, <3>1, SubmitIs DEF Unrecorded, Recorded
    <2>4. next = "receipt" =>
            \E u \in Purchases : purchases'[u].by = r /\ purchases'[u].status = "captured"
      BY <2>2, <2>3 DEF Recorded, Records
    <2>5. me'[w].item = 0 \/ escalations'[me'[w].item] # "none"
      <3>1. CASE outcome = "escalated"
        BY <2>2, <2>3, <3>1 DEF Recorded, Records, Becomes
      <3>2. CASE outcome # "escalated"
        BY <1>1, <1>3, <2>2, <3>2 DEF Becomes, DoneCopy, Looping, Grows
      <3> QED
        BY <3>1, <3>2
    <2>6. /\ me'[w].pc = "loop" /\ me'[w].run = r /\ me'[w].node = next /\ Alone(w)
          /\ me'[w].copy.status = "running" /\ me'[w].copy.search = runs[r].search
      BY <2>1, <2>2 DEF Becomes, HasCopy
    <2>7. next \in {"receipt", "done"} =>
            {u \in Purchases : purchases'[u].by = me'[w].run /\ purchases'[u].status = "captured"} # {}
      BY <2>2, <2>4, <2>6
    <2>8. DoneCopy(w)'
      BY <1>3, <2>1, <2>2, <2>5, <2>6, <2>7 DEF DoneCopy, CapturedFor, Looping, OnRun, Resuming
    <2> QED
      BY <2>1, <2>6, <2>8, DoneKeep
  <1> QED
    BY <1>4, <1>5

LEMMA DoneStart ==
  ASSUME LooseInv, DoneInv, Grows, NEW w \in Workers, NEW r \in Runs,
         Guide(w, r) \/ \E search \in BOOLEAN : Start(w, r, search)
  PROVE  DoneInv'
  <1>1. TypeOK /\ DoneRow(r)
    BY DEF LooseInv, DoneInv
  <1>2. CASE Guide(w, r)
    <2>1. /\ runs[r].status = "running" /\ runs' = runs
          /\ Becomes(w, "guide", r, "perceive", 0, {}, None) /\ HasCopy(w, "running", runs[r].search)
      BY <1>1, <1>2, GuideIs DEF tables
    <2>2. DoneCopy(w)'
      BY <2>1 DEF Becomes, HasCopy, DoneCopy, Looping, OnRun, Resuming
    <2> QED
      BY <2>1, <2>2, DoneKeep DEF Becomes
  <1>3. ASSUME NEW search \in BOOLEAN, Start(w, r, search)
        PROVE  DoneInv'
    <2>1. /\ runs[r].status = "none" /\ WritesRow(r, "perceive", "running", 0, search)
          /\ Becomes(w, "loop", r, "perceive", 0, {}, None) /\ HasCopy(w, "running", search)
      BY <1>1, <1>3, StartIs
    <2>2. \A u \in Purchases : purchases'[u].by # r
      BY <1>1, <2>1 DEF DoneRow, Grows
    <2>3. DoneRow(r)'
      BY <2>1, <2>2 DEF WritesRow, DoneRow
    <2>4. Steady /\ \A q \in Runs : q # r => DoneRow(q)'
      BY <2>1, DoneRowKept DEF WritesRow, Steady
    <2>5. DoneCopy(w)'
      BY <2>1 DEF Becomes, HasCopy, WritesRow, DoneCopy, Looping, OnRun, Resuming
    <2>6. \A x \in Workers : DoneCopy(x)'
      BY <2>1, <2>4, <2>5, DoneOthers DEF Becomes
    <2> QED
      BY <2>3, <2>4, <2>6 DEF DoneInv
  <1> QED
    BY <1>2, <1>3

(* Where the escalation of a row, and of a worker's copy, comes from. *)
Sourced(e) == e \in Purchases \cup {0} /\ Known(e)

LEMMA KnowsFrom ==
  ASSUME Grows, \A r \in Runs : Sourced(runs'[r].esc),
         \A w \in Workers : Sourced(me'[w].copy.esc)
  PROVE  Knows'
  BY DEF Knows, Known, Sourced, Grows

LEMMA KnowsStep ==
  ASSUME LooseInv, DoneInv, Knows, Grows, [Next]_vars
  PROVE  Knows'
  <1>1. /\ TypeOK /\ me \in [Workers -> Local] /\ runs \in [Runs -> Run]
        /\ \A r \in Runs : runs[r] \in Run /\ Sourced(runs[r].esc)
        /\ \A w \in Workers : me[w] \in Local /\ me[w].copy \in Run /\ Sourced(me[w].copy.esc)
    BY DEF LooseInv, TypeOK, Local, Run, Sourced, Knows
  <1>2. NoRun.esc = 0 /\ Idle.copy = NoRun /\ Sourced(0)
    BY DEF NoRun, Idle, Sourced, Known
  <1>3. ASSUME NEW w \in Workers, Return(w)
        PROVE  \A x \in Workers : Sourced(me'[x].copy.esc)
    BY <1>1, <1>2, <1>3 DEF Return
  <1>4. ASSUME NEW w \in Workers, NEW row, Save(w, row), Sourced(row.esc)
        PROVE  \A r \in Runs : Sourced(runs'[r].esc)
    BY <1>1, <1>4 DEF Save
  <1>5. ASSUME NEW w \in Workers, NEW n, NEW s
        PROVE  Sourced(Saved(w, n, s).esc)
    BY <1>1 DEF Saved, Run
  <1>6. ASSUME NEW w \in Workers, NEW n, NEW s, Save(w, Saved(w, n, s)), Return(w)
        PROVE  Knows'
    <2> DEFINE row == Saved(w, n, s)
    <2>1. Sourced(row.esc) /\ Save(w, row)
      BY <1>5, <1>6
    <2> HIDE DEF row
    <2> QED
      BY <1>3, <1>4, <1>6, <2>1, KnowsFrom
  <1>7. ASSUME NEW w \in Workers, NEW row, Save(w, row), Sourced(row.esc),
               \A x \in Workers : Sourced(me'[x].copy.esc)
        PROVE  Knows'
    BY <1>4, <1>7, KnowsFrom
  <1>8. ASSUME runs' = runs, \A x \in Workers : Sourced(me'[x].copy.esc)
        PROVE  Knows'
    BY <1>1, <1>8, KnowsFrom
  <1>9. ASSUME NEW w \in Workers, Step(w)
        PROVE  Knows'
    <2>1. CASE GuideWrite(w)
      <3>1. me[w].run \in Runs
        BY <2>1, LooseStands DEF GuideWrite, At, OnRun
      <3> DEFINE row == [runs[me[w].run] EXCEPT !.status = "running", !.replans = 0]
      <3>2. Sourced(row.esc) /\ Save(w, row)
        BY <1>1, <2>1, <3>1 DEF GuideWrite, Run
      <3>3. me' = [me EXCEPT ![w].pc = "loop", ![w].copy = row, ![w].node = row.node,
                   ![w].item = IF me[w].copy.node = "await_human" THEN me[w].copy.esc ELSE 0]
        BY <2>1 DEF GuideWrite
      <3> HIDE DEF row
      <3>4. \A x \in Workers : Sourced(me'[x].copy.esc)
        BY <1>1, <3>2, <3>3 DEF Local
      <3> QED
        BY <1>7, <3>2, <3>4
    <2>2. ASSUME NEW next \in Nodes, Think(w, next)
          PROVE  Knows'
      <3> DEFINE row == Saved(w, me[w].node, me[w].copy.status)
      <3>1. Sourced(row.esc) /\ Save(w, row)
        BY <1>5, <2>2 DEF Think
      <3>2. me' = [me EXCEPT ![w].copy = row, ![w].node = next]
        BY <2>2 DEF Think
      <3> HIDE DEF row
      <3>3. \A x \in Workers : Sourced(me'[x].copy.esc)
        BY <1>1, <3>1, <3>2 DEF Local
      <3> QED
        BY <1>7, <3>1, <3>3
    <2>11. CASE Gate(w)
      <3> DEFINE row == Saved(w, "gate", me[w].copy.status)
      <3>1. Sourced(row.esc) /\ Save(w, row)
        BY <1>5, <2>11 DEF Gate
      <3>2. me' = [me EXCEPT ![w].copy = row, ![w].pc = "submit"]
        BY <2>11 DEF Gate
      <3> HIDE DEF row
      <3>3. \A x \in Workers : Sourced(me'[x].copy.esc)
        BY <1>1, <3>1, <3>2 DEF Local
      <3> QED
        BY <1>7, <3>1, <3>3
    <2>12. CASE Receipt(w)
      <3> DEFINE row == Saved(w, "receipt", me[w].copy.status)
      <3>1. Sourced(row.esc) /\ Save(w, row)
        BY <1>5, <2>12 DEF Receipt
      <3>2. me' = [me EXCEPT ![w].copy = row, ![w].node = "done"]
        BY <2>12 DEF Receipt
      <3> HIDE DEF row
      <3>3. \A x \in Workers : Sourced(me'[x].copy.esc)
        BY <1>1, <3>1, <3>2 DEF Local
      <3> QED
        BY <1>7, <3>1, <3>3
    <2>13. CASE ResumeSave(w)
      <3> DEFINE row == Saved(w, "gate", "running")
      <3>1. Sourced(row.esc) /\ Save(w, row)
        BY <1>5, <2>13 DEF ResumeSave
      <3>2. me' = [me EXCEPT ![w].pc = "resume_end", ![w].copy = row]
        BY <2>13 DEF ResumeSave
      <3> HIDE DEF row
      <3>3. \A x \in Workers : Sourced(me'[x].copy.esc)
        BY <1>1, <3>1, <3>2 DEF Local
      <3> QED
        BY <1>7, <3>1, <3>3
    <2>3. ASSUME NEW outcome \in Outcomes, GateAnswer(w, outcome)
          PROVE  Knows'
      <3>1. CASE outcome \in {"throttled", "raised"}
        BY <1>6, <2>3, <3>1 DEF GateAnswer
      <3>2. CASE outcome \notin {"throttled", "raised"}
        <4> DEFINE next == AfterGate(outcome, me[w].copy.replans)
                   k(n) == CountReplan(n, next)
                   i(u) == IF outcome = "escalated" THEN Fresh ELSE u
        <4>1. me' = [me EXCEPT ![w].pc = "loop", ![w].node = next, ![w].copy.replans = k(@),
                               ![w].item = i(@)]
          BY <2>3, <3>2 DEF GateAnswer
        <4> HIDE DEF next, k, i
        <4>2. \A x \in Workers : me'[x].copy.esc = me[x].copy.esc
          BY <1>1, <4>1 DEF Local, Run
        <4> QED
          BY <1>1, <1>8, <2>3, <3>2, <4>2 DEF GateAnswer
      <3> QED
        BY <3>1, <3>2
    <2>4. CASE Park(w)
      <3> DEFINE row == [Saved(w, "await_human", "awaiting_human") EXCEPT !.esc = me[w].item]
      <3>1. me[w].pc \in Looping /\ DoneCopy(w) /\ me[w].item \in Purchases \cup {0}
        BY <1>1, <2>4 DEF Park, At, Looping, DoneInv, Local
      <3>2. Sourced(row.esc) /\ Save(w, row) /\ Return(w)
        BY <1>1, <2>4, <3>1 DEF Park, DoneCopy, Sourced, Known, Saved, Run
      <3> HIDE DEF row
      <3> QED
        BY <1>3, <1>7, <3>2
    <2>5. CASE Finish(w) \/ Fail(w) \/ Throttle(w) \/ ResumeEnd(w)
      BY <1>6, <2>5 DEF Finish, Fail, Throttle, ResumeEnd
    <2>6. CASE ResumeMark(w)
      <3>1. /\ runs' = [runs EXCEPT ![me[w].run].status = "running"]
            /\ me' = [me EXCEPT ![w].pc = "resume_save"]
        BY <2>6 DEF ResumeMark, Goto
      <3>2. \A r \in Runs : runs'[r].esc = runs[r].esc
        BY <1>1, <3>1 DEF Run
      <3>3. \A x \in Workers : me'[x].copy = me[x].copy
        BY <1>1, <3>1 DEF Local
      <3> QED
        BY <1>1, <3>2, <3>3, KnowsFrom
    <2>7. CASE ResumeRead(w)
      <3>1. CASE Return(w)
        BY <1>3, <1>8, <2>7, <3>1 DEF ResumeRead, tables
      <3>2. CASE ~Return(w)
        <4> DEFINE r == purchases[me[w].item].by
                   next == IF purchases[runs[r].esc].status = "captured" THEN "receipt" ELSE "denied"
        <4>1. /\ r \in Runs
              /\ me' = [me EXCEPT ![w].pc = "resume_mark", ![w].run = r, ![w].copy = runs[r],
                                  ![w].node = next]
          BY <2>7, <3>2 DEF ResumeRead
        <4> HIDE DEF r, next
        <4>2. \A x \in Workers : me'[x].copy.esc \in {me[x].copy.esc, runs[r].esc}
          BY <1>1, <4>1 DEF Local
        <4>3. runs' = runs
          BY <2>7 DEF ResumeRead, tables
        <4> QED
          BY <1>1, <1>8, <4>1, <4>2, <4>3
      <3> QED
        BY <3>1, <3>2
    <2>8. CASE \/ ResolveWrite(w) \/ Reject(w) \/ ExpireRead(w) \/ ExpireWrite(w)
               \/ ExpirePurchase(w) \/ SweepOne(w) \/ Claim(w) \/ Pass(w) \/ Match(w) \/ Fired(w)
      <3>1. runs' = runs
        BY <2>8 DEF ResolveWrite, Reject, ExpireRead, ExpireWrite, ExpirePurchase, SweepOne, Claim,
                    Pass, Match, Fired, tables
      <3>2. \A x \in Workers : me'[x].copy = me[x].copy
        <4>1. CASE ResolveWrite(w) \/ Reject(w) \/ ExpireRead(w) \/ ExpireWrite(w) \/ ExpirePurchase(w)
          BY <1>1, <4>1 DEF ResolveWrite, Reject, ExpireRead, ExpireWrite, ExpirePurchase, Goto, Local
        <4>2. CASE SweepOne(w)
          <5>1. PICK u : me' = [me EXCEPT ![w].pc = "expire_read", ![w].item = u, ![w].todo = @ \ {u}]
            BY Zenon, <4>2 DEF SweepOne
          <5> QED
            BY <1>1, <5>1 DEF Local
        <4>3. CASE Claim(w)
          BY <1>1, <4>3 DEF Claim, Local
        <4>4. CASE Pass(w)
          <5>1. PICK u : me' = [me EXCEPT ![w].todo = @ \ {u}]
            BY <4>4 DEF Pass
          <5> QED
            BY <1>1, <5>1 DEF Local
        <4>5. CASE Match(w)
          <5>1. PICK v : me' = [me EXCEPT ![w].pc = IF v \in Autobuy THEN "fire" ELSE "fired",
                                          ![w].watch = v, ![w].todo = @ \ {v}]
            BY Zenon, <4>5 DEF Match
          <5> QED
            BY <1>1, <5>1 DEF Local
        <4>6. CASE Fired(w)
          BY <1>1, <4>6 DEF Fired, Local
        <4> QED
          BY <2>8, <4>1, <4>2, <4>3, <4>4, <4>5, <4>6
      <3> QED
        BY <1>1, <1>8, <3>1, <3>2
    <2>9. ASSUME NEW outcome \in Outcomes, Retry(w, outcome) \/ Fire(w, outcome)
          PROVE  Knows'
      <3>1. runs' = runs
        BY <2>9 DEF Retry, Fire
      <3>2. CASE Return(w)
        BY <1>3, <1>8, <3>1, <3>2
      <3>3. CASE ~Return(w)
        <4>1. \A x \in Workers : me'[x].copy = me[x].copy
          BY <1>1, <2>9, <3>3 DEF Retry, Fire, Local
        <4> QED
          BY <1>1, <1>8, <3>1, <4>1
      <3> QED
        BY <3>2, <3>3
    <2>10. CASE Unlock(w)
      BY <1>3, <1>8, <2>10 DEF Unlock, tables
    <2> QED
      BY <1>9, <2>1, <2>2, <2>3, <2>4, <2>5, <2>6, <2>7, <2>8, <2>9, <2>10, <2>11,
         <2>12, <2>13 DEF Step
  <1>10. ASSUME NEW w \in Workers, Tick(w) \/ Die(w)
         PROVE  Knows'
    <2>1. CASE Tick(w)
      <3>1. \A x \in Workers : me'[x].copy = me[x].copy
        BY <1>1, <2>1 DEF Tick, Local
      <3> QED
        BY <1>1, <1>8, <2>1, <3>1 DEF Tick, tables
    <2>2. CASE Die(w)
      BY <1>3, <1>8, <2>2 DEF Die, tables
    <2> QED
      BY <1>10, <2>1, <2>2
  <1>11. ASSUME NEW w \in Workers, NEW new, me' = [me EXCEPT ![w] = new], Sourced(new.copy.esc)
         PROVE  \A x \in Workers : Sourced(me'[x].copy.esc)
    BY <1>1, <1>11
  <1>12. ASSUME NEW w \in Workers, NEW r \in Runs,
                Guide(w, r) \/ \E search \in BOOLEAN : Start(w, r, search)
         PROVE  Knows'
    <2>1. CASE Guide(w, r)
      <3> DEFINE new == [Idle EXCEPT !.pc = "guide", !.run = r, !.copy = runs[r]]
      <3>1. me' = [me EXCEPT ![w] = new] /\ new.copy = runs[r] /\ runs' = runs
        BY <2>1 DEF Guide, Idle, tables
      <3> HIDE DEF new
      <3> QED
        BY <1>1, <1>8, <1>11, <3>1
    <2>2. ASSUME NEW search \in BOOLEAN, Start(w, r, search)
          PROVE  Knows'
      <3> DEFINE row == [NoRun EXCEPT !.status = "running", !.search = search]
                 new == [Idle EXCEPT !.pc = "loop", !.run = r, !.copy = row]
      <3>1. /\ me' = [me EXCEPT ![w] = new] /\ new.copy = row /\ row.esc = 0
            /\ runs' = [runs EXCEPT ![r] = row]
        BY <2>2 DEF Start, Idle, NoRun
      <3> HIDE DEF row, new
      <3>2. \A q \in Runs : Sourced(runs'[q].esc)
        BY <1>1, <1>2, <3>1
      <3>3. \A x \in Workers : Sourced(me'[x].copy.esc)
        BY <1>2, <1>11, <3>1
      <3> QED
        BY <3>2, <3>3, KnowsFrom
    <2> QED
      BY <1>12, <2>1, <2>2
  <1>13. ASSUME NEW w \in Workers, NEW u \in Purchases, NEW d \in Decisions \ {"none"}, Answer(w, u, d)
         PROVE  Knows'
    <2>1. PICK p, e : me' = [me EXCEPT ![w] = [Idle EXCEPT !.pc = p, !.item = u, !.decision = e]]
      BY <1>13 DEF Answer
    <2> DEFINE new == [Idle EXCEPT !.pc = p, !.item = u, !.decision = e]
    <2>2. new.copy = NoRun /\ me' = [me EXCEPT ![w] = new]
      BY <2>1 DEF Idle
    <2> HIDE DEF new
    <2> QED
      BY <1>2, <1>8, <1>11, <1>13, <2>2 DEF Answer, tables
  <1>14. ASSUME \/ \E u \in Purchases : Elapse(u)
                \/ \E v \in Watches : ComeDue(v) \/ Cancel(v)
                \/ UNCHANGED vars
         PROVE  Knows'
    <2>1. UNCHANGED <<runs, me>>
      BY <1>14 DEF Elapse, ComeDue, Cancel, tables, vars
    <2> QED
      BY <1>1, <1>8, <2>1
  <1> QED
    BY <1>9, <1>10, <1>12, <1>13, <1>14 DEF Next

LEMMA DoneStep ==
  ASSUME LooseInv, DoneInv, Knows, [Next]_vars
  PROVE  DoneInv' /\ Knows'
  <1>0. Grows
    <2>1. ASSUME NEW w \in Workers
          PROVE  Buys(w)
      BY DEF DoneInv, DoneCopy, Buys, OnRun
    <2> QED
      BY <2>1, GrowsStep
  <1>1. ASSUME NEW w \in Workers, OffRunStep(w)
        PROVE  DoneInv'
    BY <1>0, <1>1, OffRunIs, DoneOff, DoneKeep
  <1>2. ASSUME NEW w \in Workers, Step(w)
        PROVE  DoneInv'
    BY <1>0, <1>1, <1>2, DoneLoop, DoneEnd, DoneResume, DoneGate DEF Step, OffRunStep
  <1>3. ASSUME NEW w \in Workers, NEW r \in Runs,
               Guide(w, r) \/ \E search \in BOOLEAN : Start(w, r, search)
        PROVE  DoneInv'
    BY <1>0, <1>3, DoneStart
  <1>4. ASSUME NEW w \in Workers, \/ Tick(w) \/ Die(w)
                                  \/ \E u \in Purchases, d \in Decisions \ {"none"} : Answer(w, u, d)
        PROVE  DoneInv'
    BY <1>1, <1>4 DEF OffRunStep
  <1>5. ASSUME \/ \E u \in Purchases : Elapse(u)
               \/ \E v \in Watches : ComeDue(v) \/ Cancel(v)
               \/ UNCHANGED vars
        PROVE  DoneInv'
    <2>1. UNCHANGED <<runs, purchases, escalations, me>>
      BY <1>5 DEF Elapse, ComeDue, Cancel, tables, vars
    <2> QED
      BY <2>1 DEF DoneInv, DoneRow, DoneCopy, CapturedFor
  <1> QED
    BY <1>0, <1>2, <1>3, <1>4, <1>5, KnowsStep DEF Next

LEMMA DoneInit ==
  ASSUME Init
  PROVE  DoneInv /\ Knows
  <1>1. \A r \in Runs : \A u \in Purchases : purchases[u].by # r
    BY RunAssumption DEF Init, NoPurchase
  <1>2. \A r \in Runs : runs[r].status = "none" /\ runs[r].node = "perceive"
    BY DEF Init, NoRun
  <1>3. \A w \in Workers : me[w].pc = "idle"
    BY DEF Init, Idle
  <1>4. Knows
    BY DEF Init, Idle, NoRun, Knows, Known
  <1> QED
    BY <1>1, <1>2, <1>3, <1>4 DEF DoneInv, DoneRow, DoneCopy, OnRun, Looping, Resuming

LEMMA DoneAlways == Spec => []DoneInv
  <1>1. Init => DoneInv /\ Knows
    BY DoneInit
  <1>2. LooseInv /\ (DoneInv /\ Knows) /\ [Next]_vars => (DoneInv /\ Knows)'
    BY DoneStep
  <1> QED
    BY <1>1, <1>2, LooseAlways, PTL DEF Spec

----------------------------------------------------------------------------
(* Theorems that assume nothing about what overlaps *)

(* Every row of the agent's tables and every local of graph.py,             *)
(* escalation.py and watcher.py keeps its type and the replans their bound, *)
(* also when two workers handle one run or one escalation at once.          *)
THEOREM RunTypes == Spec => []TypeOK
  <1>1. LooseInv => TypeOK
    BY DEF LooseInv
  <1> QED
    BY <1>1, LooseAlways, PTL

(* A watch that watcher.check fired stops firing, with ticks that           *)
(* overlap, a buyer who cancels and answers that overlap: the advisory lock *)
(* of service.tick is enough.  It buys or asks a human once, and once more  *)
(* for each process that dies between the purchase and the mark and for     *)
(* each payment whose answer was lost, after which the watch stays active.  *)
THEOREM WatchesFireOnce == Spec => []WatchFiresOnce
  <1>1. LooseInv /\ WatchInv => WatchFiresOnce
    <2> SUFFICES ASSUME LooseInv, WatchInv, NEW v \in Watches
                 PROVE  Cardinality(AskedBy(v))
                          <= 1 + deaths + Cardinality(AskedBy(v) \cap LostFor(v))
      BY DEF WatchFiresOnce
    <2> DEFINE L == AskedBy(v) \cap LostFor(v)
    <2>1. IsFiniteSet(Counted(v)) /\ deaths \in Nat
      BY DEF WatchInv, WatchCosts, LooseInv, TypeOK
    <2>2. L \subseteq Purchases /\ AskedBy(v) \subseteq Counted(v) \cup L
      BY DEF AskedBy, LostFor, Counted
    <2>3. IsFiniteSet(L)
      BY <2>2, FS_Subset, RunAssumption
    <2> HIDE DEF L
    <2>4. /\ Cardinality(AskedBy(v)) <= Cardinality(Counted(v)) + Cardinality(L)
          /\ Cardinality(AskedBy(v)) \in Nat /\ Cardinality(Counted(v)) \in Nat
          /\ Cardinality(L) \in Nat
      BY <2>1, <2>2, <2>3, AtMostBoth
    <2>5. \/ Cardinality(Counted(v)) + 1 <= 1 + deaths
          \/ Cardinality(Counted(v)) + 0 <= 1 + deaths
      BY DEF WatchInv, WatchCosts
    <2>6. Cardinality(AskedBy(v)) <= 1 + deaths + Cardinality(L)
      BY <2>1, <2>4, <2>5
    <2> QED
      BY <2>6 DEF L
  <1> QED
    BY <1>1, LooseAlways, PTL

(* A run whose row says done has a captured purchase of its own, or was a   *)
(* search, which never buys: also when graph.resume, add_guidance and the   *)
(* loop run_until_pause work on stale copies of one row at once.            *)
THEOREM DoneRunsAreTrue == Spec => []DoneIsTrue
  <1>1. DoneInv => DoneIsTrue
    <2> SUFFICES ASSUME DoneInv, NEW r \in Runs
                 PROVE  /\ runs[r].status = "done" /\ ~runs[r].search => CapturedFor(r) # {}
                        /\ runs[r].search => \A u \in Purchases : purchases[u].by # r
      BY DEF DoneIsTrue
    <2>1. DoneRow(r)
      BY DEF DoneInv
    <2> QED
      BY <2>1 DEF DoneRow
  <1> QED
    BY <1>1, DoneAlways, PTL
=============================================================================
