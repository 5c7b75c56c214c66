--------------------------- MODULE ApiEscalations ---------------------------
(***************************************************************************)
(* The escalations of the API lane (src/api/services/escalations.py): a    *)
(* purchase waits for a person until a deadline, after which silence is a  *)
(* refusal.  The sweeper, every read and every answer expire what is due.  *)
(*                                                                         *)
(* A request is one transaction.  One that answers an escalation first     *)
(* expires what is due by the clock it has read, which locks those rows    *)
(* until it ends, and a conflict (409) rolls all of it back.  Times are    *)
(* whole seconds, as they are stored.                                      *)
(*                                                                         *)
(* The agent writes escalations of its own in the same table, and closes   *)
(* them by unguarded updates (agent/escalation.py, resolve and             *)
(* expire_due): that writer is in module AgentRun, not here.               *)
(***************************************************************************)
EXTENDS Naturals, FiniteSets

CONSTANTS
  Escalations,  \* escalation ids
  Resolvers,    \* requests that answer one
  Timeout,      \* escalation_timeout_seconds
  MaxClock      \* bound: seconds that pass

ASSUME EscalationsAssumption == Timeout \in Nat /\ MaxClock \in Nat

VARIABLES
  clock,     \* the time of day
  esc,       \* the escalations table
  txn,       \* the answers in flight: whose, to which escalation, what, the clock it
             \* has read, and the rows it has expired and holds locked
  verdicts,  \* verdict events in the outbox, counted by escalation and type
  reading    \* history: the clock reading an answer was accepted by

eVars == <<clock, esc, txn, verdicts, reading>>

EventTypes == {"escalation.resolved", "escalation.expired"}

Absent == [status |-> "absent", decision |-> "none", timeout |-> 0]

EscalationsTypeOK ==
  /\ clock \in Nat
  /\ esc \in [Escalations -> [status : {"absent", "pending", "resolved", "expired"},
                              decision : {"none", "APPROVE", "REJECT"}, timeout : Nat]]
  /\ txn \subseteq [by : Resolvers, of : Escalations, decision : {"APPROVE", "REJECT"},
                    moment : Nat, swept : SUBSET Escalations]
  /\ verdicts \in [Escalations \X EventTypes -> Nat]
  /\ reading \in [Escalations -> Nat]

EscalationsInit ==
  /\ clock = 0
  /\ esc = [e \in Escalations |-> Absent]
  /\ txn = {}
  /\ verdicts = [v \in Escalations \X EventTypes |-> 0]
  /\ reading = [e \in Escalations |-> 0]

Tick ==
  /\ clock < MaxClock
  /\ clock' = clock + 1
  /\ UNCHANGED <<esc, txn, verdicts, reading>>

(* create: the saga's helper. *)
create(e) ==
  /\ esc[e] = Absent
  /\ esc' = [esc EXCEPT ![e] = [status |-> "pending", decision |-> "none", timeout |-> clock + Timeout]]
  /\ UNCHANGED <<clock, txn, verdicts, reading>>

----------------------------------------------------------------------------
(* Expiry *)

(* The rows the guarded UPDATE of expire_pending picks. *)
Due(moment) == {e \in Escalations : esc[e].status = "pending" /\ esc[e].timeout < moment}

(* Rows that these transactions have updated and not committed. *)
LockedBy(T) == UNION {t.swept : t \in T}

Expired(D) ==
  [e \in Escalations |-> IF e \in D THEN [esc[e] EXCEPT !.status = "expired", !.decision = "REJECT"]
                         ELSE esc[e]]

Emitted(D, type) ==
  [v \in Escalations \X EventTypes |-> verdicts[v] + IF v[1] \in D /\ v[2] = type THEN 1 ELSE 0]

(* One guarded UPDATE, with its events. *)
expire_pending ==
  /\ Due(clock) # {}
  /\ Due(clock) \cap LockedBy(txn) = {}
  /\ esc' = Expired(Due(clock))
  /\ verdicts' = Emitted(Due(clock), "escalation.expired")
  /\ UNCHANGED <<clock, txn, reading>>

(* The sweeper, and every read: the expiry in a transaction of its own. *)
sweep_forever == expire_pending

list_escalations == expire_pending

----------------------------------------------------------------------------
(* resolve *)

(* Reads the clock, expires what is due and looks the escalation up; unless *)
(* it is pending the answer is a conflict, and nothing stays.               *)
ResolveBegin(r, e, d) ==
  /\ \A t \in txn : t.by # r
  /\ Due(clock) \cap LockedBy(txn) = {}
  /\ esc[e].status = "pending" /\ e \notin Due(clock)
  /\ txn' = txn \cup {[by |-> r, of |-> e, decision |-> d, moment |-> clock, swept |-> Due(clock)]}
  /\ UNCHANGED <<clock, esc, verdicts, reading>>

(* Mutant: the UPDATE is keyed by the id alone, after the read. *)
StillOpenById(e, moment) == TRUE

(* The guard of the UPDATE. *)
StillOpen(e, moment) == esc[e].status = "pending" /\ esc[e].timeout >= moment

(* The UPDATE waits for whoever holds the row, looks again, and commits     *)
(* together with the event and with what was expired on the way.            *)
resolve(t) ==
  LET type == IF t.decision = "APPROVE" THEN "escalation.resolved" ELSE "escalation.expired" IN
  /\ t.of \notin LockedBy(txn \ {t})
  /\ StillOpen(t.of, t.moment)
  /\ esc' = [Expired(t.swept) EXCEPT ![t.of].status = "resolved", ![t.of].decision = t.decision]
  /\ verdicts' = [Emitted(t.swept, "escalation.expired") EXCEPT ![<<t.of, type>>] = @ + 1]
  /\ reading' = [reading EXCEPT ![t.of] = t.moment]
  /\ txn' = txn \ {t}
  /\ UNCHANGED clock

(* Another answer or a sweep won, or the process died. *)
RollbackAnswer(t) ==
  /\ txn' = txn \ {t}
  /\ UNCHANGED <<clock, esc, verdicts, reading>>

EscalationsNext ==
  \/ Tick \/ sweep_forever \/ list_escalations
  \/ \E e \in Escalations : create(e)
  \/ \E r \in Resolvers, e \in Escalations, d \in {"APPROVE", "REJECT"} : ResolveBegin(r, e, d)
  \/ \E t \in txn : resolve(t) \/ RollbackAnswer(t)

EscalationsSpec == EscalationsInit /\ [][EscalationsNext]_eVars

----------------------------------------------------------------------------
(* Properties *)

(* The saga hears exactly one verdict per escalation, and it is the one the *)
(* row records: none while it is pending, an approval only when a person    *)
(* approved by a clock that had not passed the deadline, and a refusal for  *)
(* a rejection and for silence.  Two answers, or an answer and a sweep, at  *)
(* the same moment never both count.                                        *)
OneVerdict ==
  \A e \in Escalations :
    LET approved == esc[e].status = "resolved" /\ esc[e].decision = "APPROVE"
        closed   == esc[e].status \in {"resolved", "expired"}
    IN /\ verdicts[<<e, "escalation.resolved">>] = IF approved THEN 1 ELSE 0
       /\ verdicts[<<e, "escalation.expired">>] = IF closed /\ ~approved THEN 1 ELSE 0
       /\ approved => reading[e] <= esc[e].timeout
=============================================================================
