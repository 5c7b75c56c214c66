------------------------------- MODULE Outbox -------------------------------
(***************************************************************************)
(* The outbox table and the two relays that drain it: the worker of the    *)
(* agent lane (src/agent/relay.py) and the scheduled job of the API lane   *)
(* (src/api/events/relay.py, run by src/api/jobs/relay.py).                *)
(*                                                                         *)
(* A worker keeps its rows locked from the SELECT to the commit, calls     *)
(* every subscriber, counts a failure and gives an event up after          *)
(* MaxAttempts.  A job lets go of the locks as soon as it has read the     *)
(* rows, stops at the first sink that fails, counts nothing, and marks an  *)
(* event without looking at it again.                                      *)
(***************************************************************************)
EXTENDS Naturals, FiniteSets

CONSTANTS
  Events,       \* sequence numbers of the outbox
  Workers,      \* processes of agent/relay.py
  Jobs,         \* instances of the API job
  Subscribers,  \* SUBSCRIBERS of the agent lane
  NumSinks,     \* sinks of the API lane, called in order
  MaxAttempts,  \* MAX_ATTEMPTS
  Batch,        \* events a pass takes
  MaxDeaths     \* bound: workers and jobs that die in the middle of a pass

ASSUME OutboxAssumption ==
  /\ Events \subseteq Nat /\ NumSinks \in Nat
  /\ MaxAttempts \in Nat \ {0} /\ Batch \in Nat \ {0} /\ MaxDeaths \in Nat

VARIABLES
  row,      \* the outbox rows: absent, waiting or relayed, and the attempts
  pass,     \* by worker: rows claimed, rows accepted and rows refused so far
  fetched,  \* by job: rows in flight and not yet handled
  marking,  \* by job: rows every sink has taken, to be marked
  got,      \* history: who has accepted each event
  deaths

oVars == <<row, pass, fetched, marking, got, deaths>>

Sinks == 1..NumSinks

Idle == [todo |-> {}, ok |-> {}, failed |-> {}]

OutboxTypeOK ==
  /\ row \in [Events -> [state : {"absent", "waiting", "relayed"}, attempts : Nat]]
  /\ pass \in [Workers -> [todo : SUBSET Events, ok : SUBSET Events, failed : SUBSET Events]]
  /\ fetched \in [Jobs -> SUBSET Events]
  /\ marking \in [Jobs -> SUBSET Events]
  /\ got \in [Events -> SUBSET (Subscribers \cup Sinks)]
  /\ deaths \in Nat

OutboxInit ==
  /\ row = [e \in Events |-> [state |-> "absent", attempts |-> 0]]
  /\ pass = [w \in Workers |-> Idle]
  /\ fetched = [j \in Jobs |-> {}]
  /\ marking = [j \in Jobs |-> {}]
  /\ got = [e \in Events |-> {}]
  /\ deaths = 0

(* The insert, in the transaction of the business change. *)
emit_event(e) ==
  /\ row[e].state = "absent"
  /\ row' = [row EXCEPT ![e].state = "waiting"]
  /\ UNCHANGED <<pass, fetched, marking, got, deaths>>

Held(w) == pass[w].todo \cup pass[w].ok \cup pass[w].failed

Locked(e) == \E w \in Workers : e \in Held(w)

(* ORDER BY seq FOR UPDATE SKIP LOCKED LIMIT batch. *)
FirstOf(S) == {e \in S : Cardinality({f \in S : f < e}) < Batch}

IsNext(e, S) == e \in S /\ \A f \in S : e <= f

Waiting == {e \in Events : row[e].state = "waiting" /\ ~Locked(e)}

----------------------------------------------------------------------------
(* drain of the agent lane, one transaction *)

Claim(w) ==
  LET mine == FirstOf({e \in Waiting : row[e].attempts < MaxAttempts}) IN
  /\ pass[w] = Idle
  /\ mine # {}
  /\ pass' = [pass EXCEPT ![w].todo = mine]
  /\ UNCHANGED <<row, fetched, marking, got, deaths>>

(* Mutant: the error of one subscriber is forgotten when the next accepts. *)
AcceptedByLast(A) == A # {}

(* No subscriber has raised. *)
Accepted(A) == A = Subscribers

(* Every subscriber is called, whatever the others do; A are those that     *)
(* accept.                                                                  *)
on_event(w, e, A) ==
  /\ IsNext(e, pass[w].todo)
  /\ pass' = [pass EXCEPT ![w].todo = @ \ {e},
                          ![w].ok = IF Accepted(A) THEN @ \cup {e} ELSE @,
                          ![w].failed = IF Accepted(A) THEN @ ELSE @ \cup {e}]
  /\ got' = [got EXCEPT ![e] = @ \cup A]
  /\ UNCHANGED <<row, fetched, marking, deaths>>

(* Mutant: a failure is not counted. *)
CommitUncounted(w) ==
  /\ pass[w].todo = {} /\ Held(w) # {}
  /\ row' = [e \in Events |->
               [state    |-> IF e \in pass[w].ok THEN "relayed" ELSE row[e].state,
                attempts |-> row[e].attempts + IF e \in pass[w].ok THEN 1 ELSE 0]]
  /\ pass' = [pass EXCEPT ![w] = Idle]
  /\ UNCHANGED <<fetched, marking, got, deaths>>

Commit(w) ==
  /\ pass[w].todo = {} /\ Held(w) # {}
  /\ row' = [e \in Events |->
               [state    |-> IF e \in pass[w].ok THEN "relayed" ELSE row[e].state,
                attempts |-> row[e].attempts + IF e \in Held(w) THEN 1 ELSE 0]]
  /\ pass' = [pass EXCEPT ![w] = Idle]
  /\ UNCHANGED <<fetched, marking, got, deaths>>

(* The transaction rolls back; what was delivered stays delivered. *)
WorkerDies(w) ==
  /\ Held(w) # {} /\ deaths < MaxDeaths
  /\ pass' = [pass EXCEPT ![w] = Idle]
  /\ deaths' = deaths + 1
  /\ UNCHANGED <<row, fetched, marking, got>>

----------------------------------------------------------------------------
(* drain of the API lane *)

(* fetch_unrelayed: dead letters of the other lane are taken too. *)
fetch_unrelayed(j) ==
  /\ fetched[j] = {} /\ marking[j] = {}
  /\ Waiting # {}
  /\ fetched' = [fetched EXCEPT ![j] = FirstOf(Waiting)]
  /\ UNCHANGED <<row, pass, marking, got, deaths>>

(* The sinks up to the first that fails take the event; after a failure it  *)
(* is released for a later pass.                                            *)
handle(j, e, A) ==
  /\ IsNext(e, fetched[j]) /\ marking[j] = {}
  /\ fetched' = [fetched EXCEPT ![j] = @ \ {e}]
  /\ marking' = [marking EXCEPT ![j] = IF A = Sinks THEN {e} ELSE {}]
  /\ got' = [got EXCEPT ![e] = @ \cup A]
  /\ UNCHANGED <<row, pass, deaths>>

(* The UPDATE waits for a worker that has the row locked. *)
mark_relayed(j, e) ==
  /\ e \in marking[j] /\ ~Locked(e)
  /\ row' = [row EXCEPT ![e].state = "relayed"]
  /\ marking' = [marking EXCEPT ![j] = {}]
  /\ UNCHANGED <<pass, fetched, got, deaths>>

JobDies(j) ==
  /\ fetched[j] \cup marking[j] # {} /\ deaths < MaxDeaths
  /\ fetched' = [fetched EXCEPT ![j] = {}]
  /\ marking' = [marking EXCEPT ![j] = {}]
  /\ deaths' = deaths + 1
  /\ UNCHANGED <<row, pass, got>>

WorkerStep(w) ==
  \/ Claim(w) \/ Commit(w)
  \/ \E e \in Events, A \in SUBSET Subscribers : on_event(w, e, A)

OutboxNext ==
  \/ \E e \in Events : emit_event(e)
  \/ \E w \in Workers : WorkerStep(w) \/ WorkerDies(w)
  \/ \E j \in Jobs :
       \/ fetch_unrelayed(j) \/ JobDies(j)
       \/ \E e \in Events :
            \/ \E k \in 0..NumSinks : handle(j, e, 1..k)
            \/ mark_relayed(j, e)

(* run_forever: a worker makes one pass after another. *)
OutboxFairness == \A w \in Workers : WF_oVars(WorkerStep(w))

OutboxSpec == OutboxInit /\ [][OutboxNext]_oVars /\ OutboxFairness

----------------------------------------------------------------------------
(* Properties *)

(* An event marked as relayed really arrived: all subscribers of one lane   *)
(* accepted it, however the passes of workers and jobs overlap and die, and *)
(* a subscriber that failed once is called again.                           *)
RelayedMeansDelivered ==
  \A e \in Events :
    row[e].state = "relayed" => Subscribers \subseteq got[e] \/ Sinks \subseteq got[e]

(* Every event is eventually relayed or given up after MaxAttempts passes:  *)
(* an event that always fails does not keep the ones behind it waiting.     *)
EveryEventSettles ==
  \A e \in Events :
    row[e].state = "waiting" ~> row[e].state = "relayed" \/ row[e].attempts >= MaxAttempts
=============================================================================
