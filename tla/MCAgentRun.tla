----------------------------- MODULE MCAgentRun -----------------------------
(* Instances of AgentRun: two processes that serve buyers, approvers and    *)
(* cron, around one run or around one watch.                                *)
EXTENDS AgentRun

CONSTANTS p1, p2, r1, v1

(* The watch is cancelled and the last id went to a purchase somebody else  *)
(* made: what is left is a run, and purchases 1 and 2.                      *)
AroundRun ==
  /\ runs = [r \in Runs |-> NoRun]
  /\ watches = [v \in Watches |-> "cancelled"]
  /\ purchases = [u \in Purchases |-> IF u = 3 THEN [NoPurchase EXCEPT !.status = "rejected"]
                                      ELSE NoPurchase]

(* The run ended with nothing to sell; the watch is active. *)
AroundWatch ==
  /\ runs = [r \in Runs |-> [NoRun EXCEPT !.node = "denied", !.status = "denied"]]
  /\ watches = [v \in Watches |-> "active"]
  /\ purchases = [u \in Purchases |-> NoPurchase]

EitherInit ==
  /\ AroundRun \/ AroundWatch
  /\ escalations = [u \in Purchases |-> "none"]
  /\ overdue = {}
  /\ due = {}
  /\ lock = None
  /\ me = [w \in Workers |-> Idle]
  /\ deaths = 0
  /\ crossed = {}

EitherSpec == EitherInit /\ [][Next]_vars /\ Fairness
=============================================================================
