----------------------------- MODULE MCPlatform -----------------------------
(***************************************************************************)
(* The platform around the decision for TLC: the issuer, the rail and the  *)
(* shop, composed; and the escalations, the evidence and the outbox, which *)
(* share no state with them.  An instance of the independent parts need    *)
(* not interleave them: "focus" says which part a behaviour exercises.     *)
(***************************************************************************)
EXTENDS Merchant, ApiEscalations, AuditTrail, Ledger, Outbox, TLC

CONSTANTS g1, t1, n1, a1, a2, x1

VARIABLE focus

mcVars == <<vars, eVars, aVars, lVars, oVars, focus>>

MCEvidence ==
  {[mandate |-> TRUE, intent |-> TRUE, cart |-> TRUE, escalated |-> TRUE, receipt |-> r] : r \in BOOLEAN}

(* The same body again; another purchase under another key; another         *)
(* purchase under the same key.  The other cart is charged under the key of *)
(* the first attempt.                                                       *)
MCBodies ==
  {[a \in Calls |-> IF a = a2 THEN b ELSE [purchase |-> "p1", key |-> "k1"]] :
     b \in {[purchase |-> "p1", key |-> "k1"], [purchase |-> "p2", key |-> "k2"],
            [purchase |-> "p2", key |-> "k1"]}}

MCInit ==
  /\ CommerceInit /\ EscalationsInit /\ AuditInit /\ LedgerInit /\ OutboxInit
  /\ focus \in {"issuer", "shop", "disputes", "escalations", "audit", "ledger", "outbox"}
  /\ focus # "issuer" => ~counts
  /\ focus # "disputes" => price = 1
  /\ focus # "shop" => \A a \in Calls : body[a].purchase = "p1"

Commerce == CommerceNext /\ UNCHANGED <<eVars, aVars, lVars, oVars>>

(* Passkeys, the mandate and the vault, with nothing for sale; the holder   *)
(* follows up the first enrolment only.                                     *)
Issuer ==
  /\ focus = "issuer" /\ Commerce
  /\ shop' = shop /\ call' = call
  /\ \A n \in Enrolments \ {n1} : setup'[n] \in {None, "pending"}

(* With something for sale, the holder enrols and activates once, in time,  *)
(* before the first quote.                                                  *)
Plain ==
  /\ Commerce
  /\ stale' = {} /\ mandate'.status # "suspended" /\ mandate'.token \in {t1, mandate.token}
  /\ setup'[n1] # "lapsed" /\ \A n \in Enrolments \ {n1} : setup'[n] = None
  /\ \A t \in Tokens \ {t1} : tokens'[t] = None /\ [token |-> t, of |-> n1] \notin confirming'
  /\ \A g \in Gestures \ {g1} : req'[g] = IdleRequest
  /\ changed["activate"] = 0 => shop' = shop

(* Two attempts to pay while the holder revokes and the price goes up, or   *)
(* while another cart of another price is charged.                          *)
Shop ==
  /\ focus = "shop" /\ Plain /\ disputes' = disputes /\ price' # None /\ price' >= price
  /\ call'[x1] # NoCall => call'[x1].amount = 2 /\ challenge'["revoke"] = None /\ price' = 1

(* One attempt, and what may follow when it has been paid. *)
Disputes ==
  /\ focus = "disputes" /\ Plain
  /\ challenge'["revoke"] = None /\ call'[x1] = NoCall
  /\ \A a \in Attempts \ {a1} : attempt'[a].pc = "idle"

MCNext ==
  \/ Issuer /\ UNCHANGED focus
  \/ Shop /\ UNCHANGED focus
  \/ Disputes /\ UNCHANGED focus
  \/ focus = "escalations" /\ EscalationsNext /\ UNCHANGED <<vars, aVars, lVars, oVars, focus>>
  \/ focus = "audit" /\ AuditNext /\ UNCHANGED <<vars, eVars, lVars, oVars, focus>>
  \/ focus = "ledger" /\ LedgerNext /\ UNCHANGED <<vars, eVars, aVars, oVars, focus>>
  \/ focus = "outbox" /\ OutboxNext /\ UNCHANGED <<vars, eVars, aVars, lVars, focus>>

MCSpec == MCInit /\ [][MCNext]_mcVars /\ OutboxFairness

(* Every variable of the platform keeps its type. *)
PlatformTypeOK ==
  /\ MandatesTypeOK /\ RailTypeOK /\ MerchantTypeOK
  /\ EscalationsTypeOK /\ AuditTypeOK /\ LedgerTypeOK /\ OutboxTypeOK
=============================================================================
