--------------------------- MODULE PlatformProofs ---------------------------
(***************************************************************************)
(* The escalations of the API lane, for any number of escalations,         *)
(* concurrent answers and sweeps and any timeout; and the platform that    *)
(* module MCPlatform composes of the issuer, the rail, the shop            *)
(* (CommerceProofs), the evidence and the outbox (EvidenceProofs) and      *)
(* these escalations.                                                      *)
(*                                                                         *)
(* OneVerdict is not inductive by itself: that a row a transaction has     *)
(* expired and not committed is still pending, and held by nobody else, is *)
(* what makes its expiry count once.                                       *)
(***************************************************************************)
EXTENDS MCPlatform, CommerceProofs, EvidenceProofs

----------------------------------------------------------------------------
(* The escalations *)

Escalation == [status : {"absent", "pending", "resolved", "expired"},
               decision : {"none", "APPROVE", "REJECT"}, timeout : Nat]

(* The verdict of one escalation. *)
RowVerdict(e) ==
  LET approved == esc[e].status = "resolved" /\ esc[e].decision = "APPROVE"
      closed   == esc[e].status \in {"resolved", "expired"}
  IN /\ verdicts[<<e, "escalation.resolved">>] = IF approved THEN 1 ELSE 0
     /\ verdicts[<<e, "escalation.expired">>] = IF closed /\ ~approved THEN 1 ELSE 0
     /\ approved => reading[e] <= esc[e].timeout

(* What a transaction has expired is still pending for everybody else. *)
SweptIsPending ==
  \A t \in txn : \A e \in t.swept : esc[e].status = "pending" /\ esc[e].timeout < t.moment

(* A row is locked by one transaction. *)
OneHolder == \A t, u \in txn : t # u => t.swept \cap u.swept = {}

EscInv == EscalationsTypeOK /\ SweptIsPending /\ OneHolder /\ OneVerdict

LEMMA OneVerdictByRow == OneVerdict <=> \A e \in Escalations : RowVerdict(e)
  BY DEF OneVerdict, RowVerdict

LEMMA EscStart == EscalationsInit => EscInv
<1> SUFFICES ASSUME EscalationsInit PROVE EscInv
  OBVIOUS
<1>1. EscalationsTypeOK
  BY DEF EscalationsInit, EscalationsTypeOK, Absent
<1>2. SweptIsPending /\ OneHolder
  BY DEF EscalationsInit, SweptIsPending, OneHolder
<1>3. OneVerdict
  BY DEF EscalationsInit, OneVerdict, Absent, EventTypes
<1> QED
  BY <1>1, <1>2, <1>3 DEF EscInv

(* What an expiry of the rows D does to the table and to the outbox. *)
LEMMA ExpiredRows ==
  ASSUME EscalationsTypeOK, NEW D \in SUBSET Escalations
  PROVE  /\ Expired(D) \in [Escalations -> Escalation]
         /\ \A e \in D : /\ Expired(D)[e].status = "expired"
                         /\ Expired(D)[e].timeout = esc[e].timeout
         /\ \A e \in Escalations \ D : Expired(D)[e] = esc[e]
  BY DEF EscalationsTypeOK, Expired, Escalation

LEMMA EmittedEvents ==
  ASSUME EscalationsTypeOK, NEW D \in SUBSET Escalations, NEW type \in EventTypes
  PROVE  /\ Emitted(D, type) \in [Escalations \X EventTypes -> Nat]
         /\ \A e \in Escalations, y \in EventTypes :
              Emitted(D, type)[<<e, y>>] = verdicts[<<e, y>>] + IF e \in D /\ y = type THEN 1 ELSE 0
<1>1. \A v \in Escalations \X EventTypes : verdicts[v] \in Nat
  BY DEF EscalationsTypeOK
<1> QED
  BY <1>1 DEF Emitted

(* A row that was pending and is expired, with its event, has its verdict. *)
LEMMA ExpiryInv ==
  ASSUME EscInv, NEW D \in SUBSET Escalations, NEW e \in Escalations,
         \A f \in D : esc[f].status = "pending",
         esc'[e] = Expired(D)[e], reading'[e] = reading[e],
         \A y \in EventTypes : verdicts'[<<e, y>>] = Emitted(D, "escalation.expired")[<<e, y>>]
  PROVE  RowVerdict(e)'
<1>1. RowVerdict(e)
  BY OneVerdictByRow DEF EscInv
<1>2. \A y \in EventTypes : verdicts[<<e, y>>] \in Nat
  BY DEF EscInv, EscalationsTypeOK
<1>3. "escalation.expired" \in EventTypes /\ "escalation.resolved" \in EventTypes
  BY DEF EventTypes
<1>4. /\ verdicts'[<<e, "escalation.resolved">>] = verdicts[<<e, "escalation.resolved">>]
      /\ verdicts'[<<e, "escalation.expired">>] = verdicts[<<e, "escalation.expired">>] + IF e \in D THEN 1 ELSE 0
  BY <1>2, <1>3, EmittedEvents DEF EscInv
<1>5. CASE e \in D
  <2>1. esc'[e].status = "expired"
    BY <1>5, ExpiredRows DEF EscInv
  <2>2. /\ verdicts'[<<e, "escalation.resolved">>] = 0
        /\ verdicts'[<<e, "escalation.expired">>] = 1
    BY <1>1, <1>4, <1>5 DEF RowVerdict
  <2> QED
    BY <2>1, <2>2 DEF RowVerdict
<1>6. CASE e \notin D
  <2>1. esc'[e] = esc[e]
    BY <1>6, ExpiredRows DEF EscInv
  <2>2. \A y \in EventTypes : verdicts'[<<e, y>>] = verdicts[<<e, y>>]
    BY <1>2, <1>3, <1>4, <1>6 DEF EventTypes
  <2> QED
    BY <1>1, <1>3, <2>1, <2>2 DEF RowVerdict
<1> QED
  BY <1>5, <1>6

(* Nothing but the clock or the transactions changes. *)
LEMMA QuietInv ==
  ASSUME EscInv, UNCHANGED <<esc, verdicts, reading>>
  PROVE  OneVerdict'
  BY DEF EscInv, OneVerdict

(* The next second; create, whose row nobody can have expired; a rollback,  *)
(* which frees the rows of one transaction.                                 *)
LEMMA TickInv ==
  ASSUME EscInv, Tick
  PROVE  EscInv'
<1>1. EscalationsTypeOK' /\ UNCHANGED <<esc, txn, verdicts, reading>>
  BY DEF EscInv, EscalationsTypeOK, Tick
<1> QED
  BY <1>1, QuietInv DEF EscInv, SweptIsPending, OneHolder

LEMMA RollbackAnswerInv ==
  ASSUME EscInv, NEW t \in txn, RollbackAnswer(t)
  PROVE  EscInv'
<1>1. EscalationsTypeOK' /\ txn' \subseteq txn /\ UNCHANGED <<esc, verdicts, reading>>
  BY DEF EscInv, EscalationsTypeOK, RollbackAnswer
<1> QED
  BY <1>1, QuietInv DEF EscInv, SweptIsPending, OneHolder

LEMMA CreateInv ==
  ASSUME EscInv, NEW e \in Escalations, create(e)
  PROVE  EscInv'
<1>1. /\ esc[e].status = "absent"
      /\ UNCHANGED <<clock, txn, verdicts, reading>>
      /\ \A f \in Escalations : f # e => esc'[f] = esc[f]
      /\ esc'[e].status = "pending" /\ esc'[e].timeout \in Nat
      /\ esc' \in [Escalations -> Escalation]
  BY EscalationsAssumption DEF EscInv, EscalationsTypeOK, create, Absent, Escalation
<1>2. EscalationsTypeOK'
  BY <1>1 DEF EscInv, EscalationsTypeOK, Escalation
<1>3. SweptIsPending' /\ OneHolder'
  BY <1>1, ZenonT(40) DEF EscInv, EscalationsTypeOK, SweptIsPending, OneHolder
<1>4. OneVerdict'
  <2> SUFFICES ASSUME NEW f \in Escalations PROVE RowVerdict(f)'
    BY DEF OneVerdict, RowVerdict
  <2>1. RowVerdict(f)
    BY OneVerdictByRow DEF EscInv
  <2> QED
    BY <1>1, <2>1 DEF RowVerdict
<1> QED
  BY <1>2, <1>3, <1>4 DEF EscInv

(* A sweep takes rows that are pending and that nobody has locked. *)
LEMMA SweepInv ==
  ASSUME EscInv, expire_pending
  PROVE  EscInv'
<1> DEFINE D == Due(clock)
<1>1. /\ D \in SUBSET Escalations
      /\ \A e \in D : esc[e].status = "pending"
  BY DEF Due
<1>2. /\ D \cap LockedBy(txn) = {}
      /\ esc' = Expired(D)
      /\ verdicts' = Emitted(D, "escalation.expired")
      /\ UNCHANGED <<clock, txn, reading>>
  BY DEF expire_pending
<1> HIDE DEF D
<1>3. EscalationsTypeOK'
  BY <1>1, <1>2, ExpiredRows, EmittedEvents DEF EscInv, EscalationsTypeOK, Escalation, EventTypes
<1>4. SweptIsPending' /\ OneHolder'
  <2>1. \A t \in txn : \A e \in t.swept : e \in Escalations /\ e \notin D
    BY <1>2 DEF LockedBy, EscInv, EscalationsTypeOK
  <2>2. \A t \in txn : \A e \in t.swept : esc'[e] = esc[e]
    BY <1>1, <1>2, <2>1, ExpiredRows DEF EscInv
  <2> QED
    BY <1>2, <2>2 DEF EscInv, SweptIsPending, OneHolder
<1>5. \A e \in Escalations : RowVerdict(e)'
  BY <1>1, <1>2, ExpiryInv
<1>6. OneVerdict'
  BY <1>5 DEF OneVerdict, RowVerdict
<1> QED
  BY <1>3, <1>4, <1>6 DEF EscInv

(* An answer begins by locking rows that are due and that nobody holds. *)
LEMMA BeginInv ==
  ASSUME EscInv, NEW r \in Resolvers, NEW e \in Escalations, NEW d \in {"APPROVE", "REJECT"},
         ResolveBegin(r, e, d)
  PROVE  EscInv'
<1> DEFINE n == [by |-> r, of |-> e, decision |-> d, moment |-> clock, swept |-> Due(clock)]
<1>1. /\ txn' = txn \cup {n}
      /\ Due(clock) \cap LockedBy(txn) = {}
      /\ UNCHANGED <<clock, esc, verdicts, reading>>
  BY DEF ResolveBegin
<1>2. Due(clock) \in SUBSET Escalations
  BY DEF Due
<1>3. EscalationsTypeOK'
  <2>1. n \in [by : Resolvers, of : Escalations, decision : {"APPROVE", "REJECT"},
               moment : Nat, swept : SUBSET Escalations]
    BY <1>2 DEF EscInv, EscalationsTypeOK
  <2> HIDE DEF n
  <2> QED
    BY <1>1, <2>1 DEF EscInv, EscalationsTypeOK
<1>4. SweptIsPending'
  <2>1. \A f \in n.swept : esc[f].status = "pending" /\ esc[f].timeout < n.moment
    BY DEF Due
  <2> HIDE DEF n
  <2> QED
    BY <1>1, <2>1 DEF EscInv, SweptIsPending
<1>5. OneHolder'
  <2>1. \A t \in txn : t.swept \cap n.swept = {}
    BY <1>1 DEF LockedBy
  <2> HIDE DEF n
  <2> QED
    BY <1>1, <2>1 DEF EscInv, OneHolder
<1> QED
  BY <1>1, <1>3, <1>4, <1>5, QuietInv DEF EscInv

(* The answer itself.  The guard of the UPDATE keeps its row apart from the *)
(* rows that this or another transaction has expired.                       *)
LEMMA ResolveInv ==
  ASSUME EscInv, NEW t \in txn, resolve(t)
  PROVE  EscInv'
<1> DEFINE D == t.swept
           o == t.of
           type == IF t.decision = "APPROVE" THEN "escalation.resolved" ELSE "escalation.expired"
<1>1. /\ D \in SUBSET Escalations /\ o \in Escalations
      /\ t.decision \in {"APPROVE", "REJECT"} /\ t.moment \in Nat
      /\ type \in EventTypes
  BY DEF EscInv, EscalationsTypeOK, EventTypes
<1>2. \A e \in D : esc[e].status = "pending" /\ esc[e].timeout < t.moment
  BY DEF EscInv, SweptIsPending
<1>3. /\ o \notin LockedBy(txn \ {t})
      /\ esc[o].status = "pending" /\ esc[o].timeout >= t.moment
      /\ esc' = [Expired(D) EXCEPT ![o].status = "resolved", ![o].decision = t.decision]
      /\ verdicts' = [Emitted(D, "escalation.expired") EXCEPT ![<<o, type>>] = @ + 1]
      /\ reading' = [reading EXCEPT ![o] = t.moment]
      /\ txn' = txn \ {t} /\ clock' = clock
  BY DEF resolve, StillOpen
<1>4. esc[o].timeout \in Nat /\ esc[o] \in Escalation
  BY <1>1 DEF EscInv, EscalationsTypeOK, Escalation
<1>5. o \notin D
  BY <1>1, <1>2, <1>3, <1>4
<1>6. /\ Expired(D) \in [Escalations -> Escalation]
      /\ Expired(D)[o] = esc[o]
      /\ \A e \in Escalations \ D : Expired(D)[e] = esc[e]
  BY <1>1, <1>5, ExpiredRows DEF EscInv
<1>7. /\ Emitted(D, "escalation.expired") \in [Escalations \X EventTypes -> Nat]
      /\ \A y \in EventTypes : Emitted(D, "escalation.expired")[<<o, y>>] = verdicts[<<o, y>>]
  <2>1. "escalation.expired" \in EventTypes /\ \A y \in EventTypes : verdicts[<<o, y>>] \in Nat
    BY <1>1 DEF EscInv, EscalationsTypeOK, EventTypes
  <2> QED
    BY <1>1, <1>5, <2>1, EmittedEvents, SMTT(30) DEF EscInv
<1> HIDE DEF D, o, type
<1>8. /\ esc' \in [Escalations -> Escalation]
      /\ esc'[o].status = "resolved" /\ esc'[o].decision = t.decision
      /\ esc'[o].timeout = esc[o].timeout
      /\ \A e \in Escalations : e # o => esc'[e] = Expired(D)[e]
  BY <1>1, <1>3, <1>4, <1>6 DEF Escalation
<1>9. /\ verdicts' \in [Escalations \X EventTypes -> Nat]
      /\ verdicts'[<<o, type>>] = verdicts[<<o, type>>] + 1
      /\ \A y \in EventTypes : y # type => verdicts'[<<o, y>>] = verdicts[<<o, y>>]
      /\ \A e \in Escalations, y \in EventTypes :
           e # o => verdicts'[<<e, y>>] = Emitted(D, "escalation.expired")[<<e, y>>]
  BY <1>1, <1>3, <1>7
<1>10. EscalationsTypeOK'
  BY <1>1, <1>3, <1>8, <1>9 DEF EscInv, EscalationsTypeOK, Escalation
<1>11. SweptIsPending' /\ OneHolder'
  <2>1. ASSUME NEW u \in txn, u # t, NEW e \in u.swept PROVE esc'[e] = esc[e]
    <3>1. e \in Escalations /\ e \notin D
      BY <2>1 DEF EscInv, EscalationsTypeOK, OneHolder, D
    <3>2. e # o
      BY <1>3, <2>1 DEF LockedBy
    <3> QED
      BY <1>6, <1>8, <3>1, <3>2
  <2> QED
    BY <1>3, <2>1 DEF EscInv, SweptIsPending, OneHolder
<1>12. RowVerdict(o)'
  <2>1. RowVerdict(o)
    BY <1>1, OneVerdictByRow DEF EscInv
  <2>2. /\ verdicts[<<o, "escalation.resolved">>] = 0
        /\ verdicts[<<o, "escalation.expired">>] = 0
    BY <1>3, <2>1 DEF RowVerdict
  <2>3. reading'[o] = t.moment
    BY <1>1, <1>3 DEF EscInv, EscalationsTypeOK
  <2>4. CASE t.decision = "APPROVE"
    BY <1>3, <1>8, <1>9, <2>2, <2>3, <2>4 DEF RowVerdict, type, EventTypes
  <2>5. CASE t.decision = "REJECT"
    BY <1>8, <1>9, <2>2, <2>5 DEF RowVerdict, type, EventTypes
  <2> QED
    BY <1>1, <2>4, <2>5
<1>13. \A e \in Escalations : e # o => RowVerdict(e)'
  <2> SUFFICES ASSUME NEW e \in Escalations, e # o PROVE RowVerdict(e)'
    OBVIOUS
  <2>1. reading'[e] = reading[e]
    BY <1>3 DEF EscInv, EscalationsTypeOK
  <2>2. \A f \in D : esc[f].status = "pending"
    BY <1>2 DEF D
  <2> QED
    BY <1>1, <1>8, <1>9, <2>1, <2>2, ExpiryInv
<1>14. OneVerdict'
  BY <1>12, <1>13 DEF OneVerdict, RowVerdict
<1> QED
  BY <1>10, <1>11, <1>14 DEF EscInv

LEMMA EscKeeps == EscInv /\ [EscalationsNext]_eVars => EscInv'
<1> SUFFICES ASSUME EscInv, [EscalationsNext]_eVars PROVE EscInv'
  OBVIOUS
<1>1. CASE Tick
  BY <1>1, TickInv
<1>2. CASE sweep_forever \/ list_escalations
  BY <1>2, SweepInv DEF sweep_forever, list_escalations
<1>3. CASE \E e \in Escalations : create(e)
  BY <1>3, CreateInv
<1>4. CASE \E r \in Resolvers, e \in Escalations, d \in {"APPROVE", "REJECT"} : ResolveBegin(r, e, d)
  BY <1>4, BeginInv
<1>5. CASE \E t \in txn : resolve(t) \/ RollbackAnswer(t)
  BY <1>5, ResolveInv, RollbackAnswerInv
<1>6. CASE UNCHANGED eVars
  <2>1. EscalationsTypeOK' /\ UNCHANGED <<esc, txn, verdicts, reading>>
    BY <1>6 DEF EscInv, EscalationsTypeOK, eVars
  <2> QED
    BY <2>1, QuietInv DEF EscInv, SweptIsPending, OneHolder
<1> QED
  BY <1>1, <1>2, <1>3, <1>4, <1>5, <1>6 DEF EscalationsNext

(* Whatever answers and sweeps race for it, an escalation has exactly one   *)
(* verdict, the one its row records, and an approval only when it was given *)
(* by a clock that had not passed the deadline.                             *)
THEOREM EscalationHasOneVerdict == EscalationsSpec => []OneVerdict
<1>1. EscInv => OneVerdict
  BY DEF EscInv
<1> QED
  BY <1>1, EscStart, EscKeeps, PTL DEF EscalationsSpec

(* A row that is closed keeps its verdict, and so does the outbox.          *)
ClosedStays ==
  \A e \in Escalations : esc[e].status \in {"resolved", "expired"} =>
    esc'[e] = esc[e] /\ reading'[e] = reading[e] /\ \A y \in EventTypes : verdicts'[<<e, y>>] = verdicts[<<e, y>>]

(* An expiry emits nothing for the rows it does not expire.                 *)
LEMMA EmittedElsewhere ==
  ASSUME EscalationsTypeOK, NEW D \in SUBSET Escalations, NEW e \in Escalations \ D
  PROVE  /\ Emitted(D, "escalation.expired") \in [Escalations \X EventTypes -> Nat]
         /\ \A y \in EventTypes : Emitted(D, "escalation.expired")[<<e, y>>] = verdicts[<<e, y>>]
<1>1. "escalation.expired" \in EventTypes
  BY DEF EventTypes
<1>2. Emitted(D, "escalation.expired") \in [Escalations \X EventTypes -> Nat]
  BY <1>1, EmittedEvents
<1>3. ASSUME NEW y \in EventTypes
      PROVE  Emitted(D, "escalation.expired")[<<e, y>>] = verdicts[<<e, y>>]
  <2>1. <<e, y>> \in Escalations \X EventTypes /\ verdicts[<<e, y>>] \in Nat
    BY DEF EscalationsTypeOK
  <2> QED
    BY <2>1 DEF Emitted
<1> QED
  BY <1>2, <1>3

LEMMA ClosedStep ==
  ASSUME EscInv, EscalationsNext
  PROVE  ClosedStays
<1> SUFFICES ASSUME NEW e \in Escalations, esc[e].status \in {"resolved", "expired"}
             PROVE  /\ esc'[e] = esc[e] /\ reading'[e] = reading[e]
                    /\ \A y \in EventTypes : verdicts'[<<e, y>>] = verdicts[<<e, y>>]
  BY DEF ClosedStays
<1>0. EscalationsTypeOK
  BY DEF EscInv
<1>1. CASE UNCHANGED <<esc, verdicts, reading>>
  BY <1>1
<1>2. CASE expire_pending
  <2>1. PICK D \in SUBSET Escalations : D = Due(clock)
    BY DEF Due
  <2>2. e \notin D
    BY <2>1 DEF Due
  <2>3. esc' = Expired(D) /\ verdicts' = Emitted(D, "escalation.expired") /\ UNCHANGED reading
    BY <1>2, <2>1 DEF expire_pending
  <2>4. \A y \in EventTypes : verdicts[<<e, y>>] \in Nat
    BY <1>0 DEF EscalationsTypeOK
  <2> QED
    BY <1>0, <2>2, <2>3, <2>4, ExpiredRows, EmittedEvents DEF EventTypes
<1>3. CASE \E d \in Escalations : create(d)
  <2>1. PICK d \in Escalations : create(d)
    BY <1>3
  <2>2. d # e /\ UNCHANGED <<verdicts, reading>>
    BY <2>1 DEF create, Absent
  <2> QED
    BY <1>0, <2>1, <2>2 DEF create, EscalationsTypeOK
<1>4. ASSUME NEW t \in txn, resolve(t)
      PROVE  /\ esc'[e] = esc[e] /\ reading'[e] = reading[e]
             /\ \A y \in EventTypes : verdicts'[<<e, y>>] = verdicts[<<e, y>>]
  <2>1. PICK type \in EventTypes : type = IF t.decision = "APPROVE" THEN "escalation.resolved" ELSE "escalation.expired"
    BY DEF EventTypes
  <2>2. PICK D, d, F, G : /\ D = t.swept /\ d = t.of /\ F = Expired(t.swept)
                          /\ G = Emitted(t.swept, "escalation.expired")
    OBVIOUS
  <2>3. D \in SUBSET Escalations /\ d \in Escalations
    BY <1>0, <2>2 DEF EscalationsTypeOK
  <2>4. e \notin D /\ d # e
    BY <1>4, <2>2 DEF EscInv, SweptIsPending, resolve, StillOpen
  <2>5. /\ esc' = [F EXCEPT ![d].status = "resolved", ![d].decision = t.decision]
        /\ verdicts' = [G EXCEPT ![<<d, type>>] = @ + 1]
        /\ reading' = [reading EXCEPT ![d] = t.moment]
    BY <1>4, <2>1, <2>2 DEF resolve
  <2>6. F \in [Escalations -> Escalation] /\ F[e] = esc[e]
    BY <1>0, <2>2, <2>3, <2>4, ExpiredRows
  <2>7. /\ G \in [Escalations \X EventTypes -> Nat]
        /\ \A y \in EventTypes : G[<<e, y>>] = verdicts[<<e, y>>]
    <3>1. e \in Escalations \ D
      BY <2>4
    <3>2. G = Emitted(D, "escalation.expired")
      BY <2>2
    <3> QED
      BY <1>0, <2>3, <3>1, <3>2, EmittedElsewhere
  <2>8. esc'[e] = esc[e]
    BY <2>3, <2>4, <2>5, <2>6
  <2>9. reading'[e] = reading[e]
    BY <1>0, <2>3, <2>4, <2>5 DEF EscalationsTypeOK
  <2>10. \A y \in EventTypes : verdicts'[<<e, y>>] = verdicts[<<e, y>>]
    <3>1. SUFFICES ASSUME NEW y \in EventTypes PROVE verdicts'[<<e, y>>] = verdicts[<<e, y>>]
      OBVIOUS
    <3>2. <<e, y>> # <<d, type>>
      BY <2>4
    <3> QED
      BY <2>5, <2>7, <3>2
  <2> QED
    BY <2>8, <2>9, <2>10
<1> QED
  BY <1>1, <1>2, <1>3, <1>4
  DEF EscalationsNext, Tick, sweep_forever, list_escalations, ResolveBegin, RollbackAnswer

(* No answer, sweep or late commit (services/escalations.py) touches an     *)
(* escalation that is closed: neither its row nor the verdict events that   *)
(* went out for it, although a transaction commits what it expired before.  *)
THEOREM ClosedIsFinal == EscalationsSpec => [][ClosedStays]_eVars
<1>1. EscInv /\ [EscalationsNext]_eVars => [ClosedStays]_eVars
  BY ClosedStep
<1> QED
  BY <1>1, EscStart, EscKeeps, PTL DEF EscalationsSpec

----------------------------------------------------------------------------
(* The platform *)

(* What the parts' own modules have shown inductive, taken together.        *)
PlatformInv ==
  /\ IssuerInv /\ MoneyInv /\ PriceType /\ VaultInv
  /\ EscInv /\ AlarmInv /\ LedgerInv /\ OutboxInv

LEMMA PlatformStart == MCInit => PlatformInv
  BY IssuerInit, MoneyInit, VaultInit, EscStart, AlarmStart, LedgerStart, OutboxStart
  DEF MCInit, PlatformInv, CommerceInit, MerchantInit, seed_initial_offers, PriceType

(* A step of the platform is a step of one part, and leaves the others.     *)
LEMMA PartSteps ==
  [MCNext]_mcVars => /\ [CommerceNext]_vars /\ [EscalationsNext]_eVars /\ [AuditNext]_aVars
                     /\ [LedgerNext]_lVars /\ [OutboxNext]_oVars
<1> SUFFICES ASSUME [MCNext]_mcVars
             PROVE  /\ [CommerceNext]_vars /\ [EscalationsNext]_eVars /\ [AuditNext]_aVars
                    /\ [LedgerNext]_lVars /\ [OutboxNext]_oVars
  OBVIOUS
<1>1. CASE Commerce
  BY <1>1 DEF Commerce
<1>2. CASE Issuer \/ Shop \/ Disputes
  BY <1>1, <1>2 DEF Issuer, Shop, Disputes, Plain
<1>3. CASE UNCHANGED mcVars
  BY <1>3 DEF mcVars
<1> QED
  BY <1>2, <1>3 DEF MCNext

LEMMA PlatformKeeps == PlatformInv /\ [MCNext]_mcVars => PlatformInv'
  BY PartSteps, IssuerNext, MoneyNext, PriceNext, VaultKeeps, EscKeeps, AlarmKeeps, LedgerKeeps, OutboxKeeps
  DEF PlatformInv

(* Every table and every local of the platform keeps its domain whatever    *)
(* its requests, sweeps, relays and auditors do, for any sets of them and   *)
(* any number of alterations of the evidence.                               *)
THEOREM PlatformTypes == MCSpec => []PlatformTypeOK
<1>1. PlatformInv => PlatformTypeOK
  BY CommerceTyped DEF PlatformInv, PlatformTypeOK, EscInv, AlarmInv, LedgerInv, OutboxInv
<1> QED
  BY <1>1, PlatformStart, PlatformKeeps, PTL DEF MCSpec

(* A behaviour of the composed platform is a behaviour of each of its       *)
(* parts: what is proved of the issuer, rail and shop, of the escalations,  *)
(* of the two evidence chains and of the outbox holds in the composition,   *)
(* for they meet only where module Merchant composes them.                  *)
THEOREM PlatformIsItsParts ==
  MCSpec => CommerceSpec /\ EscalationsSpec /\ AuditSpec /\ LedgerSpec /\ OutboxSpec
<1>1. MCInit => CommerceInit /\ EscalationsInit /\ AuditInit /\ LedgerInit /\ OutboxInit
  BY DEF MCInit
<1> QED
  BY <1>1, PartSteps, PTL DEF MCSpec, CommerceSpec, EscalationsSpec, AuditSpec, LedgerSpec, OutboxSpec
=============================================================================
