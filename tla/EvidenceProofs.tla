--------------------------- MODULE EvidenceProofs ---------------------------
(***************************************************************************)
(* What the evidence is worth, for any number of chains, writers, signers, *)
(* workers and events: the auditor of the agent lane (AuditTrail), the     *)
(* verification of the API lane's ledger (Ledger), and what a relayed      *)
(* event promises (Outbox).                                                *)
(*                                                                         *)
(* None of the three properties is inductive: what an audit concludes at   *)
(* its end depends on what it has passed over, a signature on the events   *)
(* marked before it was published, and a mark on deliveries before it.     *)
(***************************************************************************)
EXTENDS AuditTrail, Ledger, Outbox, SequenceTheorems, SumTheorems

----------------------------------------------------------------------------
(* The agent's evidence: invariants *)

TamperKinds == [kind : {"edit", "rewrite"}, signed : Nat]

(* The auditor's locals, field by field.                                    *)
AuditorTypes ==
  auditor \in [pc : {"idle", "rows", "head", "root"}, nth : Nat, left : SUBSET ChainKeys,
               key : SUBSET ChainKeys, end : Seq(Payloads), sound : BOOLEAN,
               tampers : SUBSET TamperKinds, appended : Nat, raced : BOOLEAN,
               verdict : {"none", "valid", "broken", "changed"}]

(* There is at most one alteration.                                         *)
OneTamper == tampers = {} \/ \E t \in TamperKinds : tampers = {t}

(* Row and events of a chain agree, and the links are intact: an edit does  *)
(* not touch them, and a rewriting computes again what depends on it.       *)
Stored(c) ==
  /\ chain[c].length = Len(log[c])
  /\ chain[c].exists <=> log[c] # <<>>
  /\ chain[c].head = LastHash(log[c])
  /\ Len(chain[c].head) = Len(log[c])
  /\ \A i \in 1..Len(log[c]) :
       /\ log[c][i].prev = IF i = 1 THEN GENESIS ELSE log[c][i - 1].hash
       /\ Len(log[c][i].hash) = i

Hashed(c, i) == log[c][i].hash = _digest(log[c][i].prev, log[c][i].payload)

AllHashed(c) == \A i \in 1..Len(log[c]) : Hashed(c, i)

(* Who appends holds the chain alone, and what it has read is current.      *)
AppendsHold ==
  /\ \A w \in writing : w.prev = chain[w.key].head /\ w.seq = chain[w.key].length + 1
  /\ \A v, w \in writing : v.key = w.key => v = w

(* Every event hashes to its digest unless one was edited, and that one     *)
(* never does again.                                                        *)
EditsShow ==
  /\ (\A t \in tampers : t.kind # "edit") => \A c \in ChainKeys : AllHashed(c)
  /\ \A t \in tampers : t.kind = "edit" => \E c \in ChainKeys : ~AllHashed(c)

(* While nothing is altered the signed heads are beginnings of the present  *)
(* ones, and a checkpoint that nothing was appended to is the present root. *)
RootsAgree ==
  /\ \A i \in 1..Len(signed) : signed[i].upto <= appended
  /\ tampers = {} => \A i \in 1..Len(signed) :
       /\ signed[i].upto = appended => signed[i].root = compute_root
       /\ \A c \in ChainKeys : \A h \in Seq(Payloads) : <<c, h>> \in signed[i].root =>
            /\ Len(h) <= Len(chain[c].head)
            /\ \A j \in 1..Len(h) : h[j] = chain[c].head[j]

(* A rewritten chain differs, at the place of the rewriting, from what was  *)
(* signed before.                                                           *)
Differs(c, n, k) ==
  /\ chain[c].exists /\ n <= Len(chain[c].head)
  /\ \A i \in 1..k : \A h \in Seq(Payloads) :
       <<c, h>> \in signed[i].root => Len(h) < n \/ h[n] # chain[c].head[n]

RewritesShow ==
  \A t \in tampers : t.kind = "rewrite" =>
    /\ t.signed <= Len(signed)
    /\ \E c \in ChainKeys, n \in Nat \ {0} : Differs(c, n, t.signed)

(* An audit under way: an edit it has to find is found or still ahead of    *)
(* it, and while nothing is committed it finds nothing wrong.               *)
Auditing ==
  LET a == auditor IN
  /\ a.pc # "idle" \/ a.verdict # "none" => a.nth \in 1..Len(signed)
  /\ a.pc # "idle" =>
       /\ a.verdict = "none"
       /\ a.tampers \subseteq tampers /\ a.appended <= appended
       /\ (\E t \in a.tampers : t.kind = "edit") /\ a.sound => \E c \in a.left : ~AllHashed(c)
       /\ tampers = {} /\ appended = a.appended =>
            /\ a.sound
            /\ a.pc = "head" => \A c \in ChainKeys : a.key = {c} => a.end = chain[c].head

AuditInv ==
  /\ AuditTypeOK /\ AuditorTypes /\ OneTamper
  /\ \A c \in ChainKeys : Stored(c)
  /\ AppendsHold /\ EditsShow /\ RootsAgree /\ RewritesShow /\ Auditing
  /\ VerdictIsRight

(* A stored event of the agent lane.                                        *)
LogType == [payload : Payloads, prev : Seq(Payloads), hash : Seq(Payloads)]

(* The types of a chain and its events.                                     *)
LEMMA ChainTypes ==
  ASSUME AuditTypeOK, NEW c \in ChainKeys
  PROVE  /\ chain[c] \in [exists : BOOLEAN, head : Seq(Payloads), length : Nat]
         /\ chain[c].head \in Seq(Payloads) /\ chain[c].length \in Nat
         /\ Len(chain[c].head) \in Nat
         /\ log[c] \in Seq(LogType) /\ Len(log[c]) \in Nat
         /\ \A i \in 1..Len(log[c]) :
              /\ log[c][i] \in LogType /\ log[c][i].payload \in Payloads
              /\ log[c][i].prev \in Seq(Payloads) /\ log[c][i].hash \in Seq(Payloads)
<1>1. chain[c] \in [exists : BOOLEAN, head : Seq(Payloads), length : Nat] /\ log[c] \in Seq(LogType)
  BY DEF AuditTypeOK, LogType
<1>2. \A i \in 1..Len(log[c]) : log[c][i] \in LogType
  BY <1>1, ElementOfSeq
<1> QED
  BY <1>1, <1>2, SMTT(30) DEF LogType

(* The digest tells apart what it is computed from.                         *)
LEMMA DigestIs ==
  ASSUME NEW s \in Seq(Payloads), NEW p \in Payloads
  PROVE  /\ _digest(s, p) \in Seq(Payloads) /\ Len(_digest(s, p)) = Len(s) + 1
         /\ \A i \in 1..Len(s) : _digest(s, p)[i] = s[i]
         /\ _digest(s, p)[Len(s) + 1] = p
         /\ \A q \in Payloads : _digest(s, p) = _digest(s, q) => p = q
BY AppendProperties DEF _digest

LEMMA AuditStart == AuditInit => AuditInv
<1> SUFFICES ASSUME AuditInit PROVE AuditInv
  OBVIOUS
<1>1. /\ chain = [c \in ChainKeys |-> NoChain] /\ log = [c \in ChainKeys |-> <<>>]
      /\ writing = {} /\ signing = FALSE /\ signed = <<>> /\ auditor = NoAuditor
      /\ tampers = {} /\ appended = 0
  BY DEF AuditInit
<1>2. \A S : <<>> \in Seq(S) /\ Len(<<>>) = 0
  BY EmptySeq
<1>3. AuditorTypes /\ auditor.pc = "idle" /\ auditor.verdict = "none"
  BY <1>1, <1>2 DEF AuditorTypes, NoAuditor, GENESIS
<1>4. AuditTypeOK
  <2>1. NoChain \in [exists : BOOLEAN, head : Seq(Payloads), length : Nat]
    BY <1>2 DEF NoChain, GENESIS
  <2> QED
    BY <1>1, <1>2, <1>3, <2>1 DEF AuditTypeOK
<1>5. \A c \in ChainKeys : Stored(c) /\ AllHashed(c)
  BY <1>1, <1>2 DEF Stored, AllHashed, NoChain, LastHash, GENESIS
<1>6. OneTamper /\ AppendsHold /\ EditsShow /\ RewritesShow
  BY <1>1, <1>5 DEF OneTamper, AppendsHold, EditsShow, RewritesShow
<1>7. RootsAgree
  BY <1>1, <1>2 DEF RootsAgree
<1>8. Auditing /\ VerdictIsRight
  BY <1>3 DEF Auditing, VerdictIsRight
<1> QED
  BY <1>3, <1>4, <1>5, <1>6, <1>7, <1>8 DEF AuditInv

----------------------------------------------------------------------------
(* Steps that leave the chains alone *)

(* What is said of chains and checkpoints survives a step that changes      *)
(* neither them nor the alterations.                                        *)
LEMMA ChainsStay ==
  ASSUME AuditInv, UNCHANGED <<chain, log, signed, tampers, appended>>
  PROVE  /\ OneTamper' /\ EditsShow' /\ RootsAgree' /\ RewritesShow'
         /\ \A c \in ChainKeys : Stored(c)'
<1>1. OneTamper'
  BY DEF AuditInv, OneTamper
<1>2. EditsShow'
  BY DEF AuditInv, EditsShow, AllHashed, Hashed
<1>3. RootsAgree'
  BY DEF AuditInv, RootsAgree, compute_root
<1>4. RewritesShow'
  BY DEF AuditInv, RewritesShow, Differs
<1>5. \A c \in ChainKeys : Stored(c)'
  BY DEF AuditInv, Stored
<1> QED
  BY <1>1, <1>2, <1>3, <1>4, <1>5

LEMMA AuditorStays ==
  ASSUME AuditInv, UNCHANGED <<chain, log, signed, tampers, appended, auditor>>
  PROVE  AuditorTypes' /\ Auditing' /\ VerdictIsRight'
<1>1. AuditorTypes'
  BY DEF AuditInv, AuditorTypes
<1>2. Auditing'
  BY DEF AuditInv, Auditing, AllHashed, Hashed
<1>3. VerdictIsRight'
  BY DEF AuditInv, VerdictIsRight
<1> QED
  BY <1>1, <1>2, <1>3

LEMMA LockHeadKeeps ==
  ASSUME AuditInv, NEW b \in Writers, NEW c \in ChainKeys, LockHead(b, c)
  PROVE  AuditInv'
<1>1. PICK w : w = [by |-> b, key |-> c, prev |-> chain[c].head, seq |-> chain[c].length + 1]
  OBVIOUS
<1>2. /\ ~LockedChain(c) /\ writing' = writing \cup {w}
      /\ UNCHANGED <<chain, log, signing, signed, auditor, tampers, appended>>
  BY <1>1 DEF LockHead
<1>3. w \in [by : Writers, key : ChainKeys, prev : Seq(Payloads), seq : Nat]
  BY <1>1, ChainTypes DEF AuditInv
<1>4. w.key = c /\ w.prev = chain[c].head /\ w.seq = chain[c].length + 1
  BY <1>1
<1>5. AuditTypeOK'
  BY <1>2, <1>3 DEF AuditInv, AuditTypeOK
<1>6. AppendsHold'
  <2>1. \A v \in writing : v.key # c
    BY <1>2 DEF LockedChain
  <2> QED
    BY <2>1, <1>2, <1>4 DEF AuditInv, AppendsHold
<1> QED
  BY <1>2, <1>5, <1>6, ChainsStay, AuditorStays DEF AuditInv

LEMMA RollbackKeeps ==
  ASSUME AuditInv, NEW w \in writing, RollbackAppend(w)
  PROVE  AuditInv'
<1>1. writing' = writing \ {w} /\ UNCHANGED <<chain, log, signing, signed, auditor, tampers, appended>>
  BY DEF RollbackAppend
<1>2. AuditTypeOK'
  BY <1>1 DEF AuditInv, AuditTypeOK
<1>3. AppendsHold'
  BY <1>1 DEF AuditInv, AppendsHold
<1> QED
  BY <1>1, <1>2, <1>3, ChainsStay, AuditorStays DEF AuditInv

LEMMA ReadHeadsKeeps ==
  ASSUME AuditInv, ReadHeads
  PROVE  AuditInv'
<1>1. signing' = TRUE /\ UNCHANGED <<chain, log, writing, signed, auditor, tampers, appended>>
  BY DEF ReadHeads
<1>2. AuditTypeOK' /\ AppendsHold'
  BY <1>1 DEF AuditInv, AuditTypeOK, AppendsHold
<1> QED
  BY <1>1, <1>2, ChainsStay, AuditorStays DEF AuditInv

(* A checkpoint: the root it signs is the present one.                      *)
LEMMA CheckpointKeeps ==
  ASSUME AuditInv, checkpoint
  PROVE  AuditInv'
<1> DEFINE n == Len(signed)
           S == [root : Roots, upto : Nat]
<1>0. AuditTypeOK /\ n \in Nat /\ signed \in Seq(S) /\ appended \in Nat
  <2>1. AuditTypeOK
    BY DEF AuditInv
  <2>2. signed \in Seq(S) /\ appended \in Nat
    BY <2>1 DEF AuditTypeOK
  <2> QED
    BY <2>1, <2>2, LenProperties
<1>1. PICK k : k = [root |-> compute_root, upto |-> appended]
  OBVIOUS
<1>2. /\ signed' = Append(signed, k) /\ signing' = FALSE
      /\ UNCHANGED <<chain, log, writing, auditor, tampers, appended>>
  BY <1>1 DEF checkpoint
<1>3. k \in S /\ k.root = compute_root /\ k.upto = appended
  <2>1. compute_root \in Roots
    BY <1>0, ChainTypes DEF compute_root, Roots
  <2> QED
    BY <2>1, <1>0, <1>1
<1>4. /\ signed' \in Seq(S) /\ Len(signed') = n + 1
      /\ \A i \in 1..n : signed'[i] = signed[i]
      /\ signed'[n + 1] = k
  <2> HIDE DEF S
  <2> QED
    BY <1>0, <1>2, <1>3, AppendProperties
<1>5. AuditTypeOK' /\ AuditorTypes' /\ OneTamper' /\ AppendsHold' /\ \A c \in ChainKeys : Stored(c)'
  <2>1. AuditTypeOK'
    BY <1>2, <1>4 DEF AuditInv, AuditTypeOK
  <2>2. AuditorTypes' /\ OneTamper' /\ AppendsHold'
    BY <1>2 DEF AuditInv, AuditorTypes, OneTamper, AppendsHold
  <2>3. \A c \in ChainKeys : Stored(c)'
    BY <1>2 DEF AuditInv, Stored
  <2> QED
    BY <2>1, <2>2, <2>3
<1>6. EditsShow'
  BY <1>2 DEF AuditInv, EditsShow, AllHashed, Hashed
<1>7. compute_root' = compute_root
  BY <1>2 DEF compute_root
<1>8. RootsAgree'
  <2>1. ASSUME NEW i \in 1..(n + 1)
        PROVE  /\ signed'[i].upto <= appended
               /\ tampers = {} =>
                    /\ signed'[i].upto = appended => signed'[i].root = compute_root
                    /\ \A c \in ChainKeys : \A h \in Seq(Payloads) : <<c, h>> \in signed'[i].root =>
                         /\ Len(h) <= Len(chain[c].head)
                         /\ \A j \in 1..Len(h) : h[j] = chain[c].head[j]
    <3>1. CASE i \in 1..n
      BY <3>1, <1>4 DEF AuditInv, RootsAgree
    <3>2. CASE i = n + 1
      <4>1. \A c \in ChainKeys : \A h : <<c, h>> \in compute_root => h = chain[c].head
        BY DEF compute_root
      <4>2. \A c \in ChainKeys : Len(chain[c].head) \in Nat
        BY <1>0, ChainTypes
      <4> QED
        BY <3>2, <4>1, <4>2, <1>0, <1>3, <1>4
    <3> QED
      BY <2>1, <3>1, <3>2, <1>0
  <2> QED
    BY <2>1, <1>2, <1>4, <1>7 DEF RootsAgree
<1>9. RewritesShow'
  <2> SUFFICES ASSUME NEW t \in tampers, t.kind = "rewrite"
               PROVE  t.signed <= n + 1 /\ \E c \in ChainKeys, m \in Nat \ {0} : Differs(c, m, t.signed)'
    BY <1>2, <1>4 DEF RewritesShow
  <2>1. t.signed \in Nat
    BY <1>0 DEF AuditTypeOK
  <2>2. t.signed <= n
    BY DEF AuditInv, RewritesShow
  <2>3. PICK c \in ChainKeys, m \in Nat \ {0} : Differs(c, m, t.signed)
    BY DEF AuditInv, RewritesShow
  <2>4. \A i \in 1..t.signed : signed'[i] = signed[i]
    BY <2>1, <2>2, <1>0, <1>4
  <2>5. Differs(c, m, t.signed)'
    BY <2>3, <2>4, <1>2 DEF Differs
  <2> QED
    BY <2>1, <2>2, <2>5, <1>0
<1>10. Auditing'
  <2>1. auditor.pc # "idle" \/ auditor.verdict # "none" => auditor.nth \in 1..(n + 1)
    BY <1>0 DEF AuditInv, Auditing
  <2> QED
    BY <2>1, <1>2, <1>4 DEF AuditInv, Auditing, AllHashed, Hashed
<1>11. VerdictIsRight'
  <2>1. auditor.verdict # "none" => auditor.nth \in 1..n
    BY <1>0 DEF AuditInv, Auditing
  <2> QED
    BY <2>1, <1>2, <1>4 DEF AuditInv, VerdictIsRight
<1> QED
  BY <1>5, <1>6, <1>8, <1>9, <1>10, <1>11 DEF AuditInv

----------------------------------------------------------------------------
(* Steps that change a chain *)

LEMMA AppendKeeps ==
  ASSUME AuditInv, NEW w \in writing, NEW p \in Payloads, append(w, p)
  PROVE  AuditInv'
<1>0. /\ AuditTypeOK /\ appended \in Nat
      /\ w \in [by : Writers, key : ChainKeys, prev : Seq(Payloads), seq : Nat]
  BY DEF AuditInv, AuditTypeOK
<1>1. PICK c \in ChainKeys : c = w.key
  BY <1>0
<1>2. PICK n, head, hash : n = Len(log[c]) /\ head = chain[c].head /\ hash = _digest(chain[c].head, p)
  OBVIOUS
<1>3. PICK e : e = [payload |-> p, prev |-> head, hash |-> hash]
  OBVIOUS
<1>4. w.prev = head /\ w.seq = n + 1 /\ Stored(c)
  BY <1>1, <1>2 DEF AuditInv, AppendsHold, Stored
<1>5. /\ log' = [log EXCEPT ![c] = Append(@, e)]
      /\ chain' = [chain EXCEPT ![c] = [exists |-> TRUE, head |-> hash, length |-> n + 1]]
      /\ writing' = writing \ {w} /\ appended' = appended + 1
      /\ UNCHANGED <<signing, signed, auditor, tampers>>
  BY <1>1, <1>2, <1>3, <1>4 DEF append
<1>6. n \in Nat /\ head \in Seq(Payloads) /\ log[c] \in Seq(LogType) /\ Len(head) = n
  BY <1>0, <1>2, <1>4, ChainTypes DEF Stored
<1>7. /\ hash \in Seq(Payloads) /\ Len(hash) = n + 1 /\ hash = _digest(head, p)
      /\ \A i \in 1..n : hash[i] = head[i]
  <2>1. hash = _digest(head, p)
    BY <1>2
  <2> QED
    BY <2>1, <1>6, DigestIs, ZenonT(40)
<1>8. e \in LogType /\ e.payload = p /\ e.prev = head /\ e.hash = hash
  BY <1>3, <1>6, <1>7 DEF LogType
<1>9. /\ log'[c] \in Seq(LogType) /\ Len(log'[c]) = n + 1 /\ log'[c] # <<>>
      /\ \A i \in 1..n : log'[c][i] = log[c][i]
      /\ log'[c][n + 1] = e
  <2>1. log'[c] = Append(log[c], e)
    BY <1>0, <1>5 DEF AuditTypeOK
  <2> QED
    BY <2>1, <1>2, <1>6, <1>8, AppendProperties
<1>10. /\ chain'[c].exists = TRUE /\ chain'[c].head = hash /\ chain'[c].length = n + 1
       /\ \A d \in ChainKeys : d # c => chain'[d] = chain[d] /\ log'[d] = log[d]
  BY <1>0, <1>5 DEF AuditTypeOK
<1>11. AuditTypeOK'
  <2>1. chain' \in [ChainKeys -> [exists : BOOLEAN, head : Seq(Payloads), length : Nat]]
    BY <1>0, <1>5, <1>6, <1>7 DEF AuditTypeOK
  <2>2. log' \in [ChainKeys -> Seq(LogType)]
    <3>1. log \in [ChainKeys -> Seq(LogType)]
      BY <1>0 DEF AuditTypeOK, LogType
    <3> QED
      BY <3>1, <1>5, <1>9
  <2>3. writing' \subseteq [by : Writers, key : ChainKeys, prev : Seq(Payloads), seq : Nat] /\ appended' \in Nat
    BY <1>0, <1>5 DEF AuditTypeOK
  <2> QED
    BY <2>1, <2>2, <2>3, <1>0, <1>5 DEF AuditTypeOK, LogType
<1>12. Stored(c)'
  <2>1. ASSUME NEW i \in 1..(n + 1)
        PROVE  /\ log'[c][i].prev = IF i = 1 THEN GENESIS ELSE log'[c][i - 1].hash
               /\ Len(log'[c][i].hash) = i
    <3>1. CASE i \in 1..n
      <4>1. i # 1 => i - 1 \in 1..n
        BY <3>1, <1>6
      <4> QED
        BY <3>1, <4>1, <1>2, <1>4, <1>9 DEF Stored
    <3>2. CASE i = n + 1
      <4>1. head = IF n = 0 THEN GENESIS ELSE log[c][n].hash
        BY <1>2, <1>4, <1>6, EmptySeq DEF Stored, LastHash
      <4>2. n # 0 => n \in 1..n /\ n + 1 # 1 /\ n + 1 - 1 = n
        BY <1>6
      <4> QED
        BY <3>2, <4>1, <4>2, <1>6, <1>7, <1>8, <1>9
    <3> QED
      BY <2>1, <3>1, <3>2, <1>6
  <2>2. chain'[c].head = LastHash(log'[c])
    BY <1>8, <1>9, <1>10 DEF LastHash
  <2> QED
    BY <2>1, <2>2, <1>7, <1>9, <1>10 DEF Stored
<1>13. \A d \in ChainKeys : Stored(d)'
  BY <1>10, <1>12 DEF AuditInv, Stored
<1>14. AppendsHold'
  <2>1. \A v \in writing \ {w} : v.key # c /\ v.key \in ChainKeys
    BY <1>0, <1>1 DEF AuditInv, AppendsHold, AuditTypeOK
  <2> QED
    BY <2>1, <1>5, <1>10 DEF AuditInv, AppendsHold
<1>15. \A d \in ChainKeys : AllHashed(d)' <=> AllHashed(d)
  <2>1. Hashed(c, n + 1)'
    BY <1>7, <1>8, <1>9 DEF Hashed
  <2>2. \A i \in 1..n : Hashed(c, i)' <=> Hashed(c, i)
    BY <1>9 DEF Hashed
  <2>3. \A i \in 1..(n + 1) : i \in 1..n \/ i = n + 1
    BY <1>6
  <2>4. \A i \in 1..n : i \in 1..(n + 1)
    BY <1>6
  <2>5. AllHashed(c)' <=> AllHashed(c)
    BY <2>1, <2>2, <2>3, <2>4, <1>2, <1>9 DEF AllHashed
  <2> QED
    BY <2>5, <1>10 DEF AllHashed, Hashed
<1>16. EditsShow' /\ OneTamper'
  BY <1>5, <1>15 DEF AuditInv, EditsShow, OneTamper
<1>17. \A d \in ChainKeys : /\ chain[d].exists => chain'[d].exists
                            /\ Len(chain[d].head) \in Nat /\ Len(chain'[d].head) \in Nat
                            /\ Len(chain[d].head) <= Len(chain'[d].head)
                            /\ \A j \in 1..Len(chain[d].head) : chain'[d].head[j] = chain[d].head[j]
  <2>1. \A d \in ChainKeys : Len(chain[d].head) \in Nat
    BY <1>0, ChainTypes
  <2>2. /\ chain'[c].exists /\ chain[c].head = head /\ chain'[c].head = hash
        /\ n <= n + 1 /\ n + 1 \in Nat
    BY <1>2, <1>6, <1>10
  <2> QED
    BY <2>1, <2>2, <1>6, <1>7, <1>10
<1>18. RootsAgree'
  <2>0. Len(signed) \in Nat /\ \A i \in 1..Len(signed) : signed[i].upto \in Nat
    <3>1. signed \in Seq([root : Roots, upto : Nat])
      BY <1>0 DEF AuditTypeOK
    <3>2. \A i \in 1..Len(signed) : signed[i] \in [root : Roots, upto : Nat]
      BY <3>1, ElementOfSeq
    <3> QED
      BY <3>1, <3>2
  <2>1. ASSUME NEW i \in 1..Len(signed) PROVE signed[i].upto <= appended + 1 /\ signed[i].upto # appended + 1
    BY <1>0, <2>0 DEF AuditInv, RootsAgree
  <2>2. ASSUME tampers = {}, NEW i \in 1..Len(signed), NEW d \in ChainKeys, NEW h \in Seq(Payloads),
               <<d, h>> \in signed[i].root
        PROVE  /\ Len(h) <= Len(chain'[d].head)
               /\ \A j \in 1..Len(h) : h[j] = chain'[d].head[j]
    <3>1. Len(h) \in Nat /\ Len(h) <= Len(chain[d].head) /\ \A j \in 1..Len(h) : h[j] = chain[d].head[j]
      BY <2>2 DEF AuditInv, RootsAgree
    <3> QED
      BY <3>1, <1>17
  <2> QED
    BY <2>1, <2>2, <1>5 DEF RootsAgree
<1>19. RewritesShow'
  <2> SUFFICES ASSUME NEW t \in tampers, t.kind = "rewrite"
               PROVE  t.signed <= Len(signed) /\ \E d \in ChainKeys, m \in Nat \ {0} : Differs(d, m, t.signed)'
    BY <1>5 DEF RewritesShow
  <2>1. t.signed <= Len(signed)
    BY DEF AuditInv, RewritesShow
  <2>2. PICK d \in ChainKeys, m \in Nat \ {0} : Differs(d, m, t.signed)
    BY DEF AuditInv, RewritesShow
  <2>3. m \in 1..Len(chain[d].head) /\ m <= Len(chain'[d].head)
    BY <2>2, <1>17 DEF Differs
  <2>4. chain'[d].head[m] = chain[d].head[m] /\ chain'[d].exists
    BY <2>2, <2>3, <1>17 DEF Differs
  <2>5. Differs(d, m, t.signed)'
    BY <2>2, <2>3, <2>4, <1>5 DEF Differs
  <2> QED
    BY <2>1, <2>5
<1>20. AuditorTypes' /\ VerdictIsRight'
  BY <1>5 DEF AuditInv, AuditorTypes, VerdictIsRight
<1>21. Auditing'
  <2>1. auditor.pc # "idle" => auditor.appended <= appended + 1 /\ auditor.appended # appended + 1
    <3>1. auditor.appended \in Nat
      BY DEF AuditInv, AuditorTypes
    <3>2. auditor.pc # "idle" => auditor.appended <= appended
      BY DEF AuditInv, Auditing
    <3> QED
      BY <3>1, <3>2, <1>0
  <2>2. auditor.left \subseteq ChainKeys
    BY DEF AuditInv, AuditorTypes
  <2>3. (\E d \in auditor.left : ~AllHashed(d)) => \E d \in auditor.left : ~AllHashed(d)'
    BY <2>2, <1>15
  <2> QED
    BY <2>1, <2>3, <1>5 DEF AuditInv, Auditing
<1> QED
  BY <1>11, <1>13, <1>14, <1>16, <1>18, <1>19, <1>20, <1>21 DEF AuditInv

(* An alteration is the first.                                              *)
LEMMA FirstTamper ==
  ASSUME MaxTampers <= 1, AuditInv, Cardinality(tampers) < MaxTampers
  PROVE  tampers = {} /\ \A c \in ChainKeys : AllHashed(c)
<1>1. tampers = {}
  <2>1. ASSUME NEW t, tampers = {t} PROVE FALSE
    <3>1. Cardinality(tampers) = 1
      BY <2>1, FS_Singleton
    <3> QED
      BY <3>1, AuditAssumption
  <2> QED
    BY <2>1 DEF AuditInv, OneTamper
<1> QED
  BY <1>1 DEF AuditInv, EditsShow

LEMMA EditKeeps ==
  ASSUME MaxTampers <= 1, AuditInv, NEW c \in ChainKeys, NEW i \in 1..MaxEvents, NEW p \in Payloads,
         Edit(c, i, p)
  PROVE  AuditInv'
<1>0. AuditTypeOK /\ tampers = {} /\ \A d \in ChainKeys : AllHashed(d)
  BY FirstTamper DEF AuditInv, Edit
<1>1. PICK e : e = [log[c][i] EXCEPT !.payload = p]
  OBVIOUS
<1>2. PICK t : t = [kind |-> "edit", signed |-> Len(signed)]
  OBVIOUS
<1>3. i \in 1..Len(log[c]) /\ log[c][i].payload # p
  BY DEF Edit
<1>4. /\ log' = [log EXCEPT ![c] = [@ EXCEPT ![i] = e]] /\ tampers' = {t}
      /\ UNCHANGED <<chain, writing, signing, signed, auditor, appended>>
  BY <1>0, <1>1, <1>2 DEF Edit
<1>5. /\ log[c] \in Seq(LogType) /\ Len(log[c]) \in Nat /\ log[c][i] \in LogType
      /\ log[c][i].prev \in Seq(Payloads) /\ log[c][i].payload \in Payloads
  BY <1>0, <1>3, ChainTypes
<1>6. e \in LogType /\ e.payload = p /\ e.prev = log[c][i].prev /\ e.hash = log[c][i].hash
  BY <1>1, <1>5 DEF LogType
<1>7. /\ log'[c] \in Seq(LogType) /\ Len(log'[c]) = Len(log[c])
      /\ \A j \in 1..Len(log[c]) : log'[c][j] = IF j = i THEN e ELSE log[c][j]
  <2>1. log'[c] = [log[c] EXCEPT ![i] = e]
    BY <1>0, <1>4 DEF AuditTypeOK
  <2> QED
    BY <2>1, <1>3, <1>5, <1>6, ExceptSeq
<1>8. \A d \in ChainKeys : d # c => log'[d] = log[d]
  BY <1>0, <1>4 DEF AuditTypeOK
<1>9. t \in TamperKinds /\ t.kind = "edit"
  BY <1>0, <1>2 DEF TamperKinds, AuditTypeOK
<1>10. AuditTypeOK'
  <2>1. log' \in [ChainKeys -> Seq(LogType)]
    <3>1. log \in [ChainKeys -> Seq(LogType)]
      BY <1>0 DEF AuditTypeOK, LogType
    <3> QED
      BY <3>1, <1>4, <1>7
  <2> QED
    BY <2>1, <1>0, <1>4, <1>9 DEF AuditTypeOK, LogType, TamperKinds
<1>11. Stored(c)'
  <2>1. \A j \in 1..Len(log[c]) : log'[c][j].prev = log[c][j].prev /\ log'[c][j].hash = log[c][j].hash
    BY <1>6, <1>7
  <2>2. \A j \in 1..Len(log[c]) : j # 1 => j - 1 \in 1..Len(log[c])
    BY <1>5
  <2>3. Stored(c)
    BY DEF AuditInv
  <2>4. Len(log[c]) # 0 /\ Len(log[c]) \in 1..Len(log[c]) /\ log[c] # <<>> /\ log'[c] # <<>>
    BY <1>3, <1>5, <1>7, EmptySeq
  <2>5. LastHash(log'[c]) = LastHash(log[c])
    BY <2>1, <2>4, <1>7 DEF LastHash
  <2> QED
    BY <2>1, <2>2, <2>3, <2>4, <2>5, <1>4, <1>7 DEF Stored
<1>12. \A d \in ChainKeys : Stored(d)'
  BY <1>4, <1>8, <1>11 DEF AuditInv, Stored
<1>13. EditsShow'
  <2>1. log[c][i].hash = _digest(log[c][i].prev, log[c][i].payload)
    BY <1>0, <1>3 DEF AllHashed, Hashed
  <2>2. log[c][i].hash # _digest(log[c][i].prev, p)
    BY <2>1, <1>3, <1>5, AppendInjective DEF _digest
  <2>3. ~AllHashed(c)'
    BY <2>2, <1>3, <1>6, <1>7 DEF AllHashed, Hashed
  <2> QED
    BY <2>3, <1>4, <1>9 DEF EditsShow
<1>14. AppendsHold' /\ OneTamper' /\ RewritesShow' /\ AuditorTypes'
  BY <1>4, <1>9 DEF AuditInv, AppendsHold, OneTamper, RewritesShow, AuditorTypes
<1>15. RootsAgree'
  BY <1>4 DEF AuditInv, RootsAgree
<1>16. VerdictIsRight'
  BY <1>4 DEF AuditInv, VerdictIsRight
<1>17. Auditing'
  <2>1. auditor.pc # "idle" => auditor.tampers = {}
    BY <1>0 DEF AuditInv, Auditing
  <2> QED
    BY <2>1, <1>4 DEF AuditInv, Auditing
<1> QED
  BY <1>10, <1>12, <1>13, <1>14, <1>15, <1>16, <1>17 DEF AuditInv

LEMMA RewriteKeeps ==
  ASSUME MaxTampers <= 1, AuditInv, NEW c \in ChainKeys, NEW p \in Payloads, Rewrite(c, p)
  PROVE  AuditInv'
<1>0. AuditTypeOK /\ tampers = {} /\ \A d \in ChainKeys : AllHashed(d)
  BY FirstTamper DEF AuditInv, Rewrite
<1>1. PICK n, old, hash : n = Len(log[c]) /\ old = log[c][n] /\ hash = _digest(log[c][n].prev, p)
  OBVIOUS
<1>2. PICK e, t : /\ e = [payload |-> p, prev |-> old.prev, hash |-> hash]
                  /\ t = [kind |-> "rewrite", signed |-> Len(signed)]
  OBVIOUS
<1>3. n > 0 /\ old.payload # p /\ ~LockedChain(c)
  BY <1>1 DEF Rewrite
<1>4. log[c] \in Seq(LogType) /\ n \in Nat /\ n \in 1..n
  BY <1>0, <1>1, <1>3, ChainTypes
<1>5. old \in LogType /\ old.prev \in Seq(Payloads) /\ old.payload \in Payloads /\ old.hash \in Seq(Payloads)
  BY <1>0, <1>1, <1>4, ChainTypes
<1>6. old.hash = _digest(old.prev, old.payload) /\ Len(old.hash) = n /\ Stored(c)
  <2>1. Stored(c) /\ AllHashed(c)
    BY <1>0 DEF AuditInv
  <2> QED
    BY <2>1, <1>1, <1>4 DEF Stored, AllHashed, Hashed
<1>7. Len(old.prev) \in Nat /\ Len(old.prev) + 1 = n /\ old.hash[n] = old.payload
  <2>1. Len(_digest(old.prev, old.payload)) = Len(old.prev) + 1
        /\ _digest(old.prev, old.payload)[Len(old.prev) + 1] = old.payload
    BY <1>5, DigestIs
  <2> QED
    BY <2>1, <1>5, <1>6
<1>8. hash \in Seq(Payloads) /\ Len(hash) = n /\ hash[n] = p /\ hash = _digest(old.prev, p)
  <2>1. hash = _digest(old.prev, p)
    BY <1>1
  <2>2. /\ _digest(old.prev, p) \in Seq(Payloads) /\ Len(_digest(old.prev, p)) = Len(old.prev) + 1
        /\ _digest(old.prev, p)[Len(old.prev) + 1] = p
    BY <1>5, DigestIs
  <2> QED
    BY <2>1, <2>2, <1>7
<1>9. /\ log' = [log EXCEPT ![c][n].payload = p, ![c][n].hash = hash]
      /\ chain' = [chain EXCEPT ![c].head = hash] /\ tampers' = {t}
      /\ UNCHANGED <<writing, signing, signed, auditor, appended>>
  BY <1>0, <1>1, <1>2 DEF Rewrite
<1>10. e \in LogType /\ e.payload = p /\ e.prev = old.prev /\ e.hash = hash
  BY <1>2, <1>5, <1>8 DEF LogType
<1>11. log \in [ChainKeys -> Seq(LogType)] /\ log[c] \in [1..n -> LogType]
  BY <1>0, <1>1, <1>4, LenProperties DEF AuditTypeOK, LogType
<1>12. log'[c] = [log[c] EXCEPT ![n] = e] /\ log' = [log EXCEPT ![c] = log'[c]]
  <2>1. [[old EXCEPT !.payload = p] EXCEPT !.hash = hash] = e
    <3>1. old = [payload |-> old.payload, prev |-> old.prev, hash |-> old.hash]
      BY <1>5 DEF LogType
    <3>2. [old EXCEPT !.payload = p] = [payload |-> p, prev |-> old.prev, hash |-> old.hash]
      BY <3>1
    <3>3. [[payload |-> p, prev |-> old.prev, hash |-> old.hash] EXCEPT !.hash = hash]
            = [payload |-> p, prev |-> old.prev, hash |-> hash]
      OBVIOUS
    <3> QED
      BY <3>2, <3>3, <1>2, Zenon
  <2>2. log' = [log EXCEPT ![c] = [log[c] EXCEPT ![n] = [[old EXCEPT !.payload = p] EXCEPT !.hash = hash]]]
    BY <1>1, <1>4, <1>9, <1>11
  <2> QED
    BY <2>1, <2>2, <1>11
<1>13. /\ log'[c] \in Seq(LogType) /\ Len(log'[c]) = n
       /\ \A j \in 1..n : log'[c][j] = IF j = n THEN e ELSE log[c][j]
       /\ log'[c] # <<>> /\ log[c] # <<>>
  <2>1. /\ log'[c] \in Seq(LogType) /\ Len(log'[c]) = n
        /\ \A j \in 1..n : log'[c][j] = IF j = n THEN e ELSE log[c][j]
    BY <1>1, <1>4, <1>10, <1>12, ExceptSeq
  <2> QED
    BY <2>1, <1>1, <1>3, EmptySeq
<1>14. \A d \in ChainKeys : d # c => log'[d] = log[d] /\ chain'[d] = chain[d]
  BY <1>0, <1>9, <1>11, <1>12 DEF AuditTypeOK
<1>15. /\ chain'[c].head = hash /\ chain'[c].length = chain[c].length /\ chain'[c].exists = chain[c].exists
       /\ chain[c].exists /\ chain[c].head = old.hash /\ chain[c].length = n
  <2>1. chain[c] \in [exists : BOOLEAN, head : Seq(Payloads), length : Nat]
    BY <1>0, ChainTypes
  <2>2. chain'[c] = [chain[c] EXCEPT !.head = hash]
    BY <1>0, <1>9 DEF AuditTypeOK
  <2> QED
    BY <2>1, <2>2, <1>1, <1>6, <1>13 DEF Stored, LastHash
<1>16. t \in TamperKinds /\ t.kind = "rewrite" /\ t.signed = Len(signed) /\ Len(signed) \in Nat
  <2>1. Len(signed) \in Nat
    BY <1>0, LenProperties DEF AuditTypeOK
  <2> QED
    BY <2>1, <1>2 DEF TamperKinds
<1>17. AuditTypeOK'
  <2>1. chain' \in [ChainKeys -> [exists : BOOLEAN, head : Seq(Payloads), length : Nat]]
    BY <1>0, <1>8, <1>9 DEF AuditTypeOK
  <2>2. log' \in [ChainKeys -> Seq(LogType)]
    BY <1>11, <1>12, <1>13
  <2>3. tampers' \subseteq [kind : {"edit", "rewrite"}, signed : Nat]
    BY <1>9, <1>16 DEF TamperKinds
  <2> QED
    BY <2>1, <2>2, <2>3, <1>0, <1>9 DEF AuditTypeOK, LogType
<1>18. Stored(c)'
  <2>1. ASSUME NEW j \in 1..n
        PROVE  /\ log'[c][j].prev = IF j = 1 THEN GENESIS ELSE log'[c][j - 1].hash
               /\ Len(log'[c][j].hash) = j
    <3>1. /\ log[c][j].prev = IF j = 1 THEN GENESIS ELSE log[c][j - 1].hash
          /\ Len(log[c][j].hash) = j
      BY <1>1, <1>6 DEF Stored
    <3>2. j # 1 => j - 1 \in 1..n /\ j - 1 # n
      BY <1>4
    <3>3. log'[c][j].prev = log[c][j].prev
      BY <1>1, <1>10, <1>13
    <3>4. j # 1 => log'[c][j - 1] = log[c][j - 1]
      BY <3>2, <1>13
    <3>5. Len(log'[c][j].hash) = j
      BY <3>1, <1>8, <1>10, <1>13
    <3> QED
      BY <3>1, <3>3, <3>4, <3>5
  <2>2. chain'[c].head = LastHash(log'[c])
    BY <1>4, <1>10, <1>13, <1>15 DEF LastHash
  <2> QED
    BY <2>1, <2>2, <1>8, <1>13, <1>15 DEF Stored
<1>19. \A d \in ChainKeys : Stored(d)'
  BY <1>14, <1>18 DEF AuditInv, Stored
<1>20. AppendsHold'
  <2>1. \A w \in writing : w.key # c /\ w.key \in ChainKeys
    BY <1>0, <1>3 DEF LockedChain, AuditTypeOK
  <2> QED
    BY <2>1, <1>9, <1>14 DEF AuditInv, AppendsHold
<1>21. EditsShow'
  <2>1. AllHashed(c)'
    <3>1. Hashed(c, n)'
      BY <1>4, <1>8, <1>10, <1>13 DEF Hashed
    <3>2. \A j \in 1..n : j # n => Hashed(c, j)'
      BY <1>0, <1>1, <1>13 DEF Hashed, AllHashed
    <3> QED
      BY <3>1, <3>2, <1>13 DEF AllHashed
  <2>2. \A d \in ChainKeys : AllHashed(d)'
    BY <2>1, <1>0, <1>14 DEF AllHashed, Hashed
  <2> QED
    BY <2>2, <1>9, <1>16 DEF EditsShow
<1>22. RewritesShow'
  <2>1. ASSUME NEW i \in 1..Len(signed), NEW h \in Seq(Payloads), <<c, h>> \in signed[i].root
        PROVE  Len(h) < n \/ h[n] # hash[n]
    <3>1. Len(h) <= Len(chain[c].head) /\ \A j \in 1..Len(h) : h[j] = chain[c].head[j]
      BY <2>1, <1>0 DEF AuditInv, RootsAgree
    <3>2. Len(h) \in Nat /\ Len(h) <= n /\ \A j \in 1..Len(h) : h[j] = old.hash[j]
      BY <3>1, <1>6, <1>15
    <3>3. Len(h) = n => h[n] = old.payload
      BY <3>2, <1>4, <1>7
    <3> QED
      BY <3>2, <3>3, <1>3, <1>4, <1>8
  <2>2. Differs(c, n, t.signed)'
    BY <2>1, <1>4, <1>8, <1>9, <1>15, <1>16 DEF Differs
  <2> QED
    BY <2>2, <1>3, <1>4, <1>9, <1>16 DEF RewritesShow
<1>23. OneTamper' /\ AuditorTypes'
  BY <1>9, <1>16 DEF AuditInv, OneTamper, AuditorTypes
<1>24. RootsAgree'
  BY <1>9 DEF AuditInv, RootsAgree
<1>25. VerdictIsRight'
  BY <1>9 DEF AuditInv, VerdictIsRight
<1>26. Auditing'
  <2>1. auditor.pc # "idle" => auditor.tampers = {}
    BY <1>0 DEF AuditInv, Auditing
  <2> QED
    BY <2>1, <1>9 DEF AuditInv, Auditing
<1> QED
  BY <1>17, <1>19, <1>20, <1>21, <1>22, <1>23, <1>24, <1>25, <1>26 DEF AuditInv

----------------------------------------------------------------------------
(* The auditor *)

(* The chains and checkpoints as the auditor's steps find and leave them.   *)
LEMMA AuditorReads ==
  ASSUME AuditInv, UNCHANGED <<chain, log, writing, signing, signed, tampers, appended>>,
         AuditorTypes', Auditing', VerdictIsRight'
  PROVE  AuditInv'
<1>1. AuditTypeOK' /\ AppendsHold'
  <2>1. auditor'.pc \in {"idle", "rows", "head", "root"}
        /\ auditor'.verdict \in {"none", "valid", "broken", "changed"}
    BY DEF AuditorTypes
  <2> QED
    BY <2>1 DEF AuditInv, AuditTypeOK, AppendsHold
<1> QED
  BY <1>1, ChainsStay DEF AuditInv

LEMMA BeginKeeps ==
  ASSUME AuditInv, AuditBegin
  PROVE  AuditInv'
<1>0. AuditTypeOK /\ signed # <<>> /\ UNCHANGED <<chain, log, writing, signing, signed, tampers, appended>>
  BY DEF AuditInv, AuditBegin
<1>1. PICK a : a = auditor'
  OBVIOUS
<1>2. a = [pc |-> "rows", nth |-> Len(signed), left |-> {c \in ChainKeys : chain[c].exists}, key |-> {},
           end |-> GENESIS, sound |-> TRUE, tampers |-> tampers, appended |-> appended,
           raced |-> FALSE, verdict |-> "none"]
  BY <1>1 DEF AuditBegin, NoAuditor
<1>3. Len(signed) \in Nat /\ Len(signed) # 0 /\ appended \in Nat
  <2>1. signed \in Seq([root : Roots, upto : Nat]) /\ appended \in Nat
    BY <1>0 DEF AuditTypeOK
  <2> QED
    BY <2>1, <1>0, EmptySeq, LenProperties
<1>4. AuditorTypes'
  <2>1. tampers \subseteq TamperKinds /\ GENESIS \in Seq(Payloads)
    BY <1>0, EmptySeq DEF AuditTypeOK, TamperKinds, GENESIS
  <2>2. {c \in ChainKeys : chain[c].exists} \in SUBSET ChainKeys /\ {} \in SUBSET ChainKeys
    OBVIOUS
  <2> QED
    BY <2>1, <2>2, <1>1, <1>2, <1>3 DEF AuditorTypes
<1>5. ASSUME NEW t \in tampers, t.kind = "edit" PROVE \E c \in ChainKeys : chain[c].exists /\ ~AllHashed(c)
  <2>1. PICK c \in ChainKeys : ~AllHashed(c)
    BY <1>5 DEF AuditInv, EditsShow
  <2>2. PICK i \in 1..Len(log[c]) : ~Hashed(c, i)
    BY <2>1 DEF AllHashed
  <2>3. Len(log[c]) # 0
    BY <2>2, <1>0, ChainTypes
  <2>4. log[c] # <<>>
    BY <2>3
  <2> QED
    BY <2>1, <2>4 DEF AuditInv, Stored
<1>6. Auditing'
  <2>1. Len(signed) \in 1..Len(signed)
    BY <1>3
  <2>2. (\E t \in a.tampers : t.kind = "edit") => \E c \in a.left : ~AllHashed(c)'
    BY <1>0, <1>2, <1>5 DEF AllHashed, Hashed
  <2> QED
    BY <2>1, <2>2, <1>0, <1>1, <1>2, <1>3 DEF Auditing
<1>7. VerdictIsRight'
  BY <1>1, <1>2 DEF VerdictIsRight
<1> QED
  BY <1>0, <1>4, <1>6, <1>7, AuditorReads

(* The replay accepts a chain exactly when its events hash to their digests *)
(* and link to each other.                                                  *)
LEMMA ReplayIs ==
  ASSUME AuditInv, NEW c \in ChainKeys
  PROVE  /\ Replays(log[c]) <=> AllHashed(c)
         /\ LastHash(log[c]) = chain[c].head
BY DEF AuditInv, Stored, Replays, AllHashed, Hashed

LEMMA RowsKeeps ==
  ASSUME AuditInv, NEW c \in ChainKeys, VerifyRows(c)
  PROVE  AuditInv'
<1>0. /\ AuditTypeOK /\ UNCHANGED <<chain, log, writing, signing, signed, tampers, appended>>
      /\ auditor.pc = "rows" /\ c \in auditor.left
  BY DEF AuditInv, VerifyRows
<1>1. PICK a, b : a = auditor /\ b = auditor'
  OBVIOUS
<1>2. a \in [pc : {"idle", "rows", "head", "root"}, nth : Nat, left : SUBSET ChainKeys,
             key : SUBSET ChainKeys, end : Seq(Payloads), sound : BOOLEAN,
             tampers : SUBSET TamperKinds, appended : Nat, raced : BOOLEAN,
             verdict : {"none", "valid", "broken", "changed"}]
  BY <1>1 DEF AuditInv, AuditorTypes
<1>3. b = [a EXCEPT !.pc = "head", !.left = @ \ {c}, !.key = {c},
                    !.end = LastHash(log[c]), !.sound = @ /\ Replays(log[c])]
  BY <1>1 DEF VerifyRows
<1>4. /\ b.pc = "head" /\ b.left = a.left \ {c} /\ b.key = {c} /\ b.end = chain[c].head
      /\ b.sound = (a.sound /\ AllHashed(c)) /\ b.nth = a.nth /\ b.verdict = a.verdict
      /\ b.tampers = a.tampers /\ b.appended = a.appended /\ b.raced = a.raced
  BY <1>2, <1>3, ReplayIs
<1>5. AuditorTypes'
  <2>1. LastHash(log[c]) \in Seq(Payloads)
    BY <1>0, ReplayIs, ChainTypes
  <2>2. PICK s \in BOOLEAN : s = (a.sound /\ Replays(log[c]))
    OBVIOUS
  <2>3. b = [pc |-> "head", nth |-> a.nth, left |-> a.left \ {c}, key |-> {c}, end |-> LastHash(log[c]),
             sound |-> s, tampers |-> a.tampers, appended |-> a.appended, raced |-> a.raced, verdict |-> a.verdict]
    BY <1>2, <1>3, <2>2
  <2> QED
    BY <2>1, <2>3, <1>1, <1>2 DEF AuditorTypes
<1>6. Auditing'
  <2>0. a.pc = "rows" /\ c \in a.left
    BY <1>0, <1>1
  <2>1. /\ a.nth \in 1..Len(signed) /\ a.verdict = "none" /\ a.tampers \subseteq tampers /\ a.appended <= appended
        /\ (\E t \in a.tampers : t.kind = "edit") /\ a.sound => \E d \in a.left : ~AllHashed(d)
        /\ tampers = {} /\ appended = a.appended => a.sound
    BY <2>0, <1>1 DEF AuditInv, Auditing
  <2>2. tampers = {} => AllHashed(c)
    BY DEF AuditInv, EditsShow
  <2>3. \A d : AllHashed(d)' <=> AllHashed(d)
    BY <1>0 DEF AllHashed, Hashed
  <2>4. (\E t \in a.tampers : t.kind = "edit") /\ b.sound => \E d \in b.left : ~AllHashed(d)'
    BY <2>1, <2>3, <1>4
  <2> QED
    BY <2>1, <2>2, <2>4, <1>0, <1>1, <1>4 DEF Auditing
<1>7. VerdictIsRight'
  <2>1. b.verdict = "none"
    BY <1>0, <1>1, <1>4 DEF AuditInv, Auditing
  <2> QED
    BY <2>1, <1>1 DEF VerdictIsRight
<1> QED
  BY <1>0, <1>5, <1>6, <1>7, AuditorReads

LEMMA HeadKeeps ==
  ASSUME AuditInv, NEW c \in ChainKeys, VerifyHead(c)
  PROVE  AuditInv'
<1>0. /\ AuditTypeOK /\ UNCHANGED <<chain, log, writing, signing, signed, tampers, appended>>
      /\ auditor.pc = "head" /\ auditor.key = {c}
  BY DEF AuditInv, VerifyHead
<1>1. PICK a, b : a = auditor /\ b = auditor'
  OBVIOUS
<1>2. a \in [pc : {"idle", "rows", "head", "root"}, nth : Nat, left : SUBSET ChainKeys,
             key : SUBSET ChainKeys, end : Seq(Payloads), sound : BOOLEAN,
             tampers : SUBSET TamperKinds, appended : Nat, raced : BOOLEAN,
             verdict : {"none", "valid", "broken", "changed"}]
  BY <1>1 DEF AuditInv, AuditorTypes
<1>3. b = [a EXCEPT !.pc = "rows", !.sound = @ /\ a.end = chain[c].head]
  BY <1>1 DEF VerifyHead
<1>4. /\ b.pc = "rows" /\ b.left = a.left /\ b.sound = (a.sound /\ a.end = chain[c].head)
      /\ b.nth = a.nth /\ b.verdict = a.verdict
      /\ b.tampers = a.tampers /\ b.appended = a.appended /\ b.raced = a.raced
  BY <1>2, <1>3
<1>5. AuditorTypes'
  <2>1. PICK s \in BOOLEAN : s = (a.sound /\ a.end = chain[c].head)
    OBVIOUS
  <2>2. b = [pc |-> "rows", nth |-> a.nth, left |-> a.left, key |-> a.key, end |-> a.end,
             sound |-> s, tampers |-> a.tampers, appended |-> a.appended, raced |-> a.raced, verdict |-> a.verdict]
    BY <1>2, <1>3, <2>1
  <2> QED
    BY <2>2, <1>1, <1>2 DEF AuditorTypes
<1>6. Auditing'
  <2>0. a.pc = "head" /\ a.key = {c}
    BY <1>0, <1>1
  <2>1. /\ a.nth \in 1..Len(signed) /\ a.verdict = "none" /\ a.tampers \subseteq tampers /\ a.appended <= appended
        /\ (\E t \in a.tampers : t.kind = "edit") /\ a.sound => \E d \in a.left : ~AllHashed(d)
        /\ tampers = {} /\ appended = a.appended => a.sound /\ a.end = chain[c].head
    BY <2>0, <1>1 DEF AuditInv, Auditing
  <2>2. \A d : AllHashed(d)' <=> AllHashed(d)
    BY <1>0 DEF AllHashed, Hashed
  <2>3. (\E t \in a.tampers : t.kind = "edit") /\ b.sound => \E d \in b.left : ~AllHashed(d)'
    BY <2>1, <2>2, <1>4
  <2> QED
    BY <2>1, <2>3, <1>0, <1>1, <1>4 DEF Auditing
<1>7. VerdictIsRight'
  <2>1. b.verdict = "none"
    BY <1>0, <1>1, <1>4 DEF AuditInv, Auditing
  <2> QED
    BY <2>1, <1>1 DEF VerdictIsRight
<1> QED
  BY <1>0, <1>5, <1>6, <1>7, AuditorReads

(* The verdict: what was altered before the audit is still ahead or found,  *)
(* and a rewriting after the checkpoint shows in the root.                  *)
LEMMA VerdictKeeps ==
  ASSUME AuditInv, verify_checkpoint
  PROVE  AuditInv'
<1>0. /\ AuditTypeOK /\ UNCHANGED <<chain, log, writing, signing, signed, tampers, appended>>
      /\ auditor.pc = "rows" /\ auditor.left = {}
  BY DEF AuditInv, verify_checkpoint
<1>1. PICK a, b : a = auditor /\ b = auditor'
  OBVIOUS
<1>2. a \in [pc : {"idle", "rows", "head", "root"}, nth : Nat, left : SUBSET ChainKeys,
             key : SUBSET ChainKeys, end : Seq(Payloads), sound : BOOLEAN,
             tampers : SUBSET TamperKinds, appended : Nat, raced : BOOLEAN,
             verdict : {"none", "valid", "broken", "changed"}]
  BY <1>1 DEF AuditInv, AuditorTypes
<1>3. PICK r, v : /\ r = (appended # a.appended \/ tampers # a.tampers)
                  /\ v = IF ~a.sound THEN "broken"
                         ELSE IF compute_root # signed[a.nth].root THEN "changed" ELSE "valid"
  OBVIOUS
<1>4. b = [a EXCEPT !.pc = "idle", !.raced = r, !.verdict = v]
  BY <1>1, <1>3 DEF verify_checkpoint
<1>5. r \in BOOLEAN /\ v \in {"none", "valid", "broken", "changed"}
  BY <1>3
<1>6. /\ b.pc = "idle" /\ b.raced = r /\ b.verdict = v /\ b.nth = a.nth
      /\ b.tampers = a.tampers /\ b.appended = a.appended
  BY <1>2, <1>4
<1>7. AuditorTypes'
  <2>1. b = [pc |-> "idle", nth |-> a.nth, left |-> a.left, key |-> a.key, end |-> a.end,
             sound |-> a.sound, tampers |-> a.tampers, appended |-> a.appended, raced |-> r, verdict |-> v]
    BY <1>2, <1>4
  <2> QED
    BY <2>1, <1>1, <1>2, <1>5 DEF AuditorTypes
<1>8. /\ a.nth \in 1..Len(signed) /\ a.tampers \subseteq tampers
      /\ a.sound => \A t \in a.tampers : t.kind # "edit"
      /\ tampers = {} /\ appended = a.appended => a.sound
  BY <1>0, <1>1 DEF AuditInv, Auditing
<1>9. Auditing'
  BY <1>0, <1>1, <1>6, <1>8 DEF Auditing
<1>10. ASSUME v = "valid", NEW t \in a.tampers PROVE t.kind = "rewrite" /\ t.signed < a.nth
  <2>1. a.sound /\ compute_root = signed[a.nth].root
    BY <1>3, <1>10
  <2>2. t \in tampers /\ t.kind \in {"edit", "rewrite"} /\ t.signed \in Nat
    BY <1>0, <1>8 DEF AuditTypeOK
  <2>3. t.kind = "rewrite"
    BY <2>1, <2>2, <1>8
  <2>4. PICK c \in ChainKeys, n \in Nat \ {0} : Differs(c, n, t.signed)
    BY <2>2, <2>3 DEF AuditInv, RewritesShow
  <2>5. ASSUME a.nth <= t.signed PROVE FALSE
    <3>1. a.nth \in 1..t.signed
      BY <2>2, <2>5, <1>2, <1>8
    <3>2. <<c, chain[c].head>> \in signed[a.nth].root
      BY <2>1, <2>4 DEF compute_root, Differs
    <3>3. chain[c].head \in Seq(Payloads) /\ Len(chain[c].head) \in Nat
      BY <1>0, ChainTypes
    <3>4. n <= Len(chain[c].head)
      BY <2>4 DEF Differs
    <3>5. Len(chain[c].head) < n
      BY <2>4, <3>1, <3>2, <3>3 DEF Differs
    <3> QED
      BY <3>3, <3>4, <3>5
  <2> QED
    BY <2>2, <2>3, <2>5, <1>2
<1>11. ASSUME v = "broken", ~r PROVE a.tampers # {}
  BY <1>3, <1>8, <1>11
<1>12. ASSUME v = "changed", ~r, a.tampers = {} PROVE signed[a.nth].upto < a.appended
  <2>1. tampers = {} /\ appended = a.appended /\ compute_root # signed[a.nth].root
    BY <1>3, <1>12
  <2>2. signed[a.nth].upto <= appended /\ signed[a.nth].upto # appended
    BY <2>1, <1>8 DEF AuditInv, RootsAgree
  <2>3. signed[a.nth].upto \in Nat /\ appended \in Nat
    <3>1. signed \in Seq([root : Roots, upto : Nat]) /\ appended \in Nat
      BY <1>0 DEF AuditTypeOK
    <3>2. signed[a.nth] \in [root : Roots, upto : Nat]
      BY <3>1, <1>8, ElementOfSeq
    <3> QED
      BY <3>1, <3>2
  <2> QED
    BY <2>1, <2>2, <2>3
<1>13. VerdictIsRight'
  BY <1>0, <1>1, <1>6, <1>10, <1>11, <1>12 DEF VerdictIsRight
<1> QED
  BY <1>0, <1>7, <1>9, <1>13, AuditorReads

LEMMA AuditKeeps ==
  ASSUME MaxTampers <= 1
  PROVE  AuditInv /\ [AuditNext]_aVars => AuditInv'
<1> SUFFICES ASSUME AuditInv, [AuditNext]_aVars PROVE AuditInv'
  OBVIOUS
<1>1. CASE \E b \in Writers, c \in ChainKeys : LockHead(b, c)
  BY <1>1, LockHeadKeeps
<1>2. CASE \E w \in writing : RollbackAppend(w) \/ \E p \in Payloads : append(w, p)
  BY <1>2, RollbackKeeps, AppendKeeps
<1>3. CASE ReadHeads \/ checkpoint
  BY <1>3, ReadHeadsKeeps, CheckpointKeeps
<1>4. CASE \E c \in ChainKeys, p \in Payloads : Rewrite(c, p)
  BY <1>4, RewriteKeeps
<1>5. CASE \E c \in ChainKeys, p \in Payloads : \E i \in 1..MaxEvents : Edit(c, i, p)
  BY <1>5, EditKeeps
<1>6. CASE AuditBegin \/ verify_checkpoint
  BY <1>6, BeginKeeps, VerdictKeeps
<1>7. CASE \E c \in ChainKeys : VerifyRows(c) \/ VerifyHead(c)
  BY <1>7, RowsKeeps, HeadKeeps
<1>8. CASE UNCHANGED aVars
  <2>1. UNCHANGED <<chain, log, writing, signing, signed, auditor, tampers, appended>>
    BY <1>8 DEF aVars
  <2>2. AuditTypeOK' /\ AppendsHold'
    BY <2>1 DEF AuditInv, AuditTypeOK, AppendsHold
  <2> QED
    BY <2>1, <2>2, ChainsStay, AuditorStays DEF AuditInv
<1> QED
  BY <1>1, <1>2, <1>3, <1>4, <1>5, <1>6, <1>7, <1>8 DEF AuditNext

(* For any number of chains, writers and checkpoints, and with at most one  *)
(* alteration (a second one could undo the first): verify_checkpoint calls  *)
(* the evidence valid only if nothing was altered before the audit, save a  *)
(* rewriting that the checkpoint itself has signed; and it raises no alarm  *)
(* without an alteration, an append or a commit during the audit.           *)
THEOREM AuditorIsRight ==
  ASSUME MaxTampers <= 1
  PROVE  AuditSpec => []VerdictIsRight
<1>1. AuditInv => VerdictIsRight
  BY DEF AuditInv
<1>2. AuditInv /\ [AuditNext]_aVars => AuditInv'
  BY AuditKeeps
<1> QED
  BY <1>1, <1>2, AuditStart, PTL DEF AuditSpec

----------------------------------------------------------------------------
(* The agent's evidence, however often it is altered *)

(* The type of the log after one event of a chain was altered.              *)
LEMMA AlteredLog ==
  ASSUME AuditTypeOK, NEW c \in ChainKeys, NEW i \in 1..Len(log[c]), NEW e \in LogType,
         NEW l, l = [log EXCEPT ![c] = [@ EXCEPT ![i] = e]]
  PROVE  l \in [ChainKeys -> Seq(LogType)]
<1>1. log \in [ChainKeys -> Seq(LogType)]
  BY DEF AuditTypeOK, LogType
<1>2. log[c] \in Seq(LogType)
  BY <1>1
<1>3. PICK s : s = [log[c] EXCEPT ![i] = e]
  OBVIOUS
<1>4. s \in Seq(LogType)
  BY <1>2, <1>3, ExceptSeq
<1>5. l = [log EXCEPT ![c] = s]
  BY <1>3
<1> QED
  BY <1>1, <1>4, <1>5

LEMMA TamperTypes ==
  ASSUME AuditTypeOK, NEW k \in {"edit", "rewrite"}, NEW T,
         T = tampers \cup {[kind |-> k, signed |-> Len(signed)]}
  PROVE  T \subseteq [kind : {"edit", "rewrite"}, signed : Nat] /\ T # {}
<1>1. Len(signed) \in Nat
  BY LenProperties DEF AuditTypeOK
<1>2. PICK t : t = [kind |-> k, signed |-> Len(signed)]
  OBVIOUS
<1>3. t \in [kind : {"edit", "rewrite"}, signed : Nat]
  BY <1>1, <1>2
<1>4. T = tampers \cup {t} /\ tampers \subseteq [kind : {"edit", "rewrite"}, signed : Nat]
  BY <1>2 DEF AuditTypeOK
<1> QED
  BY <1>3, <1>4

LEMMA AlterationTypes ==
  ASSUME AuditTypeOK, AuditorTypes, NEW c \in ChainKeys, NEW p \in Payloads,
         Rewrite(c, p) \/ \E i \in 1..MaxEvents : Edit(c, i, p)
  PROVE  AuditTypeOK' /\ AuditorTypes' /\ tampers' # {}
<1>1. CASE \E i \in 1..MaxEvents : Edit(c, i, p)
  <2>1. PICK i \in 1..MaxEvents : Edit(c, i, p)
    BY <1>1
  <2>2. PICK e : e = [log[c][i] EXCEPT !.payload = p]
    OBVIOUS
  <2>3. /\ i \in 1..Len(log[c]) /\ log' = [log EXCEPT ![c] = [@ EXCEPT ![i] = e]]
        /\ tampers' = tampers \cup {[kind |-> "edit", signed |-> Len(signed)]}
        /\ UNCHANGED <<chain, writing, signing, signed, auditor, appended>>
    BY <2>1, <2>2 DEF Edit
  <2>4. e \in LogType
    <3>1. log[c][i] \in LogType
      BY <2>3, ChainTypes
    <3> QED
      BY <3>1, <2>2 DEF LogType
  <2>5. log' \in [ChainKeys -> Seq(LogType)]
    BY <2>3, <2>4, AlteredLog
  <2>6. tampers' \subseteq [kind : {"edit", "rewrite"}, signed : Nat] /\ tampers' # {}
    BY <2>3, TamperTypes
  <2> QED
    BY <2>3, <2>5, <2>6 DEF AuditTypeOK, LogType, AuditorTypes
<1>2. CASE Rewrite(c, p)
  <2>1. PICK n, old, hash : n = Len(log[c]) /\ old = log[c][n] /\ hash = _digest(log[c][n].prev, p)
    OBVIOUS
  <2>2. PICK e : e = [payload |-> p, prev |-> old.prev, hash |-> hash]
    OBVIOUS
  <2>3. /\ n > 0 /\ log' = [log EXCEPT ![c][n].payload = p, ![c][n].hash = hash]
        /\ chain' = [chain EXCEPT ![c].head = hash]
        /\ tampers' = tampers \cup {[kind |-> "rewrite", signed |-> Len(signed)]}
        /\ UNCHANGED <<writing, signing, signed, auditor, appended>>
    BY <1>2, <2>1 DEF Rewrite
  <2>4. log[c] \in Seq(LogType) /\ n \in Nat /\ n \in 1..n
    BY <2>1, <2>3, ChainTypes
  <2>5. old \in LogType /\ old.prev \in Seq(Payloads)
    BY <2>1, <2>4, ChainTypes
  <2>6. hash \in Seq(Payloads)
    <3>1. hash = _digest(old.prev, p)
      BY <2>1
    <3> QED
      BY <3>1, <2>5, DigestIs, ZenonT(40)
  <2>7. e \in LogType
    BY <2>2, <2>5, <2>6 DEF LogType
  <2>8. log \in [ChainKeys -> Seq(LogType)] /\ log[c] \in [1..n -> LogType]
    BY <2>1, <2>4, LenProperties DEF AuditTypeOK, LogType
  <2>9. log' = [log EXCEPT ![c] = [@ EXCEPT ![n] = e]]
    <3>1. [[old EXCEPT !.payload = p] EXCEPT !.hash = hash] = e
      <4>1. old = [payload |-> old.payload, prev |-> old.prev, hash |-> old.hash]
        BY <2>5 DEF LogType
      <4>2. [old EXCEPT !.payload = p] = [payload |-> p, prev |-> old.prev, hash |-> old.hash]
        BY <4>1
      <4>3. [[payload |-> p, prev |-> old.prev, hash |-> old.hash] EXCEPT !.hash = hash]
              = [payload |-> p, prev |-> old.prev, hash |-> hash]
        OBVIOUS
      <4> QED
        BY <4>2, <4>3, <2>2, Zenon
    <3>2. log' = [log EXCEPT ![c] = [log[c] EXCEPT ![n] = [[old EXCEPT !.payload = p] EXCEPT !.hash = hash]]]
      BY <2>1, <2>3, <2>4, <2>8
    <3> QED
      BY <3>1, <3>2
  <2>10. log' \in [ChainKeys -> Seq(LogType)]
    BY <2>1, <2>4, <2>7, <2>9, AlteredLog
  <2>11. chain' \in [ChainKeys -> [exists : BOOLEAN, head : Seq(Payloads), length : Nat]]
    BY <2>3, <2>6 DEF AuditTypeOK
  <2>12. tampers' \subseteq [kind : {"edit", "rewrite"}, signed : Nat] /\ tampers' # {}
    BY <2>3, TamperTypes
  <2> QED
    BY <2>3, <2>10, <2>11, <2>12 DEF AuditTypeOK, LogType, AuditorTypes
<1> QED
  BY <1>1, <1>2

(* The steps of the writers and of the checkpoints keep every type.         *)
LEMMA WriterTypes ==
  ASSUME AuditTypeOK, AuditorTypes,
         \/ \E b \in Writers, c \in ChainKeys : LockHead(b, c)
         \/ \E w \in writing : RollbackAppend(w) \/ \E p \in Payloads : append(w, p)
         \/ ReadHeads \/ checkpoint
  PROVE  /\ AuditTypeOK' /\ AuditorTypes'
         /\ auditor' = auditor
         /\ Len(signed) \in Nat /\ Len(signed') \in Nat /\ Len(signed') >= Len(signed)
         /\ \A i \in 1..Len(signed) : signed'[i] = signed[i]
<1> DEFINE S == [root : Roots, upto : Nat]
<1>0. signed \in Seq(S) /\ Len(signed) \in Nat /\ appended \in Nat
  <2>1. signed \in Seq(S) /\ appended \in Nat
    BY DEF AuditTypeOK
  <2> QED
    BY <2>1, LenProperties
<1>1. ASSUME NEW b \in Writers, NEW c \in ChainKeys, LockHead(b, c) PROVE AuditTypeOK' /\ UNCHANGED <<auditor, signed>>
  <2>1. PICK w : w = [by |-> b, key |-> c, prev |-> chain[c].head, seq |-> chain[c].length + 1]
    OBVIOUS
  <2>2. writing' = writing \cup {w} /\ UNCHANGED <<chain, log, signing, signed, auditor, tampers, appended>>
    BY <1>1, <2>1 DEF LockHead
  <2>3. w \in [by : Writers, key : ChainKeys, prev : Seq(Payloads), seq : Nat]
    BY <2>1, ChainTypes
  <2> QED
    BY <2>2, <2>3 DEF AuditTypeOK
<1>2. ASSUME NEW w \in writing, RollbackAppend(w) PROVE AuditTypeOK' /\ UNCHANGED <<auditor, signed>>
  BY <1>2 DEF RollbackAppend, AuditTypeOK
<1>3. ASSUME NEW w \in writing, NEW p \in Payloads, append(w, p) PROVE AuditTypeOK' /\ UNCHANGED <<auditor, signed>>
  <2>1. w.key \in ChainKeys /\ w.prev \in Seq(Payloads) /\ w.seq \in Nat
    BY DEF AuditTypeOK
  <2>2. PICK c \in ChainKeys : c = w.key
    BY <2>1
  <2>3. PICK hash, e : hash = _digest(w.prev, p) /\ e = [payload |-> p, prev |-> w.prev, hash |-> hash]
    OBVIOUS
  <2>4. /\ log' = [log EXCEPT ![c] = Append(@, e)]
        /\ chain' = [chain EXCEPT ![c] = [exists |-> TRUE, head |-> hash, length |-> w.seq]]
        /\ writing' = writing \ {w} /\ appended' = appended + 1
        /\ UNCHANGED <<signing, signed, auditor, tampers>>
    BY <1>3, <2>2, <2>3 DEF append
  <2>5. hash \in Seq(Payloads)
    BY <2>1, <2>3, DigestIs, ZenonT(40)
  <2>6. e \in LogType
    BY <2>1, <2>3, <2>5 DEF LogType
  <2>7. log \in [ChainKeys -> Seq(LogType)]
    BY DEF AuditTypeOK, LogType
  <2>8. log' \in [ChainKeys -> Seq(LogType)]
    <3>1. Append(log[c], e) \in Seq(LogType)
      BY <2>6, <2>7, AppendProperties
    <3> QED
      BY <3>1, <2>4, <2>7
  <2>9. chain' \in [ChainKeys -> [exists : BOOLEAN, head : Seq(Payloads), length : Nat]]
    BY <2>1, <2>4, <2>5 DEF AuditTypeOK
  <2>10. writing' \subseteq [by : Writers, key : ChainKeys, prev : Seq(Payloads), seq : Nat] /\ appended' \in Nat
    BY <2>4 DEF AuditTypeOK
  <2> QED
    BY <2>4, <2>8, <2>9, <2>10 DEF AuditTypeOK, LogType
<1>4. CASE ReadHeads
  <2>1. AuditTypeOK' /\ UNCHANGED <<auditor, signed>>
    BY <1>4 DEF ReadHeads, AuditTypeOK
  <2> QED
    BY <1>0, <2>1 DEF AuditorTypes
<1>5. CASE checkpoint
  <2>1. PICK k : k = [root |-> compute_root, upto |-> appended]
    OBVIOUS
  <2>2. /\ signed' = Append(signed, k) /\ signing' = FALSE
        /\ UNCHANGED <<chain, log, writing, auditor, tampers, appended>>
    BY <1>5, <2>1 DEF checkpoint
  <2>3. k \in S
    <3>1. compute_root \in Roots
      BY ChainTypes DEF compute_root, Roots
    <3> QED
      BY <3>1, <1>0, <2>1
  <2>4. signed' \in Seq(S) /\ Len(signed') = Len(signed) + 1 /\ \A i \in 1..Len(signed) : signed'[i] = signed[i]
    <3> HIDE DEF S
    <3> QED
      BY <1>0, <2>2, <2>3, AppendProperties
  <2>5. AuditTypeOK'
    BY <2>2, <2>4 DEF AuditTypeOK
  <2> QED
    BY <1>0, <2>2, <2>4, <2>5 DEF AuditorTypes
<1> QED
  BY <1>0, <1>1, <1>2, <1>3, <1>4, <1>5 DEF AuditorTypes

(* The auditor's own steps keep every type.                                 *)
LEMMA AuditorKeepsTypes ==
  ASSUME AuditTypeOK, AuditorTypes, UNCHANGED <<chain, log, writing, signing, signed, tampers, appended>>, AuditorTypes'
  PROVE  AuditTypeOK'
<1>1. auditor'.pc \in {"idle", "rows", "head", "root"} /\ auditor'.verdict \in {"none", "valid", "broken", "changed"}
  BY DEF AuditorTypes
<1> QED
  BY <1>1 DEF AuditTypeOK

(* The auditor reads the rows of a chain, and then its head.                *)
LEMMA RowsTypes ==
  ASSUME AuditTypeOK, AuditorTypes, NEW c \in ChainKeys, VerifyRows(c)
  PROVE  /\ UNCHANGED <<chain, log, writing, signing, signed, tampers, appended>>
         /\ AuditorTypes' /\ auditor.pc # "idle" /\ auditor'.nth = auditor.nth /\ auditor'.verdict = auditor.verdict
<1>a. PICK a, b : a = auditor /\ b = auditor'
  OBVIOUS
<1>b. a \in [pc : {"idle", "rows", "head", "root"}, nth : Nat, left : SUBSET ChainKeys,
             key : SUBSET ChainKeys, end : Seq(Payloads), sound : BOOLEAN,
             tampers : SUBSET TamperKinds, appended : Nat, raced : BOOLEAN,
             verdict : {"none", "valid", "broken", "changed"}]
  BY <1>a DEF AuditorTypes
<1>c. UNCHANGED <<chain, log, writing, signing, signed, tampers, appended>>
  BY DEF VerifyRows
<1>1. PICK s \in BOOLEAN : s = (a.sound /\ Replays(log[c]))
  OBVIOUS
<1>2. PICK h : h = LastHash(log[c])
  OBVIOUS
<1>3. /\ a.pc = "rows"
      /\ b = [a EXCEPT !.pc = "head", !.left = @ \ {c}, !.key = {c},
                       !.end = LastHash(log[c]), !.sound = @ /\ Replays(log[c])]
  BY <1>a DEF VerifyRows
<1>4. b = [pc |-> "head", nth |-> a.nth, left |-> a.left \ {c}, key |-> {c}, end |-> h,
           sound |-> s, tampers |-> a.tampers, appended |-> a.appended, raced |-> a.raced, verdict |-> a.verdict]
  BY <1>b, <1>1, <1>2, <1>3
<1>5. h \in Seq(Payloads)
  <2>1. CASE log[c] = <<>>
    BY <1>2, <2>1, EmptySeq DEF LastHash, GENESIS
  <2>2. CASE log[c] # <<>>
    <3>1. log[c] \in Seq(LogType) /\ Len(log[c]) \in Nat
      BY ChainTypes
    <3>2. Len(log[c]) \in 1..Len(log[c])
      BY <2>2, <3>1, EmptySeq
    <3> QED
      BY <1>2, <2>2, <3>2, ChainTypes DEF LastHash
  <2> QED
    BY <2>1, <2>2
<1> QED
  BY <1>c, <1>a, <1>b, <1>3, <1>4, <1>5 DEF AuditorTypes

LEMMA HeadTypes ==
  ASSUME AuditTypeOK, AuditorTypes, NEW c \in ChainKeys, VerifyHead(c)
  PROVE  /\ UNCHANGED <<chain, log, writing, signing, signed, tampers, appended>>
         /\ AuditorTypes' /\ auditor.pc # "idle" /\ auditor'.nth = auditor.nth /\ auditor'.verdict = auditor.verdict
<1>a. PICK a, b : a = auditor /\ b = auditor'
  OBVIOUS
<1>b. a \in [pc : {"idle", "rows", "head", "root"}, nth : Nat, left : SUBSET ChainKeys,
             key : SUBSET ChainKeys, end : Seq(Payloads), sound : BOOLEAN,
             tampers : SUBSET TamperKinds, appended : Nat, raced : BOOLEAN,
             verdict : {"none", "valid", "broken", "changed"}]
  BY <1>a DEF AuditorTypes
<1>c. UNCHANGED <<chain, log, writing, signing, signed, tampers, appended>>
  BY DEF VerifyHead
<1>1. PICK s \in BOOLEAN : s = (a.sound /\ a.end = chain[c].head)
  OBVIOUS
<1>2. a.pc = "head" /\ b = [a EXCEPT !.pc = "rows", !.sound = @ /\ a.end = chain[c].head]
  BY <1>a DEF VerifyHead
<1>3. b = [pc |-> "rows", nth |-> a.nth, left |-> a.left, key |-> a.key, end |-> a.end,
           sound |-> s, tampers |-> a.tampers, appended |-> a.appended, raced |-> a.raced, verdict |-> a.verdict]
  BY <1>b, <1>1, <1>2
<1> QED
  BY <1>c, <1>a, <1>b, <1>2, <1>3 DEF AuditorTypes

(* The auditor's steps: its locals afterwards.                              *)
LEMMA AuditorSteps ==
  ASSUME AuditTypeOK, AuditorTypes,
         AuditBegin \/ verify_checkpoint \/ \E c \in ChainKeys : VerifyRows(c) \/ VerifyHead(c)
  PROVE  /\ AuditTypeOK' /\ AuditorTypes' /\ tampers' = tampers /\ signed' = signed
         /\ \/ AuditBegin /\ auditor'.nth = Len(signed) /\ signed # <<>> /\ auditor'.verdict = "none"
            \/ auditor.pc # "idle" /\ auditor'.nth = auditor.nth /\ auditor'.verdict = auditor.verdict
            \/ /\ verify_checkpoint /\ auditor.pc # "idle" /\ auditor'.pc = "idle"
               /\ auditor'.nth = auditor.nth /\ auditor'.tampers = auditor.tampers
               /\ auditor'.raced = (appended # auditor.appended \/ tampers # auditor.tampers)
<1>4. ASSUME NEW c \in ChainKeys, VerifyRows(c) \/ VerifyHead(c)
      PROVE  /\ UNCHANGED <<chain, log, writing, signing, signed, tampers, appended>>
             /\ AuditorTypes' /\ auditor.pc # "idle" /\ auditor'.nth = auditor.nth /\ auditor'.verdict = auditor.verdict
  BY <1>4, RowsTypes, HeadTypes
<1>0. UNCHANGED <<chain, log, writing, signing, signed, tampers, appended>>
  BY <1>4 DEF AuditBegin, verify_checkpoint
<1>1. PICK a, b : a = auditor /\ b = auditor'
  OBVIOUS
<1>2. a \in [pc : {"idle", "rows", "head", "root"}, nth : Nat, left : SUBSET ChainKeys,
             key : SUBSET ChainKeys, end : Seq(Payloads), sound : BOOLEAN,
             tampers : SUBSET TamperKinds, appended : Nat, raced : BOOLEAN,
             verdict : {"none", "valid", "broken", "changed"}]
  BY <1>1 DEF AuditorTypes
<1>3. CASE AuditBegin
  <2>1. /\ signed # <<>>
        /\ b = [pc |-> "rows", nth |-> Len(signed), left |-> {c \in ChainKeys : chain[c].exists}, key |-> {},
                end |-> GENESIS, sound |-> TRUE, tampers |-> tampers, appended |-> appended,
                raced |-> FALSE, verdict |-> "none"]
    BY <1>1, <1>3 DEF AuditBegin, NoAuditor
  <2>2. Len(signed) \in Nat /\ appended \in Nat
    <3>1. signed \in Seq([root : Roots, upto : Nat]) /\ appended \in Nat
      BY DEF AuditTypeOK
    <3> QED
      BY <3>1, LenProperties
  <2>3. tampers \subseteq TamperKinds /\ GENESIS \in Seq(Payloads)
    BY EmptySeq DEF AuditTypeOK, TamperKinds, GENESIS
  <2>4. {c \in ChainKeys : chain[c].exists} \in SUBSET ChainKeys /\ {} \in SUBSET ChainKeys
    OBVIOUS
  <2>5. AuditorTypes'
    BY <1>1, <2>1, <2>2, <2>3, <2>4 DEF AuditorTypes
  <2>6. AuditTypeOK'
    BY <1>0, <2>5, AuditorKeepsTypes
  <2>7. auditor'.nth = Len(signed) /\ auditor'.verdict = "none"
    BY <1>1, <2>1
  <2> QED
    BY <1>0, <1>3, <2>1, <2>5, <2>6, <2>7
<1>6. CASE verify_checkpoint
  <2>1. PICK r, v : /\ r = (appended # a.appended \/ tampers # a.tampers)
                    /\ v = IF ~a.sound THEN "broken"
                           ELSE IF compute_root # signed[a.nth].root THEN "changed" ELSE "valid"
    OBVIOUS
  <2>2. a.pc = "rows" /\ b = [a EXCEPT !.pc = "idle", !.raced = r, !.verdict = v]
    BY <1>1, <1>6, <2>1 DEF verify_checkpoint
  <2>3. r \in BOOLEAN /\ v \in {"none", "valid", "broken", "changed"}
    BY <2>1
  <2>4. b = [pc |-> "idle", nth |-> a.nth, left |-> a.left, key |-> a.key, end |-> a.end,
             sound |-> a.sound, tampers |-> a.tampers, appended |-> a.appended, raced |-> r, verdict |-> v]
    BY <1>2, <2>2
  <2>5. AuditorTypes'
    BY <1>1, <1>2, <2>3, <2>4 DEF AuditorTypes
  <2>6. b.nth = a.nth /\ b.tampers = a.tampers /\ b.raced = r /\ b.pc = "idle"
    BY <2>4
  <2> QED
    BY <1>0, <1>1, <1>6, <2>1, <2>2, <2>5, <2>6, AuditorKeepsTypes
<1> QED
  BY <1>3, <1>4, <1>6, AuditorKeepsTypes

(* A verdict that is not "valid" is about something: an alteration, an      *)
(* append since the checkpoint, or a commit while the audit was running.    *)
NoFalseAlarm ==
  LET a == auditor IN
  /\ a.verdict = "broken" => a.raced \/ a.tampers # {}
  /\ a.verdict = "changed" => a.raced \/ a.tampers # {} \/ signed[a.nth].upto < a.appended

(* While nothing is altered the invariant of one alteration holds; after    *)
(* that an audit knows of an alteration, or is raced by one.                *)
AlarmInv ==
  /\ AuditTypeOK /\ AuditorTypes
  /\ tampers = {} => AuditInv
  /\ auditor.pc # "idle" \/ auditor.verdict # "none" => auditor.nth \in 1..Len(signed)
  /\ auditor.pc # "idle" => auditor.verdict = "none"
  /\ NoFalseAlarm

LEMMA AlarmStart == AuditInit => AlarmInv
<1> SUFFICES ASSUME AuditInit PROVE AlarmInv
  OBVIOUS
<1>1. AuditInv
  BY AuditStart
<1>2. auditor.pc = "idle" /\ auditor.verdict = "none"
  BY DEF AuditInit, NoAuditor
<1> QED
  BY <1>1, <1>2 DEF AlarmInv, AuditInv, NoFalseAlarm

LEMMA AlarmKeeps == AlarmInv /\ [AuditNext]_aVars => AlarmInv'
<1> SUFFICES ASSUME AlarmInv, [AuditNext]_aVars PROVE AlarmInv'
  OBVIOUS
<1>0. AuditTypeOK /\ AuditorTypes /\ Len(signed) \in Nat
  <2>1. AuditTypeOK /\ AuditorTypes
    BY DEF AlarmInv
  <2> QED
    BY <2>1, LenProperties DEF AuditTypeOK
<1>1. CASE \/ \E b \in Writers, c \in ChainKeys : LockHead(b, c)
           \/ \E w \in writing : RollbackAppend(w) \/ \E p \in Payloads : append(w, p)
           \/ ReadHeads \/ checkpoint
  <2>1. /\ AuditTypeOK' /\ AuditorTypes' /\ auditor' = auditor
        /\ Len(signed') \in Nat /\ Len(signed') >= Len(signed)
        /\ \A i \in 1..Len(signed) : signed'[i] = signed[i]
    BY <1>0, <1>1, WriterTypes
  <2>2. tampers' = tampers
    BY <1>1 DEF LockHead, RollbackAppend, append, ReadHeads, checkpoint
  <2>3. tampers' = {} => AuditInv'
    BY <1>1, <2>2, LockHeadKeeps, RollbackKeeps, AppendKeeps, ReadHeadsKeeps, CheckpointKeeps DEF AlarmInv
  <2>4. auditor.pc # "idle" \/ auditor.verdict # "none" => auditor.nth \in 1..Len(signed)
    BY DEF AlarmInv
  <2>5. NoFalseAlarm'
    BY <2>1, <2>4 DEF AlarmInv, NoFalseAlarm
  <2> QED
    BY <1>0, <2>1, <2>3, <2>4, <2>5 DEF AlarmInv
<1>2. CASE \E c \in ChainKeys, p \in Payloads :
             \/ Rewrite(c, p)
             \/ \E i \in 1..MaxEvents : Edit(c, i, p)
  <2>1. AuditTypeOK' /\ AuditorTypes' /\ tampers' # {}
    BY <1>0, <1>2, AlterationTypes
  <2>2. UNCHANGED <<signed, auditor>>
    BY <1>2 DEF Rewrite, Edit
  <2> QED
    BY <2>1, <2>2 DEF AlarmInv, NoFalseAlarm
<1>3. CASE AuditBegin \/ verify_checkpoint \/ \E c \in ChainKeys : VerifyRows(c) \/ VerifyHead(c)
  <2>1. /\ AuditTypeOK' /\ AuditorTypes' /\ tampers' = tampers /\ signed' = signed
        /\ \/ AuditBegin /\ auditor'.nth = Len(signed) /\ signed # <<>> /\ auditor'.verdict = "none"
           \/ auditor.pc # "idle" /\ auditor'.nth = auditor.nth /\ auditor'.verdict = auditor.verdict
           \/ /\ verify_checkpoint /\ auditor.pc # "idle" /\ auditor'.pc = "idle"
              /\ auditor'.nth = auditor.nth /\ auditor'.tampers = auditor.tampers
              /\ auditor'.raced = (appended # auditor.appended \/ tampers # auditor.tampers)
    BY <1>0, <1>3, AuditorSteps
  <2>2. tampers' = {} => AuditInv'
    BY <1>3, <2>1, BeginKeeps, VerdictKeeps, RowsKeeps, HeadKeeps DEF AlarmInv
  <2>3. auditor'.nth \in 1..Len(signed')
    <3>1. signed # <<>> => Len(signed) \in 1..Len(signed)
      <4>1. signed \in Seq([root : Roots, upto : Nat])
        BY <1>0 DEF AuditTypeOK
      <4> QED
        BY <1>0, <4>1, EmptySeq
    <3> QED
      BY <2>1, <3>1 DEF AlarmInv
  <2>4. NoFalseAlarm'
    <3>1. CASE tampers' = {}
      <4>1. VerdictIsRight'
        BY <2>2, <3>1 DEF AuditInv
      <4> QED
        BY <4>1 DEF VerdictIsRight, NoFalseAlarm
    <3>2. CASE tampers' # {}
      <4>1. CASE auditor'.verdict = "none"
        BY <4>1 DEF NoFalseAlarm
      <4>2. CASE auditor'.raced \/ auditor'.tampers # {}
        BY <4>2 DEF NoFalseAlarm
      <4>3. CASE auditor.pc # "idle" /\ auditor'.nth = auditor.nth /\ auditor'.verdict = auditor.verdict
        BY <4>1, <4>3 DEF AlarmInv
      <4> QED
        BY <2>1, <3>2, <4>1, <4>2, <4>3
    <3> QED
      BY <3>1, <3>2
  <2> QED
    BY <2>1, <2>2, <2>3, <2>4 DEF AlarmInv
<1>4. CASE UNCHANGED aVars
  <2>1. UNCHANGED <<chain, log, writing, signing, signed, auditor, tampers, appended>>
    BY <1>4 DEF aVars
  <2>2. AuditTypeOK' /\ AuditorTypes'
    BY <1>0, <2>1 DEF AuditTypeOK, AuditorTypes
  <2>3. AuditInv => AppendsHold'
    BY <2>1 DEF AuditInv, AppendsHold
  <2>4. AuditInv => AuditInv'
    BY <2>1, <2>2, <2>3, ChainsStay, AuditorStays DEF AuditInv
  <2> QED
    BY <2>1, <2>2, <2>4 DEF AlarmInv, NoFalseAlarm
<1> QED
  BY <1>1, <1>2, <1>3, <1>4 DEF AuditNext

(* For any number of alterations (where AuditorIsRight allows one): an      *)
(* audit by verify_checkpoint that reports a broken chain or a changed root *)
(* has met an alteration, an append since the checkpoint was signed, or a   *)
(* commit during the audit; and the tables keep their domains.              *)
THEOREM AlarmsAreReal == AuditSpec => [](AuditTypeOK /\ NoFalseAlarm)
<1>1. AlarmInv => AuditTypeOK /\ NoFalseAlarm
  BY DEF AlarmInv
<1> QED
  BY <1>1, AlarmStart, AlarmKeeps, PTL DEF AuditSpec

----------------------------------------------------------------------------
(* The ledger of the API lane: invariants *)

(* An event as its appender left it, after the one before it.               *)
Intact(i) ==
  /\ validate_event(events[i], IF i = 1 THEN GENESIS_PREV_HASH ELSE events[i - 1].hash)
  /\ Len(events[i].hash) = i

(* Nothing else in the ledger repairs an altered event.                     *)
AlterationShows ==
  /\ altered = {} => \A i \in 1..Len(events) : Intact(i)
  /\ altered # {} => \E i \in 1..Len(events) :
       events[i].hash # compute_event_hash(events[i].prev, events[i].content)

IsRange(g) ==
  /\ g.start \in 1..g.end /\ g.end \in 1..Len(events)
  /\ g = compute_root_hash(g.start, g.end, events[g.end].hash)

(* A signature covers exactly the events that carry it, and is published or *)
(* about to be.                                                             *)
Covers(g) ==
  /\ IsRange(g)
  /\ \A j \in g.start..g.end : events[j].sig = g
  /\ g \in witness \/ \E c \in inflight : c.annotated /\ c.root = g

Marks == \A i \in 1..Len(events) :
  events[i].sig # Unsigned => i \in events[i].sig.start..events[i].sig.end /\ Covers(events[i].sig)

(* A signing that runs alone: what it will mark is not marked yet.          *)
OneSigning ==
  /\ \A c, d \in inflight : c = d
  /\ \A c \in inflight :
       /\ IsRange(c.root)
       /\ ~c.annotated => \A i \in c.root.start..Len(events) : events[i].sig = Unsigned
       /\ c.annotated => events[c.root.start].sig = c.root

Published == \A v \in witness : IsRange(v) /\ events[v.start].sig = v

LedgerInv ==
  /\ LedgerTypeOK /\ Len(events) <= MaxLedger
  /\ AlterationShows
  /\ altered = {} /\ ~disturbed => Marks /\ OneSigning /\ Published

LEMMA LedgerStart == LedgerInit => LedgerInv
<1> SUFFICES ASSUME LedgerInit PROVE LedgerInv
  OBVIOUS
<1>1. events = <<>> /\ Len(events) = 0 /\ inflight = {} /\ witness = {} /\ altered = {} /\ disturbed = FALSE
      /\ signings = 0
  BY DEF LedgerInit
<1>2. LedgerTypeOK
  <2>1. events \in Seq([content : Contents, prev : Hashes, hash : Hashes, sig : RootHashes])
    BY <1>1, EmptySeq
  <2> QED
    BY <2>1, <1>1 DEF LedgerTypeOK
<1> QED
  BY <1>1, <1>2, LedgerAssumption DEF LedgerInv, AlterationShows, Marks, OneSigning, Published

(* A signature of a range is not the mark of an unsigned event.             *)
LEMMA RangesAreSigned ==
  ASSUME NEW g, IsRange(g), LedgerTypeOK
  PROVE  g # Unsigned /\ g.start \in Nat /\ g.end \in Nat /\ g.start <= g.end /\ 1 <= g.start
         /\ g.end <= Len(events) /\ Len(events) \in Nat
<1>1. Len(events) \in Nat
  BY DEF LedgerTypeOK
<1>2. g.end \in Nat /\ g.end <= Len(events) /\ g.start \in Nat /\ 1 <= g.start /\ g.start <= g.end
  BY <1>1 DEF IsRange
<1>3. Unsigned.end = 0
  BY DEF Unsigned, compute_root_hash
<1> QED
  BY <1>1, <1>2, <1>3

(* The types of one event.                                                  *)
LEMMA EventFields ==
  ASSUME LedgerTypeOK, NEW i \in 1..Len(events)
  PROVE  /\ events[i] \in [content : Contents, prev : Hashes, hash : Hashes, sig : RootHashes]
         /\ events[i].content \in Contents /\ events[i].prev \in Seq(Contents)
         /\ events[i].hash \in Seq(Contents) /\ events[i].sig \in RootHashes
         /\ Len(events) \in Nat
<1>1. events[i] \in [content : Contents, prev : Hashes, hash : Hashes, sig : RootHashes]
  BY ElementOfSeq DEF LedgerTypeOK
<1> QED
  BY <1>1 DEF Hashes, LedgerTypeOK

(* The invariant gives the property.                                        *)
LEMMA LedgerIsHonest == LedgerInv => VerificationIsHonest
<1> SUFFICES ASSUME LedgerInv PROVE VerificationIsHonest
  OBVIOUS
<1>0. LedgerTypeOK /\ Len(events) \in Nat
  BY DEF LedgerInv, LedgerTypeOK
<1>1. altered # {} => ~verify_chain
  <2> SUFFICES ASSUME altered # {}, verify_chain PROVE FALSE
    OBVIOUS
  <2>1. PICK i \in 1..Len(events) : events[i].hash # compute_event_hash(events[i].prev, events[i].content)
    BY DEF LedgerInv, AlterationShows
  <2> QED
    BY <2>1 DEF verify_chain, validate_chain, validate_event
<1>2. ASSUME altered = {}, ~disturbed, inflight = {} PROVE verify_chain
  <2>1. \A i \in 1..Len(events) : Intact(i)
    BY <1>2 DEF LedgerInv, AlterationShows
  <2>2. validate_chain(1, Len(events), GENESIS_PREV_HASH)
    BY <2>1 DEF validate_chain, Intact
  <2>3. Marks
    BY <1>2 DEF LedgerInv
  <2>4. ASSUME NEW r \in Stretches
        PROVE  /\ events[r[1]].sig = compute_root_hash(r[1], r[2], events[r[2]].hash)
               /\ events[r[1]].sig \in witness
    <3> DEFINE a == r[1]
               b == r[2]
               g == events[a].sig
    <3>1. /\ a \in 1..Len(events) /\ b \in 1..Len(events) /\ a <= b
          /\ \A i \in a..b : events[i].sig = g /\ events[i].sig # Unsigned
          /\ a > 1 => events[a - 1].sig # g
          /\ b < Len(events) => events[b + 1].sig # g
      BY <2>4 DEF Stretches
    <3>2. g # Unsigned
      BY <3>1, <1>0
    <3>3. a \in g.start..g.end /\ Covers(g)
      BY <3>1, <3>2, <2>3 DEF Marks
    <3>4. IsRange(g) /\ (\A j \in g.start..g.end : events[j].sig = g) /\ g \in witness
      BY <3>3, <1>2 DEF Covers
    <3>5. g.start \in Nat /\ g.end \in Nat /\ g.start <= g.end /\ 1 <= g.start /\ g.end <= Len(events)
      BY <3>4, <1>0, RangesAreSigned
    <3>6. g.start = a
      <4>1. ASSUME g.start # a PROVE FALSE
        <5>1. a - 1 \in g.start..g.end /\ a > 1
          BY <4>1, <3>3, <3>5, <3>1
        <5> QED
          BY <5>1, <3>4, <3>1
      <4> QED
        BY <4>1
    <3>7. b <= g.end
      <4>1. events[b].sig = g /\ events[b].sig # Unsigned
        BY <3>1, <1>0
      <4>2. b \in g.start..g.end
        BY <4>1, <3>1, <2>3 DEF Marks
      <4> QED
        BY <4>2, <3>5
    <3>8. g.end = b
      <4>1. ASSUME g.end # b PROVE FALSE
        <5>1. b + 1 \in g.start..g.end /\ b < Len(events)
          BY <4>1, <3>7, <3>5, <3>1, <3>6, <1>0
        <5> QED
          BY <5>1, <3>4, <3>1
      <4> QED
        BY <4>1
    <3>9. g = compute_root_hash(g.start, g.end, events[g.end].hash)
      BY <3>4 DEF IsRange
    <3> HIDE DEF g
    <3>10. g = compute_root_hash(a, b, events[b].hash)
      BY <3>9, <3>6, <3>8
    <3> QED
      BY <3>10, <3>4 DEF g
  <2> QED
    BY <2>2, <2>4 DEF verify_chain
<1> QED
  BY <1>1, <1>2 DEF VerificationIsHonest

(* A stored event.                                                          *)
EventType == [content : Contents, prev : Hashes, hash : Hashes, sig : RootHashes]

(* Signatures, calls and the witness stay as they are when the ledger only  *)
(* grows by unsigned events.                                                *)
LEMMA SignaturesStay ==
  ASSUME LedgerTypeOK, Marks, OneSigning, Published,
         inflight' = inflight, witness' = witness,
         Len(events)' \in Nat, Len(events) <= Len(events)',
         \A i \in 1..Len(events) : events'[i] = events[i],
         \A i \in 1..Len(events)' : i > Len(events) => events'[i].sig = Unsigned
  PROVE  Marks' /\ OneSigning' /\ Published'
<1>0. Len(events) \in Nat
  BY DEF LedgerTypeOK
<1>1. ASSUME NEW g, IsRange(g) PROVE IsRange(g)' /\ \A j \in g.start..g.end : events'[j] = events[j]
  <2>1. g.start \in Nat /\ g.end \in Nat /\ 1 <= g.start /\ g.end <= Len(events) /\ g.start <= g.end
    BY <1>1, RangesAreSigned
  <2>2. g = compute_root_hash(g.start, g.end, events[g.end].hash)
    BY <1>1 DEF IsRange
  <2>3. events'[g.end] = events[g.end]
    BY <2>1, <1>0
  <2> QED
    BY <2>1, <2>2, <2>3, <1>0 DEF IsRange
<1>2. Marks'
  <2> SUFFICES ASSUME NEW i \in 1..Len(events)', events'[i].sig # Unsigned
               PROVE  i \in events'[i].sig.start..events'[i].sig.end /\ Covers(events[i].sig)'
    BY DEF Marks
  <2>1. i \in 1..Len(events) /\ events'[i] = events[i]
    BY <1>0
  <2>0. PICK g : g = events[i].sig
    OBVIOUS
  <2>2. i \in g.start..g.end /\ Covers(g)
    BY <2>0, <2>1 DEF Marks
  <2>3. IsRange(g)' /\ \A j \in g.start..g.end : events'[j] = events[j]
    BY <2>2, <1>1 DEF Covers
  <2>4. Covers(g)'
    BY <2>2, <2>3 DEF Covers
  <2>5. g = events'[i].sig
    BY <2>0, <2>1
  <2> QED
    BY <2>2, <2>4, <2>5 DEF Covers, IsRange
<1>3. OneSigning'
  <2>1. ASSUME NEW c \in inflight
        PROVE  /\ IsRange(c.root)'
               /\ ~c.annotated => \A i \in c.root.start..Len(events)' : events'[i].sig = Unsigned
               /\ c.annotated => events'[c.root.start].sig = c.root
    <3>1. IsRange(c.root)
      BY DEF OneSigning
    <3>2. c.root.start \in Nat /\ 1 <= c.root.start /\ c.root.start <= c.root.end /\ c.root.end \in Nat
      BY <3>1, RangesAreSigned
    <3>3. IsRange(c.root)' /\ events'[c.root.start] = events[c.root.start]
      BY <3>1, <3>2, <1>1
    <3>4. ASSUME ~c.annotated, NEW i \in c.root.start..Len(events)' PROVE events'[i].sig = Unsigned
      <4>1. i \in Nat /\ 1 <= i
        BY <3>2
      <4>2. CASE i > Len(events)
        BY <4>1, <4>2
      <4>3. CASE i <= Len(events)
        <5>1. i \in 1..Len(events) /\ i \in c.root.start..Len(events)
          BY <4>1, <4>3, <1>0, <3>2
        <5> QED
          BY <5>1, <3>4 DEF OneSigning
      <4> QED
        BY <4>1, <4>2, <4>3, <1>0
    <3> QED
      BY <3>3, <3>4 DEF OneSigning
  <2> QED
    BY <2>1 DEF OneSigning
<1>4. Published'
  <2> SUFFICES ASSUME NEW v \in witness PROVE IsRange(v)' /\ events'[v.start].sig = v
    BY DEF Published
  <2>1. IsRange(v) /\ events[v.start].sig = v
    BY DEF Published
  <2>2. v.start \in v.start..v.end
    BY <2>1, RangesAreSigned
  <2> QED
    BY <2>1, <2>2, <1>1
<1> QED
  BY <1>2, <1>3, <1>4

LEMMA LedgerAppendKeeps ==
  ASSUME LedgerInv, NEW x \in Contents, LedgerAppend(x)
  PROVE  LedgerInv'
<1> DEFINE n == Len(events)
           prev == IF events = <<>> THEN GENESIS_PREV_HASH ELSE events[n].hash
           e == AuditEvent(prev, x)
<1>1. /\ n < MaxLedger /\ events' = Append(events, e)
      /\ UNCHANGED <<inflight, witness, altered, disturbed, signings>>
  BY DEF LedgerAppend
<1>2. LedgerTypeOK /\ n \in Nat /\ events \in Seq(EventType)
  BY DEF LedgerInv, LedgerTypeOK, EventType
<1>3. events # <<>> => n \in 1..n
  BY <1>2, EmptySeq
<1>4. prev \in Seq(Contents)
  BY <1>2, <1>3, EventFields, EmptySeq DEF GENESIS_PREV_HASH
<1> HIDE DEF prev
<1>5. e.content = x /\ e.prev = prev /\ e.hash = compute_event_hash(prev, x) /\ e.sig = Unsigned
  BY DEF AuditEvent
<1>6. compute_event_hash(prev, x) \in Seq(Contents) /\ Len(compute_event_hash(prev, x)) = Len(prev) + 1
  BY <1>4, AppendProperties DEF compute_event_hash
<1>7. e \in EventType
  <2>1. Unsigned \in RootHashes
    BY EmptySeq DEF Unsigned, RootHashes, compute_root_hash, Hashes, GENESIS_PREV_HASH
  <2> QED
    BY <1>4, <1>6, <2>1 DEF AuditEvent, EventType, Hashes
<1> HIDE DEF e
<1>8. /\ events' \in Seq(EventType) /\ Len(events') = n + 1
      /\ \A i \in 1..n : events'[i] = events[i]
      /\ events'[n + 1] = e
  BY <1>1, <1>2, <1>7, AppendProperties
<1>9. LedgerTypeOK'
  BY <1>1, <1>8, <1>2 DEF LedgerTypeOK, EventType
<1>10. Len(events)' <= MaxLedger
  BY <1>1, <1>8, <1>2, LedgerAssumption
<1>11. AlterationShows'
  <2>1. ASSUME altered = {}, NEW i \in 1..n + 1 PROVE Intact(i)'
    <3>0. \A k \in 1..n : Intact(k)
      BY <2>1 DEF LedgerInv, AlterationShows
    <3>1. CASE i \in 1..n
      <4>1. Intact(i)
        BY <3>0, <3>1
      <4>2. i # 1 => i - 1 \in 1..n
        BY <3>1, <1>2
      <4> QED
        BY <3>1, <4>1, <4>2, <1>8 DEF Intact
    <3>2. CASE i = n + 1
      <4>1. CASE events = <<>>
        <5>1. n = 0 /\ prev = GENESIS_PREV_HASH /\ Len(prev) = 0
          BY <4>1, EmptySeq DEF prev, GENESIS_PREV_HASH
        <5> QED
          BY <5>1, <3>2, <1>8, <1>5, <1>6 DEF Intact, validate_event
      <4>2. CASE events # <<>>
        <5>1. n \in 1..n /\ prev = events[n].hash /\ Len(prev) = n /\ n + 1 # 1
          BY <4>2, <1>3, <3>0, <1>2 DEF prev, Intact
        <5>2. n + 1 - 1 = n
          BY <1>2
        <5> QED
          BY <5>1, <5>2, <3>2, <1>8, <1>5, <1>6 DEF Intact, validate_event
      <4> QED
        BY <4>1, <4>2
    <3> QED
      BY <3>1, <3>2, <2>1, <1>2
  <2>2. ASSUME altered # {}
        PROVE  \E i \in 1..n + 1 : events'[i].hash # compute_event_hash(events'[i].prev, events'[i].content)
    <3>1. PICK i \in 1..n : events[i].hash # compute_event_hash(events[i].prev, events[i].content)
      BY <2>2 DEF LedgerInv, AlterationShows
    <3> QED
      BY <3>1, <1>8, <1>2
  <2> QED
    BY <2>1, <2>2, <1>1, <1>8 DEF AlterationShows
<1>12. altered = {} /\ ~disturbed => Marks' /\ OneSigning' /\ Published'
  <2>1. \A i \in 1..Len(events)' : i > Len(events) => events'[i].sig = Unsigned
    BY <1>8, <1>2, <1>5
  <2>2. altered = {} /\ ~disturbed => Marks /\ OneSigning /\ Published
    BY DEF LedgerInv
  <2> QED
    BY <2>1, <2>2, <1>1, <1>2, <1>8, SignaturesStay
<1> QED
  BY <1>1, <1>9, <1>10, <1>11, <1>12 DEF LedgerInv

(* What comes after the last signed event is not signed.                    *)
LEMMA FirstToSignIs ==
  ASSUME LedgerTypeOK
  PROVE  /\ FirstToSign \in Nat /\ 1 <= FirstToSign
         /\ \A i \in FirstToSign..Len(events) : events[i].sig = Unsigned
<1> DEFINE S == SignedSeqs \cup {0}
<1>0. Len(events) \in Nat
  BY DEF LedgerTypeOK
<1>1. S \subseteq 0..Len(events) /\ S # {}
  BY <1>0 DEF SignedSeqs
<1>2. FirstToSign = Max(S) + 1
  BY DEF FirstToSign
<1>3. \A i \in 1..Len(events) : events[i].sig # Unsigned => i \in S
  BY DEF SignedSeqs
<1> HIDE DEF S
<1>4. PICK m \in Nat : m = Max(S) /\ \A y \in S : y <= m
  <2>1. Max(S) \in S /\ \A y \in S : y <= Max(S)
    BY <1>0, <1>1, MaxOf
  <2>2. \A y \in S : y \in Nat
    BY <1>0, <1>1
  <2> QED
    BY <2>1, <2>2
<1>5. FirstToSign = m + 1
  BY <1>2, <1>4
<1>6. ASSUME NEW i \in (m + 1)..Len(events), events[i].sig # Unsigned PROVE FALSE
  <2>1. i \in 1..Len(events) /\ i > m
    BY <1>0
  <2> QED
    BY <2>1, <1>3, <1>4, <1>6
<1> QED
  BY <1>4, <1>5, <1>6

LEMMA SignRangeKeeps ==
  ASSUME LedgerInv, NEW b \in Signers, SignRange(b)
  PROVE  LedgerInv'
<1>0. PICK s, t : s = FirstToSign /\ t = Len(events)
  OBVIOUS
<1>a. PICK root : root = compute_root_hash(s, t, events[t].hash)
  OBVIOUS
<1>b. PICK c : c = [by |-> b, root |-> root, annotated |-> FALSE]
  OBVIOUS
<1>1. /\ s <= t /\ inflight' = inflight \cup {c}
      /\ disturbed' = (disturbed \/ inflight # {}) /\ signings' = signings + 1
      /\ UNCHANGED <<events, witness, altered>>
  BY <1>0, <1>a, <1>b DEF SignRange
<1>2. LedgerTypeOK /\ t \in Nat
  BY <1>0 DEF LedgerInv, LedgerTypeOK
<1>3. s \in Nat /\ 1 <= s /\ \A i \in s..t : events[i].sig = Unsigned
  BY <1>0, <1>2, FirstToSignIs
<1>4. t \in 1..t /\ s \in 1..t
  BY <1>1, <1>2, <1>3
<1>5. root.start = s /\ root.end = t /\ root.last = events[t].hash /\ root.cardinality = t + 1 - s
  BY <1>a DEF compute_root_hash
<1>6. root \in RootHashes
  <2>1. events[t].hash \in Hashes /\ t + 1 - s \in Nat
    BY <1>0, <1>1, <1>2, <1>3, <1>4, EventFields DEF Hashes
  <2> QED
    BY <2>1, <1>a, <1>2, <1>3 DEF RootHashes, compute_root_hash
<1>7. IsRange(root) /\ IsRange(root)'
  <2>1. root = compute_root_hash(root.start, root.end, events[root.end].hash)
    BY <1>a, <1>5
  <2> QED
    BY <2>1, <1>0, <1>1, <1>4, <1>5 DEF IsRange
<1>8. c.root = root /\ c.annotated = FALSE /\ c.by = b
  BY <1>b
<1>9. c \in [by : Signers, root : RootHashes, annotated : BOOLEAN]
  BY <1>6, <1>b
<1>10. LedgerTypeOK'
  BY <1>1, <1>2, <1>9 DEF LedgerTypeOK
<1>11. Len(events)' <= MaxLedger /\ AlterationShows'
  BY <1>1 DEF LedgerInv, AlterationShows, Intact
<1>12. ASSUME altered' = {}, ~disturbed' PROVE Marks' /\ OneSigning' /\ Published'
  <2>1. Marks /\ OneSigning /\ Published /\ inflight = {}
    BY <1>12, <1>1 DEF LedgerInv
  <2>2. inflight' = {c}
    BY <2>1, <1>1
  <2>3. Marks'
    BY <2>1, <1>1 DEF Marks, Covers, IsRange
  <2>4. Published'
    BY <2>1, <1>1 DEF Published, IsRange
  <2>5. OneSigning'
    <3>2. \A i \in root.start..Len(events)' : events'[i].sig = Unsigned
      BY <1>0, <1>1, <1>3, <1>5
    <3> QED
      BY <2>2, <1>7, <3>2, <1>8 DEF OneSigning
  <2> QED
    BY <2>3, <2>4, <2>5
<1> QED
  BY <1>10, <1>11, <1>12 DEF LedgerInv

(* annotate_root changes nothing but signatures.                            *)
LEMMA AnnotateIs ==
  ASSUME LedgerTypeOK, NEW c \in inflight, annotate_root(c)
  PROVE  /\ LedgerTypeOK' /\ Len(events)' = Len(events)
         /\ \A i \in 1..Len(events) :
              /\ events'[i].content = events[i].content /\ events'[i].prev = events[i].prev
              /\ events'[i].hash = events[i].hash
              /\ events'[i].sig = IF i \in c.root.start..c.root.end /\ events[i].sig = Unsigned
                                    THEN c.root ELSE events[i].sig
<1> DEFINE new(i) == IF i \in c.root.start..c.root.end /\ events[i].sig = Unsigned
                       THEN [events[i] EXCEPT !.sig = c.root] ELSE events[i]
<1>0. Len(events) \in Nat /\ events \in Seq(EventType)
  BY DEF LedgerTypeOK, EventType
<1>1. events' = [i \in 1..Len(events) |-> new(i)]
      /\ inflight' = (inflight \ {c}) \cup {[c EXCEPT !.annotated = TRUE]}
      /\ UNCHANGED <<witness, altered, disturbed, signings>>
  BY DEF annotate_root
<1>2. c \in [by : Signers, root : RootHashes, annotated : BOOLEAN]
  BY DEF LedgerTypeOK
<1>3. ASSUME NEW i \in 1..Len(events)
      PROVE  /\ new(i) \in EventType
             /\ new(i).content = events[i].content /\ new(i).prev = events[i].prev
             /\ new(i).hash = events[i].hash
             /\ new(i).sig = IF i \in c.root.start..c.root.end /\ events[i].sig = Unsigned
                                    THEN c.root ELSE events[i].sig
  <2>1. events[i] \in EventType /\ c.root \in RootHashes
    BY <1>2, EventFields DEF EventType
  <2> QED
    BY <2>1 DEF EventType
<1> HIDE DEF new
<1>4. events' \in [1..Len(events) -> EventType]
  BY <1>1, <1>3
<1>5. events' \in Seq(EventType) /\ Len(events') = Len(events)
  BY <1>4, <1>0
<1>6. LedgerTypeOK'
  <2>1. [c EXCEPT !.annotated = TRUE] \in [by : Signers, root : RootHashes, annotated : BOOLEAN]
    BY <1>2
  <2> QED
    BY <2>1, <1>1, <1>5 DEF LedgerTypeOK, EventType
<1> QED
  BY <1>1, <1>3, <1>5, <1>6

LEMMA AnnotateKeeps ==
  ASSUME LedgerInv, NEW c \in inflight, annotate_root(c)
  PROVE  LedgerInv'
<1>0. LedgerTypeOK /\ Len(events) \in Nat
  BY DEF LedgerInv, LedgerTypeOK
<1>1. /\ ~c.annotated /\ inflight' = (inflight \ {c}) \cup {[c EXCEPT !.annotated = TRUE]}
      /\ UNCHANGED <<witness, altered, disturbed, signings>>
  BY DEF annotate_root
<1>2. /\ LedgerTypeOK' /\ Len(events)' = Len(events)
      /\ \A i \in 1..Len(events) :
           /\ events'[i].content = events[i].content /\ events'[i].prev = events[i].prev
           /\ events'[i].hash = events[i].hash
           /\ events'[i].sig = IF i \in c.root.start..c.root.end /\ events[i].sig = Unsigned
                                 THEN c.root ELSE events[i].sig
  BY <1>0, AnnotateIs
<1>3. AlterationShows'
  <2>1. ASSUME altered = {}, NEW i \in 1..Len(events) PROVE Intact(i)'
    <3>1. Intact(i)
      BY <2>1 DEF LedgerInv, AlterationShows
    <3>2. i # 1 => i - 1 \in 1..Len(events)
      BY <1>0
    <3> QED
      BY <3>1, <3>2, <1>2 DEF Intact, validate_event
  <2>2. ASSUME altered # {}
        PROVE  \E i \in 1..Len(events) : events'[i].hash # compute_event_hash(events'[i].prev, events'[i].content)
    <3>1. PICK i \in 1..Len(events) : events[i].hash # compute_event_hash(events[i].prev, events[i].content)
      BY <2>2 DEF LedgerInv, AlterationShows
    <3> QED
      BY <3>1, <1>2
  <2> QED
    BY <2>1, <2>2, <1>1, <1>2 DEF AlterationShows
<1>4. ASSUME altered' = {}, ~disturbed' PROVE Marks' /\ OneSigning' /\ Published'
  <2>1. Marks /\ OneSigning /\ Published
    BY <1>4, <1>1 DEF LedgerInv
  <2>2. PICK root : root = c.root
    OBVIOUS
  <2>3. PICK d : d = [c EXCEPT !.annotated = TRUE]
    OBVIOUS
  <2>4. inflight = {c} /\ inflight' = {d} /\ d.annotated = TRUE /\ d.root = root
    <3>1. c \in [by : Signers, root : RootHashes, annotated : BOOLEAN]
      BY <1>0 DEF LedgerTypeOK
    <3>2. inflight = {c}
      BY <2>1 DEF OneSigning
    <3> QED
      BY <3>1, <3>2, <1>1, <2>2, <2>3
  <2>5. /\ IsRange(root) /\ root # Unsigned /\ root.start \in Nat /\ root.end \in Nat
        /\ 1 <= root.start /\ root.start <= root.end /\ root.end <= Len(events)
        /\ \A i \in root.start..Len(events) : events[i].sig = Unsigned
    BY <2>1, <2>2, <1>0, <1>1, RangesAreSigned DEF OneSigning
  <2>6. \A i \in 1..Len(events) : events'[i].sig = IF i \in root.start..root.end THEN root ELSE events[i].sig
    BY <2>5, <2>2, <1>0, <1>2
  <2>7. ASSUME NEW g, IsRange(g) PROVE IsRange(g)'
    <3>1. g.end \in 1..Len(events)
      BY <2>7 DEF IsRange
    <3> QED
      BY <2>7, <3>1, <1>2 DEF IsRange
  <2>8. ASSUME NEW g, Covers(g), g \in witness PROVE Covers(g)'
    <3>1. IsRange(g) /\ \A j \in g.start..g.end : events[j].sig = g
      BY <2>8 DEF Covers
    <3>2. g # Unsigned /\ g.start \in Nat /\ g.end \in Nat /\ 1 <= g.start /\ g.end <= Len(events)
      BY <3>1, <1>0, RangesAreSigned
    <3>3. ASSUME NEW j \in g.start..g.end PROVE events'[j].sig = g
      <4>1. j \in 1..Len(events) /\ events[j].sig = g
        BY <3>1, <3>2, <1>0
      <4>2. j \notin root.start..Len(events)
        BY <4>1, <3>2, <2>5
      <4>3. j \notin root.start..root.end
        BY <4>1, <4>2, <2>5, <1>0
      <4> QED
        BY <4>1, <4>3, <2>6
    <3> QED
      BY <3>1, <3>3, <2>7, <2>8, <1>1 DEF Covers
  <2>9. Covers(root)'
    <3>1. \A j \in root.start..root.end : events'[j].sig = root
      BY <2>5, <2>6, <1>0
    <3> QED
      BY <3>1, <2>4, <2>5, <2>7 DEF Covers
  <2>10. Marks'
    <3> SUFFICES ASSUME NEW i \in 1..Len(events), events'[i].sig # Unsigned
                 PROVE  i \in events'[i].sig.start..events'[i].sig.end /\ Covers(events[i].sig)'
      BY <1>2 DEF Marks
    <3>1. CASE i \in root.start..root.end
      <4>1. events'[i].sig = root
        BY <3>1, <2>6
      <4> QED
        BY <4>1, <3>1, <2>9 DEF Covers, IsRange
    <3>2. CASE i \notin root.start..root.end
      <4>1. PICK g : g = events[i].sig
        OBVIOUS
      <4>2. events'[i].sig = g /\ g # Unsigned
        BY <4>1, <3>2, <2>6
      <4>3. i \in g.start..g.end /\ Covers(g)
        BY <4>1, <4>2, <2>1 DEF Marks
      <4>4. g \in witness
        BY <4>3, <2>4, <1>1 DEF Covers
      <4> QED
        BY <4>2, <4>3, <4>4, <2>8 DEF Covers, IsRange
    <3> QED
      BY <3>1, <3>2
  <2>11. OneSigning'
    <3>1. events'[root.start].sig = root
      BY <2>5, <2>6, <1>0
    <3> QED
      BY <3>1, <2>4, <2>5, <2>7 DEF OneSigning
  <2>12. Published'
    <3> SUFFICES ASSUME NEW v \in witness PROVE IsRange(v)' /\ events'[v.start].sig = v
      BY <1>1 DEF Published
    <3>1. IsRange(v) /\ events[v.start].sig = v
      BY <2>1 DEF Published
    <3>2. /\ v # Unsigned /\ v.start \in Nat /\ v.end \in Nat
          /\ 1 <= v.start /\ v.start <= v.end /\ v.end <= Len(events)
      BY <3>1, <1>0, RangesAreSigned
    <3>3. v.start \in 1..Len(events)
      BY <3>2, <1>0
    <3>4. v.start \notin root.start..root.end
      <4>1. v.start \notin root.start..Len(events)
        BY <3>1, <3>2, <2>5
      <4> QED
        BY <4>1, <3>3, <2>5, <1>0
    <3> QED
      BY <3>1, <3>3, <3>4, <2>6, <2>7
  <2> QED
    BY <2>10, <2>11, <2>12
<1> QED
  BY <1>1, <1>2, <1>3, <1>4 DEF LedgerInv

LEMMA PutKeeps ==
  ASSUME LedgerInv, NEW c \in inflight, put(c)
  PROVE  LedgerInv'
<1>0. LedgerTypeOK
  BY DEF LedgerInv
<1>1. /\ c.annotated
      /\ witness' = IF \E v \in witness : v.start = c.root.start /\ v.end = c.root.end
                      THEN witness ELSE witness \cup {c.root}
      /\ inflight' = inflight \ {c}
      /\ UNCHANGED <<events, altered, disturbed, signings>>
  BY DEF put
<1>2. LedgerTypeOK'
  <2>1. c.root \in RootHashes
    BY <1>0 DEF LedgerTypeOK
  <2> QED
    BY <1>0, <1>1, <2>1 DEF LedgerTypeOK
<1>3. Len(events)' <= MaxLedger /\ AlterationShows'
  BY <1>1 DEF LedgerInv, AlterationShows, Intact
<1>4. ASSUME altered' = {}, ~disturbed' PROVE Marks' /\ OneSigning' /\ Published'
  <2>1. Marks /\ OneSigning /\ Published
    BY <1>4, <1>1 DEF LedgerInv
  <2>2. inflight = {c} /\ inflight' = {} /\ IsRange(c.root) /\ events[c.root.start].sig = c.root
    BY <2>1, <1>1 DEF OneSigning
  <2>3. witness' = witness \cup {c.root}
    <3>1. ASSUME NEW v \in witness, v.start = c.root.start PROVE v = c.root
      BY <3>1, <2>1, <2>2 DEF Published
    <3> QED
      BY <3>1, <1>1
  <2>4. Marks'
    <3> SUFFICES ASSUME NEW i \in 1..Len(events), events[i].sig # Unsigned
                 PROVE  i \in events[i].sig.start..events[i].sig.end /\ Covers(events[i].sig)'
      BY <1>1 DEF Marks
    <3>1. i \in events[i].sig.start..events[i].sig.end /\ Covers(events[i].sig)
      BY <2>1 DEF Marks
    <3>2. events[i].sig \in witness'
      BY <3>1, <2>2, <2>3 DEF Covers
    <3> QED
      BY <3>1, <3>2, <1>1 DEF Covers, IsRange
  <2>5. OneSigning'
    BY <2>2 DEF OneSigning
  <2>6. Published'
    BY <2>1, <2>2, <2>3, <1>1 DEF Published, IsRange
  <2> QED
    BY <2>4, <2>5, <2>6
<1> QED
  BY <1>1, <1>2, <1>3, <1>4 DEF LedgerInv

(* An altered event no longer hashes to what it holds: the digest takes in  *)
(* the content, and no honest hash or link is as long as a forged one.      *)
LEMMA TamperKeeps ==
  ASSUME LedgerInv, NEW i \in 1..Len(events), NEW f \in {"payload", "prev_hash", "hash"},
         NEW x \in Contents, tamper(i, f, x)
  PROVE  LedgerInv'
<1>0. LedgerTypeOK /\ Len(events) \in Nat /\ events \in Seq(EventType) /\ Len(events) <= MaxLedger
      /\ MaxLedger \in Nat
  BY LedgerAssumption DEF LedgerInv, LedgerTypeOK, EventType
<1>1. PICK e : /\ e = CASE f = "payload"   -> [events[i] EXCEPT !.content = x]
                        [] f = "prev_hash" -> [events[i] EXCEPT !.prev = Forged(x)]
                        [] f = "hash"      -> [events[i] EXCEPT !.hash = Forged(x)]
               /\ events' = [events EXCEPT ![i] = e]
  BY DEF tamper
<1>2. altered = {} /\ altered' = {i} /\ events' # events /\ UNCHANGED <<inflight, witness, disturbed, signings>>
  BY DEF tamper
<1>3. Forged(x) \in Seq(Contents) /\ Len(Forged(x)) = MaxLedger + 1
  <2>1. Forged(x) \in [1..MaxLedger + 1 -> Contents]
    BY DEF Forged
  <2>2. MaxLedger + 1 \in Nat
    BY <1>0
  <2> QED
    BY <2>1, <2>2
<1>4. /\ events[i] \in EventType /\ events[i].content \in Contents
      /\ events[i].prev \in Seq(Contents) /\ events[i].hash \in Seq(Contents)
  BY <1>0, EventFields DEF EventType
<1>5. events[i].hash = Append(events[i].prev, events[i].content) /\ Len(events[i].hash) = i
  BY <1>2 DEF LedgerInv, AlterationShows, Intact, validate_event, compute_event_hash
<1>6. Len(events[i].prev) \in Nat /\ Len(events[i].prev) + 1 = i /\ i <= MaxLedger
  BY <1>0, <1>4, <1>5, AppendProperties
<1>7. e \in EventType /\ (e # events[i] => e.hash # Append(e.prev, e.content))
  <2>1. CASE f = "payload"
    <3>1. e = [events[i] EXCEPT !.content = x]
      BY <1>1, <2>1
    <3>2. e \in EventType /\ e.content = x /\ e.prev = events[i].prev /\ e.hash = events[i].hash
      BY <3>1, <1>4 DEF EventType
    <3>3. e # events[i] => x # events[i].content
      BY <3>1, <1>4 DEF EventType
    <3> QED
      BY <3>2, <3>3, <1>4, <1>5, AppendProperties
  <2>2. CASE f = "prev_hash"
    <3>1. e = [events[i] EXCEPT !.prev = Forged(x)]
      BY <1>1, <2>2
    <3>2. e \in EventType /\ e.prev = Forged(x) /\ e.content = events[i].content /\ e.hash = events[i].hash
      BY <3>1, <1>3, <1>4 DEF EventType, Hashes
    <3>3. Len(Append(e.prev, e.content)) = MaxLedger + 2
      <4>1. e.prev \in Seq(Contents) /\ e.content \in Contents /\ Len(e.prev) = MaxLedger + 1
        BY <3>2, <1>3, <1>4
      <4>2. Len(Append(e.prev, e.content)) = Len(e.prev) + 1
        BY <4>1, AppendProperties
      <4> QED
        BY <4>1, <4>2, <1>0
    <3> QED
      BY <3>2, <3>3, <1>5, <1>6, <1>0
  <2>3. CASE f = "hash"
    <3>1. e = [events[i] EXCEPT !.hash = Forged(x)]
      BY <1>1, <2>3
    <3>2. e \in EventType /\ e.hash = Forged(x) /\ e.content = events[i].content /\ e.prev = events[i].prev
      BY <3>1, <1>3, <1>4 DEF EventType, Hashes
    <3>3. Len(Append(e.prev, e.content)) = i
      BY <3>2, <1>4, <1>5
    <3> QED
      BY <3>2, <3>3, <1>3, <1>6, <1>0
  <2> QED
    BY <2>1, <2>2, <2>3
<1>8. e # events[i]
  <2>1. ASSUME e = events[i] PROVE FALSE
    <3>1. events' = [events EXCEPT ![i] = events[i]]
      BY <2>1, <1>1
    <3>2. events \in [1..Len(events) -> EventType]
      BY <1>0, LenProperties
    <3>3. events' = events
      BY <3>1, <3>2
    <3> QED
      BY <3>3, <1>2
  <2> QED
    BY <2>1
<1>9. events' \in Seq(EventType) /\ Len(events') = Len(events) /\ events'[i] = e
  <2>1. [events EXCEPT ![i] = e] \in Seq(EventType) /\ Len([events EXCEPT ![i] = e]) = Len(events)
    BY <1>0, <1>7, ExceptSeq
  <2>2. [events EXCEPT ![i] = e][i] = e
    BY <1>0, <1>7, ExceptSeq
  <2> QED
    BY <2>1, <2>2, <1>1
<1>10. LedgerTypeOK'
  BY <1>0, <1>2, <1>9 DEF LedgerTypeOK, EventType
<1>11. AlterationShows'
  BY <1>2, <1>7, <1>8, <1>9 DEF AlterationShows, compute_event_hash
<1> QED
  BY <1>0, <1>2, <1>9, <1>10, <1>11 DEF LedgerInv

LEMMA LedgerKeeps == LedgerInv /\ [LedgerNext]_lVars => LedgerInv'
<1> SUFFICES ASSUME LedgerInv, [LedgerNext]_lVars PROVE LedgerInv'
  OBVIOUS
<1>1. CASE \E x \in Contents : LedgerAppend(x)
  BY <1>1, LedgerAppendKeeps
<1>2. CASE \E b \in Signers : SignRange(b)
  BY <1>2, SignRangeKeeps
<1>3. CASE \E c \in inflight : annotate_root(c)
  BY <1>3, AnnotateKeeps
<1>4. CASE \E c \in inflight : put(c)
  BY <1>4, PutKeeps
<1>5. CASE \E c \in inflight : SignerDies(c)
  <2>1. LedgerTypeOK' /\ disturbed' /\ UNCHANGED <<events, altered>>
    BY <1>5 DEF SignerDies, LedgerInv, LedgerTypeOK
  <2> QED
    BY <2>1 DEF LedgerInv, AlterationShows, Intact
<1>6. CASE \E i \in 1..Len(events), f \in {"payload", "prev_hash", "hash"}, x \in Contents : tamper(i, f, x)
  BY <1>6, TamperKeeps
<1>7. CASE UNCHANGED lVars
  <2>1. UNCHANGED <<events, inflight, witness, altered, disturbed, signings>>
    BY <1>7 DEF lVars
  <2>2. LedgerTypeOK' /\ Len(events)' <= MaxLedger /\ AlterationShows'
    BY <2>1 DEF LedgerInv, LedgerTypeOK, AlterationShows, Intact
  <2>3. Marks => Marks'
    BY <2>1 DEF Marks, Covers, IsRange
  <2>4. OneSigning /\ Published => OneSigning' /\ Published'
    BY <2>1 DEF OneSigning, Published, IsRange
  <2> QED
    BY <2>1, <2>2, <2>3, <2>4 DEF LedgerInv
<1> QED
  BY <1>1, <1>2, <1>3, <1>4, <1>5, <1>6, <1>7 DEF LedgerNext

(* For any ledger, any contents and any number of signers, appends and      *)
(* signings: verify_chain never passes over an altered event, and passes an *)
(* untouched ledger whose signings ran to their end one at a time.          *)
THEOREM LedgerVerifiesHonestly == LedgerSpec => []VerificationIsHonest
BY LedgerStart, LedgerKeeps, LedgerIsHonest, PTL DEF LedgerSpec

----------------------------------------------------------------------------
(* The outbox *)

(* Rows that are about to be marked have been taken already: by every       *)
(* subscriber when a worker holds them as accepted, by every sink when a    *)
(* job has them to mark.                                                    *)
AboutToMark ==
  /\ \A w \in Workers : \A e \in pass[w].ok : Subscribers \subseteq got[e]
  /\ \A j \in Jobs : \A e \in marking[j] : Sinks \subseteq got[e]

OutboxInv == OutboxTypeOK /\ AboutToMark /\ RelayedMeansDelivered

(* The initial state: nothing is in the outbox. *)
LEMMA OutboxStart == OutboxInit => OutboxInv
<1> SUFFICES ASSUME OutboxInit PROVE OutboxInv
  OBVIOUS
<1>1. OutboxTypeOK
  BY DEF OutboxInit, OutboxTypeOK, Idle
<1>2. AboutToMark
  BY DEF OutboxInit, AboutToMark, Idle
<1>3. RelayedMeansDelivered
  BY DEF OutboxInit, RelayedMeansDelivered
<1> QED
  BY <1>1, <1>2, <1>3 DEF OutboxInv

(* emit_event and a claim: no row becomes relayed, no pass accepts a row. *)
LEMMA EmitInv ==
  ASSUME OutboxInv, NEW e \in Events, emit_event(e)
  PROVE  OutboxInv'
<1>1. OutboxTypeOK'
  BY DEF OutboxInv, OutboxTypeOK, emit_event
<1>2. AboutToMark'
  BY DEF OutboxInv, AboutToMark, emit_event
<1>3. RelayedMeansDelivered'
  BY DEF OutboxInv, OutboxTypeOK, RelayedMeansDelivered, emit_event
<1> QED
  BY <1>1, <1>2, <1>3 DEF OutboxInv

LEMMA ClaimInv ==
  ASSUME OutboxInv, NEW w \in Workers, Claim(w)
  PROVE  OutboxInv'
<1> DEFINE mine == FirstOf({e \in Waiting : row[e].attempts < MaxAttempts})
<1>1. mine \subseteq Events
  BY DEF FirstOf, Waiting
<1>2. pass' = [pass EXCEPT ![w].todo = mine] /\ UNCHANGED <<row, fetched, marking, got, deaths>>
  BY DEF Claim
<1> HIDE DEF mine
<1>3. OutboxTypeOK'
  BY <1>1, <1>2, SMTT(30) DEF OutboxInv, OutboxTypeOK
<1>4. \A v \in Workers : pass'[v].ok = pass[v].ok
  BY <1>2 DEF OutboxInv, OutboxTypeOK
<1>5. AboutToMark'
  BY <1>2, <1>4 DEF OutboxInv, AboutToMark
<1>6. RelayedMeansDelivered'
  BY <1>2 DEF OutboxInv, RelayedMeansDelivered
<1> QED
  BY <1>3, <1>5, <1>6 DEF OutboxInv

(* A delivery only adds to what an event's receivers have, and a worker     *)
(* accepts the row only when no subscriber has raised.                      *)
LEMMA OnEventInv ==
  ASSUME OutboxInv, NEW w \in Workers, NEW e \in Events, NEW A \in SUBSET Subscribers, on_event(w, e, A)
  PROVE  OutboxInv'
<1>1. /\ pass' = [pass EXCEPT ![w].todo = @ \ {e},
                              ![w].ok = IF Accepted(A) THEN @ \cup {e} ELSE @,
                              ![w].failed = IF Accepted(A) THEN @ ELSE @ \cup {e}]
      /\ got' = [got EXCEPT ![e] = @ \cup A]
      /\ UNCHANGED <<row, fetched, marking, deaths>>
  BY DEF on_event
<1>2. pass[w] \in [todo : SUBSET Events, ok : SUBSET Events, failed : SUBSET Events]
  BY DEF OutboxInv, OutboxTypeOK
<1>3. /\ \A v \in Workers : v # w => pass'[v] = pass[v]
      /\ pass'[w] = [todo |-> pass[w].todo \ {e},
                     ok |-> IF Accepted(A) THEN pass[w].ok \cup {e} ELSE pass[w].ok,
                     failed |-> IF Accepted(A) THEN pass[w].failed ELSE pass[w].failed \cup {e}]
  BY <1>1, <1>2 DEF OutboxInv, OutboxTypeOK
<1>4. \A f \in Events : got[f] \subseteq got'[f] /\ got'[e] = got[e] \cup A
  BY <1>1 DEF OutboxInv, OutboxTypeOK
<1>5. OutboxTypeOK'
  <2>1. pass' \in [Workers -> [todo : SUBSET Events, ok : SUBSET Events, failed : SUBSET Events]]
    <3>1. pass'[w] \in [todo : SUBSET Events, ok : SUBSET Events, failed : SUBSET Events]
      BY <1>2, <1>3
    <3> QED
      BY <1>1, <1>3, <3>1 DEF OutboxInv, OutboxTypeOK
  <2>2. got' \in [Events -> SUBSET (Subscribers \cup Sinks)]
    BY <1>1 DEF OutboxInv, OutboxTypeOK
  <2> QED
    BY <1>1, <2>1, <2>2 DEF OutboxInv, OutboxTypeOK
<1>6. AboutToMark'
  <2>1. ASSUME NEW v \in Workers, NEW f \in pass'[v].ok PROVE Subscribers \subseteq got'[f]
    <3>1. f \in Events
      BY <1>5, <2>1 DEF OutboxTypeOK
    <3>2. CASE f \in pass[v].ok
      BY <1>4, <3>1, <3>2 DEF OutboxInv, AboutToMark
    <3>3. CASE f \notin pass[v].ok
      <4>1. v = w /\ Accepted(A) /\ f = e
        BY <1>2, <1>3, <2>1, <3>3
      <4> QED
        BY <1>4, <4>1 DEF Accepted
    <3> QED
      BY <3>2, <3>3
  <2>2. ASSUME NEW j \in Jobs, NEW f \in marking'[j] PROVE Sinks \subseteq got'[f]
    BY <1>1, <1>4, <2>2 DEF OutboxInv, OutboxTypeOK, AboutToMark
  <2> QED
    BY <2>1, <2>2 DEF AboutToMark, Sinks
<1>7. RelayedMeansDelivered'
  BY <1>1, <1>4 DEF OutboxInv, RelayedMeansDelivered, Sinks
<1> QED
  BY <1>5, <1>6, <1>7 DEF OutboxInv

(* The commit of a worker marks only rows it holds as accepted. *)
LEMMA CommitInv ==
  ASSUME OutboxInv, NEW w \in Workers, Commit(w)
  PROVE  OutboxInv'
<1>1. /\ row' = [e \in Events |->
                  [state    |-> IF e \in pass[w].ok THEN "relayed" ELSE row[e].state,
                   attempts |-> row[e].attempts + IF e \in Held(w) THEN 1 ELSE 0]]
      /\ pass' = [pass EXCEPT ![w] = Idle]
      /\ UNCHANGED <<fetched, marking, got, deaths>>
  BY DEF Commit
<1>2. ASSUME NEW e \in Events
      PROVE  /\ row'[e] \in [state : {"absent", "waiting", "relayed"}, attempts : Nat]
             /\ row'[e].state = "relayed" => row[e].state = "relayed" \/ e \in pass[w].ok
  BY <1>1 DEF OutboxInv, OutboxTypeOK
<1>3. OutboxTypeOK'
  BY <1>1, <1>2 DEF OutboxInv, OutboxTypeOK, Idle
<1>4. AboutToMark'
  BY <1>1 DEF OutboxInv, OutboxTypeOK, AboutToMark, Idle
<1>5. RelayedMeansDelivered'
  BY <1>1, <1>2 DEF OutboxInv, AboutToMark, RelayedMeansDelivered
<1> QED
  BY <1>3, <1>4, <1>5 DEF OutboxInv

(* A worker or a job that dies marks nothing. *)
LEMMA DiesInv ==
  ASSUME OutboxInv,
         (\E w \in Workers : WorkerDies(w)) \/ (\E j \in Jobs : JobDies(j))
  PROVE  OutboxInv'
<1>1. /\ OutboxTypeOK'
      /\ row' = row /\ got' = got
      /\ \A w \in Workers : pass'[w].ok \subseteq pass[w].ok
      /\ \A j \in Jobs : marking'[j] \subseteq marking[j]
  <2>1. CASE \E w \in Workers : WorkerDies(w)
    BY <2>1 DEF OutboxInv, OutboxTypeOK, WorkerDies, Idle
  <2>2. CASE \E j \in Jobs : JobDies(j)
    BY <2>2 DEF OutboxInv, OutboxTypeOK, JobDies
  <2> QED
    BY <2>1, <2>2
<1>2. AboutToMark' /\ RelayedMeansDelivered'
  BY <1>1 DEF OutboxInv, AboutToMark, RelayedMeansDelivered
<1> QED
  BY <1>1, <1>2 DEF OutboxInv

(* The steps of a job: it marks a row only after every sink has taken it,   *)
(* although it holds no lock and may be late.                               *)
LEMMA JobInv ==
  ASSUME OutboxInv, NEW j \in Jobs,
         \/ fetch_unrelayed(j)
         \/ \E e \in Events : \/ \E k \in 0..NumSinks : handle(j, e, 1..k)
                              \/ mark_relayed(j, e)
  PROVE  OutboxInv'
<1>1. CASE fetch_unrelayed(j)
  <2>1. FirstOf(Waiting) \subseteq Events
    BY DEF FirstOf, Waiting
  <2>2. OutboxTypeOK'
    BY <1>1, <2>1 DEF OutboxInv, OutboxTypeOK, fetch_unrelayed
  <2>3. AboutToMark' /\ RelayedMeansDelivered'
    BY <1>1 DEF OutboxInv, AboutToMark, RelayedMeansDelivered, fetch_unrelayed
  <2> QED
    BY <2>2, <2>3 DEF OutboxInv
<1>2. CASE \E e \in Events : \E k \in 0..NumSinks : handle(j, e, 1..k)
  <2>1. PICK e \in Events, k \in 0..NumSinks : handle(j, e, 1..k)
    BY <1>2
  <2>2. /\ 1..k \subseteq Sinks
        /\ UNCHANGED <<row, pass, deaths>>
        /\ fetched' = [fetched EXCEPT ![j] = @ \ {e}]
        /\ marking' = [marking EXCEPT ![j] = IF 1..k = Sinks THEN {e} ELSE {}]
        /\ got' = [got EXCEPT ![e] = @ \cup (1..k)]
    BY <2>1, OutboxAssumption DEF handle, Sinks
  <2>3. \A f \in Events : got[f] \subseteq got'[f]
    BY <2>2 DEF OutboxInv, OutboxTypeOK
  <2>4. OutboxTypeOK'
    <3>1. got' \in [Events -> SUBSET (Subscribers \cup Sinks)]
      BY <2>2 DEF OutboxInv, OutboxTypeOK
    <3> QED
      BY <2>2, <3>1 DEF OutboxInv, OutboxTypeOK
  <2>5. ASSUME NEW w \in Workers, NEW f \in pass'[w].ok PROVE Subscribers \subseteq got'[f]
    BY <2>2, <2>3, <2>5 DEF OutboxInv, OutboxTypeOK, AboutToMark
  <2>6. ASSUME NEW i \in Jobs, NEW f \in marking'[i] PROVE Sinks \subseteq got'[f]
    <3>1. CASE i = j
      <4>1. f = e /\ 1..k = Sinks
        BY <2>2, <2>6, <3>1 DEF OutboxInv, OutboxTypeOK
      <4> QED
        BY <2>2, <4>1 DEF OutboxInv, OutboxTypeOK
    <3>2. CASE i # j
      BY <2>2, <2>3, <2>6, <3>2 DEF OutboxInv, OutboxTypeOK, AboutToMark
    <3> QED
      BY <3>1, <3>2
  <2>7. RelayedMeansDelivered'
    BY <2>2, <2>3 DEF OutboxInv, RelayedMeansDelivered, Sinks
  <2> QED
    BY <2>4, <2>5, <2>6, <2>7 DEF OutboxInv, AboutToMark, Sinks
<1>3. CASE \E e \in Events : mark_relayed(j, e)
  <2>1. PICK e \in Events : mark_relayed(j, e)
    BY <1>3
  <2>2. /\ e \in marking[j]
        /\ row' = [row EXCEPT ![e].state = "relayed"]
        /\ marking' = [marking EXCEPT ![j] = {}]
        /\ UNCHANGED <<pass, fetched, got, deaths>>
    BY <2>1 DEF mark_relayed
  <2>3. OutboxTypeOK'
    BY <2>2 DEF OutboxInv, OutboxTypeOK
  <2>4. AboutToMark'
    BY <2>2 DEF OutboxInv, OutboxTypeOK, AboutToMark
  <2>5. \A f \in Events : row'[f].state = "relayed" => row[f].state = "relayed" \/ f = e
    BY <2>2 DEF OutboxInv, OutboxTypeOK
  <2>6. RelayedMeansDelivered'
    BY <2>2, <2>5 DEF OutboxInv, AboutToMark, RelayedMeansDelivered
  <2> QED
    BY <2>3, <2>4, <2>6 DEF OutboxInv
<1> QED
  BY <1>1, <1>2, <1>3

LEMMA OutboxKeeps == OutboxInv /\ [OutboxNext]_oVars => OutboxInv'
<1> SUFFICES ASSUME OutboxInv, [OutboxNext]_oVars PROVE OutboxInv'
  OBVIOUS
<1>1. CASE \E e \in Events : emit_event(e)
  BY <1>1, EmitInv
<1>2. CASE \E w \in Workers : WorkerStep(w) \/ WorkerDies(w)
  <2>1. PICK w \in Workers : WorkerStep(w) \/ WorkerDies(w)
    BY <1>2
  <2>2. CASE Claim(w)
    BY <2>2, ClaimInv
  <2>3. CASE Commit(w)
    BY <2>3, CommitInv
  <2>4. CASE \E e \in Events, A \in SUBSET Subscribers : on_event(w, e, A)
    BY <2>4, OnEventInv
  <2>5. CASE WorkerDies(w)
    BY <2>5, DiesInv
  <2> QED
    BY <2>1, <2>2, <2>3, <2>4, <2>5 DEF WorkerStep
<1>3. CASE \E j \in Jobs : JobDies(j)
  BY <1>3, DiesInv
<1>4. CASE \E j \in Jobs : \/ fetch_unrelayed(j)
                           \/ \E e \in Events : \/ \E k \in 0..NumSinks : handle(j, e, 1..k)
                                                \/ mark_relayed(j, e)
  BY <1>4, JobInv
<1>5. CASE UNCHANGED oVars
  BY <1>5 DEF OutboxInv, OutboxTypeOK, AboutToMark, RelayedMeansDelivered, oVars
<1> QED
  BY <1>1, <1>2, <1>3, <1>4, <1>5 DEF OutboxNext

(* However many workers and jobs drain the outbox at once, and wherever     *)
(* they die, an event that is marked as relayed was taken by every          *)
(* subscriber of the agent lane or by every sink of the API lane.           *)
THEOREM RelayedIsDelivered == OutboxSpec => []RelayedMeansDelivered
<1>1. OutboxInv => RelayedMeansDelivered
  BY DEF OutboxInv
<1> QED
  BY <1>1, OutboxStart, OutboxKeeps, PTL DEF OutboxSpec
=============================================================================
