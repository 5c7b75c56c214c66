----------------------------- MODULE AuditTrail -----------------------------
(***************************************************************************)
(* The evidence chains of the agent lane (src/agent/audit.py): one hash    *)
(* chain per mandate, checkpoints over all of them, and the auditor's      *)
(* replay, each running beside the others on its own connection.           *)
(*                                                                         *)
(* A digest is the sequence of payloads it was computed over, so that two  *)
(* digests are equal when the hashed contents are.  A root is the set of   *)
(* chains with their heads.                                                *)
(***************************************************************************)
EXTENDS Naturals, Sequences, FiniteSets

CONSTANTS
  ChainKeys,   \* partitions: mandates, agents and "system"
  Writers,     \* connections that append
  Payloads,    \* contents of an event
  MaxEvents,   \* bound: events
  MaxSigned,   \* bound: checkpoints
  MaxTampers   \* bound: alterations behind the program's back

ASSUME AuditAssumption == MaxEvents \in Nat /\ MaxSigned \in Nat /\ MaxTampers \in Nat

VARIABLES
  chain,    \* chains: exists, head_hash, length
  log,      \* audit_events of each chain, in order of chain_seq
  writing,  \* appends in flight: the chain they have locked, the head they have read
  signing,  \* is a checkpoint between its two reads?
  signed,   \* checkpoints: the root and, as history, the events it came after
  auditor,  \* verify_checkpoint in progress, and its last verdict
  tampers,  \* history: what was altered, and how many checkpoints there were
  appended  \* history: events committed

aVars == <<chain, log, writing, signing, signed, auditor, tampers, appended>>

GENESIS == <<>>

_digest(prev, payload) == Append(prev, payload)

NoChain == [exists |-> FALSE, head |-> GENESIS, length |-> 0]

NoAuditor == [pc |-> "idle", nth |-> 0, left |-> {}, key |-> {}, end |-> GENESIS,
              sound |-> TRUE, tampers |-> {}, appended |-> 0, raced |-> FALSE, verdict |-> "none"]

Roots == SUBSET (ChainKeys \X Seq(Payloads))

AuditTypeOK ==
  /\ chain \in [ChainKeys -> [exists : BOOLEAN, head : Seq(Payloads), length : Nat]]
  /\ log \in [ChainKeys -> Seq([payload : Payloads, prev : Seq(Payloads), hash : Seq(Payloads)])]
  /\ writing \subseteq [by : Writers, key : ChainKeys, prev : Seq(Payloads), seq : Nat]
  /\ signing \in BOOLEAN
  /\ signed \in Seq([root : Roots, upto : Nat])
  /\ auditor.pc \in {"idle", "rows", "head", "root"}
  /\ auditor.verdict \in {"none", "valid", "broken", "changed"}
  /\ tampers \subseteq [kind : {"edit", "rewrite"}, signed : Nat]
  /\ appended \in Nat

AuditInit ==
  /\ chain = [c \in ChainKeys |-> NoChain]
  /\ log = [c \in ChainKeys |-> <<>>]
  /\ writing = {}
  /\ signing = FALSE
  /\ signed = <<>>
  /\ auditor = NoAuditor
  /\ tampers = {}
  /\ appended = 0

----------------------------------------------------------------------------
(* append *)

LockedChain(c) == \E w \in writing : w.key = c

(* The chain row is made if needed and locked, and its head read. *)
LockHead(b, c) ==
  /\ \A w \in writing : w.by # b
  /\ ~LockedChain(c)
  /\ appended + Cardinality(writing) < MaxEvents
  /\ writing' = writing \cup {[by |-> b, key |-> c, prev |-> chain[c].head, seq |-> chain[c].length + 1]}
  /\ UNCHANGED <<chain, log, signing, signed, auditor, tampers, appended>>

(* The event, the new head and the outbox row commit together; a second     *)
(* event with the same chain_seq would break the unique key.                *)
append(w, p) ==
  LET hash == _digest(w.prev, p) IN
  /\ w.seq = Len(log[w.key]) + 1
  /\ log' = [log EXCEPT ![w.key] = Append(@, [payload |-> p, prev |-> w.prev, hash |-> hash])]
  /\ chain' = [chain EXCEPT ![w.key] = [exists |-> TRUE, head |-> hash, length |-> w.seq]]
  /\ writing' = writing \ {w}
  /\ appended' = appended + 1
  /\ UNCHANGED <<signing, signed, auditor, tampers>>

RollbackAppend(w) ==
  /\ writing' = writing \ {w}
  /\ UNCHANGED <<chain, log, signing, signed, auditor, tampers, appended>>

----------------------------------------------------------------------------
(* checkpoint *)

compute_root == {<<c, chain[c].head>> : c \in {k \in ChainKeys : chain[k].exists}}

(* The heads are read first, the root (what is signed) after them. *)
ReadHeads ==
  /\ ~signing /\ Len(signed) < MaxSigned
  /\ signing' = TRUE
  /\ UNCHANGED <<chain, log, writing, signed, auditor, tampers, appended>>

checkpoint ==
  /\ signing
  /\ signed' = Append(signed, [root |-> compute_root, upto |-> appended])
  /\ signing' = FALSE
  /\ UNCHANGED <<chain, log, writing, auditor, tampers, appended>>

----------------------------------------------------------------------------
(* Alterations, which the database's triggers refuse to the program *)

(* One event is edited. *)
Edit(c, i, p) ==
  /\ i \in 1..Len(log[c]) /\ log[c][i].payload # p
  /\ Cardinality(tampers) < MaxTampers
  /\ log' = [log EXCEPT ![c][i].payload = p]
  /\ tampers' = tampers \cup {[kind |-> "edit", signed |-> Len(signed)]}
  /\ UNCHANGED <<chain, writing, signing, signed, auditor, appended>>

(* The last event is replaced and its hash and the head computed again. *)
Rewrite(c, p) ==
  LET n == Len(log[c])
      hash == _digest(log[c][n].prev, p)
  IN
  /\ n > 0 /\ log[c][n].payload # p /\ ~LockedChain(c)
  /\ Cardinality(tampers) < MaxTampers
  /\ log' = [log EXCEPT ![c][n].payload = p, ![c][n].hash = hash]
  /\ chain' = [chain EXCEPT ![c].head = hash]
  /\ tampers' = tampers \cup {[kind |-> "rewrite", signed |-> Len(signed)]}
  /\ UNCHANGED <<writing, signing, signed, auditor, appended>>

----------------------------------------------------------------------------
(* verify_checkpoint *)

(* The latest checkpoint, then the list of chains. *)
AuditBegin ==
  /\ auditor.pc = "idle"
  /\ signed # <<>>
  /\ auditor' = [NoAuditor EXCEPT !.pc = "rows", !.nth = Len(signed),
                   !.left = {c \in ChainKeys : chain[c].exists},
                   !.tampers = tampers, !.appended = appended]
  /\ UNCHANGED <<chain, log, writing, signing, signed, tampers, appended>>

(* Mutant: nobody replays the events. *)
ReplaysUnread(events) == TRUE

(* verify_chain over the rows it has read. *)
Replays(events) ==
  \A i \in 1..Len(events) :
    /\ events[i].prev = IF i = 1 THEN GENESIS ELSE events[i - 1].hash
    /\ events[i].hash = _digest(events[i].prev, events[i].payload)

LastHash(events) == IF events = <<>> THEN GENESIS ELSE events[Len(events)].hash

(* The rows are read, and the head in a query of its own after them: an     *)
(* append that commits in between looks like a broken chain.                *)
VerifyRows(c) ==
  /\ auditor.pc = "rows" /\ c \in auditor.left
  /\ auditor' = [auditor EXCEPT !.pc = "head", !.left = @ \ {c}, !.key = {c},
                   !.end = LastHash(log[c]), !.sound = @ /\ Replays(log[c])]
  /\ UNCHANGED <<chain, log, writing, signing, signed, tampers, appended>>

VerifyHead(c) ==
  /\ auditor.pc = "head" /\ auditor.key = {c}
  /\ auditor' = [auditor EXCEPT !.pc = "rows", !.sound = @ /\ auditor.end = chain[c].head]
  /\ UNCHANGED <<chain, log, writing, signing, signed, tampers, appended>>

verify_checkpoint ==
  /\ auditor.pc = "rows" /\ auditor.left = {}
  /\ auditor' = [auditor EXCEPT !.pc = "idle",
                   !.raced = appended # auditor.appended \/ tampers # auditor.tampers,
                   !.verdict = IF ~auditor.sound THEN "broken"
                               ELSE IF compute_root # signed[auditor.nth].root THEN "changed" ELSE "valid"]
  /\ UNCHANGED <<chain, log, writing, signing, signed, tampers, appended>>

AuditNext ==
  \/ \E b \in Writers, c \in ChainKeys : LockHead(b, c)
  \/ \E w \in writing : RollbackAppend(w) \/ \E p \in Payloads : append(w, p)
  \/ ReadHeads \/ checkpoint
  \/ \E c \in ChainKeys, p \in Payloads :
       \/ Rewrite(c, p)
       \/ \E i \in 1..MaxEvents : Edit(c, i, p)
  \/ AuditBegin \/ verify_checkpoint
  \/ \E c \in ChainKeys : VerifyRows(c) \/ VerifyHead(c)

AuditSpec == AuditInit /\ [][AuditNext]_aVars

----------------------------------------------------------------------------
(* Properties *)

(* The auditor's verdict is right.  "Valid" means that nothing had been     *)
(* altered when the audit began, save by someone who had recomputed the     *)
(* hashes before the latest checkpoint was signed; a broken chain means an  *)
(* alteration, and a changed root an alteration or an append since it was   *)
(* signed, unless something was committed while the audit was running.      *)
VerdictIsRight ==
  LET a == auditor IN
  /\ a.verdict = "valid" => \A t \in a.tampers : t.kind = "rewrite" /\ t.signed < a.nth
  /\ a.verdict = "broken" => a.raced \/ a.tampers # {}
  /\ a.verdict = "changed" => a.raced \/ a.tampers # {} \/ signed[a.nth].upto < a.appended
=============================================================================
