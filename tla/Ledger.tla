------------------------------- MODULE Ledger -------------------------------
(***************************************************************************)
(* The evidence ledger of the API lane (src/api/audit/service.py over the  *)
(* in-memory repository and witness): one hash chain, whose new part is    *)
(* signed from time to time, marked with the signature, and published to a *)
(* witness.  The three are separate calls, between which others may run    *)
(* and the process may stop.                                               *)
(*                                                                         *)
(* A hash is the sequence of payloads it covers; a signature is the root   *)
(* it signs (Ed25519 is deterministic), and unsigned is the empty range.   *)
(***************************************************************************)
EXTENDS Naturals, Sequences, FiniteSets, FiniteSetsExt

CONSTANTS
  Contents,    \* what an event may hold
  Signers,     \* processes that run sign_root
  MaxLedger,   \* bound: events
  MaxSignings  \* bound: calls of sign_root

ASSUME LedgerAssumption == MaxLedger \in Nat /\ MaxSignings \in Nat

VARIABLES
  events,     \* the ledger: content, prev_hash, hash, root_sig
  inflight,   \* calls of sign_root: the root they sign, and how far they are
  witness,    \* roots published
  altered,    \* history: events altered behind the service's back
  disturbed,  \* history: did a signing stop half way, or overlap with another?
  signings    \* calls of sign_root so far

lVars == <<events, inflight, witness, altered, disturbed, signings>>

GENESIS_PREV_HASH == <<>>

compute_event_hash(prev, content) == Append(prev, content)

compute_root_hash(s, t, last) == [start |-> s, end |-> t, last |-> last, cardinality |-> t + 1 - s]

Unsigned == compute_root_hash(1, 0, GENESIS_PREV_HASH)

Hashes == Seq(Contents)
RootHashes == [start : Nat, end : Nat, last : Hashes, cardinality : Nat]

LedgerTypeOK ==
  /\ events \in Seq([content : Contents, prev : Hashes, hash : Hashes, sig : RootHashes])
  /\ inflight \subseteq [by : Signers, root : RootHashes, annotated : BOOLEAN]
  /\ witness \subseteq RootHashes
  /\ altered \subseteq Nat
  /\ disturbed \in BOOLEAN
  /\ signings \in Nat

(* A new event, not yet signed. *)
AuditEvent(prev, x) ==
  [content |-> x, prev |-> prev, hash |-> compute_event_hash(prev, x), sig |-> Unsigned]

LedgerInit ==
  /\ events = <<>>
  /\ inflight = {}
  /\ witness = {}
  /\ altered = {}
  /\ disturbed = FALSE
  /\ signings = 0

(* append computes the hash and appends under one lock. *)
LedgerAppend(x) ==
  LET prev == IF events = <<>> THEN GENESIS_PREV_HASH ELSE events[Len(events)].hash IN
  /\ Len(events) < MaxLedger
  /\ events' = Append(events, AuditEvent(prev, x))
  /\ UNCHANGED <<inflight, witness, altered, disturbed, signings>>

----------------------------------------------------------------------------
(* Validation *)

(* validate_event: the link to what comes before, and the hash. *)
validate_event(e, prev) == e.prev = prev /\ e.hash = compute_event_hash(e.prev, e.content)

(* validate_chain over events s..t, the first of which is to link to prev. *)
validate_chain(s, t, prev) ==
  \A i \in s..t : validate_event(events[i], IF i = s THEN prev ELSE events[i - 1].hash)

(* Maximal stretches of events with one signature. *)
Stretches ==
  {r \in (1..Len(events)) \X (1..Len(events)) :
     /\ r[1] <= r[2]
     /\ \A i \in r[1]..r[2] : events[i].sig = events[r[1]].sig /\ events[i].sig # Unsigned
     /\ r[1] > 1 => events[r[1] - 1].sig # events[r[1]].sig
     /\ r[2] < Len(events) => events[r[2] + 1].sig # events[r[1]].sig}

(* verify_chain over the whole ledger: the chain, then each signature       *)
(* against the stretch that carries it and against the witness.             *)
verify_chain ==
  /\ validate_chain(1, Len(events), GENESIS_PREV_HASH)
  /\ \A r \in Stretches :
       /\ events[r[1]].sig = compute_root_hash(r[1], r[2], events[r[2]].hash)
       /\ events[r[1]].sig \in witness

----------------------------------------------------------------------------
(* sign_root *)

SignedSeqs == {i \in 1..Len(events) : events[i].sig # Unsigned}

(* Mutant: the range starts with the last event already signed. *)
FirstToSignAgain == Max(SignedSeqs \cup {1})

(* The range starts after the last event that carries a signature. *)
FirstToSign == Max(SignedSeqs \cup {0}) + 1

(* The range is read, validated (taking the first link on trust) and        *)
(* signed; an empty or broken one is an error and changes nothing.  An      *)
(* explicit seq_start or seq_end is left out: nothing but tests passes one. *)
SignRange(b) ==
  LET s == FirstToSign
      t == Len(events)
  IN
  /\ signings < MaxSignings
  /\ \A c \in inflight : c.by # b
  /\ s <= t /\ validate_chain(s, t, events[s].prev)
  /\ inflight' = inflight \cup {[by |-> b, root |-> compute_root_hash(s, t, events[t].hash), annotated |-> FALSE]}
  /\ disturbed' = (disturbed \/ inflight # {})
  /\ signings' = signings + 1
  /\ UNCHANGED <<events, witness, altered>>

(* annotate_root: only events without a signature get this one. *)
annotate_root(c) ==
  /\ ~c.annotated
  /\ events' = [i \in 1..Len(events) |->
                  IF i \in c.root.start..c.root.end /\ events[i].sig = Unsigned
                    THEN [events[i] EXCEPT !.sig = c.root] ELSE events[i]]
  /\ inflight' = (inflight \ {c}) \cup {[c EXCEPT !.annotated = TRUE]}
  /\ UNCHANGED <<witness, altered, disturbed, signings>>

(* put refuses a range that is already published. *)
put(c) ==
  /\ c.annotated
  /\ witness' = IF \E v \in witness : v.start = c.root.start /\ v.end = c.root.end
                  THEN witness ELSE witness \cup {c.root}
  /\ inflight' = inflight \ {c}
  /\ UNCHANGED <<events, altered, disturbed, signings>>

(* The process stops in the middle of a signing. *)
SignerDies(c) ==
  /\ inflight' = inflight \ {c}
  /\ disturbed' = TRUE
  /\ UNCHANGED <<events, witness, altered, signings>>

(* A hash that no honest ledger of this size has. *)
Forged(x) == [i \in 1..MaxLedger + 1 |-> x]

(* tamper: a stored event's content, or one of its hashes, is replaced. *)
tamper(i, field, x) ==
  /\ altered = {}
  /\ events' = [events EXCEPT ![i] = CASE field = "payload"   -> [@ EXCEPT !.content = x]
                                       [] field = "prev_hash" -> [@ EXCEPT !.prev = Forged(x)]
                                       [] field = "hash"      -> [@ EXCEPT !.hash = Forged(x)]]
  /\ events' # events
  /\ altered' = {i}
  /\ UNCHANGED <<inflight, witness, disturbed, signings>>

LedgerNext ==
  \/ \E x \in Contents : LedgerAppend(x)
  \/ \E b \in Signers : SignRange(b)
  \/ \E c \in inflight : annotate_root(c) \/ put(c) \/ SignerDies(c)
  \/ \E i \in 1..Len(events), f \in {"payload", "prev_hash", "hash"}, x \in Contents : tamper(i, f, x)

LedgerSpec == LedgerInit /\ [][LedgerNext]_lVars

----------------------------------------------------------------------------
(* Properties *)

(* Verification says what happened: it never passes over an altered event,  *)
(* wherever the alteration falls between signings and appends; and it       *)
(* passes an honest ledger whose signings have run to their end one at a    *)
(* time, so that each signature covers exactly the events that carry it.    *)
VerificationIsHonest ==
  /\ altered # {} => ~verify_chain
  /\ altered = {} /\ ~disturbed /\ inflight = {} => verify_chain
=============================================================================
