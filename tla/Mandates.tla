------------------------------ MODULE Mandates ------------------------------
(***************************************************************************)
(* The issuer of mandates in the API lane: passkey registration, creation, *)
(* activation and revocation (src/api/routers/mandates.py over             *)
(* repository.py, services/passkey.py and services/state_machine.py).      *)
(*                                                                         *)
(* One user with one authenticator and one mandate.  A request is one      *)
(* database transaction that ends in a commit or, on any HTTPException, in *)
(* a rollback; a row it has updated is locked until then.  The challenge   *)
(* of a mandate is the hash of its claims: for one purpose there is one    *)
(* value, and (challenge, purpose) is the primary key.                     *)
(*                                                                         *)
(* The agent's kernel writes the same mandates table and does not go       *)
(* through these transitions (agent/kernel.py, settle): that writer is in  *)
(* module AgentKernel (NeverRevived), not here.                            *)
(***************************************************************************)
EXTENDS Naturals, FiniteSetsExt

CONSTANTS
  Gestures,   \* requests that present a passkey assertion
  Tokens,     \* payment tokens the rail may have issued
  Moves,      \* statuses the mandate is moved to without a gesture
  None

ASSUME MandatesAssumption ==
  /\ None \notin Tokens /\ None \notin {"draft", "active", "suspended", "revoked", "expired", "exhausted"}
  /\ None \notin {"open", "claimed", "consumed", "deleted"}
  /\ Moves \subseteq {"active", "suspended", "expired", "exhausted"}

VARIABLES
  mandate,      \* the mandates row: status and the token its claims name
  instrument,   \* payment_instruments: status of that token
  challenge,    \* webauthn_challenges, by purpose
  stale,        \* purposes whose challenge is past its time to live
  counts,       \* does this authenticator count its signatures?
  asserted,     \* by purpose, the counter in the assertion the user has made
  credential,   \* sign_count of the registered passkey
  req,          \* the requests in flight
  changed,      \* history: transitions made by each purpose
  outbox        \* types of the events committed so far

issuer == <<mandate, instrument, challenge, stale, counts, asserted, credential, req, changed, outbox>>

Purposes == {"register", "activate", "revoke"}

(* ALLOWED_TRANSITIONS: where each status may come from. *)
sources_for ==
  [draft     |-> {},
   active    |-> {"draft", "suspended"},
   suspended |-> {"active"},
   revoked   |-> {"active", "suspended"},
   expired   |-> {"active", "suspended"},
   exhausted |-> {"active"}]

Statuses == DOMAIN sources_for

(* repository.transition: one UPDATE guarded by the status it comes from. *)
CanMove(s) == mandate.status \in sources_for[s]

(* The mandates row before create_mandate: there is none. *)
MandateRow == [status |-> None, token |-> None]

IdleRequest == [pc |-> "idle", purpose |-> None]

MandatesTypeOK ==
  /\ mandate \in [status : Statuses \cup {None}, token : Tokens \cup {None}]
  /\ instrument \in {None, "active", "deleted"}
  /\ challenge \in [Purposes -> {None, "open", "claimed", "consumed"}]
  /\ stale \subseteq Purposes
  /\ asserted \in [Purposes -> Nat \cup {None}]
  /\ credential \in Nat \cup {None}
  /\ req \in [Gestures -> [pc : {"idle", "verified", "delete", "mark"}, purpose : Purposes \cup {None}]]
  /\ changed \in [Purposes -> Nat]

MandatesInit ==
  /\ mandate = MandateRow
  /\ instrument = None
  /\ challenge = [p \in Purposes |-> None]
  /\ stale = {}
  /\ counts \in BOOLEAN
  /\ asserted = [p \in Purposes |-> None]
  /\ credential = None
  /\ req = [g \in Gestures |-> IdleRequest]
  /\ changed = [p \in Purposes |-> 0]
  /\ outbox = {}

----------------------------------------------------------------------------
(* The user and the clock *)

(* The authenticator signs an open challenge; its counter runs over all its *)
(* signatures, or is always zero.                                           *)
Sign(p) ==
  /\ challenge[p] = "open" /\ asserted[p] = None
  /\ LET made == {asserted[q] : q \in {r \in Purposes : asserted[r] # None}} IN
       asserted' = [asserted EXCEPT ![p] = IF counts THEN 1 + Max(made \cup {0}) ELSE 0]
  /\ UNCHANGED <<mandate, instrument, challenge, stale, counts, credential, req, changed, outbox>>

(* challenge_ttl_seconds pass. *)
Age(p) ==
  /\ challenge[p] \in {"open", "claimed"} /\ p \notin stale
  /\ stale' = stale \cup {p}
  /\ UNCHANGED <<mandate, instrument, challenge, counts, asserted, credential, req, changed, outbox>>

----------------------------------------------------------------------------
(* Passkey registration (bound: the user registers one passkey, and asks    *)
(* for another challenge when the last one is past its time)                *)

store_challenge(p) == challenge' = [challenge EXCEPT ![p] = "open"]

registration_options == challenge["register"] = None \/ "register" \in stale

begin_registration ==
  /\ credential = None
  /\ registration_options
  /\ store_challenge("register")
  /\ asserted' = [asserted EXCEPT !["register"] = None]
  /\ stale' = stale \ {"register"}
  /\ UNCHANGED <<mandate, instrument, counts, credential, req, changed, outbox>>

verify_registration == "register" \notin stale /\ asserted["register"] # None

store_credential == credential' = asserted["register"]

complete_registration ==
  /\ challenge["register"] = "open"
  /\ verify_registration
  /\ challenge' = [challenge EXCEPT !["register"] = "consumed"]
  /\ store_credential
  /\ UNCHANGED <<mandate, instrument, stale, counts, asserted, req, changed, outbox>>

----------------------------------------------------------------------------
(* The mandate *)

(* The claims, in the final form whose hash the holder will sign; what they *)
(* say besides the payment token does not matter here.                      *)
build_claims(t) == [status |-> "draft", token |-> t]

(* The ceremony needs a registered passkey, and its challenge is the hash   *)
(* of the claims: the same value every time for one purpose, so that asking *)
(* for it twice meets the primary key and fails.                            *)
mandate_options(p) == credential # None /\ challenge[p] = None

Emit(types) == outbox' = outbox \cup types

(* Without a passkey the request is refused and the draft rolled back.  The *)
(* enrolment at the rail is part of the request, see module Merchant.       *)
create_mandate(t) ==
  /\ mandate.status = None
  /\ mandate_options("activate")
  /\ mandate' = build_claims(t)
  /\ store_challenge("activate")
  /\ Emit({"mandate.created"})
  /\ UNCHANGED <<instrument, stale, counts, asserted, credential, req, changed>>

begin_revoke ==
  /\ mandate.status # None
  /\ mandate_options("revoke")
  /\ store_challenge("revoke")
  /\ UNCHANGED <<mandate, instrument, stale, counts, asserted, credential, req, changed, outbox>>

(* verify_assertion: fresh, and with a counter that advances if it counts. *)
Verifies(p) ==
  /\ p \notin stale
  /\ credential > 0 => asserted[p] > credential

(* Mutant: a consumed challenge is accepted again. *)
CanConsumeAgain(p) == challenge[p] \in {"open", "consumed"}

(* consume_challenge: the row must not be consumed, nor claimed by another  *)
(* transaction (which blocks this one until it ends).                       *)
CanConsume(p) == challenge[p] = "open"

(* _verify_gesture; when it fails the transaction rolls back at once. *)
_verify_gesture(g, p) ==
  /\ req[g].pc = "idle"
  /\ mandate.status # None
  /\ asserted[p] # None
  /\ CanConsume(p)
  /\ Verifies(p)
  /\ challenge' = [challenge EXCEPT ![p] = "claimed"]
  /\ req' = [req EXCEPT ![g] = [pc |-> "verified", purpose |-> p]]
  /\ UNCHANGED <<mandate, instrument, stale, counts, asserted, credential, changed, outbox>>

(* Writes the counter this request has verified, whatever is there by now. *)
advance_sign_count(p) == credential' = asserted[p]

(* The transition and everything else of the transaction, and its commit. *)
Transition(g, p, s) ==
  /\ req[g] = [pc |-> "verified", purpose |-> p]
  /\ CanMove(s)
  /\ mandate' = [mandate EXCEPT !.status = s]
  /\ challenge' = [challenge EXCEPT ![p] = "consumed"]
  /\ advance_sign_count(p)
  /\ changed' = [changed EXCEPT ![p] = @ + 1]
  /\ UNCHANGED <<stale, counts, asserted>>

link_instrument ==
  instrument' = IF mandate.token # None /\ instrument = None THEN "active" ELSE instrument

(* Only now are the claims signed: from here on there is a presentation.    *)
assert_passkey(g) ==
  /\ Transition(g, "activate", "active")
  /\ link_instrument
  /\ Emit({"mandate.activated"} \cup IF mandate.token # None THEN {"payment_instrument.linked"} ELSE {})
  /\ req' = [req EXCEPT ![g] = IdleRequest]

(* The token is deleted at the rail after the commit. *)
revoke_mandate(g) ==
  /\ Transition(g, "revoke", "revoked")
  /\ Emit({"mandate.revoked"})
  /\ req' = [req EXCEPT ![g].pc = IF instrument = "active" THEN "delete" ELSE "idle",
                        ![g].purpose = None]
  /\ UNCHANGED instrument

mark_instrument_deleted(g) ==
  /\ req[g].pc = "mark"
  /\ instrument' = "deleted"
  /\ req' = [req EXCEPT ![g] = IdleRequest]
  /\ UNCHANGED <<mandate, challenge, stale, counts, asserted, credential, changed, outbox>>

(* A rail that does not answer is logged; nothing tries again. *)
GiveUpDelete(g) ==
  /\ req[g].pc \in {"delete", "mark"}
  /\ req' = [req EXCEPT ![g] = IdleRequest]
  /\ UNCHANGED <<mandate, instrument, challenge, stale, counts, asserted, credential, changed, outbox>>

(* A refused transition or a dead process: the challenge is free again. *)
Rollback(g) ==
  /\ req[g].pc = "verified"
  /\ challenge' = [challenge EXCEPT ![req[g].purpose] = "open"]
  /\ req' = [req EXCEPT ![g] = IdleRequest]
  /\ UNCHANGED <<mandate, instrument, stale, counts, asserted, credential, changed, outbox>>

(* A transition nobody has to make a gesture for. *)
Move(s) ==
  /\ CanMove(s) /\ mandate.status # "draft"
  /\ mandate' = [mandate EXCEPT !.status = s]
  /\ UNCHANGED <<instrument, challenge, stale, counts, asserted, credential, req, changed, outbox>>

(* A signed presentation of the mandate exists, and verifies for good. *)
Presentable == changed["activate"] > 0

(* What anyone who asks is told about the mandate. *)
get_mandate_by_jti == mandate.status

MandatesNext ==
  \/ \E p \in Purposes : Sign(p) \/ Age(p)
  \/ begin_registration \/ complete_registration \/ begin_revoke
  \/ \E g \in Gestures :
       \/ \E p \in {"activate", "revoke"} : _verify_gesture(g, p)
       \/ assert_passkey(g) \/ revoke_mandate(g) \/ mark_instrument_deleted(g)
       \/ GiveUpDelete(g) \/ Rollback(g)
  \/ \E s \in Moves : Move(s)

----------------------------------------------------------------------------
(* Properties *)

(* One gesture changes the mandate once: an assertion presented twice, by   *)
(* two requests at the same time or long after (to reactivate a mandate     *)
(* that was suspended, say), never makes a second transition, and what was  *)
(* signed to activate never revokes.                                        *)
OneGestureOneChange ==
  /\ \A p \in Purposes : changed[p] <= 1
  /\ mandate.status = "revoked" => changed["revoke"] = 1
  /\ mandate.status \notin {None, "draft"} => changed["activate"] = 1
=============================================================================
