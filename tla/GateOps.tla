------------------------------ MODULE GateOps ------------------------------
(***************************************************************************)
(* The operations of Rule9Gate (crates/gooseclaw/src/gate.rs) as functions *)
(* on a gate record, so that a module may hold one gate, a sequence of     *)
(* them (a core that restarts) or several at once (one per caller).        *)
(*                                                                         *)
(* Data abstraction.  An action stands for its SHA-256 hash, a public key  *)
(* and a nonce for their 32 bytes.  A signature is the message it is a     *)
(* valid signature of, together with the key that made it; Garbled is any  *)
(* 64 bytes that verify for no message.                                    *)
(***************************************************************************)
EXTENDS Integers, Sequences

CONSTANTS
  Pubkeys,             \* the 32-byte values an approval may name as its key
  AllowlistedSigners,  \* the set Rule9Gate::new was given
  DecodableKeys,       \* those VerifyingKey::from_bytes accepts
  Nonces,
  Actions,
  Times,               \* the Unix times (seconds) the clock and expiries take
  Garbled,             \* a signature that verifies for nothing
  NoSigner             \* AuditRecord::signer of a denial

ASSUME KeysAssumption ==
  /\ AllowlistedSigners \subseteq Pubkeys
  /\ DecodableKeys \subseteq Pubkeys

ASSUME TimesAssumption == Times \subseteq Nat

\* What a human's signing device signs, with the key it signs with.
SignedMessage ==
  [signer : DecodableKeys, action : Actions, nonce : Nonces,
   expires_at_unix : Times]

ASSUME GarbledAssumption == Garbled \notin SignedMessage

\* The approvals that can be presented once the messages S have been signed:
\* the signature was made by somebody, or is garbled; the other three fields
\* are whatever the presenter writes beside it.
ApprovalsOver(S) ==
  [pubkey : Pubkeys, nonce : Nonces, expires_at_unix : Times,
   signature : S \cup {Garbled}]

AuditRecord ==
  [at_unix : Times, action : Actions, decision : {"Approved", "Denied"},
   signer : Pubkeys \cup {NoSigner}]

Gate ==
  [used_nonces : SUBSET Nonces, pending : SUBSET Actions,
   audit : Seq(AuditRecord)]

GateError ==
  {"ActionNotPending", "UnknownSigner", "Expired", "NonceReused",
   "BadSignature"}

NewGate == [used_nonces |-> {}, pending |-> {}, audit |-> << >>]

----------------------------------------------------------------------------
(* submit *)

SubmitTo(g, act) == [g EXCEPT !.pending = @ \cup {act}]

----------------------------------------------------------------------------
(* decide: five early returns, in the order the code takes them *)

\* Approval::message, and whose key the signature is checked against.
Message(act, ap) ==
  [signer |-> ap.pubkey, action |-> act, nonce |-> ap.nonce,
   expires_at_unix |-> ap.expires_at_unix]

MessageWithoutAction(act, ap) ==             \* faulty: action left out
  IF ap.signature = Garbled THEN Message(act, ap)
  ELSE [Message(act, ap) EXCEPT !.action = ap.signature.action]

VerifiedBytes(act, ap) == Message(act, ap)

SignatureVerifies(act, ap) == ap.signature = VerifiedBytes(act, ap)

NeverExpired(ap, t) == FALSE                 \* faulty: no check

ExpiredAt(ap, t) == t > ap.expires_at_unix

NonceNeverUsed(g, ap) == FALSE               \* faulty: no check

NonceUsed(g, ap) == ap.nonce \in g.used_nonces

NotPending(g, act) == act \notin g.pending

SignerAllowlisted(ap) == ap.pubkey \in AllowlistedSigners

DecideOutcome(g, act, ap, t) ==
  IF NotPending(g, act)                  THEN "ActionNotPending"
  ELSE IF ~ SignerAllowlisted(ap)        THEN "UnknownSigner"
  ELSE IF ExpiredAt(ap, t)               THEN "Expired"
  ELSE IF NonceUsed(g, ap)               THEN "NonceReused"
  ELSE IF ap.pubkey \notin DecodableKeys THEN "UnknownSigner"
  ELSE IF ~ SignatureVerifies(act, ap)   THEN "BadSignature"
  ELSE "Approved"

Grants(g, act, ap, t) == DecideOutcome(g, act, ap, t) = "Approved"

\* at is the second reading of the clock, taken for the audit record.
Record(at, act, decision, signer) ==
  [at_unix |-> at, action |-> act, decision |-> decision, signer |-> signer]

AfterGrantKeepingPending(g, act, ap, at) ==  \* faulty: pending entry kept
  [g EXCEPT !.used_nonces = @ \cup {ap.nonce},
            !.audit = Append(@, Record(at, act, "Approved", ap.pubkey))]

AfterGrant(g, act, ap, at) ==
  [g EXCEPT !.used_nonces = @ \cup {ap.nonce},
            !.pending = @ \ {act},
            !.audit = Append(@, Record(at, act, "Approved", ap.pubkey))]

AfterRefusalBurning(g, ap) ==                \* faulty: nonce burned first
  [g EXCEPT !.used_nonces = @ \cup {ap.nonce}]

AfterRefusalAudited(g, ap) ==                \* faulty: refusals audited
  [g EXCEPT !.audit =
     Append(@, [action |-> ap.signature, decision |-> "Refused"])]

\* A refused decision returns before anything is written.
AfterRefusal(g, ap) == g

----------------------------------------------------------------------------
(* deny: no check that the action is still pending *)

AfterDeny(g, act, at) ==
  [g EXCEPT !.pending = @ \ {act},
            !.audit = Append(@, Record(at, act, "Denied", NoSigner))]
=============================================================================
