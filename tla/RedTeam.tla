------------------------------ MODULE RedTeam ------------------------------
(***************************************************************************)
(* approval_defenses of gooseclaw-channels/src/redteam.rs: the scripted    *)
(* calls by which the channels crate tests the gate it was built with, as  *)
(* a function of what the system clock shows at each of them.  The session *)
(* of every case is a ChannelSession over a fresh Rule9Gate that           *)
(* allowlists one key.  Its last assertion, that a rendered summary has no *)
(* bidi override (redteam.rs:186-194), is about no call and is left out.   *)
(***************************************************************************)
EXTENDS GateOps

CONSTANTS
  APPROVAL_PUBKEY,   \* the key of the test vector
  ZeroKey,           \* 32 zero bytes
  SignedAction, OtherAction,   \* summary "x" and summary "y"
  VectorNonce,
  EndOfTime          \* u64::MAX

ASSUME VectorAssumption ==
  /\ APPROVAL_PUBKEY \in AllowlistedSigners \cap DecodableKeys
  /\ ZeroKey \in Pubkeys \ AllowlistedSigners
  /\ SignedAction # OtherAction
  /\ {SignedAction, OtherAction} \subseteq Actions
  /\ VectorNonce \in Nonces
  /\ EndOfTime \in Nat /\ \A t \in Times : t <= EndOfTime

\* The signature was made for exactly these bytes, once and for all.
APPROVAL_SIGNATURE ==
  [signer |-> APPROVAL_PUBKEY, action |-> SignedAction, nonce |-> VectorNonce,
   expires_at_unix |-> EndOfTime]

signed_approval ==
  [pubkey |-> APPROVAL_PUBKEY, nonce |-> VectorNonce,
   expires_at_unix |-> EndOfTime, signature |-> APPROVAL_SIGNATURE]

signed_session == NewGate

\* What request_human_decision returns and leaves behind, at clock t.
request_human_decision(g, act, ap, t) ==
  LET s == SubmitTo(g, act)
  IN  [outcome |-> DecideOutcome(s, act, ap, t),
       gate |-> IF Grants(s, act, ap, t) THEN AfterGrant(s, act, ap, t)
                ELSE AfterRefusal(s, ap)]

approval_defenses(clock) ==
  LET unknown  == [signed_approval EXCEPT !.pubkey = ZeroKey]
      expired  == [signed_approval EXCEPT !.expires_at_unix = 0]
      ask(g, act, ap, n) == request_human_decision(g, act, ap, clock[n])
      first    == ask(signed_session, SignedAction, signed_approval, 2)
  IN  <<ask(signed_session, SignedAction, unknown, 1).outcome,
        first.outcome,
        ask(first.gate, SignedAction, signed_approval, 3).outcome,
        ask(signed_session, SignedAction, expired, 4).outcome,
        ask(signed_session, OtherAction, signed_approval, 5).outcome>>

----------------------------------------------------------------------------
\* Every case fails for its own reason and not for an earlier one, whatever
\* the clock shows meanwhile, unless it reads 0 at the fourth call (a clock
\* before 1970: an approval that expires at 0 is then still good and the
\* signature is what is wrong with it).
DefensesHold(clock) ==
  clock[4] > 0 =>
    approval_defenses(clock) =
      <<"UnknownSigner", "Approved", "NonceReused", "Expired", "BadSignature">>
=============================================================================
