--------------------------- MODULE ActionEncoding ---------------------------
(***************************************************************************)
(* The two byte strings of gate.rs on which everything that is signed      *)
(* rests: what ActionRequest::hash hashes, and Approval::message, what a   *)
(* human signs.  The other modules identify an action with its hash and a  *)
(* signature with the fields of its message; that is right as far as these *)
(* encodings are injective.                                                *)
(***************************************************************************)
EXTENDS Naturals, Sequences

CONSTANTS
  Byte,        \* the values of a byte (0 .. 255)
  HASH_LEN, NONCE_LEN, EXPIRY_LEN   \* 32, 32 and 8 bytes

ASSUME ByteAssumption == 0 \in Byte

ASSUME LengthAssumption ==
  HASH_LEN \in Nat /\ NONCE_LEN \in Nat /\ EXPIRY_LEN \in Nat

\* A String or a Vec<u8>, as its bytes.
Bytestring == Seq(Byte)

ActionRequest ==
  [actor : Bytestring, summary : Bytestring, payload : Bytestring]

Separator == <<0>>

\* What hash feeds to SHA-256: no length is encoded, a zero byte ends a field.
HashInput(a) ==
  a.actor \o (Separator \o (a.summary \o (Separator \o a.payload)))

UnseparatedInput(a) == a.actor \o (a.summary \o a.payload)  \* faulty

Hashed(a) == HashInput(a)

ZeroFree(s) == \A i \in DOMAIN s : s[i] # 0

\* Approval::message; expiry is the 8 big-endian bytes of expires_at_unix.
MessageOf(hash, nonce, expiry) == hash \o (nonce \o expiry)

Fields ==
  [hash : {s \in Bytestring : Len(s) = HASH_LEN},
   nonce : {s \in Bytestring : Len(s) = NONCE_LEN},
   expiry : {s \in Bytestring : Len(s) = EXPIRY_LEN}]

MessageBytes(m) == MessageOf(m.hash, m.nonce, m.expiry)

----------------------------------------------------------------------------
\* Two actions with the same hash input are the same action, as long as no
\* actor and no summary contains a zero byte (payloads may): one approval
\* cannot be read as being about another action.  The spike's summaries are
\* zero-free, Rust's {:?} escapes the character.
HashBindsAction(a, b) ==
  /\ ZeroFree(a.actor) /\ ZeroFree(a.summary)
  /\ ZeroFree(b.actor) /\ ZeroFree(b.summary)
  /\ Hashed(a) = Hashed(b)
  => a = b
=============================================================================
