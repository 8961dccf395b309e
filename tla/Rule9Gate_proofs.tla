-------------------------- MODULE Rule9Gate_proofs --------------------------
(***************************************************************************)
(* Theorems about Rule9Gate, for every set of keys, nonces, actions,       *)
(* times and handles.                                                      *)
(*                                                                         *)
(* A call can touch the audit log, the burned nonces and the evidence in   *)
(* three ways only: not at all, with one grant, or with one denial.  Lemma *)
(* StepShape says so, and the invariants are proved from these shapes      *)
(* instead of from the seven actions.                                      *)
(***************************************************************************)
EXTENDS Rule9Gate, FiniteSetTheorems, TLAPS

----------------------------------------------------------------------------
(* Lemmas about the operators of GateOps.                                  *)

\* What decide has checked by the time it reaches its writes (gate.rs:165-181).
LEMMA GrantMeans ==
  ASSUME NEW g, NEW act, NEW ap, NEW t, Grants(g, act, ap, t)
  PROVE  /\ act \in g.pending
         /\ ap.pubkey \in AllowlistedSigners
         /\ ~ (t > ap.expires_at_unix)
         /\ ap.nonce \notin g.used_nonces
         /\ ap.signature = Message(act, ap)
  BY DEF Grants, DecideOutcome, NotPending, SignerAllowlisted, ExpiredAt,
         NonceUsed, SignatureVerifies, VerifiedBytes

\* A grant comes from a message somebody signed, about this very action.
LEMMA GrantSigned ==
  ASSUME NEW g, NEW act \in Actions, NEW t, NEW S \in SUBSET SignedMessage,
         NEW ap \in ApprovalsOver(S), Grants(g, act, ap, t)
  PROVE  /\ ap.signature \in S
         /\ ap.signature.action = act
         /\ ap.signature.signer = ap.pubkey
         /\ ap.signature.nonce = ap.nonce
         /\ ap.signature.expires_at_unix = ap.expires_at_unix
<1>1. ap.signature = Message(act, ap) /\ ap.pubkey \in DecodableKeys
  BY DEF Grants, DecideOutcome, SignatureVerifies, VerifiedBytes
<1>2. Message(act, ap) \in SignedMessage
  BY <1>1 DEF Message, SignedMessage, ApprovalsOver
<1>3. ap.signature # Garbled
  BY <1>1, <1>2, GarbledAssumption
<1> QED BY <1>1, <1>3 DEF Message, ApprovalsOver

LEMMA RecordTyped ==
  ASSUME NEW at \in Times, NEW act \in Actions,
         NEW d \in {"Approved", "Denied"}, NEW s \in Pubkeys \cup {NoSigner}
  PROVE  Record(at, act, d, s) \in AuditRecord
  BY DEF Record, AuditRecord

\* The operations of the gate keep it well formed, and change these fields.
LEMMA SubmitEffect ==
  ASSUME NEW g \in Gate, NEW act \in Actions
  PROVE  /\ SubmitTo(g, act) \in Gate
         /\ SubmitTo(g, act).pending = g.pending \cup {act}
         /\ SubmitTo(g, act).used_nonces = g.used_nonces
         /\ SubmitTo(g, act).audit = g.audit
  BY DEF SubmitTo, Gate

LEMMA GrantEffect ==
  ASSUME NEW g \in Gate, NEW act \in Actions, NEW at \in Times, NEW ap,
         ap.nonce \in Nonces, ap.pubkey \in Pubkeys
  PROVE  LET h == AfterGrant(g, act, ap, at)
             r == Record(at, act, "Approved", ap.pubkey)
         IN /\ h \in Gate
            /\ h.pending = g.pending \ {act}
            /\ h.used_nonces = g.used_nonces \cup {ap.nonce}
            /\ h.audit = Append(g.audit, r)
<1>1. Record(at, act, "Approved", ap.pubkey) \in AuditRecord
  BY RecordTyped
<1>2. Append(g.audit, Record(at, act, "Approved", ap.pubkey))
        \in Seq(AuditRecord)
  BY <1>1 DEF Gate
<1> QED BY <1>2 DEF AfterGrant, Gate

LEMMA DenyEffect ==
  ASSUME NEW g \in Gate, NEW act \in Actions, NEW at \in Times
  PROVE  LET h == AfterDeny(g, act, at)
             r == Record(at, act, "Denied", NoSigner)
         IN /\ h \in Gate
            /\ h.pending = g.pending \ {act}
            /\ h.used_nonces = g.used_nonces
            /\ h.audit = Append(g.audit, r)
<1>1. Record(at, act, "Denied", NoSigner) \in AuditRecord
  BY RecordTyped
<1>2. Append(g.audit, Record(at, act, "Denied", NoSigner))
        \in Seq(AuditRecord)
  BY <1>1 DEF Gate
<1> QED BY <1>2 DEF AfterDeny, Gate

----------------------------------------------------------------------------
(* The shapes of a step, as far as grants and denials are concerned.       *)

\* Nothing is recorded: the clock moves, a message is signed, or an action is
\* submitted (a refused submit_and_decide submits too).
QuietShape ==
  /\ gate'.audit = gate.audit
  /\ gate'.used_nonces = gate.used_nonces
  /\ evidence' = evidence
  /\ now' = now \/ now' \in Readings(now)
  /\ \/ /\ signed' = signed
        /\ gate'.pending = gate.pending /\ submissions' = submissions
     \/ \E m \in SignedMessage :
          /\ signed' = signed \cup {m}
          /\ gate'.pending = gate.pending /\ submissions' = submissions
     \/ \E a \in Actions :
          /\ signed' = signed
          /\ gate'.pending = gate.pending \cup {a} /\ submissions' = Counted(a)

\* One grant, from message m; it takes the pending entry of its action, or
\* the submission made in the same call.
GrantShape(m, at) ==
  /\ m.signer \in AllowlistedSigners
  /\ m.nonce \notin gate.used_nonces
  /\ ~ (now > m.expires_at_unix)
  /\ now' = at
  /\ gate'.audit = Append(gate.audit, Record(at, m.action, "Approved", m.signer))
  /\ gate'.used_nonces = gate.used_nonces \cup {m.nonce}
  /\ evidence' = Append(evidence, m)
  /\ signed' = signed
  /\ gate'.pending = gate.pending \ {m.action}
  /\ \/ m.action \in gate.pending /\ submissions' = submissions
     \/ submissions' = Counted(m.action)

\* One denial.
DenyShape(a, at) ==
  /\ now' = at
  /\ gate'.audit = Append(gate.audit, Record(at, a, "Denied", NoSigner))
  /\ gate'.used_nonces = gate.used_nonces
  /\ evidence' = Append(evidence, NoEvidence)
  /\ signed' = signed
  /\ gate'.pending = gate.pending \ {a}
  /\ submissions' = submissions

LEMMA ReadingsInTimes == \A t \in Times : Readings(t) \subseteq Times
  BY DEF Readings

\* The body of decide, on the gate g it is entered with.
LEMMA DecideShape ==
  ASSUME TypeOK, NEW g \in Gate, NEW act \in Actions,
         NEW ap \in ApprovalsOver(signed), DecideOn(g, act, ap)
  PROVE  \/ gate' = g /\ evidence' = evidence /\ now' = now
         \/ \E at \in Times :
              /\ Grants(g, act, ap, now)
              /\ at \in Readings(now)
              /\ gate' = AfterGrant(g, act, ap, at)
              /\ evidence' = Append(evidence, ap.signature)
              /\ now' = at
<1>1. CASE Grants(g, act, ap, now)
  BY <1>1, ReadingsInTimes DEF DecideOn, TypeOK
<1>2. CASE ~ Grants(g, act, ap, now)
  BY <1>2 DEF DecideOn, AfterRefusal
<1> QED BY <1>1, <1>2

LEMMA DecideTyped ==
  ASSUME TypeOK, NEW g \in Gate, NEW act \in Actions,
         NEW ap \in ApprovalsOver(signed), DecideOn(g, act, ap)
  PROVE  /\ gate' \in Gate
         /\ now' \in Times
         /\ evidence' \in Seq(SignedMessage \cup {NoEvidence})
<1>1. CASE gate' = g /\ evidence' = evidence /\ now' = now
  BY <1>1 DEF TypeOK
<1>2. ASSUME NEW at \in Times, Grants(g, act, ap, now),
             gate' = AfterGrant(g, act, ap, at),
             evidence' = Append(evidence, ap.signature), now' = at
      PROVE  /\ gate' \in Gate
             /\ now' \in Times
             /\ evidence' \in Seq(SignedMessage \cup {NoEvidence})
  <2>1. ap.nonce \in Nonces /\ ap.pubkey \in Pubkeys
    BY DEF ApprovalsOver
  <2>2. gate' \in Gate
    BY <1>2, <2>1, GrantEffect
  <2>3. signed \in SUBSET SignedMessage
    BY DEF TypeOK
  <2>4. ap.signature \in SignedMessage
    BY <1>2, <2>3, GrantSigned
  <2> QED BY <1>2, <2>2, <2>4 DEF TypeOK
<1> QED BY <1>1, <1>2, DecideShape

----------------------------------------------------------------------------
(* Type correctness *)

\* The gate, the handles, the clock and the histories keep their types under
\* every sequence of calls.
THEOREM TypeCorrect == Spec => []TypeOK
<1>1. Init => TypeOK
  BY DEF Init, TypeOK, NewGate, Gate
<1>2. TypeOK /\ [Next]_vars => TypeOK'
  <2> SUFFICES ASSUME TypeOK, [Next]_vars PROVE TypeOK'
    OBVIOUS
  <2>0. gate \in Gate /\ now \in Times
    BY DEF TypeOK
  <2>1. CASE Tick
    BY <2>1, ReadingsInTimes DEF Tick, TypeOK
  <2>2. CASE Sign
    BY <2>2 DEF Sign, TypeOK
  <2>3. ASSUME NEW h \in Handles, NEW a \in Actions, Submit(h, a)
        PROVE TypeOK'
    BY <2>3, SubmitEffect DEF Submit, TypeOK, Counted
  <2>4. ASSUME NEW h \in Handles, NEW ap \in ApprovalsOver(signed),
               Decide(h, ap)
        PROVE TypeOK'
    <3>1. handles[h] \in Actions
      BY <2>4 DEF Decide, TypeOK
    <3>2. DecideOn(gate, handles[h], ap)
      BY <2>4 DEF Decide
    <3>3. gate' \in Gate /\ now' \in Times
            /\ evidence' \in Seq(SignedMessage \cup {NoEvidence})
      BY <2>0, <3>1, <3>2, DecideTyped
    <3> QED BY <2>4, <3>3 DEF Decide, TypeOK
  <2>5. ASSUME NEW a \in Actions, NEW ap \in ApprovalsOver(signed),
               SubmitAndDecide(a, ap)
        PROVE TypeOK'
    <3>1. SubmitTo(gate, a) \in Gate
      BY <2>0, SubmitEffect
    <3>2. DecideOn(SubmitTo(gate, a), a, ap)
      BY <2>5 DEF SubmitAndDecide
    <3>3. gate' \in Gate /\ now' \in Times
            /\ evidence' \in Seq(SignedMessage \cup {NoEvidence})
      BY <3>1, <3>2, DecideTyped
    <3> QED BY <2>5, <3>3 DEF SubmitAndDecide, TypeOK, Counted
  <2>6. ASSUME NEW h \in Handles, Deny(h)
        PROVE TypeOK'
    <3>1. handles[h] \in Actions
      BY <2>6 DEF Deny, TypeOK
    <3>2. PICK at \in Readings(now) :
            gate' = AfterDeny(gate, handles[h], at) /\ now' = at
      BY <2>6 DEF Deny
    <3>3. gate' \in Gate /\ now' \in Times
      BY <2>0, <3>1, <3>2, ReadingsInTimes, DenyEffect
    <3> QED BY <2>6, <3>3 DEF Deny, Released, TypeOK
  <2>7. ASSUME NEW h \in Handles, DropHandle(h)
        PROVE TypeOK'
    BY <2>7 DEF DropHandle, Released, TypeOK
  <2>8. CASE UNCHANGED vars
    BY <2>8 DEF vars, TypeOK
  <2> QED BY <2>1, <2>2, <2>3, <2>4, <2>5, <2>6, <2>7, <2>8 DEF Next
<1> QED BY <1>1, <1>2, PTL DEF Spec
----------------------------------------------------------------------------
(* Every step has one of the three shapes.                                 *)

\* The body of decide either keeps the gate it entered with, or has the
\* grant shape with respect to that gate.
LEMMA DecideOnShape ==
  ASSUME TypeOK, NEW g \in Gate, NEW act \in Actions,
         NEW ap \in ApprovalsOver(signed), DecideOn(g, act, ap),
         g.used_nonces = gate.used_nonces, g.audit = gate.audit,
         g.pending \ {act} = gate.pending \ {act}, signed' = signed,
         \/ act \in gate.pending /\ submissions' = submissions
         \/ submissions' = Counted(act)
         \/ act \notin g.pending
  PROVE  \/ gate' = g /\ evidence' = evidence /\ now' = now
         \/ \E m \in signed, at \in Readings(now) : GrantShape(m, at)
<1>1. SUFFICES ASSUME NEW at \in Times, Grants(g, act, ap, now),
                      at \in Readings(now),
                      gate' = AfterGrant(g, act, ap, at),
                      evidence' = Append(evidence, ap.signature), now' = at
               PROVE  \E m \in signed, u \in Readings(now) : GrantShape(m, u)
  BY DecideShape
<1>2. /\ ap.signature \in signed
      /\ ap.signature.action = act
      /\ ap.signature.signer = ap.pubkey
      /\ ap.signature.nonce = ap.nonce
      /\ ap.signature.expires_at_unix = ap.expires_at_unix
  <2>1. signed \in SUBSET SignedMessage
    BY DEF TypeOK
  <2> QED BY <1>1, <2>1, GrantSigned
<1>3. /\ act \in g.pending
      /\ ap.pubkey \in AllowlistedSigners
      /\ ~ (now > ap.expires_at_unix)
      /\ ap.nonce \notin g.used_nonces
  BY <1>1, GrantMeans
<1>4. /\ gate'.pending = g.pending \ {act}
      /\ gate'.used_nonces = g.used_nonces \cup {ap.nonce}
      /\ gate'.audit
           = Append(g.audit, Record(at, act, "Approved", ap.pubkey))
  <2>1. ap.nonce \in Nonces /\ ap.pubkey \in Pubkeys
    BY DEF ApprovalsOver
  <2> QED BY <1>1, <2>1, GrantEffect
<1>5. GrantShape(ap.signature, at)
  BY <1>1, <1>2, <1>3, <1>4 DEF GrantShape
<1> QED BY <1>1, <1>2, <1>5

LEMMA StepShape ==
  ASSUME TypeOK, [Next]_vars
  PROVE  \/ QuietShape
         \/ \E m \in signed, at \in Readings(now) : GrantShape(m, at)
         \/ \E a \in Actions, at \in Readings(now) : DenyShape(a, at)
<1>0. gate \in Gate /\ submissions \in [Actions -> Nat]
  BY DEF TypeOK
<1>1. CASE Tick \/ Sign \/ UNCHANGED vars
  BY <1>1 DEF Tick, Sign, vars, QuietShape
<1>2. ASSUME NEW h \in Handles, NEW a \in Actions, Submit(h, a)
      PROVE  QuietShape
  BY <1>0, <1>2, SubmitEffect DEF Submit, Counted, QuietShape
<1>3. ASSUME NEW h \in Handles, NEW ap \in ApprovalsOver(signed),
             Decide(h, ap)
      PROVE  QuietShape
               \/ \E m \in signed, at \in Readings(now) : GrantShape(m, at)
  <2>1. handles[h] \in Actions /\ DecideOn(gate, handles[h], ap)
    BY <1>3 DEF Decide, TypeOK
  <2>2. signed' = signed /\ submissions' = submissions
    BY <1>3 DEF Decide
  <2>3. handles[h] \in gate.pending \/ handles[h] \notin gate.pending
    OBVIOUS
  <2>4. \/ gate' = gate /\ evidence' = evidence /\ now' = now
        \/ \E m \in signed, at \in Readings(now) : GrantShape(m, at)
    BY <1>0, <2>1, <2>2, <2>3, DecideOnShape
  <2> QED BY <2>2, <2>4 DEF QuietShape
<1>4. ASSUME NEW a \in Actions, NEW ap \in ApprovalsOver(signed),
             SubmitAndDecide(a, ap)
      PROVE  QuietShape
               \/ \E m \in signed, at \in Readings(now) : GrantShape(m, at)
  <2> DEFINE g == SubmitTo(gate, a)
  <2>1. /\ g \in Gate
        /\ g.pending = gate.pending \cup {a}
        /\ g.used_nonces = gate.used_nonces
        /\ g.audit = gate.audit
    BY <1>0, SubmitEffect
  <2>2. DecideOn(g, a, ap) /\ signed' = signed /\ submissions' = Counted(a)
    BY <1>4 DEF SubmitAndDecide
  <2>3. \/ gate' = g /\ evidence' = evidence /\ now' = now
        \/ \E m \in signed, at \in Readings(now) : GrantShape(m, at)
    <3> HIDE DEF g
    <3>1. g.pending \ {a} = gate.pending \ {a}
      BY <2>1
    <3> QED BY <2>1, <2>2, <3>1, DecideOnShape
  <2>4. CASE gate' = g /\ evidence' = evidence /\ now' = now
    <3> HIDE DEF g
    <3> QED BY <1>0, <2>1, <2>2, <2>4 DEF QuietShape, Counted
  <2> QED BY <2>3, <2>4
<1>5. ASSUME NEW h \in Handles, Deny(h)
      PROVE  \E a \in Actions, at \in Readings(now) : DenyShape(a, at)
  <2>1. handles[h] \in Actions
    BY <1>5 DEF Deny, TypeOK
  <2>2. PICK at \in Readings(now) :
          gate' = AfterDeny(gate, handles[h], at) /\ now' = at
    BY <1>5 DEF Deny
  <2>3. at \in Times
    BY ReadingsInTimes DEF TypeOK
  <2>4. DenyShape(handles[h], at)
    BY <1>0, <1>5, <2>1, <2>2, <2>3, DenyEffect DEF Deny, DenyShape
  <2> QED BY <2>1, <2>4
<1>6. ASSUME NEW h \in Handles, DropHandle(h)
      PROVE  QuietShape
  BY <1>6 DEF DropHandle, QuietShape
<1> QED BY <1>1, <1>2, <1>3, <1>4, <1>5, <1>6 DEF Next
----------------------------------------------------------------------------
(* Authorised, single-use grants.                                          *)

LEMMA AppendFacts ==
  ASSUME NEW T, NEW s \in Seq(T), NEW x
  PROVE  /\ Len(Append(s, x)) = Len(s) + 1
         /\ DOMAIN Append(s, x) = 1 .. Len(s) + 1
         /\ \A i \in 1 .. Len(s) : Append(s, x)[i] = s[i]
         /\ Append(s, x)[Len(s) + 1] = x
  OBVIOUS

\* How the set of granting records evolves.
LEMMA GrantedIndices ==
  ASSUME TypeOK, Len(evidence) = Len(gate.audit)
  PROVE  /\ QuietShape => Approvals' = Approvals
         /\ \A m \in signed, at \in Times :
              GrantShape(m, at) =>
                /\ Approvals' = Approvals \cup {Len(gate.audit) + 1}
                /\ evidence'[Len(gate.audit) + 1] = m
                /\ gate'.audit[Len(gate.audit) + 1].action = m.action
         /\ \A a \in Actions, at \in Times :
              DenyShape(a, at) => Approvals' = Approvals
         /\ Approvals \subseteq 1 .. Len(gate.audit)
<1>0. gate.audit \in Seq(AuditRecord)
        /\ evidence \in Seq(SignedMessage \cup {NoEvidence})
  BY DEF TypeOK, Gate
<1>1. QuietShape => Approvals' = Approvals
  BY DEF QuietShape, Approvals
<1>2. ASSUME NEW m \in signed, NEW at \in Times, GrantShape(m, at)
      PROVE  /\ Approvals' = Approvals \cup {Len(gate.audit) + 1}
             /\ evidence'[Len(gate.audit) + 1] = m
             /\ gate'.audit[Len(gate.audit) + 1].action = m.action
  <2> DEFINE r == Record(at, m.action, "Approved", m.signer)
  <2>1. gate'.audit = Append(gate.audit, r) /\ evidence' = Append(evidence, m)
    BY <1>2 DEF GrantShape
  <2>2. r.decision = "Approved" /\ r.action = m.action
    BY DEF Record
  <2> HIDE DEF r
  <2>3. Approvals' = Approvals \cup {Len(gate.audit) + 1}
    BY <1>0, <2>1, <2>2, AppendFacts DEF Approvals
  <2> QED BY <1>0, <2>1, <2>2, <2>3, AppendFacts
<1>3. ASSUME NEW a \in Actions, NEW at \in Times, DenyShape(a, at)
      PROVE  Approvals' = Approvals
  <2> DEFINE r == Record(at, a, "Denied", NoSigner)
  <2>1. gate'.audit = Append(gate.audit, r)
    BY <1>3 DEF DenyShape
  <2>2. r.decision # "Approved"
    BY DEF Record
  <2> HIDE DEF r
  <2> QED BY <1>0, <2>1, <2>2, AppendFacts DEF Approvals
<1>4. Approvals \subseteq 1 .. Len(gate.audit)
  BY <1>0 DEF Approvals
<1> QED BY <1>1, <1>2, <1>3, <1>4

\* Each conjunct needs the others: a fresh nonce is new to the grants only
\* because the burned nonces are exactly those of the grants.
GrantInv == TypeOK /\ GrantAuthorised /\ BurnedAreGranted /\ SingleUse

LEMMA GrantInvQuiet ==
  ASSUME GrantInv, TypeOK', QuietShape
  PROVE  GrantInv'
<1>1. Approvals' = Approvals
  BY GrantedIndices DEF GrantInv, GrantAuthorised
<1>2. gate'.audit = gate.audit /\ gate'.used_nonces = gate.used_nonces
        /\ evidence' = evidence /\ signed \subseteq signed'
  BY DEF QuietShape
<1>3. GrantAuthorised'
  BY <1>2 DEF GrantInv, GrantAuthorised
<1>4. BurnedAreGranted' /\ SingleUse'
  BY <1>1, <1>2 DEF GrantInv, BurnedAreGranted, SingleUse
<1> QED BY <1>3, <1>4 DEF GrantInv

LEMMA GrantInvGrant ==
  ASSUME GrantInv, TypeOK', NEW m \in signed, NEW at \in Times,
         GrantShape(m, at)
  PROVE  GrantInv'
<1> DEFINE n == Len(gate.audit)
           r == Record(at, m.action, "Approved", m.signer)
<1>0. /\ gate.audit \in Seq(AuditRecord) /\ n \in Nat
      /\ evidence \in Seq(SignedMessage \cup {NoEvidence})
      /\ Len(evidence) = n
  BY DEF GrantInv, TypeOK, Gate, GrantAuthorised
<1>1. /\ Approvals' = Approvals \cup {n + 1}
      /\ Approvals \subseteq 1 .. n
  BY GrantedIndices DEF GrantInv, GrantAuthorised
<1>2. /\ gate'.audit = Append(gate.audit, r)
      /\ evidence' = Append(evidence, m)
      /\ gate'.used_nonces = gate.used_nonces \cup {m.nonce}
      /\ signed' = signed
      /\ m.signer \in AllowlistedSigners
      /\ m.nonce \notin gate.used_nonces
  BY DEF GrantShape
<1>3. r.decision = "Approved" /\ r.action = m.action /\ r.signer = m.signer
  BY DEF Record
<1> HIDE DEF r
<1>4. /\ Len(gate'.audit) = n + 1 /\ Len(evidence') = n + 1
      /\ DOMAIN gate'.audit = 1 .. n + 1 /\ DOMAIN gate.audit = 1 .. n
      /\ \A i \in 1 .. n : gate'.audit[i] = gate.audit[i]
      /\ \A i \in 1 .. n : evidence'[i] = evidence[i]
      /\ gate'.audit[n + 1] = r /\ evidence'[n + 1] = m
  BY <1>0, <1>2, AppendFacts
<1> HIDE DEF n
<1>5. GrantAuthorised'
  BY <1>0, <1>2, <1>3, <1>4 DEF GrantInv, GrantAuthorised
<1>6. BurnedAreGranted'
  BY <1>0, <1>1, <1>2, <1>4 DEF GrantInv, BurnedAreGranted
<1>7. SingleUse'
  <2>1. \A i \in Approvals : evidence[i].nonce # m.nonce
    BY <1>2 DEF GrantInv, BurnedAreGranted
  <2> QED BY <1>0, <1>1, <1>4, <2>1 DEF GrantInv, SingleUse
<1> QED BY <1>5, <1>6, <1>7 DEF GrantInv

LEMMA GrantInvDeny ==
  ASSUME GrantInv, TypeOK', NEW a \in Actions, NEW at \in Times,
         DenyShape(a, at)
  PROVE  GrantInv'
<1> DEFINE n == Len(gate.audit)
           r == Record(at, a, "Denied", NoSigner)
<1>0. /\ gate.audit \in Seq(AuditRecord) /\ n \in Nat
      /\ evidence \in Seq(SignedMessage \cup {NoEvidence})
      /\ Len(evidence) = n
  BY DEF GrantInv, TypeOK, Gate, GrantAuthorised
<1>1. Approvals' = Approvals /\ Approvals \subseteq 1 .. n
  BY GrantedIndices DEF GrantInv, GrantAuthorised
<1>2. /\ gate'.audit = Append(gate.audit, r)
      /\ evidence' = Append(evidence, NoEvidence)
      /\ gate'.used_nonces = gate.used_nonces
      /\ signed' = signed
  BY DEF DenyShape
<1>3. r.decision # "Approved" /\ r.signer = NoSigner
  BY DEF Record
<1> HIDE DEF r
<1>4. /\ Len(gate'.audit) = n + 1 /\ Len(evidence') = n + 1
      /\ DOMAIN gate'.audit = 1 .. n + 1 /\ DOMAIN gate.audit = 1 .. n
      /\ \A i \in 1 .. n : gate'.audit[i] = gate.audit[i]
      /\ \A i \in 1 .. n : evidence'[i] = evidence[i]
      /\ gate'.audit[n + 1] = r /\ evidence'[n + 1] = NoEvidence
  BY <1>0, <1>2, AppendFacts
<1> HIDE DEF n
<1>5. GrantAuthorised'
  BY <1>0, <1>2, <1>3, <1>4 DEF GrantInv, GrantAuthorised
<1>6. BurnedAreGranted' /\ SingleUse'
  BY <1>0, <1>1, <1>2, <1>4 DEF GrantInv, BurnedAreGranted, SingleUse
<1> QED BY <1>5, <1>6 DEF GrantInv

\* The strengthened invariant holds in every behaviour.
THEOREM GrantInvariant == Spec => []GrantInv
<1>1. Init => GrantInv
  BY DEF Init, GrantInv, TypeOK, NewGate, Gate, GrantAuthorised, Approvals,
         BurnedAreGranted, SingleUse
<1>2. TypeOK' /\ GrantInv /\ [Next]_vars => GrantInv'
  <2> SUFFICES ASSUME TypeOK', GrantInv, [Next]_vars PROVE GrantInv'
    OBVIOUS
  <2>1. Readings(now) \subseteq Times
    BY ReadingsInTimes DEF GrantInv, TypeOK
  <2>2. \/ QuietShape
        \/ \E m \in signed, at \in Times : GrantShape(m, at)
        \/ \E a \in Actions, at \in Times : DenyShape(a, at)
    BY <2>1, StepShape DEF GrantInv
  <2> QED BY <2>2, GrantInvQuiet, GrantInvGrant, GrantInvDeny
<1> QED BY <1>1, <1>2, TypeCorrect, PTL DEF Spec

\* For every value of the constants, an approval in the audit log was signed
\* by an allowlisted key over exactly the recorded action.
THEOREM GrantsAreAuthorised == Spec => []GrantAuthorised
<1>1. GrantInv => GrantAuthorised
  BY DEF GrantInv
<1> QED BY <1>1, GrantInvariant, PTL

\* ... and no signed approval, and no nonce, backs two grants of one gate.
THEOREM GrantsAreSingleUse == Spec => []SingleUse
<1>1. GrantInv => SingleUse
  BY DEF GrantInv
<1> QED BY <1>1, GrantInvariant, PTL

\* ... and the gate burns the nonces of its grants, all of them and no other.
THEOREM BurnedNoncesAreGranted == Spec => []BurnedAreGranted
<1>1. GrantInv => BurnedAreGranted
  BY DEF GrantInv
<1> QED BY <1>1, GrantInvariant, PTL
----------------------------------------------------------------------------
(* One grant per submission.                                               *)

\* How the grants of one action evolve, and that they can be counted.
LEMMA GrantsOfEvolve ==
  ASSUME GrantInv, NEW b \in Actions
  PROVE  /\ IsFiniteSet(GrantsOf(b)) /\ Cardinality(GrantsOf(b)) \in Nat
         /\ QuietShape => GrantsOf(b)' = GrantsOf(b)
         /\ \A a \in Actions, at \in Times :
              DenyShape(a, at) => GrantsOf(b)' = GrantsOf(b)
         /\ \A m \in signed, at \in Times :
              GrantShape(m, at) =>
                Cardinality(GrantsOf(b)')
                  = Cardinality(GrantsOf(b)) + (IF m.action = b THEN 1 ELSE 0)
<1> DEFINE n == Len(gate.audit)
<1>0. /\ gate.audit \in Seq(AuditRecord) /\ n \in Nat
      /\ Len(evidence) = Len(gate.audit)
  BY DEF GrantInv, TypeOK, Gate, GrantAuthorised
<1>1. Approvals \subseteq 1 .. n
  BY <1>0, GrantedIndices DEF GrantInv
<1>2. GrantsOf(b) \subseteq 1 .. n
  BY <1>1 DEF GrantsOf
<1>3. IsFiniteSet(GrantsOf(b)) /\ Cardinality(GrantsOf(b)) \in Nat
  <2>1. IsFiniteSet(1 .. n)
    BY <1>0, FS_Interval
  <2>2. IsFiniteSet(GrantsOf(b))
    BY <1>2, <2>1, FS_Subset
  <2> QED BY <2>2, FS_CardinalityType
<1>4. QuietShape => GrantsOf(b)' = GrantsOf(b)
  BY <1>0, GrantedIndices DEF GrantsOf, GrantInv, QuietShape
<1>5. ASSUME NEW a \in Actions, NEW at \in Times, DenyShape(a, at)
      PROVE  GrantsOf(b)' = GrantsOf(b)
  <2>1. Approvals' = Approvals
    BY <1>0, <1>5, GrantedIndices DEF GrantInv
  <2>2. gate'.audit = Append(gate.audit, Record(at, a, "Denied", NoSigner))
    BY <1>5 DEF DenyShape
  <2>3. \A i \in 1 .. n : gate'.audit[i] = gate.audit[i]
    BY <1>0, <2>2, AppendFacts
  <2> QED BY <1>1, <2>1, <2>3 DEF GrantsOf
<1>6. ASSUME NEW m \in signed, NEW at \in Times, GrantShape(m, at)
      PROVE  Cardinality(GrantsOf(b)')
               = Cardinality(GrantsOf(b)) + (IF m.action = b THEN 1 ELSE 0)
  <2>1. /\ Approvals' = Approvals \cup {n + 1}
        /\ gate'.audit[n + 1].action = m.action
    BY <1>0, <1>6, GrantedIndices DEF GrantInv
  <2>2. gate'.audit
          = Append(gate.audit, Record(at, m.action, "Approved", m.signer))
    BY <1>6 DEF GrantShape
  <2>3. \A i \in 1 .. n : gate'.audit[i] = gate.audit[i]
    BY <1>0, <2>2, AppendFacts
  <2> HIDE DEF n
  <2>4. GrantsOf(b)'
          = IF m.action = b THEN GrantsOf(b) \cup {n + 1} ELSE GrantsOf(b)
    BY <1>1, <2>1, <2>3 DEF GrantsOf
  <2>5. n + 1 \notin GrantsOf(b)
    BY <1>0, <1>2 DEF n
  <2>6. Cardinality(GrantsOf(b) \cup {n + 1}) = Cardinality(GrantsOf(b)) + 1
    BY <1>3, <2>5, FS_AddElement
  <2> QED BY <1>3, <2>4, <2>6
<1> QED BY <1>3, <1>4, <1>5, <1>6

BudgetInv == GrantInv /\ OneGrantPerSubmission

\* For every value of the constants, an action is granted no more often than
\* it was submitted, and what is still pending has a submission to spend.
THEOREM GrantsBoundedBySubmissions == Spec => []OneGrantPerSubmission
<1>1. Init => OneGrantPerSubmission
  BY FS_EmptySet
     DEF Init, NewGate, OneGrantPerSubmission, GrantsOf, Approvals
<1>2. TypeOK' /\ GrantInv /\ OneGrantPerSubmission /\ [Next]_vars
        => OneGrantPerSubmission'
  <2> SUFFICES ASSUME TypeOK', GrantInv, OneGrantPerSubmission, [Next]_vars,
                      NEW b \in Actions
               PROVE  Cardinality(GrantsOf(b)')
                        + (IF b \in gate'.pending THEN 1 ELSE 0)
                        <= submissions'[b]
    BY DEF OneGrantPerSubmission
  <2>1. Readings(now) \subseteq Times
    BY ReadingsInTimes DEF GrantInv, TypeOK
  <2>2. /\ Cardinality(GrantsOf(b)) + (IF b \in gate.pending THEN 1 ELSE 0)
             <= submissions[b]
        /\ Cardinality(GrantsOf(b)) \in Nat
        /\ submissions \in [Actions -> Nat]
    BY GrantsOfEvolve DEF OneGrantPerSubmission, GrantInv, TypeOK
  <2>3. CASE QuietShape
    <3>1. GrantsOf(b)' = GrantsOf(b)
      BY <2>3, GrantsOfEvolve
    <3> QED BY <2>2, <2>3, <3>1 DEF QuietShape, Counted
  <2>4. ASSUME NEW m \in signed, NEW at \in Times, GrantShape(m, at)
        PROVE  Cardinality(GrantsOf(b)')
                 + (IF b \in gate'.pending THEN 1 ELSE 0) <= submissions'[b]
    <3>1. Cardinality(GrantsOf(b)')
            = Cardinality(GrantsOf(b)) + (IF m.action = b THEN 1 ELSE 0)
      BY <2>4, GrantsOfEvolve
    <3> QED BY <2>2, <2>4, <3>1 DEF GrantShape, Counted
  <2>5. ASSUME NEW a \in Actions, NEW at \in Times, DenyShape(a, at)
        PROVE  Cardinality(GrantsOf(b)')
                 + (IF b \in gate'.pending THEN 1 ELSE 0) <= submissions'[b]
    <3>1. GrantsOf(b)' = GrantsOf(b)
      BY <2>5, GrantsOfEvolve
    <3> QED BY <2>2, <2>5, <3>1 DEF DenyShape
  <2> QED BY <2>1, <2>3, <2>4, <2>5, StepShape DEF GrantInv
<1> QED BY <1>1, <1>2, TypeCorrect, GrantInvariant, PTL DEF Spec

----------------------------------------------------------------------------
(* Denials are bounded by submissions.                                     *)

DenialsOf(a) ==
  {i \in DOMAIN gate.audit : /\ gate.audit[i].action = a
                            /\ gate.audit[i].decision = "Denied"}

HeldBy(a) == {h \in Handles : handles[h] = a}

\* Only finitely many slots are in use, however many there are.
DenialsInv ==
  \A a \in Actions :
    /\ IsFiniteSet(HeldBy(a))
    /\ Cardinality(DenialsOf(a)) + Cardinality(HeldBy(a)) <= submissions[a]

LEMMA DenialsOfEvolve ==
  ASSUME TypeOK, NEW b \in Actions
  PROVE  /\ Cardinality(DenialsOf(b)) \in Nat
         /\ gate'.audit = gate.audit => DenialsOf(b)' = DenialsOf(b)
         /\ \A r \in AuditRecord :
              gate'.audit = Append(gate.audit, r) =>
                Cardinality(DenialsOf(b)')
                  = Cardinality(DenialsOf(b))
                      + (IF r.action = b /\ r.decision = "Denied" THEN 1 ELSE 0)
<1> DEFINE n == Len(gate.audit)
<1>0. gate.audit \in Seq(AuditRecord) /\ n \in Nat /\ DOMAIN gate.audit = 1 .. n
  BY DEF TypeOK, Gate
<1>1. DenialsOf(b) \subseteq 1 .. n
  BY <1>0 DEF DenialsOf
<1>2. IsFiniteSet(DenialsOf(b)) /\ Cardinality(DenialsOf(b)) \in Nat
  <2>1. IsFiniteSet(1 .. n)
    BY <1>0, FS_Interval
  <2>2. IsFiniteSet(DenialsOf(b))
    BY <1>1, <2>1, FS_Subset
  <2> QED BY <2>2, FS_CardinalityType
<1>3. gate'.audit = gate.audit => DenialsOf(b)' = DenialsOf(b)
  BY DEF DenialsOf
<1>4. ASSUME NEW r \in AuditRecord, gate'.audit = Append(gate.audit, r)
      PROVE  Cardinality(DenialsOf(b)')
               = Cardinality(DenialsOf(b))
                   + (IF r.action = b /\ r.decision = "Denied" THEN 1 ELSE 0)
  <2>1. /\ DOMAIN gate'.audit = 1 .. n + 1
        /\ \A i \in 1 .. n : gate'.audit[i] = gate.audit[i]
        /\ gate'.audit[n + 1] = r
    BY <1>0, <1>4, AppendFacts
  <2> HIDE DEF n
  <2>2. DenialsOf(b)'
          = IF r.action = b /\ r.decision = "Denied"
              THEN DenialsOf(b) \cup {n + 1} ELSE DenialsOf(b)
    <3>1. 1 .. n + 1 = (1 .. n) \cup {n + 1}
      BY <1>0
    <3> QED BY <1>0, <2>1, <3>1 DEF DenialsOf
  <2>3. n + 1 \notin DenialsOf(b)
    BY <1>0, <1>1
  <2>4. Cardinality(DenialsOf(b) \cup {n + 1}) = Cardinality(DenialsOf(b)) + 1
    BY <1>2, <2>3, FS_AddElement
  <2> QED BY <1>2, <2>2, <2>4
<1> QED BY <1>2, <1>3, <1>4

LEMMA HeldByEvolve ==
  ASSUME TypeOK, NEW b \in Actions, IsFiniteSet(HeldBy(b))
  PROVE  /\ Cardinality(HeldBy(b)) \in Nat
         /\ handles' = handles => HeldBy(b)' = HeldBy(b)
         /\ \A h \in Handles, a \in Actions :
              handles[h] = NoAction /\ handles' = [handles EXCEPT ![h] = a] =>
                /\ IsFiniteSet(HeldBy(b)')
                /\ Cardinality(HeldBy(b)')
                     = Cardinality(HeldBy(b)) + (IF a = b THEN 1 ELSE 0)
         /\ \A h \in Handles :
              handles' = Released(h) =>
                /\ IsFiniteSet(HeldBy(b)')
                /\ Cardinality(HeldBy(b)')
                     = Cardinality(HeldBy(b))
                         - (IF handles[h] = b THEN 1 ELSE 0)
<1>0. handles \in [Handles -> Actions \cup {NoAction}] /\ b # NoAction
  BY SlotsAssumption DEF TypeOK
<1>1. Cardinality(HeldBy(b)) \in Nat
  BY FS_CardinalityType
<1>2. handles' = handles => HeldBy(b)' = HeldBy(b)
  BY DEF HeldBy
<1>3. ASSUME NEW h \in Handles, NEW a \in Actions, handles[h] = NoAction,
             handles' = [handles EXCEPT ![h] = a]
      PROVE  /\ IsFiniteSet(HeldBy(b)')
             /\ Cardinality(HeldBy(b)')
                  = Cardinality(HeldBy(b)) + (IF a = b THEN 1 ELSE 0)
  <2>1. /\ h \notin HeldBy(b)
        /\ HeldBy(b)' = IF a = b THEN HeldBy(b) \cup {h} ELSE HeldBy(b)
    BY <1>0, <1>3 DEF HeldBy
  <2>2. /\ IsFiniteSet(HeldBy(b) \cup {h})
        /\ Cardinality(HeldBy(b) \cup {h}) = Cardinality(HeldBy(b)) + 1
    BY <2>1, FS_AddElement
  <2> QED BY <1>1, <2>1, <2>2
<1>4. ASSUME NEW h \in Handles, handles' = Released(h)
      PROVE  /\ IsFiniteSet(HeldBy(b)')
             /\ Cardinality(HeldBy(b)')
                  = Cardinality(HeldBy(b)) - (IF handles[h] = b THEN 1 ELSE 0)
  <2>1. HeldBy(b)' = IF handles[h] = b THEN HeldBy(b) \ {h} ELSE HeldBy(b)
    BY <1>0, <1>4 DEF HeldBy, Released
  <2>2. handles[h] = b => h \in HeldBy(b)
    BY DEF HeldBy
  <2>3. h \in HeldBy(b) =>
          /\ IsFiniteSet(HeldBy(b) \ {h})
          /\ Cardinality(HeldBy(b) \ {h}) = Cardinality(HeldBy(b)) - 1
    BY FS_RemoveElement
  <2> QED BY <1>1, <2>1, <2>2, <2>3
<1> QED BY <1>1, <1>2, <1>3, <1>4

\* What decide does to the audit log, entered with a gate that has this log:
\* nothing, or one approval.
LEMMA DecideAudit ==
  ASSUME TypeOK, NEW g \in Gate, NEW act \in Actions, g.audit = gate.audit,
         NEW ap \in ApprovalsOver(signed), DecideOn(g, act, ap)
  PROVE  \/ gate'.audit = gate.audit
         \/ \E r \in AuditRecord :
              /\ r.decision = "Approved"
              /\ gate'.audit = Append(gate.audit, r)
<1>1. SUFFICES ASSUME NEW at \in Times, gate' = AfterGrant(g, act, ap, at)
               PROVE  \E r \in AuditRecord :
                        /\ r.decision = "Approved"
                        /\ gate'.audit = Append(gate.audit, r)
  BY DecideShape
<1> DEFINE r == Record(at, act, "Approved", ap.pubkey)
<1>2. ap.nonce \in Nonces /\ ap.pubkey \in Pubkeys
  BY DEF ApprovalsOver
<1>3. r \in AuditRecord
  BY <1>2, RecordTyped
<1>4. r.decision = "Approved"
  BY DEF Record
<1>5. gate'.audit = Append(gate.audit, r)
  BY <1>1, <1>2, GrantEffect
<1> HIDE DEF r
<1> QED BY <1>3, <1>4, <1>5

\* For every value of the constants: deny consumes its handle, so an action is
\* denied no more often than it was submitted, live handles included.
THEOREM DenialsAreBounded == Spec => []DenialsBounded
<1>1. Init => DenialsInv
  <2> SUFFICES ASSUME Init, NEW b \in Actions
               PROVE  /\ IsFiniteSet(HeldBy(b))
                      /\ Cardinality(DenialsOf(b)) + Cardinality(HeldBy(b))
                           <= submissions[b]
    BY DEF DenialsInv
  <2>1. HeldBy(b) = {} /\ DenialsOf(b) = {} /\ submissions[b] = 0
    BY SlotsAssumption DEF Init, NewGate, HeldBy, DenialsOf
  <2> QED BY <2>1, FS_EmptySet
<1>2. TypeOK /\ DenialsInv /\ [Next]_vars => DenialsInv'
  <2> SUFFICES ASSUME TypeOK, DenialsInv, [Next]_vars, NEW b \in Actions
               PROVE  /\ IsFiniteSet(HeldBy(b)')
                      /\ Cardinality(DenialsOf(b)') + Cardinality(HeldBy(b)')
                           <= submissions'[b]
    BY DEF DenialsInv
  <2> DEFINE Kept == /\ IsFiniteSet(HeldBy(b)')
                     /\ Cardinality(DenialsOf(b)') + Cardinality(HeldBy(b)')
                          <= submissions'[b]
             Unrecorded ==
               \/ gate'.audit = gate.audit
               \/ \E r \in AuditRecord :
                    /\ r.decision = "Approved"
                    /\ gate'.audit = Append(gate.audit, r)
  <2>0. /\ gate \in Gate /\ submissions \in [Actions -> Nat]
        /\ IsFiniteSet(HeldBy(b))
        /\ Cardinality(DenialsOf(b)) \in Nat /\ Cardinality(HeldBy(b)) \in Nat
        /\ Cardinality(DenialsOf(b)) + Cardinality(HeldBy(b)) <= submissions[b]
    BY DenialsOfEvolve, HeldByEvolve DEF DenialsInv, TypeOK
  <2>1. Unrecorded => Cardinality(DenialsOf(b)') = Cardinality(DenialsOf(b))
    <3>1. gate'.audit = gate.audit => DenialsOf(b)' = DenialsOf(b)
      BY DenialsOfEvolve
    <3>2. ASSUME NEW r \in AuditRecord, r.decision = "Approved",
                 gate'.audit = Append(gate.audit, r)
          PROVE  Cardinality(DenialsOf(b)') = Cardinality(DenialsOf(b))
      <4>1. Cardinality(DenialsOf(b)')
              = Cardinality(DenialsOf(b))
                  + (IF r.action = b /\ r.decision = "Denied" THEN 1 ELSE 0)
        BY <3>2, DenialsOfEvolve
      <4> QED BY <2>0, <3>2, <4>1
    <3> QED BY <3>1, <3>2
  <2>2. handles' = handles => HeldBy(b)' = HeldBy(b)
    BY <2>0, HeldByEvolve
  <2>3. \A a \in Actions :
          submissions' = Counted(a) =>
            submissions'[b] = submissions[b] + (IF a = b THEN 1 ELSE 0)
    BY <2>0 DEF Counted
  <2>4. ASSUME gate' = gate, handles' = handles, submissions' = submissions
        PROVE  Kept
    BY <2>0, <2>1, <2>2, <2>4
  <2>5. ASSUME NEW h \in Handles, NEW a \in Actions, Submit(h, a)
        PROVE  Kept
    <3>1. gate'.audit = gate.audit
      BY <2>0, <2>5, SubmitEffect DEF Submit
    <3>2. /\ IsFiniteSet(HeldBy(b)')
          /\ Cardinality(HeldBy(b)')
               = Cardinality(HeldBy(b)) + (IF a = b THEN 1 ELSE 0)
      BY <2>0, <2>5, HeldByEvolve DEF Submit
    <3>3. submissions'[b] = submissions[b] + (IF a = b THEN 1 ELSE 0)
      BY <2>3, <2>5 DEF Submit
    <3> QED BY <2>0, <2>1, <3>1, <3>2, <3>3
  <2>6. ASSUME NEW h \in Handles, NEW ap \in ApprovalsOver(signed),
               Decide(h, ap)
        PROVE  Kept
    <3>1. handles[h] \in Actions /\ DecideOn(gate, handles[h], ap)
            /\ handles' = handles /\ submissions' = submissions
      BY <2>6 DEF Decide, TypeOK
    <3>2. Unrecorded
      BY <2>0, <3>1, DecideAudit
    <3> QED BY <2>0, <2>1, <2>2, <3>1, <3>2
  <2>7. ASSUME NEW a \in Actions, NEW ap \in ApprovalsOver(signed),
               SubmitAndDecide(a, ap)
        PROVE  Kept
    <3> DEFINE g == SubmitTo(gate, a)
    <3>1. g \in Gate /\ g.audit = gate.audit
      BY <2>0, SubmitEffect
    <3>2. DecideOn(g, a, ap) /\ handles' = handles /\ submissions' = Counted(a)
      BY <2>7 DEF SubmitAndDecide
    <3> HIDE DEF g
    <3>3. Unrecorded
      BY <3>1, <3>2, DecideAudit
    <3>4. submissions'[b] = submissions[b] + (IF a = b THEN 1 ELSE 0)
      BY <2>3, <3>2
    <3> QED BY <2>0, <2>1, <2>2, <3>2, <3>3, <3>4
  <2>8. ASSUME NEW h \in Handles, Deny(h)
        PROVE  Kept
    <3> DEFINE a == handles[h]
    <3>1. /\ a \in Actions /\ handles' = Released(h)
          /\ submissions' = submissions
      BY <2>8 DEF Deny, TypeOK
    <3>2. PICK at \in Readings(now) : gate' = AfterDeny(gate, a, at)
      BY <2>8 DEF Deny
    <3>3. at \in Times
      BY ReadingsInTimes DEF TypeOK
    <3> DEFINE r == Record(at, a, "Denied", NoSigner)
    <3>4. r \in AuditRecord
      BY <3>1, <3>3, RecordTyped
    <3>5. r.action = a /\ r.decision = "Denied"
      BY DEF Record
    <3>6. gate'.audit = Append(gate.audit, r)
      BY <2>0, <3>1, <3>2, <3>3, DenyEffect
    <3>7. /\ IsFiniteSet(HeldBy(b)')
          /\ Cardinality(HeldBy(b)')
               = Cardinality(HeldBy(b)) - (IF a = b THEN 1 ELSE 0)
      BY <2>0, <3>1, HeldByEvolve
    <3> HIDE DEF r, a
    <3>8. Cardinality(DenialsOf(b)')
            = Cardinality(DenialsOf(b)) + (IF a = b THEN 1 ELSE 0)
      BY <3>4, <3>5, <3>6, DenialsOfEvolve
    <3> QED BY <2>0, <3>1, <3>7, <3>8
  <2>9. ASSUME NEW h \in Handles, DropHandle(h)
        PROVE  Kept
    <3>1. /\ handles' = Released(h) /\ submissions' = submissions
          /\ gate'.audit = gate.audit
      BY <2>9 DEF DropHandle
    <3>2. /\ IsFiniteSet(HeldBy(b)')
          /\ Cardinality(HeldBy(b)')
               = Cardinality(HeldBy(b)) - (IF handles[h] = b THEN 1 ELSE 0)
      BY <2>0, <3>1, HeldByEvolve
    <3> QED BY <2>0, <2>1, <3>1, <3>2
  <2>10. CASE Tick \/ Sign \/ UNCHANGED vars
    BY <2>4, <2>10 DEF Tick, Sign, vars
  <2> QED BY <2>5, <2>6, <2>7, <2>8, <2>9, <2>10 DEF Next
<1>3. DenialsInv => DenialsBounded
  BY DEF DenialsInv, DenialsBounded, DenialsOf, HeldBy
<1> QED BY <1>1, <1>2, <1>3, TypeCorrect, PTL DEF Spec

----------------------------------------------------------------------------
(* Expiry, when the clock never steps back.                                *)

RecordsDated == \A i \in DOMAIN gate.audit : gate.audit[i].at_unix <= now

\* For every set of times and a monotonic clock, no grant follows a record
\* dated after the granted approval's expiry.
THEOREM GrantsRespectExpiry ==
  ASSUME MonotonicClock
  PROVE  Spec => []ExpiryRespected
<1> DEFINE Inv == RecordsDated /\ ExpiryRespected
<1>1. Init => Inv
  BY DEF Init, NewGate, RecordsDated, ExpiryRespected, Approvals
<1>2. TypeOK' /\ GrantInv /\ Inv /\ [Next]_vars => Inv'
  <2> SUFFICES ASSUME TypeOK', GrantInv, Inv, [Next]_vars PROVE Inv'
    OBVIOUS
  <2> DEFINE n == Len(gate.audit)
  <2>0. /\ gate.audit \in Seq(AuditRecord) /\ n \in Nat
        /\ evidence \in Seq(SignedMessage \cup {NoEvidence})
        /\ Len(evidence) = n
        /\ Approvals \subseteq 1 .. n
        /\ DOMAIN gate.audit = 1 .. n
    BY GrantedIndices DEF GrantInv, TypeOK, Gate, GrantAuthorised
  <2>1. /\ now \in Nat /\ Readings(now) \subseteq Times /\ Times \subseteq Nat
        /\ \A u \in Readings(now) : u \in Nat /\ now <= u
        /\ \A u \in Readings(now), i \in 1 .. n : gate.audit[i].at_unix <= u
        /\ \A i \in 1 .. n : /\ gate.audit[i].at_unix \in Nat
                              /\ gate.audit[i].at_unix <= now
    <3>1. \A i \in 1 .. n : gate.audit[i] \in AuditRecord
      BY <2>0
    <3>2. now \in Times
      BY DEF GrantInv, TypeOK
    <3>3. now \in Nat /\ Readings(now) \subseteq Times
            /\ \A u \in Readings(now) : u \in Nat /\ now <= u
      BY <3>2, TimesAssumption DEF Readings
    <3>4. \A i \in 1 .. n : /\ gate.audit[i].at_unix \in Nat
                            /\ gate.audit[i].at_unix <= now
      BY <2>0, <3>1, TimesAssumption DEF RecordsDated, AuditRecord
    <3>5. ASSUME NEW u \in Readings(now), NEW i \in 1 .. n
          PROVE  gate.audit[i].at_unix <= u
      BY <3>3, <3>4
    <3> QED BY <3>3, <3>4, <3>5, TimesAssumption
  <2>2. CASE QuietShape
    <3>1. Approvals' = Approvals
      BY <2>0, <2>2, GrantedIndices DEF GrantInv
    <3>2. /\ gate'.audit = gate.audit /\ evidence' = evidence
          /\ now' = now \/ now' \in Readings(now)
      BY <2>2 DEF QuietShape
    <3> HIDE DEF n
    <3>3. RecordsDated'
      BY <2>0, <2>1, <3>2 DEF RecordsDated
    <3>4. ExpiryRespected'
      BY <3>1, <3>2 DEF ExpiryRespected
    <3> QED BY <3>3, <3>4
  <2>3. ASSUME NEW m \in signed, NEW at \in Readings(now), GrantShape(m, at)
        PROVE  Inv'
    <3>1. /\ Approvals' = Approvals \cup {n + 1} /\ evidence'[n + 1] = m
      BY <2>0, <2>1, <2>3, GrantedIndices DEF GrantInv
    <3>2. /\ gate'.audit
               = Append(gate.audit, Record(at, m.action, "Approved", m.signer))
          /\ evidence' = Append(evidence, m)
          /\ now' = at /\ ~ (now > m.expires_at_unix)
      BY <2>3 DEF GrantShape
    <3>3. Record(at, m.action, "Approved", m.signer).at_unix = at
      BY DEF Record
    <3>4. /\ DOMAIN gate'.audit = 1 .. n + 1
          /\ \A i \in 1 .. n : gate'.audit[i] = gate.audit[i]
          /\ \A i \in 1 .. n : evidence'[i] = evidence[i]
          /\ gate'.audit[n + 1].at_unix = at
      BY <2>0, <3>2, <3>3, AppendFacts
    <3>5. m.expires_at_unix \in Nat
      BY TimesAssumption DEF GrantInv, TypeOK, SignedMessage
    <3> HIDE DEF n
    <3>6. RecordsDated'
      BY <2>0, <2>1, <3>2, <3>4 DEF RecordsDated
    <3>7. ExpiryRespected'
      BY <2>0, <2>1, <3>1, <3>2, <3>4, <3>5
         DEF RecordsDated, ExpiryRespected
    <3> QED BY <3>6, <3>7
  <2>4. ASSUME NEW a \in Actions, NEW at \in Readings(now), DenyShape(a, at)
        PROVE  Inv'
    <3>1. Approvals' = Approvals
      BY <2>0, <2>1, <2>4, GrantedIndices DEF GrantInv
    <3>2. /\ gate'.audit = Append(gate.audit, Record(at, a, "Denied", NoSigner))
          /\ evidence' = Append(evidence, NoEvidence) /\ now' = at
      BY <2>4 DEF DenyShape
    <3>3. Record(at, a, "Denied", NoSigner).at_unix = at
      BY DEF Record
    <3>4. /\ DOMAIN gate'.audit = 1 .. n + 1
          /\ \A i \in 1 .. n : gate'.audit[i] = gate.audit[i]
          /\ \A i \in 1 .. n : evidence'[i] = evidence[i]
          /\ gate'.audit[n + 1].at_unix = at
      BY <2>0, <3>2, <3>3, AppendFacts
    <3> HIDE DEF n
    <3>5. RecordsDated'
      BY <2>0, <2>1, <3>2, <3>4 DEF RecordsDated
    <3>6. ExpiryRespected'
      BY <2>0, <2>1, <3>1, <3>4 DEF ExpiryRespected
    <3> QED BY <3>5, <3>6
  <2> QED BY <2>2, <2>3, <2>4, StepShape DEF GrantInv
<1>3. Inv => ExpiryRespected
  OBVIOUS
<1> HIDE DEF Inv
<1> QED BY <1>1, <1>2, <1>3, TypeCorrect, GrantInvariant, PTL DEF Spec
----------------------------------------------------------------------------
(* The gate implements the ledger.                                         *)

GrantedMessages == {evidence[i] : i \in Approvals}

Budget == [a \in Actions |-> submissions[a] - Cardinality(GrantsOf(a))]

LEMMA LedgerNextUnfolds ==
  [Ledger!Next]_(Ledger!vars) <=>
    \/ /\ \E m \in SignedMessage : signed' = signed \cup {m}
       /\ GrantedMessages' = GrantedMessages /\ Budget' = Budget
    \/ \E a \in Actions :
         /\ Budget' = [Budget EXCEPT ![a] = @ + 1]
         /\ signed' = signed /\ GrantedMessages' = GrantedMessages
    \/ \E m \in signed :
         /\ m.signer \in AllowlistedSigners
         /\ \A g \in GrantedMessages : g.nonce # m.nonce
         /\ GrantedMessages' = GrantedMessages \cup {m}
         /\ signed' = signed
         /\ \/ /\ Budget[m.action] > 0
               /\ Budget' = [Budget EXCEPT ![m.action] = @ - 1]
            \/ Budget' = Budget
    \/ signed' = signed /\ GrantedMessages' = GrantedMessages
         /\ Budget' = Budget
  BY DEF Ledger!Next, Ledger!vars, Ledger!Issue, Ledger!Submit, Ledger!Grant,
         Ledger!SubmitAndGrant, Ledger!Authorises, GrantedMessages, Budget

\* The messages behind the grants: unchanged but for a grant, which adds its
\* own, and that one has a nonce none of the others has.
LEMMA GrantedMessagesEvolve ==
  ASSUME GrantInv
  PROVE  /\ QuietShape => GrantedMessages' = GrantedMessages
         /\ \A a \in Actions, at \in Times :
              DenyShape(a, at) => GrantedMessages' = GrantedMessages
         /\ \A m \in signed, at \in Times :
              GrantShape(m, at) =>
                /\ GrantedMessages' = GrantedMessages \cup {m}
                /\ \A g \in GrantedMessages : g.nonce # m.nonce
<1> DEFINE n == Len(gate.audit)
<1>0. /\ TypeOK /\ Len(evidence) = n /\ n \in Nat
      /\ evidence \in Seq(SignedMessage \cup {NoEvidence})
  BY DEF GrantInv, TypeOK, Gate, GrantAuthorised
<1>1. Approvals \subseteq 1 .. n
  BY <1>0, GrantedIndices
<1>2. QuietShape => GrantedMessages' = GrantedMessages
  BY <1>0, GrantedIndices DEF QuietShape, GrantedMessages
<1>3. ASSUME NEW a \in Actions, NEW at \in Times, DenyShape(a, at)
      PROVE  GrantedMessages' = GrantedMessages
  <2>1. Approvals' = Approvals
    BY <1>0, <1>3, GrantedIndices
  <2>2. \A i \in 1 .. n : evidence'[i] = evidence[i]
    BY <1>0, <1>3, AppendFacts DEF DenyShape
  <2> QED BY <1>1, <2>1, <2>2 DEF GrantedMessages
<1>4. ASSUME NEW m \in signed, NEW at \in Times, GrantShape(m, at)
      PROVE  /\ GrantedMessages' = GrantedMessages \cup {m}
             /\ \A g \in GrantedMessages : g.nonce # m.nonce
  <2>1. Approvals' = Approvals \cup {n + 1} /\ evidence'[n + 1] = m
    BY <1>0, <1>4, GrantedIndices
  <2>2. \A i \in 1 .. n : evidence'[i] = evidence[i]
    BY <1>0, <1>4, AppendFacts DEF GrantShape
  <2>3. GrantedMessages' = GrantedMessages \cup {m}
    <3> HIDE DEF n
    <3> QED BY <1>1, <2>1, <2>2 DEF GrantedMessages
  <2>4. m.nonce \notin {evidence[i].nonce : i \in Approvals}
    BY <1>4 DEF GrantShape, GrantInv, BurnedAreGranted
  <2> QED BY <2>3, <2>4 DEF GrantedMessages
<1> QED BY <1>2, <1>3, <1>4

LEMMA LedgerQuiet ==
  ASSUME GrantInv, QuietShape
  PROVE  [Ledger!Next]_(Ledger!vars)
<1>1. GrantedMessages' = GrantedMessages
  BY GrantedMessagesEvolve
<1>2. \A b \in Actions : GrantsOf(b)' = GrantsOf(b)
  BY GrantsOfEvolve
<1>3. submissions \in [Actions -> Nat]
        /\ \A b \in Actions : Cardinality(GrantsOf(b)) \in Nat
  BY GrantsOfEvolve DEF GrantInv, TypeOK
<1>4. CASE submissions' = submissions
  <2>1. Budget' = Budget
    BY <1>2, <1>4 DEF Budget
  <2>2. signed' = signed \/ \E m \in SignedMessage : signed' = signed \cup {m}
    BY DEF QuietShape
  <2> QED BY <1>1, <2>1, <2>2, LedgerNextUnfolds
<1>5. ASSUME NEW a \in Actions, signed' = signed, submissions' = Counted(a)
      PROVE  [Ledger!Next]_(Ledger!vars)
  <2>1. Budget' = [Budget EXCEPT ![a] = @ + 1]
    <3>1. \A b \in Actions :
            submissions'[b] = IF b = a THEN submissions[b] + 1 ELSE submissions[b]
      BY <1>3, <1>5 DEF Counted
    <3>2. \A b \in Actions :
            submissions'[b] - Cardinality(GrantsOf(b)')
              = IF b = a THEN submissions[b] - Cardinality(GrantsOf(b)) + 1
                ELSE submissions[b] - Cardinality(GrantsOf(b))
      BY <1>2, <1>3, <3>1
    <3> QED BY <3>2 DEF Budget
  <2> QED BY <1>1, <1>5, <2>1, LedgerNextUnfolds
<1> QED BY <1>4, <1>5 DEF QuietShape

LEMMA LedgerGrant ==
  ASSUME GrantInv, OneGrantPerSubmission, NEW m \in signed, NEW at \in Times,
         GrantShape(m, at)
  PROVE  [Ledger!Next]_(Ledger!vars)
<1>1. /\ GrantedMessages' = GrantedMessages \cup {m}
      /\ \A g \in GrantedMessages : g.nonce # m.nonce
  BY GrantedMessagesEvolve
<1>2. \A b \in Actions :
        /\ Cardinality(GrantsOf(b)) \in Nat
        /\ Cardinality(GrantsOf(b)')
             = Cardinality(GrantsOf(b)) + (IF m.action = b THEN 1 ELSE 0)
  BY GrantsOfEvolve
<1>3. submissions \in [Actions -> Nat] /\ m.action \in Actions
  BY DEF GrantInv, TypeOK, SignedMessage
<1>4. signed' = signed /\ m.signer \in AllowlistedSigners
  BY DEF GrantShape
<1>5. CASE m.action \in gate.pending /\ submissions' = submissions
  <2>1. Budget' = [Budget EXCEPT ![m.action] = @ - 1]
    <3>1. \A b \in Actions :
            submissions'[b] - Cardinality(GrantsOf(b)')
              = IF b = m.action
                  THEN submissions[b] - Cardinality(GrantsOf(b)) - 1
                  ELSE submissions[b] - Cardinality(GrantsOf(b))
      BY <1>2, <1>3, <1>5
    <3> QED BY <3>1 DEF Budget
  <2>2. Cardinality(GrantsOf(m.action)) + 1 <= submissions[m.action]
    BY <1>3, <1>5 DEF OneGrantPerSubmission
  <2>3. Budget[m.action] > 0
    BY <1>2, <1>3, <2>2 DEF Budget
  <2> QED BY <1>1, <1>4, <2>1, <2>3, LedgerNextUnfolds
<1>6. CASE submissions' = Counted(m.action)
  <2>1. Budget' = Budget
    <3>1. \A b \in Actions :
            submissions'[b] - Cardinality(GrantsOf(b)')
              = submissions[b] - Cardinality(GrantsOf(b))
      BY <1>2, <1>3, <1>6 DEF Counted
    <3> QED BY <3>1 DEF Budget
  <2> QED BY <1>1, <1>4, <2>1, LedgerNextUnfolds
<1> QED BY <1>5, <1>6 DEF GrantShape

LEMMA LedgerDeny ==
  ASSUME GrantInv, NEW a \in Actions, NEW at \in Times, DenyShape(a, at)
  PROVE  [Ledger!Next]_(Ledger!vars)
<1>1. GrantedMessages' = GrantedMessages
  BY GrantedMessagesEvolve
<1>2. \A b \in Actions : GrantsOf(b)' = GrantsOf(b)
  BY GrantsOfEvolve
<1>3. Budget' = Budget /\ signed' = signed
  BY <1>2 DEF Budget, DenyShape
<1> QED BY <1>1, <1>3, LedgerNextUnfolds

\* For every value of the constants the gate refines the approval ledger:
\* whatever the calls, a grant is a ledger grant and nothing else is.
THEOREM GateImplementsLedger == Spec => ImplementsLedger
<1>1. Init => Ledger!Init
  BY FS_EmptySet DEF Init, NewGate, Ledger!Init, Approvals, GrantsOf
<1>2. TypeOK /\ GrantInv /\ OneGrantPerSubmission /\ [Next]_vars
        => [Ledger!Next]_(Ledger!vars)
  <2> SUFFICES ASSUME TypeOK, GrantInv, OneGrantPerSubmission, [Next]_vars
               PROVE  [Ledger!Next]_(Ledger!vars)
    OBVIOUS
  <2>1. Readings(now) \subseteq Times
    BY ReadingsInTimes DEF TypeOK
  <2> QED BY <2>1, StepShape, LedgerQuiet, LedgerGrant, LedgerDeny
<1> QED BY <1>1, <1>2, TypeCorrect, GrantInvariant, GrantsBoundedBySubmissions,
           PTL DEF Spec, ImplementsLedger, Ledger!Spec
----------------------------------------------------------------------------
(* A grantable approval is disabled only by time or by a decision.         *)

\* What disables act and ap in a step.
Disabled(act, ap) ==
  \/ now' > ap.expires_at_unix
  \/ \E i \in DOMAIN gate'.audit :
       /\ i > Len(gate.audit)
       /\ \/ gate'.audit[i].action = act
          \/ evidence'[i] # NoEvidence /\ evidence'[i].nonce = ap.nonce

LEMMA GrantableUnfolds ==
  ASSUME NEW act, NEW ap
  PROVE  Grantable(act, ap) <=>
           /\ act \in gate.pending
           /\ ap.pubkey \in AllowlistedSigners
           /\ ~ (now > ap.expires_at_unix)
           /\ ap.nonce \notin gate.used_nonces
           /\ ap.pubkey \in DecodableKeys
           /\ ap.signature = Message(act, ap)
  BY DEF Grantable, Grants, DecideOutcome, NotPending, SignerAllowlisted,
         ExpiredAt, NonceUsed, SignatureVerifies, VerifiedBytes

LEMMA StillGrantable ==
  ASSUME NEW act, NEW ap, Grantable(act, ap), ~ (now' > ap.expires_at_unix),
         act \in gate'.pending, ap.nonce \notin gate'.used_nonces
  PROVE  Grantable(act, ap)'
<1>1. Grantable(act, ap)' <=>
           /\ act \in gate'.pending
           /\ ap.pubkey \in AllowlistedSigners
           /\ ~ (now' > ap.expires_at_unix)
           /\ ap.nonce \notin gate'.used_nonces
           /\ ap.pubkey \in DecodableKeys
           /\ ap.signature = Message(act, ap)
  BY DEF Grantable, Grants, DecideOutcome, NotPending, SignerAllowlisted,
         ExpiredAt, NonceUsed, SignatureVerifies, VerifiedBytes
<1> QED BY <1>1, GrantableUnfolds

\* For every value of the constants, no refused call, submission, dropped
\* handle or decision about something else disables a usable approval.
THEOREM UsableApprovalsStayUsable == Spec => ApprovalStaysUsable
<1>1. TypeOK /\ GrantInv /\ [Next]_vars =>
        \A act \in Actions, ap \in ApprovalsOver(signed) :
          Grantable(act, ap) /\ ~ Grantable(act, ap)' => Disabled(act, ap)
  <2> SUFFICES ASSUME TypeOK, GrantInv, [Next]_vars, NEW act \in Actions,
                      NEW ap \in ApprovalsOver(signed),
                      Grantable(act, ap), ~ Disabled(act, ap)
               PROVE  Grantable(act, ap)'
    OBVIOUS
  <2> DEFINE n == Len(gate.audit)
  <2>0. /\ gate.audit \in Seq(AuditRecord) /\ n \in Nat
        /\ evidence \in Seq(SignedMessage \cup {NoEvidence})
        /\ Len(evidence) = n
        /\ Readings(now) \subseteq Times
    BY ReadingsInTimes DEF GrantInv, TypeOK, Gate, GrantAuthorised
  <2>1. /\ act \in gate.pending /\ ap.nonce \notin gate.used_nonces
        /\ ~ (now' > ap.expires_at_unix)
    BY GrantableUnfolds DEF Disabled
  <2>2. CASE QuietShape
    BY <2>1, <2>2, StillGrantable DEF QuietShape
  <2>3. ASSUME NEW m \in signed, NEW at \in Times, GrantShape(m, at)
        PROVE  Grantable(act, ap)'
    <3> DEFINE r == Record(at, m.action, "Approved", m.signer)
    <3>1. /\ gate'.audit = Append(gate.audit, r) /\ evidence' = Append(evidence, m)
          /\ gate'.pending = gate.pending \ {m.action}
          /\ gate'.used_nonces = gate.used_nonces \cup {m.nonce}
      BY <2>3 DEF GrantShape
    <3>2. r.action = m.action
      BY DEF Record
    <3>3. m # NoEvidence
      BY SlotsAssumption DEF GrantInv, TypeOK
    <3> HIDE DEF r
    <3>4. /\ n + 1 \in DOMAIN gate'.audit /\ n + 1 > Len(gate.audit)
          /\ gate'.audit[n + 1] = r /\ evidence'[n + 1] = m
      BY <2>0, <3>1, AppendFacts
    <3>5. m.action # act /\ m.nonce # ap.nonce
      BY <3>2, <3>3, <3>4 DEF Disabled
    <3> QED BY <2>1, <3>1, <3>5, StillGrantable
  <2>4. ASSUME NEW a \in Actions, NEW at \in Times, DenyShape(a, at)
        PROVE  Grantable(act, ap)'
    <3> DEFINE r == Record(at, a, "Denied", NoSigner)
    <3>1. /\ gate'.audit = Append(gate.audit, r)
          /\ gate'.pending = gate.pending \ {a}
          /\ gate'.used_nonces = gate.used_nonces
      BY <2>4 DEF DenyShape
    <3>2. r.action = a
      BY DEF Record
    <3> HIDE DEF r
    <3>3. /\ n + 1 \in DOMAIN gate'.audit /\ n + 1 > Len(gate.audit)
          /\ gate'.audit[n + 1] = r
      BY <2>0, <3>1, AppendFacts
    <3>4. a # act
      BY <3>2, <3>3 DEF Disabled
    <3> QED BY <2>1, <3>1, <3>4, StillGrantable
  <2> QED BY <2>0, <2>2, <2>3, <2>4, StepShape
<1> QED BY <1>1, TypeCorrect, GrantInvariant, PTL
        DEF Spec, ApprovalStaysUsable, Disabled
=============================================================================
