------------------------- MODULE GateCallers_proofs -------------------------
(***************************************************************************)
(* Theorems about GateCallers, for every set of callers, actions, keys and *)
(* nonces and any number of restarts.                                      *)
(***************************************************************************)
EXTENDS GateCallers, TLAPS

\* The body of request_human_decision and request_spend either grants, which
\* burns a nonce this gate had not burned and clears the pending entry, or
\* refuses, which leaves the submitted action pending and burns nothing.
GrantedAs(c, a, m) ==
  /\ m \in SignedMessage
  /\ m.nonce \notin gates[c].used_nonces
  /\ last' = [last EXCEPT ![c][a] = "Approved"]
  /\ grants' = Append(grants, <<c, m, restarts>>)
  /\ \E g \in Gate :
       /\ g.pending = gates[c].pending \ {a}
       /\ g.used_nonces = gates[c].used_nonces \cup {m.nonce}
       /\ gates' = [gates EXCEPT ![c] = g]

RefusedAs(c, a, error) ==
  /\ last' = [last EXCEPT ![c][a] = error]
  /\ grants' = grants
  /\ \E g \in Gate :
       /\ g.pending = gates[c].pending \cup {a}
       /\ g.used_nonces = gates[c].used_nonces
       /\ gates' = [gates EXCEPT ![c] = g]

\* What decide has checked when it approves (gate.rs:165-181).
LEMMA ApprovedMeans ==
  ASSUME NEW g, NEW act \in Actions, NEW ap \in ApprovalsOver(signed), NEW t,
         TypeOK, DecideOutcome(g, act, ap, t) = "Approved"
  PROVE  /\ ap.nonce \in Nonces /\ ap.pubkey \in Pubkeys
         /\ ap.nonce \notin g.used_nonces
         /\ ap.signature \in SignedMessage /\ ap.signature.nonce = ap.nonce
<1>1. /\ ap.nonce \notin g.used_nonces
      /\ ap.pubkey \in DecodableKeys
      /\ ap.signature = Message(act, ap)
  BY DEF DecideOutcome, NonceUsed, SignatureVerifies, VerifiedBytes
<1>2. /\ ap.nonce \in Nonces /\ ap.pubkey \in Pubkeys
      /\ ap.expires_at_unix \in Times
  BY DEF ApprovalsOver
<1>3. Message(act, ap) \in SignedMessage /\ Message(act, ap).nonce = ap.nonce
  BY <1>1, <1>2 DEF Message, SignedMessage
<1> QED
  BY <1>1, <1>2, <1>3

LEMMA OutcomeTyped ==
  ASSUME NEW g, NEW act, NEW ap, NEW t
  PROVE  DecideOutcome(g, act, ap, t) \in GateError \cup {"Approved"}
  BY DEF DecideOutcome, GateError

LEMMA CallShape ==
  ASSUME TypeOK, NEW c \in Callers, NEW a \in Actions,
         NEW ap \in ApprovalsOver(signed), SubmitAndDecide(c, a, ap)
  PROVE  /\ requested' = [requested EXCEPT ![c][a] = @ + 1]
         /\ UNCHANGED <<signed, now, restarts>>
         /\ \/ \E m \in SignedMessage : GrantedAs(c, a, m)
            \/ \E error \in GateError : RefusedAs(c, a, error)
<1> DEFINE g == SubmitTo(gates[c], a)
           outcome == DecideOutcome(g, a, ap, now)
<1>1. /\ requested' = [requested EXCEPT ![c][a] = @ + 1]
      /\ UNCHANGED <<signed, now, restarts>>
      /\ last' = [last EXCEPT ![c][a] = outcome]
      /\ IF outcome = "Approved"
           THEN /\ gates' = [gates EXCEPT ![c] = AfterGrant(g, a, ap, now)]
                /\ grants' = Append(grants, <<c, ap.signature, restarts>>)
           ELSE /\ gates' = [gates EXCEPT ![c] = AfterRefusal(g, ap)]
                /\ UNCHANGED grants
  BY DEF SubmitAndDecide
<1>2. /\ g \in Gate
      /\ g.pending = gates[c].pending \cup {a}
      /\ g.used_nonces = gates[c].used_nonces
  BY DEF TypeOK, Gate, SubmitTo
<1>3. outcome \in GateError \cup {"Approved"}
  BY OutcomeTyped
<1>4. CASE outcome = "Approved"
  <2>1. /\ ap.nonce \in Nonces /\ ap.pubkey \in Pubkeys
        /\ ap.nonce \notin g.used_nonces
        /\ ap.signature \in SignedMessage /\ ap.signature.nonce = ap.nonce
    BY <1>4, ApprovedMeans
  <2> DEFINE h == AfterGrant(g, a, ap, now)
  <2> HIDE DEF g, outcome
  <2>2. /\ h \in Gate
        /\ h.pending = g.pending \ {a}
        /\ h.used_nonces = g.used_nonces \cup {ap.nonce}
    <3>1. Record(now, a, "Approved", ap.pubkey) \in AuditRecord
      BY <2>1 DEF Record, AuditRecord, TypeOK
    <3>2. Append(g.audit, Record(now, a, "Approved", ap.pubkey))
            \in Seq(AuditRecord)
      BY <1>2, <3>1 DEF Gate
    <3> QED
      BY <1>2, <2>1, <3>2 DEF AfterGrant, Gate
  <2>3. gates' = [gates EXCEPT ![c] = h]
        /\ grants' = Append(grants, <<c, ap.signature, restarts>>)
    BY <1>1, <1>4
  <2> HIDE DEF h
  <2>4. h.pending = gates[c].pending \ {a}
    BY <1>2, <2>2
  <2>5. GrantedAs(c, a, ap.signature)
    BY <1>1, <1>2, <1>4, <2>1, <2>2, <2>3, <2>4 DEF GrantedAs
  <2> QED
    BY <1>1, <2>1, <2>5
<1>5. CASE outcome # "Approved"
  <2>1. outcome \in GateError
    BY <1>3, <1>5
  <2>2. gates' = [gates EXCEPT ![c] = g] /\ grants' = grants
    BY <1>1, <1>5 DEF AfterRefusal
  <2> HIDE DEF g, outcome
  <2>3. RefusedAs(c, a, outcome)
    BY <1>1, <1>2, <2>2 DEF RefusedAs
  <2> QED
    BY <1>1, <2>1, <2>3
<1> QED
  BY <1>4, <1>5

\* Every step is one of four: the clock or a signing human, a restart, a call.
LEMMA StepShape ==
  ASSUME TypeOK, [Next]_vars
  PROVE  \/ /\ UNCHANGED <<gates, restarts, requested, last, grants>>
            /\ now' \in Times /\ signed' \subseteq SignedMessage
         \/ Restart
         \/ \E c \in Callers, a \in Actions :
              /\ requested' = [requested EXCEPT ![c][a] = @ + 1]
              /\ UNCHANGED <<signed, now, restarts>>
              /\ \/ \E m \in SignedMessage : GrantedAs(c, a, m)
                 \/ \E error \in GateError : RefusedAs(c, a, error)
<1>1. CASE Tick \/ Sign \/ UNCHANGED vars
  BY <1>1 DEF Tick, Sign, vars, TypeOK
<1>2. ASSUME NEW c \in Callers, NEW a \in Actions,
             NEW ap \in ApprovalsOver(signed), SubmitAndDecide(c, a, ap)
      PROVE  /\ requested' = [requested EXCEPT ![c][a] = @ + 1]
             /\ UNCHANGED <<signed, now, restarts>>
             /\ \/ \E m \in SignedMessage : GrantedAs(c, a, m)
                \/ \E error \in GateError : RefusedAs(c, a, error)
  BY <1>2, CallShape
<1>3. \A c \in Channels, a \in Actions, ap \in ApprovalsOver(signed) :
        RequestHumanDecision(c, a, ap) =>
          c \in Callers /\ SubmitAndDecide(c, a, ap)
  BY DEF RequestHumanDecision, Callers
<1>4. \A req \in SpendRequest, ap \in ApprovalsOver(signed) :
        RequestSpend(req, ap) =>
          /\ Payments \in Callers /\ SpendAction(req) \in Actions
          /\ SubmitAndDecide(Payments, SpendAction(req), ap)
  BY DEF RequestSpend, Callers, Actions, SpendActions
<1>5. CASE \E c \in Channels, a \in Actions, ap \in ApprovalsOver(signed) :
             RequestHumanDecision(c, a, ap)
  BY <1>2, <1>3, <1>5
<1>6. CASE \E req \in SpendRequest, ap \in ApprovalsOver(signed) :
             RequestSpend(req, ap)
  BY <1>2, <1>4, <1>6
<1> QED
  BY <1>1, <1>5, <1>6 DEF Next

----------------------------------------------------------------------------
\* The gates, the clock and the histories keep their types through calls,
\* refusals and restarts (gate.rs:114-194).
THEOREM TypeCorrect == Spec => []TypeOK
<1>0. NewGate \in Gate
  BY DEF NewGate, Gate
<1>1. Init => TypeOK
  BY <1>0, BoundsAssumption
     DEF Init, TypeOK, NewGates, NothingRequested, Outcomes
<1>2. TypeOK /\ [Next]_vars => TypeOK'
  <2> SUFFICES ASSUME TypeOK, [Next]_vars PROVE TypeOK'
    OBVIOUS
  <2>1. CASE /\ UNCHANGED <<gates, restarts, requested, last, grants>>
             /\ now' \in Times /\ signed' \subseteq SignedMessage
    BY <2>1 DEF TypeOK
  <2>2. CASE Restart
    BY <1>0, <2>2, BoundsAssumption
       DEF Restart, TypeOK, NewGates, NothingRequested, Outcomes
  <2>3. ASSUME NEW c \in Callers, NEW a \in Actions,
               requested' = [requested EXCEPT ![c][a] = @ + 1],
               UNCHANGED <<signed, now, restarts>>,
               \/ \E m \in SignedMessage : GrantedAs(c, a, m)
               \/ \E error \in GateError : RefusedAs(c, a, error)
        PROVE  TypeOK'
    <3>1. requested' \in [Callers -> [Actions -> Nat]]
      BY <2>3 DEF TypeOK
    <3>2. ASSUME NEW m \in SignedMessage, GrantedAs(c, a, m)
          PROVE  TypeOK'
      <4>1. grants' \in Seq(Callers \X SignedMessage \X (0 .. MaxRestarts))
        BY <3>2 DEF GrantedAs, TypeOK
      <4>2. gates' \in [Callers -> Gate]
        BY <3>2 DEF GrantedAs, TypeOK
      <4>3. last' \in [Callers -> [Actions -> Outcomes]]
        BY <3>2 DEF GrantedAs, TypeOK, Outcomes
      <4> QED
        BY <2>3, <3>1, <4>1, <4>2, <4>3 DEF TypeOK
    <3>3. ASSUME NEW error \in GateError, RefusedAs(c, a, error)
          PROVE  TypeOK'
      <4>1. gates' \in [Callers -> Gate]
        BY <3>3 DEF RefusedAs, TypeOK
      <4>2. last' \in [Callers -> [Actions -> Outcomes]]
        BY <3>3 DEF RefusedAs, TypeOK, Outcomes
      <4> QED
        BY <2>3, <3>1, <3>3, <4>1, <4>2 DEF TypeOK, RefusedAs
    <3> QED
      BY <2>3, <3>2, <3>3
  <2> QED
    BY <2>1, <2>2, <2>3, StepShape
<1> QED
  BY <1>1, <1>2, PTL DEF Spec

\* For every value of the constants, what a gate holds pending is exactly
\* what its caller was last refused (gate.rs:229-231).
THEOREM PendingLastRefused == Spec => []PendingIsLastRefused
<1>1. Init => PendingIsLastRefused
  BY DEF Init, NewGates, NewGate, NothingRequested, PendingIsLastRefused,
         GateError
<1>2. TypeOK /\ PendingIsLastRefused /\ [Next]_vars => PendingIsLastRefused'
  <2> SUFFICES ASSUME TypeOK, PendingIsLastRefused, [Next]_vars,
                      NEW c \in Callers
               PROVE  gates'[c].pending
                        = {b \in Actions : last'[c][b] \in GateError}
    BY DEF PendingIsLastRefused
  <2>0. /\ gates[c].pending = {b \in Actions : last[c][b] \in GateError}
        /\ gates \in [Callers -> Gate]
        /\ last \in [Callers -> [Actions -> Outcomes]]
        /\ "Approved" \notin GateError
    BY DEF PendingIsLastRefused, TypeOK, GateError
  <2>1. CASE UNCHANGED <<gates, restarts, requested, last, grants>>
    BY <2>0, <2>1
  <2>2. CASE Restart
    BY <2>2 DEF Restart, NewGates, NewGate, NothingRequested, GateError
  <2>3. ASSUME NEW d \in Callers, NEW a \in Actions,
               NEW m \in SignedMessage, GrantedAs(d, a, m)
        PROVE  gates'[c].pending
                 = {b \in Actions : last'[c][b] \in GateError}
    <3>1. CASE c = d
      <4>1. gates'[c].pending = gates[c].pending \ {a}
        BY <2>0, <2>3, <3>1 DEF GrantedAs
      <4>2. \A b \in Actions :
              last'[c][b] = IF b = a THEN "Approved" ELSE last[c][b]
        BY <2>0, <2>3, <3>1 DEF GrantedAs
      <4> QED
        BY <2>0, <4>1, <4>2
    <3>2. CASE c # d
      BY <2>0, <2>3, <3>2 DEF GrantedAs
    <3> QED
      BY <3>1, <3>2
  <2>4. ASSUME NEW d \in Callers, NEW a \in Actions,
               NEW error \in GateError, RefusedAs(d, a, error)
        PROVE  gates'[c].pending
                 = {b \in Actions : last'[c][b] \in GateError}
    <3>1. CASE c = d
      <4>1. gates'[c].pending = gates[c].pending \cup {a}
        BY <2>0, <2>4, <3>1 DEF RefusedAs
      <4>2. \A b \in Actions :
              last'[c][b] = IF b = a THEN error ELSE last[c][b]
        BY <2>0, <2>4, <3>1 DEF RefusedAs
      <4> QED
        BY <2>0, <4>1, <4>2
    <3>2. CASE c # d
      BY <2>0, <2>4, <3>2 DEF RefusedAs
    <3> QED
      BY <3>1, <3>2
  <2> QED
    BY <2>1, <2>2, <2>3, <2>4, StepShape
<1> QED
  BY <1>1, <1>2, TypeCorrect, PTL DEF Spec

----------------------------------------------------------------------------
(* Replays: a nonce granted in this life of the process is burned at its   *)
(* caller's gate, and no grant is of a later life than this.               *)

ReplayInv ==
  /\ \A i \in DOMAIN grants :
       /\ grants[i][3] <= restarts
       /\ grants[i][3] = restarts =>
            grants[i][2].nonce \in gates[grants[i][1]].used_nonces
  /\ ReplaysBounded

\* For every value of the constants: a caller grants one nonce at most once
\* per life of the process, so restarts are the only way to replay an approval
\* at the same gate (gate.rs:142, :174-176, :185).
THEOREM ReplaysAreBounded == Spec => []ReplaysBounded
<1>1. Init => ReplayInv
  BY DEF Init, ReplayInv, ReplaysBounded
<1>2. TypeOK /\ ReplayInv /\ [Next]_vars => ReplayInv'
  <2> SUFFICES ASSUME TypeOK, ReplayInv, [Next]_vars
               PROVE  ReplayInv'
    OBVIOUS
  <2>0. /\ restarts \in Nat
        /\ gates \in [Callers -> Gate]
        /\ grants \in Seq(Callers \X SignedMessage \X (0 .. MaxRestarts))
        /\ \A i \in DOMAIN grants :
             /\ grants[i] \in Callers \X SignedMessage \X (0 .. MaxRestarts)
             /\ grants[i][1] \in Callers
             /\ grants[i][3] \in Nat
    BY BoundsAssumption DEF TypeOK
  <2>1. CASE UNCHANGED <<gates, restarts, requested, last, grants>>
    BY <2>1 DEF ReplayInv, ReplaysBounded, Replayed
  <2>2. CASE Restart
    BY <2>0, <2>2 DEF Restart, ReplayInv, ReplaysBounded, Replayed
  <2>3. ASSUME NEW d \in Callers, NEW a \in Actions, restarts' = restarts,
               NEW m \in SignedMessage, GrantedAs(d, a, m)
        PROVE  ReplayInv'
    <3> DEFINE k == Len(grants)
    <3>1. /\ k \in Nat /\ DOMAIN grants = 1 .. k /\ DOMAIN grants' = 1 .. k + 1
          /\ \A i \in 1 .. k : grants'[i] = grants[i]
          /\ grants'[k + 1] = <<d, m, restarts>>
      BY <2>0, <2>3 DEF GrantedAs
    <3>2. m.nonce \notin gates[d].used_nonces
      BY <2>3 DEF GrantedAs
    <3>3. /\ gates'[d].used_nonces = gates[d].used_nonces \cup {m.nonce}
          /\ \A c \in Callers :
               gates[c].used_nonces \subseteq gates'[c].used_nonces
      BY <2>0, <2>3 DEF GrantedAs
    <3> HIDE DEF k
    <3>4. /\ grants'[k + 1][1] = d
          /\ grants'[k + 1][2] = m
          /\ grants'[k + 1][3] = restarts
      BY <3>1
    <3>5. ASSUME NEW i \in 1 .. k + 1
          PROVE  /\ grants'[i][3] <= restarts'
                 /\ grants'[i][3] = restarts' =>
                      grants'[i][2].nonce \in gates'[grants'[i][1]].used_nonces
      <4>1. CASE i = k + 1
        BY <2>0, <2>3, <3>3, <3>4, <4>1
      <4>2. CASE i \in 1 .. k
        BY <2>0, <2>3, <3>1, <3>3, <4>2 DEF ReplayInv
      <4> QED
        BY <3>1, <4>1, <4>2
    <3>6. ASSUME NEW i \in 1 .. k
          PROVE  ~ (/\ grants[i][1] = d /\ grants[i][2].nonce = m.nonce
                    /\ grants[i][3] = restarts)
      BY <3>1, <3>2 DEF ReplayInv
    <3>7. ASSUME NEW i \in 1 .. k + 1, NEW j \in 1 .. k + 1, Replayed(i, j)'
          PROVE  i = j
      <4>1. /\ grants'[i][1] = grants'[j][1]
            /\ grants'[i][2].nonce = grants'[j][2].nonce
            /\ grants'[i][3] = grants'[j][3]
        BY <3>7 DEF Replayed
      <4>2. CASE i \in 1 .. k /\ j \in 1 .. k
        BY <3>1, <4>1, <4>2 DEF ReplayInv, ReplaysBounded, Replayed
      <4>3. CASE i = k + 1 /\ j \in 1 .. k
        BY <3>1, <3>4, <3>6, <4>1, <4>3
      <4>4. CASE i \in 1 .. k /\ j = k + 1
        BY <3>1, <3>4, <3>6, <4>1, <4>4
      <4> QED
        BY <3>1, <4>2, <4>3, <4>4
    <3> QED
      BY <3>1, <3>5, <3>7 DEF ReplayInv, ReplaysBounded
  <2>4. ASSUME NEW d \in Callers, NEW a \in Actions, restarts' = restarts,
               NEW error \in GateError, RefusedAs(d, a, error)
        PROVE  ReplayInv'
    <3>1. grants' = grants
          /\ \A c \in Callers : gates'[c].used_nonces = gates[c].used_nonces
      BY <2>0, <2>4 DEF RefusedAs
    <3> QED
      BY <2>0, <2>4, <3>1 DEF ReplayInv, ReplaysBounded, Replayed
  <2> QED
    BY <2>1, <2>2, <2>3, <2>4, StepShape
<1>3. ReplayInv => ReplaysBounded
  BY DEF ReplayInv
<1> QED
  BY <1>1, <1>2, <1>3, TypeCorrect, PTL DEF Spec
=============================================================================
