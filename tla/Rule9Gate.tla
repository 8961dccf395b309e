----------------------------- MODULE Rule9Gate -----------------------------
(***************************************************************************)
(* One Rule9Gate, the callers that hold its PendingAction handles, the     *)
(* humans who sign, and the system clock.                                  *)
(*                                                                         *)
(* gate        the fields of the Rust struct                               *)
(* handles     the live PendingAction values (they cannot be cloned; deny  *)
(*             consumes one, decide borrows it, a caller may drop it)      *)
(* signed      every message some human has ever signed                    *)
(* now         what SystemTime::now() last returned                        *)
(* evidence    history: for each audit record the message that backed it   *)
(* submissions history: how often each action was submitted                *)
(***************************************************************************)
EXTENDS GateOps, FiniteSets

CONSTANTS
  Handles,         \* slots for live PendingAction values
  NoAction,        \* an empty slot
  NoEvidence,      \* evidence of a denial
  MonotonicClock,  \* TRUE: the clock never steps back (nor fails to 0)
  MaxSigned,       \* bound: messages humans sign in a behaviour
  MaxSubmissions   \* bound: calls of submit for one action

ASSUME SlotsAssumption ==
  /\ NoAction \notin Actions
  /\ NoEvidence \notin SignedMessage

ASSUME ClockAssumption == MonotonicClock \in BOOLEAN

ASSUME BoundsAssumption == MaxSigned \in Nat /\ MaxSubmissions \in Nat

VARIABLES gate, handles, signed, now, evidence, submissions

vars == <<gate, handles, signed, now, evidence, submissions>>

TypeOK ==
  /\ gate \in Gate
  /\ handles \in [Handles -> Actions \cup {NoAction}]
  /\ signed \subseteq SignedMessage
  /\ now \in Times
  /\ evidence \in Seq(SignedMessage \cup {NoEvidence})
  /\ submissions \in [Actions -> Nat]

Init ==
  /\ gate = NewGate
  /\ handles = [h \in Handles |-> NoAction]
  /\ signed = {}
  /\ now \in Times
  /\ evidence = << >>
  /\ submissions = [a \in Actions |-> 0]

----------------------------------------------------------------------------
(* The environment: the clock, and humans who sign messages.               *)

\* The values a later reading of the clock may return.
Readings(t) == IF MonotonicClock THEN {u \in Times : u >= t} ELSE Times

Tick ==
  /\ now' \in Readings(now) \ {now}
  /\ UNCHANGED <<gate, handles, signed, evidence, submissions>>

Sign ==
  /\ Cardinality(signed) < MaxSigned
  /\ \E m \in SignedMessage \ signed : signed' = signed \cup {m}
  /\ UNCHANGED <<gate, handles, now, evidence, submissions>>

----------------------------------------------------------------------------
(* Calls on the gate.  Each takes &mut self and so is one atomic step; the *)
(* clock may move between its two readings inside decide.                  *)

MaySubmit(a) == submissions[a] < MaxSubmissions

Counted(a) == [submissions EXCEPT ![a] = @ + 1]

Submit(h, a) ==
  /\ handles[h] = NoAction
  /\ MaySubmit(a)
  /\ gate' = SubmitTo(gate, a)
  /\ handles' = [handles EXCEPT ![h] = a]
  /\ submissions' = Counted(a)
  /\ UNCHANGED <<signed, now, evidence>>

\* The shared body of decide; the signed message behind a grant is its evidence.
DecideOn(g, act, ap) ==
  IF Grants(g, act, ap, now)
    THEN \E at \in Readings(now) :
           /\ gate' = AfterGrant(g, act, ap, at)
           /\ evidence' = Append(evidence, ap.signature)
           /\ now' = at
    ELSE /\ gate' = AfterRefusal(g, ap)
         /\ UNCHANGED <<evidence, now>>

Decide(h, ap) ==
  /\ handles[h] # NoAction
  /\ DecideOn(gate, handles[h], ap)
  /\ UNCHANGED <<handles, signed, submissions>>

\* GateCaller for Rule9Gate: the handle lives only inside the call, so a
\* refusal leaves the action pending with nobody holding it.
SubmitAndDecide(a, ap) ==
  /\ MaySubmit(a)
  /\ DecideOn(SubmitTo(gate, a), a, ap)
  /\ submissions' = Counted(a)
  /\ UNCHANGED <<handles, signed>>

NotReleased(h) == handles                     \* faulty: handle kept

Released(h) == [handles EXCEPT ![h] = NoAction]

Deny(h) ==
  /\ handles[h] # NoAction
  /\ \E at \in Readings(now) :
       /\ gate' = AfterDeny(gate, handles[h], at)
       /\ now' = at
  /\ evidence' = Append(evidence, NoEvidence)
  /\ handles' = Released(h)
  /\ UNCHANGED <<signed, submissions>>

\* The caller lets its handle go out of scope; the gate is not told.
DropHandle(h) ==
  /\ handles[h] # NoAction
  /\ handles' = Released(h)
  /\ UNCHANGED <<gate, signed, now, evidence, submissions>>

Next ==
  \/ Tick
  \/ Sign
  \/ \E h \in Handles, a \in Actions : Submit(h, a)
  \/ \E h \in Handles, ap \in ApprovalsOver(signed) : Decide(h, ap)
  \/ \E a \in Actions, ap \in ApprovalsOver(signed) : SubmitAndDecide(a, ap)
  \/ \E h \in Handles : Deny(h)
  \/ \E h \in Handles : DropHandle(h)

Spec == Init /\ [][Next]_vars
----------------------------------------------------------------------------
(* Safety *)

Approvals == {i \in DOMAIN gate.audit : gate.audit[i].decision = "Approved"}

\* Every record is backed: an approval in the audit log names an allowlisted
\* key, and that very key signed exactly the recorded action (AMENDMENT 3 in
\* the header of gate.rs); a denial names no signer.
GrantAuthorised ==
  /\ Len(evidence) = Len(gate.audit)
  /\ \A i \in DOMAIN gate.audit :
       LET r == gate.audit[i]  e == evidence[i] IN
       IF r.decision = "Approved"
         THEN /\ e \in signed
              /\ e.signer = r.signer /\ r.signer \in AllowlistedSigners
              /\ e.action = r.action
         ELSE e = NoEvidence /\ r.signer = NoSigner

\* Single use (gate.rs:6-7): however often, for whatever action and beside
\* whatever other fields a signed approval is presented, at most one grant of
\* this gate comes from it, and no two grants share a nonce.
SingleUse ==
  \A i, j \in Approvals : evidence[i].nonce = evidence[j].nonce => i = j

\* The used-nonce set is exactly the nonces of the grants: a refused attempt
\* or a denial spends nothing, and no grant is forgotten.
BurnedAreGranted ==
  gate.used_nonces = {evidence[i].nonce : i \in Approvals}

\* One submission yields at most one grant.  A pending entry outlives its
\* handle (submit_and_decide drops it on a refusal), and identical
\* submissions collapse into one entry; neither lets a second grant through.
GrantsOf(a) == {i \in Approvals : gate.audit[i].action = a}

OneGrantPerSubmission ==
  \A a \in Actions :
    Cardinality(GrantsOf(a)) + (IF a \in gate.pending THEN 1 ELSE 0)
      <= submissions[a]

\* deny consumes its handle, so an action is denied no more often than it was
\* submitted, live handles included, whoever else decided it in between.
DenialsBounded ==
  \A a \in Actions :
    Cardinality({i \in DOMAIN gate.audit : /\ gate.audit[i].action = a
                                          /\ gate.audit[i].decision = "Denied"})
      + Cardinality({h \in Handles : handles[h] = a})
      <= submissions[a]

\* With a clock that never steps back the audit log tells the truth about
\* expiry: once any record is dated after an approval's expiry, no later
\* record is a grant from that approval.  (The grant's own date is a second
\* reading of the clock and may itself lie past the expiry.)
ExpiryRespected ==
  \A j \in Approvals : \A i \in 1 .. (j - 1) :
    gate.audit[i].at_unix <= evidence[j].expires_at_unix

\* An approval that decide would grant stays grantable until its time is up,
\* its nonce is spent by a grant, or its action is decided: no refused call,
\* submission, dropped handle or foreign approval disables it.
Grantable(act, ap) == Grants(gate, act, ap, now)

ApprovalStaysUsable ==
  [][\A act \in Actions, ap \in ApprovalsOver(signed) :
       Grantable(act, ap) /\ ~ Grantable(act, ap)' =>
         \/ now' > ap.expires_at_unix
         \/ \E i \in DOMAIN gate'.audit :
              /\ i > Len(gate.audit)
              /\ \/ gate'.audit[i].action = act
                 \/ evidence'[i] # NoEvidence /\ evidence'[i].nonce = ap.nonce
    ]_vars

----------------------------------------------------------------------------
(* Refinement: what the gate promises, with no pending set, no handles, no *)
(* nonce set and no clock.                                                 *)

Ledger == INSTANCE ApprovalLedger
  WITH issued  <- signed,
       granted <- {evidence[i] : i \in Approvals},
       budget  <- [a \in Actions |->
                     submissions[a] - Cardinality(GrantsOf(a))]

\* Every call on the gate is a step the ledger allows, or changes nothing the
\* ledger sees: a grant spends one submission of its action and one fresh
\* message of an allowlisted key ("no unattended action can construct a
\* Decision", gate.rs:9-10).
ImplementsLedger == Ledger!Spec
=============================================================================
