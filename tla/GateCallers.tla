---------------------------- MODULE GateCallers ----------------------------
(***************************************************************************)
(* The crates that call the gate, in a process that may stop and start     *)
(* again: ChannelSession (gooseclaw-channels) and PaymentGate              *)
(* (gooseclaw-payments).  Each holds its gate by value (gate : G with      *)
(* G : GateCaller, implemented for Rule9Gate only), so a process with      *)
(* several of them has several gates; and all a gate knows is in memory,   *)
(* while signed messages live on with whoever holds them.                  *)
(*                                                                         *)
(* gates[c]          the Rule9Gate inside caller c                         *)
(* signed            every message some human has signed                   *)
(* now               the system clock                                      *)
(* restarts          how often the process has been started again          *)
(* requested[c][a]   history: calls of submit_and_decide by c for a        *)
(* last[c][a]        history: what the latest of them in this life returned *)
(* grants            history: <<caller, message, life>> per grant; a life  *)
(*                   of the process is known by the restarts before it     *)
(***************************************************************************)
EXTENDS Integers, Sequences, FiniteSets

CONSTANTS
  Channels,        \* the ChannelSessions of the process
  ChannelActions,  \* what channels ask decisions for, besides spends
  Rails, Amounts,  \* what a SpendRequest is made of
  per_spend_msat,                                  \* SpendingCaps
  Pubkeys, AllowlistedSigners, DecodableKeys, Nonces, Times, Garbled, NoSigner,
  MaxSigned,       \* bound: messages humans sign
  MaxRequests,     \* bound: requests one caller makes for one action
  MaxRestarts      \* bound: restarts of the process

ASSUME SpendAssumption ==
  /\ Amounts \subseteq Nat
  /\ per_spend_msat \in Nat

Payments == "payments"

Callers == Channels \cup {Payments}

ASSUME CallersAssumption == Payments \notin Channels

ASSUME BoundsAssumption ==
  MaxSigned \in Nat /\ MaxRequests \in Nat /\ MaxRestarts \in Nat

SpendRequest == [rail : Rails, amount_msat : Amounts]

\* The action of a spend names the rail and the amount; destination and
\* reason are fixed here.
SpendAction(req) == <<"spend", req.rail, req.amount_msat>>

SpendActions == {SpendAction(req) : req \in SpendRequest}

Actions == ChannelActions \cup SpendActions

INSTANCE GateOps

VARIABLES gates, signed, now, restarts, requested, last, grants

vars == <<gates, signed, now, restarts, requested, last, grants>>

Outcomes == GateError \cup {"Approved", "NotRequested"}

TypeOK ==
  /\ gates \in [Callers -> Gate]
  /\ signed \subseteq SignedMessage
  /\ now \in Times
  /\ requested \in [Callers -> [Actions -> Nat]]
  /\ last \in [Callers -> [Actions -> Outcomes]]
  /\ grants \in Seq(Callers \X SignedMessage \X (0 .. MaxRestarts))
  /\ restarts \in 0 .. MaxRestarts

NewGates == [c \in Callers |-> NewGate]

NothingRequested == [c \in Callers |-> [a \in Actions |-> "NotRequested"]]

Init ==
  /\ gates = NewGates
  /\ signed = {}
  /\ now \in Times
  /\ requested = [c \in Callers |-> [a \in Actions |-> 0]]
  /\ last = NothingRequested
  /\ grants = << >>
  /\ restarts = 0

Tick ==
  /\ now' \in {t \in Times : t > now}
  /\ UNCHANGED <<gates, signed, restarts, requested, last, grants>>

Sign ==
  /\ Cardinality(signed) < MaxSigned
  /\ \E m \in SignedMessage \ signed : signed' = signed \cup {m}
  /\ UNCHANGED <<gates, now, restarts, requested, last, grants>>

\* The process stops and starts: Rule9Gate::new at every caller.
Restart ==
  /\ restarts < MaxRestarts
  /\ restarts' = restarts + 1
  /\ gates' = NewGates
  /\ last' = NothingRequested
  /\ UNCHANGED <<signed, now, requested, grants>>

----------------------------------------------------------------------------
\* GateCaller::submit_and_decide on the gate of caller c.
SubmitAndDecide(c, a, ap) ==
  LET g == SubmitTo(gates[c], a)
      outcome == DecideOutcome(g, a, ap, now)
  IN  /\ requested[c][a] < MaxRequests
      /\ requested' = [requested EXCEPT ![c][a] = @ + 1]
      /\ last' = [last EXCEPT ![c][a] = outcome]
      /\ IF outcome = "Approved"
           THEN /\ gates' = [gates EXCEPT ![c] = AfterGrant(g, a, ap, now)]
                /\ grants' = Append(grants, <<c, ap.signature, restarts>>)
           ELSE /\ gates' = [gates EXCEPT ![c] = AfterRefusal(g, ap)]
                /\ UNCHANGED grants
      /\ UNCHANGED <<signed, now, restarts>>

\* ChannelSession::request_human_decision takes any ActionRequest.
RequestHumanDecision(c, a, ap) == SubmitAndDecide(c, a, ap)

OverCap(req) == req.amount_msat > per_spend_msat

\* PaymentGate::request_spend: an over-cap request returns before the gate.
RequestSpend(req, ap) ==
  /\ ~ OverCap(req)
  /\ SubmitAndDecide(Payments, SpendAction(req), ap)

Next ==
  \/ Tick
  \/ Sign
  \/ Restart
  \/ \E c \in Channels, a \in Actions, ap \in ApprovalsOver(signed) :
       RequestHumanDecision(c, a, ap)
  \/ \E req \in SpendRequest, ap \in ApprovalsOver(signed) :
       RequestSpend(req, ap)

Spec == Init /\ [][Next]_vars

----------------------------------------------------------------------------
\* submit_and_decide drops its handle on a refusal and leaves the entry.  At
\* the gate of a caller that makes no other call, the pending set is then
\* exactly the actions whose latest request was refused: entries accumulate,
\* and a later grant of the same action clears its entry.
PendingIsLastRefused ==
  \A c \in Callers :
    gates[c].pending =
      {a \in Actions : last[c][a] \in GateError}

Replayed(i, j) ==
  /\ grants[i][1] = grants[j][1]
  /\ grants[i][2].nonce = grants[j][2].nonce
  /\ grants[i][3] = grants[j][3]

\* What single use amounts to: however the holders of an approval present it,
\* each caller grants its nonce at most once in each life of the process.
ReplaysBounded ==
  \A i, j \in DOMAIN grants : Replayed(i, j) => i = j
=============================================================================
