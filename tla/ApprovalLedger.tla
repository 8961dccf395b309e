--------------------------- MODULE ApprovalLedger ---------------------------
(***************************************************************************)
(* What Rule9Gate promises its callers (the header of gate.rs and          *)
(* AMENDMENTS 2 and 3), without saying how: humans issue signed messages,  *)
(* subsystems submit actions, and a grant spends both one submission of    *)
(* the action and one issued message about it whose nonce no earlier grant *)
(* used.                                                                   *)
(***************************************************************************)
EXTENDS Naturals

CONSTANTS Actions, AllowlistedSigners, SignedMessage

VARIABLES
  issued,   \* messages humans have signed
  granted,  \* messages that became grants
  budget    \* per action, submissions no grant has spent

vars == <<issued, granted, budget>>

Init ==
  /\ issued = {}
  /\ granted = {}
  /\ budget = [a \in Actions |-> 0]

Issue ==
  /\ \E m \in SignedMessage : issued' = issued \cup {m}
  /\ UNCHANGED <<granted, budget>>

Submit(a) ==
  /\ budget' = [budget EXCEPT ![a] = @ + 1]
  /\ UNCHANGED <<issued, granted>>

Authorises(m) ==
  /\ m.signer \in AllowlistedSigners
  /\ \A g \in granted : g.nonce # m.nonce

Grant(m) ==
  /\ Authorises(m)
  /\ budget[m.action] > 0
  /\ granted' = granted \cup {m}
  /\ budget' = [budget EXCEPT ![m.action] = @ - 1]
  /\ UNCHANGED issued

\* Submission and grant in one call.
SubmitAndGrant(m) ==
  /\ Authorises(m)
  /\ granted' = granted \cup {m}
  /\ UNCHANGED <<issued, budget>>

Next ==
  \/ Issue
  \/ \E a \in Actions : Submit(a)
  \/ \E m \in issued : Grant(m) \/ SubmitAndGrant(m)

Spec == Init /\ [][Next]_vars
=============================================================================
