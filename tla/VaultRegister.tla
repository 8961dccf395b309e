--------------------------- MODULE VaultRegister ---------------------------
(***************************************************************************)
(* What the federation contract promises about notes and writes (header of *)
(* client.rs): each note is an append-only register, a write replaces      *)
(* exactly the version it names, at most once, and the caller learns       *)
(* "written" only of writes that took effect and "conflict" only of writes *)
(* that never will.  "unknown" promises nothing.                           *)
(***************************************************************************)
EXTENDS Naturals, Sequences

CONSTANTS Paths, Human

VARIABLES
  log,     \* per note, the author of each version: Human or a write's number
  writes   \* the writes issued, in order

vars == <<log, writes>>

Verdicts == {"written", "conflict", "unknown"}

Init ==
  /\ log \in [Paths -> {<< >>, <<Human>>}]
  /\ writes = << >>

HumanEdit(p) ==
  /\ log' = [log EXCEPT ![p] = Append(@, Human)]
  /\ UNCHANGED writes

Issue(p, n) ==
  /\ writes' = Append(writes, [path |-> p, expected |-> n, verdict |-> "open"])
  /\ UNCHANGED log

Applied(w) == \E p \in Paths : \E i \in DOMAIN log[p] : log[p][i] = w

Apply(w) ==
  LET p == writes[w].path IN
  /\ writes[w].verdict \in {"open", "unknown"}
  /\ ~ Applied(w)
  /\ Len(log[p]) = writes[w].expected
  /\ log' = [log EXCEPT ![p] = Append(@, w)]
  /\ UNCHANGED writes

TookEffect(w) ==
  LET p == writes[w].path  n == writes[w].expected + 1 IN
  n \in DOMAIN log[p] /\ log[p][n] = w

Learn(w, verdict) ==
  /\ writes[w].verdict = "open"
  /\ verdict = "written" => TookEffect(w)
  /\ verdict = "conflict" => ~ Applied(w)
  /\ writes' = [writes EXCEPT ![w].verdict = verdict]
  /\ UNCHANGED log

Next ==
  \/ \E p \in Paths : HumanEdit(p) \/ \E n \in 1 .. Len(log[p]) : Issue(p, n)
  \/ \E w \in DOMAIN writes : Apply(w) \/ \E v \in Verdicts : Learn(w, v)

Spec == Init /\ [][Next]_vars
=============================================================================
