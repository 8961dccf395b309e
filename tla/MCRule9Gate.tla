---------------------------- MODULE MCRule9Gate ----------------------------
(* Small instances of Rule9Gate for TLC.                                   *)
EXTENDS Rule9Gate, TLC

CONSTANTS alice, bob, carol, a1, a2, n1, n2, h1, h2

\* Actions, nonces and handles are interchangeable.
Symmetry ==
  Permutations({a1, a2}) \cup Permutations({n1, n2})
    \cup Permutations({h1, h2})
=============================================================================
