--------------------------- MODULE MCGateCallers ---------------------------
(* Small instances of GateCallers for TLC.                                 *)
EXTENDS GateCallers, TLC

CONSTANTS nostr, alice, lightning, n1, n2

Symmetry == Permutations({n1, n2})
=============================================================================
