-------------------------- MODULE MCSessionStore --------------------------
(* Small instances of SessionStore for TLC.                                *)
EXTENDS SessionStore

CONSTANTS core, other

Symmetry == Permutations({core, other})
=============================================================================
