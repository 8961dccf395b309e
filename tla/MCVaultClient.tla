--------------------------- MODULE MCVaultClient ---------------------------
(* Small instances of VaultClient for TLC.                                 *)
EXTENDS VaultClient, TLC

CONSTANTS soul, notes

Symmetry == Permutations({soul, notes})
=============================================================================
