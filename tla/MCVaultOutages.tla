-------------------------- MODULE MCVaultOutages ---------------------------
(* Small instances of VaultOutages for TLC.                                *)
EXTENDS VaultOutages, TLC

CONSTANTS soul, notes

Symmetry == Permutations({soul, notes})
=============================================================================
