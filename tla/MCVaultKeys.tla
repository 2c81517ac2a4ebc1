---------------------------- MODULE MCVaultKeys ----------------------------
(* VaultKeys with the device whose page sets the account up, one that has a *)
(* user of its own and one that has none.                                   *)
EXTENDS VaultKeys

CONSTANTS c1, l1, d1

MCDevice == {c1, l1, d1}
MCLocal == {l1}
=============================================================================
