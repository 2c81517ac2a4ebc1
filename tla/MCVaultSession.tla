--------------------------- MODULE MCVaultSession ---------------------------
(* Small instances of VaultSession for TLC.                                 *)
EXTENDS VaultSession, TLC

CONSTANTS anna, berta, nobody, va, vb, wb, a1, b1, b2

(* Anna has one vault with one item; Berta has a second vault, with one item*)
(* and another that is still to be made.                                    *)
Users == (va :> anna) @@ (vb :> berta) @@ (wb :> berta)
Vaults == (a1 :> va) @@ (b1 :> wb) @@ (b2 :> wb)
Firsts == (anna :> va) @@ (berta :> vb)
OneEach == <<[item |-> a1, by |-> "other"], [item |-> b1, by |-> "other"]>>
=============================================================================
