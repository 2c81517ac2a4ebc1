------------------------------ MODULE MCDevices ------------------------------
(* Small instances of Devices for TLC.                                      *)
EXTENDS Devices, TLC

CONSTANTS h1, h2, pc1, pc2, nobody

(* A quota of one device, and one other setting.                            *)
OneDevice == ("maxDevices" :> 1) @@ ("registration" :> 1)

Handlers == Permutations({h1, h2})

-----------------------------------------------------------------------------
(* What the documentation says and the code does not keep: no run checks    *)
(* this, README.md names the instance that violates it.                     *)

(* admin_web/src/i18n/zh-CN.ts:225: the setting limits the devices bound to *)
(* an account, so none comes into use over it.                              *)
QuotaLimits ==
  [][Active' \subseteq Active \/ Cardinality(Active') <= config["maxDevices"]]_vars
=============================================================================
