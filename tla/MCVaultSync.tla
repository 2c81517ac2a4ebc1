----------------------------- MODULE MCVaultSync -----------------------------
(* Small instances of VaultSync for TLC.                                    *)
EXTENDS VaultSync

CONSTANTS v1, v2, i1, i2

(* Two vaults and an item in each.                                          *)
Vaults == (v1 :> v1) @@ (v2 :> v2) @@ (i1 :> v1) @@ (i2 :> v2)

VaultsOf(objects) == [o \in objects |-> Vaults[o]]

OneVault == VaultsOf({v1, i1})
TwoItems == VaultsOf({v1, i1}) @@ (i2 :> v1)
TwoVaults == VaultsOf({v1, v2, i2})

-----------------------------------------------------------------------------
(* What the documentation says and the code does not keep: no run checks    *)
(* these, README.md names the instances that violate them.                  *)

(* docs/security-model.md:197: the record of an object never goes back to an*)
(* older version of the server than the device has saved.                   *)
RevisionNeverGoesBack ==
  [][\A d \in Device, o \in Object :
       LET before == disk[d][o]
           after  == disk'[d][o]
       IN  before # Absent /\ after # Absent
             /\ before.state = "clean" /\ after.state = "clean"
           => before.revision <= after.revision]_vars

(* docs/architecture.md:165: a deletion another device made is accepted.  A *)
(* device that has saved a cursor after it does not show the object again.  *)
DeletedStaysDeleted ==
  [][\A d \in Device, o \in Object :
       /\ ~Has(d, o)
       /\ \E id \in EventsOf(o) : id <= saved[d].cursor /\ VersionAt(id).content.deleted
       => ~Live(d, o)']_vars

(* docs/architecture.md:168: two deletions of an object merge into one.     *)
DeletionsMerge ==
  \A d \in Device, o \in Object :
    InState(d, o, "conflicted") /\ mem[d][o].content.deleted => ~server[o].content.deleted

(* docs/server-sync-design.md:45: a change that waits on the disk of a      *)
(* device at rest is in memory, from where it is pushed.                    *)
PendingIsLoaded ==
  \A d \in Device, o \in Object :
    Idle(d) /\ disk[d][o] # Absent /\ disk[d][o].state = "dirty" => Has(d, o)

(* vault.ts:1245: the last vault is not deleted.                            *)
SomeVaultIsLeft ==
  \E o \in Stored : VaultOf[o] = o /\ ~server[o].content.deleted
=============================================================================
