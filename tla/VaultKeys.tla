------------------------------ MODULE VaultKeys ------------------------------
(***************************************************************************)
(* The key that opens an account's vault: made when the account is set up   *)
(* on the web page, wrapped with the master password, kept on the server    *)
(* and on every device, fetched by a device that restores the account,      *)
(* uploaded by one that is bound to it, and wrapped again when the master   *)
(* password is changed.                                                     *)
(*                                                                         *)
(* Keys and passwords are numbers in the order in which they were chosen; a *)
(* wrapped key opens with its password, an object with the key it was       *)
(* encrypted with.  The user remembers every password.                      *)
(***************************************************************************)
EXTENDS Naturals, Sequences, FiniteSets

CONSTANTS
  Device,
  Creator,       \* the device with the page that sets the account up
  Local,         \* devices that may have a user without an account
  None,
  MaxSetups,     \* bound: attempts to set the account up
  MaxChanges,    \* bound: changes of the master password
  MaxTroubles    \* bound: requests lost or refused, restarts and disconnections

ASSUME DeviceAssumption ==
  /\ Creator \in Device /\ Local \subseteq Device \ {Creator} /\ IsFiniteSet(Local)
  /\ None \notin [key : Nat, password : Nat]
  /\ {MaxSetups, MaxChanges, MaxTroubles} \subseteq Nat

VARIABLES
  keys,     \* wrapped_vault_keys, in the order of insertion
  sealed,   \* the keys that encrypt the objects on the server
  strays,   \* key uploads whose sender no longer waits
  user,     \* the account's user in memory: [key, password]
  disk,     \* the same as saved
  bound,    \* devices connected to the account
  page,     \* the page that sets the account up is still open
  op, pc,   \* what each device is doing
  madeKeys, chosen, troubles, \* so far
  told,     \* auxiliary: the password a device last confirmed
  cut,      \* auxiliary: devices where something came between a change
  joined    \* auxiliary: devices that found the account's objects

server == <<keys, sealed, strays>>
device == <<user, disk, bound, page>>
counts == <<madeKeys, chosen, troubles>>
auxiliary == <<told, cut, joined>>
vars == <<server, device, op, pc, counts, auxiliary>>

Key == 1 .. MaxSetups + Cardinality(Local)
Password == 1 .. MaxChanges + 1

(* found: there were objects; or, for a change, no upload still on its way. *)
NoOp == [do |-> "none", key |-> 0, password |-> 0, replaces |-> 0, found |-> FALSE]

Active(k) == {i \in DOMAIN keys : keys[i].key = k /\ ~keys[i].revoked}

Begin(d, next, o) == pc' = [pc EXCEPT ![d] = next] /\ op' = [op EXCEPT ![d] = o]
GoTo(d, next) == pc' = [pc EXCEPT ![d] = next] /\ UNCHANGED op
End(d) == Begin(d, "idle", NoOp)
Does(d, do, where) == op[d].do = do /\ pc[d] = where

(* A local user has a key of its own, and the first password.               *)
Init ==
  /\ keys = <<>> /\ sealed = {} /\ strays = {} /\ bound = {} /\ page = TRUE
  /\ \E owners \in SUBSET Local, own \in [Local -> 1 .. Cardinality(Local)] :
       /\ \A d, e \in Local : own[d] = own[e] => d = e
       /\ user = [d \in Device |-> IF d \in owners THEN [key |-> own[d], password |-> 1] ELSE None]
       /\ told = [d \in Device |-> IF d \in owners THEN 1 ELSE 0]
  /\ disk = user
  /\ op = [d \in Device |-> NoOp] /\ pc = [d \in Device |-> "idle"]
  /\ madeKeys = Cardinality(Local) /\ chosen = 1
  /\ troubles = 0
  /\ cut = {} /\ joined = {}

-----------------------------------------------------------------------------
(* create_wrapped_vault_key: one transaction, and a unique index on the     *)
(* rows that are not revoked.                                               *)
Upload(d) == [key |-> op[d].key, password |-> op[d].password, by |-> d, replaces |-> op[d].replaces]

(* Seeded mistake: the key is missing from the condition of the update.     *)
Bug_EveryKey(i, u) == TRUE

Replaced(i, u) == keys[i].key = u.key \/ i = u.replaces

CreateKey(u) ==
  keys' = Append([i \in DOMAIN keys |-> [keys[i] EXCEPT !.revoked = @ \/ Replaced(i, u)]],
                 [key |-> u.key, password |-> u.password, by |-> u.by, revoked |-> FALSE])

ServeKey(d) ==
  /\ pc[d] = "keying"
  /\ CreateKey(Upload(d))
  /\ GoTo(d, "keyed")
  /\ UNCHANGED <<sealed, strays, device, counts, auxiliary>>

ServeStray(u) ==
  /\ u \in strays
  /\ CreateKey(u)
  /\ strays' = strays \ {u}
  /\ UNCHANGED <<sealed, device, op, pc, counts, auxiliary>>

(* An error instead: nothing was written.  A change is then undone.         *)
Stop(d) == IF op[d].do = "change" THEN GoTo(d, "undoing") ELSE End(d)

RefuseKey(d) ==
  /\ pc[d] = "keying" /\ troubles < MaxTroubles /\ troubles' = troubles + 1
  /\ Stop(d)
  /\ UNCHANGED <<server, device, madeKeys, chosen, auxiliary>>

-----------------------------------------------------------------------------
(* createInitialServerVault, again with a new vault if the user repeats the *)
(* last step after an error: key, vault, acknowledgement.                   *)
BeginSetup(d) ==
  /\ d = Creator /\ page /\ pc[d] = "idle" /\ user[d] = None
  /\ madeKeys < MaxSetups + Cardinality(Local)
  /\ madeKeys' = madeKeys + 1
  /\ Begin(d, "keying", [NoOp EXCEPT !.do = "setup", !.key = madeKeys + 1, !.password = 1])
  /\ UNCHANGED <<server, device, chosen, troubles, auxiliary>>

PushVault(d) ==
  /\ Does(d, "setup", "keyed")
  /\ sealed' = sealed \cup {op[d].key}
  /\ GoTo(d, "pushed")
  /\ UNCHANGED <<keys, strays, device, counts, auxiliary>>

WithUser(d, k, password) ==
  /\ user' = [user EXCEPT ![d] = [key |-> k, password |-> password]]
  /\ disk' = [disk EXCEPT ![d] = user'[d]]
  /\ told' = [told EXCEPT ![d] = password]

(* createServerBackedUser                                                   *)
FinishSetup(d) ==
  /\ Does(d, "setup", "pushed")
  /\ WithUser(d, op[d].key, op[d].password)
  /\ bound' = bound \cup {d} /\ page' = FALSE
  /\ End(d)
  /\ UNCHANGED <<server, counts, cut, joined>>

-----------------------------------------------------------------------------
(* Seeded mistake: an object that cannot be decrypted is left out.          *)
Bug_LeftOut(k) == TRUE

(* Every object of the snapshot is decrypted, or the whole attempt fails.   *)
Opens(k) == sealed \subseteq {k}

(* restoreServerAccount: the first wrapped key of the snapshot, whose order *)
(* says nothing, with the password it opens with.                           *)
Restore(d) ==
  /\ user[d] = None /\ pc[d] = "idle" /\ ~(d = Creator /\ page)
  /\ \E k \in Key : \E i \in Active(k) :
       /\ Opens(k)
       /\ Begin(d, "restored", [NoOp EXCEPT !.do = "restore", !.key = k,
                                            !.password = keys[i].password, !.found = sealed # {}])
  /\ UNCHANGED <<server, device, counts, auxiliary>>

Join(d) ==
  /\ bound' = bound \cup {d}
  /\ joined' = IF op[d].found THEN joined \cup {d} ELSE joined

FinishRestore(d) ==
  /\ pc[d] = "restored"
  /\ WithUser(d, op[d].key, op[d].password)
  /\ Join(d) /\ End(d)
  /\ UNCHANGED <<server, page, counts, cut>>

(* applySyncExchange: the local objects are compared with the snapshot,     *)
(* then the wrapped key of this device is uploaded, whichever is there.     *)
Bind(d) ==
  /\ user[d] # None /\ d \notin bound /\ pc[d] = "idle"
  /\ Opens(user[d].key)
  /\ Begin(d, "keying", [NoOp EXCEPT !.do = "bind", !.key = user[d].key,
                                     !.password = user[d].password, !.found = sealed # {}])
  /\ UNCHANGED <<server, device, counts, auxiliary>>

FinishBind(d) ==
  /\ Does(d, "bind", "keyed")
  /\ disk' = [disk EXCEPT ![d] = user[d]]
  /\ Join(d) /\ End(d)
  /\ UNCHANGED <<server, user, page, counts, told, cut>>

(* disconnectSync, or markSyncConnectionInvalid.                            *)
Unbind(d) ==
  /\ d \in bound /\ pc[d] = "idle" /\ troubles < MaxTroubles /\ troubles' = troubles + 1
  /\ bound' = bound \ {d} /\ joined' = joined \ {d}
  /\ disk' = [disk EXCEPT ![d] = user[d]]
  /\ UNCHANGED <<server, user, page, op, pc, madeKeys, chosen, told, cut>>

(* A run uploads an object.                                                 *)
Push(d) ==
  /\ d \in bound /\ user[d].key \notin sealed
  /\ sealed' = sealed \cup {user[d].key}
  /\ UNCHANGED <<keys, strays, device, op, pc, counts, auxiliary>>

-----------------------------------------------------------------------------
(* changeMasterPassword: the records of the account are asked for first,    *)
(* then the new wrapping is saved, then uploaded, then used.                *)
BeginChange(d) ==
  /\ user[d] # None /\ pc[d] = "idle" /\ chosen <= MaxChanges
  /\ chosen' = chosen + 1
  /\ Begin(d, IF d \in bound THEN "listing" ELSE "saving",
           [NoOp EXCEPT !.do = "change", !.key = user[d].key, !.password = chosen + 1])
  /\ UNCHANGED <<server, device, madeKeys, troubles, auxiliary>>

(* prepareServerKeyUpdate; without a record nothing has changed yet.        *)
Listed(d) ==
  /\ pc[d] = "listing"
  /\ \/ \E i \in Active(op[d].key) :
          Begin(d, "saving", [op[d] EXCEPT !.replaces = i,
                                           !.found = \A u \in strays : u.by # d])
     \/ Active(op[d].key) = {} /\ End(d)
  /\ UNCHANGED <<server, device, counts, auxiliary>>

NewWrapping(d) == [key |-> op[d].key, password |-> op[d].password]

(* A change nothing came between puts the device in order again.            *)
Settled(d) == IF disk[d] = NewWrapping(d) /\ op[d].found THEN cut \ {d} ELSE cut

Use(d) ==
  /\ user' = [user EXCEPT ![d] = NewWrapping(d)]
  /\ told' = [told EXCEPT ![d] = op[d].password]
  /\ End(d)

(* Without an account nothing is uploaded.                                  *)
SaveLocal(d) ==
  /\ pc[d] = "saving"
  /\ disk' = [disk EXCEPT ![d] = NewWrapping(d)]
  /\ IF d \in bound THEN GoTo(d, "keying") /\ UNCHANGED <<user, told>> ELSE Use(d)
  /\ UNCHANGED <<server, bound, page, counts, cut, joined>>

Change(d) ==
  /\ Does(d, "change", "keyed")
  /\ Use(d)
  /\ cut' = Settled(d)
  /\ UNCHANGED <<server, disk, bound, page, counts, joined>>

(* Seeded mistake: the new wrapping stays on disk after an error.           *)
Bug_NotUndone(d) ==
  /\ pc[d] = "undoing"
  /\ End(d)
  /\ UNCHANGED <<server, device, counts, auxiliary>>

(* The old wrapping is saved again; an error of that is ignored.            *)
Undo(d) ==
  /\ pc[d] = "undoing"
  /\ \/ disk' = [disk EXCEPT ![d] = user[d]] /\ UNCHANGED cut
     \/ cut' = cut \cup {d} /\ UNCHANGED disk
  /\ End(d)
  /\ UNCHANGED <<server, user, bound, page, counts, told, joined>>

-----------------------------------------------------------------------------
(* A request or its answer is lost; the server may serve the request later. *)
Lose(d) ==
  /\ troubles < MaxTroubles
  /\ \/ pc[d] = "keying" /\ strays' \in {strays, strays \cup {Upload(d)}}
     \/ pc[d] \in {"keyed", "pushed"} /\ UNCHANGED strays
  /\ troubles' = troubles + 1
  /\ Stop(d)
  /\ cut' = cut \cup {d}
  /\ UNCHANGED <<keys, sealed, device, madeKeys, chosen, told, joined>>

(* persist, by a sync run or on unlocking: what is in memory is saved, also *)
(* over a new wrapping that is not in memory yet.                           *)
Persist(d) ==
  /\ disk[d] # user[d]
  /\ disk' = [disk EXCEPT ![d] = user[d]]
  /\ cut' = IF pc[d] = "idle" THEN cut ELSE cut \cup {d}
  /\ UNCHANGED <<server, user, bound, page, op, pc, counts, told, joined>>

(* The application or the page is closed and opened again; the page that    *)
(* sets the account up has forgotten its token.                             *)
Restart(d) ==
  /\ troubles < MaxTroubles /\ troubles' = troubles + 1
  /\ user' = [user EXCEPT ![d] = disk[d]]
  /\ page' = (page /\ d # Creator)
  /\ strays' \in {strays} \cup {strays \cup {Upload(d)} : x \in {y \in {d} : pc[y] = "keying"}}
  /\ cut' = IF pc[d] = "idle" THEN cut ELSE cut \cup {d}
  /\ End(d)
  /\ UNCHANGED <<keys, sealed, disk, bound, madeKeys, chosen, told, joined>>

Next ==
  \/ \E u \in strays : ServeStray(u)
  \/ \E d \in Device :
       \/ ServeKey(d) \/ RefuseKey(d) \/ Lose(d) \/ Persist(d) \/ Restart(d)
       \/ BeginSetup(d) \/ PushVault(d) \/ FinishSetup(d)
       \/ Restore(d) \/ FinishRestore(d)
       \/ Bind(d) \/ FinishBind(d) \/ Unbind(d) \/ Push(d)
       \/ BeginChange(d) \/ Listed(d) \/ SaveLocal(d) \/ Change(d) \/ Undo(d)

Spec == Init /\ [][Next]_vars

-----------------------------------------------------------------------------
Wrapping == [key : Key, password : Password]
UploadType == [key : Key, password : Password, by : Device, replaces : Nat]

(* The shape of the records, the users and what is under way.               *)
TypeOK ==
  /\ keys \in Seq([key : Key, password : Password, by : Device, revoked : BOOLEAN])
  /\ sealed \subseteq Key /\ strays \subseteq UploadType
  /\ user \in [Device -> Wrapping \cup {None}] /\ disk \in [Device -> Wrapping \cup {None}]
  /\ bound \subseteq Device /\ page \in BOOLEAN
  /\ pc \in [Device -> {"idle", "listing", "saving", "keying", "keyed", "pushed", "restored",
                        "undoing"}]
  /\ op \in [Device -> [do : {"none", "setup", "bind", "restore", "change"}, key : Key \cup {0},
                        password : Password \cup {0}, replaces : Nat, found : BOOLEAN]]
  /\ madeKeys \in Key \cup {0} /\ chosen \in Password
  /\ told \in [Device -> Password \cup {0}] /\ cut \subseteq Device /\ joined \subseteq bound
  /\ \A d \in Device : /\ pc[d] = "idle" <=> op[d] = NoOp
                       /\ d \in bound => user[d] # None /\ disk[d] # None

(* Whatever set-ups, bindings and changes were repeated or lost on the way, *)
(* the key of every object on the server and of every bound device has      *)
(* exactly one wrapped key that is not revoked, so a new device can fetch it. *)
EverythingHasItsKey ==
  \A k \in sealed \cup {user[d].key : d \in bound} : Cardinality(Active(k)) = 1

(* The password a device last confirmed is the one that opens the account   *)
(* there, in memory, after a restart, and with the wrapped key that device  *)
(* put on the server; unless a change was cut off half-way.                 *)
PasswordsAgree ==
  \A d \in Device \ cut :
    pc[d] = "idle" /\ user[d] # None =>
      /\ disk[d] = user[d]
      /\ user[d].password = told[d]
      /\ d \in bound => \A i \in Active(user[d].key) :
                          keys[i].by = d => keys[i].password = told[d]

(* Devices that found objects in the account when they joined it open them  *)
(* with one and the same key.                                               *)
DevicesShareKey == \A d, e \in joined : user[d].key = user[e].key
=============================================================================
