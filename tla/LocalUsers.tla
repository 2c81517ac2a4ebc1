----------------------------- MODULE LocalUsers -----------------------------
(***************************************************************************)
(* The users of one installation: the list in app_meta.sqlite, a directory  *)
(* with a database of records for every user, and the secrets in the key    *)
(* ring, against the list and the records the desktop store has in memory.  *)
(*                                                                         *)
(* The store writes with persist(), which notes the list of users first and *)
(* gives it to the native side two awaits later; save_vault_store then      *)
(* deletes the directories and secrets of everybody who is not on it.  The  *)
(* page restores, creates, removes and switches users one at a time, while  *)
(* sync runs and settings persist in the background, the vault is locked,   *)
(* commands fail and the application is killed.  Native commands run on the *)
(* main thread, one after the other.                                        *)
(***************************************************************************)
EXTENDS Naturals, FiniteSets

CONSTANTS
  User, NoUser,
  Background,   \* persists that can be under way beside the page's own
  Page,         \* the persist of the page's operation
  MaxOps, MaxSaves, MaxEdits, MaxFails, MaxRestarts \* bounds

ASSUME LocalUsersAssumption == NoUser \notin User /\ Page \notin Background

VARIABLES
  meta,     \* app_meta.sqlite: the users and activeUserId
  files,    \* the directory of each user with the records in its database
  secrets,  \* the key ring: who has a Secret Key, who a device token
  up,       \* hydrated
  users, active, unlocked,  \* the store: users, activeUserId, unlocked
  session,  \* the user whose key session is open
  mem,      \* the records in memory
  op,       \* what the page is doing
  save,     \* each persist under way
  running,  \* a sync run is under way, it ends with a persist
  package,  \* the backup package of each user, a file of theirs
  ops, saves, edits, fails, restarts, \* how many so far
  kept,     \* auxiliary: the records of each user that were written
  overtaken, \* auxiliary: users who came or went while a persist with another
            \* list was under way
  orphaned, \* auxiliary: users whose secrets were saved without a directory
            \* when the operation was cut off
  failed    \* auxiliary: the last save_vault_store was not carried out

stored == <<meta, files, secrets>>
who == <<users, active>>
memory == <<unlocked, session, mem>>
counts == <<ops, saves, edits, fails, restarts>>
aux == <<kept, overtaken, orphaned, failed>>
vars == <<stored, up, who, memory, op, save, running, package, counts, aux>>

Save == Background \cup {Page}
Secret == {"secretKey", "deviceToken"}
SecretsOf(us) == us \X Secret

NoFile == [there |-> FALSE, records |-> {}]
NoOp == [kind |-> "none", user |-> NoUser, pc |-> "idle"]
\* active: the activeUserId that is written, if it is not looked up then
NoSave == [pc |-> "idle", users |-> {}, active |-> {}, by |-> NoUser, records |-> {}]

(* A record is a change of its user; number 0 stands for what the user's    *)
(* vault had in it when it came to this installation.                       *)
FirstRecords(u) == {<<u, 0>>}

Init ==
  /\ \E listed \in SUBSET User :
       /\ listed # {}
       /\ meta = [users |-> listed, active |-> CHOOSE u \in listed : TRUE]
       /\ files = [u \in User |-> IF u \in listed
                    THEN [there |-> TRUE, records |-> FirstRecords(u)] ELSE NoFile]
       /\ secrets = SecretsOf(listed)
       /\ kept = [u \in User |-> files[u].records]
  /\ up = TRUE /\ users = meta.users /\ active = meta.active
  /\ unlocked = FALSE /\ session = NoUser /\ mem = {}
  /\ op = NoOp /\ save = [s \in Save |-> NoSave] /\ running = FALSE
  /\ package = [u \in User |-> FirstRecords(u)]
  /\ ops = 0 /\ saves = 0 /\ edits = 0 /\ fails = 0 /\ restarts = 0
  /\ overtaken = {} /\ orphaned = {} /\ failed = FALSE

Idle(s) == save[s].pc = "idle"
BackgroundIdle == \A s \in Background : Idle(s)

-----------------------------------------------------------------------------
(* The native side                                                          *)

(* upsert_encrypted_objects: the connection creates the directory.          *)
Upserted(u, records) ==
  [files EXCEPT ![u] = [there |-> TRUE, records |-> @.records \cup records]]

(* save_encrypted_objects                                                   *)
Replaced(u, records) == [files EXCEPT ![u] = [there |-> TRUE, records |-> records]]

(* load_encrypted_objects: a user without a database has none.              *)
RecordsOf(u) == files[u].records

(* load_user_profiles, and the user who is active when the one in the       *)
(* settings is not among them                                               *)
StoredUsers == meta.users
NextUser(us) == IF us = {} THEN NoUser ELSE CHOOSE u \in us : TRUE
StoredActive == IF meta.active \in StoredUsers THEN meta.active ELSE NextUser(StoredUsers)

(* save_secret_key and save_sync_device_token, and their deletion           *)
WithSecret(u, secret) == secrets \cup {<<u, secret>>}
SecretsForgotten(u) == secrets \ SecretsOf({u})

(* save_user_profile for each user of the list opens, so creates, a database*)
WithProfiles(us) == [u \in User |-> [files[u] EXCEPT !.there = @ \/ u \in us]]

(* Seeded mistake: a directory is kept only for the active user.            *)
Bug_OnlyActive(list) == {u \in User : files[u].there /\ u # active}

(* cleanup_removed_user_dirs: the directories of users not on the list      *)
Unlisted(list) == {u \in User : files[u].there /\ u \notin list}

Without(fs, gone) == [u \in User |-> IF u \in gone THEN NoFile ELSE fs[u]]

(* Seeded mistake: a directory is removed and its secrets stay.             *)
Bug_SecretsStay(gone) == secrets

(* cleanup_user_secure_storage                                              *)
SecretsWithout(gone) == secrets \ SecretsOf(gone)

(* save_vault_store with the list of s: the profiles, then the metadata in  *)
(* one transaction, then the directories that are on nobody's list.         *)
Committed(s) ==
  [users |-> save[s].users,
   active |-> IF save[s].active = {} THEN active ELSE CHOOSE u \in save[s].active : TRUE]
SaveVaultStore(s) ==
  /\ meta' = Committed(s)
  /\ files' = Without(WithProfiles(save[s].users), Unlisted(save[s].users))
  /\ secrets' = SecretsWithout(Unlisted(save[s].users))

(* What is left of it when it stops half-way                                *)
PartOfSaveVaultStore(s) ==
  \/ \E us \in SUBSET save[s].users : files' = WithProfiles(us) /\ UNCHANGED <<meta, secrets>>
  \/ \E gone \in SUBSET Unlisted(save[s].users) :
       /\ meta' = Committed(s)
       /\ files' = Without(WithProfiles(save[s].users), gone)
       /\ secrets' = SecretsWithout(gone)

-----------------------------------------------------------------------------
(* persist() up to its first await: the list of users, the user whose       *)
(* session is open, and the records to encrypt with it.                     *)
Begun ==
  [pc |-> "encrypt", users |-> users, active |-> {},
   by |-> IF session = NoUser THEN NoUser ELSE active,
   records |-> IF session = NoUser THEN {} ELSE mem]

(* A user on his way into the list whose directory is there already         *)
Joining == IF op.pc = "adopt" THEN {op.user} \ users ELSE {}

(* The setting or item that is changed is written at once; a run persists at*)
(* its end even when the store has lost its list.                           *)
BeginSave(s) ==
  /\ Idle(s) /\ saves < MaxSaves
  /\ save' = [save EXCEPT ![s] = Begun]
  /\ saves' = saves + 1
  /\ UNCHANGED <<stored, who, up, unlocked, session, op, ops, fails, restarts,
                 kept, orphaned, failed, package>>

ChangeSetting(s) ==
  /\ up /\ BeginSave(s)
  /\ overtaken' = overtaken \cup Joining
  /\ UNCHANGED <<mem, running, edits>>

ChangeItem(s) ==
  /\ up /\ session # NoUser /\ op = NoOp /\ edits < MaxEdits
  /\ edits' = edits + 1 /\ mem' = mem \cup {<<session, edits + 1>>}
  /\ Idle(s) /\ saves < MaxSaves
  /\ save' = [save EXCEPT ![s] = [Begun EXCEPT !.records = mem']]
  /\ saves' = saves + 1
  /\ UNCHANGED <<stored, who, up, unlocked, session, op, running, ops, fails, restarts, aux, package>>

StartRun ==
  /\ up /\ session # NoUser /\ ~running
  /\ running' = TRUE
  /\ UNCHANGED <<stored, up, who, memory, op, save, counts, aux, package>>

EndRun(s) ==
  /\ running /\ BeginSave(s)
  /\ running' = FALSE
  /\ overtaken' = overtaken \cup Joining \cup IF up THEN {} ELSE meta.users \cup users
  /\ UNCHANGED <<mem, edits>>

(* persist() swallows its errors unless the caller wants them: the page's   *)
(* operation looks at the end of its own, nobody at that of another.        *)
Ended(s, how) ==
  [save EXCEPT ![s] = IF s = Page THEN [@ EXCEPT !.pc = how] ELSE NoSave]

(* The records are encrypted one after the other, which fails when the      *)
(* session is closed.                                                       *)
Encrypt(s) ==
  /\ save[s].pc = "encrypt"
  /\ LET ok == save[s].records = {} \/ save[s].by = session IN
     /\ save' = IF ok THEN [save EXCEPT ![s].pc = IF save[s].records = {} THEN "store" ELSE "upsert"]
                ELSE Ended(s, "failed")
     /\ failed' = (failed \/ ~ok)
  /\ UNCHANGED <<stored, up, who, memory, op, running, counts, kept, overtaken, orphaned, package>>

(* Seeded mistake: the user is looked up when the records are written.      *)
Bug_UpsertForActive(s) ==
  /\ save[s].pc = "upsert" /\ active # NoUser
  /\ files' = Upserted(active, save[s].records)
  /\ kept' = [kept EXCEPT ![save[s].by] = @ \cup save[s].records]
  /\ save' = [save EXCEPT ![s].pc = "store"]
  /\ UNCHANGED <<meta, secrets, up, who, memory, op, running, counts,
                 overtaken, orphaned, failed, package>>

Upsert(s) ==
  /\ save[s].pc = "upsert"
  /\ files' = Upserted(save[s].by, save[s].records)
  /\ kept' = [kept EXCEPT ![save[s].by] = @ \cup save[s].records]
  /\ save' = [save EXCEPT ![s].pc = "store"]
  /\ UNCHANGED <<meta, secrets, up, who, memory, op, running, counts,
                 overtaken, orphaned, failed, package>>

Store(s) ==
  /\ save[s].pc = "store"
  /\ SaveVaultStore(s)
  /\ save' = Ended(s, "done")
  /\ failed' = FALSE
  /\ UNCHANGED <<up, who, memory, op, running, counts, kept, overtaken, orphaned, package>>

(* A command fails: the disk is full, a file is in use.                     *)
FailSave(s) ==
  /\ fails < MaxFails /\ save[s].pc \in {"upsert", "store"}
  /\ IF save[s].pc = "store" THEN PartOfSaveVaultStore(s) ELSE UNCHANGED stored
  /\ save' = Ended(s, "failed")
  /\ fails' = fails + 1 /\ failed' = TRUE
  /\ UNCHANGED <<up, who, memory, op, running, ops, saves, edits, restarts,
                 kept, overtaken, orphaned, package>>

-----------------------------------------------------------------------------
(* What the page does, one operation at a time                              *)
At(pc) == op' = [op EXCEPT !.pc = pc]
Done == op' = NoOp
Choose(kind, u, pc) ==
  /\ up /\ op = NoOp /\ ops < MaxOps /\ ops' = ops + 1
  /\ op' = [kind |-> kind, user |-> u, pc |-> pc]
  /\ UNCHANGED <<saves, edits, fails, restarts, package>>

PagePersists == save' = [save EXCEPT ![Page] = Begun]
PageSaveEnded == save[Page].pc \in {"done", "failed"}
PageSaveOver == save' = [save EXCEPT ![Page] = NoSave]

(* Users come and go while others write the list they began with.           *)
Overtaken(us) == IF BackgroundIdle THEN overtaken ELSE overtaken \cup us

(* Those whose secrets nobody would find again                              *)
Orphans == orphaned \cup {u \in (users \cup {op.user}) \ {NoUser} : ~files[u].there}

(* restoreServerAccount and createUser: an account that is not on the list; *)
(* what is open is saved first.                                             *)
Add(kind, u) ==
  /\ u \notin users
  /\ Choose(kind, u, "before")
  /\ IF unlocked THEN PagePersists ELSE save' = [save EXCEPT ![Page].pc = "done"]
  /\ UNCHANGED <<stored, up, who, memory, running, aux, package>>

(* Restoring stops if that fails, and asks the server otherwise; creating   *)
(* goes on.  Both wait for the key to be derived.                           *)
SavedBefore ==
  /\ op.kind \in {"restore", "create"} /\ op.pc = "before" /\ PageSaveEnded
  /\ IF op.kind = "create" THEN At("join")
     ELSE IF save[Page].pc = "failed" THEN Done ELSE At("secrets")
  /\ PageSaveOver
  /\ UNCHANGED <<stored, up, who, memory, running, counts, aux, package>>

(* The server cannot be reached, or the password is wrong.                  *)
GiveUp ==
  /\ op.kind = "restore" /\ op.pc = "secrets"
  /\ Done
  /\ UNCHANGED <<stored, up, who, memory, save, running, counts, aux, package>>

(* saveAndVerifySecretKey, and the device token after it                    *)
SaveSecret ==
  /\ op.pc \in {"secrets", "token"}
  /\ secrets' = WithSecret(op.user, IF op.pc = "token" THEN "deviceToken" ELSE "secretKey")
  /\ IF op.kind = "create" THEN At("saving") /\ PagePersists
     ELSE At(IF op.pc = "token" THEN "join" ELSE "token") /\ UNCHANGED save
  /\ UNCHANGED <<meta, files, up, who, memory, running, counts, aux, package>>

(* Restoring requires the key ring, creating goes on without it.            *)
FailSecret ==
  /\ op.pc \in {"secrets", "token"} /\ fails < MaxFails /\ fails' = fails + 1
  /\ IF op.kind = "create" THEN At("saving") /\ PagePersists /\ UNCHANGED orphaned
     ELSE Done /\ UNCHANGED save /\ orphaned' = Orphans
  /\ UNCHANGED <<stored, up, who, memory, running, ops, saves, edits, restarts,
                 kept, overtaken, failed, package>>

(* upsertServerAccountUser, and closing what is open                        *)
Join ==
  /\ op.pc = "join"
  /\ users' = users \cup {op.user} /\ session' = NoUser
  /\ kept' = [kept EXCEPT ![op.user] = {}]
  /\ overtaken' = Overtaken({op.user})
  /\ At("enter")
  /\ UNCHANGED <<stored, up, active, unlocked, mem, save, running, counts, orphaned, failed, package>>

Enter ==
  /\ op.pc = "enter"
  /\ active' = op.user /\ unlocked' = TRUE /\ session' = op.user
  /\ mem' = FirstRecords(op.user)
  /\ At(IF op.kind = "create" THEN "secrets" ELSE "records")
  /\ UNCHANGED <<stored, up, users, save, running, counts, aux, package>>

(* The records that came from the server are written before the first       *)
(* persist.  If that fails, or a lock has closed the session they are       *)
(* encrypted with, the user stays on the list in memory.                    *)
WriteRecords ==
  /\ op.pc = "records" /\ session = op.user
  /\ files' = Upserted(op.user, FirstRecords(op.user))
  /\ kept' = [kept EXCEPT ![op.user] = @ \cup FirstRecords(op.user)]
  /\ At("saving") /\ PagePersists
  /\ UNCHANGED <<meta, secrets, up, who, memory, running, counts, overtaken, orphaned, failed, package>>

FailRecords ==
  /\ op.pc = "records"
  /\ \/ session # op.user /\ UNCHANGED fails
     \/ session = op.user /\ fails < MaxFails /\ fails' = fails + 1
  /\ Done /\ failed' = TRUE
  /\ UNCHANGED <<stored, up, who, memory, save, running, ops, saves, edits, restarts,
                 kept, overtaken, orphaned, package>>

(* A restored account that could not be saved is forgotten: the store reads *)
(* its list again, without touching unlocked.                               *)
Saved ==
  /\ op.pc = "saving" /\ PageSaveEnded
  /\ PageSaveOver
  /\ IF op.kind = "restore" /\ save[Page].pc = "failed"
     THEN op' = [kind |-> "hydrate", user |-> NoUser, pc |-> "load"] /\ up' = FALSE /\ session' = NoUser
     ELSE Done /\ UNCHANGED <<up, session>>
  /\ UNCHANGED <<stored, who, unlocked, mem, running, counts, aux, package>>

(* removeActiveUserFromDevice: the secrets first, and nothing else if the   *)
(* key ring refuses; then memory, then the list.                            *)
Remove ==
  /\ active # NoUser
  /\ Choose("remove", active, "forget")
  /\ UNCHANGED <<stored, up, who, memory, save, running, aux, package>>

Forget ==
  /\ op.pc = "forget"
  /\ secrets' = SecretsForgotten(op.user) /\ At("leave")
  /\ UNCHANGED <<meta, files, up, who, memory, save, running, counts, aux, package>>

FailForget ==
  /\ op.pc = "forget" /\ fails < MaxFails /\ fails' = fails + 1
  /\ \E some \in SUBSET SecretsOf({op.user}) : secrets' = secrets \ some
  /\ Done
  /\ UNCHANGED <<meta, files, up, who, memory, save, running, ops, saves, edits, restarts, aux, package>>

Closed == unlocked' = FALSE /\ session' = NoUser /\ mem' = {}

Leave ==
  /\ op.pc = "leave"
  /\ users' = users \ {op.user} /\ active' = NextUser(users')
  /\ Closed
  /\ overtaken' = Overtaken({op.user})
  /\ kept' = [kept EXCEPT ![op.user] = {}]
  /\ At("saving")
  /\ save' = [save EXCEPT ![Page] = [NoSave EXCEPT !.pc = "store", !.users = users']]
  /\ UNCHANGED <<stored, up, running, counts, orphaned, failed, package>>

(* switchUser                                                               *)
Switch(u) ==
  /\ u \in users \ {active}
  /\ Choose("switch", u, "before")
  /\ IF unlocked THEN PagePersists ELSE save' = [save EXCEPT ![Page].pc = "done"]
  /\ UNCHANGED <<stored, up, who, memory, running, aux, package>>

Switched ==
  /\ op.kind = "switch" /\ op.pc = "before" /\ PageSaveEnded
  /\ active' = op.user /\ Closed
  /\ At("saving")
  /\ save' = [save EXCEPT ![Page] = [NoSave EXCEPT !.pc = "store", !.users = users]]
  /\ UNCHANGED <<stored, up, users, running, counts, aux, package>>

(* unlockActiveUser, after the key is derived; the records are read next.   *)
Unlock ==
  /\ active # NoUser /\ session = NoUser
  /\ Choose("unlock", active, "load")
  /\ unlocked' = TRUE /\ session' = active
  /\ UNCHANGED <<stored, up, who, mem, save, running, aux, package>>

Load ==
  /\ op.kind = "unlock" /\ op.pc = "load"
  /\ IF session = op.user
     THEN /\ mem' = RecordsOf(op.user)
          /\ At("saving")
          /\ save' = [save EXCEPT ![Page] = [Begun EXCEPT !.records = mem']]
          /\ UNCHANGED <<unlocked, session>>
     ELSE Closed /\ Done /\ UNCHANGED save
  /\ UNCHANGED <<stored, up, who, running, counts, aux, package>>

(* lock, which the auto-lock timer and the system call whatever is going on *)
Lock ==
  /\ up /\ unlocked
  /\ Closed
  /\ UNCHANGED <<stored, up, who, op, save, running, counts, aux, package>>

(* exportBackupPackage: the records that are in memory when it begins; a    *)
(* lock on the way leaves no package.                                       *)
ExportBackup ==
  /\ session # NoUser /\ up /\ op = NoOp /\ ops < MaxOps
  /\ ops' = ops + 1
  /\ package' = [package EXCEPT ![session] = mem]
  /\ UNCHANGED <<stored, up, who, memory, op, save, running, saves, edits, fails, restarts, aux>>

(* restoreBackupPackage: save_encrypted_objects replaces the records, then  *)
(* the user of the package is put on the list and the list is saved.        *)
RestoreBackup(u) ==
  /\ Choose("backup", u, "adopt")
  /\ files' = Replaced(u, package[u])
  /\ kept' = [kept EXCEPT ![u] = package[u]]
  /\ overtaken' = Overtaken({u} \ users)
  /\ UNCHANGED <<meta, secrets, up, who, memory, save, running, orphaned, failed, package>>

Adopt ==
  /\ op.pc = "adopt"
  /\ users' = users \cup {op.user} /\ active' = op.user
  /\ Closed
  /\ At("saving")
  /\ save' = [save EXCEPT ![Page] = [NoSave EXCEPT !.pc = "store", !.users = users']]
  /\ UNCHANGED <<stored, up, running, counts, aux, package>>

-----------------------------------------------------------------------------
(* hydrate: the list is read, saved as it was read, and then taken over.    *)
Differing(us) == (users \ us) \cup (us \ users)

HydrateLoad ==
  /\ op.kind = "hydrate" /\ op.pc = "load"
  /\ At("store")
  /\ save' = [save EXCEPT ![Page] =
       [NoSave EXCEPT !.pc = "store", !.users = StoredUsers, !.active = {StoredActive}]]
  /\ kept' = [u \in User |-> IF u \in StoredUsers THEN kept[u] ELSE {}]
  /\ overtaken' = Overtaken(Differing(StoredUsers)) /\ orphaned' = Orphans
  /\ UNCHANGED <<stored, up, who, memory, running, counts, failed, package>>

Hydrated ==
  /\ op.kind = "hydrate" /\ save[Page].pc = "done"
  /\ up' = TRUE
  /\ users' = save[Page].users /\ active' = Committed(Page).active
  /\ mem' = {} /\ session' = NoUser
  /\ PageSaveOver /\ Done
  /\ UNCHANGED <<stored, unlocked, running, counts, aux, package>>

(* The page then offers nothing but what it says in the error.              *)
FailHydrate ==
  /\ op.kind = "hydrate" /\ save[Page].pc = "failed"
  /\ users' = {} /\ active' = NoUser /\ mem' = {}
  /\ PageSaveOver /\ Done
  /\ UNCHANGED <<stored, up, unlocked, session, running, counts, aux, package>>

(* The application is killed, in the middle of save_vault_store or not, and *)
(* started again.                                                           *)
Restart ==
  /\ restarts < MaxRestarts /\ restarts' = restarts + 1
  /\ \/ UNCHANGED stored
     \/ \E s \in Save : save[s].pc = "store" /\ PartOfSaveVaultStore(s)
  /\ up' = FALSE /\ users' = {} /\ active' = NoUser
  /\ Closed
  /\ op' = [kind |-> "hydrate", user |-> NoUser, pc |-> "load"]
  /\ save' = [s \in Save |-> NoSave] /\ running' = FALSE
  /\ orphaned' = Orphans
  /\ UNCHANGED <<ops, saves, edits, fails, kept, overtaken, failed, package>>

Next ==
  \/ \E s \in Background : ChangeSetting(s) \/ ChangeItem(s) \/ EndRun(s)
  \/ \E s \in Save : Encrypt(s) \/ Upsert(s) \/ Store(s) \/ FailSave(s)
  \/ \E u \in User : Add("restore", u) \/ Add("create", u) \/ Switch(u) \/ RestoreBackup(u)
  \/ StartRun \/ SavedBefore \/ GiveUp \/ SaveSecret \/ FailSecret \/ Join \/ Enter
  \/ WriteRecords \/ FailRecords \/ Saved
  \/ Remove \/ Forget \/ FailForget \/ Leave \/ Switched \/ Unlock \/ Load \/ Lock
  \/ ExportBackup \/ Adopt
  \/ HydrateLoad \/ Hydrated \/ FailHydrate \/ Restart

Spec == Init /\ [][Next]_vars

-----------------------------------------------------------------------------
Listed == IF up THEN users ELSE meta.users

(* Whatever is added, removed, restored or cut off, the directory of a user *)
(* on the list has every record that was written for that user and none of  *)
(* another: save_vault_store deletes what is on nobody's list, and persist()*)
(* names the user before it encrypts.  Users who came or went while somebody*)
(* was about to write an older list are excepted.                           *)
RecordsAreKept ==
  \A u \in Listed \ overtaken :
    /\ kept[u] \subseteq files[u].records
    /\ files[u].records \subseteq {u} \X Nat

AtRest == up /\ op = NoOp /\ \A s \in Save : Idle(s)

(* At rest, and unless the last save failed, a restart would find the users *)
(* the page shows, and nothing is left of anybody else: no directory and no *)
(* secret, except secrets saved without a directory by an operation that was*)
(* cut off (orphaned) and users who were overtaken.                         *)
NothingIsLeftBehind ==
  AtRest /\ ~failed => \A u \in User \ overtaken :
    /\ u \in users <=> u \in meta.users
    /\ u \notin users => ~files[u].there
    /\ u \notin users \cup orphaned => secrets \cap SecretsOf({u}) = {}
=============================================================================
