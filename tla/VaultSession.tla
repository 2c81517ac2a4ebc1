---------------------------- MODULE VaultSession ----------------------------
(***************************************************************************)
(* The desktop vault store of one installation with several users: what is  *)
(* in memory while the active user is unlocked, what is loaded lazily from  *)
(* the record file, and a sync run that goes on across locking, switching   *)
(* the user and unlocking again.  Sync runs in all their steps are in       *)
(* VaultSync; here the push of a run with its answer is one step, and an    *)
(* event is applied in the two steps the decryption makes of it.            *)
(***************************************************************************)
EXTENDS Naturals, Sequences, FiniteSets

CONSTANTS
  User, Vault, Item,
  UserOf,       \* the user of each vault
  VaultOf,      \* the vault of each item
  FirstVault,   \* the vault of each user that unlocking loads
  Stored,       \* the server's events in the beginning, one for an item
  NoUser,       \* no user
  PageSize,
  MaxLog, MaxSessions, MaxEdits, MaxRuns, MaxRestarts \* bounds

ASSUME VaultSessionAssumption ==
  /\ UserOf \in [Vault -> User] /\ VaultOf \in [Item -> Vault]
  /\ FirstVault \in [User -> Vault] /\ \A u \in User : UserOf[FirstVault[u]] = u
  /\ Stored \in Seq([item : Item, by : {"this", "other"}])
  /\ \A m, n \in DOMAIN Stored : Stored[m].item = Stored[n].item => m = n
  /\ NoUser \notin User /\ PageSize \in Nat \ {0}

VARIABLES
  log,          \* the server's events: [item, by], by other devices or this one
  disk,         \* the record of each item in SQLite
  diskCursor,   \* the cursor in each stored user profile
  user,         \* activeUserId
  session,      \* the session of the unlocked user, 0 when locked
  mem,          \* the items in memory
  loaded,       \* loadedVaultIds
  cursor,       \* settings.sync.cursor
  profiles,     \* the cursor in each profile in memory
  ui,           \* what the page is doing
  load,         \* a vault on its way from the record file
  run,          \* the sync run
  sessions, edits, runs, restarts, \* how many so far
  torn,         \* auxiliary: users touched by a run that outlived their session
  missed        \* auxiliary: items of which a load or a decryption brought an older
                \* version than there was, or that were not in a loaded vault

page == <<user, session, ui, sessions>>
memory == <<mem, loaded>>
saved == <<disk, diskCursor, profiles>>
aux == <<torn, missed>>
counts == <<edits, runs, restarts>>
vars == <<log, saved, page, memory, cursor, load, run, counts, aux>>

Owner(i) == UserOf[VaultOf[i]]
Events == DOMAIN log
RevisionAt(n) == Cardinality({m \in 1..n : log[m].item = log[n].item})
Latest(i) == Cardinality({n \in Events : log[n].item = i})

Absent == [revision |-> 0, state |-> "none"]
Clean(r) == [revision |-> r, state |-> "clean"]
Here(i) == mem[i] # Absent
Nothing == [i \in Item |-> Absent]

NoLoad == [vaults |-> {}, session |-> 0, items |-> Nothing, pc |-> "idle"]
NoRun == [user |-> NoUser, session |-> 0, space |-> NoUser, items |-> Nothing,
          cursor |-> 0, events |-> {}, pc |-> "idle"]
Idle == run.pc = "idle"

(* Every user is synchronised, and the application has just been started.   *)
Init ==
  /\ log = Stored
  /\ disk = [i \in Item |-> IF Latest(i) = 1 THEN Clean(1) ELSE Absent]
  /\ diskCursor = [u \in User |-> Len(log)] /\ profiles = diskCursor
  /\ user \in User /\ session = 0 /\ ui = <<"idle">> /\ sessions = 0
  /\ mem = Nothing /\ loaded = {} /\ cursor = Len(log)
  /\ load = NoLoad /\ run = NoRun
  /\ edits = 0 /\ runs = 0 /\ restarts = 0
  /\ torn = {} /\ missed = {}

(* Seeded mistake: records without a pending change are not written.        *)
Bug_OnlyDirty(m) ==
  [i \in Item |-> IF m[i].state = "dirty" /\ Owner(i) = user THEN m[i] ELSE disk[i]]

(* upsert_encrypted_objects writes into the database of the active user: a  *)
(* record that is not in memory stays, as do those of the other users.      *)
Upserted(m) ==
  [i \in Item |-> IF m[i] = Absent \/ Owner(i) # user THEN disk[i] ELSE m[i]]

(* persist: the active profile takes the cursor, the records are written if *)
(* there is a session, the profiles always.                                 *)
Persist(m, c) ==
  /\ profiles' = [profiles EXCEPT ![user] = c]
  /\ diskCursor' = profiles'
  /\ disk' = IF session # 0 THEN Upserted(m) ELSE disk

-----------------------------------------------------------------------------
(* Users whose vault changes under a run                                    *)
Outlived == IF Idle THEN {} ELSE {run.user, user}

(* unlockActiveUser: deriving the key takes far longer than a decryption or *)
(* a log entry, so none that an earlier session began is still under way.   *)
Unlock ==
  /\ ui = <<"idle">> /\ session = 0 /\ sessions < MaxSessions
  /\ run.pc \notin {"load", "apply"} /\ load.pc # "merge"
  /\ session' = sessions + 1 /\ sessions' = sessions + 1 /\ ui' = <<"unlocking">>
  /\ UNCHANGED <<log, saved, user, memory, cursor, load, run, counts, aux>>

(* The items of a set of vaults as they are in the record file              *)
Read(vaults) == [i \in Item |-> IF VaultOf[i] \in vaults THEN disk[i] ELSE Absent]

(* loadInitialUnlockedUserData starts with no items and the selected vault. *)
LoadFirst ==
  /\ ui = <<"unlocking">> /\ load.pc = "idle"
  /\ mem' = Nothing /\ loaded' = {}
  /\ load' = [vaults |-> {FirstVault[user]}, session |-> session,
              items |-> Read({FirstVault[user]}), pc |-> "read"]
  /\ ui' = <<"loading">>
  /\ torn' = torn \cup Outlived
  /\ UNCHANGED <<log, saved, user, session, sessions, cursor, run, counts, missed>>

(* selectVault                                                              *)
SelectVault(v) ==
  /\ ui = <<"idle">> /\ session # 0 /\ load.pc = "idle"
  /\ UserOf[v] = user /\ v \notin loaded
  /\ load' = [vaults |-> {v}, session |-> session, items |-> Read({v}), pc |-> "read"]
  /\ UNCHANGED <<log, saved, page, memory, cursor, run, counts, aux>>

(* A record is decrypted only while its session is open; if it is not, the  *)
(* run that waits for the records ends.                                     *)
Decrypt ==
  /\ load.pc = "read"
  /\ IF load.session = session \/ load.items = Nothing
     THEN load' = [load EXCEPT !.pc = "merge"] /\ UNCHANGED run
     ELSE load' = NoLoad /\ run' = IF run.pc = "wait" THEN NoRun ELSE run
  /\ UNCHANGED <<log, saved, page, memory, cursor, counts, aux>>

(* mergeById: what was read replaces what is in memory by now.              *)
Merged(items) == [i \in Item |-> IF items[i] = Absent THEN mem[i] ELSE items[i]]
Replaced(items) ==
  {i \in Item : items[i] # Absent /\ \E r \in {mem[i], disk[i]} : r.revision > items[i].revision}

Merge ==
  /\ load.pc = "merge"
  /\ mem' = Merged(load.items) /\ loaded' = loaded \cup load.vaults
  /\ missed' = missed \cup Replaced(load.items)
  /\ load' = NoLoad
  /\ run' = IF run.pc = "wait" THEN [run EXCEPT !.pc = "begin"] ELSE run
  /\ IF ui = <<"loading">>
     THEN ui' = <<"idle">> /\ Persist(mem', cursor)
     ELSE UNCHANGED <<ui, saved>>
  /\ UNCHANGED <<log, user, session, sessions, cursor, counts, torn>>

(* saveItem: of an item in memory that has no pending change, or a new one; *)
(* its vault counts as loaded.                                              *)
SaveItem(i) ==
  /\ ui = <<"idle">> /\ session # 0 /\ Owner(i) = user /\ edits < MaxEdits
  /\ mem[i].state = "clean" \/ (disk[i] = Absent /\ Latest(i) = 0 /\ ~Here(i))
  /\ mem' = [mem EXCEPT ![i] = [revision |-> @.revision + 1, state |-> "dirty"]]
  /\ loaded' = loaded \cup {VaultOf[i]}
  /\ missed' = missed \cup {j \in Item : VaultOf[j] = VaultOf[i] /\ disk[j] # Absent /\ ~Here(j)}
  /\ edits' = edits + 1
  /\ Persist(mem', cursor)
  /\ UNCHANGED <<log, page, cursor, load, run, runs, restarts, torn>>

(* lockApp persists first, and switchUser does if the vault is unlocked.    *)
Leave(next) ==
  /\ ui = <<"idle">>
  /\ next # user /\ (session # 0 \/ next # NoUser)
  /\ IF session # 0 THEN Persist(mem, cursor) ELSE UNCHANGED saved
  /\ ui' = <<"leave", next>>
  /\ UNCHANGED <<log, user, session, sessions, memory, cursor, load, run, counts, aux>>

(* lock: the session is closed and the memory emptied.                      *)
Lock ==
  /\ ui = <<"leave", NoUser>>
  /\ session' = 0 /\ mem' = Nothing /\ loaded' = {} /\ ui' = <<"idle">>
  /\ torn' = torn \cup Outlived
  /\ UNCHANGED <<log, saved, user, sessions, cursor, load, run, counts, missed>>

(* switchUser: the settings become those of the profile, which is saved.    *)
Switch(u) ==
  /\ ui = <<"leave", u>>
  /\ user' = u /\ session' = 0 /\ mem' = Nothing /\ loaded' = {} /\ ui' = <<"idle">>
  /\ cursor' = profiles[u]
  /\ diskCursor' = profiles /\ UNCHANGED <<disk, profiles>>
  /\ torn' = torn \cup Outlived \cup (IF Idle THEN {} ELSE {u})
  /\ UNCHANGED <<log, sessions, load, run, counts, missed>>

-----------------------------------------------------------------------------
(* tryAutoSync and runSyncWithCurrentConnection; the timer of an automatic  *)
(* run is longer than reading the names of the vaults takes on unlocking.   *)
Start ==
  /\ Idle /\ session # 0 /\ ui # <<"unlocking">> /\ runs < MaxRuns
  /\ \A i \in Item : mem[i].state # "conflicted"
  /\ runs' = runs + 1
  /\ run' = [NoRun EXCEPT !.user = user, !.session = session, !.pc = "load"]
  /\ UNCHANGED <<log, saved, page, memory, cursor, load, edits, restarts, aux>>

(* Seeded mistake: the run takes what is loaded.                            *)
Bug_NoneMissing == {}

(* ensureAllVaultObjectsLoaded, which fails when locked.                    *)
Missing == {v \in Vault : UserOf[v] = user /\ v \notin loaded}

RunReads ==
  /\ run.pc = "load" /\ load.pc = "idle"
  /\ IF session = 0
     THEN run' = NoRun /\ UNCHANGED load
     ELSE /\ run' = [run EXCEPT !.pc = "wait"]
          /\ load' = [vaults |-> Missing, session |-> session, items |-> Read(Missing), pc |-> "read"]
  /\ UNCHANGED <<log, saved, page, memory, cursor, counts, aux>>

(* The settings looked at from here on are those of the active user.  If no *)
(* vault is in memory it is to be repaired from the snapshot, for which the *)
(* session is gone; what is pending is encrypted before it is pushed.       *)
Dirty(items) == {i \in Item : items[i].state = "dirty"}

NoVaults == session = 0 \/ ui = <<"unlocking">>

Begin ==
  /\ run.pc = "begin"
  /\ run' = IF run.session # session /\ ((NoVaults /\ cursor > 0) \/ Dirty(mem) # {})
            THEN NoRun
            ELSE [run EXCEPT !.space = user, !.items = mem, !.pc = "push"]
  /\ UNCHANGED <<log, saved, page, memory, cursor, load, counts, aux>>

(* The version this device made of the item is the one of event n.          *)
Same(items, n) ==
  log[n].by = "this" /\ RevisionAt(n) = items[log[n].item].revision

(* A change is accepted on the server's latest revision; a refused one that *)
(* the server has already is settled, any other is a conflict.              *)
PushItem(i) ==
  LET accepted == run.items[i].revision = Latest(i) + 1
      settled == accepted \/ \E n \in Events : log[n].item = i /\ Same(run.items, n)
  IN  /\ run.pc = "push" /\ i \in Dirty(run.items)
      /\ log' = IF accepted THEN Append(log, [item |-> i, by |-> "this"]) ELSE log
      /\ mem' = IF Here(i) THEN [mem EXCEPT ![i].state = IF settled THEN "clean" ELSE "conflicted"]
                ELSE mem
      /\ run' = [run EXCEPT !.items[i] = Absent]
      /\ UNCHANGED <<saved, page, loaded, cursor, load, counts, aux>>

TakeCursor ==
  /\ run.pc = "push" /\ Dirty(run.items) = {}
  /\ run' = [run EXCEPT !.items = Nothing, !.cursor = cursor, !.pc = "pull"]
  /\ UNCHANGED <<log, saved, page, memory, cursor, load, counts, aux>>

(* The next events of the account whose token the run has; the cursor goes  *)
(* to the last of them.                                                     *)
EventsAfter(c) == {n \in Events : n > c /\ Owner(log[n].item) = run.user}
PageAfter(c) ==
  {n \in EventsAfter(c) : Cardinality({m \in EventsAfter(c) : m < n}) < PageSize}
LastOf(events, c) == CHOOSE n \in events \cup {c} : \A m \in events : m <= n

Pull ==
  /\ run.pc = "pull"
  /\ run' = [run EXCEPT !.events = PageAfter(run.cursor),
                        !.cursor = LastOf(PageAfter(run.cursor), run.cursor), !.pc = "page"]
  /\ UNCHANGED <<log, saved, page, memory, cursor, load, counts, aux>>

First == CHOOSE n \in run.events : \A m \in run.events : n <= m

(* applyPulledSyncObject                                                    *)
Verdict(n) ==
  LET local == mem[log[n].item]
  IN  IF Owner(log[n].item) # run.space THEN "skip"
      ELSE IF local.state = "none" THEN "apply"
      ELSE IF local.state = "clean" THEN IF local.revision >= RevisionAt(n) THEN "skip" ELSE "apply"
      ELSE IF Same(mem, n) THEN "apply"
      ELSE IF local.state = "conflicted" \/ RevisionAt(n) < local.revision THEN "skip"
      ELSE "conflict"

Examine ==
  /\ run.pc = "page" /\ run.events # {}
  /\ LET verdict == Verdict(First)
     IN  /\ run' = IF verdict # "apply" THEN [run EXCEPT !.events = @ \ {First}]
                   ELSE IF run.session # session THEN NoRun
                   ELSE [run EXCEPT !.pc = "apply"]
         /\ mem' = IF verdict = "conflict"
                   THEN [mem EXCEPT ![log[First].item].state = "conflicted"] ELSE mem
  /\ UNCHANGED <<log, saved, page, loaded, cursor, load, counts, aux>>

(* The decrypted object goes into whatever the memory is by now.            *)
Apply ==
  /\ run.pc = "apply"
  /\ mem' = [mem EXCEPT ![log[First].item] = Clean(RevisionAt(First))]
  /\ missed' = missed \cup {i \in {log[First].item} :
       mem[i].state = "dirty" \/ (disk[i].state = "dirty" /\ session # run.session)}
  /\ run' = [run EXCEPT !.events = @ \ {First}, !.pc = "page"]
  /\ UNCHANGED <<log, saved, page, loaded, cursor, load, counts, torn>>

NextPage ==
  /\ run.pc = "page" /\ run.events = {} /\ EventsAfter(run.cursor) # {}
  /\ run' = [run EXCEPT !.pc = "pull"]
  /\ UNCHANGED <<log, saved, page, memory, cursor, load, counts, aux>>

(* The acknowledged cursor goes into the settings there are by now.         *)
Finish ==
  /\ run.pc = "page" /\ run.events = {}
  /\ cursor' = run.cursor
  /\ Persist(mem, cursor')
  /\ run' = NoRun
  /\ UNCHANGED <<log, page, memory, load, counts, aux>>

(* A call to the server fails.                                              *)
Fail ==
  /\ run.pc \in {"push", "pull", "page"} /\ (run.pc = "page" => run.events = {})
  /\ run' = NoRun
  /\ UNCHANGED <<log, saved, page, memory, cursor, load, counts, aux>>

-----------------------------------------------------------------------------
(* The application is ended and started again.                              *)
Restart ==
  /\ restarts < MaxRestarts /\ restarts' = restarts + 1
  /\ session' = 0 /\ mem' = Nothing /\ loaded' = {} /\ ui' = <<"idle">>
  /\ profiles' = diskCursor /\ cursor' = diskCursor[user]
  /\ load' = NoLoad /\ run' = NoRun
  /\ UNCHANGED <<log, disk, diskCursor, user, sessions, edits, runs, aux>>

(* Another device of the user saves the item, or makes it.                  *)
OtherDevice(i) ==
  /\ Len(log) < MaxLog /\ (Latest(i) > 0 \/ disk[i] = Absent)
  /\ log' = Append(log, [item |-> i, by |-> "other"])
  /\ UNCHANGED <<saved, page, memory, cursor, load, run, counts, aux>>

RunStep ==
  \/ Start \/ RunReads \/ Begin \/ (\E i \in Item : PushItem(i)) \/ TakeCursor
  \/ Pull \/ Examine \/ Apply \/ NextPage \/ Finish \/ Fail

Next ==
  \/ Unlock \/ LoadFirst \/ Decrypt \/ Merge \/ Lock \/ RunStep \/ Restart
  \/ \E v \in Vault : SelectVault(v)
  \/ \E i \in Item : SaveItem(i) \/ OtherDevice(i)
  \/ \E u \in User : Switch(u)
  \/ \E u \in User \cup {NoUser} : Leave(u)

Spec == Init /\ [][Next]_vars

-----------------------------------------------------------------------------
(* Up to the saved cursor of a user every version is on the disk, or a      *)
(* conflict with it, unless a run went on while the user's vault was locked *)
(* or began to be loaded, or while the user was switched.                   *)
SavedCursorIsCovered ==
  \A u \in User \ torn :
    \A n \in 1..diskCursor[u] :
      LET i == log[n].item
      IN  Owner(i) = u => disk[i].revision >= RevisionAt(n) \/ disk[i].state = "conflicted"

(* A saved edit leaves the disk only for the same version from the server,  *)
(* unless it was not in memory while its vault counted as loaded, or was    *)
(* replaced there by what a load or a decryption had read before it.        *)
EditIsKept ==
  [][\A i \in Item :
       disk[i].state = "dirty" /\ disk'[i] # disk[i] =>
         \/ i \in missed'
         \/ disk'[i].state = "conflicted"
         \/ \E n \in Events : log[n].item = i /\ Same(disk, n)]_vars
=============================================================================
