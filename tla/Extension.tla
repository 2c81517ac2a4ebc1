------------------------------ MODULE Extension ------------------------------
(***************************************************************************)
(* The background worker of the browser extension: what panels and pages    *)
(* ask of it, and the records in the browser's storage it answers from.     *)
(* Every request is a chain of asynchronous steps, and every change of a    *)
(* record reads the whole of it and writes the whole of it back.  The       *)
(* session of the crypto provider is in the memory of the worker, which the *)
(* browser may stop at any time; the decrypted vault is in                  *)
(* chrome.storage.session and survives that.  Panels and popups show what   *)
(* they heard last, so each may ask for anything at any time.               *)
(* Reading account and record together (loadPanelState) is one step.        *)
(***************************************************************************)
EXTENDS Naturals, FiniteSets

CONSTANTS
  Task,       \* requests the worker is busy with at a time
  Account,    \* accounts on the server
  VaultItem,  \* items, of whichever account
  Nobody,     \* no account
  StoredFor,  \* the account an item is stored for in the beginning, or Nobody
  MaxRevision, MaxAsked, MaxStops \* bounds, MaxAsked for each kind of request

ASSUME ExtensionAssumption ==
  /\ Nobody \notin Account
  /\ DOMAIN MaxAsked \subseteq
       {"unlock", "lock", "authorize", "settings", "save", "page", "touch"}

VARIABLES
  account,    \* the account in chrome.storage.local
  record,     \* the session record in chrome.storage.session
  active,     \* activeVaultSession: [account, id]
  open,       \* the sessions of the crypto provider: [account, id]
  server,     \* the revision of each item of each account, 0 for none
  job, pc,    \* what each request works on, and where it is
  ids, asked, stops, \* sessions, requests and stops of the worker so far
  late        \* auxiliary: a request another had overtaken wrote the record, or
              \* put another account back, or a sign-in was cut in the middle

extension == <<account, record, active, open, server, job, pc, ids, asked, stops, late>>

NoItems == [i \in VaultItem |-> 0]

(* Whether it is unlocked, and the decrypted items by their revision; whose *)
(* they are it does not say.                                                *)
Locked == [unlocked |-> FALSE, items |-> NoItems]
Unlocked(items) == [unlocked |-> TRUE, items |-> items]

NoSession == [account |-> Nobody, id |-> 0]
NoJob == [account |-> Nobody, item |-> Nobody,
          items |-> NoItems, id |-> 0, saw |-> Locked, overtaken |-> FALSE]

(* Somebody is signed in and has unlocked, or nobody has yet.               *)
ExtensionInit ==
  /\ server = [a \in Account |-> [i \in VaultItem |-> IF StoredFor[i] = a THEN 1 ELSE 0]]
  /\ \/ account = Nobody /\ record = Locked /\ active = NoSession /\ open = {} /\ ids = 0
     \/ /\ account \in Account
        /\ record = Unlocked(server[account])
        /\ active = [account |-> account, id |-> 1] /\ open = {active} /\ ids = 1
  /\ job = [t \in Task |-> NoJob] /\ pc = [t \in Task |-> "idle"]
  /\ asked = [do \in DOMAIN MaxAsked |-> 0] /\ stops = 0 /\ late = FALSE

Goto(t, next) == pc' = [pc EXCEPT ![t] = next]
Becomes(t, j) == job' = [job EXCEPT ![t] = j]
End(t) == Goto(t, "idle") /\ Becomes(t, NoJob)

(* Where a request works on what it has read before.                        *)
Holding == {"fetch", "close", "derive", "decrypt", "activate", "write", "touched",
            "settle", "encrypt", "push", "show", "give"}

(* The step of t changes what others have read.                             *)
Overtakes(t, j) ==
  job' = [u \in Task |-> IF u = t THEN j
                         ELSE [job[u] EXCEPT !.overtaken = @ \/ pc[u] \in Holding]]

(* chrome.storage.session.set, of a record made from what was read, or not  *)
Put(t, r, copied, next) ==
  /\ record' = r /\ late' = (r # Locked /\ (job[t].overtaken \/ (copied /\ late)))
  /\ Goto(t, next)
  /\ Overtakes(t, NoJob)

Ask(t, do) ==
  /\ pc[t] = "idle" /\ asked[do] < MaxAsked[do] /\ asked' = [asked EXCEPT ![do] = @ + 1]
  /\ Goto(t, do)
  /\ UNCHANGED <<account, record, active, open, server, job, ids, stops, late>>

(* closeAllSessions, and the worker's own variable                          *)
CloseSessions == open' = {} /\ active' = NoSession

-----------------------------------------------------------------------------
(* unlockExtensionVault: the account and its device token, then the         *)
(* snapshot.                                                                *)
UnlockExtension(t) ==
  /\ pc[t] = "unlock"
  /\ IF account = Nobody THEN End(t)
     ELSE Becomes(t, [job[t] EXCEPT !.account = account, !.overtaken = FALSE]) /\ Goto(t, "fetch")
  /\ UNCHANGED <<account, record, active, open, server, ids, asked, stops, late>>

Fetch(t) ==
  /\ pc[t] = "fetch"
  /\ \/ Becomes(t, [job[t] EXCEPT !.items = server[job[t].account]]) /\ Goto(t, "close")
     \/ Becomes(t, NoJob) /\ Goto(t, "failed")
  /\ UNCHANGED <<account, record, active, open, server, ids, asked, stops, late>>

Close(t) ==
  /\ pc[t] = "close"
  /\ CloseSessions /\ Overtakes(t, job[t]) /\ Goto(t, "derive")
  /\ UNCHANGED <<account, record, server, ids, asked, stops, late>>

(* The key is derived and a session opened, which closes the one the        *)
(* provider has for that account; or the password is wrong.                 *)
Derive(t) ==
  /\ pc[t] = "derive"
  /\ \/ /\ ids' = ids + 1
        /\ open' = {s \in open : s.account # job[t].account}
                     \cup {[account |-> job[t].account, id |-> ids + 1]}
        /\ Overtakes(t, [job[t] EXCEPT !.id = ids + 1]) /\ Goto(t, "decrypt")
     \/ UNCHANGED <<ids, open>> /\ Becomes(t, NoJob) /\ Goto(t, "failed")
  /\ UNCHANGED <<account, record, active, server, asked, stops, late>>

(* Another request may have closed the session meanwhile.                   *)
DecryptSnapshot(t) ==
  /\ pc[t] = "decrypt"
  /\ IF \E s \in open : s.id = job[t].id
     THEN Goto(t, "activate") /\ UNCHANGED job
     ELSE Goto(t, "failed") /\ Becomes(t, NoJob)
  /\ UNCHANGED <<account, record, active, open, server, ids, asked, stops, late>>

Activate(t) ==
  /\ pc[t] = "activate"
  /\ active' = [account |-> job[t].account, id |-> job[t].id]
  /\ Overtakes(t, job[t]) /\ Goto(t, "write")
  /\ UNCHANGED <<account, record, open, server, ids, asked, stops, late>>

(* saveUnlockedVault: of the record it read only the selection is kept.     *)
SaveUnlocked(t) ==
  /\ pc[t] = "write"
  /\ Put(t, Unlocked(job[t].items), FALSE, "idle")
  /\ UNCHANGED <<account, active, open, server, ids, asked, stops>>

(* The unlocking fails: every session is closed, and after a failed call to *)
(* the server the connection status is written into the record.             *)
UnlockFails(t) ==
  /\ pc[t] = "failed"
  /\ CloseSessions
  /\ Overtakes(t, NoJob) /\ (Goto(t, "idle") \/ Goto(t, "touch"))
  /\ UNCHANGED <<account, record, server, ids, asked, stops, late>>

(* setConnectionStatus, updateSelection, setActiveOrigin: the record is     *)
(* read, and written back with another status, selection or origin.         *)
ReadRecord(t) ==
  /\ pc[t] = "touch"
  /\ Becomes(t, [job[t] EXCEPT !.saw = record, !.overtaken = FALSE]) /\ Goto(t, "touched")
  /\ UNCHANGED <<account, record, active, open, server, ids, asked, stops, late>>

WriteBack(t) ==
  /\ pc[t] = "touched"
  /\ Put(t, job[t].saw, TRUE, "idle")
  /\ UNCHANGED <<account, active, open, server, ids, asked, stops>>

-----------------------------------------------------------------------------
(* panel.lock                                                               *)
LockExtension(t) ==
  /\ pc[t] = "lock"
  /\ CloseSessions /\ Overtakes(t, job[t]) /\ Goto(t, "wipe")
  /\ UNCHANGED <<account, record, server, ids, asked, stops, late>>

(* lockExtension, and the end of saveDeviceAuthorization                    *)
Wipe(t) ==
  /\ pc[t] \in {"wipe", "empty"}
  /\ Put(t, Locked, FALSE, "idle")
  /\ UNCHANGED <<account, active, open, server, ids, asked, stops>>

(* authorizeAccount and saveDeviceAuthorization: the user signs in on the   *)
(* web page, the token and the account are stored, the record is emptied;   *)
(* the session of the account before stays open.                            *)
SignIn(t, a) ==
  /\ pc[t] = "authorize"
  /\ account' = a /\ Overtakes(t, NoJob) /\ Goto(t, "empty")
  /\ UNCHANGED <<record, active, open, server, ids, asked, stops, late>>

(* saveExtensionLocale, saveExtensionServerSettings: the persistent record  *)
(* is read, and written back with the account it had.                       *)
ReadSettings(t) ==
  /\ pc[t] = "settings"
  /\ Becomes(t, [job[t] EXCEPT !.account = account, !.overtaken = FALSE]) /\ Goto(t, "settle")
  /\ UNCHANGED <<account, record, active, open, server, ids, asked, stops, late>>

WriteSettings(t) ==
  /\ pc[t] = "settle"
  /\ account' = job[t].account /\ Overtakes(t, NoJob) /\ Goto(t, "idle")
  /\ late' = (late \/ account' # account)
  /\ UNCHANGED <<record, active, open, server, ids, asked, stops>>

-----------------------------------------------------------------------------
(* saveExtensionVaultItem: of an item in the record, or of one that no      *)
(* account has and no other request is about to create.                     *)
Fresh(i) ==
  /\ \A a \in Account : server[a][i] = 0
  /\ \A u \in Task : pc[u] \in {"encrypt", "push", "show"} => job[u].item # i

Save(t, i) ==
  /\ pc[t] = "save"
  /\ record.unlocked => record.items[i] # 0 \/ Fresh(i)
  /\ IF record.unlocked /\ account # Nobody /\ active.account = account
     THEN /\ Becomes(t, [job[t] EXCEPT !.account = account, !.item = i,
                                       !.items = record.items, !.overtaken = FALSE])
          /\ Goto(t, "encrypt")
     ELSE End(t)
  /\ UNCHANGED <<account, record, active, open, server, ids, asked, stops, late>>

Encrypt(t) ==
  /\ pc[t] = "encrypt"
  /\ IF active.account = job[t].account /\ active \in open
     THEN UNCHANGED job /\ Goto(t, "push")
     ELSE End(t)
  /\ UNCHANGED <<account, record, active, open, server, ids, asked, stops, late>>

(* The push is accepted on the revision the item had in the record, or it   *)
(* conflicts; its answer may be lost, or the push itself.                   *)
Push(t) ==
  LET j == job[t]
      accepted == server[j.account][j.item] = j.items[j.item]
  IN  /\ pc[t] = "push"
      /\ server[j.account][j.item] < MaxRevision
      /\ server' = IF accepted THEN [server EXCEPT ![j.account][j.item] = @ + 1] ELSE server
      /\ \/ accepted /\ Goto(t, "show") /\ UNCHANGED job
         \/ ~accepted /\ End(t)
         \/ Goto(t, "touch") /\ Becomes(t, NoJob)
      /\ UNCHANGED <<account, record, active, open, ids, asked, stops, late>>

PushLost(t) ==
  /\ pc[t] = "push"
  /\ Goto(t, "touch") /\ Becomes(t, NoJob)
  /\ UNCHANGED <<account, record, active, open, server, ids, asked, stops, late>>

(* Seeded mistake: the other items are left out.                            *)
Bug_OnlyThatItem(j) == [NoItems EXCEPT ![j.item] = j.items[j.item] + 1]

(* The items as they were when the request began, with the saved one.       *)
SavedItems(j) == [j.items EXCEPT ![j.item] = @ + 1]

(* saveUnlockedVault again, then updateSelection.                           *)
Show(t) ==
  /\ pc[t] = "show"
  /\ Put(t, Unlocked(SavedItems(job[t])), TRUE, "touch")
  /\ UNCHANGED <<account, active, open, server, ids, asked, stops>>

-----------------------------------------------------------------------------
(* Seeded mistake: the record alone is asked.                               *)
Bug_RecordOnly == record.unlocked

(* hasActiveExtensionVaultSession, for an unlocked record                   *)
Consistent == account # Nobody /\ active.account = account

(* loadConsistentPanelState, for a page or a panel: a record left unlocked  *)
(* without a session is locked.                                             *)
Check(t) ==
  /\ pc[t] = "page"
  /\ Becomes(t, NoJob)
  /\ Goto(t, IF ~record.unlocked THEN "idle" ELSE IF Consistent THEN "give" ELSE "wipe")
  /\ UNCHANGED <<account, record, active, open, server, ids, asked, stops, late>>

(* loadFillCredential reads the record again.                               *)
Give(t) ==
  /\ pc[t] = "give"
  /\ End(t)
  /\ UNCHANGED <<account, record, active, open, server, ids, asked, stops, late>>

-----------------------------------------------------------------------------
(* The new account is stored, the record of the one before not yet emptied. *)
SigningIn(t) == pc[t] = "empty"

(* The browser stops the worker, and its requests with it; when the browser *)
(* itself is closed the session storage is gone too.                        *)
Stop ==
  /\ stops < MaxStops /\ stops' = stops + 1
  /\ CloseSessions
  /\ job' = [t \in Task |-> NoJob] /\ pc' = [t \in Task |-> "idle"]
  /\ \/ UNCHANGED record /\ late' = (late \/ \E t \in Task : SigningIn(t))
     \/ record' = Locked /\ late' = FALSE
  /\ UNCHANGED <<account, server, ids, asked>>

(* Another client of the account saves the item.                            *)
OtherClient(a, i) ==
  /\ server[a][i] \in 1..(MaxRevision - 1)
  /\ server' = [server EXCEPT ![a][i] = @ + 1]
  /\ UNCHANGED <<account, record, active, open, job, pc, ids, asked, stops, late>>

TaskStep(t) ==
  \/ \E do \in DOMAIN MaxAsked : Ask(t, do)
  \/ UnlockExtension(t) \/ Fetch(t) \/ Close(t) \/ Derive(t) \/ DecryptSnapshot(t) \/ Activate(t)
  \/ SaveUnlocked(t) \/ UnlockFails(t) \/ ReadRecord(t) \/ WriteBack(t)
  \/ LockExtension(t) \/ Wipe(t) \/ (\E a \in Account : SignIn(t, a))
  \/ ReadSettings(t) \/ WriteSettings(t)
  \/ (\E i \in VaultItem : Save(t, i)) \/ Encrypt(t) \/ Push(t) \/ PushLost(t) \/ Show(t)
  \/ Check(t) \/ Give(t)

ExtensionNext ==
  \/ \E t \in Task : TaskStep(t)
  \/ Stop
  \/ \E a \in Account, i \in VaultItem : OtherClient(a, i)

ExtensionSpec == ExtensionInit /\ [][ExtensionNext]_extension

-----------------------------------------------------------------------------
(* The revisions an account has on the server                               *)
Has(a) == {i \in VaultItem : server[a][i] # 0}

(* A page is given credentials only while the current account is unlocked,  *)
(* and only of items that account has, unless another request changed the   *)
(* record, the account or the session while this one, or the one that wrote *)
(* the record, was under way, or a sign-in is not finished.                 *)
GivenToTheUnlocked ==
  [][\A t \in Task :
       pc[t] = "give" /\ pc'[t] = "idle" /\ stops' = stops /\ record.unlocked =>
         \/ job[t].overtaken
         \/ /\ active.account = account
            /\ \/ \A i \in VaultItem \ Has(account) : record.items[i] = 0
               \/ late
               \/ \E u \in Task : SigningIn(u)]_extension

(* What is shown of the account's items never goes back to an older         *)
(* revision, unless it is written by a request another one overtook.        *)
NothingGoesBack ==
  [][record.unlocked /\ record'.unlocked /\ account # Nobody =>
       late' \/ \A i \in Has(account) : record.items[i] <= record'.items[i]]_extension
=============================================================================
