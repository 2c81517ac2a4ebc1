# Specifications of LockPass Next

LockPass Next is a password manager whose clients (desktop, web, browser
extension) encrypt everything they store and share it through a server that
sees ciphertext only. This directory holds TLA+ modules of its synchronisation,
session and account code, TLC configurations that check them on small
instances, and TLAPS proofs of what matters most for instances of any size.

1. [The system](#the-system)
2. [Modules and code](#modules-and-code)
3. [Runs](#runs)
4. [Proofs](#proofs)
5. [Where code and documentation disagree](#where-code-and-documentation-disagree)
6. [What the exceptions of the properties stand for](#what-the-exceptions-of-the-properties-stand-for)
7. [What is not modelled](#what-is-not-modelled)
8. [What is left of the plan](#what-is-left-of-the-plan)

PG stands for `src/server/src/storage/postgres.rs`, `stores/` for
`src/apps/desktop/src/stores/`, PAGE for
`src/apps/desktop/src/pages/desktop/DesktopVaultPage.vue`.

## The system

| Component | State | Operations | Interacts with |
| --- | --- | --- | --- |
| Sync server, push (PG:1116) | `sync_objects`, `sync_events`, `sync_idempotency_keys` | `push_sync_objects` | clients over HTTP, other requests over PostgreSQL locks |
| Sync server, readers (PG:1035, 1398, 1437) | `device_sync_cursors` | `sync_snapshot`, `pull_sync_events`, `ack_sync_cursor` | clients; transactions of push that have not committed |
| Vault store and sync engine (`stores/vault.ts`, `stores/vault/sync*.ts`) | objects in memory, settings with the cursor | create, save, delete, `runSync`, `tryAutoSync` | record file, push and readers; two runs of itself |
| Record file (`src-tauri/src/lib.rs`) | SQLite records and settings | `upsert_encrypted_objects`, `save_vault_store` | the store |
| Vault session (`stores/vault.ts:1005-1213`) | unlocked user, loaded vaults, key session | unlock, lock, switch user, load lazily | runs and saves under way |
| Sync binding (`stores/vault.ts:362-614`) | account, sync space and device token | create a server-backed user, restore an account, exchange, disconnect | server accounts, readers, store |
| Master password (`stores/vault/masterPasswordChange.ts`, PG:892-1033) | wrapped vault key on device and server | change, list, replace | record file, server |
| Local users (`stores/vault.ts:206-243, 415-552`, `useUserSessionFlow.ts`, `lib.rs:914-2088`) | `app_meta.sqlite`, a directory per user, the key ring; the list and records in memory | restore, create, remove, switch users; export and restore a backup; `persist`, `hydrate` | record file, key ring, sync runs and settings that persist in the background |
| Desktop page and native side (PAGE, `app_window.rs`, `global_shortcuts.rs`) | auto-lock timer, clipboard timer, quick-search payload, queued keys | lock, unlock, copy, quick search | window system, session, clipboard |
| Email login (PG:159-522) | `email_challenges`, `account_setup_tokens`, `auth_sessions` | start, verify, log in, set up an account | mailer, accounts, devices |
| Administration (PG:1590-1760, 2212-2316) | `accounts`, `account_roles`, audit log | disable, enable, rename, grant, revoke | other administrators over locks; the connection pool |
| Devices (PG:718-813, 3387) | `devices` | bind, revoke, quota | accounts, tokens |
| Instance configuration (PG:1817-1919, 3039) | one JSON document | patch, template update and restore | every operation that reads a switch or a limit |
| Browser extension (`src/apps/browser_extension`) | session and local storage of the browser | sign in, unlock, save one item, lock, fill | push, snapshot |
| Web vault, admin web, landing, UI, core and crypto packages, mailer | no shared protocol state | presentation, pure functions, I/O | the components above |

How they interact. A client changes objects offline and saves each change to
its record file. A sync run pushes what is dirty, applies or refuses what the
server answers, pulls events from its cursor page by page, acknowledges and
saves the cursor. The server accepts an operation whose base revision is the
current one, in a transaction per object, and appends an event. Nothing else
connects the clients: a device learns of another one only from the log, and of
the key of an account only from the wrapped key on the server. A person gets
an account with a code sent by mail, an installation gets a device token with
that account's session, and the token opens the sync routes.

Which behaviours are hard:

- on the server, requests between `SELECT ... FOR UPDATE` and `COMMIT`, handlers
  without a transaction that read in one statement and write in another,
  repeated requests, aborts between two objects of a batch;
- on a client, a user who edits, locks or switches the user while a run, a load
  or an unlock is at an `await`, two runs at a time, a lost answer, a restart
  before the save, a request that arrives late;
- on one installation, users who are restored, created or removed while a
  persist with an older list of users is on its way to the native side, which
  deletes whoever is not on it, and commands that fail half-way;
- between clients, concurrent edits and deletions, events that take several
  pages, vaults deleted with items another device is editing, a master password
  changed on one of them;
- in the extension, a worker that is stopped at any step and records that are
  read, changed and written back by several requests at a time;
- on the desktop, events of the window system, the page's promises, commands on
  threads of the native side and global keys, in any order.

What makes each component correct:

- push: no accepted version is overwritten unseen, log, rows and idempotency
  table agree, every request ends;
- readers: a cursor never passes an event the device does not have, and a
  restore should get everything;
- store and engine: an edit is never lost, "saved" means the server has it, the
  cursor never passes an event that was not taken into account, what the server
  has reaches every device;
- session: records and cursor of one user stay together and with that user;
- local users: records stay with their user, and nothing of a user who has left
  stays behind;
- keys: whatever is repeated or lost, every object keeps a wrapped key, and the
  password the user was told is the one that opens the account;
- login: guesses are bounded, a code gives one session or account, a disabled
  account gets none;
- devices: an installation's token works, the quota holds;
- administration: somebody can always administer the server, no change is
  undone by another one's write;
- extension: what is shown and given belongs to the account that is unlocked;
- desktop: a vault that is left gets locked, a locked one is forgotten, and a
  copied secret leaves the clipboard.

Each hazard, with its line and the properties that watch it, is in
`PROJECT.json` under `hazards`.

## Modules and code

| Module | Models | Checked by | Proofs |
| --- | --- | --- | --- |
| `VersionedStore` | what the server promises: one version per object, each write makes the next revision | as `RegistersSpec`; part of `VaultSync` | refinement, in `SyncServerProofs` |
| `SyncServer` | `push_sync_objects`, statement by statement | `MCSyncServer` | `SyncServerProofs` |
| `SyncReaders` | snapshot, pull and restore, composed with `SyncServer` | `MCSyncServer` | `SyncServerProofs` |
| `VaultSync` | the vault store, the record file, binding and the sync run of every device, with `VersionedStore` and its log as the server | `MCVaultSync` | `VaultSyncProofs` |
| `VaultSession` | several users on one desktop: unlock, lock, switch, lazy load, with a run under way | `MCVaultSession` | `ClientProofs` |
| `LocalUsers` | the users of one installation: their list, directories, secrets and records, with persists in the background | `MCLocalUsers` | `LocalUsersProofs` |
| `VaultKeys` | the vault key from setting up the account to a change of the master password, on devices and server | `MCVaultKeys` | `VaultKeysProofs` |
| `EmailAuth` | codes, setup tokens, sessions, the administrator's password | `MCEmailAuth` | `EmailAuthProofs` |
| `Devices` | binding, tokens, quota and the configuration document | `MCDevices` | `DevicesProofs` |
| `AdminRoles` | disabling accounts, changing roles, the advisory lock and the pool | `MCAdminRoles` | `AdminRolesProofs` |
| `Extension` | the background worker of the browser extension and its records | `MCExtension` | `ClientProofs` |
| `DesktopLock` | what locks the desktop, the quick-search window and the clipboard | `MCDesktopLock` | `ClientProofs` |

`PROJECT.json` maps every definition to its lines. Operators named `Bug_...`
stand in front of a definition and say how it could plausibly be wrong; no
specification uses them, they show that the property next to them would notice.

Modules compose where components share state: `SyncReaders` extends
`SyncServer`, so readers run between the statements of its transactions;
`VaultSync` has the server as an instance of `VersionedStore`, which
`SyncServer` is proved to implement. `VaultSession` and `VaultKeys` look at the
same client as `VaultSync` from another side, with coarser sync steps: one
module with users, keys and every step of a run has too many states.

### SyncServer

The variables are the three tables as committed (`rows`, `events`, `outcomes`),
the sequence behind `sync_events.id` and, per handler, the place it has reached,
the batch, the row it read and the replies so far. An action is a statement that
another transaction can observe or wait for: `Claim` inserts the idempotency
placeholder, `Read` is the `SELECT ... FOR UPDATE`, `Write` the upsert, `Log` the
insert that draws an event id, `Commit` makes all of it visible. `Reject`,
`Conflict` and `Replay` are the early ends of one object, and each of them saves
its outcome and commits too. `Abort` rolls back at any statement.

Locks are not variables: a handler holds a row, or a key, exactly in the places
where its transaction does, so `RowFree` and `KeyFree` look at the other
handlers. An object without a row locks nothing.

The size limits of a batch are checked before the first statement and change no
state; the checks of payload, type and sync space are one flag, `wellFormed`.
There is one account with one sync space, because every statement carries the
account id and no statement reads another one's rows.

### SyncReaders

A device that only reads, beside the handlers of `SyncServer`. `Open` is the
first statement of `sync_snapshot`, which fixes the cursor; `Restore` is the only
page a new device asks for, `Resync` one page of `restoreFromSyncSnapshot`, `Pull`
one page of events. A page is the set of events whose `Rank`, their place in the order
of ids, lies between offset and limit. `received` keeps the newest revision of every
object, which is all that matters here of applying a version.

Two variables are auxiliary. `Pending` are event ids drawn by transactions that have
not committed, and `exposed` notes that a device has read past one. `unread` are
the objects on pages of a snapshot the device has not asked for, until a pull brings an
event of them: those beyond the one page of a restore, and those behind the cut
of a resync.

### VaultSync

JavaScript runs to completion between two awaits, so an action is the code
between two awaits where something else can happen. The phases of a run are the
values of `pc`:

    idle -Start-> repairing -Repaired-> building -Push-> pushing -Receive->
    reconciling -Reconciled-> asking -Pull-> pulling -Applied-> asking | acking
    acking -Finish-> idle          building -Restore-> restoring -Applied-> acking
    idle -Bind-> binding -Compared-> wrapping -Bound-> idle

In `repairing`, `restoring`, `reconciling`, `pulling` and `binding` the run goes
through versions of the server one at a time. For each one, `Examine` decides from
the record as it is, the payload is decrypted (an await), and `Act` carries the
decision out on the record as it is by then.

A change is known by its number, and `edits` remembers which changes each one
was made on top of. That history decides the properties about lost edits; the
code has no such variable. `content` stands for the decrypted fields and the
deletion mark; the properties tell no more apart.

`persist()` awaits twice: it writes the records, then the settings with the
cursor. `Persist` is the first half, in the step that causes it, and `SaveStore` the
second; anything may come between them, and a restart after the first finds new
records with an old cursor. `Persisted` upserts what is in memory and never removes a
record, as `upsert_encrypted_objects` does; `Loaded` leaves out the items of deleted
vaults. The records are encrypted from the memory of one moment, and the persists
of a device are taken to follow one another: in which order two that overlap would
write their halves is not looked at. `Serve` handles one operation of a push in one step, which
`SyncServer` refines for objects that have a row; new objects have random ids,
so two devices never create the same one in `VaultSync`. `GiveUp` keeps the
operations of a request that was cut as `strays`, which the server may still
carry out.

`Disconnect` and `Refused` (the server no longer knows the device) end a binding and
reset the cursor; `Bind` compares what the device has with a snapshot, object by object,
and `Bound` adopts the cursor. `Bind` waits until no run is under way and nothing is
being saved. The page does not ask for that: nothing keeps a user from disconnecting and
binding again within a run, and then `CursorMeansSeen` fails like every property about
two runs at a time.

Of several device clocks nothing is left: revisions order the versions, and
deletion times are only compared for equality.

### VaultSession

The installation has several users. `mem` and `loaded` are the store's, `disk` the
records, `load` a vault on its way from the record file, `run` a sync run that
keeps the user and session it began with where the code keeps them in a variable,
and reads the current ones where the code reads `this`. A push with its answer is
one step, an event is applied in the two steps its decryption makes of it.

Assumptions: an unlock's decryption ends before the next unlock has derived its
key; no run starts while the names of the vaults are read on unlocking (the
automatic one starts 900 ms later, PAGE:1020); persisting is atomic and does not
fail; several missing vaults are loaded as one and loads are serialised; an item
is edited once until it is pushed (`VaultSync` shows what a second edit does). Another
device saves items of the server or makes new ones, whose ids no record here has.

### LocalUsers

`meta`, `files` and `secrets` are what the native side has stored; `users`, `active`,
`session` and `mem` are the store's; `op` is the one thing the page is doing (restoring,
creating, removing or switching a user, unlocking, restoring a backup, hydrating) and
`save` has one entry for each `persist()` under way, the page's own and those in the
background. A persist goes through the awaits the code has:

    idle -BeginSave-> encrypt -Encrypt-> [upsert -Upsert->] store -Store-> idle | done

`Begun` is what it notes before the first of them: the list of users, and the records
if a session is open. `Store` is `save_vault_store`: it writes a profile for everybody
on that list, then the list itself, then deletes the directories and secrets of
everybody else. `PartOfSaveVaultStore` is what it leaves when it fails or the
application is killed in it. The operations of the page are chains of actions through
`pc`, and `Lock`, background persists, sync runs, failures and `Restart` come between
any two of them.

Three auxiliary variables name what the code cannot keep, and the properties except
exactly that: `overtaken` are users who came or went while a persist with another list
was under way in the background; `orphaned` are users whose secrets were saved when
there was no directory to find them by, and the operation was cut off; `failed` says
that the last store was not carried out, so list and memory may differ.

Assumptions: the page carries out one operation at a time, as its dialogs enforce; a
command of the native side runs to its end before the next; a package is restored on
the installation that made it. Disconnecting and binding within a user (`VaultSync`,
`VaultKeys`) are left out here, as are usernames and the profile's data. Two things the
model shows and no property is about: after a restore that failed `unlocked` stays true
over an empty memory (`stores/vault.ts:546`), and the color theme is never written by
`save_app_settings`.

### VaultKeys

A key and a password are numbers, a wrapped key opens with its password. `keys` is
the table `wrapped_vault_keys` with its unique index on rows in force, `sealed` the
keys that encrypt objects on the server, `user` and `disk` what a device has in
memory and saved. `op` and `pc` say where a device is in setting the account up,
restoring, binding or changing the password. An upload is `ServeKey`, `RefuseKey`
(an error), `Lose` (the answer or the request is lost) and perhaps `ServeStray`
later. The Secret Key is taken to be there, or nothing happens; objects are never
taken out of `sealed`.

### EmailAuth

The tables `email_challenges`, `account_setup_tokens`, `auth_sessions`,
`accounts` and the switch for registration, and handlers that take the steps of
api/auth.rs one statement at a time. `ChallengeFree`, `TokenFree`, `AccountFree`
are the row locks. A guess is right or wrong, a token is known to whoever verified
the code; a session remembers the password it was given for. `now` is the
server's clock; each handler reads it once, as the code does. `answers`, `grants`
and the fields `seen` and `late` are auxiliary.

### Devices

`create_or_update_device` is not a transaction: an installation that is bound
again gets a new token in one statement, and a new one goes through `ReadQuota`,
`Count` and `Insert`. `held` is the token in the installation's store, `waiting`
the request it waits for; `GiveUp` loses the answer, `Fail` the handler. `Load` and
`Save` are the configuration's read-change-write, which three handlers share.

### AdminRoles

`accounts` is the committed row with its roles. A handler authenticates,
takes a connection, locks the target's row, looks the role up on a second
connection if it grants one, checks that the actor is not demoting himself,
takes the advisory lock if the target is an enabled administrator, counts,
writes, commits and appends the audit entry on a connection of its own (the
transaction's is back in the pool by then). `Blockers` names the handlers a
statement waits for: the holder of the row, of the advisory lock, or of the row
of the actor that a foreign key refers to.

### Extension

`account` is the record in `chrome.storage.local`, `record` the one in
`chrome.storage.session`; `active` and `open` are in the worker's memory and go
when the browser stops it. A task is a request of a panel or a page, and an action
is the code between two awaits. `overtaken` and `late` note that another request
changed a record while this one was under way.

### DesktopLock

The page is one thread whose handlers give way at awaits: `lockApp` is
`StartLock` ... `EndLock`, an unlock is `UnlockApp`, `Opened` and `Loaded`, `copyValue`
is `Write` ... `ScheduleCleanup`, clearing the clipboard is `ReadClipboard`, `Empty`. The native
side executes plain commands in the order the page sends them (`calls`, `Deliver`);
`show_quick_search_window` is asynchronous (`OpenQuickSearch`, `RunShow`), and the
global key starts a thread (`PressQuickSearch`, `ShowWindow`). `window` is "behind"
when it is visible without the focus, which is when `blur` and `visibilitychange`
disagree.

Assumptions: the setting to lock automatically is on, with a delay; `Refused` may
keep the clipboard from a page that is not focused; one copy at a time is between
writing and scheduling; a copy message arrives; the lock on switching the user is
in `VaultSession` only.

## Runs

| Run | Question | Bounds |
| --- | --- | --- |
| `sync_server` | is nothing overwritten, do rows, log and idempotency table agree, do stored objects behave as registers, does every request end? In a second scene: can a cursor pass a version the device does not have? | 2 handlers, 3 stored objects, 3 requests; 6 batches (opposite orders, duplicates, refusals, a revision ahead, one behind) with aborts anywhere, or 3 pushes and a reader with pages of two objects and of one event, cuts anywhere and a lost record file |
| `restore_one_page` | does a new device get the complete state? No: it gets the first page and the cursor of all (expected violation) | the same |
| `email_auth` | are guesses bounded, is a code used once, what do races of codes, passwords and disabling allow? | 2 handlers, 1 new and 1 registered address and the administrator, 6 requests, 2 challenges, 2 guesses, a clock of two values |
| `devices` | does an installation's token work, how does a device come into use over the quota? | 2 handlers, 2 installations, a quota of 1 or 2, 5 requests, 4 tokens |
| `vault_edits` | does "clean" mean saved, is every replaced version seen, is the saved cursor safe wherever saving stops, can a device get into conflict with itself by retrying, do devices converge after a failure and a restart? | 2 devices, a vault with 1 item, 2 changes, also during a run, 1 failure, 1 restart, pages of one event; the account filled or empty at the start |
| `vault_deletes` | is no change lost and do devices converge when vaults are deleted, items edited and a device is disconnected and bound again? | 2 devices, 2 vaults, 1 item, 2 changes, 1 disconnection |
| `vault_session` | do records, cursor and edits stay together across locks, switches, loads and a restart? | 2 users, 3 vaults, 3 items, 2 unlocks, 2 edits, 2 runs, pages of one, 1 restart |
| `vault_keys` | does every object keep a key, does the confirmed password open the account? | 3 devices (the page, a local user, a new one), 2 set-ups, 1 change, 2 troubles |
| `local_users` | do records stay with their user, does anything of a removed user stay? | 2 users, 1 background persist, 3 operations, 1 change, 1 failure, 1 restart |
| `extension` | does a panel or page ever see an older version or another account's item? | 2 requests at a time, 2 accounts, 2 items, 2 saves, 1 of each other request, 1 stop |
| `desktop_lock` | is a vault that is left watched, a locked one forgotten, a copy taken away? | 1 copied value, 2 commands and 2 locks under way, 1 show thread |
| `admin_roles` | does an enabled administrator remain, is no change undone, who can deadlock? | 3 handlers, 2 accounts, 2 connections, 3 requests |

Why the bounds are enough. The server's conflicts are between two transactions: a third
one waits for a lock the same way the second does, and a batch of two objects already
has a place between two commits. Two changes are two devices' on one version, or one
device's in a row, and pages of one event make every event a page boundary; with three
changes (1.4 million states, two minutes) the invariants of `vault_edits` hold as well.
One failure and one restart hit every place of a run, and a late push can meet the next
one. Two vaults are the least with which one may be deleted. A reader needs two open
transactions to see ids out of order and a third object for a second page, with which a
restore of two misses one; resyncs in three pages (`SnapshotLimit = 1`) were checked as
well. A reader that has read past an open id is not followed further: `exposed` stays,
and the property leaves such a device out. In `email_auth` two challenges can be for one
address or for two, and six requests are enough to send a code, miss, send another,
verify both and spend both tokens. A quota of one is exceeded by two installations. In
`local_users` the second user is the one who is restored, created or removed while the
persist of the first is under way; three operations are one to get somebody, one to lose
somebody and one to see what is left (2.5 million states with 2 failures and 2 restarts
were checked as well). Two set-ups are a retry, and two troubles are a request that is
lost and the restart that follows it; two devices with two changes each (1.2 million
states) were checked as well. One value is enough for every order of copying and
clearing it from two windows; with two values (5.5 million states, three minutes; the
constants of the run with `Secret = {s1, s2}`, `MaxLockings = 1` and `SYMMETRY Secrets`)
the properties hold too, and the proofs cover any number. Two administrators can remove
each other or themselves, and promote again whom they removed; the proofs cover any
number. Three handlers on two connections exhaust the pool, which two could not.
Handlers, tasks and values are declared symmetric where the run checks no liveness.

The passing runs of `VaultSync` keep to the region where the code keeps its promises,
and the constants say which: `EditStates = {"clean"}` lets users change only what has
been uploaded, `EditsDuringRun = FALSE` only between runs, `Run = {"auto", ...}` leaves
out the button. [Below](#where-code-and-documentation-disagree) one of these is lifted
at a time, so each case names its cause. `vault_edits` allows changes of clean objects
during a run: what breaks is changing an object twice, or while an event for it is being
applied. `EventuallyUpToDate` is in both runs: in `vault_edits` with a failure, a
restart and changes during a run, in `vault_deletes` with deletions and disconnections.
Restarts and deletions are in different runs because the combination loses deletions;
with both (`MCVaultSync_deletes.cfg`, `Run = {"auto"}`, `MaxUnbinds = 0`, `MaxRestarts =
1`) the property is violated. `CursorMeansSeen` is about memory and
`SavedCursorMeansSeen` about disk; the second one is in the run with restarts, where it
matters. `FirstSync` is the set of beginnings a run looks at: with `TRUE` the account is
empty and one device has vaults, with `FALSE` everybody has everything.

`CHECK_DEADLOCK FALSE` is in every configuration whose bounds make the model stop;
`VaultKeys` and `DesktopLock` always have a step to take, and there deadlock is
checked.

Fairness. `SyncServer` has strong fairness per handler: PostgreSQL serves its lock
queues in order, so a statement that can run again and again does run. `VaultSync` has
weak fairness on the steps of a run (a request is answered or fails), on the second half
of saving and on the start of the automatic run: the page calls it after saving,
unlocking, on focus and when the network returns (PAGE:471-472 and 1020-1041). Nothing
is fair about users, failures, restarts, late pushes or the button. The other modules
state no liveness: a vault that is left may wait for a timer the window system keeps
cancelling, and a person may never answer a mail.

## Proofs

All proofs are for any values of the constants that satisfy the assumptions named
in the modules.

`SyncServerProofs`, for any number of handlers, objects, keys and requests:

- `TypeCorrect`: `Spec => []TypeOK`. The invariant is `TypeOK` with two facts: a
  handler in a transaction has an object to work on, and an object that was read
  has passed the checks (`AtObject`, `Validated`).
- `StoredObjectsAreRegisters`: `Spec => RegistersSpec`. A commit is a `Put` of the
  abstract store because the row is the one that was read. `LockInv` says so: a
  handler between `Read` and `Commit` that holds an existing row has its current
  version in `seen`, and nobody else holds it. Every other step stutters.
- `RowsMatchTheLog`, `LogIsHistory`: the row of an object is its latest event and the
  events of a stored object are its revisions in order. `EventInv` relates the sequence to the
  log: ids are below `nextId`, two handlers hold different ids, and an id drawn by
  a handler that holds the row is above those of all events of that object. This
  needs the row lock to be held while the id is drawn, which is why the order of
  ids is the order of revisions per object, though not across objects.
- `RepliesDurable`, `OperationsHaveOneEvent`: a handler between claiming a key and
  committing is the only one with it, so the outcome it replies is the one that is
  saved (`KeyInv`), and an operation has an event only if its key has the outcome
  "accepted" (`OperationInv`).
- `ReadersMissNothing`: what a device has covers the log up to its cursor, but for what
  is `unread`, and on the way up to the end of the pages it has read (`ReadersInv`), given
  that committed ids never change and that ids drawn later are greater, except those
  pending (`LogInv`). It has no hypothesis on page sizes or cuts. That a restore is
  complete is no theorem: the run `restore_one_page` refutes it.

`AdminRolesProofs`, for any finite set of accounts, any finite set of handlers
and any pool:

- `AdminRemains`: `Spec => []SomeEnabledAdmin`. Inductive invariant: a row belongs
  to one transaction and what it read is still true (`RowInv`), the advisory lock
  belongs to one transaction (`GuardInv`), and whoever may demote an enabled
  administrator leaves another one (`CountInv`). `CountInv` survives the other
  handlers because only a commit that holds the advisory lock takes an
  administrator away (lemma `Demotion`).
- `CirclesNeedGrants`: whoever waits for a lock holds only what comes before it in one
  order (row, advisory lock, connection for the audit), so a circle of handlers that wait
  for each other (`NoCircle`) has one that grants a role. `WayInv` says what a handler
  holds at each place.
- `TypeCorrect` and `DisabledUntilEnabled`, the latter from `RowInv`: what a patch
  writes back is what the row holds.

`EmailAuthProofs`, for any number of handlers, addresses, attempts and requests, all
from one inductive invariant, a conjunction with a part for each argument:

- `Bounded`: a guess holds the challenge's row until it is answered, so what it has
  read stays true and every answer is counted (`CodeInv`).
- `OneGrant`: tokens and challenges are marked in the transaction that makes the
  session or account, and a handler that has found a token unspent is the only one
  until it ends (`TokenInv`).
- `OneSetup`: two codes for one address may both be verified; the unique index on
  identities lets one transaction at a time insert the account (`SetupInv`).
- `NoneWhenDisabled`: what a login has seen of an account stays true until its
  session is inserted (`AccountInv`).
- `ResendOverlap` and `OldPasswordOverlap` say exactly what races are left:
  `ResendInv` follows a start from its look at recent challenges to its insert.
- `Typing`: type correctness. No run repeats it, nor the type invariants of
  `Devices`, `VaultKeys`, `DesktopLock`, `SyncServer` and `AdminRoles`, which are
  proved as well.

`DevicesProofs`, for any installations, handlers and settings:

- `HeldWorks`: an installation that has heard of its last binding holds the token of
  its row (`HeldInv`), tokens being unique (`UniqueInv`).
- `OverQuota`: a device comes into use in two actions. `Rebind` finds its row, which is
  the first way over the quota. `Insert` is the second: if nothing changed since its
  handler read the configuration, that still holds, and fewer devices than the
  quota are active (`QuotaInv`, with cardinalities of finite sets).
- `Typing`.

`VaultKeysProofs`, for any devices, finitely many local users, and any number of
set-ups, changes and troubles:

- `KeysKept`: no key has two records in force, and every key that is going to need
  one has one: those of objects, of bound devices, of devices on their way to
  either, and those that late uploads replace (`KeyInv`).
- `PasswordsKept`: device and server open with the same password unless the answer of an
  upload was lost (`AgreeInv` follows the password through the upload).
- `KeyShared`: the devices that found objects in the account when they joined it open
  them with one and the same key. Inductive is that the keys of these, and of devices
  about to join having found some, are one, and objects are encrypted with it
  (`ShareInv`). It says nothing of the page that set the account up, perhaps twice and
  with two keys, nor of devices that joined an empty account.
- `Typing`.

`ClientProofs` is about `VaultSession`, `DesktopLock` and `Extension`, one after the
other: the three have no variable in common, and share the module only. No theorem
has a hypothesis beyond the assumptions on the constants.

Of `VaultSession`, for any users, vaults, items, pages, sessions, runs and restarts:

- `SavedCursorsAreCovered`: from `SessionInv`. `WhereInv` says where a load and a run
  can be while the vault is locked, unlocking or open; its core is that a run which began
  pushing in the session that is still open has every vault of its user loaded. `OwnRun`:
  the run of a user who is not in `torn` is of the session that is open, and works in
  the user's own sync space. `CoverInv` follows what is covered from the disk to memory
  (loaded vaults), to a load on its way and to what is about to be pushed, each up to the
  saved cursor, and says of a walk through events that what it has been through is
  caught up with in memory: the cursor is saved when a page is done, not event by event.
- `EditsAreKept`: `LoadedInv` compares memory and a load with the disk (what a load has
  read is still on the disk, and what it has not is not in memory either; of a loaded
  vault all records are in memory, but for `missed`), `PushedIsKept` says that what waits
  for its push is on the disk as it is sent, and `EditsInv` that an edit on the disk is
  in memory, is in conflict there, or is on the server. What a persist can then put over
  an edit is one of the three (lemma `EditLeaves`).
- `SessionInvariant` and `EditsInvariant` are these invariants themselves; the first
  includes the types.

Of `DesktopLock`, for any number of values, commands, locks and threads:

- `LeftWatched`: inductive with the types.
- `Forgotten`: while the vault is locked, the last command under way is the one that
  clears the payload (`EndsWithClear`), because commands are carried out in order.
- `CopyWatched`: a copy that is not scheduled yet is watched without the timer, which
  it is about to replace (`CopyInHand`).
- `Typing`.

Of `Extension`, for any number of requests at a time, accounts, items and stops:

- `WorkerInvariant`: `CurrentInv` says at each place of a request that what it has read is
  what is there, or the request is overtaken: the account, the items of a save, the record
  of a write-back; and that a snapshot on its way into the record is of the account, and not
  behind the record but for items of another account. This needs three facts about the
  server. A revision in a record or in a request's hands is one some account has reached
  (`KnownInv`). An item has one owner (`OneOwner`). And an item that is being created is
  nobody's and in one request's hands (`CreateInv`), which is why two creations cannot
  give it two owners. `RecordInv` says whose an unlocked record is.
- `GivenOnlyUnlocked` follows from `CurrentInv` at `Give` and `RecordInv`.
- `ShownGrows`: of the four ways to write the record (lemmas `RecordChange`,
  `WhatIsWritten`), one locks it, one puts back what is there, a save adds one revision to
  what is there, and an unlock writes a snapshot that `CurrentInv` puts ahead of it.

`VaultSyncProofs`, for any devices, objects, vaults, pages, failures, restarts and
disconnections. The hypotheses are those of the runs, because outside of them the code
does not keep the promise ([next section](#where-code-and-documentation-disagree)):
`Manual = {}` is one run at a time on a device; `Untouched` says that if objects that
wait for their upload may be changed again, then not during a run.

- `CleanRecordsAreStored` (`Manual = {}` and `Untouched`): inductive are the shape of
  what is under way (`Shape`), that the log has every revision of an object once and in
  order (`LogInv`), that a device has one run (`AloneInv`), that records are
  absent, or versions of the log, or one revision above their base (`RecordsInv`), and that
  what was sent is still in memory as it was sent when the answer comes (`PushInv`).
  `PushInv` is what a change during a push would break.
- `ReplacedVersionsWereSeen` (`Manual = {}`, `EditStates = {"clean"}` or less): a change
  waiting in memory, on disk, in a request or in a request nobody waits for was made on
  top of the version its base names (`SeenInv`), and what was seen under a version was
  seen under the next (`Chain`).
- `SavedCursorsMeanSeen` (as the first, and `EditStates` without "conflicted",
  `Deletable = {}`, `NoneLeavesDuringRun`): a restart finds no cursor that is past an
  event the records do not take account of, so nothing is passed over, whatever was
  refused, cut off, disconnected or bound again, and wherever saving stopped between
  records and settings. While a run is at work nothing is left to be saved
  (`AtWorkSaved`), which is why a restart finds records that are up to its cursor. On
  top of `CleanInv`, `KeptInv` says it of the disk and of what a save at this moment
  would put there, and `RunInv` of a run on its way: what is not seen up to its own
  cursor is still on its list (`WalkOK`), what is on the list is not older than what the
  saved cursor is past (`Newest`, `NewestAnswers`), and a decision to leave a record
  alone, made before an await, is still right after it (`DecidedOK`). Records that
  replace others keep what they have seen (`Upheld`). `LiveInv` says that without
  deletions there is no tombstone anywhere. With two runs at a time, changes of
  conflicts or deletions TLC finds the property violated (`MCVaultSync_edits.cfg` with
  the button, or with `EditStates = {"clean", "conflicted"}` and `MaxEdits = 4`;
  `MCVaultSync_deletes.cfg`): a changed conflict counts as seen up to its own revision,
  and a record another device deleted stays on the disk. `Untouched` is there for
  `PushInv`, `NoneLeavesDuringRun` (no disconnection while changes during a run are
  allowed) for `AtWorkSaved`; no counterexample is known without them.

`CursorMeansSeen`, `NoEditVanishes` and `ConflictNeedsAnother` are not theorems: what is
interesting about them are deleted vaults, changes during a run and first uploads, and
with more of these than the runs have the code does not keep them (the table
below). A theorem that excludes them would say less than the runs.

`LocalUsersProofs`, for any users, background persists, operations, failures and
restarts, with no hypothesis but that the names differ:

- `RecordsKept` and `NothingLeft`, from one inductive invariant. Its core is `ListInv`: the
  list a persist carries may be old, but it differs from the store's, and from that of
  any other persist, only in users who were overtaken (lemma `OnTheList`). So a user with
  records is on every list that may still be stored (`KeptInv`), which is why no
  `Store`, whole or cut off, deletes them; and at rest the last list stored was the one
  the store has (`RestInv`). `SecretInv` says by what the secrets of a user would be
  found again: a directory, the list, or the operation in hand.
- A state the runs do not reach made the invariant stronger: after a hydration that
  failed, the lists under way agree with the file and not with the store (`Current`).
- `Typing`.

Only model-checked:

- liveness under fairness (`EveryRequestEnds`, `EventuallyUpToDate`), which is beyond the
  proof system;
- `CursorMeansSeen`, `NoEditVanishes` and `ConflictNeedsAnother`, as said above.

Every other property of a passing run is the statement of a theorem.

## Where code and documentation disagree

Each of these is a few seconds of TLC away: take the named configuration, change
the constants as said and leave only the property. The first is a run of its own; the
properties at the end of `MCVaultSync`, `MCSyncServer` and `MCDevices` are checked by no
run, because they do not hold.

| What happens | What says otherwise | Configuration and property |
| --- | --- | --- |
| A new device restores the first page of the snapshot only (500 objects), and saves the cursor of the whole: the rest is neither restored nor pulled until it changes (`stores/vault.ts:464`) | server-sync-design.md:173, a snapshot fetches the complete state at the first login | the run `restore_one_page`: `RestoreIsComplete` |
| Two requests with base 0 create the same object; both are accepted and the second replaces the first (PG:1327) | server-sync-design.md:57, no side is overwritten | `MCSyncServer.cfg`, `Object = {o1}`, `Key = {"a1", "b1"}`, `Batch <- CreateBatches`, `Seed <- NoSeed`, `FirstId = 1`: `OneVersionPerRevision` |
| An item is changed twice between two runs; its base is then a revision that may be another device's, and the push overwrites it unseen (`stores/vault.ts:1315`) | server-sync-design.md:57 | `MCVaultSync_edits.cfg`, `EditStates = {"clean", "dirty"}`, `MaxEdits = 3`: `ReplacedVersionWasSeen` |
| The same on one device alone: the second change is refused for ever, and the conflict stops automatic runs (`stores/vault.ts:632`) | server-sync-design.md:10, changes made offline are uploaded when the network is back | the same with `Device = {d1}`, no failures and restarts: `ConflictNeedsAnother` |
| A device that was revoked is bound again without a look at the quota (PG:3400), and two that are bound at a time pass it together (PG:3428): more devices are in use than the setting allows | `src/apps/admin_web/src/i18n/zh-CN.ts:225`, the setting limits the devices bound to an account | `MCDevices.cfg`: `QuotaLimits` |
| An item is changed while its push is under way; the acceptance marks the new change as saved and it is never uploaded (`syncObjects.ts:223`) | server-sync-design.md:35 | `MCVaultSync_edits.cfg`, `EditStates = {"clean", "dirty"}`: `CleanIsServerVersion` |
| An item is changed between the check of an event and its application; the change is replaced (`syncReconciliation.ts:59`) | server-sync-design.md:300, no data is lost in a conflict | `MCVaultSync_edits.cfg`: `NoEditVanishes` |
| The button starts a run beside the automatic one; the slower one puts an older version back behind the cursor (`stores/vault.ts:615`) | security-model.md:197, a revision never goes below the greatest one seen | `MCVaultSync_edits.cfg`, `Run = {"auto", "manual"}`, `Manual = {d2}`, `EditsDuringRun = FALSE`, no failures and restarts: `RevisionNeverGoesBack` |
| An object another device deleted leaves memory but not SQLite, and is back after a restart (`stores/vault.ts:219`) | architecture.md:165, a deletion is accepted | `MCVaultSync_deletes.cfg`, `Run = {"auto"}`, `MaxUnbinds = 0`, `MaxRestarts = 1`: `DeletedStaysDeleted` |
| Two devices delete the same vault: the times differ, so the second deletion ends in conflict (`syncReconciliation.ts:256`) | architecture.md:168, deletions merge | the same without restarts: `DeletionsMerge` |
| A vault is deleted and the application restarts before the push: the tombstones of its items are never loaded, hence never pushed (`stores/vault.ts:1205`) | server-sync-design.md:45-47 | the same with `MaxRestarts = 1`: `PendingIsLoaded` |
| Two devices each delete a different one of the two vaults: none is left | `stores/vault.ts:1245` refuses to delete the last vault | the same without restarts: `SomeVaultIsLeft` |
| A device deletes a vault and is disconnected; meanwhile another puts an item into that vault. Bound again, the first restores the item, and its next run pushes the deletion of the vault: when it is accepted the vault's items leave memory (`syncObjects.ts:257`), this one too, although it was never deleted and no event brings it back | server-sync-design.md:173; the item stays on the server and on the other device | `MCVaultSync_deletes.cfg`, `Stored = {v1, v2}`: `CursorMeansSeen` |
| The same with the item changed on both devices after that: its change, in conflict and nowhere else, goes with it | server-sync-design.md:300 | the same with `MaxEdits = 4` (five minutes): `NoEditVanishes` |

Other disagreements are exceptions of the properties, in the next section.

## What the exceptions of the properties stand for

Where the code leaves a gap, the property names it, so that what is beside it is
still checked. Without the exception each is violated.

- `NothingMissed` and `exposed`: event ids are drawn before a transaction commits.
  A pull that answers with a later id while an earlier one is pending moves the
  cursor past it for good (PG:1350).
- `NothingMissed` and `unread`: a restore reads one page of the snapshot and keeps the
  cursor of all of it (`stores/vault.ts:464`), and a resync cut between two pages is not
  repeated, since the store is no longer empty (`syncObjects.ts:368`). What was on
  the other pages is missing until somebody changes it.
- `ConflictNeedsAnother` and `ChangedSinceUpload`: the first run is cut between push and
  pull and the user changes an item; cursor 0 makes the device start again from base 0,
  and it is in conflict with its own upload (`syncObjects.ts:373`).
- `RecordsAreKept`, `NothingIsLeftBehind` and `overtaken`: `persist()` gives
  `save_vault_store` the list it noted two awaits before. A user who has joined since
  loses directory, records and secrets when it arrives (`lib.rs:977`), and one who was
  removed comes back with a profile (`stores/vault.ts:210`). `orphaned`: a restore that
  is cut off after the key ring was written leaves secrets that no cleanup finds, since
  it looks for directories (`lib.rs:2022`). `failed`: nobody looks at the end of a
  persist in the background, so the list on disk may stay behind the one shown.
- `SavedCursorIsCovered` and `torn`: a run goes on while its user locks or switches.
  Events are applied to an emptied memory, and the cursor is saved all the same
  (security-model.md:210); after a switch it is saved in the settings of another user
  (`stores/vault.ts:1060`).
- `EditIsKept` and `missed`: saving an item marks its vault as loaded although its
  other items are not in memory (`stores/vault.ts:1349`), and a lazy load puts what
  it read from disk over what has changed in memory since (`stores/vault.ts:1209`).
- `PasswordsAgree` and `cut`: the new wrapped key is saved on the device before the
  server has it (`masterPasswordChange.ts:57`). If the answer is lost, device and
  server differ. A save in between writes the old key over the new one, and `lock()`
  does not save: after a restart the old password opens the vault although the
  change was reported as done. A late upload can put an older password back, because
  the server does not ask whether the key that is replaced is the current one. A
  device that missed a change and is bound again uploads its old wrapping and
  revokes the newer one (`stores/vault.ts:571`).
- `EverythingHasItsKey` says that no key is lost, not that the right one is found:
  repeating the last step of setting an account up makes a second vault with a second
  key, a restore takes the first of a list ordered by random ids
  (`stores/vault.ts:465`), and if it is the abandoned one the Secret Key is "wrong" for
  ever. A page that is closed before the key is uploaded leaves an account without
  key.
- `OverQuotaTwoWays`: the quota is read, compared and used in three statements
  (PG:3428), and a device that was revoked is bound again whatever the quota (PG:3400).
  With either way alone the property is violated.
- `HeldTokenWorks` and `unheard`: binding again replaces the token; if the answer is
  lost the installation's token no longer works until it is bound once more.
- `ResendNeedsOverlap`, `OldPasswordNeedsOverlap`: two codes or a session of the old
  password, if two requests overlap (PG:198, 591).
- `OnlyGrantsDeadlock`: grants take a second connection while they hold one (PG:2230).
- `GivenToTheUnlocked` and `NothingGoesBack` with `overtaken` and `late`: a save of one
  account that ends after another has signed in writes its record
  (`itemMutations.ts:85`); an unlock or a save that ends after a lock undoes it
  (`repository.ts:52`); a worker stopped between writing the account and the record
  leaves one account with the other's items; writing the language or the server
  setting can put an old account back.
- `LeftIsWatched` and `unwatched`: unlocking ends after the window was left, and no timer
  is set; being visible without the focus cancels it (PAGE:1399); the system's lock
  cancels it before the setting is looked at (PAGE:1407). The label of the setting
  (en-US.ts:585) says the vault locks after the delay when the window loses focus or is
  hidden.
- `LockedForgets` and `overtaken`: the asynchronous command that shows the quick search
  can be carried out after the command that clears it, and the window then shows the
  items of a locked vault. With an empty payload the same happens on purpose or not
  when the quick search is opened while locked: from then on the key opens an empty
  window, although `app_window.rs:140` calls it unavailable.
- `CopyIsWatched` and `kept`: the main page learns of a copy when it is locked, or is
  refused the clipboard without the focus, and nothing clears it (PAGE:816, 1338;
  en-US.ts:736 says it is cleared later).

## What is not modelled

The map covers about a tenth of the code. Most of the rest is presentation:
pages, forms, dialogs, locales (1500 lines), administration lists, the landing site
and style.

Parts of modelled components:

- lists, profiles, remarks and other data no property tells apart; a legacy login
  (`register_email`, `login_email`) no client calls any more; the roles of the first
  account (PG:3193-3260), and removing a login identity (PG:1510-1535): no handler
  gives an account a second one;
- a device revoked between the check of its token and its handler (PG:676), which
  finishes the request it was let into;
- two patches of the configuration at a time lose one (PG:1826): `Devices` has the
  steps, but no document promises more;
- creating and removing users beside `changeMasterPassword`, which puts its list of
  users back as it was when it began; failures of the record file while a run is under
  way (`LocalUsers` has those of a persist); attachments, which are synchronised like
  items;
- `replace_global_shortcuts` drops a lock key that was pressed (it is a step of
  `DesktopLock`; only a liveness property would see it), `revealedSecretKey` set by a
  dialog after a lock, and a copy message that is lost;
- which fields of an item the extension shows or fills, and registering its scripts.

Components: cryptography (a version's content is one value), passwords and URLs
(pure functions), mail delivery, routing, logs, the tray and file dialogs (calls of
other systems). Of backups, exporting and restoring the package of a user is in
`LocalUsers`; imports turn a file into new objects, one after the other, and what
matters of them here is `Create`. The web vault is the
desktop store behind stubs. The hand-over of the binding code from browser to
desktop is left out, as is the administration web's session.

## What is left of the plan

Everything the first plan named is modelled, except for the composition of
`EmailAuth` with `Devices`, which share no state but the session that binds. Left is the
liveness of a lock that was asked for, and the two questions in `PROJECT.json` under
`hazards` that no property covers, because the answer is a case of the table above.
