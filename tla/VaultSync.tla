------------------------------ MODULE VaultSync ------------------------------
(***************************************************************************)
(* The clients of one account: each device keeps encrypted objects in       *)
(* memory and in SQLite, lets its user change them offline, and runs        *)
(* runSyncWithCurrentConnection to push its changes and pull the events of  *)
(* the others.  JavaScript runs to completion between awaits, so an action  *)
(* is the code between two awaits during which something else can happen.   *)
(*                                                                         *)
(* The server is VersionedStore with its event log, one object at a time:   *)
(* SyncServer models how its transactions do that.                          *)
(***************************************************************************)
EXTENDS Naturals, Sequences, FiniteSetsExt, SequencesExt

CONSTANTS
  Device,
  Object,         \* vaults and items
  VaultOf,        \* the vault of each object, a vault being its own
  Stored,         \* objects on the server and on every device at the start
  FirstSync,      \* whether nothing is yet: one device has its vaults only, the
                  \* account is empty
  Run,            \* what a device can do with the server at the same time
  PageLimit,      \* events in one response to a pull
  Manual,         \* bound: the devices whose users press the sync button
  EditStates,     \* bound: sync states in which users change an object
  EditsDuringRun, \* bound: may users change objects, or disconnect, during a run
  Deletable,      \* bound: the vaults users delete
  MaxEdits,       \* bound: changes made by users
  MaxFailures,    \* bound: runs cut short by the network
  MaxRestarts,    \* bound: applications stopped and started again
  MaxUnbinds,     \* bound: devices disconnected from the account
  Absent          \* no record

SyncState == {"clean", "dirty", "conflicted"}

Record ==
  [revision : Nat, base : Nat, content : [edit : Nat, deleted : BOOLEAN], state : SyncState]

ASSUME ObjectAssumption ==
  /\ VaultOf \in [Object -> Object]
  /\ \A o \in Object : VaultOf[VaultOf[o]] = VaultOf[o]
  /\ Stored \subseteq Object /\ IsFiniteSet(Stored)
  /\ Absent \notin Record
  /\ Deletable \subseteq {VaultOf[o] : o \in Object}

ASSUME RunAssumption ==
  /\ Run \subseteq {"auto", "manual", "bind"}
  /\ PageLimit \in Nat \ {0}

ASSUME BoundAssumption ==
  /\ EditStates \subseteq SyncState /\ Manual \subseteq Device
  /\ EditsDuringRun \in BOOLEAN /\ FirstSync \subseteq BOOLEAN
  /\ MaxEdits \in Nat /\ {MaxFailures, MaxRestarts, MaxUnbinds} \subseteq Nat

VARIABLES
  server,    \* the version of each object, revision 0 when it has none
  log,       \* sync_events, an event id being an index
  strays,    \* operations whose sender no longer waits for the answer
  mem,       \* vaults, items and attachments of the store
  settings,  \* settings.sync of the store
  disk,      \* SQLite records
  saved,     \* settings.sync as last saved
  pc,        \* where each run is
  sent,      \* operations of its push the server has not answered
  answers,   \* accepted and conflicts so far
  todo,      \* server versions the run has to look at
  verdict,   \* what it decided to do with the first of them
  at,        \* its cursor
  repaired,  \* it has resolved a conflict
  more,      \* the server has more events than it sent
  edits,     \* history: each change, its device, and the changes under it
  failures,
  restarts,
  unbinds

remote == <<server, log, strays>>
local  == <<mem, settings, disk, saved>>
run    == <<pc, sent, answers, todo, verdict, at, repaired, more>>
counts == <<failures, restarts, unbinds>>
vars   == <<remote, local, run, edits, counts>>

-----------------------------------------------------------------------------
(* A change is known by its number; 0 is what an object holds at the start. *)
Content == [edit : 0 .. MaxEdits, deleted : BOOLEAN]

Store == INSTANCE VersionedStore WITH store <- server

FirstContent == [edit |-> 0, deleted |-> FALSE]

NewRecord(c) == [revision |-> 1, base |-> 0, content |-> c, state |-> "dirty"]

CleanRecord(v) ==
  [revision |-> v.revision, base |-> v.revision, content |-> v.content, state |-> "clean"]

Has(d, o) == mem[d][o] # Absent
Live(d, o) == Has(d, o) /\ ~mem[d][o].content.deleted
InState(d, o, s) == Has(d, o) /\ mem[d][o].state = s
HasConflicts(d) == \E o \in Object : InState(d, o, "conflicted")

(* Seeded mistake: equal content is not recognised.                         *)
Bug_NeverSame(record, version) == FALSE

(* remoteObjectMatchesLocalContent: the sync metadata is left out, a        *)
(* tombstone matches a deletion of the same moment.                         *)
SameContent(record, version) == record.content = version.content

-----------------------------------------------------------------------------
(* The record store of a device.                                            *)

(* Seeded mistake: only the user's changes are written.                     *)
Bug_OnlyDirtySaved(d, objects) ==
  [o \in Object |-> IF objects[o] # Absent /\ objects[o].state = "dirty"
                    THEN objects[o] ELSE disk[d][o]]

(* Every object in memory replaces its record, and an object that left the  *)
(* memory keeps the one it had.                                             *)
Persisted(d, objects) ==
  [o \in Object |-> IF objects[o] # Absent THEN objects[o] ELSE disk[d][o]]

(* Seeded mistake: persist saves the settings before the records.           *)
Bug_SettingsFirst(d) ==
  /\ saved' = [saved EXCEPT ![d] = settings'[d]]
  /\ disk' = IF settings'[d] = settings[d] THEN [disk EXCEPT ![d] = Persisted(d, mem'[d])] ELSE disk

(* persist first writes the records, in one transaction, ...                *)
Persist(d) ==
  /\ disk' = [disk EXCEPT ![d] = Persisted(d, mem'[d])]
  /\ UNCHANGED saved

(* ... and, when they are there, the settings.  In between anything may     *)
(* happen, and the application may stop.                                    *)
SaveStore(d) ==
  /\ saved[d] # settings[d]
  /\ saved' = [saved EXCEPT ![d] = settings[d]]
  /\ UNCHANGED <<remote, mem, settings, disk, run, edits, counts>>

(* Unlocking loads the vaults and the items of those that are not deleted.  *)
Loaded(d) ==
  LET vault(o) == disk[d][VaultOf[o]]
  IN  [o \in Object |->
        IF o = VaultOf[o] \/ (vault(o) # Absent /\ ~vault(o).content.deleted)
        THEN disk[d][o] ELSE Absent]

(* applyRemoteSyncObject.                                                   *)
WithRemote(objects, o, version) ==
  [objects EXCEPT ![o] = IF version.content.deleted THEN Absent ELSE CleanRecord(version)]

MarkedConflicted(objects, o) ==
  [objects EXCEPT ![o] = IF @ = Absent THEN @ ELSE [@ EXCEPT !.state = "conflicted"]]

(* resetLoadedObjectsForNewSyncTarget.                                      *)
ResetForUpload(objects) ==
  [o \in Object |-> IF objects[o] = Absent THEN Absent
                    ELSE NewRecord(objects[o].content)]

-----------------------------------------------------------------------------
(* What a run does with a version of the server.                            *)

VersionAt(id) == log[id].version
ObjectAt(id) == log[id].object

(* The latest event of each object: the pages of a snapshot.                *)
Snapshot == {id \in DOMAIN log : \A later \in DOMAIN log :
               ObjectAt(later) = ObjectAt(id) => later <= id}

(* Seeded mistake: whatever is newer on the server replaces the record.     *)
Bug_NewerWins(record, version) ==
  IF record = Absent \/ record.base < version.revision THEN "apply" ELSE "skip"

(* applyPulledSyncObject.                                                   *)
PullVerdict(record, version) ==
  IF record = Absent THEN "apply"
  ELSE CASE record.state = "clean" ->
              IF record.revision >= version.revision THEN "skip" ELSE "apply"
         [] record.state = "conflicted" ->
              IF SameContent(record, version) THEN "apply" ELSE "skip"
         [] record.state = "dirty" ->
              IF version.revision <= record.base THEN "skip"
              ELSE IF SameContent(record, version) THEN "apply" ELSE "conflict"

(* reconcilePushConflicts.                                                  *)
ConflictVerdict(record, version) ==
  IF record # Absent /\ SameContent(record, version) THEN "apply" ELSE "conflict"

(* repairEquivalentSyncConflictsFromSnapshot.                               *)
RepairVerdict(record, version) ==
  IF record # Absent /\ record.state = "conflicted" /\ SameContent(record, version)
  THEN "apply" ELSE "skip"

(* reconcileLocalObjectsWithSyncSnapshot: a device that is bound to an      *)
(* account compares what it has with what is there.                         *)
BindVerdict(record, version) ==
  IF record = Absent THEN "apply"
  ELSE CASE version.content.deleted ->
              IF record.state = "clean" \/ record.content.deleted THEN "apply" ELSE "conflict"
         [] ~version.content.deleted /\ SameContent(record, version) -> "apply"
         [] OTHER ->
              IF record.state = "dirty" /\ record.base = version.revision THEN "skip"
              ELSE IF record.state = "clean" /\ record.revision <= version.revision
                   THEN "apply" ELSE "conflict"

Verdict(phase, record, version) ==
  CASE phase = "repairing" -> RepairVerdict(record, version)
    [] phase = "restoring" -> "apply"
    [] phase = "reconciling" -> ConflictVerdict(record, version)
    [] phase = "pulling" -> PullVerdict(record, version)
    [] phase = "binding" -> BindVerdict(record, version)

Phases == {"repairing", "restoring", "reconciling", "pulling", "binding"}

(* applyAcceptedSyncObjects: whatever the memory holds by now.              *)
WithAccepted(objects, accepted) ==
  [o \in Object |->
    IF objects[o] # Absent /\ \E a \in accepted : a.object = o
    THEN LET a == CHOOSE x \in accepted : x.object = o
         IN  [objects[o] EXCEPT !.revision = a.revision, !.base = a.revision,
                                !.state = "clean"]
    ELSE objects[o]]

(* Seeded mistake: an accepted deletion stays in memory.                    *)
Bug_DeletedKept(objects, accepted) == objects

(* removeAcceptedDeletedObjects: an accepted deletion leaves the memory and *)
(* the items of a vault go with it.                                         *)
WithoutDeleted(objects, accepted) ==
  LET gone(o) == objects[o] # Absent /\ objects[o].content.deleted
                 /\ \E a \in accepted : a.object = o
  IN  [o \in Object |-> IF gone(o) \/ gone(VaultOf[o]) THEN Absent ELSE objects[o]]

(* Seeded mistake: every answer counts as accepted.                         *)
Bug_AllAccepted(d, r) == answers[d][r]

AcceptedOf(d, r) == {a \in answers[d][r] : a.kind = "accepted"}
ConflictsOf(d, r) == {a \in answers[d][r] : a.kind = "conflict"}

NeedsReset(d) ==
  /\ settings[d].bound /\ settings[d].cursor = 0 /\ ~settings[d].synced
  /\ \E o \in Object : InState(d, o, "clean")

NeedsRestore(d) == settings[d].bound /\ settings[d].cursor > 0 /\ \A o \in Object : ~Has(d, o)

(* buildSyncPushObjects.                                                    *)
PushOf(d) ==
  {[object |-> o, base |-> mem[d][o].base, revision |-> mem[d][o].revision,
    content |-> mem[d][o].content] : o \in {x \in Object : InState(d, x, "dirty")}}

(* resetObjectsMissingFromSyncSnapshot: they are uploaded as new objects.   *)
MissingReset(objects, cursor) ==
  LET known == {ObjectAt(id) : id \in 1 .. cursor}
  IN  [o \in Object |-> IF o \in known \/ objects[o] = Absent THEN objects[o]
                        ELSE NewRecord(objects[o].content)]

(* DEFAULT_SYNC_SETTINGS: no account, no device and no cursor.              *)
Unbound == [cursor |-> 0, synced |-> FALSE, bound |-> FALSE]

-----------------------------------------------------------------------------
InitialLog ==
  LET order == SetToSeq(Stored)
  IN  [i \in DOMAIN order |->
        [object |-> order[i], version |-> [revision |-> 1, content |-> FirstContent]]]

First == CHOOSE d \in Device : TRUE

InitialRecord(d, o, empty) ==
  IF empty
  THEN IF d = First /\ o \in Stored /\ VaultOf[o] = o THEN NewRecord(FirstContent) ELSE Absent
  ELSE IF o \in Stored THEN CleanRecord([revision |-> 1, content |-> FirstContent]) ELSE Absent

InitAccount(empty) ==
  /\ log = IF empty THEN <<>> ELSE InitialLog
  /\ server = [o \in Object |-> [revision |-> IF o \in Stored /\ ~empty THEN 1 ELSE 0,
                                 content |-> FirstContent]]
  /\ mem = [d \in Device |-> [o \in Object |-> InitialRecord(d, o, empty)]]
  /\ settings = [d \in Device |->
       IF empty /\ d # First THEN Unbound ELSE [cursor |-> Len(log), synced |-> ~empty, bound |-> TRUE]]

Init ==
  /\ \E empty \in FirstSync : InitAccount(empty)
  /\ strays = {}
  /\ disk = mem
  /\ saved = settings
  /\ pc = [d \in Device |-> [r \in Run |-> "idle"]]
  /\ sent = [d \in Device |-> [r \in Run |-> {}]]
  /\ answers = [d \in Device |-> [r \in Run |-> {}]]
  /\ todo = [d \in Device |-> [r \in Run |-> {}]]
  /\ verdict = [d \in Device |-> [r \in Run |-> "none"]]
  /\ at = [d \in Device |-> [r \in Run |-> 0]]
  /\ repaired = [d \in Device |-> [r \in Run |-> FALSE]]
  /\ more = [d \in Device |-> [r \in Run |-> FALSE]]
  /\ edits = <<>>
  /\ failures = 0
  /\ restarts = 0
  /\ unbinds = 0

-----------------------------------------------------------------------------
(* The user of a device changes objects; each change is saved at once.      *)

(* No run is at work and nothing is being saved.                            *)
Idle(d) == saved[d] = settings[d] /\ \A r \in Run : pc[d][r] = "idle"

(* A user has a vault from the beginning.                                   *)
HasUser(d) == \E o \in Object : disk[d][o] # Absent

CanChange(d) == HasUser(d) /\ Len(edits) < MaxEdits /\ (EditsDuringRun \/ Idle(d))

Under(record) ==
  LET n == record.content.edit IN {n} \cup (IF n = 0 THEN {} ELSE edits[n].under)

NextContent(removes) == [edit |-> Len(edits) + 1, deleted |-> removes]

(* A change makes a version on top of the one in memory: base is its        *)
(* revision, whether or not the server has it.                              *)
Changed(record, removes) ==
  [revision |-> record.revision + 1, base |-> record.revision,
   content |-> NextContent(removes), state |-> "dirty"]

Remember(d, under) == edits' = Append(edits, [by |-> d, under |-> under])

(* saveItem with an editingItemId.                                          *)
EditItem(d, o) ==
  /\ CanChange(d) /\ o # VaultOf[o]
  /\ Live(d, o) /\ mem[d][o].state \in EditStates
  /\ mem' = [mem EXCEPT ![d][o] = Changed(@, FALSE)]
  /\ Remember(d, Under(mem[d][o]))
  /\ UNCHANGED settings
  /\ Persist(d)
  /\ UNCHANGED <<remote, run, counts>>

(* createVault, or saveItem without an id; ids are random, so nobody else   *)
(* has the object.                                                          *)
Create(d, o) ==
  /\ CanChange(d)
  /\ o # VaultOf[o] => Live(d, VaultOf[o])
  /\ server[o].revision = 0 /\ \A e \in Device : ~Has(e, o) /\ disk[e][o] = Absent
  /\ mem' = [mem EXCEPT ![d][o] = NewRecord(NextContent(FALSE))]
  /\ Remember(d, {})
  /\ UNCHANGED settings
  /\ Persist(d)
  /\ UNCHANGED <<remote, run, counts>>

(* deleteVault: never the last vault, and its items with it.                *)
DeleteVault(d, v) ==
  LET removed == {o \in Object : VaultOf[o] = v /\ Live(d, o)}
  IN  /\ CanChange(d) /\ v \in Deletable
      /\ Live(d, v)
      /\ \E w \in Object \ {v} : VaultOf[w] = w /\ Live(d, w)
      /\ \A o \in removed : mem[d][o].state \in EditStates
      /\ mem' = [mem EXCEPT ![d] =
           [o \in Object |-> IF o \in removed THEN Changed(@[o], TRUE) ELSE @[o]]]
      /\ Remember(d, UNION {Under(mem[d][o]) : o \in removed})
      /\ UNCHANGED settings
      /\ Persist(d)
      /\ UNCHANGED <<remote, run, counts>>

-----------------------------------------------------------------------------
(* A sync run.                                                              *)

GoTo(d, r, where) == pc' = [pc EXCEPT ![d][r] = where]

LookAt(d, r, ids) == todo' = [todo EXCEPT ![d][r] = ids]

NothingLeft(d, r) == todo[d][r] = {} /\ verdict[d][r] = "none"

(* tryAutoSync, while no run of its own is at work or saves its cursor, or  *)
(* runSync from a button, which does not look at autoSync.running.  With    *)
(* conflicts the run starts from a snapshot.                                *)
Start(d, r) ==
  /\ pc[d][r] = "idle" /\ settings[d].bound
  /\ \/ r = "auto" /\ ~HasConflicts(d) /\ saved[d] = settings[d]
     \/ r = "manual" /\ d \in Manual
  /\ GoTo(d, r, "repairing")
  /\ LookAt(d, r, IF HasConflicts(d) THEN Snapshot ELSE {})
  /\ repaired' = [repaired EXCEPT ![d][r] = FALSE]
  /\ UNCHANGED <<remote, local, sent, answers, verdict, at, more, edits, counts>>

(* The store is compared with the next version, which is decrypted for it.  *)
Examine(d, r) ==
  /\ pc[d][r] \in Phases /\ todo[d][r] # {} /\ verdict[d][r] = "none"
  /\ LET id == Min(todo[d][r])
     IN  verdict' = [verdict EXCEPT ![d][r] =
                       Verdict(pc[d][r], mem[d][ObjectAt(id)], VersionAt(id))]
  /\ UNCHANGED <<remote, local, pc, sent, answers, todo, at, repaired, more, edits, counts>>

(* The decision is carried out on what the store holds by then.             *)
Act(d, r) ==
  /\ pc[d][r] \in Phases /\ verdict[d][r] # "none"
  /\ LET id == Min(todo[d][r])
         o  == ObjectAt(id)
     IN  /\ mem' = [mem EXCEPT ![d] =
              CASE verdict[d][r] = "apply" -> WithRemote(@, o, VersionAt(id))
                [] verdict[d][r] = "conflict" -> MarkedConflicted(@, o)
                [] verdict[d][r] = "skip" -> @]
         /\ LookAt(d, r, todo[d][r] \ {id})
  /\ repaired' = [repaired EXCEPT ![d][r] = @ \/ verdict[d][r] = "apply"]
  /\ verdict' = [verdict EXCEPT ![d][r] = "none"]
  /\ UNCHANGED <<remote, settings, disk, saved, pc, sent, answers, at, more, edits, counts>>

(* Resolved conflicts are saved before anything else.                       *)
Repaired(d, r) ==
  /\ pc[d][r] = "repairing" /\ NothingLeft(d, r)
  /\ UNCHANGED <<mem, settings>>
  /\ IF repaired[d][r] THEN Persist(d) ELSE UNCHANGED <<disk, saved>>
  /\ GoTo(d, r, "building")
  /\ UNCHANGED <<remote, sent, answers, todo, verdict, at, repaired, more, edits, counts>>

(* shouldResetLocalObjectsForInitialSync.                                   *)
Reset(d, r) ==
  /\ pc[d][r] = "building" /\ NeedsReset(d)
  /\ mem' = [mem EXCEPT ![d] = ResetForUpload(@)]
  /\ UNCHANGED settings
  /\ Persist(d)
  /\ UNCHANGED <<remote, run, edits, counts>>

(* shouldRepairEmptyLocalSyncState: the store is refilled from a snapshot.  *)
Restore(d, r) ==
  /\ pc[d][r] = "building" /\ ~NeedsReset(d) /\ NeedsRestore(d)
  /\ GoTo(d, r, "restoring")
  /\ LookAt(d, r, Snapshot)
  /\ at' = [at EXCEPT ![d][r] = Len(log)]
  /\ UNCHANGED <<remote, local, sent, answers, verdict, repaired, more, edits, counts>>

(* Build the push and send it.                                              *)
Push(d, r) ==
  /\ pc[d][r] = "building" /\ ~NeedsReset(d) /\ ~NeedsRestore(d)
  /\ sent' = [sent EXCEPT ![d][r] = PushOf(d)]
  /\ answers' = [answers EXCEPT ![d][r] = {}]
  /\ GoTo(d, r, "pushing")
  /\ UNCHANGED <<remote, local, todo, verdict, at, repaired, more, edits, counts>>

(* Write one operation of a push, as SyncServer does.                       *)
Write(op) ==
  /\ Store!Put(op.object, op.content)
  /\ log' = Append(log, [object |-> op.object, version |-> server'[op.object]])

(* Seeded mistake: a device that is behind is accepted.                     *)
Bug_BehindAccepted(op) == op.base <= server[op.object].revision

BaseIsCurrent(op) == op.base = server[op.object].revision

(* The event of the current version; a server without one answers with 0.   *)
CurrentEvent(o) == Max({0} \cup {id \in DOMAIN log : ObjectAt(id) = o})

Answer(op) ==
  IF BaseIsCurrent(op)
  THEN [object |-> op.object, kind |-> "accepted", revision |-> op.revision, id |-> 0]
  ELSE [object |-> op.object, kind |-> "conflict",
        revision |-> server[op.object].revision, id |-> CurrentEvent(op.object)]

WriteIfCurrent(op) ==
  IF BaseIsCurrent(op) THEN Write(op) ELSE UNCHANGED <<server, log>>

(* The server handles one operation of the push a run waits for.            *)
Serve(d, r, op) ==
  /\ op \in sent[d][r]
  /\ WriteIfCurrent(op)
  /\ answers' = [answers EXCEPT ![d][r] = @ \cup {Answer(op)}]
  /\ sent' = [sent EXCEPT ![d][r] = @ \ {op}]
  /\ UNCHANGED <<strays, local, pc, todo, verdict, at, repaired, more, edits, counts>>

(* It handles one whose sender gave up.                                     *)
ServeStray(op) ==
  /\ op \in strays
  /\ WriteIfCurrent(op)
  /\ strays' = strays \ {op}
  /\ UNCHANGED <<local, run, edits, counts>>

(* The response of the push: what was accepted becomes clean, what          *)
(* conflicts is compared with the version of the server.                    *)
Receive(d, r) ==
  /\ pc[d][r] = "pushing" /\ sent[d][r] = {}
  /\ LET absent == {a.object : a \in {x \in ConflictsOf(d, r) : x.id = 0}}
         objects == WithAccepted(mem[d], AcceptedOf(d, r))
     IN  mem' = [mem EXCEPT ![d] =
           [o \in Object |-> IF o \in absent THEN MarkedConflicted(objects, o)[o]
                             ELSE objects[o]]]
  /\ LookAt(d, r, {a.id : a \in ConflictsOf(d, r)} \ {0})
  /\ GoTo(d, r, "reconciling")
  /\ UNCHANGED <<remote, settings, disk, saved, sent, answers, verdict, at, repaired, more,
                 edits, counts>>

(* The push is done; pulling starts from the cursor in the settings.        *)
Reconciled(d, r) ==
  /\ pc[d][r] = "reconciling" /\ NothingLeft(d, r)
  /\ mem' = [mem EXCEPT ![d] = WithoutDeleted(@, AcceptedOf(d, r))]
  /\ at' = [at EXCEPT ![d][r] = settings[d].cursor]
  /\ GoTo(d, r, "asking")
  /\ UNCHANGED <<remote, settings, disk, saved, sent, answers, todo, verdict,
                 repaired, more, edits, counts>>

(* Seeded mistake: the cursor moves past the end of the page.               *)
Bug_CursorJumps(d, r) ==
  /\ pc[d][r] = "asking"
  /\ LookAt(d, r, (at[d][r] + 1) .. Min({Len(log), at[d][r] + PageLimit}))
  /\ at' = [at EXCEPT ![d][r] = Len(log)]
  /\ GoTo(d, r, "pulling")
  /\ UNCHANGED <<remote, local, sent, answers, verdict, repaired, more, edits, counts>>

(* One page of events.                                                      *)
Pull(d, r) ==
  /\ pc[d][r] = "asking"
  /\ LET last == Min({Len(log), at[d][r] + PageLimit})
     IN  /\ LookAt(d, r, (at[d][r] + 1) .. last)
         /\ at' = [at EXCEPT ![d][r] = last]
         /\ more' = [more EXCEPT ![d][r] = last < Len(log)]
  /\ GoTo(d, r, "pulling")
  /\ UNCHANGED <<remote, local, sent, answers, verdict, repaired, edits, counts>>

(* The page, or the snapshot, is applied; hasMore asks for another page.    *)
Applied(d, r) ==
  /\ pc[d][r] \in {"pulling", "restoring"} /\ NothingLeft(d, r)
  /\ GoTo(d, r, IF pc[d][r] = "pulling" /\ more[d][r] THEN "asking" ELSE "acking")
  /\ UNCHANGED <<remote, local, sent, answers, todo, verdict, at, repaired, more,
                 edits, counts>>

(* The run is over: what it still holds goes.                               *)
Clear(d, r) ==
  /\ GoTo(d, r, "idle")
  /\ LookAt(d, r, {})
  /\ verdict' = [verdict EXCEPT ![d][r] = "none"]
  /\ sent' = [sent EXCEPT ![d][r] = {}]
  /\ answers' = [answers EXCEPT ![d][r] = {}]
  /\ at' = [at EXCEPT ![d][r] = 0]
  /\ repaired' = [repaired EXCEPT ![d][r] = FALSE]
  /\ more' = [more EXCEPT ![d][r] = FALSE]

(* The cursor is acknowledged and kept; the objects are saved, then it is.  *)
Finish(d, r) ==
  /\ pc[d][r] = "acking"
  /\ settings' = [settings EXCEPT ![d].cursor = at[d][r], ![d].synced = TRUE]
  /\ UNCHANGED mem
  /\ Persist(d)
  /\ Clear(d, r)
  /\ UNCHANGED <<remote, edits, counts>>

-----------------------------------------------------------------------------
(* Losing the account and being bound to it again.                          *)

(* disconnectSync.                                                          *)
Disconnect(d) ==
  /\ settings[d].bound /\ unbinds < MaxUnbinds /\ (EditsDuringRun \/ Idle(d))
  /\ unbinds' = unbinds + 1
  /\ settings' = [settings EXCEPT ![d] = Unbound]
  /\ UNCHANGED mem
  /\ Persist(d)
  /\ UNCHANGED <<remote, run, edits, failures, restarts>>

(* markSyncConnectionInvalid: the server refuses the token of a device that *)
(* was revoked, and the run ends there.                                     *)
Refused(d, r) ==
  /\ pc[d][r] \in {"pushing", "asking", "acking"} /\ unbinds < MaxUnbinds
  /\ pc[d][r] = "pushing" => answers[d][r] = {}
  /\ unbinds' = unbinds + 1
  /\ settings' = [settings EXCEPT ![d] = Unbound]
  /\ UNCHANGED mem
  /\ Persist(d)
  /\ Clear(d, r)
  /\ UNCHANGED <<remote, edits, failures, restarts>>

(* applySyncExchange: the objects are compared with a snapshot.             *)
Bind(d, r) ==
  /\ r = "bind" /\ ~settings[d].bound /\ HasUser(d) /\ Idle(d)
  /\ GoTo(d, r, "binding")
  /\ LookAt(d, r, Snapshot)
  /\ at' = [at EXCEPT ![d][r] = Len(log)]
  /\ repaired' = [repaired EXCEPT ![d][r] = FALSE]
  /\ UNCHANGED <<remote, local, sent, answers, verdict, more, edits, counts>>

(* The rest is reset, and the vault key is uploaded.                        *)
Compared(d, r) ==
  /\ pc[d][r] = "binding" /\ NothingLeft(d, r)
  /\ mem' = [mem EXCEPT ![d] = MissingReset(@, at[d][r])]
  /\ GoTo(d, r, "wrapping")
  /\ UNCHANGED <<remote, settings, disk, saved, sent, answers, todo, verdict, at, repaired,
                 more, edits, counts>>

(* The server has the key: the account and the cursor are kept.             *)
Bound(d, r) ==
  /\ pc[d][r] = "wrapping"
  /\ settings' = [settings EXCEPT ![d] =
                    [cursor |-> at[d][r], synced |-> repaired[d][r], bound |-> TRUE]]
  /\ UNCHANGED mem
  /\ Persist(d)
  /\ Clear(d, r)
  /\ UNCHANGED <<remote, edits, counts>>

(* The server may or may not go on with a push nobody waits for.            *)
GiveUp(ops) == strays' = strays \/ strays' = strays \cup ops

(* A request fails: the run ends with what it has done to the store, which  *)
(* is not saved; the push may have reached the server.                      *)
Fail(d, r) ==
  /\ pc[d][r] \in {"pushing", "asking", "acking", "wrapping"}
  /\ failures < MaxFailures
  /\ failures' = failures + 1
  /\ GiveUp(sent[d][r])
  /\ Clear(d, r)
  /\ UNCHANGED <<server, log, local, edits, restarts, unbinds>>

(* The application stops, is started again and unlocked.                    *)
Restart(d) ==
  /\ restarts < MaxRestarts
  /\ restarts' = restarts + 1
  /\ GiveUp(UNION {sent[d][r] : r \in Run})
  /\ mem' = [mem EXCEPT ![d] = Loaded(d)]
  /\ settings' = [settings EXCEPT ![d] = saved[d]]
  /\ pc' = [pc EXCEPT ![d] = [r \in Run |-> "idle"]]
  /\ todo' = [todo EXCEPT ![d] = [r \in Run |-> {}]]
  /\ verdict' = [verdict EXCEPT ![d] = [r \in Run |-> "none"]]
  /\ sent' = [sent EXCEPT ![d] = [r \in Run |-> {}]]
  /\ answers' = [answers EXCEPT ![d] = [r \in Run |-> {}]]
  /\ at' = [at EXCEPT ![d] = [r \in Run |-> 0]]
  /\ repaired' = [repaired EXCEPT ![d] = [r \in Run |-> FALSE]]
  /\ more' = [more EXCEPT ![d] = [r \in Run |-> FALSE]]
  /\ UNCHANGED <<server, log, disk, saved, edits, failures, unbinds>>

Change(d) ==
  \E o \in Object : EditItem(d, o) \/ Create(d, o) \/ DeleteVault(d, o)

Step(d, r) ==
  \/ Examine(d, r) \/ Act(d, r) \/ Repaired(d, r) \/ Reset(d, r) \/ Restore(d, r)
  \/ Push(d, r) \/ Receive(d, r) \/ Reconciled(d, r) \/ Pull(d, r) \/ Applied(d, r)
  \/ Finish(d, r) \/ Compared(d, r) \/ Bound(d, r) \/ \E op \in sent[d][r] : Serve(d, r, op)

Next ==
  \/ \E d \in Device : Change(d) \/ SaveStore(d) \/ Restart(d) \/ Disconnect(d)
  \/ \E d \in Device, r \in Run :
       Start(d, r) \/ Bind(d, r) \/ Step(d, r) \/ Fail(d, r) \/ Refused(d, r)
  \/ \E op \in strays : ServeStray(op)

Spec == Init /\ [][Next]_vars

(* A run that has begun goes on, as saving does, and an edit, focus and the *)
(* return of the network start the automatic one again and again.           *)
Fairness ==
  \A d \in Device : /\ \A r \in Run : WF_vars(Step(d, r))
                    /\ WF_vars(SaveStore(d)) /\ WF_vars(Start(d, "auto"))

FairSpec == Spec /\ Fairness

-----------------------------------------------------------------------------
EventsOf(o) == {id \in DOMAIN log : ObjectAt(id) = o}

(* A clean record is the server's version of that revision, in memory and   *)
(* on disk: "saved to the server" is never shown for a change the server    *)
(* does not have.                                                           *)
CleanIsServerVersion ==
  \A d \in Device, o \in Object : \A record \in {mem[d][o], disk[d][o]} \ {Absent} :
    record.state = "clean" =>
      \E id \in EventsOf(o) : /\ VersionAt(id).revision = record.revision
                              /\ VersionAt(id).content = record.content

(* The server's version is only ever replaced by a change made on top of    *)
(* it: docs/server-sync-design.md promises that neither side of a conflict  *)
(* overwrites the other.                                                    *)
ReplacedVersionWasSeen ==
  \A o \in Object : \A i, j \in EventsOf(o) :
    VersionAt(j).revision = VersionAt(i).revision + 1 =>
      /\ VersionAt(j).content.edit \in DOMAIN edits
      /\ VersionAt(i).content.edit \in edits[VersionAt(j).content.edit].under

OnDevice(d, n) == \E o \in Object : \E record \in {mem[d][o], disk[d][o]} \ {Absent} :
                    record.content.edit = n

(* No change is lost: the server has had it, a device still holds it, or    *)
(* its user changed the object again.                                       *)
NoEditVanishes ==
  \A n \in DOMAIN edits :
    \/ \E id \in DOMAIN log : VersionAt(id).content.edit = n
    \/ \E d \in Device : OnDevice(d, n)
    \/ \E m \in DOMAIN edits : n \in edits[m].under

(* The objects take account of every event up to a cursor; one that is      *)
(* absent was deleted, or has an event that is still to be pulled.          *)
Covers(objects, cursor) ==
  \A id \in 1 .. cursor :
    LET record == objects[ObjectAt(id)]
    IN  IF record = Absent
        THEN \E x \in EventsOf(ObjectAt(id)) :
               x >= id /\ (x > cursor \/ VersionAt(x).content.deleted)
        ELSE CASE record.state = "clean" -> record.revision >= VersionAt(id).revision
               [] record.state = "dirty" -> record.base >= VersionAt(id).revision
               [] record.state = "conflicted" -> TRUE

(* An event at or before the cursor will not be pulled again, so the store  *)
(* must have taken account of it, whatever was pushed, refused or resolved  *)
(* in the same run.                                                         *)
CursorMeansSeen == \A d \in Device : Covers(mem[d], settings[d].cursor)

(* The same of what a restart will find: the records were saved before the  *)
(* cursor moved.                                                            *)
SavedCursorMeansSeen == \A d \in Device : Covers(disk[d], saved[d].cursor)

(* The first upload of a new object was cut off after the server had it, its*)
(* user changed it, and it is uploaded as new again.                        *)
ChangedSinceUpload(record, version) ==
  record.base = 0 /\ version.content.edit \in Under(record) \ {record.content.edit}

(* An object is in conflict only if another device changed it, however often*)
(* a push was cut off and repeated: nobody has to settle a conflict with    *)
(* himself, but for the change after a first upload that was cut off.       *)
ConflictNeedsAnother ==
  \A d \in Device, o \in Object :
    InState(d, o, "conflicted") =>
      \/ \E id \in EventsOf(o) : LET n == VersionAt(id).content.edit
                                IN  n # 0 /\ edits[n].by # d
      \/ ChangedSinceUpload(mem[d][o], server[o])

UpToDate(d, o) ==
  IF server[o].revision = 0 \/ server[o].content.deleted
  THEN ~Has(d, o)
  ELSE mem[d][o] = CleanRecord(server[o])

(* Every device ends up with what the server has, unless one of its objects *)
(* is in conflict or the device is no longer bound to the account: after    *)
(* changes during a run, a request that fails and a restart where no vault  *)
(* is deleted, and after deletions and disconnections where nothing fails.  *)
(* Deletions and restarts together may lose a deletion.                     *)
EventuallyUpToDate ==
  <>[](\A d \in Device : HasConflicts(d) \/ ~settings[d].bound \/ \A o \in Object : UpToDate(d, o))
=============================================================================
