-------------------------- MODULE LocalUsersProofs --------------------------
(***************************************************************************)
(* Proofs about LocalUsers, for any number of users, background persists,   *)
(* operations and failures: the records of a user stay with that user, and  *)
(* nothing stays of somebody who has left.                                  *)
(*                                                                         *)
(* A persist under way carries a list of users that is as old as its        *)
(* beginning.  The argument is that its list differs from the store's only  *)
(* in users the model has noted as overtaken (ListInv), so that for all     *)
(* others deleting what is on no list deletes what the store gave up.       *)
(***************************************************************************)
EXTENDS LocalUsers, TLAPS

Person == User \cup {NoUser}
RecordSet == SUBSET (User \X Nat)
FileType == [there : BOOLEAN, records : RecordSet]
Kinds == {"none", "restore", "create", "remove", "switch", "unlock", "backup", "hydrate"}
Places == {"idle", "before", "secrets", "token", "join", "enter", "records", "saving",
           "forget", "leave", "load", "adopt", "store"}
OpType == [kind : Kinds, user : Person, pc : Places]
SavePlaces == {"idle", "encrypt", "upsert", "store", "done", "failed"}
SaveType == [pc : SavePlaces, users : SUBSET User, active : SUBSET Person, by : Person,
             records : RecordSet]

TypeOK ==
  /\ meta \in [users : SUBSET User, active : Person]
  /\ files \in [User -> FileType]
  /\ secrets \in SUBSET (User \X Secret)
  /\ users \in SUBSET User /\ active \in Person /\ session \in Person
  /\ mem \in RecordSet
  /\ op \in OpType
  /\ save \in [Save -> SaveType]
  /\ package \in [User -> RecordSet]
  /\ edits \in Nat
  /\ kept \in [User -> RecordSet]
  /\ overtaken \in SUBSET User /\ orphaned \in SUBSET User

-----------------------------------------------------------------------------
(* What the page is doing, and with whom.                                   *)
In(kind, places) == op.kind = kind /\ op.pc \in places

Hydrating == op.kind = "hydrate" /\ op.pc = "store"

PageInv ==
  /\ \/ op = NoOp
     \/ In("hydrate", {"load", "store"}) /\ op.user = NoUser
     \/ op.user \in User /\ \/ In("restore", {"before", "secrets", "token", "join", "enter", "records", "saving"})
                            \/ In("create", {"before", "join", "enter", "secrets", "saving"})
                            \/ In("remove", {"forget", "leave", "saving"})
                            \/ In("switch", {"before", "saving"})
                            \/ In("unlock", {"load", "saving"})
                            \/ In("backup", {"adopt", "saving"})
  /\ op.kind = "hydrate" => ~up
  /\ ~up => op.kind \in {"none", "hydrate"} /\ session = NoUser
  /\ op.pc = "enter" \/ In("create", {"secrets"}) \/ In("switch", {"before"}) => op.user \in users
  /\ op.pc = "leave" => secrets \cap SecretsOf({op.user}) = {}

(* The memory is the active user's, whoever's session is open.              *)
MemoryInv ==
  /\ session \in {NoUser, active} /\ active \in users \cup {NoUser}
  /\ mem \subseteq {active} \X Nat

(* No record is in another user's file, and a listed user has one.          *)
FilesInv ==
  \A u \in User : /\ files[u].records \subseteq {u} \X Nat /\ package[u] \subseteq {u} \X Nat
                  /\ u \in meta.users => files[u].there

(* What a persist carries, and when there is one of the page.               *)
Active(s) == save[s].pc \in {"encrypt", "upsert", "store"}

Carries(x) ==
  /\ x.pc \in {"encrypt", "upsert"} /\ x.records # {} =>
       x.by \in x.users /\ x.records \subseteq {x.by} \X Nat
  /\ x.pc = "upsert" => x.records # {}

SaveInv ==
  /\ \A s \in Save : Carries(save[s])
  /\ \A s \in Background : Idle(s) \/ Active(s)

PersistInv ==
  /\ Idle(Page) <=> ~(op.pc \in {"before", "saving"} \/ Hydrating)
  /\ Hydrating => /\ save[Page].pc \in {"store", "done", "failed"}
                  /\ \E u \in save[Page].users \cup {NoUser} : save[Page].active = {u}
  /\ op.pc \in {"before", "saving"} /\ Active(Page) => save[Page].users = users

(* Its list is the store's, but for the users who were overtaken.           *)
Agree(list, other) == \A u \in User \ overtaken : u \in list <=> u \in other

(* After a hydration that failed the store has no list, only the file has.  *)
Current == IF up \/ op.kind = "hydrate" THEN users ELSE meta.users

ListInv ==
  /\ \A s \in Background : Active(s) => Agree(save[s].users, Current)
  /\ Hydrating => Agree(meta.users, save[Page].users)
  /\ Hydrating /\ ~BackgroundIdle => Agree(users, save[Page].users)
  /\ op.pc = "adopt" /\ ~BackgroundIdle => op.user \in users \cup overtaken

(* Records are kept, and whoever has some is on every list.                 *)
Fresh == In("hydrate", {"load"}) /\ ~running /\ BackgroundIdle

Known(u) ==
  /\ \A s \in Save : Active(s) => u \in save[s].users
  /\ Hydrating => u \in save[Page].users
  /\ up => u \in users \/ (op.pc = "adopt" /\ op.user = u)
  /\ ~up => Fresh \/ (In("hydrate", {"load"}) /\ u \in users) \/ u \in meta.users

KeptInv == \A u \in User \ overtaken : kept[u] \subseteq files[u].records /\ (kept[u] # {} => Known(u))

(* What is stored is what the page shows, unless a save is to come or failed.*)
Settling ==
  \/ op.pc \in {"enter", "records", "adopt"} \/ In("create", {"secrets"})
  \/ op.pc = "saving" /\ Active(Page)
  \/ ~up

NoneElse(list) == \A u \in User \ overtaken : files[u].there => u \in list

RestInv ==
  /\ Settling \/ failed \/ (Agree(meta.users, users) /\ NoneElse(users))
  /\ Hydrating /\ save[Page].pc = "done" /\ ~failed => NoneElse(save[Page].users)

(* Secrets belong to a directory, or to a user who is there or on the way.  *)
InHand(u) ==
  \/ u \in users /\ ~Hydrating
  \/ In("restore", {"token", "join"}) /\ u = op.user

HasSecret(u) == secrets \cap SecretsOf({u}) # {}

SecretInv == \A u \in User \ (overtaken \cup orphaned) : HasSecret(u) => files[u].there \/ InHand(u)

IInv ==
  /\ TypeOK /\ PageInv /\ MemoryInv /\ FilesInv /\ SaveInv /\ PersistInv
  /\ ListInv /\ KeptInv /\ RestInv /\ SecretInv

-----------------------------------------------------------------------------
(* Records and places of functions.                                         *)
LEMMA SlotTo ==
  ASSUME save \in [Save -> SaveType], NEW s \in Save, NEW x \in SaveType,
         save' = [save EXCEPT ![s] = x]
  PROVE  /\ save' \in [Save -> SaveType] /\ save'[s] = x
         /\ \A t \in Save : t # s => save'[t] = save[t]
OBVIOUS

LEMMA OpAt ==
  ASSUME op \in OpType, NEW p \in Places, At(p)
  PROVE  op' \in OpType /\ op'.kind = op.kind /\ op'.user = op.user /\ op'.pc = p
BY DEF At, OpType

LEMMA OpMade ==
  ASSUME NEW k \in Kinds, NEW u \in Person, NEW p \in Places,
         op' = [kind |-> k, user |-> u, pc |-> p]
  PROVE  op' \in OpType /\ op'.kind = k /\ op'.user = u /\ op'.pc = p
BY DEF OpType

LEMMA OpDone ==
  ASSUME op' = NoOp
  PROVE  op' \in OpType /\ op'.kind = "none" /\ op'.user = NoUser /\ op'.pc = "idle"
BY DEF OpType, NoOp, Kinds, Places, Person

LEMMA NoSaveType ==
  /\ NoSave \in SaveType /\ NoSave.pc = "idle" /\ NoSave.users = {} /\ NoSave.records = {}
BY DEF NoSave, SaveType, SavePlaces, RecordSet, Person

LEMMA BegunType ==
  ASSUME TypeOK, MemoryInv
  PROVE  /\ Begun \in SaveType /\ Begun.pc = "encrypt" /\ Begun.users = users
         /\ Begun.records # {} => /\ Begun.by \in users /\ Begun.by = active /\ Begun.records = mem
                                  /\ session # NoUser
         /\ session # NoUser => Begun.by = active
<1>1. Begun \in SaveType
  BY DEF Begun, SaveType, SavePlaces, TypeOK, Person, RecordSet
<1>2. Begun.pc = "encrypt" /\ Begun.users = users
      /\ Begun.by = (IF session = NoUser THEN NoUser ELSE active)
      /\ Begun.records = (IF session = NoUser THEN {} ELSE mem)
  BY DEF Begun
<1> QED
  BY <1>1, <1>2 DEF MemoryInv, TypeOK

LEMMA Fields ==
  ASSUME TypeOK
  PROVE  /\ op.kind \in Kinds /\ op.user \in Person /\ op.pc \in Places
         /\ \A s \in Save : /\ save[s] \in SaveType /\ save[s].pc \in SavePlaces
                            /\ save[s].users \in SUBSET User /\ save[s].by \in Person
                            /\ save[s].records \in RecordSet
         /\ \A u \in User : /\ files[u] \in FileType /\ files[u].records \in RecordSet
                            /\ package[u] \in RecordSet /\ kept[u] \in RecordSet
         /\ meta.users \in SUBSET User
BY DEF TypeOK, OpType, SaveType, FileType

-----------------------------------------------------------------------------
(* A persist begins in the background.                                      *)
Begins(s, x) ==
  /\ Idle(s) /\ save' = [save EXCEPT ![s] = x]
  /\ x \in SaveType /\ x.pc = "encrypt" /\ x.users = users /\ Carries(x)
  /\ mem' \in RecordSet /\ mem' \subseteq {active} \X Nat /\ edits' \in Nat
  /\ overtaken' = overtaken \cup Joining \cup (IF up THEN {} ELSE meta.users \cup users)
  /\ UNCHANGED <<stored, up, who, session, op, package, kept, orphaned, failed>>
  /\ up \/ running
  /\ running' = TRUE => running = TRUE

LEMMA BeginKeeps ==
  ASSUME IInv, NEW s \in Background, NEW x, Begins(s, x)
  PROVE  IInv'
<1>0. TypeOK /\ PageInv /\ MemoryInv /\ FilesInv /\ SaveInv /\ PersistInv /\ ListInv /\ KeptInv /\ RestInv /\ SecretInv
  BY DEF IInv
<1>s. s \in Save /\ s # Page /\ Page \in Save
  BY LocalUsersAssumption DEF Save
<1>b. x \in SaveType /\ x.pc = "encrypt" /\ x.users = users /\ Carries(x)
  BY DEF Begins
<1>1. /\ UNCHANGED <<meta, files, secrets, up, users, active, session, op, package,
                     kept, orphaned, failed>>
      /\ save[s].pc = "idle"
  BY DEF Begins, stored, who, Idle
<1>2. /\ save' \in [Save -> SaveType] /\ save'[s] = x
      /\ \A t \in Save : t # s => save'[t] = save[t]
  BY <1>0, <1>s, <1>b, SlotTo DEF Begins, TypeOK
<1>3. overtaken \subseteq overtaken' /\ overtaken' \in SUBSET User
  BY <1>0, Fields DEF Begins, Joining, TypeOK, PageInv, In, NoOp
<1>4. TypeOK'
  BY <1>0, <1>1, <1>2, <1>3 DEF Begins, TypeOK
<1>5. PageInv'
  BY <1>0, <1>1 DEF PageInv, In
<1>6. MemoryInv' /\ FilesInv'
  BY <1>0, <1>1 DEF Begins, MemoryInv, FilesInv
<1>7. SaveInv' /\ PersistInv'
  <2>1. \A t \in Save : Carries(save'[t])
    BY <1>0, <1>2, <1>b DEF SaveInv
  <2>2. \A t \in Background : save'[t].pc \in {"idle", "encrypt", "upsert", "store"}
    BY <1>0, <1>2, <1>b DEF SaveInv, Idle, Active, Save
  <2>3. PersistInv'
    BY <1>0, <1>1, <1>2, <1>s DEF PersistInv, Idle, Active, Hydrating
  <2> QED
    BY <2>1, <2>2, <2>3 DEF SaveInv, Idle, Active
<1>8. ListInv'
  <2>1. Agree(users, users)'
    BY DEF Agree
  <2>2. ASSUME NEW t \in Background, Active(t)' PROVE Agree(save[t].users, Current)'
    <3>1. CASE t = s
      BY <1>1, <1>2, <1>b, <1>s, <2>1, <3>1 DEF Begins, Current, Agree
    <3>2. CASE t # s
      BY <1>0, <1>1, <1>2, <1>3, <2>2, <3>2 DEF ListInv, Agree, Active, Save, Current
    <3> QED
      BY <3>1, <3>2
  <2>3. Hydrating => Agree(meta.users, save[Page].users)'
    BY <1>0, <1>1, <1>2, <1>3, <1>s DEF ListInv, Agree
  <2>4. Hydrating => Agree(users, save[Page].users)'
    <3>1. ASSUME Hydrating PROVE ~up
      BY <1>0, <3>1 DEF PageInv, Hydrating
    <3> QED
      BY <1>0, <1>1, <1>2, <1>3, <1>s, <3>1 DEF ListInv, Agree, Begins
  <2>5. op.pc = "adopt" => op.user \in (users \cup overtaken)'
    BY <1>1 DEF Begins, Joining
  <2> QED
    BY <1>1, <2>2, <2>3, <2>4, <2>5 DEF ListInv, Hydrating
<1>9. KeptInv'
  <2>1. ASSUME NEW u \in User, u \notin overtaken', kept[u] # {} PROVE Known(u)'
    <3>1. Known(u)
      BY <1>0, <1>3, <2>1 DEF KeptInv
    <3>2. ~Fresh
      BY <1>0 DEF Begins, Fresh, PageInv, In
    <3>3. u \in users
      BY <1>3, <2>1, <3>1, <3>2 DEF Begins, Joining, Known, In
    <3> QED
      BY <1>0, <1>1, <1>2, <1>b, <1>s, <3>1, <3>2, <3>3 DEF Known, Active, Hydrating, In
  <2> QED
    BY <1>0, <1>1, <1>3, <2>1 DEF KeptInv
<1>10. RestInv'
  BY <1>0, <1>1, <1>2, <1>3, <1>s DEF RestInv, Settling, Active, Agree, NoneElse, Hydrating, In
<1>11. SecretInv'
  BY <1>0, <1>1, <1>3 DEF SecretInv, HasSecret, InHand, Hydrating, In
<1> QED
  BY <1>4, <1>5, <1>6, <1>7, <1>8, <1>9, <1>10, <1>11 DEF IInv

LEMMA PersistBegins ==
  ASSUME IInv, NEW s \in Background, Idle(s), save' = [save EXCEPT ![s] = Begun],
         UNCHANGED <<stored, up, who, session, mem, op, package, kept, orphaned, failed>>,
         overtaken' = overtaken \cup Joining \cup (IF up THEN {} ELSE meta.users \cup users),
         edits' = edits, up \/ running, running' = TRUE => running = TRUE
  PROVE  IInv'
<1>1. TypeOK /\ MemoryInv
  BY DEF IInv
<1>2. Carries(Begun)
  BY <1>1, BegunType DEF Carries, MemoryInv
<1>3. Begins(s, Begun)
  BY <1>1, <1>2, BegunType DEF Begins, MemoryInv, TypeOK
<1> QED
  BY <1>3, BeginKeeps

LEMMA ChangeSettingKeeps == ASSUME IInv, NEW s \in Background, ChangeSetting(s) PROVE IInv'
BY PersistBegins DEF ChangeSetting, BeginSave

LEMMA EndRunKeeps == ASSUME IInv, NEW s \in Background, EndRun(s) PROVE IInv'
BY PersistBegins DEF EndRun, BeginSave

LEMMA ChangeItemKeeps == ASSUME IInv, NEW s \in Background, ChangeItem(s) PROVE IInv'
<1>0. TypeOK /\ MemoryInv /\ PageInv
  BY DEF IInv
<1>1. up /\ session # NoUser /\ op = NoOp /\ Idle(s) /\ edits \in Nat
  BY <1>0 DEF ChangeItem, TypeOK
<1>2. active \in User /\ session = active /\ active \in users
  BY <1>0, <1>1 DEF MemoryInv, TypeOK, Person
<1>3. mem' \in RecordSet /\ mem' \subseteq {active} \X Nat /\ edits' \in Nat
  BY <1>0, <1>1, <1>2 DEF ChangeItem, RecordSet, TypeOK, MemoryInv
<1> DEFINE x == [Begun EXCEPT !.records = mem']
<1>4. x \in SaveType /\ x.pc = "encrypt" /\ x.users = users /\ x.by = active /\ x.records = mem'
  BY <1>0, <1>1, <1>3, BegunType DEF SaveType, Begun
<1>5. save' = [save EXCEPT ![s] = x]
  BY DEF ChangeItem
<1> HIDE DEF x
<1>6. Carries(x)
  BY <1>2, <1>3, <1>4 DEF Carries
<1>7. Joining = {}
  BY <1>1 DEF Joining, NoOp
<1>8. Begins(s, x)
  BY <1>1, <1>3, <1>4, <1>5, <1>6, <1>7 DEF Begins, ChangeItem, aux
<1> QED
  BY <1>8, BeginKeeps

(* Beside the page: a run starts, the vault is locked, a backup is exported.*)
Aside ==
  /\ UNCHANGED <<meta, files, secrets, up, users, active, op, save, edits,
                 kept, overtaken, orphaned, failed>>
  /\ up
  /\ session' \in {NoUser, session} /\ mem' \in {{}, mem}
  /\ package' \in [User -> RecordSet]
  /\ \A u \in User : package'[u] \subseteq {u} \X Nat

LEMMA AsideKeeps == ASSUME IInv, Aside PROVE IInv'
<1>0. TypeOK /\ PageInv /\ MemoryInv /\ FilesInv /\ SaveInv /\ PersistInv /\ ListInv /\ KeptInv /\ RestInv /\ SecretInv
  BY DEF IInv
<1>1. /\ UNCHANGED <<meta, files, secrets, up, users, active, op, save, edits,
                     kept, overtaken, orphaned, failed>>
      /\ up
  BY DEF Aside
<1>2. TypeOK'
  BY <1>0, <1>1 DEF Aside, TypeOK, Person, RecordSet
<1>3. PageInv' /\ MemoryInv' /\ FilesInv'
  BY <1>0, <1>1, SMTT(30) DEF Aside, PageInv, MemoryInv, FilesInv, In
<1>4. SaveInv' /\ PersistInv'
  BY <1>0, <1>1 DEF SaveInv, PersistInv, Idle, Active, Hydrating
<1>5. ListInv' /\ RestInv' /\ SecretInv'
  BY <1>0, <1>1 DEF ListInv, Current, RestInv, SecretInv, In, Idle, BackgroundIdle, Active, Hydrating, Agree,
                    Settling, NoneElse, HasSecret, InHand
<1>6. KeptInv'
  BY <1>0, <1>1 DEF KeptInv, Known, Active, Hydrating
<1> QED
  BY <1>2, <1>3, <1>4, <1>5, <1>6 DEF IInv

LEMMA StartRunKeeps == ASSUME IInv, StartRun PROVE IInv'
<1>1. Aside
  BY DEF Aside, StartRun, stored, who, memory, counts, aux, IInv, TypeOK, FilesInv
<1> QED
  BY <1>1, AsideKeeps

LEMMA LockKeeps == ASSUME IInv, Lock PROVE IInv'
<1>1. Aside
  BY DEF Aside, Lock, Closed, stored, who, counts, aux, IInv, TypeOK, FilesInv
<1> QED
  BY <1>1, AsideKeeps

LEMMA ExportBackupKeeps == ASSUME IInv, ExportBackup PROVE IInv'
<1>0. TypeOK /\ MemoryInv /\ FilesInv
  BY DEF IInv
<1>1. session = active /\ mem \in RecordSet /\ mem \subseteq {session} \X Nat
  BY <1>0 DEF ExportBackup, MemoryInv, TypeOK
<1>2. /\ package' \in [User -> RecordSet]
      /\ \A u \in User : package'[u] \subseteq {u} \X Nat
  BY <1>0, <1>1 DEF ExportBackup, TypeOK, FilesInv
<1>3. Aside
  BY <1>2 DEF Aside, ExportBackup, stored, who, memory, aux
<1> QED
  BY <1>3, AsideKeeps

-----------------------------------------------------------------------------
(* The persist of the page: begun with a list, or over.                     *)
OthersStay == save' \in [Save -> SaveType] /\ \A t \in Background : save'[t] = save[t]

PageSaves(list) ==
  /\ OthersStay /\ Carries(save'[Page]) /\ save'[Page].pc \in {"encrypt", "store", "done"}
  /\ save'[Page].pc # "done" => save'[Page].users = list

PageQuiet == OthersStay /\ save'[Page] = NoSave

LEMMA PageSlot ==
  ASSUME TypeOK, NEW x \in SaveType, save' = [save EXCEPT ![Page] = x]
  PROVE  OthersStay /\ save'[Page] = x
<1>1. Page \in Save /\ Background \subseteq Save /\ Page \notin Background
  BY LocalUsersAssumption DEF Save
<1> QED
  BY <1>1, SlotTo DEF TypeOK, OthersStay

LEMMA PageBegins ==
  ASSUME TypeOK, MemoryInv, PagePersists
  PROVE  PageSaves(users)
<1>1. Begun \in SaveType /\ Begun.pc = "encrypt" /\ Begun.users = users /\ Carries(Begun)
  BY BegunType DEF Carries, MemoryInv
<1> QED
  BY <1>1, PageSlot DEF PagePersists, PageSaves

LEMMA PageStores ==
  ASSUME TypeOK, NEW list \in SUBSET User,
         save' = [save EXCEPT ![Page] = [NoSave EXCEPT !.pc = "store", !.users = list]]
  PROVE  PageSaves(list)
<1> DEFINE x == [NoSave EXCEPT !.pc = "store", !.users = list]
<1>1. x \in SaveType /\ x.pc = "store" /\ x.users = list /\ x.records = {}
  BY DEF NoSave, SaveType, SavePlaces, RecordSet, Person
<1>2. save' = [save EXCEPT ![Page] = x]
  OBVIOUS
<1> HIDE DEF x
<1> QED
  BY <1>1, <1>2, PageSlot DEF PageSaves, Carries

LEMMA PageSkips ==
  ASSUME TypeOK, SaveInv, Idle(Page), save' = [save EXCEPT ![Page].pc = "done"]
  PROVE  PageSaves({})
<1> DEFINE x == [save[Page] EXCEPT !.pc = "done"]
<1>1. save[Page] \in SaveType
  BY Fields DEF Save
<1>2. x \in SaveType /\ x.pc = "done"
  BY <1>1 DEF SaveType, SavePlaces
<1>3. save' = [save EXCEPT ![Page] = x]
  OBVIOUS
<1> HIDE DEF x
<1> QED
  BY <1>2, <1>3, PageSlot DEF PageSaves, Carries

LEMMA PageIsOver ==
  ASSUME TypeOK, PageSaveOver
  PROVE  PageQuiet
BY NoSaveType, PageSlot DEF PageSaveOver, PageQuiet

LEMMA SavesKept ==
  ASSUME SaveInv, OthersStay, Carries(save'[Page])
  PROVE  SaveInv'
BY DEF SaveInv, OthersStay, Save, Idle, Active

LEMMA QuietCarries == Carries(NoSave)
BY NoSaveType DEF Carries

(* What the page does between two changes of the list.                      *)
PageMove ==
  /\ UNCHANGED <<meta, files, up, users, running, kept, overtaken, edits>>
  /\ OthersStay
  /\ op' \in OpType
  /\ failed => failed'
  /\ up /\ op'.kind # "hydrate" /\ op.pc # "adopt" /\ op'.pc # "adopt"
  /\ Active(Page)' => save'[Page].users = users
  /\ Settling => Settling' \/ failed'
  /\ \A u \in User \ (overtaken \cup orphaned') : HasSecret(u)' =>
       \/ InHand(u)' \/ files[u].there
       \/ u \notin orphaned /\ HasSecret(u) /\ ~InHand(u)

LEMMA PageMoveKeeps ==
  ASSUME IInv, PageMove
  PROVE  ListInv' /\ KeptInv' /\ RestInv' /\ SecretInv'
<1>0. TypeOK /\ PageInv /\ SaveInv /\ PersistInv /\ ListInv /\ KeptInv /\ RestInv /\ SecretInv
  BY DEF IInv
<1>1. UNCHANGED <<meta, files, up, users, running, kept, overtaken>>
  BY DEF PageMove
<1>2. up /\ op.kind # "hydrate" /\ op'.kind # "hydrate" /\ op.pc # "adopt" /\ op'.pc # "adopt"
  BY <1>0 DEF PageMove, PageInv
<1>3. \A t \in Background : save'[t] = save[t]
  BY DEF PageMove, OthersStay
<1>4. ListInv'
  BY <1>0, <1>1, <1>2, <1>3 DEF ListInv, Current, Hydrating, Active, Agree
<1>5. ASSUME NEW u \in User, u \notin overtaken, kept[u] # {} PROVE Known(u)'
  <2>1. Known(u) /\ u \in users
    BY <1>0, <1>2, <1>5 DEF KeptInv, Known
  <2>2. ASSUME NEW s \in Save, Active(s)' PROVE u \in save'[s].users
    <3>1. CASE s = Page
      BY <2>1, <2>2, <3>1 DEF PageMove
    <3>2. CASE s \in Background
      BY <1>3, <2>1, <2>2, <3>2 DEF Known, Active, Save
    <3> QED
      BY <3>1, <3>2 DEF Save
  <2> QED
    BY <1>1, <1>2, <2>1, <2>2 DEF Known, Hydrating
<1>6. KeptInv'
  BY <1>0, <1>1, <1>5 DEF KeptInv
<1>7. RestInv'
  BY <1>0, <1>1, <1>2 DEF PageMove, RestInv, Hydrating, Agree, NoneElse
<1>8. SecretInv'
  BY <1>0, <1>1 DEF PageMove, SecretInv
<1> QED
  BY <1>4, <1>6, <1>7, <1>8

LEMMA PageStep ==
  ASSUME IInv, PageMove,
         secrets' \in SUBSET (User \X Secret), active' \in Person, session' \in Person,
         mem' \in RecordSet, package' = package, orphaned' \in SUBSET User,
         PageInv', MemoryInv', Carries(save'[Page]), PersistInv'
  PROVE  IInv'
<1>1. TypeOK /\ FilesInv /\ SaveInv
  BY DEF IInv
<1>2. TypeOK'
  BY <1>1 DEF TypeOK, PageMove, OthersStay
<1>3. FilesInv'
  BY <1>1 DEF FilesInv, PageMove
<1>4. SaveInv'
  BY <1>1, SavesKept DEF PageMove
<1> QED
  BY <1>2, <1>3, <1>4, PageMoveKeeps DEF IInv

(* An operation is chosen while the page rests.                             *)
LEMMA Chosen ==
  ASSUME IInv, NEW kind \in Kinds, NEW u \in User, NEW p \in Places, Choose(kind, u, p)
  PROVE  /\ op' \in OpType /\ op'.kind = kind /\ op'.user = u /\ op'.pc = p
         /\ op = NoOp /\ up /\ UNCHANGED package /\ edits' = edits
         /\ op.kind = "none" /\ op.pc = "idle" /\ Idle(Page)
<1>1. op = NoOp /\ up /\ UNCHANGED package /\ edits' = edits
      /\ op' = [kind |-> kind, user |-> u, pc |-> p]
  BY DEF Choose
<1>2. op.kind = "none" /\ op.pc = "idle"
  BY <1>1 DEF NoOp
<1>3. Idle(Page)
  BY <1>2 DEF IInv, PersistInv, Hydrating
<1> QED
  BY <1>1, <1>2, <1>3, OpMade DEF Person

(* Leaving, switching: whatever is open is saved first.                     *)
LEMMA BeforeKeeps ==
  ASSUME IInv, NEW kind \in {"restore", "create", "switch"}, NEW u \in User,
         Choose(kind, u, "before"), kind = "switch" => u \in users,
         IF unlocked THEN PagePersists ELSE save' = [save EXCEPT ![Page].pc = "done"],
         UNCHANGED <<stored, up, who, memory, running, aux, package>>
  PROVE  IInv'
<1>0. TypeOK /\ PageInv /\ MemoryInv /\ SaveInv /\ PersistInv
  BY DEF IInv
<1>1. /\ op' \in OpType /\ op'.kind = kind /\ op'.user = u /\ op'.pc = "before"
      /\ up /\ op.kind = "none" /\ op.pc = "idle" /\ Idle(Page) /\ edits' = edits
  BY Chosen DEF Kinds, Places
<1>2. UNCHANGED <<meta, files, secrets, up, users, active, session, mem, running, package,
                  kept, overtaken, orphaned, failed>>
  BY DEF stored, who, memory, aux
<1>3. PageSaves(users) \/ PageSaves({})
  BY <1>0, <1>1, PageBegins, PageSkips
<1>4. /\ OthersStay /\ Carries(save'[Page]) /\ save'[Page].pc \in {"encrypt", "store", "done"}
      /\ save'[Page].pc # "done" => save'[Page].users = users
  <2>1. CASE unlocked
    BY <1>0, <2>1, PageBegins DEF PageSaves
  <2>2. CASE ~unlocked
    <3>1. PageSaves({}) /\ save'[Page].pc = "done"
      BY <1>0, <1>1, <2>2, PageSkips, LocalUsersAssumption DEF TypeOK, Save, SaveType
    <3> QED
      BY <3>1 DEF PageSaves
  <2> QED
    BY <2>1, <2>2
<1>5. PageInv'
  BY <1>0, <1>1, <1>2 DEF PageInv, In
<1>6. MemoryInv'
  BY <1>0, <1>2 DEF MemoryInv
<1>7. PersistInv'
  BY <1>0, <1>1, <1>2, <1>4 DEF PersistInv, Idle, Active, Hydrating
<1>8. PageMove
  BY <1>0, <1>1, <1>2, <1>4 DEF PageMove, Active, Settling, In, HasSecret, InHand, Hydrating
<1> QED
  BY <1>0, <1>2, <1>4, <1>5, <1>6, <1>7, <1>8, PageStep DEF TypeOK

LEMMA AddKeeps ==
  ASSUME IInv, NEW kind \in {"restore", "create"}, NEW u \in User, Add(kind, u) PROVE IInv'
BY BeforeKeeps DEF Add

LEMMA SwitchKeeps == ASSUME IInv, NEW u \in User, Switch(u) PROVE IInv'
BY BeforeKeeps DEF Switch

LEMMA SavedBeforeKeeps == ASSUME IInv, SavedBefore PROVE IInv'
<1>0. TypeOK /\ PageInv /\ MemoryInv /\ SaveInv /\ PersistInv
  BY DEF IInv
<1>1. op.kind \in {"restore", "create"} /\ op.pc = "before" /\ op.user \in User /\ up
      /\ save[Page].pc \in {"done", "failed"}
  BY <1>0 DEF SavedBefore, PageSaveEnded, PageInv, In, NoOp
<1>2. UNCHANGED <<meta, files, secrets, up, users, active, session, mem, running, package, edits,
                  kept, overtaken, orphaned, failed>>
  BY DEF SavedBefore, stored, who, memory, aux, counts
<1>3. PageQuiet
  BY <1>0, PageIsOver DEF SavedBefore
<1>4. /\ op' \in OpType
      /\ \/ op' = NoOp /\ op'.kind = "none" /\ op'.pc = "idle"
         \/ /\ op'.user = op.user /\ op'.kind = op.kind
            /\ op'.pc = (IF op.kind = "create" THEN "join" ELSE "secrets")
  BY <1>0, <1>1, OpAt, OpDone DEF SavedBefore, Done, TypeOK, Places
<1>5. PageInv'
  BY <1>0, <1>1, <1>2, <1>4 DEF PageInv, In
<1>6. MemoryInv'
  BY <1>0, <1>2 DEF MemoryInv
<1>7. save'[Page].pc = "idle" /\ OthersStay /\ Carries(save'[Page])
  BY <1>3, QuietCarries, NoSaveType DEF PageQuiet
<1>8. PersistInv'
  BY <1>1, <1>4, <1>7 DEF PersistInv, Idle, Active, Hydrating
<1>9. PageMove
  BY <1>1, <1>2, <1>4, <1>7 DEF PageMove, Active, Settling, In, HasSecret, InHand, Hydrating
<1> QED
  BY <1>0, <1>2, <1>5, <1>6, <1>7, <1>8, <1>9, PageStep DEF TypeOK

(* Where the page is says what it does.                                     *)
LEMMA PageAt ==
  ASSUME IInv, op.pc \notin {"idle", "load", "store"} \/ op.kind \notin {"none", "hydrate"}
  PROVE  /\ up /\ op.user \in User /\ op.kind \notin {"none", "hydrate"} /\ op.pc \notin {"idle", "store"}
         /\ op.pc \in {"secrets", "join", "enter"} => op.kind \in {"restore", "create"}
         /\ op.pc \in {"token", "records"} => op.kind = "restore"
         /\ op.pc \in {"forget", "leave"} => op.kind = "remove"
         /\ op.pc = "load" => op.kind = "unlock"
         /\ op.pc = "adopt" => op.kind = "backup"
         /\ Idle(Page) <=> op.pc \notin {"before", "saving"}
         /\ ~Hydrating
BY DEF IInv, PageInv, In, NoOp, PersistInv, Hydrating

LEMMA PageStill ==
  ASSUME IInv, UNCHANGED save
  PROVE  OthersStay /\ Carries(save'[Page]) /\ (Idle(Page) => Idle(Page)')
BY DEF IInv, TypeOK, SaveInv, OthersStay, Save, Idle

LEMMA GiveUpKeeps == ASSUME IInv, GiveUp PROVE IInv'
<1>0. TypeOK /\ PageInv /\ MemoryInv /\ PersistInv
  BY DEF IInv
<1>1. op.kind = "restore" /\ op.pc = "secrets" /\ up /\ Idle(Page)
  BY PageAt DEF GiveUp
<1>2. UNCHANGED <<meta, files, secrets, up, users, active, session, mem, running, package, edits, save,
                  kept, overtaken, orphaned, failed>>
  BY DEF GiveUp, stored, who, memory, aux, counts
<1>3. OthersStay /\ Carries(save'[Page]) /\ Idle(Page)'
  BY <1>1, <1>2, PageStill
<1>4. op' = NoOp /\ op' \in OpType /\ op'.kind = "none" /\ op'.pc = "idle"
  BY OpDone DEF GiveUp, Done
<1>5. PageInv'
  BY <1>1, <1>4, <1>2 DEF PageInv, In
<1>6. MemoryInv' /\ PersistInv'
  BY <1>0, <1>2, <1>3, <1>4 DEF MemoryInv, PersistInv, Idle, Active, Hydrating
<1>7. PageMove
  BY <1>1, <1>2, <1>3, <1>4 DEF PageMove, Active, Idle, Settling, In, HasSecret, InHand, Hydrating
<1> QED
  BY <1>0, <1>2, <1>3, <1>5, <1>6, <1>7, PageStep DEF TypeOK

LEMMA SaveSecretKeeps == ASSUME IInv, SaveSecret PROVE IInv'
<1>0. TypeOK /\ PageInv /\ MemoryInv /\ PersistInv
  BY DEF IInv
<1>1. op.pc \in {"secrets", "token"} /\ op.kind \in {"restore", "create"} /\ up /\ Idle(Page)
      /\ op.user \in User /\ (op.kind = "create" => op.user \in users /\ op.pc = "secrets")
  BY <1>0, PageAt DEF SaveSecret, PageInv, In
<1>2. UNCHANGED <<meta, files, up, users, active, session, mem, running, package, edits,
                  kept, overtaken, orphaned, failed>>
  BY DEF SaveSecret, who, memory, aux, counts
<1>3. /\ secrets' \in SUBSET (User \X Secret)
      /\ \A u \in User : u # op.user /\ HasSecret(u)' => HasSecret(u)
  BY <1>0, <1>1 DEF SaveSecret, WithSecret, Secret, SecretsOf, HasSecret, TypeOK
<1>4. /\ op' \in OpType /\ op'.kind = op.kind /\ op'.user = op.user
      /\ op'.pc = (IF op.kind = "create" THEN "saving" ELSE IF op.pc = "token" THEN "join" ELSE "token")
  BY <1>0, OpAt DEF SaveSecret, TypeOK, Places
<1>5. /\ OthersStay /\ Carries(save'[Page])
      /\ op.kind = "create" => save'[Page].pc \in {"encrypt", "store"} /\ save'[Page].users = users
      /\ op.kind # "create" => Idle(Page)'
  <2>1. CASE op.kind = "create"
    <3>1. PagePersists /\ Begun.pc = "encrypt" /\ Begun \in SaveType
      BY <1>0, <2>1, BegunType DEF SaveSecret
    <3>2. save'[Page] = Begun
      BY <1>0, <3>1, PageSlot DEF PagePersists
    <3> QED
      BY <1>0, <2>1, <3>1, <3>2, PageBegins DEF PageSaves
  <2>2. CASE op.kind # "create"
    BY <1>1, <2>2, PageStill DEF SaveSecret
  <2> QED
    BY <2>1, <2>2
<1>6. PageInv'
  BY <1>0, <1>1, <1>2, <1>4 DEF PageInv, In
<1>7. MemoryInv' /\ PersistInv'
  BY <1>0, <1>1, <1>2, <1>4, <1>5 DEF MemoryInv, PersistInv, Idle, Active, Hydrating
<1>8. PageMove
  BY <1>1, <1>2, <1>3, <1>4, <1>5 DEF PageMove, Active, Idle, Settling, In, InHand, Hydrating
<1> QED
  BY <1>0, <1>2, <1>3, <1>5, <1>6, <1>7, <1>8, PageStep DEF TypeOK

LEMMA FailSecretKeeps == ASSUME IInv, FailSecret PROVE IInv'
<1>0. TypeOK /\ PageInv /\ MemoryInv /\ PersistInv
  BY DEF IInv
<1>1. op.pc \in {"secrets", "token"} /\ op.kind \in {"restore", "create"} /\ up /\ Idle(Page)
      /\ op.user \in User /\ (op.kind = "create" => op.user \in users /\ op.pc = "secrets")
  BY <1>0, PageAt DEF FailSecret, PageInv, In
<1>2. UNCHANGED <<meta, files, secrets, up, users, active, session, mem, running, package, edits,
                  kept, overtaken, failed>>
  BY DEF FailSecret, stored, who, memory
<1>3. orphaned' \in SUBSET User /\ orphaned \subseteq orphaned'
      /\ (op.kind = "create" => orphaned' = orphaned)
      /\ (op.kind # "create" => \A u \in User \ orphaned' : u = op.user => files[u].there)
  BY <1>0, <1>1, LocalUsersAssumption DEF FailSecret, Orphans, TypeOK, Person
<1>4. /\ op' \in OpType
      /\ op.kind = "create" => op'.kind = op.kind /\ op'.user = op.user /\ op'.pc = "saving"
      /\ op.kind # "create" => op' = NoOp /\ op'.kind = "none" /\ op'.pc = "idle"
  BY <1>0, OpAt, OpDone DEF FailSecret, Done, TypeOK, Places
<1>5. /\ OthersStay /\ Carries(save'[Page])
      /\ op.kind = "create" => save'[Page].pc \in {"encrypt", "store"} /\ save'[Page].users = users
      /\ op.kind # "create" => Idle(Page)'
  <2>1. CASE op.kind = "create"
    <3>1. PagePersists /\ Begun.pc = "encrypt" /\ Begun \in SaveType
      BY <1>0, <2>1, BegunType DEF FailSecret
    <3>2. save'[Page] = Begun
      BY <1>0, <3>1, PageSlot DEF PagePersists
    <3> QED
      BY <1>0, <2>1, <3>1, <3>2, PageBegins DEF PageSaves
  <2>2. CASE op.kind # "create"
    BY <1>1, <2>2, PageStill DEF FailSecret
  <2> QED
    BY <2>1, <2>2
<1>6. PageInv'
  BY <1>0, <1>1, <1>2, <1>4 DEF PageInv, In
<1>7. MemoryInv' /\ PersistInv'
  BY <1>0, <1>1, <1>2, <1>4, <1>5 DEF MemoryInv, PersistInv, Idle, Active, Hydrating
<1>8. PageMove
  BY <1>1, <1>2, <1>3, <1>4, <1>5 DEF PageMove, Active, Idle, Settling, In, HasSecret, InHand, Hydrating
<1> QED
  BY <1>0, <1>2, <1>3, <1>5, <1>6, <1>7, <1>8, PageStep DEF TypeOK

LEMMA EnterKeeps == ASSUME IInv, Enter PROVE IInv'
<1>0. TypeOK /\ PageInv /\ MemoryInv /\ PersistInv
  BY DEF IInv
<1>1. op.pc = "enter" /\ op.kind \in {"restore", "create"} /\ up /\ Idle(Page)
      /\ op.user \in User /\ op.user \in users
  BY <1>0, PageAt DEF Enter, PageInv
<1>2. UNCHANGED <<meta, files, secrets, up, users, running, package, edits, save,
                  kept, overtaken, orphaned, failed>>
  BY DEF Enter, stored, aux, counts
<1>3. /\ active' = op.user /\ session' = op.user
      /\ mem' \in RecordSet /\ mem' \subseteq {op.user} \X Nat
  BY <1>1 DEF Enter, FirstRecords, RecordSet
<1>4. /\ op' \in OpType /\ op'.kind = op.kind /\ op'.user = op.user
      /\ op'.pc = (IF op.kind = "create" THEN "secrets" ELSE "records")
  BY <1>0, OpAt DEF Enter, TypeOK, Places
<1>5. OthersStay /\ Carries(save'[Page]) /\ Idle(Page)'
  BY <1>1, <1>2, PageStill
<1>6. PageInv'
  BY <1>0, <1>1, <1>2, <1>4 DEF PageInv, In
<1>7. MemoryInv' /\ PersistInv'
  BY <1>0, <1>1, <1>2, <1>3, <1>4, <1>5 DEF MemoryInv, PersistInv, Idle, Active, Hydrating
<1>8. PageMove
  BY <1>1, <1>2, <1>3, <1>4, <1>5 DEF PageMove, Active, Idle, Settling, In, HasSecret, InHand, Hydrating
<1> QED
  BY <1>0, <1>1, <1>2, <1>3, <1>5, <1>6, <1>7, <1>8, PageStep DEF TypeOK, Person

LEMMA FailRecordsKeeps == ASSUME IInv, FailRecords PROVE IInv'
<1>0. TypeOK /\ PageInv /\ MemoryInv /\ PersistInv
  BY DEF IInv
<1>1. op.pc = "records" /\ op.kind = "restore" /\ up /\ Idle(Page)
  BY <1>0, PageAt DEF FailRecords
<1>2. UNCHANGED <<meta, files, secrets, up, users, active, session, mem, running, package, edits, save,
                  kept, overtaken, orphaned>>
      /\ failed' = TRUE
  BY DEF FailRecords, stored, who, memory
<1>3. OthersStay /\ Carries(save'[Page]) /\ Idle(Page)'
  BY <1>1, <1>2, PageStill
<1>4. op' = NoOp /\ op' \in OpType /\ op'.kind = "none" /\ op'.pc = "idle"
  BY OpDone DEF FailRecords, Done
<1>5. PageInv'
  BY <1>1, <1>4, <1>2 DEF PageInv, In
<1>6. MemoryInv' /\ PersistInv'
  BY <1>0, <1>2, <1>3, <1>4 DEF MemoryInv, PersistInv, Idle, Active, Hydrating
<1>7. PageMove
  BY <1>1, <1>2, <1>3, <1>4 DEF PageMove, Active, Idle, Settling, In, HasSecret, InHand, Hydrating
<1> QED
  BY <1>0, <1>2, <1>3, <1>5, <1>6, <1>7, PageStep DEF TypeOK

LEMMA RemoveKeeps == ASSUME IInv, Remove PROVE IInv'
<1>0. TypeOK /\ PageInv /\ MemoryInv /\ PersistInv
  BY DEF IInv
<1>1. active \in User /\ active \in users
  BY <1>0 DEF Remove, TypeOK, Person, MemoryInv
<1>2. UNCHANGED <<meta, files, secrets, up, users, active, session, mem, running, package, save,
                  kept, overtaken, orphaned, failed>>
  BY DEF Remove, stored, who, memory, aux
<1>3. /\ op' \in OpType /\ op'.kind = "remove" /\ op'.user = active /\ op'.pc = "forget"
      /\ up /\ op.kind = "none" /\ op.pc = "idle" /\ Idle(Page) /\ edits' = edits
  BY <1>1, Chosen DEF Remove, Kinds, Places
<1>4. OthersStay /\ Carries(save'[Page]) /\ Idle(Page)'
  BY <1>2, <1>3, PageStill
<1>5. PageInv'
  BY <1>0, <1>1, <1>2, <1>3 DEF PageInv, In
<1>6. MemoryInv' /\ PersistInv'
  BY <1>0, <1>2, <1>3, <1>4 DEF MemoryInv, PersistInv, Idle, Active, Hydrating
<1>7. PageMove
  BY <1>1, <1>2, <1>3, <1>4 DEF PageMove, Active, Idle, Settling, In, HasSecret, InHand, Hydrating
<1> QED
  BY <1>0, <1>2, <1>4, <1>5, <1>6, <1>7, PageStep DEF TypeOK

LEMMA ForgetKeeps == ASSUME IInv, Forget PROVE IInv'
<1>0. TypeOK /\ PageInv /\ MemoryInv /\ PersistInv
  BY DEF IInv
<1>1. op.pc = "forget" /\ op.kind = "remove" /\ up /\ Idle(Page) /\ op.user \in User
  BY <1>0, PageAt DEF Forget
<1>2. UNCHANGED <<meta, files, up, users, active, session, mem, running, package, edits, save,
                  kept, overtaken, orphaned, failed>>
  BY DEF Forget, who, memory, counts, aux
<1>3. /\ secrets' \in SUBSET (User \X Secret) /\ secrets' \cap SecretsOf({op.user}) = {}
      /\ \A u \in User : HasSecret(u)' => HasSecret(u)
  BY <1>0 DEF Forget, SecretsForgotten, HasSecret, TypeOK
<1>4. op' \in OpType /\ op'.kind = op.kind /\ op'.user = op.user /\ op'.pc = "leave"
  BY <1>0, OpAt DEF Forget, TypeOK, Places
<1>5. OthersStay /\ Carries(save'[Page]) /\ Idle(Page)'
  BY <1>1, <1>2, PageStill
<1>6. PageInv'
  <2>1. (secrets \cap SecretsOf({op.user}))' = {}
    BY <1>3, <1>4 DEF SecretsOf, Secret
  <2> QED
    BY <1>1, <1>2, <1>4, <2>1 DEF PageInv, In
<1>7. MemoryInv' /\ PersistInv'
  BY <1>0, <1>1, <1>2, <1>4, <1>5 DEF MemoryInv, PersistInv, Idle, Active, Hydrating
<1>8. PageMove
  BY <1>1, <1>2, <1>3, <1>4, <1>5 DEF PageMove, Active, Idle, Settling, In, InHand, Hydrating
<1> QED
  BY <1>0, <1>2, <1>3, <1>5, <1>6, <1>7, <1>8, PageStep DEF TypeOK

LEMMA FailForgetKeeps == ASSUME IInv, FailForget PROVE IInv'
<1>0. TypeOK /\ PageInv /\ MemoryInv /\ PersistInv
  BY DEF IInv
<1>1. op.pc = "forget" /\ op.kind = "remove" /\ up /\ Idle(Page)
  BY <1>0, PageAt DEF FailForget
<1>2. UNCHANGED <<meta, files, up, users, active, session, mem, running, package, edits, save,
                  kept, overtaken, orphaned, failed>>
  BY DEF FailForget, who, memory, aux
<1>3. /\ secrets' \in SUBSET (User \X Secret)
      /\ \A u \in User : HasSecret(u)' => HasSecret(u)
  BY <1>0 DEF FailForget, HasSecret, TypeOK
<1>4. op' = NoOp /\ op' \in OpType /\ op'.kind = "none" /\ op'.pc = "idle"
  BY OpDone DEF FailForget, Done
<1>5. OthersStay /\ Carries(save'[Page]) /\ Idle(Page)'
  BY <1>1, <1>2, PageStill
<1>6. PageInv'
  BY <1>1, <1>2, <1>4 DEF PageInv, In
<1>7. MemoryInv' /\ PersistInv'
  BY <1>0, <1>1, <1>2, <1>4, <1>5 DEF MemoryInv, PersistInv, Idle, Active, Hydrating
<1>8. PageMove
  BY <1>1, <1>2, <1>3, <1>4, <1>5 DEF PageMove, Active, Idle, Settling, In, InHand, Hydrating
<1> QED
  BY <1>0, <1>2, <1>3, <1>5, <1>6, <1>7, <1>8, PageStep DEF TypeOK

LEMMA SwitchedKeeps == ASSUME IInv, Switched PROVE IInv'
<1>0. TypeOK /\ PageInv /\ MemoryInv /\ PersistInv
  BY DEF IInv
<1>1. op.kind = "switch" /\ op.pc = "before" /\ up /\ op.user \in User /\ op.user \in users
  BY <1>0, PageAt DEF Switched, PageInv, In
<1>2. UNCHANGED <<meta, files, secrets, up, users, running, package, edits,
                  kept, overtaken, orphaned, failed>>
  BY DEF Switched, stored, counts, aux
<1>3. active' = op.user /\ session' = NoUser /\ mem' = {}
  BY DEF Switched, Closed
<1>4. op' \in OpType /\ op'.kind = op.kind /\ op'.user = op.user /\ op'.pc = "saving"
  BY <1>0, OpAt DEF Switched, TypeOK, Places
<1>5. PageSaves(users) /\ save'[Page].pc = "store"
  <2>1. save' = [save EXCEPT ![Page] = [NoSave EXCEPT !.pc = "store", !.users = users]]
    BY DEF Switched
  <2>2. save'[Page] = [NoSave EXCEPT !.pc = "store", !.users = users]
    BY <1>0, <2>1 DEF TypeOK, Save
  <2> QED
    BY <1>0, <2>1, <2>2, PageStores DEF TypeOK, NoSave
<1>6. PageInv'
  BY <1>0, <1>1, <1>2, <1>3, <1>4 DEF PageInv, In
<1>7. MemoryInv' /\ PersistInv'
  BY <1>0, <1>1, <1>2, <1>3, <1>4, <1>5 DEF PageSaves, MemoryInv, PersistInv, Idle, Active, Hydrating
<1>8. PageMove
  BY <1>1, <1>2, <1>3, <1>4, <1>5 DEF PageSaves, PageMove, Active, Idle, Settling, In, HasSecret, InHand, Hydrating
<1>9. active' \in Person /\ session' \in Person /\ mem' \in RecordSet
  BY <1>1, <1>3 DEF Person, RecordSet
<1> QED
  BY <1>0, <1>2, <1>5, <1>6, <1>7, <1>8, <1>9, PageStep DEF PageSaves, TypeOK

LEMMA UnlockKeeps == ASSUME IInv, Unlock PROVE IInv'
<1>0. TypeOK /\ PageInv /\ MemoryInv /\ PersistInv
  BY DEF IInv
<1>1. active \in User /\ active \in users
  BY <1>0 DEF Unlock, TypeOK, Person, MemoryInv
<1>2. UNCHANGED <<meta, files, secrets, up, users, active, mem, running, package, save,
                  kept, overtaken, orphaned, failed>>
      /\ session' = active
  BY DEF Unlock, stored, who, aux
<1>3. /\ op' \in OpType /\ op'.kind = "unlock" /\ op'.user = active /\ op'.pc = "load"
      /\ up /\ op.kind = "none" /\ op.pc = "idle" /\ Idle(Page) /\ edits' = edits
  BY <1>1, Chosen DEF Unlock, Kinds, Places
<1>4. OthersStay /\ Carries(save'[Page]) /\ Idle(Page)'
  BY <1>2, <1>3, PageStill
<1>5. PageInv'
  BY <1>0, <1>1, <1>2, <1>3 DEF PageInv, In
<1>6. MemoryInv' /\ PersistInv'
  BY <1>0, <1>2, <1>3, <1>4 DEF MemoryInv, PersistInv, Idle, Active, Hydrating
<1>7. PageMove
  BY <1>1, <1>2, <1>3, <1>4 DEF PageMove, Active, Idle, Settling, In, HasSecret, InHand, Hydrating
<1> QED
  BY <1>0, <1>2, <1>4, <1>5, <1>6, <1>7, PageStep DEF TypeOK

LEMMA LoadKeeps == ASSUME IInv, Load PROVE IInv'
<1>0. TypeOK /\ PageInv /\ MemoryInv /\ PersistInv /\ FilesInv
  BY DEF IInv
<1>1. op.kind = "unlock" /\ op.pc = "load" /\ up /\ op.user \in User /\ Idle(Page)
  BY <1>0, PageAt DEF Load
<1>2. UNCHANGED <<meta, files, secrets, up, users, active, running, package, edits,
                  kept, overtaken, orphaned, failed>>
  BY DEF Load, stored, who, counts, aux
<1>3. CASE session = op.user
  <2>1. active = op.user /\ active \in users /\ session # NoUser
    BY <1>0, <1>1, <1>3, LocalUsersAssumption DEF MemoryInv
  <2>2. UNCHANGED session /\ mem' \in RecordSet /\ mem' \subseteq {active} \X Nat /\ At("saving")
    BY <1>0, <1>1, <1>3, <2>1, Fields DEF Load, FilesInv, RecordsOf
  <2>3. op' \in OpType /\ op'.kind = op.kind /\ op'.user = op.user /\ op'.pc = "saving"
    BY <1>0, <2>2, OpAt DEF TypeOK, Places
  <2> DEFINE x == [Begun EXCEPT !.records = mem']
  <2>4. x \in SaveType /\ x.pc = "encrypt" /\ x.users = users /\ x.by = active /\ x.records = mem'
    BY <1>0, <2>1, <2>2, BegunType DEF SaveType, Begun
  <2>5. save' = [save EXCEPT ![Page] = x]
    BY <1>3 DEF Load
  <2> HIDE DEF x
  <2>6. OthersStay /\ save'[Page] = x /\ Carries(save'[Page])
    BY <1>0, <2>1, <2>2, <2>4, <2>5, PageSlot DEF Carries
  <2>7. PageInv'
    BY <1>0, <1>1, <1>2, <2>2, <2>3 DEF PageInv, In
  <2>8. MemoryInv' /\ PersistInv'
    BY <1>0, <1>1, <1>2, <2>2, <2>3, <2>4, <2>6 DEF MemoryInv, PersistInv, Idle, Active, Hydrating
  <2>9. PageMove
    BY <1>1, <1>2, <2>3, <2>4, <2>6 DEF PageMove, Active, Idle, Settling, In, HasSecret, InHand, Hydrating
  <2> QED
    BY <1>0, <1>2, <2>2, <2>6, <2>7, <2>8, <2>9, PageStep DEF TypeOK
<1>4. CASE session # op.user
  <2>1. session' = NoUser /\ mem' = {} /\ UNCHANGED save
    BY <1>4 DEF Load, Closed
  <2>2. op' = NoOp /\ op' \in OpType /\ op'.kind = "none" /\ op'.pc = "idle"
    BY <1>4, OpDone DEF Load, Done
  <2>3. OthersStay /\ Carries(save'[Page]) /\ Idle(Page)'
    BY <1>1, <2>1, PageStill
  <2>4. PageInv'
    BY <1>1, <1>2, <2>2 DEF PageInv, In
  <2>5. MemoryInv' /\ PersistInv'
    BY <1>0, <1>1, <1>2, <2>1, <2>2, <2>3 DEF MemoryInv, PersistInv, Idle, Active, Hydrating
  <2>6. PageMove
    BY <1>1, <1>2, <2>2, <2>3 DEF PageMove, Active, Idle, Settling, In, HasSecret, InHand, Hydrating
  <2>7. session' \in Person /\ mem' \in RecordSet
    BY <2>1 DEF Person, RecordSet
  <2> QED
    BY <1>0, <1>2, <2>3, <2>4, <2>5, <2>6, <2>7, PageStep DEF TypeOK
<1> QED
  BY <1>3, <1>4

-----------------------------------------------------------------------------
(* The page changes who is on the list, or who has records.                 *)
LEMMA OvertakenGrows ==
  ASSUME TypeOK, NEW us \in SUBSET User
  PROVE  /\ Overtaken(us) \in SUBSET User /\ overtaken \subseteq Overtaken(us)
         /\ ~BackgroundIdle => us \subseteq Overtaken(us)
BY DEF Overtaken, TypeOK

LEMMA JoinKeeps == ASSUME IInv, Join PROVE IInv'
<1>0. TypeOK /\ PageInv /\ MemoryInv /\ FilesInv /\ SaveInv /\ PersistInv /\ ListInv /\ KeptInv /\ RestInv /\ SecretInv
  BY DEF IInv
<1>1. op.pc = "join" /\ op.kind \in {"restore", "create"} /\ up /\ op.user \in User /\ Idle(Page) /\ ~Hydrating
  BY PageAt DEF Join
<1>2. /\ UNCHANGED <<meta, files, secrets, up, active, mem, save, running, package, edits, orphaned, failed>>
      /\ users' = users \cup {op.user} /\ session' = NoUser /\ overtaken' = Overtaken({op.user})
      /\ kept' = [kept EXCEPT ![op.user] = {}]
  BY DEF Join, stored, counts
<1>3. overtaken' \in SUBSET User /\ overtaken \subseteq overtaken'
      /\ (~BackgroundIdle => op.user \in overtaken')
  BY <1>0, <1>1, <1>2, OvertakenGrows
<1>4. op' \in OpType /\ op'.kind = op.kind /\ op'.user = op.user /\ op'.pc = "enter"
  BY <1>0, OpAt DEF Join, TypeOK, Places
<1>5. kept' \in [User -> RecordSet] /\ kept'[op.user] = {}
      /\ \A u \in User : u # op.user => kept'[u] = kept[u]
  BY <1>0, <1>1, <1>2 DEF TypeOK, RecordSet
<1>6. TypeOK'
  BY <1>0, <1>1, <1>2, <1>3, <1>4, <1>5 DEF TypeOK, Person
<1>7. PageInv' /\ MemoryInv' /\ FilesInv'
  BY <1>0, <1>1, <1>2, <1>4 DEF PageInv, MemoryInv, FilesInv, In
<1>8. SaveInv' /\ PersistInv'
  BY <1>0, <1>1, <1>2, <1>4 DEF SaveInv, PersistInv, Idle, Active, Hydrating
<1>9. ListInv'
  BY <1>0, <1>1, <1>2, <1>3, <1>4 DEF ListInv, Current, Hydrating, Active, Agree, BackgroundIdle, Idle
<1>10. ASSUME NEW u \in User, u \notin overtaken', kept'[u] # {} PROVE Known(u)'
  <2>1. u # op.user /\ Known(u)
    BY <1>0, <1>3, <1>5, <1>10 DEF KeptInv
  <2> QED
    BY <1>1, <1>2, <1>4, <2>1 DEF Known, Active, Hydrating, In
<1>11. KeptInv'
  BY <1>0, <1>2, <1>3, <1>5, <1>10 DEF KeptInv
<1>12. RestInv' /\ SecretInv'
  BY <1>0, <1>1, <1>2, <1>3, <1>4 DEF RestInv, Settling, Hydrating, SecretInv, HasSecret, InHand, In
<1> QED
  BY <1>6, <1>7, <1>8, <1>9, <1>11, <1>12 DEF IInv

LEMMA LeaveKeeps == ASSUME IInv, Leave PROVE IInv'
<1>0. TypeOK /\ PageInv /\ MemoryInv /\ FilesInv /\ SaveInv /\ PersistInv /\ ListInv /\ KeptInv /\ RestInv /\ SecretInv
  BY DEF IInv
<1>1. op.pc = "leave" /\ op.kind = "remove" /\ up /\ op.user \in User /\ ~Hydrating
      /\ secrets \cap SecretsOf({op.user}) = {}
  BY <1>0, PageAt DEF Leave, PageInv
<1>2. /\ UNCHANGED <<meta, files, secrets, up, running, package, edits, orphaned, failed>>
      /\ users' = users \ {op.user} /\ active' = NextUser(users') /\ session' = NoUser /\ mem' = {}
      /\ overtaken' = Overtaken({op.user}) /\ kept' = [kept EXCEPT ![op.user] = {}]
  BY DEF Leave, Closed, stored, counts
<1>3. overtaken' \in SUBSET User /\ overtaken \subseteq overtaken'
      /\ (~BackgroundIdle => op.user \in overtaken')
  BY <1>0, <1>1, <1>2, OvertakenGrows
<1>4. op' \in OpType /\ op'.kind = op.kind /\ op'.user = op.user /\ op'.pc = "saving"
  BY <1>0, OpAt DEF Leave, TypeOK, Places
<1>5. kept' \in [User -> RecordSet] /\ kept'[op.user] = {}
      /\ \A u \in User : u # op.user => kept'[u] = kept[u]
  BY <1>0, <1>1, <1>2 DEF TypeOK, RecordSet
<1>6. users' \in SUBSET User /\ active' \in users' \cup {NoUser}
  BY <1>0, <1>2 DEF NextUser, TypeOK
<1>7. PageSaves(users') /\ save'[Page].pc = "store"
  <2>1. save' = [save EXCEPT ![Page] = [NoSave EXCEPT !.pc = "store", !.users = users']]
    BY DEF Leave
  <2>2. save'[Page] = [NoSave EXCEPT !.pc = "store", !.users = users']
    BY <1>0, <2>1 DEF TypeOK, Save
  <2> QED
    BY <1>0, <1>6, <2>1, <2>2, PageStores DEF NoSave
<1>8. OthersStay /\ Carries(save'[Page]) /\ save'[Page].users = users'
  BY <1>7 DEF PageSaves
<1>9. TypeOK'
  BY <1>0, <1>1, <1>2, <1>3, <1>4, <1>5, <1>6, <1>8 DEF TypeOK, Person, OthersStay, RecordSet
<1>10. PageInv' /\ MemoryInv' /\ FilesInv'
  BY <1>0, <1>1, <1>2, <1>4, <1>6 DEF PageInv, MemoryInv, FilesInv, In
<1>11. SaveInv' /\ PersistInv'
  BY <1>0, <1>1, <1>2, <1>4, <1>7, <1>8, SavesKept DEF PersistInv, Idle, Active, Hydrating
<1>12. ListInv'
  BY <1>0, <1>1, <1>2, <1>3, <1>4, <1>8 DEF OthersStay, ListInv, Current, Hydrating, Active, Agree, BackgroundIdle, Idle
<1>13. ASSUME NEW u \in User, u \notin overtaken', kept'[u] # {} PROVE Known(u)'
  <2>1. u # op.user /\ Known(u) /\ u \in users'
    BY <1>0, <1>1, <1>2, <1>3, <1>5, <1>13 DEF KeptInv, Known
  <2> QED
    BY <1>1, <1>2, <1>4, <1>8, <2>1 DEF OthersStay, Known, Active, Hydrating, In, Save
<1>14. KeptInv'
  BY <1>0, <1>2, <1>3, <1>5, <1>13 DEF KeptInv
<1>15. RestInv'
  BY <1>1, <1>4, <1>7 DEF RestInv, Settling, Active, Hydrating
<1>16. SecretInv'
  BY <1>0, <1>1, <1>2, <1>3, <1>4 DEF SecretInv, HasSecret, InHand, In, Hydrating
<1> QED
  BY <1>9, <1>10, <1>11, <1>12, <1>14, <1>15, <1>16 DEF IInv

LEMMA AdoptKeeps == ASSUME IInv, Adopt PROVE IInv'
<1>0. TypeOK /\ PageInv /\ MemoryInv /\ FilesInv /\ SaveInv /\ PersistInv /\ ListInv /\ KeptInv /\ RestInv /\ SecretInv
  BY DEF IInv
<1>1. op.pc = "adopt" /\ op.kind = "backup" /\ up /\ op.user \in User /\ ~Hydrating
  BY <1>0, PageAt DEF Adopt
<1>2. /\ UNCHANGED <<meta, files, secrets, up, running, package, edits, kept, overtaken, orphaned, failed>>
      /\ users' = users \cup {op.user} /\ active' = op.user /\ session' = NoUser /\ mem' = {}
  BY DEF Adopt, Closed, stored, counts, aux
<1>4. op' \in OpType /\ op'.kind = op.kind /\ op'.user = op.user /\ op'.pc = "saving"
  BY <1>0, OpAt DEF Adopt, TypeOK, Places
<1>6. users' \in SUBSET User
  BY <1>0, <1>1, <1>2 DEF TypeOK
<1>7. PageSaves(users') /\ save'[Page].pc = "store"
  <2>1. save' = [save EXCEPT ![Page] = [NoSave EXCEPT !.pc = "store", !.users = users']]
    BY DEF Adopt
  <2>2. save'[Page] = [NoSave EXCEPT !.pc = "store", !.users = users']
    BY <1>0, <2>1 DEF TypeOK, Save
  <2> QED
    BY <1>0, <1>6, <2>1, <2>2, PageStores DEF NoSave
<1>8. OthersStay /\ Carries(save'[Page]) /\ save'[Page].users = users'
  BY <1>7 DEF PageSaves
<1>9. TypeOK'
  BY <1>0, <1>1, <1>2, <1>4, <1>6, <1>8 DEF TypeOK, Person, OthersStay, RecordSet
<1>10. PageInv' /\ MemoryInv' /\ FilesInv'
  BY <1>0, <1>1, <1>2, <1>4, <1>6 DEF PageInv, MemoryInv, FilesInv, In
<1>11. SaveInv' /\ PersistInv'
  BY <1>0, <1>1, <1>2, <1>4, <1>7, <1>8, SavesKept DEF PersistInv, Idle, Active, Hydrating
<1>12. ListInv'
  <2>1. ASSUME NEW s \in Background, Active(s)' PROVE Agree(save[s].users, Current)'
    <3>1. Active(s) /\ save'[s] = save[s] /\ ~BackgroundIdle
      BY <1>8, <2>1 DEF OthersStay, Active, BackgroundIdle, Idle
    <3> QED
      BY <1>0, <1>1, <1>2, <3>1 DEF ListInv, Agree, Current
  <2> QED
    BY <1>1, <1>4, <2>1 DEF ListInv, Hydrating
<1>13. ASSUME NEW u \in User, u \notin overtaken', kept'[u] # {} PROVE Known(u)'
  <2>1. Known(u) /\ u \in users'
    BY <1>0, <1>1, <1>2, <1>13 DEF KeptInv, Known
  <2> QED
    BY <1>1, <1>2, <1>4, <1>8, <2>1 DEF OthersStay, Known, Active, Hydrating, In, Save
<1>14. KeptInv'
  BY <1>0, <1>2, <1>13 DEF KeptInv
<1>15. RestInv'
  BY <1>1, <1>4, <1>7 DEF RestInv, Settling, Active, Hydrating
<1>16. SecretInv'
  BY <1>0, <1>1, <1>2, <1>4 DEF SecretInv, HasSecret, InHand, In, Hydrating
<1> QED
  BY <1>9, <1>10, <1>11, <1>12, <1>14, <1>15, <1>16 DEF IInv

LEMMA RestoreBackupKeeps == ASSUME IInv, NEW v \in User, RestoreBackup(v) PROVE IInv'
<1>0. TypeOK /\ PageInv /\ MemoryInv /\ FilesInv /\ SaveInv /\ PersistInv /\ ListInv /\ KeptInv /\ RestInv /\ SecretInv
  BY DEF IInv
<1>1. /\ op' \in OpType /\ op'.kind = "backup" /\ op'.user = v /\ op'.pc = "adopt"
      /\ up /\ op = NoOp /\ op.kind = "none" /\ op.pc = "idle" /\ Idle(Page) /\ UNCHANGED <<package, edits>>
  BY Chosen DEF RestoreBackup, Kinds, Places
<1>2. /\ UNCHANGED <<meta, secrets, up, users, active, session, mem, save, running, orphaned, failed>>
      /\ files' = Replaced(v, package[v]) /\ kept' = [kept EXCEPT ![v] = package[v]]
      /\ overtaken' = Overtaken({v} \ users)
  BY DEF RestoreBackup, who, memory
<1>3. overtaken' \in SUBSET User /\ overtaken \subseteq overtaken'
      /\ (~BackgroundIdle => v \in users \cup overtaken')
  <2>1. {v} \ users \in SUBSET User
    OBVIOUS
  <2> QED
    BY <1>0, <1>2, <2>1, OvertakenGrows
<1>4. /\ files' \in [User -> FileType] /\ kept' \in [User -> RecordSet]
      /\ files'[v].there /\ files'[v].records = package[v] /\ kept'[v] = package[v]
      /\ \A u \in User : u # v => files'[u] = files[u] /\ kept'[u] = kept[u]
  BY <1>0, <1>2 DEF TypeOK, FileType, Replaced
<1>5. TypeOK'
  BY <1>0, <1>1, <1>2, <1>3, <1>4 DEF TypeOK
<1>6. PageInv' /\ MemoryInv' /\ FilesInv'
  BY <1>0, <1>1, <1>2, <1>4 DEF PageInv, MemoryInv, FilesInv, In
<1>7. SaveInv' /\ PersistInv'
  BY <1>0, <1>1, <1>2 DEF SaveInv, PersistInv, Idle, Active, Hydrating
<1>8. ListInv'
  BY <1>0, <1>1, <1>2, <1>3 DEF ListInv, Current, Hydrating, Active, Agree, BackgroundIdle, Idle
<1>9. ASSUME NEW u \in User, u \notin overtaken', kept'[u] # {} PROVE Known(u)'
  <2>1. CASE u = v
    <3>1. ASSUME NEW s \in Save, Active(s) PROVE v \in save[s].users
      <4>1. s \in Background /\ ~BackgroundIdle
        BY <1>1, <3>1 DEF Save, Active, Idle, BackgroundIdle
      <4> QED
        BY <1>0, <1>1, <1>2, <1>3, <1>9, <2>1, <3>1, <4>1 DEF ListInv, Current, Agree
    <3> QED
      BY <1>1, <1>2, <2>1, <3>1 DEF Known, Active, Hydrating
  <2>2. CASE u # v
    <3>1. Known(u)
      BY <1>0, <1>3, <1>4, <1>9, <2>2 DEF KeptInv
    <3> QED
      BY <1>1, <1>2, <3>1 DEF Known, Active, Hydrating
  <2> QED
    BY <2>1, <2>2
<1>10. KeptInv'
  BY <1>0, <1>3, <1>4, <1>9 DEF KeptInv
<1>11. RestInv' /\ SecretInv'
  BY <1>0, <1>1, <1>2, <1>3, <1>4, ZenonT(60) DEF RestInv, Settling, Hydrating, SecretInv, HasSecret, InHand, In
<1> QED
  BY <1>5, <1>6, <1>7, <1>8, <1>10, <1>11 DEF IInv

LEMMA WriteRecordsKeeps == ASSUME IInv, WriteRecords PROVE IInv'
<1>0. TypeOK /\ PageInv /\ MemoryInv /\ FilesInv /\ SaveInv /\ PersistInv /\ ListInv /\ KeptInv /\ RestInv /\ SecretInv
  BY DEF IInv
<1>1. op.pc = "records" /\ op.kind = "restore" /\ up /\ op.user \in User /\ ~Hydrating /\ op.user \in users
  BY <1>0, PageAt, LocalUsersAssumption DEF WriteRecords, MemoryInv
<1> DEFINE new == FirstRecords(op.user)
<1>2. /\ UNCHANGED <<meta, secrets, up, users, active, session, mem, running, package, edits,
                     overtaken, orphaned, failed>>
      /\ files' = Upserted(op.user, new) /\ kept' = [kept EXCEPT ![op.user] = @ \cup new]
  BY DEF WriteRecords, who, memory, counts
<1>3. new \in RecordSet /\ new \subseteq {op.user} \X Nat
  BY <1>1 DEF FirstRecords, RecordSet
<1> HIDE DEF new
<1>4. /\ files' \in [User -> FileType] /\ kept' \in [User -> RecordSet]
      /\ files'[op.user].there /\ files'[op.user].records = files[op.user].records \cup new
      /\ kept'[op.user] = kept[op.user] \cup new
      /\ \A u \in User : u # op.user => files'[u] = files[u] /\ kept'[u] = kept[u]
  BY <1>0, <1>1, <1>2, <1>3 DEF TypeOK, FileType, RecordSet, Upserted
<1>5. op' \in OpType /\ op'.kind = op.kind /\ op'.user = op.user /\ op'.pc = "saving"
  BY <1>0, OpAt DEF WriteRecords, TypeOK, Places
<1>6. PageSaves(users) /\ save'[Page].pc = "encrypt"
  <2>1. PagePersists /\ Begun \in SaveType /\ Begun.pc = "encrypt"
    BY <1>0, BegunType DEF WriteRecords
  <2> QED
    BY <1>0, <2>1, PageBegins, PageSlot DEF PagePersists
<1>7. OthersStay /\ Carries(save'[Page]) /\ save'[Page].users = users
  BY <1>6 DEF PageSaves
<1>8. TypeOK'
  BY <1>0, <1>2, <1>4, <1>5, <1>7 DEF TypeOK, OthersStay
<1>9. PageInv' /\ MemoryInv' /\ FilesInv'
  BY <1>0, <1>1, <1>2, <1>3, <1>4, <1>5 DEF PageInv, MemoryInv, FilesInv, In
<1>10. SaveInv' /\ PersistInv'
  BY <1>0, <1>1, <1>2, <1>5, <1>6, <1>7, SavesKept DEF PersistInv, Idle, Active, Hydrating
<1>11. ListInv'
  BY <1>0, <1>1, <1>2, <1>5, <1>7 DEF OthersStay, ListInv, Current, Hydrating, Active, Agree
<1>12. ASSUME NEW u \in User, u \notin overtaken', kept'[u] # {} PROVE Known(u)'
  <2>1. u \in users
    BY <1>0, <1>1, <1>2, <1>4, <1>12 DEF KeptInv, Known
  <2>2. ASSUME NEW s \in Background, Active(s) PROVE u \in save[s].users
    BY <1>0, <1>1, <1>2, <1>12, <2>1, <2>2 DEF ListInv, Current, Agree
  <2> QED
    BY <1>1, <1>2, <1>5, <1>7, <2>1, <2>2 DEF OthersStay, Known, Active, Hydrating, Save
<1>13. KeptInv'
  BY <1>0, <1>2, <1>4, <1>12 DEF KeptInv
<1>14. RestInv'
  BY <1>1, <1>5, <1>6 DEF RestInv, Settling, Active, Hydrating
<1>15. SecretInv'
  BY <1>0, <1>1, <1>2, <1>4, <1>5 DEF SecretInv, HasSecret, InHand, In, Hydrating
<1> QED
  BY <1>8, <1>9, <1>10, <1>11, <1>13, <1>14, <1>15 DEF IInv

LEMMA SavedKeeps == ASSUME IInv, Saved PROVE IInv'
<1>0. TypeOK /\ PageInv /\ MemoryInv /\ FilesInv /\ SaveInv /\ PersistInv /\ ListInv /\ KeptInv /\ RestInv /\ SecretInv
  BY DEF IInv
<1>1. op.pc = "saving" /\ save[Page].pc \in {"done", "failed"} /\ up /\ ~Hydrating /\ op.kind # "hydrate"
  BY PageAt DEF Saved, PageSaveEnded
<1>2. UNCHANGED <<meta, files, secrets, users, active, mem, running, package, edits,
                  kept, overtaken, orphaned, failed>>
  BY DEF Saved, stored, who, counts, aux
<1>3. PageQuiet
  BY <1>0, PageIsOver DEF Saved
<1>4. save'[Page].pc = "idle" /\ OthersStay /\ Carries(save'[Page])
  BY <1>3, QuietCarries, NoSaveType DEF PageQuiet
<1>5. CASE op.kind = "restore" /\ save[Page].pc = "failed"
  <2>1. up' = FALSE /\ session' = NoUser /\ op' = [kind |-> "hydrate", user |-> NoUser, pc |-> "load"]
    BY <1>5 DEF Saved
  <2>2. op' \in OpType /\ op'.kind = "hydrate" /\ op'.user = NoUser /\ op'.pc = "load"
    BY <2>1, OpMade DEF Kinds, Places, Person
  <2>3. TypeOK'
    BY <1>0, <1>2, <1>4, <2>1, <2>2 DEF TypeOK, OthersStay, Person
  <2>4. PageInv' /\ MemoryInv' /\ FilesInv'
    BY <1>0, <1>1, <1>2, <2>1, <2>2 DEF PageInv, MemoryInv, FilesInv, In
  <2>5. SaveInv' /\ PersistInv'
    BY <1>0, <1>1, <1>2, <1>4, <2>2, SavesKept DEF PersistInv, Idle, Active, Hydrating
  <2>6. ListInv'
    BY <1>0, <1>1, <1>2, <1>4, <2>1, <2>2 DEF OthersStay, ListInv, Current, Hydrating, Active, Agree
  <2>7. ASSUME NEW u \in User, u \notin overtaken', kept'[u] # {} PROVE Known(u)'
    <3>1. Known(u) /\ u \in users
      BY <1>0, <1>1, <1>2, <2>7 DEF KeptInv, Known
    <3> QED
      BY <1>1, <1>2, <1>4, <2>1, <2>2, <3>1 DEF OthersStay, Known, Active, Hydrating, In, Save
  <2>8. KeptInv'
    BY <1>0, <1>2, <2>7 DEF KeptInv
  <2>9. RestInv' /\ SecretInv'
    BY <1>0, <1>1, <1>2, <1>4, <1>5, <2>1, <2>2 DEF RestInv, Settling, Hydrating, SecretInv, HasSecret, InHand, In
  <2> QED
    BY <2>3, <2>4, <2>5, <2>6, <2>8, <2>9 DEF IInv
<1>6. CASE ~(op.kind = "restore" /\ save[Page].pc = "failed")
  <2>1. op' = NoOp /\ op' \in OpType /\ op'.kind = "none" /\ op'.pc = "idle" /\ UNCHANGED <<up, session>>
    BY <1>6, OpDone DEF Saved, Done
  <2>2. PageInv'
    BY <1>1, <2>1 DEF PageInv, In
  <2>3. MemoryInv' /\ PersistInv'
    BY <1>0, <1>1, <1>2, <1>4, <2>1 DEF MemoryInv, PersistInv, Idle, Active, Hydrating
  <2>4. PageMove
    BY <1>1, <1>2, <1>4, <2>1 DEF PageMove, Active, Settling, In, HasSecret, InHand, Hydrating
  <2> QED
    BY <1>0, <1>2, <1>4, <2>1, <2>2, <2>3, <2>4, PageStep DEF TypeOK
<1> QED
  BY <1>5, <1>6

-----------------------------------------------------------------------------
(* hydrate reads the list, stores it and takes it over.                     *)
LEMMA HydrateLoadKeeps == ASSUME IInv, HydrateLoad PROVE IInv'
<1>0. TypeOK /\ PageInv /\ MemoryInv /\ FilesInv /\ SaveInv /\ PersistInv /\ ListInv /\ KeptInv /\ RestInv /\ SecretInv
  BY DEF IInv
<1>1. op.kind = "hydrate" /\ op.pc = "load" /\ ~up /\ op.user = NoUser /\ session = NoUser
  BY <1>0 DEF HydrateLoad, PageInv, In, NoOp
<1>2. /\ UNCHANGED <<meta, files, secrets, up, users, active, session, mem, running, package, edits, failed>>
      /\ kept' = [u \in User |-> IF u \in meta.users THEN kept[u] ELSE {}]
      /\ overtaken' = Overtaken(Differing(meta.users)) /\ orphaned' = Orphans
  BY DEF HydrateLoad, stored, who, memory, counts, StoredUsers
<1>3. overtaken' \in SUBSET User /\ overtaken \subseteq overtaken'
      /\ (~BackgroundIdle => Differing(meta.users) \subseteq overtaken')
  BY <1>0, <1>2, Fields, OvertakenGrows DEF Differing, TypeOK
<1>4. orphaned' \in SUBSET User /\ orphaned \subseteq orphaned'
      /\ \A u \in User \ orphaned' : u \in users => files[u].there
  BY <1>0, <1>1, <1>2, LocalUsersAssumption DEF Orphans, TypeOK
<1>5. op' \in OpType /\ op'.kind = "hydrate" /\ op'.user = NoUser /\ op'.pc = "store"
  BY <1>0, <1>1, OpAt DEF HydrateLoad, TypeOK, Places
<1>6. StoredActive \in meta.users \cup {NoUser}
  BY DEF StoredActive, StoredUsers, NextUser
<1> DEFINE x == [NoSave EXCEPT !.pc = "store", !.users = meta.users, !.active = {StoredActive}]
<1>7. x \in SaveType /\ x.pc = "store" /\ x.users = meta.users /\ x.active = {StoredActive}
  <2>1. meta.users \in SUBSET User /\ {StoredActive} \in SUBSET Person
    BY <1>0, <1>6, Fields DEF Person
  <2>2. {} \in RecordSet /\ NoUser \in Person
    BY DEF RecordSet, Person
  <2> QED
    BY <2>1, <2>2 DEF NoSave, SaveType, SavePlaces
<1>8. save' = [save EXCEPT ![Page] = x]
  BY DEF HydrateLoad, StoredUsers
<1> HIDE DEF x
<1>9. OthersStay /\ save'[Page] = x /\ Carries(save'[Page])
  BY <1>0, <1>7, <1>8, PageSlot DEF Carries
<1>10. kept' \in [User -> RecordSet] /\ \A u \in User : kept'[u] = IF u \in meta.users THEN kept[u] ELSE {}
  BY <1>0, <1>2 DEF TypeOK, RecordSet
<1>11. TypeOK'
  BY <1>0, <1>2, <1>3, <1>4, <1>5, <1>9, <1>10 DEF TypeOK, OthersStay
<1>12. PageInv' /\ MemoryInv' /\ FilesInv'
  BY <1>0, <1>1, <1>2, <1>5 DEF PageInv, MemoryInv, FilesInv, In
<1>13. SaveInv' /\ PersistInv'
  <2>1. SaveInv'
    BY <1>0, <1>9, SavesKept
  <2>2. Hydrating'
    BY <1>5 DEF Hydrating
  <2> QED
    BY <1>5, <1>6, <1>7, <1>9, <1>2, <2>1, <2>2 DEF PersistInv, Idle
<1>14. ListInv'
  <2>1. ASSUME NEW s \in Background, Active(s)' PROVE Agree(save[s].users, Current)'
    BY <1>0, <1>1, <1>2, <1>3, <1>5, <1>9, <2>1 DEF ListInv, Current, Agree, Active, OthersStay
  <2>2. Agree(meta.users, save[Page].users)'
    BY <1>2, <1>7, <1>9 DEF Agree
  <2>3. ~BackgroundIdle' => Agree(users, save[Page].users)'
    BY <1>0, <1>2, <1>3, <1>7, <1>9 DEF Agree, BackgroundIdle, Idle, OthersStay, Differing
  <2> QED
    BY <1>5, <2>1, <2>2, <2>3 DEF ListInv
<1>15. ASSUME NEW u \in User, u \notin overtaken', kept'[u] # {} PROVE Known(u)'
  <2>1. Known(u) /\ u \in meta.users
    BY <1>0, <1>3, <1>10, <1>15 DEF KeptInv
  <2> QED
    BY <1>1, <1>2, <1>7, <1>9, <2>1 DEF OthersStay, Known, Active, Save
<1>16. KeptInv'
  BY <1>0, <1>2, <1>3, <1>10, <1>15 DEF KeptInv
<1>17. RestInv'
  BY <1>1, <1>2, <1>7, <1>9 DEF RestInv, Settling
<1>18. SecretInv'
  BY <1>0, <1>1, <1>2, <1>3, <1>4 DEF SecretInv, HasSecret, InHand, In
<1> QED
  BY <1>11, <1>12, <1>13, <1>14, <1>16, <1>17, <1>18 DEF IInv

LEMMA HydratedKeeps == ASSUME IInv, Hydrated PROVE IInv'
<1>0. TypeOK /\ PageInv /\ MemoryInv /\ FilesInv /\ SaveInv /\ PersistInv /\ ListInv /\ KeptInv /\ RestInv /\ SecretInv
  BY DEF IInv
<1>1. op.kind = "hydrate" /\ save[Page].pc = "done" /\ Hydrating /\ ~up
  BY <1>0 DEF Hydrated, PersistInv, Idle, PageInv, In, NoOp, Hydrating
<1>2. /\ UNCHANGED <<meta, files, secrets, running, package, edits, kept, overtaken, orphaned, failed>>
      /\ up' = TRUE /\ users' = save[Page].users /\ mem' = {} /\ session' = NoUser
  BY DEF Hydrated, stored, counts, aux
<1>3. users' \in SUBSET User /\ active' \in users' \cup {NoUser}
  <2>1. PICK u \in save[Page].users \cup {NoUser} : save[Page].active = {u}
    BY <1>0, <1>1 DEF PersistInv
  <2>2. active' = CHOOSE w \in {u} : TRUE
    BY <2>1 DEF Hydrated, Committed
  <2> QED
    BY <1>0, <1>2, <2>1, <2>2, Fields DEF Save
<1>4. op' = NoOp /\ op' \in OpType /\ op'.kind = "none" /\ op'.pc = "idle"
  BY OpDone DEF Hydrated, Done
<1>5. PageQuiet
  BY <1>0, PageIsOver DEF Hydrated
<1>6. save'[Page].pc = "idle" /\ OthersStay /\ Carries(save'[Page])
  BY <1>5, QuietCarries, NoSaveType DEF PageQuiet
<1>7. TypeOK'
  BY <1>0, <1>2, <1>3, <1>4, <1>6 DEF TypeOK, OthersStay, Person, RecordSet
<1>8. PageInv' /\ MemoryInv' /\ FilesInv'
  BY <1>0, <1>2, <1>3, <1>4 DEF PageInv, MemoryInv, FilesInv, In
<1>9. SaveInv' /\ PersistInv'
  BY <1>0, <1>4, <1>6, SavesKept DEF PersistInv, Idle, Active, Hydrating
<1>10. ASSUME NEW s \in Background, Active(s) PROVE Agree(save[s].users, save[Page].users)
  <2>1. ~BackgroundIdle
    BY <1>10 DEF Active, BackgroundIdle, Idle
  <2> QED
    BY <1>0, <1>1, <1>10, <2>1 DEF ListInv, Current, Agree
<1>11. ListInv'
  BY <1>2, <1>4, <1>6, <1>10 DEF ListInv, Current, Agree, Active, OthersStay, Hydrating
<1>12. ASSUME NEW u \in User, u \notin overtaken', kept'[u] # {} PROVE Known(u)'
  <2>1. Known(u) /\ u \in users'
    BY <1>0, <1>1, <1>2, <1>12 DEF KeptInv, Known
  <2> QED
    BY <1>2, <1>4, <1>6, <2>1 DEF OthersStay, Known, Active, Save, Hydrating
<1>13. KeptInv'
  BY <1>0, <1>2, <1>12 DEF KeptInv
<1>14. RestInv'
  BY <1>0, <1>1, <1>2, <1>4 DEF RestInv, ListInv, NoneElse, Agree, Hydrating
<1>15. SecretInv'
  BY <1>0, <1>1, <1>2 DEF SecretInv, HasSecret, InHand, In, Hydrating
<1> QED
  BY <1>7, <1>8, <1>9, <1>11, <1>13, <1>14, <1>15 DEF IInv

LEMMA FailHydrateKeeps == ASSUME IInv, FailHydrate PROVE IInv'
<1>0. TypeOK /\ PageInv /\ MemoryInv /\ FilesInv /\ SaveInv /\ PersistInv /\ ListInv /\ KeptInv /\ RestInv /\ SecretInv
  BY DEF IInv
<1>1. op.kind = "hydrate" /\ save[Page].pc = "failed" /\ Hydrating /\ ~up /\ session = NoUser
  BY <1>0 DEF FailHydrate, PersistInv, Idle, PageInv, In, NoOp, Hydrating
<1>2. /\ UNCHANGED <<meta, files, secrets, up, session, running, package, edits, kept, overtaken, orphaned, failed>>
      /\ users' = {} /\ active' = NoUser /\ mem' = {}
  BY DEF FailHydrate, stored, counts, aux
<1>3. op' = NoOp /\ op' \in OpType /\ op'.kind = "none" /\ op'.pc = "idle"
  BY OpDone DEF FailHydrate, Done
<1>4. PageQuiet
  BY <1>0, PageIsOver DEF FailHydrate
<1>5. save'[Page].pc = "idle" /\ OthersStay /\ Carries(save'[Page])
  BY <1>4, QuietCarries, NoSaveType DEF PageQuiet
<1>6. TypeOK'
  BY <1>0, <1>2, <1>3, <1>5 DEF TypeOK, OthersStay, Person, RecordSet
<1>7. PageInv' /\ MemoryInv' /\ FilesInv'
  BY <1>0, <1>1, <1>2, <1>3 DEF PageInv, MemoryInv, FilesInv, In
<1>8. SaveInv' /\ PersistInv'
  BY <1>0, <1>3, <1>5, SavesKept DEF PersistInv, Idle, Active, Hydrating
<1>9. ASSUME NEW s \in Background, Active(s) PROVE Agree(save[s].users, meta.users)
  <2>1. ~BackgroundIdle
    BY <1>9 DEF Active, BackgroundIdle, Idle
  <2> QED
    BY <1>0, <1>1, <1>9, <2>1 DEF ListInv, Current, Agree
<1>10. ListInv'
  BY <1>1, <1>2, <1>3, <1>5, <1>9 DEF ListInv, Current, Agree, Active, OthersStay, Hydrating
<1>11. ASSUME NEW u \in User, u \notin overtaken', kept'[u] # {} PROVE Known(u)'
  <2>1. Known(u) /\ u \in meta.users
    BY <1>0, <1>1, <1>2, <1>11 DEF KeptInv, Known, Fresh, In, Hydrating
  <2> QED
    BY <1>1, <1>2, <1>3, <1>5, <2>1 DEF OthersStay, Known, Active, Save, Hydrating
<1>12. KeptInv'
  BY <1>0, <1>2, <1>11 DEF KeptInv
<1>13. RestInv' /\ SecretInv'
  BY <1>0, <1>1, <1>2, <1>3 DEF RestInv, Settling, SecretInv, HasSecret, InHand, In, Hydrating
<1> QED
  BY <1>6, <1>7, <1>8, <1>10, <1>12, <1>13 DEF IInv

-----------------------------------------------------------------------------
(* A persist goes on: encrypted, written, stored.                           *)
LEMMA SlotEnds ==
  ASSUME TypeOK, NEW s \in Save, NEW how \in {"done", "failed"}, save' = Ended(s, how)
  PROVE  /\ save' \in [Save -> SaveType]
         /\ \A t \in Save : t # s => save'[t] = save[t]
         /\ s = Page => /\ save'[s].pc = how /\ save'[s].users = save[s].users
                        /\ save'[s].active = save[s].active
         /\ s # Page => save'[s].pc = "idle"
<1> DEFINE x == IF s = Page THEN [save[s] EXCEPT !.pc = how] ELSE NoSave
<1>1. save' = [save EXCEPT ![s] = x]
  BY DEF Ended
<1>2. save[s] \in SaveType
  BY Fields
<1>3. /\ x \in SaveType
      /\ s = Page => x.pc = how /\ x.users = save[s].users /\ x.active = save[s].active
      /\ s # Page => x.pc = "idle"
  BY <1>2, NoSaveType DEF SaveType, SavePlaces
<1> HIDE DEF x
<1> QED
  BY <1>1, <1>3, SlotTo DEF TypeOK

(* What the lists under way agree on.                                       *)
LEMMA OnTheList ==
  ASSUME IInv, NEW s \in Save, Active(s), NEW u \in User, u \notin overtaken
  PROVE  /\ up => (u \in save[s].users <=> u \in users)
         /\ \A t \in Save : Active(t) => (u \in save[s].users <=> u \in save[t].users)
         /\ Hydrating => /\ u \in save[s].users <=> u \in save[Page].users
                         /\ u \in meta.users <=> u \in save[Page].users
         /\ op.kind = "hydrate" /\ op.pc = "load" => (u \in save[s].users <=> u \in users)
         /\ ~up /\ op.kind # "hydrate" => (u \in save[s].users <=> u \in meta.users)
<1>0. PageInv /\ PersistInv /\ ListInv
  BY DEF IInv
<1>1. Active(Page) => Hydrating \/ (up /\ op.kind # "hydrate" /\ save[Page].users = users)
  BY <1>0 DEF PersistInv, Active, Idle, PageInv, In, NoOp, Hydrating
<1>2. ASSUME NEW t \in Background, Active(t) PROVE (u \in save[t].users <=> u \in Current) /\ ~BackgroundIdle
  BY <1>0, <1>2 DEF ListInv, Agree, BackgroundIdle, Idle, Active
<1>3. op.kind = "hydrate" => ~up
  BY <1>0 DEF PageInv
<1>4. Hydrating => /\ u \in meta.users <=> u \in save[Page].users
                   /\ ~BackgroundIdle => (u \in users <=> u \in save[Page].users)
  BY <1>0 DEF ListInv, Agree
<1>5. op.kind = "hydrate" /\ op.pc = "load" => ~Hydrating
  BY DEF Hydrating
<1>6. CASE s = Page
  <2>1. ASSUME NEW t \in Save, Active(t) PROVE u \in save[s].users <=> u \in save[t].users
    <3>1. CASE t = Page
      BY <1>6, <3>1
    <3>2. CASE t \in Background
      BY <1>1, <1>2, <1>4, <1>6, <2>1, <3>2 DEF Current, Hydrating
    <3> QED
      BY <3>1, <3>2 DEF Save
  <2> QED
    BY <1>1, <1>3, <1>4, <1>5, <1>6, <2>1 DEF Hydrating
<1>7. CASE s \in Background
  <2>1. ASSUME NEW t \in Save, Active(t) PROVE u \in save[s].users <=> u \in save[t].users
    <3>1. CASE t = Page
      BY <1>1, <1>2, <1>4, <1>7, <2>1, <3>1 DEF Current, Hydrating
    <3>2. CASE t \in Background
      BY <1>2, <1>7, <2>1, <3>2
    <3> QED
      BY <3>1, <3>2 DEF Save
  <2> QED
    BY <1>2, <1>3, <1>4, <1>7, <2>1 DEF Current, Hydrating
<1> QED
  BY <1>6, <1>7 DEF Save

PersistMoves(s) ==
  /\ Active(s)
  /\ save' \in [Save -> SaveType] /\ \A t \in Save : t # s => save'[t] = save[t]
  /\ Carries(save'[s])
  /\ s # Page => Active(s)' \/ Idle(s)'
  /\ s = Page => ~Idle(s)' /\ save'[s].active = save[s].active
                 /\ (Hydrating => save'[s].pc \in {"store", "done", "failed"})
  /\ save'[s].pc # "idle" => save'[s].users = save[s].users
  /\ UNCHANGED <<up, users, active, session, mem, op, running, package, edits, overtaken, orphaned>>
  /\ secrets' \subseteq secrets
  /\ meta'.users \in {meta.users, save[s].users}

LEMMA PersistMoved ==
  ASSUME IInv, NEW s \in Save, PersistMoves(s)
  PROVE  /\ PageInv' /\ MemoryInv' /\ SaveInv' /\ PersistInv'
         /\ \A t \in Save : Active(t)' => Active(t) /\ save'[t].users = save[t].users
         /\ BackgroundIdle => BackgroundIdle'
         /\ Hydrating' = Hydrating /\ save'[Page].users = save[Page].users
<1>0. TypeOK /\ PageInv /\ MemoryInv /\ SaveInv /\ PersistInv
  BY DEF IInv
<1>1. PageInv' /\ MemoryInv'
  BY <1>0 DEF PersistMoves, PageInv, MemoryInv, In
<1>2. \A t \in Save : Active(t)' => Active(t) /\ save'[t].users = save[t].users
  BY DEF PersistMoves, Active
<1>3. SaveInv'
  <2>1. \A t \in Save : Carries(save'[t])
    BY <1>0 DEF PersistMoves, SaveInv
  <2>2. \A t \in Background : Idle(t)' \/ Active(t)'
    BY <1>0, LocalUsersAssumption DEF PersistMoves, SaveInv, Idle, Active, Save
  <2> QED
    BY <2>1, <2>2 DEF SaveInv
<1>4. Page \in Save /\ Hydrating' = Hydrating
  BY DEF Save, Hydrating, PersistMoves
<1>5. save'[Page].users = save[Page].users
  BY <1>4 DEF PersistMoves, Idle
<1>6. PersistInv'
  BY <1>0, <1>2, <1>4, <1>5 DEF PersistMoves, PersistInv, Idle, Active
<1>7. BackgroundIdle => BackgroundIdle'
  BY DEF PersistMoves, BackgroundIdle, Idle, Active, Save
<1> QED
  BY <1>1, <1>2, <1>3, <1>4, <1>5, <1>6, <1>7

LEMMA ListsStay ==
  ASSUME IInv, NEW s \in Save, PersistMoves(s)
  PROVE  ListInv'
<1>0. ListInv /\ PageInv
  BY DEF IInv
<1>1. UNCHANGED <<up, users, op, overtaken>> /\ Active(s)
  BY DEF PersistMoves
<1>2. ASSUME NEW t \in Background, Active(t)' PROVE Agree(save[t].users, Current)'
  <2>1. Active(t) /\ save'[t].users = save[t].users /\ t \in Save
    BY <1>2, PersistMoved DEF Save
  <2>2. ASSUME NEW u \in User, u \notin overtaken PROVE u \in save[t].users <=> u \in Current'
    <3>1. u \in save[t].users <=> u \in save[s].users
      BY <1>1, <2>1, <2>2, OnTheList
    <3>2. u \in save[t].users <=> u \in Current
      BY <1>0, <2>1, <2>2 DEF ListInv, Agree
    <3> QED
      BY <1>1, <3>1, <3>2 DEF Current, PersistMoves
  <2> QED
    BY <1>1, <2>1, <2>2 DEF Agree
<1>3. Hydrating' => Agree(meta.users, save[Page].users)'
  <2>1. ASSUME Hydrating, NEW u \in User, u \notin overtaken PROVE u \in meta'.users <=> u \in save[Page].users
    BY <1>1, <2>1, OnTheList DEF PersistMoves
  <2> QED
    BY <1>1, <2>1, PersistMoved DEF Agree
<1>4. (Hydrating /\ ~BackgroundIdle)' => Agree(users, save[Page].users)'
  BY <1>0, <1>1, PersistMoved DEF ListInv, Agree
<1>5. (op.pc = "adopt" /\ ~BackgroundIdle)' => (op.user \in users \cup overtaken)'
  BY <1>0, <1>1, PersistMoved DEF ListInv
<1> QED
  BY <1>2, <1>3, <1>4, <1>5 DEF ListInv

LEMMA KnownStays ==
  ASSUME IInv, NEW s \in Save, PersistMoves(s), NEW u \in User, Known(u)
  PROVE  Known(u)'
<1>1. UNCHANGED <<up, users, op, running>> /\ Active(s) /\ u \in save[s].users
  BY DEF PersistMoves, Known
<1>2. \A t \in Save : Active(t)' => u \in save'[t].users
  BY PersistMoved DEF Known
<1>3. Hydrating' => u \in save'[Page].users
  BY PersistMoved DEF Known
<1>4. Fresh => Fresh'
  BY <1>1, PersistMoved DEF Fresh, In
<1>5. u \in meta.users => u \in meta'.users
  BY <1>1 DEF PersistMoves
<1> QED
  BY <1>1, <1>2, <1>3, <1>4, <1>5 DEF Known, In

LEMMA EncryptKeeps == ASSUME IInv, NEW s \in Save, Encrypt(s) PROVE IInv'
<1>0. TypeOK /\ PageInv /\ MemoryInv /\ FilesInv /\ SaveInv /\ PersistInv /\ ListInv /\ KeptInv /\ RestInv /\ SecretInv
  BY DEF IInv
<1>1. /\ UNCHANGED <<meta, files, secrets, up, users, active, session, mem, op, running, package, edits,
                     kept, overtaken, orphaned>>
      /\ save[s].pc = "encrypt"
      /\ failed => failed'
  BY DEF Encrypt, stored, who, memory, counts
<1>2. save[s] \in SaveType /\ Carries(save[s])
  BY <1>0, Fields DEF SaveInv
<1>3. /\ save' \in [Save -> SaveType] /\ \A t \in Save : t # s => save'[t] = save[t]
      /\ save'[s].pc # "idle" => save'[s].users = save[s].users
      /\ Carries(save'[s])
      /\ \/ save'[s].pc \in {"store", "upsert"} /\ save'[s].active = save[s].active
         \/ failed' /\ IF s = Page THEN save'[s].pc = "failed" /\ save'[s].active = save[s].active
                                   ELSE save'[s].pc = "idle"
  <2> DEFINE p == IF save[s].records = {} THEN "store" ELSE "upsert"
  <2>1. CASE save[s].records = {} \/ save[s].by = session
    <3> DEFINE x == [save[s] EXCEPT !.pc = p]
    <3>1. save' = [save EXCEPT ![s] = x]
      BY <2>1 DEF Encrypt
    <3>2. /\ x \in SaveType /\ x.pc = p /\ x.users = save[s].users /\ x.active = save[s].active
          /\ x.by = save[s].by /\ x.records = save[s].records
      BY <1>2 DEF SaveType, SavePlaces
    <3> HIDE DEF x
    <3>3. Carries(x)
      BY <1>1, <1>2, <3>2 DEF Carries
    <3> QED
      BY <1>0, <3>1, <3>2, <3>3, SlotTo DEF TypeOK
  <2>2. CASE ~(save[s].records = {} \/ save[s].by = session)
    <3>1. save' = Ended(s, "failed") /\ failed'
      BY <2>2 DEF Encrypt
    <3> QED
      BY <1>0, <3>1, SlotEnds DEF Carries
  <2> QED
    BY <2>1, <2>2
<1>4. PersistMoves(s)
  <2>1. s = Page => ~Hydrating
    BY <1>0, <1>1 DEF PersistInv
  <2> QED
    BY <1>1, <1>3, <2>1 DEF PersistMoves, Active, Idle
<1>5. TypeOK'
  BY <1>0, <1>1, <1>3 DEF TypeOK
<1>6. FilesInv'
  BY <1>0, <1>1 DEF FilesInv
<1>7. KeptInv'
  BY <1>0, <1>1, <1>4, KnownStays DEF KeptInv
<1>8. RestInv'
  <2>1. Settling => Settling' \/ failed'
    <3>1. Active(Page) => Active(Page)' \/ failed'
      <4>1. CASE s = Page
        BY <1>3, <4>1 DEF Active
      <4>2. CASE s # Page
        BY <1>3, <4>2 DEF Active, Save
      <4> QED
        BY <4>1, <4>2
    <3> QED
      BY <1>1, <3>1 DEF Settling, In
  <2>2. save'[Page].pc = "done" => save[Page].pc = "done"
    <3>1. CASE s = Page
      BY <1>3, <3>1
    <3>2. CASE s # Page
      BY <1>3, <3>2 DEF Save
    <3> QED
      BY <3>1, <3>2
  <2> QED
    BY <1>0, <1>1, <1>4, <2>1, <2>2, PersistMoved DEF RestInv, Agree, NoneElse
<1>9. SecretInv'
  BY <1>0, <1>1 DEF SecretInv, HasSecret, InHand, In, Hydrating
<1> QED
  BY <1>4, <1>5, <1>6, <1>7, <1>8, <1>9, PersistMoved, ListsStay DEF IInv

LEMMA UpsertKeeps == ASSUME IInv, NEW s \in Save, Upsert(s) PROVE IInv'
<1>0. TypeOK /\ PageInv /\ MemoryInv /\ FilesInv /\ SaveInv /\ PersistInv /\ ListInv /\ KeptInv /\ RestInv /\ SecretInv
  BY DEF IInv
<1> DEFINE v == save[s].by
           new == save[s].records
<1>1. /\ UNCHANGED <<meta, secrets, up, users, active, session, mem, op, running, package, edits,
                     overtaken, orphaned, failed>>
      /\ save[s].pc = "upsert" /\ files' = Upserted(v, new) /\ kept' = [kept EXCEPT ![v] = @ \cup new]
      /\ save' = [save EXCEPT ![s].pc = "store"]
  BY DEF Upsert, who, memory, counts
<1>2. save[s] \in SaveType /\ new \in RecordSet /\ v \in save[s].users /\ v \in User /\ new \subseteq {v} \X Nat
  BY <1>0, <1>1, Fields DEF SaveInv, Carries
<1> HIDE DEF v, new
<1>3. /\ save' \in [Save -> SaveType] /\ \A t \in Save : t # s => save'[t] = save[t]
      /\ save'[s].pc = "store" /\ save'[s].users = save[s].users /\ save'[s].active = save[s].active
  <2> DEFINE x == [save[s] EXCEPT !.pc = "store"]
  <2>1. save' = [save EXCEPT ![s] = x]
    BY <1>1
  <2>2. x \in SaveType /\ x.pc = "store" /\ x.users = save[s].users /\ x.active = save[s].active
    BY <1>2 DEF SaveType, SavePlaces
  <2> HIDE DEF x
  <2> QED
    BY <1>0, <2>1, <2>2, SlotTo DEF TypeOK
<1>4. /\ files' \in [User -> FileType] /\ kept' \in [User -> RecordSet]
      /\ files'[v].there /\ files'[v].records = files[v].records \cup new
      /\ kept'[v] = kept[v] \cup new
      /\ \A u \in User : u # v => files'[u] = files[u] /\ kept'[u] = kept[u]
  BY <1>0, <1>1, <1>2 DEF TypeOK, FileType, RecordSet, Upserted
<1>5. PersistMoves(s)
  BY <1>1, <1>3 DEF PersistMoves, Active, Idle, Carries
<1>6. TypeOK'
  BY <1>0, <1>1, <1>3, <1>4 DEF TypeOK
<1>7. FilesInv'
  BY <1>0, <1>1, <1>2, <1>4 DEF FilesInv
<1>8. v \notin overtaken =>
        /\ up => v \in users
        /\ \A t \in Save : Active(t) => v \in save[t].users
        /\ Hydrating => v \in save[Page].users /\ v \in meta.users
        /\ op.kind = "hydrate" /\ op.pc = "load" => v \in users
        /\ ~up /\ op.kind # "hydrate" => v \in meta.users
  BY <1>1, <1>2, OnTheList DEF Active
<1>9. v \notin overtaken => Known(v)
  BY <1>0, <1>8 DEF Known, PageInv, In, Hydrating, NoOp
<1>10. KeptInv'
  BY <1>0, <1>1, <1>2, <1>4, <1>5, <1>9, KnownStays DEF KeptInv
<1>11. RestInv'
  <2>1. Settling => Settling'
    BY <1>1, <1>3 DEF Settling, In, Active
  <2>2. save'[Page].pc = "done" => save[Page].pc = "done"
    BY <1>1, <1>3 DEF Save
  <2>3. up /\ NoneElse(users) => NoneElse(users)'
    BY <1>1, <1>4, <1>8 DEF NoneElse
  <2>4. Hydrating /\ NoneElse(save[Page].users) => NoneElse(save[Page].users)'
    BY <1>1, <1>4, <1>5, <1>8, PersistMoved DEF NoneElse
  <2> QED
    BY <1>0, <1>1, <1>5, <2>1, <2>2, <2>3, <2>4, PersistMoved DEF RestInv, Agree, Settling
<1>12. SecretInv'
  BY <1>0, <1>1, <1>4 DEF SecretInv, HasSecret, InHand, In, Hydrating
<1> QED
  BY <1>5, <1>6, <1>7, <1>10, <1>11, <1>12, PersistMoved, ListsStay DEF IInv

(* What save_vault_store leaves, done or cut off, of the list it was given. *)
Written(list) ==
  /\ meta' \in [users : SUBSET User, active : Person] /\ meta'.users \in {meta.users, list}
  /\ files' \in [User -> FileType]
  /\ secrets' \subseteq secrets
  /\ \A u \in User :
       /\ files'[u].records \in {files[u].records, {}}
       /\ u \in list => files'[u].records = files[u].records /\ (files[u].there => files'[u].there)
       /\ u \in meta'.users => files'[u].there
       /\ HasSecret(u)' /\ files[u].there => files'[u].there

LEMMA CommittedType ==
  ASSUME TypeOK, NEW s \in Save
  PROVE  Committed(s) \in [users : SUBSET User, active : Person] /\ Committed(s).users = save[s].users
<1>1. save[s].users \in SUBSET User /\ save[s].active \in SUBSET Person /\ active \in Person
  BY Fields DEF TypeOK, SaveType
<1>2. save[s].active # {} => (CHOOSE u \in save[s].active : TRUE) \in Person
  BY <1>1
<1> QED
  BY <1>1, <1>2 DEF Committed

LEMMA Created ==
  ASSUME TypeOK, NEW us \in SUBSET User
  PROVE  /\ WithProfiles(us) \in [User -> FileType]
         /\ \A u \in User : /\ WithProfiles(us)[u].records = files[u].records
                            /\ WithProfiles(us)[u].there = (files[u].there \/ u \in us)
BY DEF WithProfiles, TypeOK, FileType

LEMMA Removed ==
  ASSUME TypeOK, NEW us \in SUBSET User, NEW gone \in SUBSET Unlisted(us),
         files' = Without(WithProfiles(us), gone), secrets' = SecretsWithout(gone)
  PROVE  /\ files' \in [User -> FileType] /\ secrets' \subseteq secrets
         /\ \A u \in User :
              /\ u \in gone => u \notin us /\ ~files'[u].there /\ files'[u].records = {} /\ ~HasSecret(u)'
              /\ u \notin gone => /\ files'[u].records = files[u].records
                                  /\ files'[u].there = (files[u].there \/ u \in us)
<1>1. NoFile \in FileType /\ ~NoFile.there /\ NoFile.records = {}
  BY DEF NoFile, FileType, RecordSet
<1>2. files' \in [User -> FileType]
      /\ \A u \in User : files'[u] = IF u \in gone THEN NoFile ELSE WithProfiles(us)[u]
  BY <1>1, Created DEF Without
<1>3. secrets' \subseteq secrets /\ \A u \in gone : ~HasSecret(u)'
  BY DEF SecretsWithout, HasSecret, SecretsOf
<1>4. gone \cap us = {}
  BY DEF Unlisted
<1> QED
  BY <1>1, <1>2, <1>3, <1>4, Created

LEMMA PartIsWritten ==
  ASSUME TypeOK, FilesInv, NEW s \in Save, PartOfSaveVaultStore(s)
  PROVE  Written(save[s].users)
<1>0. save[s].users \in SUBSET User
  BY Fields
<1>1. ASSUME NEW us \in SUBSET save[s].users, files' = WithProfiles(us), UNCHANGED <<meta, secrets>>
      PROVE  Written(save[s].users)
  BY <1>0, <1>1, Created DEF Written, TypeOK, FilesInv
<1>2. ASSUME NEW gone \in SUBSET Unlisted(save[s].users), meta' = Committed(s),
             files' = Without(WithProfiles(save[s].users), gone), secrets' = SecretsWithout(gone)
      PROVE  Written(save[s].users)
  <2>1. meta' \in [users : SUBSET User, active : Person] /\ meta'.users = save[s].users
    BY <1>2, CommittedType
  <2>2. /\ files' \in [User -> FileType] /\ secrets' \subseteq secrets
        /\ \A u \in User :
             /\ u \in gone => u \notin save[s].users /\ ~files'[u].there /\ files'[u].records = {} /\ ~HasSecret(u)'
             /\ u \notin gone => /\ files'[u].records = files[u].records
                                 /\ files'[u].there = (files[u].there \/ u \in save[s].users)
    BY <1>0, <1>2, Removed
  <2> QED
    BY <2>1, <2>2 DEF Written
<1> QED
  BY <1>1, <1>2 DEF PartOfSaveVaultStore

(* A persist that has stored its list, or what it could of it.              *)
LEMMA WrittenKeeps ==
  ASSUME IInv, NEW s \in Save, Active(s), Written(save[s].users),
         NEW how \in {"done", "failed"}, save' = Ended(s, how),
         UNCHANGED <<up, who, memory, op, running, edits, kept, overtaken, orphaned, package>>,
         \/ failed' = TRUE /\ how = "failed"
         \/ /\ meta'.users = save[s].users
            /\ \A u \in User : files'[u].there => u \in save[s].users
  PROVE  IInv'
<1>0. TypeOK /\ PageInv /\ MemoryInv /\ FilesInv /\ SaveInv /\ PersistInv /\ ListInv /\ KeptInv /\ RestInv /\ SecretInv
  BY DEF IInv
<1>1. UNCHANGED <<up, users, active, session, mem, op, running, package, edits, kept, overtaken, orphaned>>
  BY DEF who, memory
<1>2. /\ save' \in [Save -> SaveType] /\ \A t \in Save : t # s => save'[t] = save[t]
      /\ s = Page => /\ save'[s].pc = how /\ save'[s].users = save[s].users
                     /\ save'[s].active = save[s].active
      /\ s # Page => save'[s].pc = "idle"
  BY <1>0, SlotEnds
<1>3. PersistMoves(s)
  <2>1. Carries(save'[s]) /\ (s = Page => ~Idle(s)') /\ (s # Page => Idle(s)')
    BY <1>2 DEF Carries, Idle
  <2> QED
    BY <1>1, <1>2, <2>1 DEF PersistMoves, Written
<1>4. TypeOK'
  BY <1>0, <1>1, <1>2 DEF TypeOK, Written
<1>5. FilesInv'
  BY <1>0, <1>1 DEF FilesInv, Written
<1>6. KeptInv'
  <2>1. ASSUME NEW u \in User, u \notin overtaken, kept[u] # {} PROVE files'[u].records = files[u].records
    BY <1>0, <2>1 DEF KeptInv, Known, Written
  <2>2. ASSUME NEW u \in User, u \notin overtaken PROVE kept[u] \subseteq files'[u].records /\ (kept[u] # {} => Known(u)')
    BY <1>0, <1>3, <2>1, <2>2, KnownStays DEF KeptInv
  <2> QED
    BY <1>1, <2>2 DEF KeptInv
<1>7. RestInv'
  <2>1. CASE failed' = TRUE /\ how = "failed"
    <3>1. save'[Page].pc = "done" => save[Page].pc = "done"
      BY <1>2, <2>1 DEF Save
    <3> QED
      BY <2>1 DEF RestInv
  <2>2. CASE /\ meta'.users = save[s].users
             /\ \A u \in User : files'[u].there => u \in save[s].users
    <3>1. up => Agree(meta.users, users)' /\ NoneElse(users)'
      BY <1>1, <2>2, OnTheList DEF Agree, NoneElse
    <3>2. Hydrating => NoneElse(save[Page].users)'
      BY <1>1, <1>3, <2>2, OnTheList, PersistMoved DEF NoneElse
    <3> QED
      BY <1>1, <1>3, <3>1, <3>2, PersistMoved DEF RestInv, Settling
  <2> QED
    BY <2>1, <2>2
<1>8. SecretInv'
  <2>1. ASSUME NEW u \in User, u \notin overtaken \cup orphaned, HasSecret(u)' PROVE files'[u].there \/ InHand(u)'
    <3>1. HasSecret(u)
      BY <2>1 DEF HasSecret, Written
    <3>2. files[u].there \/ InHand(u)
      BY <1>0, <2>1, <3>1 DEF SecretInv
    <3> QED
      BY <1>1, <2>1, <3>2 DEF Written, InHand, In, Hydrating
  <2> QED
    BY <1>1, <2>1 DEF SecretInv
<1> QED
  BY <1>3, <1>4, <1>5, <1>6, <1>7, <1>8, PersistMoved, ListsStay DEF IInv

LEMMA StoreKeeps == ASSUME IInv, NEW s \in Save, Store(s) PROVE IInv'
<1>0. TypeOK /\ FilesInv /\ save[s].users \in SUBSET User
  BY Fields DEF IInv
<1>1. Active(s) /\ SaveVaultStore(s)
  BY DEF Store, Active
<1>2. PartOfSaveVaultStore(s)
  BY <1>1 DEF PartOfSaveVaultStore, SaveVaultStore
<1>3. meta'.users = save[s].users /\ \A u \in User : files'[u].there => u \in save[s].users
  <2> DEFINE gone == Unlisted(save[s].users)
  <2>1. /\ meta' = Committed(s) /\ gone \in SUBSET gone
        /\ files' = Without(WithProfiles(save[s].users), gone) /\ secrets' = SecretsWithout(gone)
    BY <1>1 DEF SaveVaultStore
  <2>2. \A u \in User :
          /\ u \in gone => ~files'[u].there
          /\ u \notin gone => files'[u].there = (files[u].there \/ u \in save[s].users)
    BY <1>0, <2>1, Removed
  <2>3. \A u \in User : files[u].there /\ u \notin save[s].users => u \in gone
    BY DEF Unlisted
  <2> HIDE DEF gone
  <2> QED
    BY <1>0, <2>1, <2>2, <2>3, CommittedType
<1> QED
  BY <1>0, <1>1, <1>2, <1>3, PartIsWritten, WrittenKeeps DEF Store, counts

LEMMA FailSaveKeeps == ASSUME IInv, NEW s \in Save, FailSave(s) PROVE IInv'
<1>0. TypeOK /\ FilesInv
  BY DEF IInv
<1>1. Active(s)
  BY DEF FailSave, Active
<1>2. Written(save[s].users)
  <2>1. CASE save[s].pc = "store"
    BY <1>0, <2>1, PartIsWritten DEF FailSave
  <2>2. CASE save[s].pc # "store"
    BY <1>0, <2>2 DEF FailSave, stored, Written, TypeOK, FilesInv
  <2> QED
    BY <2>1, <2>2
<1> QED
  BY <1>1, <1>2, WrittenKeeps DEF FailSave

LEMMA RestartKeeps == ASSUME IInv, Restart PROVE IInv'
<1>0. TypeOK /\ PageInv /\ MemoryInv /\ FilesInv /\ SaveInv /\ PersistInv /\ ListInv /\ KeptInv /\ RestInv /\ SecretInv
  BY DEF IInv
<1>1. /\ UNCHANGED <<edits, kept, overtaken, failed, package>>
      /\ up' = FALSE /\ users' = {} /\ active' = NoUser /\ session' = NoUser /\ mem' = {}
      /\ op' = [kind |-> "hydrate", user |-> NoUser, pc |-> "load"]
      /\ save' = [s \in Save |-> NoSave] /\ running' = FALSE /\ orphaned' = Orphans
  BY DEF Restart, Closed
<1>2. op' \in OpType /\ op'.kind = "hydrate" /\ op'.user = NoUser /\ op'.pc = "load"
  BY <1>1, OpMade DEF Kinds, Places, Person
<1>3. PICK list \in SUBSET User :
        /\ Written(list)
        /\ \A u \in User \ overtaken : kept[u] # {} => u \in list
  <2>1. CASE UNCHANGED stored
    <3>1. Written(User)
      BY <1>0, <2>1 DEF stored, Written, TypeOK, FilesInv
    <3> QED
      BY <3>1
  <2>2. CASE \E s \in Save : save[s].pc = "store" /\ PartOfSaveVaultStore(s)
    <3>1. PICK s \in Save : save[s].pc = "store" /\ PartOfSaveVaultStore(s)
      BY <2>2
    <3>2. Written(save[s].users) /\ save[s].users \in SUBSET User
      BY <1>0, <3>1, PartIsWritten, Fields
    <3>3. \A u \in User \ overtaken : kept[u] # {} => u \in save[s].users
      BY <1>0, <3>1 DEF KeptInv, Known, Active
    <3> QED
      BY <3>2, <3>3
  <2> QED
    BY <2>1, <2>2 DEF Restart
<1>4. /\ orphaned' \in SUBSET User /\ orphaned \subseteq orphaned'
      /\ \A u \in User \ orphaned' : u \in users \cup {op.user} => files[u].there
  BY <1>0, <1>1, Fields, LocalUsersAssumption DEF Orphans, TypeOK, Person
<1>5. \A s \in Save : save'[s] = NoSave /\ save'[s].pc = "idle"
  BY <1>1, NoSaveType
<1>6. save' \in [Save -> SaveType]
  BY <1>1, NoSaveType
<1>7. TypeOK'
  BY <1>0, <1>1, <1>2, <1>3, <1>4, <1>6 DEF TypeOK, Written, Person, RecordSet
<1>8. PageInv' /\ MemoryInv' /\ FilesInv'
  BY <1>0, <1>1, <1>2, <1>3 DEF PageInv, MemoryInv, FilesInv, In, Written
<1>9. SaveInv' /\ PersistInv'
  <2>1. Page \in Save
    BY DEF Save
  <2> QED
    BY <1>2, <1>5, <2>1, QuietCarries DEF SaveInv, PersistInv, Idle, Active, Hydrating, Save
<1>10. ListInv' /\ RestInv'
  BY <1>1, <1>2, <1>5 DEF ListInv, RestInv, Settling, Active, Hydrating, Save
<1>11. Fresh' /\ \A s \in Save : ~Active(s)'
  BY <1>1, <1>2, <1>5 DEF Fresh, In, BackgroundIdle, Idle, Active, Save
<1>12. KeptInv'
  BY <1>0, <1>1, <1>2, <1>3, <1>11 DEF KeptInv, Known, Hydrating, Written
<1>13. SecretInv'
  <2>1. ASSUME NEW u \in User, u \notin overtaken \cup orphaned', HasSecret(u)' PROVE files'[u].there
    <3>1. HasSecret(u) /\ u \notin orphaned
      BY <1>3, <1>4, <2>1 DEF HasSecret, Written
    <3>2. files[u].there
      BY <1>0, <1>4, <2>1, <3>1 DEF SecretInv, InHand
    <3> QED
      BY <1>3, <2>1, <3>2 DEF Written
  <2> QED
    BY <1>1, <2>1 DEF SecretInv
<1> QED
  BY <1>7, <1>8, <1>9, <1>10, <1>12, <1>13 DEF IInv

-----------------------------------------------------------------------------
LEMMA InitIsFine == ASSUME Init PROVE IInv
<1>1. PICK listed \in SUBSET User :
        /\ listed # {}
        /\ meta = [users |-> listed, active |-> CHOOSE u \in listed : TRUE]
        /\ files = [u \in User |-> IF u \in listed
                     THEN [there |-> TRUE, records |-> FirstRecords(u)] ELSE NoFile]
        /\ secrets = SecretsOf(listed)
        /\ kept = [u \in User |-> files[u].records]
  BY DEF Init
<1>2. /\ up = TRUE /\ users = meta.users /\ active = meta.active /\ session = NoUser /\ mem = {}
      /\ op = NoOp /\ save = [s \in Save |-> NoSave] /\ edits = 0
      /\ package = [u \in User |-> FirstRecords(u)] /\ overtaken = {} /\ orphaned = {}
  BY DEF Init
<1>3. users = listed /\ meta.users = listed /\ active \in listed
  BY <1>1, <1>2
<1>4. \A u \in User : FirstRecords(u) \in RecordSet /\ FirstRecords(u) \subseteq {u} \X Nat
  BY DEF FirstRecords, RecordSet
<1>5. /\ files \in [User -> FileType] /\ kept \in [User -> RecordSet] /\ package \in [User -> RecordSet]
      /\ \A u \in User : /\ files[u].there <=> u \in listed
                         /\ files[u].records \subseteq {u} \X Nat /\ kept[u] = files[u].records
                         /\ u \notin listed => files[u].records = {}
                         /\ package[u] = FirstRecords(u)
  <2>1. NoFile \in FileType /\ ~NoFile.there /\ NoFile.records = {}
    BY DEF NoFile, FileType, RecordSet
  <2>2. \A u \in User : [there |-> TRUE, records |-> FirstRecords(u)] \in FileType
    BY <1>4 DEF FileType
  <2>3. files \in [User -> FileType]
    BY <1>1, <2>1, <2>2
  <2>4. \A u \in User : files[u] = IF u \in listed
                          THEN [there |-> TRUE, records |-> FirstRecords(u)] ELSE NoFile
    BY <1>1
  <2> QED
    BY <1>1, <1>2, <1>4, <2>1, <2>3, <2>4 DEF FileType
<1>6. op \in OpType /\ op.kind = "none" /\ op.user = NoUser /\ op.pc = "idle"
  BY <1>2 DEF NoOp, OpType, Kinds, Places, Person
<1>7. save \in [Save -> SaveType] /\ \A s \in Save : save[s] = NoSave /\ save[s].pc = "idle"
  BY <1>2, NoSaveType
<1>8. TypeOK
  <2>1. meta \in [users : SUBSET User, active : Person]
    BY <1>1 DEF Person
  <2>2. secrets \in SUBSET (User \X Secret)
    BY <1>1 DEF SecretsOf
  <2> QED
    BY <1>2, <1>3, <1>5, <1>6, <1>7, <2>1, <2>2 DEF TypeOK, Person, RecordSet
<1>9. PageInv /\ MemoryInv /\ FilesInv
  BY <1>2, <1>3, <1>4, <1>5, <1>6 DEF PageInv, MemoryInv, FilesInv, In
<1>10. SaveInv /\ PersistInv /\ ListInv
  BY <1>2, <1>6, <1>7, QuietCarries DEF SaveInv, PersistInv, ListInv, Idle, Active, Hydrating, Save
<1>11. KeptInv
  BY <1>2, <1>3, <1>5, <1>6, <1>7 DEF KeptInv, Known, Active, Hydrating
<1>12. RestInv
  BY <1>3, <1>5, <1>6 DEF RestInv, Agree, NoneElse, Hydrating
<1>13. SecretInv
  BY <1>1, <1>5 DEF SecretInv, HasSecret, SecretsOf
<1> QED
  BY <1>8, <1>9, <1>10, <1>11, <1>12, <1>13 DEF IInv

LEMMA NothingHappens == ASSUME IInv, UNCHANGED vars PROVE IInv'
<1>0. TypeOK /\ PageInv /\ MemoryInv /\ FilesInv /\ SaveInv /\ PersistInv /\ ListInv /\ KeptInv /\ RestInv /\ SecretInv
  BY DEF IInv
<1>1. UNCHANGED <<meta, files, secrets, up, users, active, session, mem, op, save, running, package, edits,
                  kept, overtaken, orphaned, failed>>
  BY DEF vars, stored, who, memory, counts, aux
<1>2. TypeOK' /\ PageInv' /\ MemoryInv' /\ FilesInv' /\ SaveInv' /\ PersistInv'
  BY <1>0, <1>1, ZenonT(60) DEF TypeOK, PageInv, MemoryInv, FilesInv, SaveInv, PersistInv, In, Idle, Active, Hydrating
<1>3. ListInv' /\ RestInv' /\ SecretInv'
  BY <1>0, <1>1 DEF ListInv, Current, RestInv, SecretInv, In, Idle, BackgroundIdle, Active, Hydrating,
                    Agree, Settling, NoneElse, HasSecret, InHand
<1>4. KeptInv'
  BY <1>0, <1>1 DEF KeptInv, Known, Active, Hydrating, Fresh, BackgroundIdle, Idle, In
<1> QED
  BY <1>2, <1>3, <1>4 DEF IInv

LEMMA Inductive == ASSUME IInv, [Next]_vars PROVE IInv'
<1>1. ASSUME NEW s \in Background, ChangeSetting(s) \/ ChangeItem(s) \/ EndRun(s) PROVE IInv'
  BY <1>1, ChangeSettingKeeps, ChangeItemKeeps, EndRunKeeps
<1>2. ASSUME NEW s \in Save, Encrypt(s) \/ Upsert(s) \/ Store(s) \/ FailSave(s) PROVE IInv'
  BY <1>2, EncryptKeeps, UpsertKeeps, StoreKeeps, FailSaveKeeps
<1>3. ASSUME NEW u \in User, Add("restore", u) \/ Add("create", u) \/ Switch(u) \/ RestoreBackup(u) PROVE IInv'
  BY <1>3, AddKeeps, SwitchKeeps, RestoreBackupKeeps
<1>4. CASE StartRun \/ SavedBefore \/ GiveUp \/ SaveSecret \/ FailSecret \/ Join \/ Enter
  BY <1>4, StartRunKeeps, SavedBeforeKeeps, GiveUpKeeps, SaveSecretKeeps, FailSecretKeeps, JoinKeeps, EnterKeeps
<1>5. CASE WriteRecords \/ FailRecords \/ Saved \/ Remove \/ Forget \/ FailForget \/ Leave
  BY <1>5, WriteRecordsKeeps, FailRecordsKeeps, SavedKeeps, RemoveKeeps, ForgetKeeps, FailForgetKeeps, LeaveKeeps
<1>6. CASE Switched \/ Unlock \/ Load \/ Lock \/ ExportBackup \/ Adopt
  BY <1>6, SwitchedKeeps, UnlockKeeps, LoadKeeps, LockKeeps, ExportBackupKeeps, AdoptKeeps
<1>7. CASE HydrateLoad \/ Hydrated \/ FailHydrate \/ Restart
  BY <1>7, HydrateLoadKeeps, HydratedKeeps, FailHydrateKeeps, RestartKeeps
<1>8. CASE UNCHANGED vars
  BY <1>8, NothingHappens
<1> QED
  BY <1>1, <1>2, <1>3, <1>4, <1>5, <1>6, <1>7, <1>8 DEF Next

LEMMA Invariance == Spec => []IInv
<1>1. Init => IInv
  BY InitIsFine
<1>2. IInv /\ [Next]_vars => IInv'
  BY Inductive
<1> QED
  BY <1>1, <1>2, PTL DEF Spec

LEMMA IInvSays ==
  ASSUME IInv
  PROVE  RecordsAreKept /\ NothingIsLeftBehind
<1>0. TypeOK /\ PageInv /\ MemoryInv /\ FilesInv /\ SaveInv /\ PersistInv /\ ListInv /\ KeptInv /\ RestInv /\ SecretInv
  BY DEF IInv
<1>1. RecordsAreKept
  <2>1. Listed \subseteq User
    BY <1>0, Fields DEF Listed, TypeOK
  <2>2. ASSUME NEW u \in User, u \notin overtaken
        PROVE  kept[u] \subseteq files[u].records /\ files[u].records \subseteq {u} \X Nat
    BY <1>0, <2>2 DEF KeptInv, FilesInv
  <2> QED
    BY <2>1, <2>2 DEF RecordsAreKept
<1>2. NothingIsLeftBehind
  <2>1. ASSUME AtRest, ~failed, NEW u \in User, u \notin overtaken
        PROVE  /\ u \in users <=> u \in meta.users
               /\ u \notin users => ~files[u].there
               /\ u \notin users \cup orphaned => secrets \cap SecretsOf({u}) = {}
    <3>1. up /\ op.kind = "none" /\ op.pc = "idle"
      BY <2>1 DEF AtRest, NoOp
    <3>2. Agree(meta.users, users) /\ NoneElse(users)
      BY <1>0, <2>1, <3>1 DEF RestInv, Settling, In
    <3>3. u \notin users \cup orphaned => ~HasSecret(u)
      BY <1>0, <2>1, <3>1, <3>2 DEF SecretInv, InHand, In, NoneElse
    <3> QED
      BY <2>1, <3>2, <3>3 DEF Agree, NoneElse, HasSecret
  <2> QED
    BY <2>1 DEF NothingIsLeftBehind
<1> QED
  BY <1>1, <1>2

(* The list, the directories, the key ring and the persists under way have  *)
(* their types: persist() never carries a user who does not exist.          *)
THEOREM Typing == Spec => []TypeOK
<1>1. IInv => TypeOK
  BY DEF IInv
<1> QED
  BY <1>1, Invariance, PTL

(* save_vault_store deletes what is on no list, and the lists under way may *)
(* be old: the records of a listed user are all there, and only theirs,     *)
(* however many persists, failures and restarts there are.                  *)
THEOREM RecordsKept == Spec => []RecordsAreKept
<1>1. IInv => RecordsAreKept
  BY IInvSays
<1> QED
  BY <1>1, Invariance, PTL

(* cleanup_removed_user_dirs and cleanup_user_secure_storage: at rest nobody*)
(* who has left has a directory or a secret, and the stored list is the one *)
(* the page shows.                                                          *)
THEOREM NothingLeft == Spec => []NothingIsLeftBehind
<1>1. IInv => NothingIsLeftBehind
  BY IInvSays
<1> QED
  BY <1>1, Invariance, PTL
=============================================================================
