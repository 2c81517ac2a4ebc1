--------------------------- MODULE VaultSyncProofs ---------------------------
(***************************************************************************)
(* Invariants of VaultSync for any number of devices, objects, edits,       *)
(* failures, restarts and disconnections, as long as the runs of a device   *)
(* follow one another and what waits to be uploaded is not edited again.    *)
(***************************************************************************)
EXTENDS VaultSync, FiniteSetTheorems, SequenceTheorems, WellFoundedInduction, TLAPS

USE ObjectAssumption DEF ObjectAssumption

ContentType == [edit : Nat, deleted : BOOLEAN]
VersionType == [revision : Nat, content : ContentType]
Event == [object : Object, version : VersionType]
Operation == [object : Object, base : Nat, revision : Nat, content : ContentType]
AnswerType == [object : Object, kind : {"accepted", "conflict"}, revision : Nat, id : Nat]
SettingsType == [cursor : Nat, synced : BOOLEAN, bound : BOOLEAN]
Place ==
  Phases \cup {"idle", "building", "pushing", "asking", "acking", "wrapping"}

RemoteOK == server \in [Object -> VersionType] /\ log \in Seq(Event) /\ strays \subseteq Operation
LocalOK ==
  /\ mem \in [Device -> [Object -> Record \cup {Absent}]]
  /\ disk \in [Device -> [Object -> Record \cup {Absent}]]
  /\ settings \in [Device -> SettingsType] /\ saved \in [Device -> SettingsType]
Verdicts == {"none", "apply", "conflict", "skip"}

Operations == SUBSET Operation
Answers == SUBSET AnswerType
Ids == SUBSET Nat
Cursors == Nat

Slots(f, T) == f \in [Device -> [Run -> T]]

RunOK ==
  /\ Slots(pc, Place)
  /\ Slots(sent, Operations)
  /\ Slots(answers, Answers)
  /\ Slots(todo, Ids)
  /\ Slots(verdict, Verdicts)
  /\ Slots(at, Cursors)
  /\ Slots(repaired, BOOLEAN)
  /\ Slots(more, BOOLEAN)
EditsOK == edits \in Seq({edits[n] : n \in DOMAIN edits})

(* What a run has to look at is in the log, and it is looking only then.    *)
TodoSlot(d, r) ==
  /\ todo[d][r] \subseteq DOMAIN log
  /\ todo[d][r] # {} => pc[d][r] \in Phases
  /\ verdict[d][r] # "none" => todo[d][r] # {}
  /\ \A a \in ConflictsOf(d, r) : a.id # 0 => a.id \in EventsOf(a.object)

TodoInv == \A d \in Device, r \in Run : TodoSlot(d, r)

Shape == RemoteOK /\ LocalOK /\ RunOK /\ EditsOK /\ TodoInv

-----------------------------------------------------------------------------
(* A step saves the settings of a device, which few invariants look at, or  *)
(* is one of the others.                                                    *)
Move ==
  \/ \E d \in Device : Change(d) \/ Restart(d) \/ Disconnect(d)
  \/ \E d \in Device, r \in Run :
       Start(d, r) \/ Bind(d, r) \/ Step(d, r) \/ Fail(d, r) \/ Refused(d, r)
  \/ \E op \in strays : ServeStray(op)

Saves ==
  /\ UNCHANGED <<server, log, strays, mem, settings, disk>>
  /\ UNCHANGED <<pc, sent, answers, todo, verdict, at, repaired, more, edits, restarts, unbinds>>
  /\ saved' = saved \/ \E d \in Device : saved' = [saved EXCEPT ![d] = settings[d]]

LEMMA MoveOrSaves ==
  ASSUME [Next]_vars
  PROVE  Move \/ Saves
<1>1. CASE UNCHANGED vars
  BY <1>1 DEF vars, remote, local, run, counts, Saves
<1>2. ASSUME NEW d \in Device, SaveStore(d) PROVE Saves
  BY <1>2 DEF SaveStore, remote, run, counts, Saves
<1> QED
  BY <1>1, <1>2 DEF Next, Move

-----------------------------------------------------------------------------
(* A change of one place of a table.                                        *)
LEMMA OnePlace ==
  ASSUME NEW D, NEW R, NEW T, NEW f \in [D -> [R -> T]], NEW d \in D, NEW r \in R, NEW x \in T
  PROVE  /\ [f EXCEPT ![d][r] = x] \in [D -> [R -> T]]
         /\ [f EXCEPT ![d][r] = x][d][r] = x
         /\ \A e \in D, s \in R : e # d \/ s # r => [f EXCEPT ![d][r] = x][e][s] = f[e][s]
OBVIOUS

LEMMA MinIsLeast ==
  ASSUME NEW S \in SUBSET Nat, S # {}
  PROVE  Min(S) \in S /\ \A s \in S : Min(S) <= s
<1>1. PICK m \in S : \A s \in S : ~ (<<s, m>> \in OpToRel(<, Nat))
  BY NatLessThanWellFounded, WFMin
<1>2. \A s \in S : m =< s
  <2> SUFFICES ASSUME NEW s \in S PROVE ~(s < m)
    OBVIOUS
  <2>1. <<s, m>> \in Nat \X Nat
    OBVIOUS
  <2>2. ~(<<s, m>> \in {ss \in Nat \X Nat : ss[1] < ss[2]})
    BY <1>1 DEF OpToRel
  <2> QED
    BY <2>1, <2>2
<1> QED
  BY <1>2 DEF Min

LEMMA MaxOfBounded ==
  ASSUME NEW S \in SUBSET Nat, S # {}, NEW n \in Nat, \A s \in S : s <= n
  PROVE  Max(S) \in S /\ \A s \in S : s <= Max(S)
<1> DEFINE T == {k \in Nat : \A s \in S : s <= k}
<1>1. Min(T) \in T /\ \A k \in T : Min(T) <= k
  <2>1. n \in T
    OBVIOUS
  <2> QED
    BY <2>1, MinIsLeast
<1> DEFINE m == Min(T)
<1> HIDE DEF m
<1>2. m \in Nat /\ \A s \in S : s <= m
  BY <1>1 DEF m
<1>3. m \in S
  <2> SUFFICES ASSUME m \notin S PROVE FALSE
    OBVIOUS
  <2>1. PICK s \in S : TRUE
    OBVIOUS
  <2>2. m - 1 \in Nat /\ \A t \in S : t <= m - 1
    BY <1>2, <2>1
  <2>3. m - 1 \in T
    BY <2>2
  <2> QED
    BY <1>1, <1>2, <2>3 DEF m
<1> QED
  BY <1>2, <1>3 DEF Max

(* The server's operations.                                                 *)
LEMMA WriteEffect ==
  ASSUME RemoteOK, NEW op \in Operation, Write(op)
  PROVE  /\ RemoteOK' <=> strays' \subseteq Operation
         /\ server'[op.object] = [revision |-> server[op.object].revision + 1, content |-> op.content]
         /\ \A o \in Object \ {op.object} : server'[o] = server[o]
         /\ Len(log') = Len(log) + 1 /\ DOMAIN log' = DOMAIN log \cup {Len(log) + 1}
         /\ \A i \in DOMAIN log : log'[i] = log[i]
         /\ log'[Len(log) + 1] = [object |-> op.object, version |-> server'[op.object]]
<1> DEFINE v == [revision |-> server[op.object].revision + 1, content |-> op.content]
           e == [object |-> op.object, version |-> v]
<1>1. op.object \in Object /\ op.content \in ContentType /\ server[op.object].revision \in Nat
  BY DEF Operation, RemoteOK, VersionType
<1>2. v \in VersionType /\ e \in Event
  BY <1>1 DEF VersionType, Event
<1>3. server' = [server EXCEPT ![op.object] = v] /\ log' = Append(log, [object |-> op.object, version |-> server'[op.object]])
  BY DEF Write, Store!Put
<1> HIDE DEF v, e
<1>4. server' \in [Object -> VersionType] /\ server'[op.object] = v /\ \A o \in Object \ {op.object} : server'[o] = server[o]
  BY <1>1, <1>2, <1>3 DEF RemoteOK
<1>5. log' = Append(log, e)
  BY <1>3, <1>4 DEF e
<1>6. /\ log' \in Seq(Event) /\ Len(log') = Len(log) + 1 /\ log'[Len(log) + 1] = e
      /\ \A i \in 1 .. Len(log) : log'[i] = log[i]
  BY <1>2, <1>5, AppendProperties DEF RemoteOK
<1>7. DOMAIN log = 1 .. Len(log) /\ DOMAIN log' = 1 .. Len(log') /\ Len(log) \in Nat
  BY <1>6, LenProperties DEF RemoteOK
<1>8. RemoteOK' <=> strays' \subseteq Operation
  BY <1>4, <1>6 DEF RemoteOK
<1> QED
  BY <1>4, <1>6, <1>7, <1>8 DEF v, e

-----------------------------------------------------------------------------
(* Records and tables of records.                                           *)
Table == [Object -> Record \cup {Absent}]

LEMMA RecordTypes ==
  /\ \A c \in ContentType : NewRecord(c) \in Record
  /\ \A v \in VersionType : CleanRecord(v) \in Record
  /\ \A rec \in Record, n \in Nat :
       /\ [rec EXCEPT !.state = "conflicted"] \in Record
       /\ [rec EXCEPT !.revision = n, !.base = n, !.state = "clean"] \in Record
  /\ FirstContent \in ContentType
<1>1. \A c \in ContentType : NewRecord(c) \in Record
  BY DEF NewRecord, Record, ContentType, SyncState
<1>2. \A v \in VersionType : CleanRecord(v) \in Record
  BY DEF CleanRecord, Record, VersionType, ContentType, SyncState
<1>3. ASSUME NEW rec \in Record, NEW n \in Nat
      PROVE  /\ [rec EXCEPT !.state = "conflicted"] \in Record
             /\ [rec EXCEPT !.revision = n, !.base = n, !.state = "clean"] \in Record
  BY DEF Record, SyncState
<1>4. FirstContent \in ContentType
  BY DEF FirstContent, ContentType
<1> QED
  BY <1>1, <1>2, <1>3, <1>4

LEMMA FieldTypes ==
  ASSUME NEW rec \in Record
  PROVE  /\ rec.revision \in Nat /\ rec.base \in Nat /\ rec.content \in ContentType
         /\ rec.state \in {"clean", "dirty", "conflicted"} /\ rec # Absent
         /\ rec.content.edit \in Nat /\ rec.content.deleted \in BOOLEAN
BY DEF Record, ContentType, SyncState

LEMMA ChangedType ==
  ASSUME EditsOK, NEW rec \in Record, NEW removes \in BOOLEAN
  PROVE  /\ Changed(rec, removes) \in Record
         /\ Changed(rec, removes).base = rec.revision
         /\ Changed(rec, removes).revision = rec.revision + 1
         /\ Changed(rec, removes).state = "dirty"
         /\ Changed(rec, removes).content = NextContent(removes)
<1>1. Len(edits) + 1 \in Nat
  BY LenProperties DEF EditsOK
<1>2. NextContent(removes) \in ContentType
  BY <1>1 DEF NextContent, ContentType
<1> QED
  BY <1>2, FieldTypes DEF Changed, Record, SyncState, ContentType

LEMMA ChangedBoth ==
  ASSUME EditsOK, NEW rec \in Record, NEW x, x = Changed(rec, FALSE) \/ x = Changed(rec, TRUE)
  PROVE  /\ x \in Record /\ x.base = rec.revision /\ x.state = "dirty" /\ x.revision = x.base + 1
         /\ x.content.edit = Len(edits) + 1
<1>1. ASSUME NEW b \in BOOLEAN, x = Changed(rec, b)
      PROVE  /\ x \in Record /\ x.base = rec.revision /\ x.state = "dirty" /\ x.revision = x.base + 1
             /\ x.content.edit = Len(edits) + 1
  <2>1. /\ x \in Record /\ x.base = rec.revision /\ x.state = "dirty" /\ x.revision = rec.revision + 1
        /\ x.content = NextContent(b)
    BY <1>1, ChangedType
  <2>2. NextContent(b).edit = Len(edits) + 1
    BY DEF NextContent
  <2> QED
    BY <2>1, <2>2
<1> QED
  BY <1>1, Zenon

LEMMA TableTypes ==
  ASSUME NEW t \in Table
  PROVE  /\ \A o \in Object, v \in VersionType : WithRemote(t, o, v) \in Table
         /\ \A o \in Object : MarkedConflicted(t, o) \in Table
         /\ ResetForUpload(t) \in Table
         /\ \A n \in Nat : MissingReset(t, n) \in Table
         /\ \A accepted \in SUBSET AnswerType :
              WithAccepted(t, accepted) \in Table /\ WithoutDeleted(t, accepted) \in Table
<1>0. \A o \in Object : t[o] # Absent => t[o] \in Record /\ t[o].content \in ContentType
  BY FieldTypes DEF Table
<1>1. ASSUME NEW o \in Object, NEW v \in VersionType PROVE WithRemote(t, o, v) \in Table
  BY RecordTypes DEF WithRemote, Table
<1>2. ASSUME NEW o \in Object PROVE MarkedConflicted(t, o) \in Table
  <2>1. t[o] # Absent => [t[o] EXCEPT !.state = "conflicted"] \in Record
    BY <1>0, RecordTypes, Zenon
  <2> QED
    BY <2>1 DEF MarkedConflicted, Table
<1>3. ResetForUpload(t) \in Table
  BY <1>0, RecordTypes DEF ResetForUpload, Table
<1>4. ASSUME NEW n \in Nat PROVE MissingReset(t, n) \in Table
  <2>1. \A o \in Object : t[o] # Absent => NewRecord(t[o].content) \in Record
    BY <1>0, RecordTypes
  <2> QED
    BY <2>1 DEF MissingReset, Table
<1>5. ASSUME NEW accepted \in SUBSET AnswerType PROVE WithAccepted(t, accepted) \in Table
  <2>1. ASSUME NEW o \in Object, t[o] # Absent, \E a \in accepted : a.object = o
        PROVE  LET a == CHOOSE x \in accepted : x.object = o
               IN  [t[o] EXCEPT !.revision = a.revision, !.base = a.revision, !.state = "clean"] \in Record
    <3> DEFINE a == CHOOSE x \in accepted : x.object = o
    <3>1. a \in accepted
      BY <2>1
    <3>2. a.revision \in Nat
      BY <3>1 DEF AnswerType
    <3> HIDE DEF a
    <3>3. [t[o] EXCEPT !.revision = a.revision, !.base = a.revision, !.state = "clean"] \in Record
      BY <1>0, <2>1, <3>2, RecordTypes
    <3> QED
      BY <3>3 DEF a
  <2> QED
    BY <2>1 DEF WithAccepted, Table
<1>6. ASSUME NEW accepted \in SUBSET AnswerType PROVE WithoutDeleted(t, accepted) \in Table
  BY DEF WithoutDeleted, Table
<1> QED
  BY <1>1, <1>2, <1>3, <1>4, <1>5, <1>6

(* Saving writes what is in memory, and leaves the records of the rest.     *)
LEMMA PersistEffect ==
  ASSUME LocalOK, NEW d \in Device, Persist(d), mem'[d] \in Table
  PROVE  /\ disk' \in [Device -> Table] /\ saved' = saved
         /\ \A o \in Object : disk'[d][o] = IF mem'[d][o] # Absent THEN mem'[d][o] ELSE disk[d][o]
         /\ \A e \in Device \ {d} : disk'[e] = disk[e]
<1>1. Persisted(d, mem'[d]) \in Table
  BY DEF Persisted, LocalOK, Table
<1>2. disk' = [disk EXCEPT ![d] = Persisted(d, mem'[d])] /\ saved' = saved
  BY DEF Persist
<1>3. disk'[d] = Persisted(d, mem'[d])
  BY <1>2 DEF LocalOK
<1> QED
  BY <1>1, <1>2, <1>3 DEF LocalOK, Table, Persisted

(* A step touches the store of one device; a change of the settings is made *)
(* with the records written.                                                *)
LocalMove(d) ==
  /\ mem' \in [Device -> Table] /\ settings' \in [Device -> SettingsType]
  /\ \A e \in Device \ {d} : mem'[e] = mem[e] /\ settings'[e] = settings[e]
  /\ Persist(d) \/ UNCHANGED <<settings, disk, saved>>

LEMMA LocalMoveType ==
  ASSUME LocalOK, NEW d \in Device, LocalMove(d)
  PROVE  /\ LocalOK' /\ saved' = saved
         /\ \A e \in Device \ {d} : /\ mem'[e] = mem[e] /\ settings'[e] = settings[e]
                                    /\ disk'[e] = disk[e]
         /\ \/ disk'[d] = disk[d] /\ settings'[d] = settings[d]
            \/ \A o \in Object : disk'[d][o] = IF mem'[d][o] # Absent THEN mem'[d][o] ELSE disk[d][o]
<1>1. mem'[d] \in Table
  BY DEF LocalMove
<1>2. CASE Persist(d)
  BY <1>1, <1>2, PersistEffect DEF LocalMove, LocalOK, Table
<1>3. CASE UNCHANGED <<settings, disk, saved>>
  BY <1>3 DEF LocalMove, LocalOK, Table
<1> QED
  BY <1>2, <1>3 DEF LocalMove

LEMMA LocalParts ==
  ASSUME LocalOK
  PROVE  /\ mem \in [Device -> Table] /\ disk \in [Device -> Table]
         /\ settings \in [Device -> SettingsType] /\ saved \in [Device -> SettingsType]
         /\ \A d \in Device, o \in Object : /\ mem[d][o] # Absent => mem[d][o] \in Record
                                            /\ disk[d][o] # Absent => disk[d][o] \in Record
BY DEF LocalOK, Table

(* The user's changes: what is left of an object is a change of what it was,*)
(* or the object is new to everybody.                                       *)
IsNew(d, o) ==
  /\ mem[d][o] = Absent /\ server[o].revision = 0
  /\ \A e \in Device : disk[e][o] = Absent /\ mem[e][o] = Absent
  /\ mem'[d][o] = NewRecord(NextContent(FALSE))

IsChanged(d, o) ==
  /\ mem[d][o] # Absent /\ mem[d][o].state \in EditStates
  /\ \/ mem'[d][o] = Changed(mem[d][o], FALSE)
     \/ mem'[d][o] = Changed(mem[d][o], TRUE) /\ VaultOf[o] \in Deletable
  /\ Under(mem[d][o]) \subseteq edits'[Len(edits) + 1].under

UserMove(d) ==
  /\ LocalMove(d) /\ Persist(d) /\ settings' = settings
  /\ UNCHANGED <<remote, run, counts>>
  /\ EditsDuringRun \/ Idle(d)
  /\ EditsOK' /\ Len(edits) \in Nat /\ DOMAIN edits' = DOMAIN edits \cup {Len(edits) + 1}
  /\ edits'[Len(edits) + 1].by = d
  /\ \A n \in DOMAIN edits : edits'[n] = edits[n]
  /\ \A o \in Object : mem'[d][o] = mem[d][o] \/ IsNew(d, o) \/ IsChanged(d, o)

EditsChange(d, U) ==
  /\ EditsOK' /\ Len(edits) \in Nat /\ DOMAIN edits' = DOMAIN edits \cup {Len(edits) + 1}
  /\ edits'[Len(edits) + 1].by = d /\ edits'[Len(edits) + 1].under = U
  /\ \A n \in DOMAIN edits : edits'[n] = edits[n]

LEMMA Remembered ==
  ASSUME EditsOK, NEW d, NEW U, Remember(d, U)
  PROVE  EditsChange(d, U)
<1> DEFINE e == [by |-> d, under |-> U]
           T == {edits[n] : n \in DOMAIN edits}
           S == T \cup {e}
<1> HIDE DEF e
<1>1. edits \in Seq(T) /\ edits' = Append(edits, e)
  BY DEF EditsOK, Remember, e
<1>2. Len(edits) \in Nat /\ DOMAIN edits = 1 .. Len(edits) /\ \A n \in DOMAIN edits : edits[n] \in T
  <2> HIDE DEF T
  <2> QED
    BY <1>1, LenProperties
<1>3. edits \in Seq(S) /\ e \in S
  <2> HIDE DEF T
  <2> QED
    BY <1>1, <1>2
<1>4. /\ Len(edits') = Len(edits) + 1 /\ edits'[Len(edits) + 1] = e /\ edits' \in Seq(S)
      /\ \A i \in 1 .. Len(edits) : edits'[i] = edits[i]
  <2> HIDE DEF S
  <2> QED
    BY <1>1, <1>3, AppendProperties
<1>5. DOMAIN edits' = 1 .. Len(edits) + 1 /\ edits' = [i \in 1 .. Len(edits) + 1 |-> edits'[i]]
  <2> HIDE DEF S
  <2> QED
    BY <1>2, <1>4, LenProperties
<1>6. edits' \in Seq({edits'[n] : n \in DOMAIN edits'})
  BY <1>2, <1>5
<1> QED
  BY <1>2, <1>4, <1>5, <1>6 DEF EditsChange, EditsOK, e

LEMMA UserMoves ==
  ASSUME Shape, NEW d \in Device, Change(d)
  PROVE  UserMove(d)
<1>0. LocalOK /\ EditsOK /\ mem \in [Device -> Table] /\ settings \in [Device -> SettingsType]
      /\ \A o \in Object : mem[d][o] # Absent => mem[d][o] \in Record
  BY LocalParts DEF Shape
<1>1. PICK o \in Object : EditItem(d, o) \/ Create(d, o) \/ DeleteVault(d, o)
  BY DEF Change
<1>n. NewRecord(NextContent(FALSE)) \in Record
  <2>1. Len(edits) \in Nat
    <3> DEFINE T == {edits[n] : n \in DOMAIN edits}
    <3>1. edits \in Seq(T)
      BY <1>0 DEF EditsOK
    <3> HIDE DEF T
    <3> QED
      BY <3>1, LenProperties
  <2>2. NextContent(FALSE) \in ContentType
    BY <2>1 DEF NextContent, ContentType
  <2> QED
    BY <2>2, RecordTypes
<1>2. CASE EditItem(d, o)
  <2>1. /\ Persist(d) /\ settings' = settings /\ UNCHANGED <<remote, run, counts>> /\ CanChange(d)
        /\ mem' = [mem EXCEPT ![d][o] = Changed(@, FALSE)] /\ Remember(d, Under(mem[d][o]))
        /\ mem[d][o] # Absent /\ mem[d][o].state \in EditStates
    BY <1>2 DEF EditItem, Live, Has
  <2>2. Changed(mem[d][o], FALSE) \in Record
    BY <1>0, <2>1, ChangedType
  <2>3. /\ mem' \in [Device -> Table] /\ mem'[d][o] = Changed(mem[d][o], FALSE)
        /\ \A x \in Object \ {o} : mem'[d][x] = mem[d][x]
        /\ \A e \in Device \ {d} : mem'[e] = mem[e]
    BY <1>0, <2>1, <2>2 DEF Table
  <2> DEFINE U == Under(mem[d][o])
  <2> HIDE DEF U
  <2>e. EditsChange(d, U)
    BY <1>0, <2>1, Remembered DEF U
  <2>4. IsChanged(d, o)
    BY <2>1, <2>3, <2>e DEF IsChanged, EditsChange, U
  <2>5. LocalMove(d)
    BY <1>0, <2>1, <2>3 DEF LocalMove
  <2>6. \A x \in Object : mem'[d][x] = mem[d][x] \/ IsNew(d, x) \/ IsChanged(d, x)
    BY <2>3, <2>4
  <2> QED
    BY <2>1, <2>5, <2>6, <2>e DEF UserMove, CanChange, EditsChange
<1>3. CASE Create(d, o)
  <2>1. /\ Persist(d) /\ settings' = settings /\ UNCHANGED <<remote, run, counts>> /\ CanChange(d)
        /\ mem' = [mem EXCEPT ![d][o] = NewRecord(NextContent(FALSE))] /\ Remember(d, {})
        /\ server[o].revision = 0 /\ \A e \in Device : mem[e][o] = Absent /\ disk[e][o] = Absent
    BY <1>3 DEF Create, Has
  <2>2. /\ mem' \in [Device -> Table] /\ mem'[d][o] = NewRecord(NextContent(FALSE))
        /\ \A x \in Object \ {o} : mem'[d][x] = mem[d][x]
        /\ \A e \in Device \ {d} : mem'[e] = mem[e]
    BY <1>0, <2>1, <1>n DEF Table
  <2>3. IsNew(d, o)
    BY <2>1, <2>2 DEF IsNew
  <2>4. EditsChange(d, {})
    BY <1>0, <2>1, Remembered
  <2>5. LocalMove(d)
    BY <1>0, <2>1, <2>2 DEF LocalMove
  <2>6. \A x \in Object : mem'[d][x] = mem[d][x] \/ IsNew(d, x) \/ IsChanged(d, x)
    BY <2>2, <2>3
  <2> QED
    BY <2>1, <2>4, <2>5, <2>6 DEF UserMove, CanChange, EditsChange
<1>4. CASE DeleteVault(d, o)
  <2> DEFINE removed == {x \in Object : VaultOf[x] = o /\ Live(d, x)}
             U == UNION {Under(mem[d][x]) : x \in removed}
             t == [x \in Object |-> IF x \in removed THEN Changed(mem[d][x], TRUE) ELSE mem[d][x]]
  <2>1. /\ Persist(d) /\ settings' = settings /\ UNCHANGED <<remote, run, counts>> /\ CanChange(d)
        /\ mem' = [mem EXCEPT ![d] = t] /\ Remember(d, U) /\ o \in Deletable
        /\ \A x \in removed : mem[d][x].state \in EditStates
    BY <1>4 DEF DeleteVault
  <2>e. EditsChange(d, U)
    <3> HIDE DEF U
    <3> QED
      BY <1>0, <2>1, Remembered
  <2>2. \A x \in removed : mem[d][x] # Absent /\ Changed(mem[d][x], TRUE) \in Record
    BY <1>0, ChangedType DEF Live, Has
  <2>3. t \in Table
    <3> HIDE DEF removed
    <3> QED
      BY <1>0, <2>2 DEF Table
  <2>4. mem' \in [Device -> Table] /\ mem'[d] = t /\ \A e \in Device \ {d} : mem'[e] = mem[e]
    <3> HIDE DEF t
    <3> QED
      BY <1>0, <2>1, <2>3
  <2>5. ASSUME NEW x \in Object PROVE mem'[d][x] = mem[d][x] \/ IsChanged(d, x)
    <3>1. CASE x \in removed
      <4>1. Under(mem[d][x]) \subseteq U /\ VaultOf[x] = o
        BY <3>1
      <4>2. edits'[Len(edits) + 1].under = U
        BY <2>e DEF EditsChange
      <4>3. mem'[d][x] = Changed(mem[d][x], TRUE)
        BY <2>4, <3>1
      <4> HIDE DEF U, t, removed
      <4> QED
        BY <2>1, <2>2, <3>1, <4>1, <4>2, <4>3 DEF IsChanged
    <3>2. CASE x \notin removed
      BY <2>4, <3>2
    <3> QED
      BY <3>1, <3>2
  <2> HIDE DEF U, t, removed
  <2>6. LocalMove(d)
    BY <1>0, <2>1, <2>4 DEF LocalMove
  <2> QED
    BY <2>1, <2>5, <2>6, <2>e DEF UserMove, CanChange, EditsChange
<1> QED
  BY <1>1, <1>2, <1>3, <1>4

-----------------------------------------------------------------------------
(* A step of a run touches the state of that run only.                      *)
SlotStep(f, g, d, r, x) == g = [f EXCEPT ![d][r] = x] \/ (x = f[d][r] /\ g = f)

RunStep(d, r, p, s, a, t, v, c, f, m) ==
  /\ SlotStep(pc, pc', d, r, p)
  /\ SlotStep(sent, sent', d, r, s)
  /\ SlotStep(answers, answers', d, r, a)
  /\ SlotStep(todo, todo', d, r, t)
  /\ SlotStep(verdict, verdict', d, r, v)
  /\ SlotStep(at, at', d, r, c)
  /\ SlotStep(repaired, repaired', d, r, f)
  /\ SlotStep(more, more', d, r, m)

LEMMA SlotUpdate ==
  ASSUME NEW T, NEW f, Slots(f, T), NEW d \in Device, NEW r \in Run, NEW x \in T,
         NEW g, SlotStep(f, g, d, r, x)
  PROVE  /\ Slots(g, T) /\ g[d][r] = x
         /\ \A e \in Device, s \in Run : e # d \/ s # r => g[e][s] = f[e][s]
<1>1. CASE g = [f EXCEPT ![d][r] = x]
  BY <1>1, OnePlace DEF Slots
<1>2. CASE x = f[d][r] /\ g = f
  BY <1>2 DEF Slots
<1> QED
  BY <1>1, <1>2 DEF SlotStep

Elsewhere(d, r) ==
  \A e \in Device, s \in Run : e # d \/ s # r =>
    /\ pc'[e][s] = pc[e][s] /\ sent'[e][s] = sent[e][s] /\ answers'[e][s] = answers[e][s]
    /\ todo'[e][s] = todo[e][s] /\ verdict'[e][s] = verdict[e][s] /\ at'[e][s] = at[e][s]

RunMove(d, r, p, s, a, t, v, c) ==
  /\ RunOK' /\ Elsewhere(d, r)
  /\ pc'[d][r] = p /\ sent'[d][r] = s /\ answers'[d][r] = a /\ todo'[d][r] = t
  /\ verdict'[d][r] = v /\ at'[d][r] = c

LEMMA RunUpdate ==
  ASSUME RunOK, NEW d \in Device, NEW r \in Run,
         NEW p \in Place, NEW s \in Operations, NEW a \in Answers,
         NEW t \in Ids, NEW v \in Verdicts, NEW c \in Cursors,
         NEW f \in BOOLEAN, NEW m \in BOOLEAN,
         RunStep(d, r, p, s, a, t, v, c, f, m)
  PROVE  RunMove(d, r, p, s, a, t, v, c)
<1>1. /\ Slots(pc', Place) /\ pc'[d][r] = p
      /\ \A e \in Device, x \in Run : e # d \/ x # r => pc'[e][x] = pc[e][x]
  BY SlotUpdate DEF RunOK, RunStep
<1>2. /\ Slots(sent', Operations) /\ sent'[d][r] = s
      /\ \A e \in Device, x \in Run : e # d \/ x # r => sent'[e][x] = sent[e][x]
  BY SlotUpdate DEF RunOK, RunStep
<1>3. /\ Slots(answers', Answers) /\ answers'[d][r] = a
      /\ \A e \in Device, x \in Run : e # d \/ x # r => answers'[e][x] = answers[e][x]
  BY SlotUpdate DEF RunOK, RunStep
<1>4. /\ Slots(todo', Ids) /\ todo'[d][r] = t
      /\ \A e \in Device, x \in Run : e # d \/ x # r => todo'[e][x] = todo[e][x]
  BY SlotUpdate DEF RunOK, RunStep
<1>5. /\ Slots(verdict', Verdicts) /\ verdict'[d][r] = v
      /\ \A e \in Device, x \in Run : e # d \/ x # r => verdict'[e][x] = verdict[e][x]
  BY SlotUpdate DEF RunOK, RunStep
<1>6. /\ Slots(at', Cursors) /\ at'[d][r] = c
      /\ \A e \in Device, x \in Run : e # d \/ x # r => at'[e][x] = at[e][x]
  BY SlotUpdate DEF RunOK, RunStep
<1>7. Slots(repaired', BOOLEAN)
  BY SlotUpdate DEF RunOK, RunStep
<1>8. Slots(more', BOOLEAN)
  BY SlotUpdate DEF RunOK, RunStep
<1>9. RunOK'
  BY <1>1, <1>2, <1>3, <1>4, <1>5, <1>6, <1>7, <1>8 DEF RunOK
<1>10. Elsewhere(d, r)
  BY <1>1, <1>2, <1>3, <1>4, <1>5, <1>6 DEF Elsewhere
<1> QED
  BY <1>1, <1>2, <1>3, <1>4, <1>5, <1>6, <1>9, <1>10 DEF RunMove

LEMMA RunParts ==
  ASSUME RunOK, NEW d \in Device, NEW r \in Run
  PROVE  /\ pc[d][r] \in Place /\ sent[d][r] \in Operations
         /\ answers[d][r] \in Answers /\ todo[d][r] \in Ids
         /\ verdict[d][r] \in Verdicts /\ at[d][r] \in Cursors
         /\ repaired[d][r] \in BOOLEAN /\ more[d][r] \in BOOLEAN
BY DEF RunOK, Slots

-----------------------------------------------------------------------------
(* What each step of a run does.                                            *)
Still == UNCHANGED <<remote, edits>>

LEMMA LogTypes ==
  ASSUME Shape
  PROVE  /\ Len(log) \in Nat /\ DOMAIN log = 1 .. Len(log) /\ DOMAIN log \subseteq Nat
         /\ \A id \in DOMAIN log : /\ ObjectAt(id) \in Object /\ VersionAt(id) \in VersionType
                                   /\ VersionAt(id).content \in ContentType
                                   /\ VersionAt(id).revision \in Nat
         /\ Snapshot \in Ids /\ Snapshot \subseteq DOMAIN log
<1>1. log \in Seq(Event)
  BY DEF Shape, RemoteOK
<1>2. Len(log) \in Nat /\ DOMAIN log = 1 .. Len(log) /\ \A id \in DOMAIN log : log[id] \in Event
  BY <1>1, LenProperties
<1>3. \A id \in DOMAIN log : /\ ObjectAt(id) \in Object /\ VersionAt(id) \in VersionType
                             /\ VersionAt(id).content \in ContentType
                             /\ VersionAt(id).revision \in Nat
  BY <1>2 DEF Event, ObjectAt, VersionAt, VersionType
<1> QED
  BY <1>2, <1>3 DEF Snapshot, Ids

LEMMA VerdictTypes ==
  ASSUME NEW phase \in Phases, NEW record \in Record \cup {Absent}, NEW version \in VersionType
  PROVE  Verdict(phase, record, version) \in Verdicts \ {"none"}
<1>1. record = Absent \/ record.state \in {"clean", "dirty", "conflicted"}
  BY FieldTypes
<1>2. RepairVerdict(record, version) \in {"apply", "skip"}
  BY DEF RepairVerdict
<1>3. ConflictVerdict(record, version) \in {"apply", "conflict"}
  BY DEF ConflictVerdict
<1>4. PullVerdict(record, version) \in {"apply", "conflict", "skip"}
  BY <1>1 DEF PullVerdict
<1>5. BindVerdict(record, version) \in {"apply", "conflict", "skip"}
  <2>1. version.content.deleted \in BOOLEAN
    BY DEF VersionType, ContentType
  <2> QED
    BY <1>1, <2>1 DEF BindVerdict
<1> QED
  BY <1>2, <1>3, <1>4, <1>5 DEF Verdict, Phases, Verdicts

(* What a run looks at next is in the log.                                  *)
LEMMA NextInLog ==
  ASSUME Shape, NEW d \in Device, NEW r \in Run, todo[d][r] # {}
  PROVE  /\ Min(todo[d][r]) \in todo[d][r] /\ Min(todo[d][r]) \in DOMAIN log
         /\ \A id \in todo[d][r] : Min(todo[d][r]) <= id
         /\ ObjectAt(Min(todo[d][r])) \in Object /\ VersionAt(Min(todo[d][r])) \in VersionType
         /\ todo[d][r] \subseteq DOMAIN log /\ todo[d][r] \in Ids
<1>1. todo[d][r] \subseteq DOMAIN log /\ DOMAIN log \subseteq Nat
  BY LogTypes DEF Shape, TodoInv, TodoSlot
<1>2. Min(todo[d][r]) \in todo[d][r] /\ \A id \in todo[d][r] : Min(todo[d][r]) <= id
  BY <1>1, MinIsLeast
<1> QED
  BY <1>1, <1>2, LogTypes DEF Ids

LEMMA StartMoves ==
  ASSUME Shape, NEW d \in Device, NEW r \in Run, Start(d, r)
  PROVE  /\ Still /\ UNCHANGED local
         /\ RunMove(d, r, "repairing", sent[d][r], answers[d][r],
                    IF HasConflicts(d) THEN Snapshot ELSE {}, verdict[d][r], at[d][r])
<1> DEFINE t == IF HasConflicts(d) THEN Snapshot ELSE {}
<1>1. t \in Ids /\ RunOK /\ "repairing" \in Place /\ FALSE \in BOOLEAN
  BY LogTypes DEF Ids, Shape, Place, Phases
<1>2. RunStep(d, r, "repairing", sent[d][r], answers[d][r], t, verdict[d][r], at[d][r], FALSE, more[d][r])
  BY DEF Start, GoTo, LookAt, RunStep, SlotStep
<1>3. RunMove(d, r, "repairing", sent[d][r], answers[d][r], t, verdict[d][r], at[d][r])
  <2> HIDE DEF t
  <2> QED
    BY <1>1, <1>2, RunParts, RunUpdate, Zenon
<1> QED
  BY <1>3 DEF Start, Still

LEMMA ExamineMoves ==
  ASSUME Shape, NEW d \in Device, NEW r \in Run, Examine(d, r)
  PROVE  LET n == Min(todo[d][r])
             v == Verdict(pc[d][r], mem[d][ObjectAt(n)], VersionAt(n))
         IN  /\ Still /\ UNCHANGED local /\ v \in Verdicts \ {"none"}
             /\ RunMove(d, r, pc[d][r], sent[d][r], answers[d][r], todo[d][r], v, at[d][r])
<1> DEFINE n == Min(todo[d][r])
           v == Verdict(pc[d][r], mem[d][ObjectAt(n)], VersionAt(n))
<1>1. RunOK /\ LocalOK /\ todo[d][r] # {} /\ pc[d][r] \in Phases
  BY DEF Shape, Examine
<1>2. v \in Verdicts \ {"none"}
  BY <1>1, NextInLog, VerdictTypes, SMTT(30) DEF LocalOK
<1>3. verdict' = [verdict EXCEPT ![d][r] = v]
  BY DEF Examine
<1> HIDE DEF v, n
<1>4. RunStep(d, r, pc[d][r], sent[d][r], answers[d][r], todo[d][r], v, at[d][r],
              repaired[d][r], more[d][r])
  BY <1>3 DEF Examine, RunStep, SlotStep
<1>5. v \in Verdicts
  BY <1>2
<1>6. RunMove(d, r, pc[d][r], sent[d][r], answers[d][r], todo[d][r], v, at[d][r])
  BY <1>1, <1>4, <1>5, RunParts, RunUpdate, Zenon
<1> QED
  BY <1>2, <1>6 DEF Examine, Still, v, n

LEMMA RepairedMoves ==
  ASSUME Shape, NEW d \in Device, NEW r \in Run, Repaired(d, r)
  PROVE  /\ Still /\ UNCHANGED <<mem, settings>> /\ LocalMove(d)
         /\ pc[d][r] = "repairing"
         /\ RunMove(d, r, "building", sent[d][r], answers[d][r], todo[d][r], verdict[d][r], at[d][r])
<1>1. RunOK /\ LocalOK /\ "building" \in Place
  BY DEF Shape, Place
<1>2. RunStep(d, r, "building", sent[d][r], answers[d][r], todo[d][r], verdict[d][r], at[d][r],
              repaired[d][r], more[d][r])
  BY DEF Repaired, GoTo, RunStep, SlotStep
<1>3. RunMove(d, r, "building", sent[d][r], answers[d][r], todo[d][r], verdict[d][r], at[d][r])
  BY <1>1, <1>2, RunParts, RunUpdate, Zenon
<1>4. LocalMove(d)
  BY <1>1, LocalParts DEF Repaired, LocalMove
<1> QED
  BY <1>3, <1>4 DEF Repaired, Still

LEMMA RestoreMoves ==
  ASSUME Shape, NEW d \in Device, NEW r \in Run, Restore(d, r)
  PROVE  /\ Still /\ UNCHANGED local
         /\ RunMove(d, r, "restoring", sent[d][r], answers[d][r], Snapshot, verdict[d][r], Len(log))
<1>1. RunOK /\ "restoring" \in Place /\ Snapshot \in Ids /\ Len(log) \in Cursors
  BY LogTypes DEF Shape, Place, Phases, Cursors
<1>2. RunStep(d, r, "restoring", sent[d][r], answers[d][r], Snapshot, verdict[d][r], Len(log),
              repaired[d][r], more[d][r])
  BY DEF Restore, GoTo, LookAt, RunStep, SlotStep
<1>3. RunMove(d, r, "restoring", sent[d][r], answers[d][r], Snapshot, verdict[d][r], Len(log))
  BY <1>1, <1>2, RunParts, RunUpdate, Zenon
<1> QED
  BY <1>3 DEF Restore, Still

LEMMA PushMoves ==
  ASSUME Shape, NEW d \in Device, NEW r \in Run, Push(d, r)
  PROVE  /\ Still /\ UNCHANGED local
         /\ RunMove(d, r, "pushing", PushOf(d), {}, todo[d][r], verdict[d][r], at[d][r])
<1>1. RunOK /\ LocalOK /\ "pushing" \in Place /\ {} \in Answers
  BY DEF Shape, Place, Answers
<1>2. PushOf(d) \in Operations
  <2>1. ASSUME NEW o \in Object, InState(d, o, "dirty")
        PROVE  [object |-> o, base |-> mem[d][o].base, revision |-> mem[d][o].revision,
                content |-> mem[d][o].content] \in Operation
    <3>1. mem[d][o] \in Record
      BY <1>1, <2>1, LocalParts DEF InState, Has
    <3> QED
      BY <3>1, FieldTypes DEF Operation
  <2> QED
    BY <2>1 DEF PushOf, Operations
<1>3. RunStep(d, r, "pushing", PushOf(d), {}, todo[d][r], verdict[d][r], at[d][r],
              repaired[d][r], more[d][r])
  BY DEF Push, GoTo, RunStep, SlotStep
<1>4. RunMove(d, r, "pushing", PushOf(d), {}, todo[d][r], verdict[d][r], at[d][r])
  BY <1>1, <1>2, <1>3, RunParts, RunUpdate, Zenon
<1> QED
  BY <1>4 DEF Push, Still

LEMMA AppliedMoves ==
  ASSUME Shape, NEW d \in Device, NEW r \in Run, Applied(d, r)
  PROVE  /\ Still /\ UNCHANGED local
         /\ \E p \in {"asking", "acking"} :
              RunMove(d, r, p, sent[d][r], answers[d][r], todo[d][r], verdict[d][r], at[d][r])
<1> DEFINE p == IF pc[d][r] = "pulling" /\ more[d][r] THEN "asking" ELSE "acking"
<1>1. RunOK /\ p \in {"asking", "acking"} /\ p \in Place
  BY DEF Shape, Place
<1>2. RunStep(d, r, p, sent[d][r], answers[d][r], todo[d][r], verdict[d][r], at[d][r],
              repaired[d][r], more[d][r])
  BY DEF Applied, GoTo, RunStep, SlotStep
<1> HIDE DEF p
<1>3. RunMove(d, r, p, sent[d][r], answers[d][r], todo[d][r], verdict[d][r], at[d][r])
  BY <1>1, <1>2, RunParts, RunUpdate, Zenon
<1> QED
  BY <1>1, <1>3 DEF Applied, Still

LEMMA PullMoves ==
  ASSUME Shape, NEW d \in Device, NEW r \in Run, Pull(d, r)
  PROVE  /\ Still /\ UNCHANGED local /\ pc[d][r] = "asking"
         /\ \E last \in Nat :
              /\ last <= Len(log) /\ (at[d][r] <= Len(log) => at[d][r] <= last)
              /\ RunMove(d, r, "pulling", sent[d][r], answers[d][r], (at[d][r] + 1) .. last,
                         verdict[d][r], last)
<1> DEFINE last == Min({Len(log), at[d][r] + PageLimit})
           t == (at[d][r] + 1) .. last
           m == last < Len(log)
<1>1. RunOK /\ "pulling" \in Place /\ at[d][r] \in Nat /\ Len(log) \in Nat /\ PageLimit \in Nat
  BY LogTypes, RunParts, RunAssumption DEF Shape, Place, Phases, Cursors
<1>2. last \in Nat /\ last <= Len(log) /\ (at[d][r] <= Len(log) => at[d][r] <= last)
  <2>1. at[d][r] + PageLimit \in Nat /\ at[d][r] <= at[d][r] + PageLimit
    BY <1>1
  <2>2. last \in {Len(log), at[d][r] + PageLimit} /\ last <= Len(log)
    BY <1>1, <2>1, MinIsLeast, ZenonT(60)
  <2> QED
    BY <1>1, <2>1, <2>2
<1>3. RunStep(d, r, "pulling", sent[d][r], answers[d][r], t, verdict[d][r], last,
              repaired[d][r], m)
  BY DEF Pull, GoTo, LookAt, RunStep, SlotStep
<1> HIDE DEF last
<1>4. t \in Ids /\ last \in Cursors /\ m \in BOOLEAN
  BY <1>1, <1>2 DEF Ids, Cursors
<1> HIDE DEF t, m
<1>5. RunMove(d, r, "pulling", sent[d][r], answers[d][r], t, verdict[d][r], last)
  BY <1>1, <1>3, <1>4, RunParts, RunUpdate, Zenon
<1> QED
  BY <1>2, <1>5 DEF Pull, Still, t

LEMMA BindMoves ==
  ASSUME Shape, NEW d \in Device, NEW r \in Run, Bind(d, r)
  PROVE  /\ Still /\ UNCHANGED local
         /\ RunMove(d, r, "binding", sent[d][r], answers[d][r], Snapshot, verdict[d][r], Len(log))
<1>1. RunOK /\ "binding" \in Place /\ Snapshot \in Ids /\ Len(log) \in Cursors /\ FALSE \in BOOLEAN
  BY LogTypes DEF Shape, Place, Phases, Cursors
<1>2. RunStep(d, r, "binding", sent[d][r], answers[d][r], Snapshot, verdict[d][r], Len(log),
              FALSE, more[d][r])
  BY DEF Bind, GoTo, LookAt, RunStep, SlotStep
<1>3. RunMove(d, r, "binding", sent[d][r], answers[d][r], Snapshot, verdict[d][r], Len(log))
  BY <1>1, <1>2, RunParts, RunUpdate, Zenon
<1> QED
  BY <1>3 DEF Bind, Still

(* A run that is over.                                                      *)
Over(d, r) == RunMove(d, r, "idle", {}, {}, {}, "none", 0)

LEMMA ClearMoves ==
  ASSUME RunOK, NEW d \in Device, NEW r \in Run, Clear(d, r)
  PROVE  Over(d, r)
<1>1. /\ "idle" \in Place /\ {} \in Operations /\ {} \in Answers /\ {} \in Ids /\ "none" \in Verdicts
      /\ 0 \in Cursors /\ FALSE \in BOOLEAN
  BY DEF Place, Operations, Answers, Ids, Verdicts, Cursors
<1>2. RunStep(d, r, "idle", {}, {}, {}, "none", 0, FALSE, FALSE)
  BY DEF Clear, GoTo, LookAt, RunStep, SlotStep
<1> QED
  BY <1>1, <1>2, RunUpdate, Zenon DEF Over

(* The settings change, the records are written, and nothing else.          *)
NewSettings(d, s) ==
  /\ UNCHANGED mem /\ LocalMove(d) /\ Persist(d) /\ settings'[d] = s

LEMMA SettingsMoves ==
  ASSUME Shape, NEW d \in Device, NEW s \in SettingsType,
         settings' = [settings EXCEPT ![d] = s], UNCHANGED mem, Persist(d)
  PROVE  NewSettings(d, s)
<1>1. LocalOK /\ mem \in [Device -> Table]
  BY LocalParts DEF Shape
<1>2. /\ settings' \in [Device -> SettingsType] /\ settings'[d] = s
      /\ \A e \in Device \ {d} : settings'[e] = settings[e]
  BY <1>1 DEF LocalOK
<1> QED
  BY <1>1, <1>2 DEF NewSettings, LocalMove

LEMMA FinishMoves ==
  ASSUME Shape, NEW d \in Device, NEW r \in Run, Finish(d, r)
  PROVE  /\ Still /\ Over(d, r) /\ pc[d][r] = "acking"
         /\ NewSettings(d, [settings[d] EXCEPT !.cursor = at[d][r], !.synced = TRUE])
<1> DEFINE s == [settings[d] EXCEPT !.cursor = at[d][r], !.synced = TRUE]
<1>1. RunOK /\ LocalOK /\ at[d][r] \in Nat
  BY RunParts DEF Shape, Cursors
<1>2. settings[d] \in SettingsType /\ settings \in [Device -> SettingsType]
  BY <1>1 DEF LocalOK
<1>3. s \in SettingsType
  BY <1>1, <1>2 DEF SettingsType
<1>4. settings' = [settings EXCEPT ![d] = s]
  BY <1>2 DEF Finish
<1>5. UNCHANGED mem /\ Persist(d) /\ Clear(d, r) /\ Still /\ pc[d][r] = "acking"
  BY DEF Finish, Still
<1> HIDE DEF s
<1>6. NewSettings(d, s)
  BY <1>3, <1>4, <1>5, SettingsMoves
<1> QED
  BY <1>1, <1>5, <1>6, ClearMoves DEF s

LEMMA UnboundType == Unbound \in SettingsType
BY DEF Unbound, SettingsType

LEMMA RefusedMoves ==
  ASSUME Shape, NEW d \in Device, NEW r \in Run, Refused(d, r)
  PROVE  Still /\ Over(d, r) /\ NewSettings(d, Unbound)
<1>1. /\ RunOK /\ UNCHANGED mem /\ Persist(d) /\ Clear(d, r) /\ Still
      /\ settings' = [settings EXCEPT ![d] = Unbound]
  BY DEF Refused, Still, Shape
<1> QED
  BY <1>1, UnboundType, SettingsMoves, ClearMoves

LEMMA DisconnectMoves ==
  ASSUME Shape, NEW d \in Device, Disconnect(d)
  PROVE  Still /\ UNCHANGED run /\ NewSettings(d, Unbound) /\ (EditsDuringRun \/ Idle(d))
<1>1. /\ UNCHANGED mem /\ Persist(d) /\ Still /\ UNCHANGED run /\ (EditsDuringRun \/ Idle(d))
      /\ settings' = [settings EXCEPT ![d] = Unbound]
  BY DEF Disconnect, Still
<1> QED
  BY <1>1, UnboundType, SettingsMoves

LEMMA BoundMoves ==
  ASSUME Shape, NEW d \in Device, NEW r \in Run, Bound(d, r)
  PROVE  /\ Still /\ Over(d, r) /\ pc[d][r] = "wrapping"
         /\ NewSettings(d, [cursor |-> at[d][r], synced |-> repaired[d][r], bound |-> TRUE])
<1> DEFINE s == [cursor |-> at[d][r], synced |-> repaired[d][r], bound |-> TRUE]
<1>1. RunOK /\ at[d][r] \in Nat /\ repaired[d][r] \in BOOLEAN
  BY RunParts DEF Shape, Cursors
<1>2. s \in SettingsType
  BY <1>1 DEF SettingsType
<1>3. /\ settings' = [settings EXCEPT ![d] = s] /\ UNCHANGED mem /\ Persist(d) /\ Clear(d, r)
      /\ Still /\ pc[d][r] = "wrapping"
  BY DEF Bound, Still
<1> HIDE DEF s
<1> QED
  BY <1>1, <1>2, <1>3, SettingsMoves, ClearMoves DEF s

LEMMA FailMoves ==
  ASSUME Shape, NEW d \in Device, NEW r \in Run, Fail(d, r)
  PROVE  /\ UNCHANGED <<server, log, local, edits>> /\ Over(d, r)
         /\ strays' \subseteq strays \cup sent[d][r] /\ strays' \subseteq Operation
<1>1. RunOK /\ RemoteOK
  BY DEF Shape
<1>2. sent[d][r] \subseteq Operation
  BY <1>1, RunParts DEF Operations
<1>3. strays' = strays \/ strays' = strays \cup sent[d][r]
  BY DEF Fail, GiveUp
<1> QED
  BY <1>1, <1>2, <1>3, ClearMoves DEF Fail, RemoteOK

(* The application starts again with what it had saved.                     *)
Restarted(d) ==
  /\ UNCHANGED <<server, log, disk, saved, edits>>
  /\ mem' \in [Device -> Table] /\ settings' \in [Device -> SettingsType]
  /\ \A e \in Device \ {d} : mem'[e] = mem[e] /\ settings'[e] = settings[e]
  /\ mem'[d] = Loaded(d) /\ settings'[d] = saved[d]
  /\ RunOK' /\ strays' \subseteq strays \cup UNION {sent[d][r] : r \in Run}
  /\ strays' \subseteq Operation
  /\ \A e \in Device, s \in Run : e # d =>
       /\ pc'[e][s] = pc[e][s] /\ sent'[e][s] = sent[e][s] /\ answers'[e][s] = answers[e][s]
       /\ todo'[e][s] = todo[e][s] /\ verdict'[e][s] = verdict[e][s] /\ at'[e][s] = at[e][s]
  /\ \A s \in Run : /\ pc'[d][s] = "idle" /\ sent'[d][s] = {} /\ answers'[d][s] = {}
                    /\ todo'[d][s] = {} /\ verdict'[d][s] = "none" /\ at'[d][s] = 0

LEMMA RestartMoves ==
  ASSUME Shape, NEW d \in Device, Restart(d)
  PROVE  Restarted(d)
<1>1. RunOK /\ LocalOK /\ RemoteOK
  BY DEF Shape
<1>2. Loaded(d) \in Table /\ saved[d] \in SettingsType
  BY <1>1, LocalParts DEF Loaded, Table
<1>3. /\ mem' \in [Device -> Table] /\ settings' \in [Device -> SettingsType]
      /\ \A e \in Device \ {d} : mem'[e] = mem[e] /\ settings'[e] = settings[e]
      /\ mem'[d] = Loaded(d) /\ settings'[d] = saved[d]
  <2>1. mem' = [mem EXCEPT ![d] = Loaded(d)] /\ settings' = [settings EXCEPT ![d] = saved[d]]
    BY DEF Restart
  <2> QED
    BY <1>1, <1>2, <2>1, LocalParts
<1>4. strays' \subseteq strays \cup UNION {sent[d][r] : r \in Run} /\ strays' \subseteq Operation
  <2>1. UNION {sent[d][r] : r \in Run} \subseteq Operation
    BY <1>1, RunParts DEF Operations
  <2>2. strays' = strays \/ strays' = strays \cup UNION {sent[d][r] : r \in Run}
    BY DEF Restart, GiveUp
  <2> QED
    BY <1>1, <2>1, <2>2 DEF RemoteOK
<1>5. Slots(pc', Place) /\ \A e \in Device, s \in Run : pc'[e][s] = IF e = d THEN "idle" ELSE pc[e][s]
  BY <1>1 DEF Restart, RunOK, Slots, Place
<1>6. Slots(todo', Ids) /\ \A e \in Device, s \in Run : todo'[e][s] = IF e = d THEN {} ELSE todo[e][s]
  BY <1>1 DEF Restart, RunOK, Slots, Ids
<1>7. Slots(verdict', Verdicts) /\ \A e \in Device, s \in Run : verdict'[e][s] = IF e = d THEN "none" ELSE verdict[e][s]
  BY <1>1 DEF Restart, RunOK, Slots, Verdicts
<1>8. Slots(sent', Operations) /\ \A e \in Device, s \in Run : sent'[e][s] = IF e = d THEN {} ELSE sent[e][s]
  BY <1>1 DEF Restart, RunOK, Slots, Operations
<1>9. Slots(answers', Answers) /\ \A e \in Device, s \in Run : answers'[e][s] = IF e = d THEN {} ELSE answers[e][s]
  BY <1>1 DEF Restart, RunOK, Slots, Answers
<1>10. Slots(at', Cursors) /\ \A e \in Device, s \in Run : at'[e][s] = IF e = d THEN 0 ELSE at[e][s]
  BY <1>1 DEF Restart, RunOK, Slots, Cursors
<1>11. Slots(repaired', BOOLEAN) /\ Slots(more', BOOLEAN)
  BY <1>1 DEF Restart, RunOK, Slots
<1>12. RunOK'
  BY <1>5, <1>6, <1>7, <1>8, <1>9, <1>10, <1>11 DEF RunOK
<1>13. UNCHANGED <<server, log, disk, saved, edits>>
  BY DEF Restart
<1> QED
  BY <1>3, <1>4, <1>5, <1>6, <1>7, <1>8, <1>9, <1>10, <1>12, <1>13 DEF Restarted

(* The memory of a device becomes t, and is saved or not.                   *)
MemTo(d, t) ==
  /\ LocalMove(d) /\ UNCHANGED settings /\ mem'[d] = t

LEMMA MemMoves ==
  ASSUME LocalOK, NEW d \in Device, NEW t \in Table, mem' = [mem EXCEPT ![d] = t],
         UNCHANGED settings, Persist(d) \/ UNCHANGED <<disk, saved>>
  PROVE  MemTo(d, t)
<1>1. mem' \in [Device -> Table] /\ mem'[d] = t /\ \A e \in Device \ {d} : mem'[e] = mem[e]
  BY LocalParts
<1> QED
  BY <1>1, LocalParts DEF MemTo, LocalMove

Carried(d, v, n) ==
  CASE v = "apply" -> WithRemote(mem[d], ObjectAt(n), VersionAt(n))
    [] v = "conflict" -> MarkedConflicted(mem[d], ObjectAt(n))
    [] v = "skip" -> mem[d]

LEMMA ActMoves ==
  ASSUME Shape, NEW d \in Device, NEW r \in Run, Act(d, r)
  PROVE  LET n == Min(todo[d][r])
         IN  /\ Still /\ UNCHANGED <<disk, saved>> /\ MemTo(d, Carried(d, verdict[d][r], n))
             /\ RunMove(d, r, pc[d][r], sent[d][r], answers[d][r], todo[d][r] \ {n}, "none", at[d][r])
             /\ pc[d][r] \in Phases /\ todo[d][r] # {}
             /\ verdict[d][r] \in {"apply", "conflict", "skip"}
<1> DEFINE n == Min(todo[d][r])
           t == Carried(d, verdict[d][r], n)
           f == repaired[d][r] \/ verdict[d][r] = "apply"
<1>1. RunOK /\ LocalOK /\ mem[d] \in Table /\ pc[d][r] \in Phases /\ verdict[d][r] # "none"
  BY LocalParts DEF Shape, Act
<1>2. todo[d][r] # {} /\ verdict[d][r] \in {"apply", "conflict", "skip"}
  BY <1>1, RunParts DEF Shape, TodoInv, TodoSlot, Verdicts
<1>3. t \in Table
  BY <1>1, <1>2, NextInLog, TableTypes DEF Carried
<1>4. mem' = [mem EXCEPT ![d] = t]
  BY <1>1, LocalParts DEF Act, Carried
<1>5. todo[d][r] \ {n} \in Ids
  BY <1>1, RunParts DEF Ids
<1>6. RunStep(d, r, pc[d][r], sent[d][r], answers[d][r], todo[d][r] \ {n}, "none", at[d][r],
              f, more[d][r])
  <2>1. repaired' = [repaired EXCEPT ![d][r] = f]
    BY <1>1 DEF Act, RunOK, Slots
  <2> HIDE DEF f
  <2> QED
    BY <2>1 DEF Act, LookAt, RunStep, SlotStep
<1>7. f \in BOOLEAN /\ "none" \in Verdicts
  BY DEF Verdicts
<1> HIDE DEF n, t, f
<1>8. RunMove(d, r, pc[d][r], sent[d][r], answers[d][r], todo[d][r] \ {n}, "none", at[d][r])
  BY <1>1, <1>5, <1>6, <1>7, RunParts, RunUpdate, Zenon
<1>9. MemTo(d, t)
  BY <1>1, <1>3, <1>4, MemMoves DEF Act
<1> QED
  BY <1>1, <1>2, <1>8, <1>9 DEF Act, Still, t, n

LEMMA ResetMoves ==
  ASSUME Shape, NEW d \in Device, NEW r \in Run, Reset(d, r)
  PROVE  /\ Still /\ UNCHANGED run /\ MemTo(d, ResetForUpload(mem[d])) /\ Persist(d)
         /\ pc[d][r] = "building"
         /\ settings[d].cursor = 0
<1>1. LocalOK /\ mem[d] \in Table
  BY LocalParts DEF Shape
<1>2. ResetForUpload(mem[d]) \in Table
  BY <1>1, TableTypes
<1>3. mem' = [mem EXCEPT ![d] = ResetForUpload(mem[d])]
  BY DEF Reset
<1>4. MemTo(d, ResetForUpload(mem[d]))
  BY <1>1, <1>2, <1>3, MemMoves DEF Reset
<1> QED
  BY <1>4 DEF Reset, Still, NeedsReset

(* What a refused operation leaves when the server has no event of it.      *)
Received(d, r) ==
  LET absent == {a.object : a \in {x \in ConflictsOf(d, r) : x.id = 0}}
      objects == WithAccepted(mem[d], AcceptedOf(d, r))
  IN  [o \in Object |-> IF o \in absent THEN MarkedConflicted(objects, o)[o] ELSE objects[o]]

LEMMA ReceiveMoves ==
  ASSUME Shape, NEW d \in Device, NEW r \in Run, Receive(d, r)
  PROVE  /\ Still /\ UNCHANGED <<disk, saved>> /\ MemTo(d, Received(d, r))
         /\ RunMove(d, r, "reconciling", sent[d][r], answers[d][r],
                    {a.id : a \in ConflictsOf(d, r)} \ {0}, verdict[d][r], at[d][r])
         /\ pc[d][r] = "pushing" /\ sent[d][r] = {}
<1> DEFINE t == {a.id : a \in ConflictsOf(d, r)} \ {0}
<1>1. RunOK /\ LocalOK /\ mem[d] \in Table /\ "reconciling" \in Place
  BY LocalParts DEF Shape, Place, Phases
<1>2. AcceptedOf(d, r) \in SUBSET AnswerType /\ ConflictsOf(d, r) \in SUBSET AnswerType
  BY <1>1, RunParts DEF AcceptedOf, ConflictsOf, Answers
<1>3. Received(d, r) \in Table
  <2> DEFINE objects == WithAccepted(mem[d], AcceptedOf(d, r))
  <2>1. objects \in Table
    BY <1>1, <1>2, TableTypes
  <2>2. \A o \in Object : MarkedConflicted(objects, o) \in Table
    <3> HIDE DEF objects
    <3> QED
      BY <2>1, TableTypes
  <2> HIDE DEF objects
  <2> QED
    BY <2>1, <2>2 DEF Received, Table, objects
<1>4. mem' = [mem EXCEPT ![d] = Received(d, r)]
  BY DEF Receive, Received
<1>5. t \in Ids
  BY <1>2 DEF Ids, AnswerType
<1>6. RunStep(d, r, "reconciling", sent[d][r], answers[d][r], t, verdict[d][r], at[d][r],
              repaired[d][r], more[d][r])
  BY DEF Receive, GoTo, LookAt, RunStep, SlotStep
<1> HIDE DEF t
<1>7. RunMove(d, r, "reconciling", sent[d][r], answers[d][r], t, verdict[d][r], at[d][r])
  BY <1>1, <1>5, <1>6, RunParts, RunUpdate, Zenon
<1>8. MemTo(d, Received(d, r))
  BY <1>1, <1>3, <1>4, MemMoves DEF Receive
<1> QED
  BY <1>7, <1>8 DEF Receive, Still, t

LEMMA ReconciledMoves ==
  ASSUME Shape, NEW d \in Device, NEW r \in Run, Reconciled(d, r)
  PROVE  /\ Still /\ UNCHANGED <<disk, saved>>
         /\ MemTo(d, WithoutDeleted(mem[d], AcceptedOf(d, r)))
         /\ RunMove(d, r, "asking", sent[d][r], answers[d][r], todo[d][r], verdict[d][r],
                    settings[d].cursor)
         /\ pc[d][r] = "reconciling" /\ todo[d][r] = {}
<1>1. RunOK /\ LocalOK /\ mem[d] \in Table /\ "asking" \in Place
  BY LocalParts DEF Shape, Place, Phases
<1>2. AcceptedOf(d, r) \in SUBSET AnswerType
  BY <1>1, RunParts DEF AcceptedOf, Answers
<1>3. WithoutDeleted(mem[d], AcceptedOf(d, r)) \in Table
  BY <1>1, <1>2, TableTypes
<1>4. mem' = [mem EXCEPT ![d] = WithoutDeleted(mem[d], AcceptedOf(d, r))]
  BY DEF Reconciled
<1>5. settings[d].cursor \in Cursors
  BY <1>1 DEF LocalOK, SettingsType, Cursors
<1>6. RunStep(d, r, "asking", sent[d][r], answers[d][r], todo[d][r], verdict[d][r],
              settings[d].cursor, repaired[d][r], more[d][r])
  BY DEF Reconciled, GoTo, RunStep, SlotStep
<1>7. RunMove(d, r, "asking", sent[d][r], answers[d][r], todo[d][r], verdict[d][r],
              settings[d].cursor)
  BY <1>1, <1>5, <1>6, RunParts, RunUpdate, Zenon
<1>8. MemTo(d, WithoutDeleted(mem[d], AcceptedOf(d, r)))
  BY <1>1, <1>3, <1>4, MemMoves DEF Reconciled
<1> QED
  BY <1>7, <1>8 DEF Reconciled, Still, NothingLeft

LEMMA ComparedMoves ==
  ASSUME Shape, NEW d \in Device, NEW r \in Run, Compared(d, r)
  PROVE  /\ Still /\ UNCHANGED <<disk, saved>> /\ MemTo(d, MissingReset(mem[d], at[d][r]))
         /\ RunMove(d, r, "wrapping", sent[d][r], answers[d][r], todo[d][r], verdict[d][r], at[d][r])
         /\ pc[d][r] = "binding" /\ todo[d][r] = {}
<1>1. RunOK /\ LocalOK /\ mem[d] \in Table /\ "wrapping" \in Place /\ at[d][r] \in Nat
  BY LocalParts, RunParts DEF Shape, Place, Phases, Cursors
<1>2. MissingReset(mem[d], at[d][r]) \in Table
  BY <1>1, TableTypes
<1>3. mem' = [mem EXCEPT ![d] = MissingReset(mem[d], at[d][r])]
  BY DEF Compared
<1>4. RunStep(d, r, "wrapping", sent[d][r], answers[d][r], todo[d][r], verdict[d][r], at[d][r],
              repaired[d][r], more[d][r])
  BY DEF Compared, GoTo, RunStep, SlotStep
<1>5. RunMove(d, r, "wrapping", sent[d][r], answers[d][r], todo[d][r], verdict[d][r], at[d][r])
  BY <1>1, <1>4, RunParts, RunUpdate, Zenon
<1>6. MemTo(d, MissingReset(mem[d], at[d][r]))
  BY <1>1, <1>2, <1>3, MemMoves DEF Compared
<1> QED
  BY <1>5, <1>6 DEF Compared, Still, NothingLeft

(* The log keeps its events.                                                *)
Grown == DOMAIN log \subseteq DOMAIN log' /\ \A i \in DOMAIN log : log'[i] = log[i]

LEMMA EventsStay ==
  ASSUME Grown
  PROVE  /\ \A i \in DOMAIN log : i \in DOMAIN log' /\ ObjectAt(i)' = ObjectAt(i) /\ VersionAt(i)' = VersionAt(i)
         /\ \A o : EventsOf(o) \subseteq EventsOf(o)'
BY DEF Grown, ObjectAt, VersionAt, EventsOf

(* The server's side of a step: an operation is written or it is not.       *)
Served(op) ==
  \/ BaseIsCurrent(op) /\ Write(op)
  \/ ~BaseIsCurrent(op) /\ UNCHANGED <<server, log>>

LEMMA ServedGrows ==
  ASSUME RemoteOK, NEW op \in Operation, Served(op), strays' \subseteq Operation
  PROVE  Grown /\ RemoteOK'
<1>1. CASE Write(op)
  BY <1>1, WriteEffect DEF Grown
<1>2. CASE UNCHANGED <<server, log>>
  BY <1>2 DEF Grown, RemoteOK
<1> QED
  BY <1>1, <1>2 DEF Served

LEMMA AnswerTypes ==
  ASSUME Shape, NEW op \in Operation
  PROVE  /\ Answer(op) \in AnswerType /\ Answer(op).object = op.object
         /\ Answer(op).kind = "accepted" <=> BaseIsCurrent(op)
         /\ Answer(op).kind = "accepted" => Answer(op).revision = op.revision
         /\ Answer(op).kind = "conflict" =>
              /\ Answer(op).id = CurrentEvent(op.object)
              /\ \A x \in EventsOf(op.object) : x <= Answer(op).id
              /\ Answer(op).id # 0 => Answer(op).id \in EventsOf(op.object)
<1>1. op.object \in Object /\ op.revision \in Nat
  BY DEF Operation
<1> DEFINE S == {0} \cup {id \in DOMAIN log : ObjectAt(id) = op.object}
<1>2. S \in SUBSET Nat /\ S # {} /\ Len(log) \in Nat /\ \A s \in S : s <= Len(log)
  BY LogTypes
<1>3. CurrentEvent(op.object) \in S /\ \A s \in S : s <= CurrentEvent(op.object)
  <2>1. Max(S) \in S /\ \A s \in S : s <= Max(S)
    <3> HIDE DEF S
    <3> QED
      BY <1>2, MaxOfBounded
  <2> QED
    BY <2>1 DEF CurrentEvent
<1>4. CurrentEvent(op.object) \in Nat
  BY <1>2, <1>3
<1>5. server[op.object].revision \in Nat
  BY <1>1 DEF Shape, RemoteOK, VersionType
<1>6. CASE BaseIsCurrent(op)
  BY <1>1, <1>6 DEF Answer, AnswerType
<1>7. CASE ~BaseIsCurrent(op)
  <2>1. Answer(op) = [object |-> op.object, kind |-> "conflict",
                      revision |-> server[op.object].revision, id |-> CurrentEvent(op.object)]
    BY <1>7 DEF Answer
  <2>2. \A x \in EventsOf(op.object) : x <= CurrentEvent(op.object)
    BY <1>3 DEF EventsOf
  <2>3. CurrentEvent(op.object) # 0 => CurrentEvent(op.object) \in EventsOf(op.object)
    BY <1>3 DEF EventsOf
  <2> QED
    BY <1>1, <1>4, <1>5, <1>7, <2>1, <2>2, <2>3 DEF AnswerType
<1> QED
  BY <1>6, <1>7

LEMMA ServeMoves ==
  ASSUME Shape, NEW d \in Device, NEW r \in Run, NEW op \in sent[d][r], Serve(d, r, op)
  PROVE  /\ op \in Operation /\ Served(op) /\ UNCHANGED <<strays, local, edits>>
         /\ RunMove(d, r, pc[d][r], sent[d][r] \ {op}, answers[d][r] \cup {Answer(op)}, todo[d][r],
                    verdict[d][r], at[d][r])
<1> DEFINE s == sent[d][r] \ {op}
           a == answers[d][r] \cup {Answer(op)}
<1>1. RunOK /\ op \in Operation /\ sent[d][r] \in Operations /\ answers[d][r] \in Answers
  BY RunParts DEF Shape, Operations
<1>2. s \in Operations /\ a \in Answers
  BY <1>1, AnswerTypes DEF Operations, Answers
<1>3. RunStep(d, r, pc[d][r], s, a, todo[d][r], verdict[d][r], at[d][r],
              repaired[d][r], more[d][r])
  <2>1. sent' = [sent EXCEPT ![d][r] = s] /\ answers' = [answers EXCEPT ![d][r] = a]
    BY <1>1 DEF Serve, RunOK, Slots
  <2> HIDE DEF s, a
  <2> QED
    BY <2>1 DEF Serve, RunStep, SlotStep
<1> HIDE DEF s, a
<1>4. RunMove(d, r, pc[d][r], s, a, todo[d][r], verdict[d][r], at[d][r])
  BY <1>1, <1>2, <1>3, RunParts, RunUpdate, Zenon
<1>5. Served(op)
  BY DEF Serve, WriteIfCurrent, Served
<1> QED
  BY <1>1, <1>4, <1>5 DEF Serve, s, a

LEMMA ServeStrayMoves ==
  ASSUME Shape, NEW op \in strays, ServeStray(op)
  PROVE  /\ op \in Operation /\ Served(op) /\ UNCHANGED <<local, run, edits>>
         /\ strays' \subseteq strays /\ strays' \subseteq Operation
<1>1. op \in Operation /\ strays \subseteq Operation
  BY DEF Shape, RemoteOK
<1>2. Served(op)
  BY DEF ServeStray, WriteIfCurrent, Served
<1> QED
  BY <1>1, <1>2 DEF ServeStray

-----------------------------------------------------------------------------
(* The types, and that a run looks at events of the log only.               *)
LEMMA SlotKept ==
  ASSUME TodoInv, Grown, NEW e \in Device, NEW s \in Run,
         pc'[e][s] = pc[e][s], answers'[e][s] = answers[e][s],
         todo'[e][s] = todo[e][s], verdict'[e][s] = verdict[e][s]
  PROVE  TodoSlot(e, s)'
<1>1. TodoSlot(e, s)
  BY DEF TodoInv
<1>2. ConflictsOf(e, s)' = ConflictsOf(e, s)
  BY DEF ConflictsOf
<1>3. \A o : EventsOf(o) \subseteq EventsOf(o)'
  BY EventsStay
<1> QED
  BY <1>1, <1>2, <1>3 DEF TodoSlot, Grown

LEMMA TodoKept ==
  ASSUME TodoInv, Grown, NEW d \in Device, NEW r \in Run, Elsewhere(d, r), TodoSlot(d, r)'
  PROVE  TodoInv'
BY SlotKept DEF TodoInv, Elsewhere

(* A step of one run of one device.                                         *)
LEMMA ShapeOf ==
  ASSUME Shape, NEW d \in Device, NEW r \in Run, Grown, RemoteOK', LocalOK', RunOK', EditsOK',
         Elsewhere(d, r), TodoSlot(d, r)'
  PROVE  Shape'
BY TodoKept DEF Shape

LEMMA StillShape ==
  ASSUME Shape, Still
  PROVE  Grown /\ RemoteOK' /\ EditsOK'
BY DEF Shape, Still, Grown, RemoteOK, EditsOK, remote

LEMMA LocalStays == ASSUME LocalOK, UNCHANGED local PROVE LocalOK'
BY DEF LocalOK, local

(* Looking at something in the log, or at nothing.                          *)
LEMMA SlotTo ==
  ASSUME Shape, Grown, NEW d \in Device, NEW r \in Run, NEW p, NEW s, NEW a, NEW t, NEW v, NEW c,
         RunMove(d, r, p, s, a, t, v, c), t \subseteq DOMAIN log,
         t # {} => p \in Phases, v # "none" => t # {},
         a = answers[d][r] \/ a = {}
  PROVE  TodoSlot(d, r)'
<1>1. TodoSlot(d, r)
  BY DEF Shape, TodoInv
<1>2. \A o : EventsOf(o) \subseteq EventsOf(o)'
  BY EventsStay
<1>3. /\ pc'[d][r] = p /\ answers'[d][r] = a /\ todo'[d][r] = t /\ verdict'[d][r] = v
  BY DEF RunMove
<1>4. \A x \in ConflictsOf(d, r)' : x \in ConflictsOf(d, r)
  BY <1>3 DEF ConflictsOf
<1> QED
  BY <1>1, <1>2, <1>3, <1>4 DEF TodoSlot, Grown

LEMMA ShapeStep ==
  ASSUME Shape, NEW d \in Device, NEW r \in Run, Step(d, r)
  PROVE  Shape' /\ Grown
<1>0. RunOK /\ LocalOK /\ RemoteOK /\ EditsOK /\ TodoSlot(d, r) /\ verdict[d][r] \in Verdicts
  BY RunParts DEF Shape, TodoInv
<1>1. CASE Examine(d, r)
  <2> DEFINE v == Verdict(pc[d][r], mem[d][ObjectAt(Min(todo[d][r]))], VersionAt(Min(todo[d][r])))
  <2>1. /\ Still /\ UNCHANGED local
        /\ RunMove(d, r, pc[d][r], sent[d][r], answers[d][r], todo[d][r], v, at[d][r])
    BY <1>1, ExamineMoves
  <2>2. Grown /\ RemoteOK' /\ EditsOK' /\ LocalOK'
    BY <1>0, <2>1, StillShape, LocalStays
  <2>3. todo[d][r] # {} /\ pc[d][r] \in Phases
    BY <1>1 DEF Examine
  <2> HIDE DEF v
  <2>4. TodoSlot(d, r)'
    BY <1>0, <2>1, <2>2, <2>3, SlotTo DEF TodoSlot
  <2> QED
    BY <2>1, <2>2, <2>4, ShapeOf DEF RunMove
<1>2. CASE Act(d, r)
  <2> DEFINE n == Min(todo[d][r])
             t == Carried(d, verdict[d][r], n)
  <2>1. /\ Still /\ MemTo(d, t) /\ pc[d][r] \in Phases
        /\ RunMove(d, r, pc[d][r], sent[d][r], answers[d][r], todo[d][r] \ {n}, "none", at[d][r])
    BY <1>2, ActMoves
  <2> HIDE DEF t, n
  <2>2. Grown /\ RemoteOK' /\ EditsOK' /\ LocalOK'
    BY <1>0, <2>1, StillShape, LocalMoveType DEF MemTo
  <2>3. todo[d][r] \ {n} \subseteq DOMAIN log
    BY <1>0 DEF TodoSlot
  <2>4. TodoSlot(d, r)'
    BY <2>1, <2>2, <2>3, SlotTo
  <2> QED
    BY <2>1, <2>2, <2>4, ShapeOf DEF RunMove
<1>3. CASE Repaired(d, r)
  <2>1. /\ Still /\ LocalMove(d) /\ todo[d][r] = {} /\ verdict[d][r] = "none"
        /\ RunMove(d, r, "building", sent[d][r], answers[d][r], todo[d][r], verdict[d][r], at[d][r])
    BY <1>3, RepairedMoves DEF Repaired, NothingLeft
  <2>2. Grown /\ RemoteOK' /\ EditsOK' /\ LocalOK'
    BY <1>0, <2>1, StillShape, LocalMoveType
  <2>4. TodoSlot(d, r)'
    BY <2>1, <2>2, SlotTo
  <2> QED
    BY <2>1, <2>2, <2>4, ShapeOf DEF RunMove
<1>4. CASE Reset(d, r)
  <2>1. Still /\ MemTo(d, ResetForUpload(mem[d])) /\ UNCHANGED run
    BY <1>4, ResetMoves
  <2>2. Grown /\ RemoteOK' /\ EditsOK' /\ LocalOK'
    BY <1>0, <2>1, StillShape, LocalMoveType DEF MemTo
  <2>3. RunOK' /\ Elsewhere(d, r)
    BY <1>0, <2>1 DEF run, RunOK, Elsewhere
  <2>4. TodoSlot(d, r)'
    BY <2>1, <2>2, SlotKept DEF Shape, run
  <2> QED
    BY <2>2, <2>3, <2>4, ShapeOf
<1>5. CASE Restore(d, r)
  <2>1. /\ Still /\ UNCHANGED local
        /\ RunMove(d, r, "restoring", sent[d][r], answers[d][r], Snapshot, verdict[d][r], Len(log))
    BY <1>5, RestoreMoves
  <2>2. Grown /\ RemoteOK' /\ EditsOK' /\ LocalOK' /\ Snapshot \subseteq DOMAIN log
    BY <1>0, <2>1, StillShape, LocalStays, LogTypes
  <2>3. verdict[d][r] = "none" /\ "restoring" \in Phases
    BY <1>0, <1>5 DEF Restore, TodoSlot, Phases
  <2>4. TodoSlot(d, r)'
    BY <2>1, <2>2, <2>3, SlotTo
  <2> QED
    BY <2>1, <2>2, <2>4, ShapeOf DEF RunMove
<1>6. CASE Push(d, r)
  <2>1. /\ Still /\ UNCHANGED local
        /\ RunMove(d, r, "pushing", PushOf(d), {}, todo[d][r], verdict[d][r], at[d][r])
    BY <1>6, PushMoves
  <2>2. Grown /\ RemoteOK' /\ EditsOK' /\ LocalOK'
    BY <1>0, <2>1, StillShape, LocalStays
  <2>3. verdict[d][r] = "none" /\ todo[d][r] = {}
    BY <1>0, <1>6 DEF Push, TodoSlot, Phases
  <2>4. TodoSlot(d, r)'
    BY <2>1, <2>2, <2>3, SlotTo
  <2> QED
    BY <2>1, <2>2, <2>4, ShapeOf DEF RunMove
<1>7. CASE Receive(d, r)
  <2> DEFINE t == {a.id : a \in ConflictsOf(d, r)} \ {0}
  <2>1. /\ Still /\ MemTo(d, Received(d, r))
        /\ RunMove(d, r, "reconciling", sent[d][r], answers[d][r], t, verdict[d][r], at[d][r])
        /\ pc[d][r] = "pushing"
    BY <1>7, ReceiveMoves
  <2>2. Grown /\ RemoteOK' /\ EditsOK' /\ LocalOK'
    BY <1>0, <2>1, StillShape, LocalMoveType DEF MemTo
  <2>3. verdict[d][r] = "none" /\ "reconciling" \in Phases /\ t \subseteq DOMAIN log
    BY <1>0, <2>1 DEF TodoSlot, Phases, EventsOf
  <2> HIDE DEF t
  <2>4. TodoSlot(d, r)'
    BY <2>1, <2>2, <2>3, SlotTo
  <2> QED
    BY <2>1, <2>2, <2>4, ShapeOf DEF RunMove
<1>8. CASE Reconciled(d, r)
  <2>1. /\ Still /\ MemTo(d, WithoutDeleted(mem[d], AcceptedOf(d, r)))
        /\ RunMove(d, r, "asking", sent[d][r], answers[d][r], todo[d][r], verdict[d][r],
                   settings[d].cursor)
        /\ todo[d][r] = {}
    BY <1>8, ReconciledMoves
  <2>2. Grown /\ RemoteOK' /\ EditsOK' /\ LocalOK'
    BY <1>0, <2>1, StillShape, LocalMoveType DEF MemTo
  <2>3. verdict[d][r] = "none"
    BY <1>0, <2>1 DEF TodoSlot
  <2>4. TodoSlot(d, r)'
    BY <2>1, <2>2, <2>3, SlotTo
  <2> QED
    BY <2>1, <2>2, <2>4, ShapeOf DEF RunMove
<1>9. CASE Pull(d, r)
  <2>1. /\ Still /\ UNCHANGED local /\ pc[d][r] = "asking"
    BY <1>9, PullMoves
  <2>2. PICK last \in Nat :
          /\ last <= Len(log)
          /\ RunMove(d, r, "pulling", sent[d][r], answers[d][r], (at[d][r] + 1) .. last,
                     verdict[d][r], last)
    BY <1>9, PullMoves
  <2>3. Grown /\ RemoteOK' /\ EditsOK' /\ LocalOK'
    BY <1>0, <2>1, StillShape, LocalStays
  <2>4. verdict[d][r] = "none" /\ "pulling" \in Phases /\ (at[d][r] + 1) .. last \subseteq DOMAIN log
    BY <1>0, <2>1, <2>2, LogTypes, RunParts DEF TodoSlot, Phases, Cursors
  <2>5. TodoSlot(d, r)'
    BY <2>2, <2>3, <2>4, SlotTo
  <2> QED
    BY <2>2, <2>3, <2>5, ShapeOf DEF RunMove
<1>10. CASE Applied(d, r)
  <2>1. PICK p \in {"asking", "acking"} :
          /\ Still /\ UNCHANGED local
          /\ RunMove(d, r, p, sent[d][r], answers[d][r], todo[d][r], verdict[d][r], at[d][r])
    BY <1>10, AppliedMoves
  <2>2. Grown /\ RemoteOK' /\ EditsOK' /\ LocalOK'
    BY <1>0, <2>1, StillShape, LocalStays
  <2>3. verdict[d][r] = "none" /\ todo[d][r] = {}
    BY <1>10 DEF Applied, NothingLeft
  <2>4. TodoSlot(d, r)'
    BY <2>1, <2>2, <2>3, SlotTo
  <2> QED
    BY <2>1, <2>2, <2>4, ShapeOf DEF RunMove
<1>11. CASE Finish(d, r)
  <2>1. Still /\ LocalMove(d) /\ RunMove(d, r, "idle", {}, {}, {}, "none", 0)
    BY <1>11, FinishMoves DEF NewSettings, Over
  <2>2. Grown /\ RemoteOK' /\ EditsOK' /\ LocalOK'
    BY <1>0, <2>1, StillShape, LocalMoveType
  <2>3. TodoSlot(d, r)'
    BY <2>1, <2>2, SlotTo
  <2> QED
    BY <2>1, <2>2, <2>3, ShapeOf DEF RunMove
<1>12. CASE Compared(d, r)
  <2>1. /\ Still /\ MemTo(d, MissingReset(mem[d], at[d][r])) /\ todo[d][r] = {}
        /\ RunMove(d, r, "wrapping", sent[d][r], answers[d][r], todo[d][r], verdict[d][r], at[d][r])
    BY <1>12, ComparedMoves
  <2>2. Grown /\ RemoteOK' /\ EditsOK' /\ LocalOK'
    BY <1>0, <2>1, StillShape, LocalMoveType DEF MemTo
  <2>3. verdict[d][r] = "none"
    BY <1>0, <2>1 DEF TodoSlot
  <2>4. TodoSlot(d, r)'
    BY <2>1, <2>2, <2>3, SlotTo
  <2> QED
    BY <2>1, <2>2, <2>4, ShapeOf DEF RunMove
<1>13. CASE Bound(d, r)
  <2>1. Still /\ LocalMove(d) /\ RunMove(d, r, "idle", {}, {}, {}, "none", 0)
    BY <1>13, BoundMoves DEF NewSettings, Over
  <2>2. Grown /\ RemoteOK' /\ EditsOK' /\ LocalOK'
    BY <1>0, <2>1, StillShape, LocalMoveType
  <2>3. TodoSlot(d, r)'
    BY <2>1, <2>2, SlotTo
  <2> QED
    BY <2>1, <2>2, <2>3, ShapeOf DEF RunMove
<1>14. ASSUME NEW op \in sent[d][r], Serve(d, r, op) PROVE Shape' /\ Grown
  <2> DEFINE s == sent[d][r] \ {op}
             a == answers[d][r] \cup {Answer(op)}
  <2>1. /\ op \in Operation /\ Served(op) /\ UNCHANGED <<strays, local, edits>>
        /\ RunMove(d, r, pc[d][r], s, a, todo[d][r], verdict[d][r], at[d][r])
    BY <1>14, ServeMoves
  <2>2. Grown /\ RemoteOK' /\ EditsOK' /\ LocalOK'
    BY <1>0, <2>1, ServedGrows, LocalStays DEF RemoteOK, EditsOK
  <2>3. TodoSlot(d, r)'
    <3>1. /\ pc'[d][r] = pc[d][r] /\ answers'[d][r] = a /\ todo'[d][r] = todo[d][r]
          /\ verdict'[d][r] = verdict[d][r]
      BY <2>1 DEF RunMove
    <3>2. ASSUME NEW x \in ConflictsOf(d, r)', x.id # 0 PROVE x.id \in EventsOf(x.object)'
      <4>1. x \in ConflictsOf(d, r) \/ (x = Answer(op) /\ x.kind = "conflict")
        BY <3>1 DEF ConflictsOf
      <4>2. x.id \in EventsOf(x.object)
        BY <1>0, <2>1, <3>2, <4>1, AnswerTypes DEF TodoSlot
      <4> QED
        BY <2>2, <4>2, EventsStay
    <3> QED
      BY <1>0, <2>2, <3>1, <3>2 DEF TodoSlot, Grown
  <2> QED
    BY <2>1, <2>2, <2>3, ShapeOf DEF RunMove
<1> QED
  BY <1>1, <1>2, <1>3, <1>4, <1>5, <1>6, <1>7, <1>8, <1>9, <1>10, <1>11, <1>12, <1>13, <1>14 DEF Step

LEMMA TodoStays ==
  ASSUME TodoInv, Grown, UNCHANGED run
  PROVE  TodoInv'
BY SlotKept DEF TodoInv, run

LEMMA ShapeNext ==
  ASSUME Shape, Move
  PROVE  Shape' /\ Grown
<1>0. RunOK /\ LocalOK /\ RemoteOK /\ EditsOK /\ TodoInv
  BY DEF Shape
<1>1. ASSUME NEW d \in Device, Change(d) PROVE Shape' /\ Grown
  <2>1. UserMove(d)
    BY <1>1, UserMoves
  <2>2. LocalOK' /\ EditsOK' /\ UNCHANGED <<remote, run>>
    BY <1>0, <2>1, LocalMoveType DEF UserMove
  <2>3. Grown /\ RemoteOK' /\ RunOK'
    BY <1>0, <2>2 DEF Grown, RemoteOK, RunOK, remote, run
  <2> QED
    BY <1>0, <2>2, <2>3, TodoStays DEF Shape
<1>2. ASSUME NEW d \in Device, Restart(d) PROVE Shape' /\ Grown
  <2>1. Restarted(d)
    BY <1>2, RestartMoves
  <2>2. Grown /\ RemoteOK' /\ RunOK' /\ EditsOK' /\ LocalOK'
    BY <1>0, <2>1 DEF Restarted, Grown, RemoteOK, EditsOK, LocalOK, Table
  <2>3. ASSUME NEW e \in Device, NEW s \in Run PROVE TodoSlot(e, s)'
    <3>1. CASE e # d
      BY <1>0, <2>1, <2>2, <3>1, SlotKept DEF Restarted
    <3>2. CASE e = d
      BY <2>1, <3>2 DEF Restarted, TodoSlot, ConflictsOf
    <3> QED
      BY <3>1, <3>2
  <2> QED
    BY <2>2, <2>3 DEF Shape, TodoInv
<1>3. ASSUME NEW d \in Device, Disconnect(d) PROVE Shape' /\ Grown
  <2>1. Still /\ UNCHANGED run /\ LocalMove(d)
    BY <1>3, DisconnectMoves DEF NewSettings
  <2>2. Grown /\ RemoteOK' /\ EditsOK' /\ LocalOK' /\ RunOK'
    BY <1>0, <2>1, StillShape, LocalMoveType DEF RunOK, run
  <2> QED
    BY <1>0, <2>1, <2>2, TodoStays DEF Shape
<1>4. ASSUME NEW d \in Device, NEW r \in Run, Start(d, r) PROVE Shape' /\ Grown
  <2> DEFINE t == IF HasConflicts(d) THEN Snapshot ELSE {}
  <2>1. /\ Still /\ UNCHANGED local
        /\ RunMove(d, r, "repairing", sent[d][r], answers[d][r], t, verdict[d][r], at[d][r])
    BY <1>4, StartMoves
  <2>2. Grown /\ RemoteOK' /\ EditsOK' /\ LocalOK' /\ t \subseteq DOMAIN log
    BY <1>0, <2>1, StillShape, LocalStays, LogTypes
  <2>3. verdict[d][r] = "none" /\ "repairing" \in Phases
    BY <1>0, <1>4 DEF Start, TodoInv, TodoSlot, Phases
  <2> HIDE DEF t
  <2>4. TodoSlot(d, r)'
    BY <2>1, <2>2, <2>3, SlotTo
  <2> QED
    BY <2>1, <2>2, <2>4, ShapeOf DEF RunMove
<1>5. ASSUME NEW d \in Device, NEW r \in Run, Bind(d, r) PROVE Shape' /\ Grown
  <2>1. /\ Still /\ UNCHANGED local
        /\ RunMove(d, r, "binding", sent[d][r], answers[d][r], Snapshot, verdict[d][r], Len(log))
    BY <1>5, BindMoves
  <2>2. Grown /\ RemoteOK' /\ EditsOK' /\ LocalOK' /\ Snapshot \subseteq DOMAIN log
    BY <1>0, <2>1, StillShape, LocalStays, LogTypes
  <2>3. verdict[d][r] = "none" /\ "binding" \in Phases
    BY <1>0, <1>5 DEF Bind, Idle, TodoInv, TodoSlot, Phases
  <2>4. TodoSlot(d, r)'
    BY <2>1, <2>2, <2>3, SlotTo
  <2> QED
    BY <2>1, <2>2, <2>4, ShapeOf DEF RunMove
<1>6. ASSUME NEW d \in Device, NEW r \in Run, Fail(d, r) PROVE Shape' /\ Grown
  <2>1. /\ UNCHANGED <<server, log, local, edits>> /\ strays' \subseteq Operation
        /\ RunMove(d, r, "idle", {}, {}, {}, "none", 0)
    BY <1>6, FailMoves DEF Over
  <2>2. Grown /\ RemoteOK' /\ EditsOK' /\ LocalOK'
    BY <1>0, <2>1, LocalStays DEF Grown, RemoteOK, EditsOK
  <2>3. TodoSlot(d, r)'
    BY <2>1, <2>2, SlotTo
  <2> QED
    BY <2>1, <2>2, <2>3, ShapeOf DEF RunMove
<1>7. ASSUME NEW d \in Device, NEW r \in Run, Refused(d, r) PROVE Shape' /\ Grown
  <2>1. Still /\ LocalMove(d) /\ RunMove(d, r, "idle", {}, {}, {}, "none", 0)
    BY <1>7, RefusedMoves DEF NewSettings, Over
  <2>2. Grown /\ RemoteOK' /\ EditsOK' /\ LocalOK'
    BY <1>0, <2>1, StillShape, LocalMoveType
  <2>3. TodoSlot(d, r)'
    BY <2>1, <2>2, SlotTo
  <2> QED
    BY <2>1, <2>2, <2>3, ShapeOf DEF RunMove
<1>8. ASSUME NEW op \in strays, ServeStray(op) PROVE Shape' /\ Grown
  <2>1. /\ op \in Operation /\ Served(op) /\ UNCHANGED <<local, run, edits>>
        /\ strays' \subseteq Operation
    BY <1>8, ServeStrayMoves
  <2>2. Grown /\ RemoteOK' /\ EditsOK' /\ LocalOK' /\ RunOK'
    BY <1>0, <2>1, ServedGrows, LocalStays DEF EditsOK, RunOK, run
  <2> QED
    BY <1>0, <2>1, <2>2, TodoStays DEF Shape
<1> QED
  BY <1>1, <1>2, <1>3, <1>4, <1>5, <1>6, <1>7, <1>8, ShapeStep DEF Move

LEMMA StoredOrder ==
  LET order == SetToSeq(Stored)
  IN  /\ Cardinality(Stored) \in Nat /\ order \in [1 .. Cardinality(Stored) -> Stored]
      /\ \A i, j \in 1 .. Cardinality(Stored) : order[i] = order[j] => i = j
      /\ \A o \in Stored : \E i \in 1 .. Cardinality(Stored) : order[i] = o
<1> DEFINE n == Cardinality(Stored)
           order == SetToSeq(Stored)
<1>1. n \in Nat
  BY FS_CardinalityType
<1>2. \E f : ExistsBijection(1 .. n, Stored)
  BY FS_CardinalityType
<1>3. PICK f \in Bijection(1 .. n, Stored) : TRUE
  BY <1>2 DEF ExistsBijection
<1>4. f \in [1 .. n -> Stored] /\ IsInjective(f)
  BY <1>3 DEF Bijection, Injection, IsInjective
<1>5. order \in [1 .. n -> Stored] /\ IsInjective(order)
  BY <1>4 DEF SetToSeq
<1> HIDE DEF order
<1>6. \A i, j \in 1 .. n : order[i] = order[j] => i = j
  BY <1>5 DEF IsInjective
<1>7. order \in Injection(1 .. n, Stored)
  BY <1>5 DEF Injection, IsInjective
<1>8. Cardinality(1 .. n) = n
  BY <1>1, FS_Interval
<1>9. order \in Surjection(1 .. n, Stored)
  BY <1>7, <1>8, FS_Injection
<1>10. \A o \in Stored : \E i \in 1 .. n : order[i] = o
  BY <1>9 DEF Surjection
<1> QED
  BY <1>1, <1>5, <1>6, <1>10 DEF order

(* The log at the start: an event for each stored object.                   *)
LEMMA FirstLog ==
  /\ InitialLog \in Seq(Event) /\ Len(InitialLog) \in Nat
  /\ DOMAIN InitialLog = 1 .. Len(InitialLog)
  /\ \A i \in DOMAIN InitialLog :
       /\ InitialLog[i].object \in Stored
       /\ InitialLog[i].version = [revision |-> 1, content |-> FirstContent]
  /\ \A i, j \in DOMAIN InitialLog : InitialLog[i].object = InitialLog[j].object => i = j
  /\ \A o \in Stored : \E i \in DOMAIN InitialLog : InitialLog[i].object = o
<1> DEFINE n == Cardinality(Stored)
           order == SetToSeq(Stored)
           v == [revision |-> 1, content |-> FirstContent]
<1>1. /\ n \in Nat /\ order \in [1 .. n -> Stored]
      /\ \A i, j \in 1 .. n : order[i] = order[j] => i = j
      /\ \A o \in Stored : \E i \in 1 .. n : order[i] = o
  BY StoredOrder
<1>2. v \in VersionType
  BY RecordTypes DEF VersionType
<1>3. InitialLog = [i \in 1 .. n |-> [object |-> order[i], version |-> v]]
  BY <1>1 DEF InitialLog
<1> HIDE DEF n, order, v
<1>4. \A i \in 1 .. n : InitialLog[i] \in Event
  BY <1>1, <1>2, <1>3 DEF Event
<1>5. InitialLog \in Seq(Event) /\ Len(InitialLog) = n
  BY <1>1, <1>3, <1>4
<1>6. DOMAIN InitialLog = 1 .. n /\ \A i \in 1 .. n : InitialLog[i].object = order[i] /\ InitialLog[i].version = v
  BY <1>3
<1> QED
  BY <1>1, <1>5, <1>6 DEF v

LEMMA ShapeInit == Init => Shape
<1> SUFFICES ASSUME Init PROVE Shape
  OBVIOUS
<1>1. PICK empty \in FirstSync : InitAccount(empty)
  BY DEF Init
<1>2. empty \in BOOLEAN
  BY <1>1, BoundAssumption
<1>3. FirstContent \in ContentType /\ 0 \in Nat /\ 1 \in Nat
  BY RecordTypes
<1>4. log \in Seq(Event) /\ Len(log) \in Nat
  BY <1>1, FirstLog DEF InitAccount
<1>5. server \in [Object -> VersionType]
  BY <1>1, <1>3 DEF InitAccount, VersionType
<1>6. \A d \in Device, o \in Object : InitialRecord(d, o, empty) \in Record \cup {Absent}
  <2>1. NewRecord(FirstContent) \in Record
    BY <1>3, RecordTypes
  <2>2. [revision |-> 1, content |-> FirstContent] \in VersionType
    BY <1>3 DEF VersionType
  <2>3. CleanRecord([revision |-> 1, content |-> FirstContent]) \in Record
    BY <2>2, RecordTypes
  <2> QED
    BY <2>1, <2>3 DEF InitialRecord
<1>7. mem \in [Device -> [Object -> Record \cup {Absent}]]
  BY <1>1, <1>6 DEF InitAccount
<1>8. settings \in [Device -> SettingsType]
  <2>1. [cursor |-> Len(log), synced |-> ~empty, bound |-> TRUE] \in SettingsType
    BY <1>2, <1>4 DEF SettingsType
  <2> QED
    BY <1>1, <2>1, UnboundType DEF InitAccount
<1>9. LocalOK /\ RemoteOK
  BY <1>4, <1>5, <1>7, <1>8 DEF Init, LocalOK, RemoteOK
<1>10. RunOK
  BY DEF Init, RunOK, Slots, Place, Operations, Answers, Ids, Verdicts, Cursors
<1>11. EditsOK
  <2>1. edits = << >>
    BY DEF Init
  <2> QED
    BY <2>1 DEF EditsOK
<1>12. TodoInv
  BY DEF Init, TodoInv, TodoSlot, ConflictsOf
<1> QED
  BY <1>9, <1>10, <1>11, <1>12 DEF Shape

-----------------------------------------------------------------------------
(* The log of the server: the revisions of an object grow.                  *)
LogInv ==
  /\ \A i \in DOMAIN log : VersionAt(i).revision \in 1 .. server[ObjectAt(i)].revision
  /\ \A i, j \in DOMAIN log :
       i < j /\ ObjectAt(i) = ObjectAt(j) => VersionAt(i).revision < VersionAt(j).revision

(* Only an operation that was sent is ever written.                         *)
LEMMA RemoteNext ==
  ASSUME Shape, Move
  PROVE  \/ UNCHANGED <<server, log>>
         \/ \E op \in Operation : /\ BaseIsCurrent(op) /\ Write(op)
                                  /\ op \in strays \/ \E d \in Device, r \in Run : op \in sent[d][r]
<1>1. ASSUME NEW d \in Device, Change(d) PROVE UNCHANGED <<server, log>>
  BY <1>1 DEF Change, EditItem, Create, DeleteVault, remote
<1>2. ASSUME NEW d \in Device, Restart(d) \/ Disconnect(d) PROVE UNCHANGED <<server, log>>
  BY <1>2 DEF Restart, Disconnect, remote
<1>3. ASSUME NEW d \in Device, NEW r \in Run, Start(d, r) \/ Bind(d, r) \/ Fail(d, r) \/ Refused(d, r)
      PROVE  UNCHANGED <<server, log>>
  BY <1>3 DEF Start, Bind, Fail, Refused, remote
<1>4. ASSUME NEW d \in Device, NEW r \in Run, NEW op \in sent[d][r], Serve(d, r, op)
      PROVE  op \in Operation /\ Served(op)
  BY <1>4, ServeMoves
<1>5. ASSUME NEW op \in strays, ServeStray(op) PROVE op \in Operation /\ Served(op)
  BY <1>5, ServeStrayMoves
<1>6. ASSUME NEW d \in Device, NEW r \in Run, Step(d, r)
      PROVE  UNCHANGED <<server, log>> \/ \E op \in sent[d][r] : Serve(d, r, op)
  BY <1>6 DEF Step, Examine, Act, Repaired, Reset, Restore, Push, Receive, Reconciled, Pull, Applied,
              Finish, Compared, Bound, remote
<1> QED
  BY <1>1, <1>2, <1>3, <1>4, <1>5, <1>6 DEF Move, Served

LEMMA LogNext ==
  ASSUME Shape, LogInv, Move
  PROVE  LogInv'
<1>1. CASE UNCHANGED <<server, log>>
  BY <1>1 DEF LogInv, ObjectAt, VersionAt
<1>2. ASSUME NEW op \in Operation, BaseIsCurrent(op), Write(op) PROVE LogInv'
  <2>0. RemoteOK /\ DOMAIN log = 1 .. Len(log) /\ Len(log) \in Nat
    BY LogTypes DEF Shape
  <2>n. PICK n \in Nat : n = Len(log) + 1
    BY <2>0
  <2>1. /\ \A o \in Object \ {op.object} : server'[o] = server[o]
        /\ server'[op.object].revision = server[op.object].revision + 1
        /\ DOMAIN log' = DOMAIN log \cup {n}
        /\ \A i \in DOMAIN log : log'[i] = log[i]
        /\ log'[n] = [object |-> op.object, version |-> server'[op.object]]
        /\ op.object \in Object /\ server[op.object].revision \in Nat
    <3>1. op.object \in Object /\ server[op.object].revision \in Nat
      BY <2>0 DEF RemoteOK, Operation, VersionType
    <3>2. /\ server'[op.object] = [revision |-> server[op.object].revision + 1, content |-> op.content]
          /\ \A o \in Object \ {op.object} : server'[o] = server[o]
          /\ DOMAIN log' = DOMAIN log \cup {Len(log) + 1}
          /\ \A i \in DOMAIN log : log'[i] = log[i]
          /\ log'[Len(log) + 1] = [object |-> op.object, version |-> server'[op.object]]
      BY <1>2, <2>0, WriteEffect, Zenon
    <3> QED
      BY <2>n, <3>1, <3>2
  <2>3. \A i \in DOMAIN log : /\ ObjectAt(i)' = ObjectAt(i) /\ VersionAt(i)' = VersionAt(i)
                              /\ ObjectAt(i) \in Object /\ VersionAt(i).revision \in Nat
    BY <2>1, LogTypes DEF ObjectAt, VersionAt
  <2>4. ObjectAt(n)' = op.object /\ VersionAt(n)'.revision = server[op.object].revision + 1
    BY <2>1 DEF ObjectAt, VersionAt
  <2>5. \A i \in DOMAIN log : i < n /\ i # n
    BY <2>0, <2>n
  <2>6. \A i \in DOMAIN log' : VersionAt(i)'.revision \in 1 .. server'[ObjectAt(i)'].revision
    BY <2>1, <2>3, <2>4 DEF LogInv
  <2>7. ASSUME NEW i \in DOMAIN log', NEW j \in DOMAIN log', i < j, ObjectAt(i)' = ObjectAt(j)'
        PROVE  VersionAt(i)'.revision < VersionAt(j)'.revision
    <3>1. CASE i = n
      BY <2>0, <2>1, <2>5, <2>7, <3>1
    <3>2. CASE i \in DOMAIN log /\ j = n
      BY <2>3, <2>4, <2>7, <2>1, <3>2 DEF LogInv
    <3>3. CASE i \in DOMAIN log /\ j \in DOMAIN log
      BY <2>3, <2>7, <3>3 DEF LogInv
    <3> QED
      BY <2>1, <3>1, <3>2, <3>3
  <2> QED
    BY <2>6, <2>7 DEF LogInv
<1> QED
  BY <1>1, <1>2, RemoteNext

LEMMA LogInit == Init => LogInv
<1> SUFFICES ASSUME Init PROVE LogInv
  OBVIOUS
<1>1. PICK empty \in FirstSync : InitAccount(empty)
  BY DEF Init
<1>2. CASE empty
  BY <1>1, <1>2 DEF InitAccount, LogInv
<1>3. CASE ~empty
  <2>1. log = InitialLog /\ \A o \in Stored : server[o].revision = 1
    BY <1>1, <1>3 DEF InitAccount
  <2>2. \A i \in DOMAIN log : ObjectAt(i) \in Stored /\ VersionAt(i).revision = 1
    BY <2>1, FirstLog DEF ObjectAt, VersionAt
  <2>3. \A i, j \in DOMAIN log : i < j => ObjectAt(i) # ObjectAt(j)
    BY <2>1, FirstLog DEF ObjectAt
  <2> QED
    BY <2>1, <2>2, <2>3 DEF LogInv
<1> QED
  BY <1>2, <1>3

-----------------------------------------------------------------------------
(* The runs of a device follow one another: nobody presses the button while *)
(* the automatic run is on, and a device is bound only when it is not.      *)
Alone(d) ==
  \A r \in Run :
    /\ pc[d][r] # "idle" => r \in {"auto", "bind"} /\ \A s \in Run \ {r} : pc[d][s] = "idle"
    /\ r = "bind" /\ pc[d][r] # "idle" => pc[d][r] \in {"binding", "wrapping"} /\ ~settings[d].bound
    /\ r = "auto" => pc[d][r] \notin {"binding", "wrapping"}

AloneInv == \A d \in Device : Alone(d)

LEMMA AloneOf ==
  ASSUME AloneInv, NEW d \in Device, NEW r \in Run, Elsewhere(d, r),
         \A e \in Device \ {d} : settings'[e] = settings[e],
         \A s \in Run \ {r} : pc[d][s] = "idle",
         /\ pc'[d][r] # "idle" => r \in {"auto", "bind"}
         /\ r = "bind" /\ pc'[d][r] # "idle" =>
              pc'[d][r] \in {"binding", "wrapping"} /\ ~settings'[d].bound
         /\ r = "auto" => pc'[d][r] \notin {"binding", "wrapping"}
  PROVE  AloneInv'
<1>1. ASSUME NEW e \in Device, e # d PROVE Alone(e)'
  BY <1>1 DEF AloneInv, Alone, Elsewhere
<1>2. Alone(d)'
  BY DEF Alone, Elsewhere
<1> QED
  BY <1>1, <1>2 DEF AloneInv

(* A step of a run that has begun, which does not bind the device.          *)
LEMMA AloneOn ==
  ASSUME AloneInv, NEW d \in Device, NEW r \in Run, Elsewhere(d, r), pc[d][r] # "idle",
         \A e \in Device \ {d} : settings'[e] = settings[e], settings'[d] = settings[d],
         \/ pc'[d][r] = "idle"
         \/ pc'[d][r] \in {"binding", "wrapping"} /\ pc[d][r] \in {"binding", "wrapping"}
         \/ pc'[d][r] \notin {"binding", "wrapping"} /\ pc[d][r] \notin {"binding", "wrapping"}
  PROVE  AloneInv'
<1>1. Alone(d)
  BY DEF AloneInv
<1>2. \A s \in Run \ {r} : pc[d][s] = "idle"
  BY <1>1 DEF Alone
<1>3. /\ pc'[d][r] # "idle" => r \in {"auto", "bind"}
      /\ r = "bind" /\ pc'[d][r] # "idle" =>
           pc'[d][r] \in {"binding", "wrapping"} /\ ~settings'[d].bound
      /\ r = "auto" => pc'[d][r] \notin {"binding", "wrapping"}
  BY <1>1 DEF Alone
<1> QED
  BY <1>2, <1>3, AloneOf

(* A run that ends.                                                         *)
LEMMA AloneOver ==
  ASSUME AloneInv, NEW d \in Device, NEW r \in Run, Over(d, r), pc[d][r] # "idle",
         \A e \in Device \ {d} : settings'[e] = settings[e]
  PROVE  AloneInv'
<1>1. \A s \in Run \ {r} : pc[d][s] = "idle"
  BY DEF AloneInv, Alone
<1>2. pc'[d][r] = "idle" /\ Elsewhere(d, r)
  BY DEF Over, RunMove
<1> QED
  BY <1>1, <1>2, AloneOf

LEMMA AloneStep ==
  ASSUME Shape, AloneInv, NEW d \in Device, NEW r \in Run, Step(d, r)
  PROVE  AloneInv'
<1>1. CASE Examine(d, r)
  <2>1. /\ UNCHANGED local /\ Elsewhere(d, r) /\ pc'[d][r] = pc[d][r] /\ pc[d][r] \in Phases
    BY <1>1, ExamineMoves DEF RunMove, Examine
  <2> QED
    BY <2>1, AloneOn DEF local, Phases
<1>2. CASE Act(d, r)
  <2>1. /\ UNCHANGED settings /\ Elsewhere(d, r) /\ pc'[d][r] = pc[d][r] /\ pc[d][r] \in Phases
    BY <1>2, ActMoves DEF RunMove, MemTo
  <2> QED
    BY <2>1, AloneOn DEF Phases
<1>3. CASE Repaired(d, r)
  <2>1. /\ UNCHANGED settings /\ Elsewhere(d, r) /\ pc'[d][r] = "building" /\ pc[d][r] = "repairing"
    BY <1>3, RepairedMoves DEF RunMove
  <2> QED
    BY <2>1, AloneOn
<1>4. CASE Reset(d, r)
  <2>1. UNCHANGED settings /\ UNCHANGED run
    BY <1>4, ResetMoves DEF MemTo
  <2> QED
    BY <2>1 DEF AloneInv, Alone, run
<1>5. CASE Restore(d, r)
  <2>1. /\ UNCHANGED local /\ Elsewhere(d, r) /\ pc'[d][r] = "restoring" /\ pc[d][r] = "building"
    BY <1>5, RestoreMoves DEF RunMove, Restore
  <2> QED
    BY <2>1, AloneOn DEF local
<1>6. CASE Push(d, r)
  <2>1. /\ UNCHANGED local /\ Elsewhere(d, r) /\ pc'[d][r] = "pushing" /\ pc[d][r] = "building"
    BY <1>6, PushMoves DEF RunMove, Push
  <2> QED
    BY <2>1, AloneOn DEF local
<1>7. CASE Receive(d, r)
  <2>1. /\ UNCHANGED settings /\ Elsewhere(d, r) /\ pc'[d][r] = "reconciling" /\ pc[d][r] = "pushing"
    BY <1>7, ReceiveMoves DEF RunMove, MemTo
  <2> QED
    BY <2>1, AloneOn
<1>8. CASE Reconciled(d, r)
  <2>1. /\ UNCHANGED settings /\ Elsewhere(d, r) /\ pc'[d][r] = "asking" /\ pc[d][r] = "reconciling"
    BY <1>8, ReconciledMoves DEF RunMove, MemTo
  <2> QED
    BY <2>1, AloneOn
<1>9. CASE Pull(d, r)
  <2>1. /\ UNCHANGED local /\ Elsewhere(d, r) /\ pc'[d][r] = "pulling" /\ pc[d][r] = "asking"
    BY <1>9, PullMoves DEF RunMove
  <2> QED
    BY <2>1, AloneOn DEF local
<1>10. CASE Applied(d, r)
  <2>1. /\ UNCHANGED local /\ Elsewhere(d, r) /\ pc'[d][r] \in {"asking", "acking"}
        /\ pc[d][r] \in {"pulling", "restoring"}
    BY <1>10, AppliedMoves DEF RunMove, Applied
  <2> QED
    BY <2>1, AloneOn DEF local
<1>11. CASE Finish(d, r)
  <2>1. Over(d, r) /\ pc[d][r] = "acking" /\ \A e \in Device \ {d} : settings'[e] = settings[e]
    BY <1>11, FinishMoves DEF NewSettings, LocalMove
  <2> QED
    BY <2>1, AloneOver
<1>12. CASE Compared(d, r)
  <2>1. /\ UNCHANGED settings /\ Elsewhere(d, r) /\ pc'[d][r] = "wrapping" /\ pc[d][r] = "binding"
    BY <1>12, ComparedMoves DEF RunMove, MemTo
  <2> QED
    BY <2>1, AloneOn
<1>13. CASE Bound(d, r)
  <2>1. Over(d, r) /\ pc[d][r] = "wrapping" /\ \A e \in Device \ {d} : settings'[e] = settings[e]
    BY <1>13, BoundMoves DEF NewSettings, LocalMove
  <2> QED
    BY <2>1, AloneOver
<1>14. ASSUME NEW op \in sent[d][r], Serve(d, r, op) PROVE AloneInv'
  <2>1. /\ UNCHANGED local /\ \A e \in Device, s \in Run : pc'[e][s] = pc[e][s]
    BY <1>14, ServeMoves DEF RunMove, Elsewhere
  <2> QED
    BY <2>1 DEF AloneInv, Alone, local
<1> QED
  BY <1>1, <1>2, <1>3, <1>4, <1>5, <1>6, <1>7, <1>8, <1>9, <1>10, <1>11, <1>12, <1>13, <1>14 DEF Step

LEMMA AloneNext ==
  ASSUME Manual = {}, Shape, AloneInv, Move
  PROVE  AloneInv'
<1>1. ASSUME NEW d \in Device, Change(d) PROVE AloneInv'
  <2>1. settings' = settings /\ UNCHANGED run
    BY <1>1, UserMoves DEF UserMove
  <2> QED
    BY <2>1 DEF AloneInv, Alone, run
<1>2. ASSUME NEW d \in Device, Restart(d) PROVE AloneInv'
  <2>1. Restarted(d)
    BY <1>2, RestartMoves
  <2>2. ASSUME NEW e \in Device PROVE Alone(e)'
    BY <2>1 DEF Restarted, AloneInv, Alone
  <2> QED
    BY <2>2 DEF AloneInv
<1>3. ASSUME NEW d \in Device, Disconnect(d) PROVE AloneInv'
  <2>1. /\ UNCHANGED run /\ settings'[d] = Unbound
        /\ \A e \in Device \ {d} : settings'[e] = settings[e]
    BY <1>3, DisconnectMoves DEF NewSettings, LocalMove
  <2> QED
    BY <2>1 DEF AloneInv, Alone, run, Unbound
<1>4. ASSUME NEW d \in Device, NEW r \in Run, Start(d, r) PROVE AloneInv'
  <2>1. UNCHANGED local /\ Elsewhere(d, r) /\ pc'[d][r] = "repairing"
    BY <1>4, StartMoves DEF RunMove
  <2>2. r = "auto" /\ settings[d].bound
    BY <1>4 DEF Start
  <2>3. \A s \in Run \ {r} : pc[d][s] = "idle"
    BY <2>2 DEF AloneInv, Alone
  <2> QED
    BY <2>1, <2>2, <2>3, AloneOf DEF local
<1>5. ASSUME NEW d \in Device, NEW r \in Run, Bind(d, r) PROVE AloneInv'
  <2>1. UNCHANGED local /\ Elsewhere(d, r) /\ pc'[d][r] = "binding"
    BY <1>5, BindMoves DEF RunMove
  <2>2. r = "bind" /\ ~settings[d].bound /\ \A s \in Run : pc[d][s] = "idle"
    BY <1>5 DEF Bind, Idle
  <2> QED
    BY <2>1, <2>2, AloneOf DEF local
<1>6. ASSUME NEW d \in Device, NEW r \in Run, Fail(d, r) PROVE AloneInv'
  BY <1>6, FailMoves, AloneOver DEF Fail, local
<1>7. ASSUME NEW d \in Device, NEW r \in Run, Refused(d, r) PROVE AloneInv'
  <2>1. Over(d, r) /\ pc[d][r] # "idle" /\ \A e \in Device \ {d} : settings'[e] = settings[e]
    BY <1>7, RefusedMoves DEF NewSettings, LocalMove, Refused
  <2> QED
    BY <2>1, AloneOver
<1>8. ASSUME NEW op \in strays, ServeStray(op) PROVE AloneInv'
  <2>1. UNCHANGED local /\ UNCHANGED run
    BY <1>8, ServeStrayMoves
  <2> QED
    BY <2>1 DEF AloneInv, Alone, local, run
<1> QED
  BY <1>1, <1>2, <1>3, <1>4, <1>5, <1>6, <1>7, <1>8, AloneStep DEF Move

LEMMA AloneInit == Init => AloneInv
BY DEF Init, AloneInv, Alone

-----------------------------------------------------------------------------
(* A clean record is a version of the server, a dirty one is a change on top*)
(* of the revision before it.                                               *)
Matches(l, o, revision, content) ==
  \E id \in DOMAIN l : /\ l[id].object = o
                       /\ l[id].version.revision = revision /\ l[id].version.content = content

GoodRecord(l, o, record) ==
  record # Absent =>
    /\ record.state = "clean" => Matches(l, o, record.revision, record.content)
    /\ record.state = "dirty" => record.revision = record.base + 1

GoodTable(l, t) == \A o \in Object : GoodRecord(l, o, t[o])

RecordsInv == \A d \in Device : GoodTable(log, mem[d]) /\ GoodTable(log, disk[d])

(* What a run has sent is what the device holds, and an answer that accepts *)
(* it makes it the server's version.                                        *)
AsSent(t, op) ==
  t[op.object] = [revision |-> op.revision, base |-> op.base, content |-> op.content, state |-> "dirty"]

Taken(l, t, a) ==
  /\ t[a.object] # Absent /\ t[a.object].state = "dirty"
  /\ a.revision = t[a.object].base + 1
  /\ Matches(l, a.object, a.revision, t[a.object].content)

PushSlot(d, r) ==
  /\ sent[d][r] # {} => pc[d][r] = "pushing"
  /\ \A op \in sent[d][r] : AsSent(mem[d], op)
  /\ pc[d][r] = "pushing" => \A a \in AcceptedOf(d, r) : Taken(log, mem[d], a)

PushInv == \A d \in Device, r \in Run : PushSlot(d, r)

LEMMA MatchesGrow ==
  ASSUME Grown, NEW o, NEW revision, NEW content, Matches(log, o, revision, content)
  PROVE  Matches(log', o, revision, content)
BY DEF Grown, Matches

LEMMA GoodGrows ==
  ASSUME Grown, NEW t, GoodTable(log, t)
  PROVE  GoodTable(log', t)
BY MatchesGrow DEF GoodTable, GoodRecord

(* The device whose store changes has to be looked at, and no other.        *)
LEMMA RecordsMove ==
  ASSUME Shape, RecordsInv, Grown, NEW d \in Device, LocalMove(d), GoodTable(log', mem'[d])
  PROVE  RecordsInv'
<1>1. /\ \A e \in Device \ {d} : mem'[e] = mem[e] /\ disk'[e] = disk[e]
      /\ \/ disk'[d] = disk[d]
         \/ \A o \in Object : disk'[d][o] = IF mem'[d][o] # Absent THEN mem'[d][o] ELSE disk[d][o]
  BY LocalMoveType DEF Shape
<1>2. \A e \in Device : GoodTable(log', mem[e]) /\ GoodTable(log', disk[e])
  BY GoodGrows DEF RecordsInv
<1>3. GoodTable(log', disk'[d])
  BY <1>1, <1>2 DEF GoodTable
<1> QED
  BY <1>1, <1>2, <1>3 DEF RecordsInv

LEMMA RecordsStay ==
  ASSUME RecordsInv, Grown, mem' = mem, disk' = disk
  PROVE  RecordsInv'
BY GoodGrows DEF RecordsInv

LEMMA NewIsGood ==
  ASSUME NEW l, NEW o, NEW c
  PROVE  GoodRecord(l, o, NewRecord(c))
BY DEF GoodRecord, NewRecord

LEMMA RemoteIsGood ==
  ASSUME NEW t \in Table, GoodTable(log, t), NEW id \in DOMAIN log,
         ObjectAt(id) \in Object
  PROVE  GoodTable(log, WithRemote(t, ObjectAt(id), VersionAt(id)))
<1> DEFINE o == ObjectAt(id)
           u == WithRemote(t, o, VersionAt(id))
<1>1. \A x \in Object \ {o} : u[x] = t[x]
  BY DEF WithRemote, Table
<1>2. u[o] = IF VersionAt(id).content.deleted THEN Absent ELSE CleanRecord(VersionAt(id))
  BY DEF WithRemote, Table
<1>3. GoodRecord(log, o, CleanRecord(VersionAt(id)))
  BY DEF GoodRecord, CleanRecord, Matches, ObjectAt, VersionAt
<1>4. GoodRecord(log, o, u[o])
  BY <1>2, <1>3 DEF GoodRecord
<1> QED
  BY <1>1, <1>4 DEF GoodTable

LEMMA ConflictIsGood ==
  ASSUME NEW l, NEW t \in Table, GoodTable(l, t), NEW o \in Object
  PROVE  GoodTable(l, MarkedConflicted(t, o))
<1> DEFINE u == MarkedConflicted(t, o)
<1>1. \A x \in Object \ {o} : u[x] = t[x]
  BY DEF MarkedConflicted, Table
<1>2. t[o] # Absent => u[o].state = "conflicted"
  <2>1. t[o] # Absent => t[o] \in Record
    BY DEF Table
  <2>2. u[o] = IF t[o] = Absent THEN t[o] ELSE [t[o] EXCEPT !.state = "conflicted"]
    BY DEF MarkedConflicted, Table
  <2> QED
    BY <2>1, <2>2 DEF Record
<1>3. t[o] = Absent => u[o] = Absent
  BY DEF MarkedConflicted, Table
<1>4. GoodRecord(l, o, u[o])
  BY <1>2, <1>3 DEF GoodRecord
<1> QED
  BY <1>1, <1>4 DEF GoodTable

LEMMA AcceptedIsGood ==
  ASSUME NEW l, NEW t \in Table, GoodTable(l, t), NEW accepted \in SUBSET AnswerType,
         \A a \in accepted : Taken(l, t, a)
  PROVE  /\ GoodTable(l, WithAccepted(t, accepted))
         /\ \A o \in Object : (t[o] = Absent) <=> (WithAccepted(t, accepted)[o] = Absent)
<1> SUFFICES ASSUME NEW o \in Object
             PROVE  /\ GoodRecord(l, o, WithAccepted(t, accepted)[o])
                    /\ (t[o] = Absent) <=> (WithAccepted(t, accepted)[o] = Absent)
  BY DEF GoodTable
<1>1. CASE t[o] # Absent /\ \E a \in accepted : a.object = o
  <2> DEFINE a == CHOOSE x \in accepted : x.object = o
             u == [t[o] EXCEPT !.revision = a.revision, !.base = a.revision, !.state = "clean"]
  <2>1. a \in accepted /\ a.object = o
    BY <1>1
  <2>2. WithAccepted(t, accepted)[o] = u
    BY <1>1 DEF WithAccepted
  <2>3. t[o] \in Record /\ a.revision \in Nat
    BY <1>1, <2>1 DEF Table, AnswerType
  <2>4. Matches(l, o, a.revision, t[o].content)
    BY <2>1 DEF Taken
  <2> HIDE DEF a
  <2>5. u \in Record /\ u.revision = a.revision /\ u.content = t[o].content /\ u.state = "clean"
    BY <2>3, RecordTypes DEF Record
  <2> HIDE DEF u
  <2> QED
    BY <1>1, <2>2, <2>4, <2>5 DEF GoodRecord
<1>2. CASE ~(t[o] # Absent /\ \E a \in accepted : a.object = o)
  <2>1. WithAccepted(t, accepted)[o] = t[o]
    BY <1>2 DEF WithAccepted
  <2> QED
    BY <2>1 DEF GoodTable
<1> QED
  BY <1>1, <1>2

(* The steps of a run keep the records.                                     *)
LEMMA RecordsStep ==
  ASSUME Shape, AloneInv, RecordsInv, PushInv, NEW d \in Device, NEW r \in Run, Step(d, r), Grown
  PROVE  RecordsInv'
<1>0. LocalOK /\ mem[d] \in Table /\ GoodTable(log, mem[d]) /\ PushSlot(d, r) /\ RunOK
  BY LocalParts DEF Shape, RecordsInv, PushInv
<1>1. CASE Examine(d, r) \/ Restore(d, r) \/ Push(d, r) \/ Pull(d, r) \/ Applied(d, r)
  <2>1. mem' = mem /\ disk' = disk
    BY <1>1, ExamineMoves, RestoreMoves, PushMoves, PullMoves, AppliedMoves DEF local
  <2> QED
    BY <2>1, RecordsStay
<1>2. CASE Act(d, r)
  <2> DEFINE n == Min(todo[d][r])
             t == Carried(d, verdict[d][r], n)
  <2>1. /\ LocalMove(d) /\ mem'[d] = t /\ todo[d][r] # {}
        /\ verdict[d][r] \in {"apply", "conflict", "skip"}
    BY <1>2, ActMoves DEF MemTo
  <2>2. n \in DOMAIN log /\ ObjectAt(n) \in Object
    BY <2>1, NextInLog
  <2>3. GoodTable(log, t)
    BY <1>0, <2>1, <2>2, RemoteIsGood, ConflictIsGood DEF Carried
  <2> HIDE DEF t
  <2> QED
    BY <2>1, <2>3, GoodGrows, RecordsMove
<1>3. CASE Repaired(d, r)
  <2>1. LocalMove(d) /\ mem' = mem
    BY <1>3, RepairedMoves
  <2> QED
    BY <1>0, <2>1, GoodGrows, RecordsMove
<1>4. CASE Reset(d, r)
  <2>1. LocalMove(d) /\ mem'[d] = ResetForUpload(mem[d])
    BY <1>4, ResetMoves DEF MemTo
  <2>2. GoodTable(log', mem'[d])
    BY <2>1, NewIsGood DEF GoodTable, ResetForUpload, GoodRecord
  <2> QED
    BY <2>1, <2>2, RecordsMove
<1>5. CASE Receive(d, r)
  <2> DEFINE t == WithAccepted(mem[d], AcceptedOf(d, r))
  <2>1. LocalMove(d) /\ mem'[d] = Received(d, r) /\ pc[d][r] = "pushing"
    BY <1>5, ReceiveMoves DEF MemTo
  <2>2. AcceptedOf(d, r) \in SUBSET AnswerType
    BY <1>0, RunParts DEF AcceptedOf, Answers
  <2>3. \A a \in AcceptedOf(d, r) : Taken(log, mem[d], a)
    BY <1>0, <2>1 DEF PushSlot
  <2>4. t \in Table /\ GoodTable(log, t)
    BY <1>0, <2>2, <2>3, AcceptedIsGood, TableTypes
  <2> HIDE DEF t
  <2>5. \A o \in Object : GoodTable(log, MarkedConflicted(t, o))
    BY <2>4, ConflictIsGood
  <2>6. \A o \in Object : Received(d, r)[o] = t[o] \/ Received(d, r)[o] = MarkedConflicted(t, o)[o]
    BY DEF Received, t
  <2>7. GoodTable(log, Received(d, r))
    BY <2>4, <2>5, <2>6 DEF GoodTable
  <2> QED
    BY <2>1, <2>7, GoodGrows, RecordsMove
<1>6. CASE Reconciled(d, r)
  <2>1. LocalMove(d) /\ mem'[d] = WithoutDeleted(mem[d], AcceptedOf(d, r))
    BY <1>6, ReconciledMoves DEF MemTo
  <2>2. \A o \in Object : mem'[d][o] = mem[d][o] \/ mem'[d][o] = Absent
    BY <2>1 DEF WithoutDeleted
  <2>3. GoodTable(log, mem'[d])
    BY <1>0, <2>2 DEF GoodTable, GoodRecord
  <2> QED
    BY <2>1, <2>3, GoodGrows, RecordsMove
<1>7. CASE Compared(d, r)
  <2>1. LocalMove(d) /\ mem'[d] = MissingReset(mem[d], at[d][r])
    BY <1>7, ComparedMoves DEF MemTo
  <2>2. \A o \in Object : mem'[d][o] = mem[d][o] \/ mem'[d][o] = NewRecord(mem[d][o].content)
    BY <2>1 DEF MissingReset
  <2>3. GoodTable(log, mem'[d])
    BY <1>0, <2>2, NewIsGood DEF GoodTable
  <2> QED
    BY <2>1, <2>3, GoodGrows, RecordsMove
<1>8. CASE Finish(d, r) \/ Bound(d, r)
  <2>1. LocalMove(d) /\ mem' = mem
    BY <1>8, FinishMoves, BoundMoves DEF NewSettings
  <2> QED
    BY <1>0, <2>1, GoodGrows, RecordsMove
<1>9. ASSUME NEW op \in sent[d][r], Serve(d, r, op) PROVE RecordsInv'
  <2>1. mem' = mem /\ disk' = disk
    BY <1>9, ServeMoves DEF local
  <2> QED
    BY <2>1, RecordsStay
<1> QED
  BY <1>1, <1>2, <1>3, <1>4, <1>5, <1>6, <1>7, <1>8, <1>9 DEF Step

LEMMA RecordsNext ==
  ASSUME Shape, AloneInv, RecordsInv, PushInv, Move
  PROVE  RecordsInv'
<1>0. Grown /\ LocalOK /\ \A d \in Device : mem[d] \in Table /\ disk[d] \in Table
  BY ShapeNext, LocalParts DEF Shape
<1>1. ASSUME NEW d \in Device, Change(d) PROVE RecordsInv'
  <2>1. UserMove(d)
    BY <1>1, UserMoves
  <2>2. GoodTable(log', mem[d])
    BY <1>0, GoodGrows DEF RecordsInv
  <2>3. ASSUME NEW o \in Object PROVE GoodRecord(log', o, mem'[d][o])
    <3>1. CASE mem'[d][o] = mem[d][o]
      BY <2>2, <3>1 DEF GoodTable
    <3>2. CASE IsNew(d, o)
      <4> DEFINE c == NextContent(FALSE)
      <4>1. mem'[d][o] = NewRecord(c)
        BY <3>2 DEF IsNew
      <4> HIDE DEF c
      <4> QED
        BY <4>1, NewIsGood
    <3>3. CASE IsChanged(d, o)
      <4>1. mem[d][o] \in Record /\ EditsOK
        BY <1>0, <3>3, LocalParts DEF IsChanged, Shape
      <4>2. mem'[d][o].state = "dirty" /\ mem'[d][o].revision = mem'[d][o].base + 1
        BY <3>3, <4>1, ChangedBoth, ZenonT(60) DEF IsChanged
      <4> QED
        BY <4>2 DEF GoodRecord
    <3> QED
      BY <2>1, <3>1, <3>2, <3>3 DEF UserMove
  <2> QED
    BY <1>0, <2>1, <2>3, RecordsMove DEF UserMove, GoodTable
<1>2. ASSUME NEW d \in Device, Restart(d) PROVE RecordsInv'
  <2>1. Restarted(d)
    BY <1>2, RestartMoves
  <2>2. \A o \in Object : Loaded(d)[o] = disk[d][o] \/ Loaded(d)[o] = Absent
    BY DEF Loaded
  <2>3. GoodTable(log, Loaded(d))
    BY <2>2 DEF RecordsInv, GoodTable, GoodRecord
  <2>4. \A e \in Device : mem'[e] = IF e = d THEN Loaded(d) ELSE mem[e]
    BY <2>1 DEF Restarted
  <2>5. disk' = disk /\ log' = log
    BY <2>1 DEF Restarted
  <2> QED
    BY <2>3, <2>4, <2>5 DEF RecordsInv
<1>3. ASSUME NEW d \in Device, mem' = mem, LocalMove(d) PROVE RecordsInv'
  BY <1>0, <1>3, GoodGrows, RecordsMove DEF RecordsInv
<1>4. ASSUME NEW d \in Device, Disconnect(d) PROVE RecordsInv'
  BY <1>3, <1>4, DisconnectMoves DEF NewSettings
<1>5. ASSUME NEW d \in Device, NEW r \in Run, Refused(d, r) PROVE RecordsInv'
  BY <1>3, <1>5, RefusedMoves DEF NewSettings
<1>6. ASSUME NEW d \in Device, NEW r \in Run, Start(d, r) \/ Bind(d, r) \/ Fail(d, r) PROVE RecordsInv'
  <2>1. mem' = mem /\ disk' = disk
    BY <1>6, StartMoves, BindMoves, FailMoves DEF local
  <2> QED
    BY <1>0, <2>1, RecordsStay
<1>7. ASSUME NEW op \in strays, ServeStray(op) PROVE RecordsInv'
  <2>1. mem' = mem /\ disk' = disk
    BY <1>7, ServeStrayMoves DEF local
  <2> QED
    BY <1>0, <2>1, RecordsStay
<1> QED
  BY <1>0, <1>1, <1>2, <1>4, <1>5, <1>6, <1>7, RecordsStep DEF Move

(* What has been sent.                                                      *)
LEMMA TakenGrows ==
  ASSUME Grown, NEW t, NEW a, Taken(log, t, a)
  PROVE  Taken(log', t, a)
BY MatchesGrow DEF Taken

LEMMA PushSlotKept ==
  ASSUME Grown, NEW e \in Device, NEW s \in Run, PushSlot(e, s),
         pc'[e][s] = pc[e][s], sent'[e][s] = sent[e][s], answers'[e][s] = answers[e][s],
         mem'[e] = mem[e]
  PROVE  PushSlot(e, s)'
<1>1. AcceptedOf(e, s)' = AcceptedOf(e, s)
  BY DEF AcceptedOf
<1> QED
  BY <1>1, TakenGrows DEF PushSlot

LEMMA PushMove ==
  ASSUME PushInv, AloneInv, Grown, NEW d \in Device, NEW r \in Run, Elsewhere(d, r), PushSlot(d, r)',
         \A e \in Device \ {d} : mem'[e] = mem[e], mem'[d] = mem[d] \/ pc[d][r] # "idle"
  PROVE  PushInv'
<1> SUFFICES ASSUME NEW e \in Device, NEW s \in Run PROVE PushSlot(e, s)'
  BY DEF PushInv
<1>0. PushSlot(e, s)
  BY DEF PushInv
<1>1. CASE e # d
  BY <1>0, <1>1, PushSlotKept DEF Elsewhere
<1>2. CASE e = d /\ s # r /\ mem'[d] = mem[d]
  BY <1>0, <1>2, PushSlotKept DEF Elsewhere
<1>3. CASE e = d /\ s # r /\ pc[d][r] # "idle"
  <2>1. pc[d][s] = "idle"
    BY <1>3 DEF AloneInv, Alone
  <2>2. sent[d][s] = {}
    BY <1>0, <1>3, <2>1 DEF PushSlot
  <2>3. pc'[d][s] = "idle" /\ sent'[d][s] = {}
    BY <1>3, <2>1, <2>2 DEF Elsewhere
  <2> QED
    BY <1>3, <2>3 DEF PushSlot
<1> QED
  BY <1>1, <1>2, <1>3

LEMMA PushQuiet ==
  ASSUME NEW d \in Device, NEW r \in Run, sent'[d][r] = {}, pc'[d][r] # "pushing"
  PROVE  PushSlot(d, r)'
BY DEF PushSlot

LEMMA PushStay ==
  ASSUME PushInv, Grown, UNCHANGED run, mem' = mem
  PROVE  PushInv'
BY PushSlotKept DEF PushInv, run

LEMMA PushStep ==
  ASSUME Shape, AloneInv, RecordsInv, PushInv, NEW d \in Device, NEW r \in Run, Step(d, r), Grown
  PROVE  PushInv'
<1>0. PushSlot(d, r) /\ (pc[d][r] # "pushing" => sent[d][r] = {}) /\ LocalOK
  BY DEF PushInv, PushSlot, Shape
<1>m. ASSUME LocalMove(d), Elsewhere(d, r), sent'[d][r] = {}, pc'[d][r] # "pushing",
             pc[d][r] # "idle"
      PROVE  PushInv'
  BY <1>m, PushMove, PushQuiet DEF LocalMove
<1>l. ASSUME UNCHANGED local, Elsewhere(d, r), sent'[d][r] = {}, pc'[d][r] # "pushing"
      PROVE  PushInv'
  BY <1>l, PushMove, PushQuiet DEF local
<1>1. CASE Examine(d, r)
  <2>1. UNCHANGED local /\ Elsewhere(d, r) /\ pc'[d][r] = pc[d][r] /\ sent'[d][r] = sent[d][r]
        /\ pc[d][r] \in Phases
    BY <1>1, ExamineMoves DEF RunMove, Examine
  <2> QED
    BY <1>0, <1>l, <2>1 DEF Phases
<1>2. CASE Act(d, r)
  <2>1. LocalMove(d) /\ Elsewhere(d, r) /\ pc'[d][r] = pc[d][r] /\ sent'[d][r] = sent[d][r]
        /\ pc[d][r] \in Phases
    BY <1>2, ActMoves DEF RunMove, MemTo
  <2> QED
    BY <1>0, <1>m, <2>1 DEF Phases
<1>3. CASE Repaired(d, r)
  <2>1. LocalMove(d) /\ Elsewhere(d, r) /\ pc'[d][r] = "building" /\ sent'[d][r] = sent[d][r]
        /\ pc[d][r] = "repairing"
    BY <1>3, RepairedMoves DEF RunMove
  <2> QED
    BY <1>0, <1>m, <2>1
<1>4. CASE Reset(d, r)
  <2>1. LocalMove(d) /\ UNCHANGED run /\ pc[d][r] = "building"
    BY <1>4, ResetMoves DEF MemTo
  <2>2. Elsewhere(d, r) /\ sent'[d][r] = {} /\ pc'[d][r] = "building"
    BY <1>0, <2>1 DEF run, Elsewhere
  <2> QED
    BY <1>m, <2>1, <2>2
<1>5. CASE Restore(d, r)
  <2>1. UNCHANGED local /\ Elsewhere(d, r) /\ pc'[d][r] = "restoring" /\ sent'[d][r] = sent[d][r]
        /\ pc[d][r] = "building"
    BY <1>5, RestoreMoves DEF RunMove, Restore
  <2> QED
    BY <1>0, <1>l, <2>1
<1>6. CASE Push(d, r)
  <2>1. /\ UNCHANGED local /\ Elsewhere(d, r) /\ pc'[d][r] = "pushing" /\ sent'[d][r] = PushOf(d)
        /\ answers'[d][r] = {}
    BY <1>6, PushMoves DEF RunMove
  <2>2. \A op \in PushOf(d) : AsSent(mem[d], op)
    <3>1. ASSUME NEW o \in Object, InState(d, o, "dirty")
          PROVE  mem[d][o] = [revision |-> mem[d][o].revision, base |-> mem[d][o].base,
                              content |-> mem[d][o].content, state |-> "dirty"]
      BY <1>0, <3>1, LocalParts DEF InState, Has, Record
    <3> QED
      BY <3>1 DEF PushOf, AsSent
  <2>3. PushSlot(d, r)'
    BY <2>1, <2>2 DEF PushSlot, AcceptedOf, local
  <2> QED
    BY <2>1, <2>3, PushMove DEF local
<1>7. CASE Receive(d, r)
  <2>1. LocalMove(d) /\ Elsewhere(d, r) /\ pc'[d][r] = "reconciling" /\ sent'[d][r] = sent[d][r]
        /\ pc[d][r] = "pushing" /\ sent[d][r] = {}
    BY <1>7, ReceiveMoves DEF RunMove, MemTo
  <2> QED
    BY <1>m, <2>1
<1>8. CASE Reconciled(d, r)
  <2>1. LocalMove(d) /\ Elsewhere(d, r) /\ pc'[d][r] = "asking" /\ sent'[d][r] = sent[d][r]
        /\ pc[d][r] = "reconciling"
    BY <1>8, ReconciledMoves DEF RunMove, MemTo
  <2> QED
    BY <1>0, <1>m, <2>1
<1>9. CASE Pull(d, r)
  <2>1. UNCHANGED local /\ Elsewhere(d, r) /\ pc'[d][r] = "pulling" /\ sent'[d][r] = sent[d][r]
        /\ pc[d][r] = "asking"
    BY <1>9, PullMoves DEF RunMove
  <2> QED
    BY <1>0, <1>l, <2>1
<1>10. CASE Applied(d, r)
  <2>1. UNCHANGED local /\ Elsewhere(d, r) /\ pc'[d][r] \in {"asking", "acking"}
        /\ sent'[d][r] = sent[d][r] /\ pc[d][r] \in {"pulling", "restoring"}
    BY <1>10, AppliedMoves DEF RunMove, Applied
  <2> QED
    BY <1>0, <1>l, <2>1
<1>11. CASE Finish(d, r) \/ Bound(d, r)
  <2>1. LocalMove(d) /\ Over(d, r) /\ pc[d][r] # "idle"
    BY <1>11, FinishMoves, BoundMoves DEF NewSettings
  <2> QED
    BY <1>m, <2>1 DEF Over, RunMove
<1>12. CASE Compared(d, r)
  <2>1. LocalMove(d) /\ Elsewhere(d, r) /\ pc'[d][r] = "wrapping" /\ sent'[d][r] = sent[d][r]
        /\ pc[d][r] = "binding"
    BY <1>12, ComparedMoves DEF RunMove, MemTo
  <2> QED
    BY <1>0, <1>m, <2>1
<1>13. ASSUME NEW op \in sent[d][r], Serve(d, r, op) PROVE PushInv'
  <2>1. /\ op \in Operation /\ Served(op) /\ UNCHANGED local /\ Elsewhere(d, r)
        /\ pc'[d][r] = pc[d][r] /\ sent'[d][r] = sent[d][r] \ {op}
        /\ answers'[d][r] = answers[d][r] \cup {Answer(op)}
    BY <1>13, ServeMoves DEF RunMove
  <2>2. AsSent(mem[d], op) /\ op.object \in Object /\ RemoteOK
    BY <1>0 , <2>1 DEF PushSlot, Operation, Shape
  <2>3. ASSUME NEW a \in AcceptedOf(d, r)', pc'[d][r] = "pushing" PROVE Taken(log', mem[d], a)
    <3>1. CASE a \in AcceptedOf(d, r)
      BY <1>0, <2>1, <2>3, <3>1, TakenGrows DEF PushSlot
    <3>2. CASE a = Answer(op) /\ a.kind = "accepted"
      <4>1. BaseIsCurrent(op) /\ a.object = op.object /\ a.revision = op.revision
        BY <2>1, <3>2, AnswerTypes
      <4>2. Write(op)
        BY <2>1, <4>1 DEF Served
      <4>3. /\ DOMAIN log' = DOMAIN log \cup {Len(log) + 1}
            /\ log'[Len(log) + 1] = [object |-> op.object, version |-> server'[op.object]]
            /\ server'[op.object] = [revision |-> server[op.object].revision + 1, content |-> op.content]
        BY <2>1, <2>2, <4>2, WriteEffect, Zenon
      <4>4. mem[d][op.object] \in Record /\ mem[d][op.object].revision = mem[d][op.object].base + 1
        <5>1. mem[d][op.object] \in Record
          BY <2>1, <2>2 DEF AsSent, Operation, ContentType, Record, SyncState
        <5> QED
          BY <2>2, <5>1 DEF RecordsInv, GoodTable, GoodRecord, AsSent
      <4>5. /\ mem[d][op.object].state = "dirty" /\ mem[d][op.object].base = op.base
            /\ mem[d][op.object].revision = op.revision /\ mem[d][op.object].content = op.content
        BY <2>2 DEF AsSent
      <4>6. op.revision = server[op.object].revision + 1
        BY <4>1, <4>4, <4>5 DEF BaseIsCurrent
      <4>7. Matches(log', op.object, op.revision, op.content)
        BY <4>3, <4>6 DEF Matches
      <4>8. mem[d][op.object] # Absent
        BY <4>4
      <4> QED
        BY <4>1, <4>4, <4>5, <4>7, <4>8 DEF Taken
    <3> QED
      BY <2>1, <3>1, <3>2 DEF AcceptedOf
  <2>4. PushSlot(d, r)'
    BY <1>0, <2>1, <2>3 DEF PushSlot, local
  <2> QED
    BY <2>1, <2>4, PushMove DEF local
<1> QED
  BY <1>1, <1>2, <1>3, <1>4, <1>5, <1>6, <1>7, <1>8, <1>9, <1>10, <1>11, <1>12, <1>13 DEF Step

(* What waits for an answer is not changed meanwhile: it is dirty, and the  *)
(* user does not change it again, or nothing during a run.                  *)
Untouched == "dirty" \in EditStates => ~EditsDuringRun

LEMMA PushNext ==
  ASSUME Untouched, Shape, AloneInv, RecordsInv, PushInv, Move
  PROVE  PushInv'
<1>0. Grown
  BY ShapeNext
<1>1. ASSUME NEW d \in Device, Change(d) PROVE PushInv'
  <2>1. UserMove(d)
    BY <1>1, UserMoves
  <2>2. UNCHANGED run /\ \A e \in Device \ {d} : mem'[e] = mem[e]
    BY <2>1 DEF UserMove, LocalMove
  <2> SUFFICES ASSUME NEW e \in Device, NEW s \in Run PROVE PushSlot(e, s)'
    BY DEF PushInv
  <2>3. PushSlot(e, s) /\ RunOK
    BY DEF PushInv, Shape
  <2>4. pc'[e][s] = pc[e][s] /\ sent'[e][s] = sent[e][s] /\ answers'[e][s] = answers[e][s]
    BY <2>2 DEF run
  <2>5. CASE e # d
    BY <1>0, <2>2, <2>3, <2>4, <2>5, PushSlotKept
  <2>6. CASE e = d /\ pc[d][s] # "pushing"
    BY <2>3, <2>4, <2>6 DEF PushSlot
  <2>7. CASE e = d /\ pc[d][s] = "pushing"
    <3>1. "dirty" \notin EditStates
      BY <2>1, <2>7 DEF UserMove, Idle, Untouched
    <3>2. \A o \in Object : mem[d][o] # Absent /\ mem[d][o].state = "dirty" => mem'[d][o] = mem[d][o]
      BY <2>1, <3>1 DEF UserMove, IsNew, IsChanged
    <3>3. ASSUME NEW op \in sent[d][s] PROVE AsSent(mem'[d], op)
      <4>1. AsSent(mem[d], op) /\ op \in Operation
        BY <2>3, <2>7, RunParts DEF PushSlot, Operations
      <4>2. op.object \in Object /\ mem[d][op.object] \in Record /\ mem[d][op.object].state = "dirty"
        BY <4>1 DEF AsSent, Operation, ContentType, Record, SyncState
      <4>3. mem'[d][op.object] = mem[d][op.object]
        BY <3>2, <4>2
      <4> QED
        BY <4>1, <4>3 DEF AsSent
    <3>4. ASSUME NEW a \in AcceptedOf(d, s) PROVE Taken(log', mem'[d], a)
      <4>1. Taken(log', mem[d], a) /\ a.object \in Object
        BY <1>0, <2>3, <2>7, RunParts, TakenGrows DEF PushSlot, AcceptedOf, Answers, AnswerType
      <4>2. mem'[d][a.object] = mem[d][a.object]
        BY <3>2, <4>1 DEF Taken
      <4> QED
        BY <4>1, <4>2 DEF Taken
    <3>5. AcceptedOf(d, s)' = AcceptedOf(d, s)
      BY <2>4, <2>7 DEF AcceptedOf
    <3> QED
      BY <2>4, <2>7, <3>3, <3>4, <3>5 DEF PushSlot
  <2> QED
    BY <2>5, <2>6, <2>7
<1>2. ASSUME NEW d \in Device, Restart(d) PROVE PushInv'
  <2>1. Restarted(d)
    BY <1>2, RestartMoves
  <2> SUFFICES ASSUME NEW e \in Device, NEW s \in Run PROVE PushSlot(e, s)'
    BY DEF PushInv
  <2>2. CASE e # d
    BY <1>0, <2>1, <2>2, PushSlotKept DEF PushInv, Restarted
  <2>3. CASE e = d
    BY <2>1, <2>3 DEF Restarted, PushSlot
  <2> QED
    BY <2>2, <2>3
<1>3. ASSUME NEW d \in Device, Disconnect(d) PROVE PushInv'
  <2>1. mem' = mem /\ UNCHANGED run
    BY <1>3, DisconnectMoves DEF NewSettings
  <2> QED
    BY <1>0, <2>1, PushStay
<1>4. ASSUME NEW d \in Device, NEW r \in Run, Start(d, r) \/ Bind(d, r) PROVE PushInv'
  <2>1. mem' = mem /\ Elsewhere(d, r) /\ sent'[d][r] = sent[d][r] /\ pc'[d][r] \in {"repairing", "binding"}
    BY <1>4, StartMoves, BindMoves DEF RunMove, local
  <2>2. pc[d][r] = "idle" /\ PushSlot(d, r)
    BY <1>4 DEF Start, Bind, Idle, PushInv
  <2>3. sent'[d][r] = {} /\ pc'[d][r] # "pushing"
    BY <2>1, <2>2 DEF PushSlot
  <2> QED
    BY <1>0, <2>1, <2>3, PushMove, PushQuiet
<1>5. ASSUME NEW d \in Device, NEW r \in Run, Refused(d, r) \/ Fail(d, r) PROVE PushInv'
  <2>1. mem' = mem /\ Elsewhere(d, r) /\ sent'[d][r] = {} /\ pc'[d][r] = "idle"
    BY <1>5, RefusedMoves, FailMoves DEF RunMove, local, Over, NewSettings
  <2> QED
    BY <1>0, <2>1, PushMove, PushQuiet
<1>6. ASSUME NEW op \in strays, ServeStray(op) PROVE PushInv'
  <2>1. mem' = mem /\ UNCHANGED run
    BY <1>6, ServeStrayMoves DEF local
  <2> QED
    BY <1>0, <2>1, PushStay
<1> QED
  BY <1>0, <1>1, <1>2, <1>3, <1>4, <1>5, <1>6, PushStep DEF Move

LEMMA RecordsInit == Init => RecordsInv /\ PushInv
<1> SUFFICES ASSUME Init PROVE RecordsInv /\ PushInv
  OBVIOUS
<1>1. PICK empty \in FirstSync : InitAccount(empty)
  BY DEF Init
<1>2. ASSUME NEW d \in Device, NEW o \in Object PROVE GoodRecord(log, o, InitialRecord(d, o, empty))
  <2>1. CASE empty
    BY <2>1, NewIsGood DEF InitialRecord, GoodRecord
  <2>2. CASE ~empty /\ o \in Stored
    <3> DEFINE rec == CleanRecord([revision |-> 1, content |-> FirstContent])
    <3>1. log = InitialLog
      BY <1>1, <2>2 DEF InitAccount
    <3>2. PICK i \in DOMAIN log : log[i].object = o
      BY <2>2, <3>1, FirstLog
    <3>3. log[i].version = [revision |-> 1, content |-> FirstContent]
      BY <3>1, FirstLog
    <3>4. rec.revision = 1 /\ rec.content = FirstContent /\ rec.state = "clean"
      BY DEF CleanRecord
    <3>5. GoodRecord(log, o, rec)
      <4> HIDE DEF rec
      <4> QED
        BY <3>2, <3>3, <3>4 DEF GoodRecord, Matches
    <3> QED
      BY <2>2, <3>5 DEF InitialRecord
  <2>3. CASE ~empty /\ o \notin Stored
    BY <2>3 DEF InitialRecord, GoodRecord
  <2> QED
    BY <2>1, <2>2, <2>3
<1>3. \A d \in Device, o \in Object : mem[d][o] = InitialRecord(d, o, empty)
  BY <1>1 DEF InitAccount
<1>4. RecordsInv
  BY <1>2, <1>3 DEF Init, RecordsInv, GoodTable
<1>5. PushInv
  BY DEF Init, PushInv, PushSlot
<1> QED
  BY <1>4, <1>5

CleanInv == Shape /\ LogInv /\ AloneInv /\ RecordsInv /\ PushInv

(* Saving the settings changes nothing else.                                *)
LEMMA SavedShape ==
  ASSUME Shape, Saves
  PROVE  Shape'
<1>1. saved' \in [Device -> SettingsType]
  BY LocalParts DEF Saves, Shape
<1>2. LocalOK'
  BY <1>1 DEF Saves, Shape, LocalOK
<1>3. RemoteOK' /\ RunOK' /\ EditsOK'
  BY DEF Saves, Shape, RemoteOK, RunOK, EditsOK, Slots
<1>4. TodoInv'
  BY DEF Saves, Shape, TodoInv, TodoSlot, ConflictsOf, EventsOf, ObjectAt
<1> QED
  BY <1>2, <1>3, <1>4 DEF Shape

LEMMA CleanInvariant ==
  ASSUME Manual = {}, Untouched
  PROVE  Spec => []CleanInv
<1>1. Init => CleanInv
  BY ShapeInit, LogInit, AloneInit, RecordsInit DEF CleanInv
<1>2. CleanInv /\ [Next]_vars => CleanInv'
  <2> SUFFICES ASSUME CleanInv, [Next]_vars PROVE CleanInv'
    OBVIOUS
  <2>1. CASE Move
    BY <2>1, ShapeNext, LogNext, AloneNext, RecordsNext, PushNext DEF CleanInv
  <2>2. CASE Saves
    <3>1. Shape'
      BY <2>2, SavedShape DEF CleanInv
    <3>2. LogInv' /\ AloneInv'
      BY <2>2 DEF Saves, CleanInv, LogInv, AloneInv, Alone, ObjectAt, VersionAt
    <3>3. RecordsInv' /\ PushInv'
      BY <2>2 DEF Saves, CleanInv, RecordsInv, PushInv, PushSlot, AcceptedOf
    <3> QED
      BY <3>1, <3>2, <3>3 DEF CleanInv
  <2> QED
    BY <2>1, <2>2, MoveOrSaves
<1> QED
  BY <1>1, <1>2, PTL DEF Spec

(* A record shown as saved to the server is a version the server has, in    *)
(* memory and on disk, whatever fails, stops or is disconnected, as long as *)
(* the runs of a device follow one another and what waits for an answer is  *)
(* not edited meanwhile.                                                    *)
THEOREM CleanRecordsAreStored ==
  ASSUME Manual = {}, Untouched
  PROVE  Spec => []CleanIsServerVersion
<1>1. CleanInv => CleanIsServerVersion
  <2> SUFFICES ASSUME CleanInv, NEW d \in Device, NEW o \in Object,
                      NEW record \in {mem[d][o], disk[d][o]} \ {Absent}, record.state = "clean"
               PROVE  \E id \in EventsOf(o) : /\ VersionAt(id).revision = record.revision
                                              /\ VersionAt(id).content = record.content
    BY DEF CleanIsServerVersion
  <2>1. Matches(log, o, record.revision, record.content)
    BY DEF CleanInv, RecordsInv, GoodTable, GoodRecord
  <2> QED
    BY <2>1 DEF Matches, EventsOf, ObjectAt, VersionAt
<1> QED
  BY <1>1, CleanInvariant, PTL

-----------------------------------------------------------------------------
(* Where dirty records and operations come from.                            *)
EditsGrow == DOMAIN edits \subseteq DOMAIN edits' /\ \A n \in DOMAIN edits : edits'[n] = edits[n]

WasAlready(d, o) == mem'[d][o] = mem[d][o] \/ mem'[d][o] = disk[d][o]

DirtyFrom(d, o) ==
  mem'[d][o] # Absent /\ mem'[d][o].state = "dirty" =>
    \/ WasAlready(d, o)
    \/ mem'[d][o].base = 0
    \/ IsChanged(d, o) /\ UserMove(d)

LEMMA DirtyStep ==
  ASSUME Shape, NEW d \in Device, NEW r \in Run, Step(d, r), NEW o \in Object
  PROVE  DirtyFrom(d, o)
<1>0. LocalOK /\ mem[d] \in Table /\ RunOK
  BY LocalParts DEF Shape
<1>n. \A c : NewRecord(c).base = 0 /\ NewRecord(c).state = "dirty"
  BY DEF NewRecord
<1>c. \A t \in Table, x \in Object : MarkedConflicted(t, x)[o] = t[o] \/ MarkedConflicted(t, x)[o].state = "conflicted"
  <2> SUFFICES ASSUME NEW t \in Table, NEW x \in Object
               PROVE  MarkedConflicted(t, x)[o] = t[o] \/ MarkedConflicted(t, x)[o].state = "conflicted"
    OBVIOUS
  <2>1. x # o => MarkedConflicted(t, x)[o] = t[o]
    BY DEF MarkedConflicted, Table
  <2>2. MarkedConflicted(t, o)[o] = IF t[o] = Absent THEN t[o] ELSE [t[o] EXCEPT !.state = "conflicted"]
    BY DEF MarkedConflicted, Table
  <2>3. t[o] # Absent => t[o] \in Record
    BY DEF Table
  <2> QED
    BY <2>1, <2>2, <2>3 DEF Record
<1>1. CASE \/ Examine(d, r) \/ Repaired(d, r) \/ Restore(d, r) \/ Push(d, r) \/ Pull(d, r)
           \/ Applied(d, r) \/ Finish(d, r) \/ Bound(d, r)
           \/ \E op \in sent[d][r] : Serve(d, r, op)
  <2>1. mem' = mem
    BY <1>1, ExamineMoves, RepairedMoves, RestoreMoves, PushMoves, PullMoves, AppliedMoves,
       FinishMoves, BoundMoves, ServeMoves DEF local, NewSettings
  <2> QED
    BY <2>1 DEF DirtyFrom, WasAlready
<1>2. CASE Act(d, r)
  <2> DEFINE n == Min(todo[d][r])
             x == ObjectAt(n)
  <2>1. /\ mem'[d] = Carried(d, verdict[d][r], n) /\ todo[d][r] # {}
        /\ verdict[d][r] \in {"apply", "conflict", "skip"}
    BY <1>2, ActMoves DEF MemTo
  <2>2. x \in Object
    BY <2>1, NextInLog
  <2> HIDE DEF n
  <2>3. CASE verdict[d][r] = "apply"
    <3>1. mem'[d] = WithRemote(mem[d], x, VersionAt(n))
      BY <2>1, <2>3 DEF Carried
    <3>2. mem'[d][o] = mem[d][o] \/ mem'[d][o] = Absent \/ mem'[d][o] = CleanRecord(VersionAt(n))
      BY <1>0, <3>1 DEF WithRemote, Table
    <3>3. CleanRecord(VersionAt(n)).state = "clean"
      BY DEF CleanRecord
    <3> QED
      BY <3>2, <3>3 DEF DirtyFrom, WasAlready
  <2>4. CASE verdict[d][r] = "conflict"
    <3>1. mem'[d] = MarkedConflicted(mem[d], x)
      BY <2>1, <2>4 DEF Carried
    <3> QED
      BY <1>0, <1>c, <2>2, <3>1 DEF DirtyFrom, WasAlready
  <2>5. CASE verdict[d][r] = "skip"
    BY <2>1, <2>5 DEF Carried, DirtyFrom, WasAlready
  <2> QED
    BY <2>1, <2>3, <2>4, <2>5
<1>3. CASE Reset(d, r)
  <2>1. mem'[d] = ResetForUpload(mem[d])
    BY <1>3, ResetMoves DEF MemTo
  <2>2. mem'[d][o] = Absent \/ mem'[d][o] = NewRecord(mem[d][o].content)
    BY <2>1 DEF ResetForUpload
  <2> QED
    BY <1>n, <2>2 DEF DirtyFrom
<1>4. CASE Receive(d, r)
  <2> DEFINE t == WithAccepted(mem[d], AcceptedOf(d, r))
  <2>1. mem'[d] = Received(d, r)
    BY <1>4, ReceiveMoves DEF MemTo
  <2>2. AcceptedOf(d, r) \in SUBSET AnswerType
    BY <1>0, RunParts DEF AcceptedOf, Answers
  <2>3. t \in Table
    BY <1>0, <2>2, TableTypes
  <2>4. t[o] = mem[d][o] \/ t[o].state = "clean"
    <3>1. CASE mem[d][o] # Absent /\ \E a \in AcceptedOf(d, r) : a.object = o
      <4> DEFINE a == CHOOSE x \in AcceptedOf(d, r) : x.object = o
      <4>1. t[o] = [mem[d][o] EXCEPT !.revision = a.revision, !.base = a.revision, !.state = "clean"]
        BY <3>1 DEF WithAccepted
      <4>2. mem[d][o] \in Record
        BY <1>0, <3>1 DEF Table
      <4> HIDE DEF a, t
      <4> QED
        BY <4>1, <4>2 DEF Record
    <3>2. CASE ~(mem[d][o] # Absent /\ \E a \in AcceptedOf(d, r) : a.object = o)
      BY <3>2 DEF WithAccepted
    <3> QED
      BY <3>1, <3>2
  <2>5. mem'[d][o] = t[o] \/ mem'[d][o] = MarkedConflicted(t, o)[o]
    BY <2>1 DEF Received
  <2> HIDE DEF t
  <2> QED
    BY <1>c, <2>3, <2>4, <2>5 DEF DirtyFrom, WasAlready
<1>5. CASE Reconciled(d, r)
  <2>1. mem'[d] = WithoutDeleted(mem[d], AcceptedOf(d, r))
    BY <1>5, ReconciledMoves DEF MemTo
  <2>2. mem'[d][o] = mem[d][o] \/ mem'[d][o] = Absent
    BY <2>1 DEF WithoutDeleted
  <2> QED
    BY <2>2 DEF DirtyFrom, WasAlready
<1>6. CASE Compared(d, r)
  <2>1. mem'[d] = MissingReset(mem[d], at[d][r])
    BY <1>6, ComparedMoves DEF MemTo
  <2>2. mem'[d][o] = mem[d][o] \/ mem'[d][o] = NewRecord(mem[d][o].content)
    BY <2>1 DEF MissingReset
  <2> QED
    BY <1>n, <2>2 DEF DirtyFrom, WasAlready
<1> QED
  BY <1>1, <1>2, <1>3, <1>4, <1>5, <1>6 DEF Step

(* Which device a step is about, and what it does to the disk.              *)
DiskFrom(d, o) == disk'[d][o] = disk[d][o] \/ disk'[d][o] = mem'[d][o]

LEMMA StepLocal ==
  ASSUME Shape, NEW d \in Device, NEW r \in Run, Step(d, r)
  PROVE  UNCHANGED local \/ LocalMove(d)
<1>1. CASE \/ Examine(d, r) \/ Restore(d, r) \/ Push(d, r) \/ Pull(d, r) \/ Applied(d, r)
           \/ \E op \in sent[d][r] : Serve(d, r, op)
  BY <1>1, ExamineMoves, RestoreMoves, PushMoves, PullMoves, AppliedMoves, ServeMoves DEF local
<1>2. CASE \/ Act(d, r) \/ Repaired(d, r) \/ Reset(d, r) \/ Receive(d, r) \/ Reconciled(d, r)
           \/ Compared(d, r) \/ Finish(d, r) \/ Bound(d, r)
  BY <1>2, ActMoves, RepairedMoves, ResetMoves, ReceiveMoves, ReconciledMoves, ComparedMoves,
     FinishMoves, BoundMoves DEF MemTo, NewSettings
<1> QED
  BY <1>1, <1>2 DEF Step

LEMMA RecordsFrom ==
  ASSUME Shape, Move, NEW e \in Device, NEW o \in Object
  PROVE  DirtyFrom(e, o) /\ DiskFrom(e, o)
<1>0. LocalOK
  BY DEF Shape
<1>l. ASSUME NEW d \in Device, LocalMove(d) PROVE DiskFrom(e, o) /\ (e # d => DirtyFrom(e, o))
  BY <1>0, <1>l, LocalMoveType DEF DiskFrom, DirtyFrom, WasAlready
<1>s. ASSUME mem' = mem, disk' = disk PROVE DiskFrom(e, o) /\ DirtyFrom(e, o)
  BY <1>s DEF DiskFrom, DirtyFrom, WasAlready
<1>m. ASSUME NEW d \in Device, LocalMove(d), mem' = mem PROVE DiskFrom(e, o) /\ DirtyFrom(e, o)
  BY <1>l, <1>m DEF DirtyFrom, WasAlready
<1>1. ASSUME NEW d \in Device, Change(d) PROVE DiskFrom(e, o) /\ DirtyFrom(e, o)
  <2>1. UserMove(d) /\ LocalMove(d)
    BY <1>1, UserMoves DEF UserMove
  <2>2. ASSUME IsNew(d, o) PROVE mem'[d][o].base = 0
    BY <2>2 DEF IsNew, NewRecord
  <2>3. DirtyFrom(d, o)
    BY <2>1, <2>2 DEF UserMove, DirtyFrom, WasAlready
  <2> QED
    BY <1>l, <2>1, <2>3
<1>2. ASSUME NEW d \in Device, Restart(d) PROVE DiskFrom(e, o) /\ DirtyFrom(e, o)
  <2>1. Restarted(d)
    BY <1>2, RestartMoves
  <2>2. Loaded(d)[o] = disk[d][o] \/ Loaded(d)[o] = Absent
    BY DEF Loaded
  <2> QED
    BY <2>1, <2>2 DEF Restarted, DiskFrom, DirtyFrom, WasAlready
<1>3. ASSUME NEW d \in Device, Disconnect(d) PROVE DiskFrom(e, o) /\ DirtyFrom(e, o)
  BY <1>3, <1>m, DisconnectMoves DEF NewSettings
<1>4. ASSUME NEW d \in Device, NEW r \in Run, Refused(d, r) PROVE DiskFrom(e, o) /\ DirtyFrom(e, o)
  BY <1>4, <1>m, RefusedMoves DEF NewSettings
<1>5. ASSUME NEW d \in Device, NEW r \in Run, Start(d, r) \/ Bind(d, r) \/ Fail(d, r)
      PROVE  DiskFrom(e, o) /\ DirtyFrom(e, o)
  BY <1>5, <1>s, StartMoves, BindMoves, FailMoves DEF local
<1>6. ASSUME NEW op \in strays, ServeStray(op) PROVE DiskFrom(e, o) /\ DirtyFrom(e, o)
  BY <1>6, <1>s, ServeStrayMoves DEF local
<1>7. ASSUME NEW d \in Device, NEW r \in Run, Step(d, r) PROVE DiskFrom(e, o) /\ DirtyFrom(e, o)
  BY <1>7, <1>l, <1>s, DirtyStep, StepLocal DEF local
<1> QED
  BY <1>1, <1>2, <1>3, <1>4, <1>5, <1>6, <1>7 DEF Move

LEMMA EditsNext ==
  ASSUME Shape, Move
  PROVE  EditsGrow
<1>1. ASSUME NEW d \in Device, Change(d) PROVE EditsGrow
  BY <1>1, UserMoves DEF UserMove, EditsGrow
<1>2. ASSUME NEW d \in Device, Restart(d) \/ Disconnect(d) PROVE edits' = edits
  BY <1>2 DEF Restart, Disconnect
<1>3. ASSUME NEW d \in Device, NEW r \in Run, Start(d, r) \/ Bind(d, r) \/ Fail(d, r) \/ Refused(d, r)
      PROVE  edits' = edits
  BY <1>3 DEF Start, Bind, Fail, Refused
<1>4. ASSUME NEW d \in Device, NEW r \in Run, Step(d, r) PROVE edits' = edits
  BY <1>4 DEF Step, Examine, Act, Repaired, Reset, Restore, Push, Receive, Reconciled, Pull, Applied,
              Finish, Compared, Bound, Serve
<1>5. ASSUME NEW op \in strays, ServeStray(op) PROVE edits' = edits
  BY <1>5 DEF ServeStray
<1> QED
  BY <1>1, <1>2, <1>3, <1>4, <1>5 DEF Move, EditsGrow

OfRecord(d, op) ==
  /\ op.object \in Object /\ mem[d][op.object] # Absent /\ mem[d][op.object].state = "dirty"
  /\ op.base = mem[d][op.object].base /\ op.content = mem[d][op.object].content

OpsFrom ==
  /\ \A op \in strays' : op \in strays \/ \E d \in Device, r \in Run : op \in sent[d][r]
  /\ \A d \in Device, r \in Run : \A op \in sent'[d][r] : op \in sent[d][r] \/ OfRecord(d, op)

LEMMA OpsStep ==
  ASSUME Shape, NEW d \in Device, NEW r \in Run, Step(d, r)
  PROVE  OpsFrom
<1>s. \A e \in Device, s \in Run : e # d \/ s # r => sent'[e][s] = sent[e][s]
  <2>1. CASE Examine(d, r) \/ Act(d, r) \/ Repaired(d, r) \/ Restore(d, r) \/ Push(d, r)
    BY <2>1, ExamineMoves, ActMoves, RepairedMoves, RestoreMoves, PushMoves DEF RunMove, Elsewhere
  <2>2. CASE Receive(d, r) \/ Reconciled(d, r) \/ Pull(d, r) \/ Applied(d, r) \/ Compared(d, r)
    BY <2>2, ReceiveMoves, ReconciledMoves, PullMoves, AppliedMoves, ComparedMoves DEF RunMove, Elsewhere
  <2>3. CASE Finish(d, r) \/ Bound(d, r)
    <3>1. Over(d, r)
      BY <2>3, FinishMoves, BoundMoves
    <3> QED
      BY <3>1 DEF Over, RunMove, Elsewhere
  <2>4. CASE Reset(d, r)
    BY <2>4, ResetMoves DEF run
  <2>5. ASSUME NEW op \in sent[d][r], Serve(d, r, op)
        PROVE  \A e \in Device, s \in Run : e # d \/ s # r => sent'[e][s] = sent[e][s]
    BY <2>5, ServeMoves DEF RunMove, Elsewhere
  <2> QED
    BY <2>1, <2>2, <2>3, <2>4, <2>5 DEF Step
<1>r. strays' = strays
  <2>1. CASE Examine(d, r) \/ Act(d, r) \/ Repaired(d, r) \/ Restore(d, r) \/ Push(d, r)
    BY <2>1 DEF Examine, Act, Repaired, Restore, Push, remote
  <2>2. CASE Receive(d, r) \/ Reconciled(d, r) \/ Pull(d, r) \/ Applied(d, r) \/ Compared(d, r)
    BY <2>2 DEF Receive, Reconciled, Pull, Applied, Compared, remote
  <2>3. CASE Finish(d, r) \/ Bound(d, r) \/ Reset(d, r) \/ \E op \in sent[d][r] : Serve(d, r, op)
    BY <2>3 DEF Finish, Bound, Reset, Serve, remote
  <2> QED
    BY <2>1, <2>2, <2>3 DEF Step
<1>1. ASSUME NEW op \in sent'[d][r] PROVE op \in sent[d][r] \/ OfRecord(d, op)
  <2>1. CASE Examine(d, r) \/ Act(d, r) \/ Repaired(d, r) \/ Restore(d, r)
    BY <1>1, <2>1, ExamineMoves, ActMoves, RepairedMoves, RestoreMoves DEF RunMove
  <2>2. CASE Receive(d, r) \/ Reconciled(d, r) \/ Pull(d, r) \/ Applied(d, r) \/ Compared(d, r)
    BY <1>1, <2>2, ReceiveMoves, ReconciledMoves, PullMoves, AppliedMoves, ComparedMoves DEF RunMove
  <2>3. CASE Finish(d, r) \/ Bound(d, r)
    BY <1>1, <2>3, FinishMoves, BoundMoves DEF Over, RunMove
  <2>6. ASSUME NEW x \in sent[d][r], Serve(d, r, x) PROVE op \in sent[d][r]
    <3>1. sent'[d][r] = sent[d][r] \ {x}
      BY <2>6, ServeMoves DEF RunMove
    <3> QED
      BY <1>1, <3>1
  <2>4. CASE Reset(d, r)
    BY <1>1, <2>4, ResetMoves DEF run
  <2>5. CASE Push(d, r)
    <3>1. op \in PushOf(d)
      BY <1>1, <2>5, PushMoves DEF RunMove
    <3> QED
      BY <3>1 DEF PushOf, OfRecord, InState, Has
  <2> QED
    BY <2>1, <2>2, <2>3, <2>4, <2>5, <2>6 DEF Step
<1>2. ASSUME NEW e \in Device, NEW s \in Run, NEW op \in sent'[e][s] PROVE op \in sent[e][s] \/ OfRecord(e, op)
  BY <1>s, <1>1, <1>2
<1> QED
  BY <1>r, <1>2 DEF OpsFrom

LEMMA OpsNext ==
  ASSUME Shape, Move
  PROVE  OpsFrom
<1>1. ASSUME NEW d \in Device, Change(d) PROVE OpsFrom
  BY <1>1, UserMoves DEF UserMove, OpsFrom, remote, run
<1>2. ASSUME NEW d \in Device, Restart(d) PROVE OpsFrom
  <2>1. Restarted(d)
    BY <1>2, RestartMoves
  <2>2. \A op \in strays' : op \in strays \/ \E r \in Run : op \in sent[d][r]
    BY <2>1 DEF Restarted
  <2>3. \A e \in Device, s \in Run : sent'[e][s] = {} \/ sent'[e][s] = sent[e][s]
    BY <2>1 DEF Restarted
  <2> QED
    BY <2>2, <2>3 DEF OpsFrom
<1>3. ASSUME NEW d \in Device, Disconnect(d) PROVE OpsFrom
  BY <1>3 DEF Disconnect, OpsFrom, remote, run
<1>4. ASSUME NEW d \in Device, NEW r \in Run, Start(d, r) \/ Bind(d, r) PROVE OpsFrom
  BY <1>4 DEF Start, Bind, OpsFrom, remote
<1>5. ASSUME NEW d \in Device, NEW r \in Run, Fail(d, r) PROVE OpsFrom
  <2>1. /\ strays' \subseteq strays \cup sent[d][r] /\ sent'[d][r] = {} /\ Elsewhere(d, r)
    BY <1>5, FailMoves DEF Over, RunMove
  <2>2. \A e \in Device, s \in Run : sent'[e][s] = {} \/ sent'[e][s] = sent[e][s]
    BY <2>1 DEF Elsewhere
  <2> QED
    BY <2>1, <2>2 DEF OpsFrom
<1>6. ASSUME NEW d \in Device, NEW r \in Run, Refused(d, r) PROVE OpsFrom
  <2>1. sent'[d][r] = {} /\ Elsewhere(d, r) /\ strays' = strays
    BY <1>6, RefusedMoves DEF Over, RunMove, Still, remote
  <2>2. \A e \in Device, s \in Run : sent'[e][s] = {} \/ sent'[e][s] = sent[e][s]
    BY <2>1 DEF Elsewhere
  <2> QED
    BY <2>1, <2>2 DEF OpsFrom
<1>7. ASSUME NEW op \in strays, ServeStray(op) PROVE OpsFrom
  BY <1>7, ServeStrayMoves DEF OpsFrom, run
<1> QED
  BY <1>1, <1>2, <1>3, <1>4, <1>5, <1>6, <1>7, OpsStep DEF Move

-----------------------------------------------------------------------------
(* A change is on top of a revision of the server when its base is not ahead*)
(* of the server, and it was made by somebody who saw what is there.        *)
OnTop(srv, l, ed, o, base, content) ==
  /\ base \in Nat /\ base <= srv[o].revision
  /\ \A i \in DOMAIN l :
       l[i].object = o /\ l[i].version.revision = base =>
         content.edit \in DOMAIN ed /\ l[i].version.content.edit \in ed[content.edit].under

SeenTable(srv, l, ed, t) ==
  \A o \in Object : t[o] # Absent /\ t[o].state = "dirty" => OnTop(srv, l, ed, o, t[o].base, t[o].content)

SeenOps(srv, l, ed, ops) == \A op \in ops : OnTop(srv, l, ed, op.object, op.base, op.content)

SeenInv ==
  /\ \A d \in Device : SeenTable(server, log, edits, mem[d]) /\ SeenTable(server, log, edits, disk[d])
  /\ \A d \in Device, r \in Run : SeenOps(server, log, edits, sent[d][r])
  /\ SeenOps(server, log, edits, strays)

(* The versions of the server make a chain.                                 *)
Chain(l, ed) ==
  \A i, j \in DOMAIN l :
    l[i].object = l[j].object /\ l[j].version.revision = l[i].version.revision + 1 =>
      /\ l[j].version.content.edit \in DOMAIN ed
      /\ l[i].version.content.edit \in ed[l[j].version.content.edit].under

LEMMA WriteParts ==
  ASSUME Shape, NEW op \in Operation, Write(op)
  PROVE  /\ op.object \in Object /\ server[op.object].revision \in Nat
         /\ server'[op.object] = [revision |-> server[op.object].revision + 1, content |-> op.content]
         /\ \A o \in Object \ {op.object} : server'[o] = server[o]
         /\ DOMAIN log' = DOMAIN log \cup {Len(log) + 1}
         /\ \A i \in DOMAIN log : log'[i] = log[i]
         /\ log'[Len(log) + 1] = [object |-> op.object, version |-> server'[op.object]]
<1>1. RemoteOK /\ op.object \in Object
  BY DEF Shape, Operation
<1>2. server[op.object].revision \in Nat
  BY <1>1 DEF RemoteOK, VersionType
<1> QED
  BY <1>1, <1>2, WriteEffect, Zenon

(* Nothing the server or a user does takes that away.                       *)
LEMMA OnTopStays ==
  ASSUME Shape, LogInv, Move, NEW o \in Object, NEW base, NEW content,
         OnTop(server, log, edits, o, base, content)
  PROVE  OnTop(server', log', edits', o, base, content)
<1>0. EditsGrow /\ base \in Nat /\ server[o].revision \in Nat
  BY EditsNext DEF OnTop, Shape, RemoteOK, VersionType
<1>1. CASE UNCHANGED <<server, log>>
  BY <1>0, <1>1 DEF OnTop, EditsGrow
<1>2. ASSUME NEW op \in Operation, Write(op) PROVE OnTop(server', log', edits', o, base, content)
  <2>1. /\ op.object \in Object /\ server[op.object].revision \in Nat
        /\ server'[op.object].revision = server[op.object].revision + 1
        /\ \A x \in Object \ {op.object} : server'[x] = server[x]
        /\ DOMAIN log' = DOMAIN log \cup {Len(log) + 1}
        /\ \A i \in DOMAIN log : log'[i] = log[i]
        /\ log'[Len(log) + 1].object = op.object
        /\ log'[Len(log) + 1].version.revision = server[op.object].revision + 1
    <3>1. /\ op.object \in Object /\ server[op.object].revision \in Nat
          /\ server'[op.object] = [revision |-> server[op.object].revision + 1, content |-> op.content]
          /\ \A x \in Object \ {op.object} : server'[x] = server[x]
          /\ DOMAIN log' = DOMAIN log \cup {Len(log) + 1}
          /\ \A i \in DOMAIN log : log'[i] = log[i]
          /\ log'[Len(log) + 1] = [object |-> op.object, version |-> server'[op.object]]
      BY <1>2, WriteParts, Zenon
    <3> QED
      BY <3>1
  <2>2. base <= server'[o].revision
    BY <1>0, <2>1 DEF OnTop
  <2>3. ASSUME NEW i \in DOMAIN log', log'[i].object = o, log'[i].version.revision = base
        PROVE  i \in DOMAIN log
    <3>1. CASE i = Len(log) + 1
      <4>1. base = server[o].revision + 1
        BY <2>1, <2>3, <3>1
      <4> QED
        BY <1>0, <4>1 DEF OnTop
    <3> QED
      BY <2>1, <3>1
  <2> QED
    BY <1>0, <2>1, <2>2, <2>3 DEF OnTop, EditsGrow
<1> QED
  BY <1>1, <1>2, RemoteNext

(* A new object has nothing to be on top of.                                *)
LEMMA OnTopOfNothing ==
  ASSUME Shape, LogInv, NEW o \in Object, NEW ed, NEW content
  PROVE  OnTop(server, log, ed, o, 0, content)
<1>1. server[o].revision \in Nat
  BY DEF Shape, RemoteOK, VersionType
<1>2. \A i \in DOMAIN log : log[i].version.revision # 0
  BY DEF LogInv, VersionAt
<1> QED
  BY <1>1, <1>2 DEF OnTop

(* A change of a clean record is on top of what the device has seen.        *)
LEMMA OnTopOfClean ==
  ASSUME Shape, LogInv, RecordsInv, EditStates \subseteq {"clean"}, NEW d \in Device, UserMove(d),
         NEW o \in Object, IsChanged(d, o)
  PROVE  OnTop(server, log, edits', o, mem'[d][o].base, mem'[d][o].content)
<1> DEFINE rec == mem[d][o]
           n == Len(edits) + 1
<1>1. rec \in Record /\ EditsOK /\ rec.state = "clean"
  BY LocalParts DEF IsChanged, Shape
<1>2. mem'[d][o].base = rec.revision /\ mem'[d][o].content.edit = n
  <2>1. mem'[d][o] = Changed(rec, FALSE) \/ mem'[d][o] = Changed(rec, TRUE)
    BY DEF IsChanged
  <2>2. ASSUME NEW x, x = Changed(rec, FALSE) \/ x = Changed(rec, TRUE)
        PROVE  x.base = rec.revision /\ x.content.edit = Len(edits) + 1
    <3>1. EditsOK /\ rec \in Record
      BY <1>1
    <3> HIDE DEF rec
    <3> QED
      BY <2>2, <3>1, ChangedBoth, Zenon
  <2> QED
    BY <2>1, <2>2, Zenon
<1>3. rec.revision \in Nat
  BY <1>1, FieldTypes
<1>4. PICK id \in DOMAIN log : /\ log[id].object = o /\ log[id].version.revision = rec.revision
                               /\ log[id].version.content = rec.content
  <2>1. GoodRecord(log, o, rec) /\ rec # Absent
    BY <1>1, FieldTypes DEF RecordsInv, GoodTable
  <2> HIDE DEF rec
  <2>2. Matches(log, o, rec.revision, rec.content)
    BY <1>1, <2>1 DEF GoodRecord
  <2> QED
    BY <2>2 DEF Matches
<1>5. rec.revision <= server[o].revision
  BY <1>4 DEF LogInv, ObjectAt, VersionAt
<1>6. ASSUME NEW i \in DOMAIN log, log[i].object = o, log[i].version.revision = rec.revision
      PROVE  i = id
  <2>1. i \in Nat /\ id \in Nat
    BY LogTypes
  <2>2. ~(i < id) /\ ~(id < i)
    BY <1>3, <1>4, <1>6 DEF LogInv, ObjectAt, VersionAt
  <2> QED
    BY <2>1, <2>2
<1>7. rec.content.edit \in edits'[n].under /\ n \in DOMAIN edits'
  <2>1. rec.content.edit \in Under(rec)
    BY DEF Under
  <2> QED
    BY <2>1 DEF IsChanged, UserMove
<1> HIDE DEF rec, n
<1> QED
  BY <1>2, <1>3, <1>4, <1>5, <1>6, <1>7 DEF OnTop

(* The records of a device.                                                 *)
LEMMA SeenNewRecord ==
  ASSUME Shape, Shape', LogInv, LogInv', RecordsInv, EditStates \subseteq {"clean"}, Move,
         NEW e \in Device, NEW o \in Object,
         SeenTable(server, log, edits, mem[e]), SeenTable(server, log, edits, disk[e]),
         mem'[e][o] # Absent, mem'[e][o].state = "dirty"
  PROVE  OnTop(server', log', edits', o, mem'[e][o].base, mem'[e][o].content)
<1>1. DirtyFrom(e, o)
  BY RecordsFrom
<1>2. CASE WasAlready(e, o)
  <2>1. PICK x \in {mem[e][o], disk[e][o]} : mem'[e][o] = x
    BY <1>2 DEF WasAlready
  <2>2. OnTop(server, log, edits, o, x.base, x.content)
    BY <2>1 DEF SeenTable
  <2>3. OnTop(server', log', edits', o, x.base, x.content)
    BY <2>2, OnTopStays
  <2> QED
    BY <2>1, <2>3
<1>3. CASE mem'[e][o].base = 0
  <2>1. OnTop(server, log, edits, o, 0, mem'[e][o].content)
    BY OnTopOfNothing
  <2>2. OnTop(server', log', edits', o, 0, mem'[e][o].content)
    BY <2>1, OnTopStays
  <2> QED
    BY <1>3, <2>2
<1>4. CASE UserMove(e) /\ IsChanged(e, o)
  <2>1. OnTop(server, log, edits', o, mem'[e][o].base, mem'[e][o].content)
    BY <1>4, OnTopOfClean
  <2>2. server' = server /\ log' = log
    BY <1>4 DEF UserMove, remote
  <2> QED
    BY <2>1, <2>2
<1> QED
  BY <1>1, <1>2, <1>3, <1>4 DEF DirtyFrom


LEMMA SeenNext ==
  ASSUME Shape, Shape', LogInv, LogInv', RecordsInv, EditStates \subseteq {"clean"}, Move, SeenInv
  PROVE  SeenInv'
<1>1. ASSUME NEW e \in Device, NEW o \in Object, mem'[e][o] # Absent, mem'[e][o].state = "dirty"
      PROVE  OnTop(server', log', edits', o, mem'[e][o].base, mem'[e][o].content)
  BY <1>1, SeenNewRecord DEF SeenInv
<1>2. ASSUME NEW e \in Device, NEW o \in Object, disk'[e][o] # Absent, disk'[e][o].state = "dirty"
      PROVE  OnTop(server', log', edits', o, disk'[e][o].base, disk'[e][o].content)
  <2>1. CASE disk'[e][o] = mem'[e][o]
    BY <1>1, <1>2, <2>1
  <2>2. CASE disk'[e][o] = disk[e][o]
    <3>1. OnTop(server, log, edits, o, disk[e][o].base, disk[e][o].content)
      BY <1>2, <2>2 DEF SeenInv, SeenTable
    <3>2. OnTop(server', log', edits', o, disk[e][o].base, disk[e][o].content)
      BY <3>1, OnTopStays
    <3> QED
      BY <2>2, <3>2
  <2> QED
    BY <2>1, <2>2, RecordsFrom DEF DiskFrom
<1>3. ASSUME NEW op \in Operation, op \in strays \/ \E d \in Device, r \in Run : op \in sent[d][r]
      PROVE  OnTop(server', log', edits', op.object, op.base, op.content)
  <2>1. OnTop(server, log, edits, op.object, op.base, op.content) /\ op.object \in Object
    BY <1>3 DEF SeenInv, SeenOps, Operation
  <2> QED
    BY <2>1, OnTopStays
<1>t. strays \subseteq Operation /\ \A d \in Device, r \in Run : sent[d][r] \subseteq Operation
  BY RunParts DEF Shape, RemoteOK, Operations
<1>4. ASSUME NEW op \in strays' PROVE OnTop(server', log', edits', op.object, op.base, op.content)
  <2>1. op \in strays \/ \E d \in Device, r \in Run : op \in sent[d][r]
    BY <1>4, OpsNext DEF OpsFrom
  <2> QED
    BY <1>3, <1>t, <2>1
<1>5. ASSUME NEW e \in Device, NEW s \in Run, NEW op \in sent'[e][s]
      PROVE  OnTop(server', log', edits', op.object, op.base, op.content)
  <2>1. CASE op \in sent[e][s]
    BY <1>3, <1>t, <2>1
  <2>2. CASE OfRecord(e, op)
    <3>1. op.object \in Object /\ OnTop(server, log, edits, op.object, op.base, op.content)
      BY <2>2 DEF OfRecord, SeenInv, SeenTable
    <3> QED
      BY <3>1, OnTopStays
  <2> QED
    BY <1>5, <2>1, <2>2, OpsNext DEF OpsFrom
<1> QED
  BY <1>1, <1>2, <1>4, <1>5, Zenon DEF SeenInv, SeenTable, SeenOps

LEMMA ChainNext ==
  ASSUME Shape, LogInv, SeenInv, Move, Chain(log, edits)
  PROVE  Chain(log', edits')
<1>0. EditsGrow
  BY EditsNext
<1>1. CASE UNCHANGED <<server, log>>
  BY <1>0, <1>1 DEF Chain, EditsGrow
<1>2. ASSUME NEW op \in Operation, BaseIsCurrent(op), Write(op),
             op \in strays \/ \E d \in Device, r \in Run : op \in sent[d][r]
      PROVE  Chain(log', edits')
  <2>n. PICK n : n = Len(log) + 1
    OBVIOUS
  <2>1. /\ op.object \in Object /\ server[op.object].revision \in Nat
        /\ DOMAIN log' = DOMAIN log \cup {n}
        /\ \A i \in DOMAIN log : log'[i] = log[i]
        /\ log'[n].object = op.object
        /\ log'[n].version.revision = server[op.object].revision + 1
        /\ log'[n].version.content = op.content
    <3>1. /\ op.object \in Object /\ server[op.object].revision \in Nat
          /\ server'[op.object] = [revision |-> server[op.object].revision + 1, content |-> op.content]
          /\ DOMAIN log' = DOMAIN log \cup {Len(log) + 1}
          /\ \A i \in DOMAIN log : log'[i] = log[i]
          /\ log'[Len(log) + 1] = [object |-> op.object, version |-> server'[op.object]]
      BY <1>2, WriteParts, Zenon
    <3> QED
      BY <2>n, <3>1
  <2>2. OnTop(server, log, edits, op.object, server[op.object].revision, op.content)
    BY <1>2 DEF SeenInv, SeenOps, BaseIsCurrent
  <2>3. \A i \in DOMAIN log :
          /\ log[i].version.revision \in Nat
          /\ log[i].object = op.object => log[i].version.revision <= server[op.object].revision
    BY <2>1, LogTypes DEF LogInv, ObjectAt, VersionAt
  <2>4. ASSUME NEW i \in DOMAIN log', NEW j \in DOMAIN log', log'[i].object = log'[j].object,
               log'[j].version.revision = log'[i].version.revision + 1
        PROVE  /\ log'[j].version.content.edit \in DOMAIN edits
               /\ log'[i].version.content.edit \in edits[log'[j].version.content.edit].under
    <3>1. CASE i \in DOMAIN log /\ j \in DOMAIN log
      BY <2>1, <2>4, <3>1 DEF Chain
    <3>2. CASE i \in DOMAIN log /\ j = n
      <4>1. log[i].object = op.object /\ log[i].version.revision = server[op.object].revision
        BY <2>1, <2>3, <2>4, <3>2
      <4> QED
        BY <2>1, <2>2, <3>2, <4>1 DEF OnTop
    <3>3. CASE i = n /\ j \in DOMAIN log
      BY <2>1, <2>3, <2>4, <3>3
    <3>4. CASE i = n /\ j = n
      BY <2>1, <2>4, <3>4
    <3> QED
      BY <2>1, <2>4, <3>1, <3>2, <3>3, <3>4
  <2> QED
    BY <1>0, <2>4 DEF Chain, EditsGrow
<1> QED
  BY <1>1, <1>2, RemoteNext

LEMMA SeenInit == Init => SeenInv /\ Chain(log, edits)
<1> SUFFICES ASSUME Init PROVE SeenInv /\ Chain(log, edits)
  OBVIOUS
<1>0. Shape /\ LogInv
  BY ShapeInit, LogInit
<1>1. \A d \in Device, o \in Object :
        mem[d][o] # Absent /\ mem[d][o].state = "dirty" => mem[d][o].base = 0
  <2>1. PICK empty \in FirstSync : InitAccount(empty)
    BY DEF Init
  <2>2. ASSUME NEW d \in Device, NEW o \in Object PROVE mem[d][o] = InitialRecord(d, o, empty)
    BY <2>1 DEF InitAccount
  <2> QED
    BY <2>2 DEF InitialRecord, NewRecord, CleanRecord
<1>2. disk = mem /\ strays = {} /\ \A d \in Device, r \in Run : sent[d][r] = {}
  BY DEF Init
<1>3. \A i \in DOMAIN log : log[i].version.revision = 1
  BY DEF Init, InitAccount, InitialLog
<1>4. ASSUME NEW d \in Device PROVE SeenTable(server, log, edits, mem[d])
  <2>1. ASSUME NEW o \in Object, mem[d][o] # Absent, mem[d][o].state = "dirty"
        PROVE  OnTop(server, log, edits, o, mem[d][o].base, mem[d][o].content)
    BY <1>0, <1>1, <2>1, OnTopOfNothing
  <2> QED
    BY <2>1 DEF SeenTable
<1>5. SeenInv
  BY <1>2, <1>4 DEF SeenInv, SeenOps
<1>6. Chain(log, edits)
  BY <1>3 DEF Chain
<1> QED
  BY <1>5, <1>6

(* The server's version is only ever replaced by a change its author made   *)
(* with that version under it.  A user changes objects the server is known  *)
(* to have (EditStates) and the button is not pressed: a second change of   *)
(* one that is not uploaded yet has a base the server may not have reached  *)
(* or has reached with another change, which is what the code does.         *)
THEOREM ReplacedVersionsWereSeen ==
  ASSUME Manual = {}, EditStates \subseteq {"clean"}
  PROVE  Spec => []ReplacedVersionWasSeen

<1>u. Untouched
  BY DEF Untouched
<1>1. Init => SeenInv /\ Chain(log, edits)
  BY SeenInit
<1>2. CleanInv /\ CleanInv' /\ SeenInv /\ Chain(log, edits) /\ [Next]_vars
        => (SeenInv /\ Chain(log, edits))'
  <2> SUFFICES ASSUME CleanInv, CleanInv', SeenInv, Chain(log, edits), [Next]_vars
               PROVE  SeenInv' /\ Chain(log', edits')
    BY DEF Chain
  <2>1. CASE Move
    BY <2>1, SeenNext, ChainNext DEF CleanInv
  <2>2. CASE Saves
    BY <2>2 DEF Saves, SeenInv, SeenTable, SeenOps, OnTop
  <2> QED
    BY <2>1, <2>2, MoveOrSaves
<1>3. Chain(log, edits) => ReplacedVersionWasSeen
  BY DEF Chain, ReplacedVersionWasSeen, EventsOf, ObjectAt, VersionAt
<1>4. Spec => []CleanInv
  BY <1>u, CleanInvariant
<1> QED
  BY <1>1, <1>2, <1>3, <1>4, PTL DEF Spec

-----------------------------------------------------------------------------
(* A device in which nothing is ever deleted.                               *)
LiveTable(t) == \A o \in Object : t[o] # Absent => ~t[o].content.deleted

LiveOps(ops) == \A op \in ops : ~op.content.deleted

LiveInv ==
  /\ \A id \in DOMAIN log : ~log[id].version.content.deleted
  /\ \A d \in Device : LiveTable(mem[d]) /\ LiveTable(disk[d])
  /\ LiveOps(strays) /\ \A d \in Device, r \in Run : LiveOps(sent[d][r])

(* A record takes account of an event, and a store of all events up to a    *)
(* cursor: what it does not have is still to come.                          *)
SeenRecord(l, record, id) ==
  /\ record # Absent
  /\ record.state = "clean" => l[id].version.revision <= record.revision
  /\ record.state = "dirty" => l[id].version.revision <= record.base

SeenAt(l, t, id, cursor) ==
  LET o == l[id].object
  IN  IF t[o] = Absent THEN \E x \in DOMAIN l : l[x].object = o /\ cursor < x
      ELSE SeenRecord(l, t[o], id)

CoveredTo(l, t, cursor) == cursor <= Len(l) /\ \A id \in 1 .. cursor : SeenAt(l, t, id, cursor)

(* What a restart would find if everything was saved now.                   *)
Kept(d) == Persisted(d, mem[d])

(* The cursor in memory or the one on disk may be the last to be saved.     *)
KeptOf(d) ==
  /\ CoveredTo(log, Kept(d), settings[d].cursor) /\ CoveredTo(log, Kept(d), saved[d].cursor)
  /\ CoveredTo(log, disk[d], settings[d].cursor) /\ CoveredTo(log, disk[d], saved[d].cursor)

KeptInv == \A d \in Device : KeptOf(d)

(* A run whose cursor moves: what is not seen up to it is still to be       *)
(* looked at, the events of an object in their order.                       *)
Walking == {"asking", "pulling", "restoring", "acking", "binding", "wrapping"}

Later(l, todos, y) == \E x \in todos : l[x].object = l[y].object /\ y <= x

WalkOK(l, t, todos, c) ==
  /\ c <= Len(l)
  /\ \A y \in 1 .. c : SeenAt(l, t, y, c) \/ Later(l, todos, y)
  /\ \A id \in todos, y \in DOMAIN l :
       l[y].object = l[id].object /\ id < y /\ y <= c => y \in todos

(* What is looked at is not older than what the cursor is past.             *)
Newest(l, todos, c) ==
  \A id \in todos, x \in DOMAIN l : l[x].object = l[id].object /\ x <= c => x <= id

NewestAnswers(l, conflicts, c) ==
  \A a \in conflicts, x \in DOMAIN l : a.id # 0 /\ l[x].object = a.object /\ x <= c => x <= a.id

(* A decision to leave a record alone or to mark it is about a record.      *)
DecidedOK(l, t, v, n) ==
  LET record == t[l[n].object]
  IN  /\ v \in {"skip", "conflict"} => record # Absent
      /\ v = "skip" => SeenRecord(l, record, n)

RunSlot(d, r) ==
  /\ Newest(log, todo[d][r], settings[d].cursor)
  /\ pc[d][r] \in Walking =>
       settings[d].cursor <= at[d][r] /\ WalkOK(log, Kept(d), todo[d][r], at[d][r])
  /\ pc[d][r] = "pushing" => NewestAnswers(log, ConflictsOf(d, r), settings[d].cursor)
  /\ pc[d][r] \in {"pulling", "restoring", "binding"} =>
       DecidedOK(log, mem[d], verdict[d][r], Min(todo[d][r]))

RunInv == \A d \in Device, r \in Run : RunSlot(d, r)

-----------------------------------------------------------------------------
(* A record that replaces another and has seen what that one has.           *)
Keeps(l, o, a, b) ==
  \/ a = b
  \/ /\ a = Absent /\ \A x \in DOMAIN l : l[x].object # o
  \/ /\ a # Absent /\ b # Absent
     /\ \A x \in DOMAIN l : l[x].object = o /\ SeenRecord(l, a, x) => SeenRecord(l, b, x)

Upheld(l, t, u) == \A o \in Object : Keeps(l, o, t[o], u[o])

LEMMA LogParts ==
  ASSUME Shape
  PROVE  /\ Len(log) \in Nat /\ DOMAIN log = 1 .. Len(log)
         /\ \A id \in DOMAIN log : log[id].object \in Object /\ log[id].version.revision \in Nat
         /\ \A d \in Device : settings[d].cursor \in Nat /\ saved[d].cursor \in Nat
<1>1. \A d \in Device : settings[d].cursor \in Nat /\ saved[d].cursor \in Nat
  BY DEF Shape, LocalOK, SettingsType
<1> QED
  BY <1>1, LogTypes DEF ObjectAt, VersionAt

LEMMA SeenUpheld ==
  ASSUME Shape, NEW t, NEW u, Upheld(log, t, u), NEW id \in DOMAIN log, NEW c, SeenAt(log, t, id, c),
         c \in Nat, id <= c
  PROVE  SeenAt(log, u, id, c)
<1>1. log[id].object \in Object
  BY LogParts
<1>2. Keeps(log, log[id].object, t[log[id].object], u[log[id].object])
  BY <1>1 DEF Upheld
<1> QED
  BY <1>2 DEF SeenAt, Keeps

LEMMA CoveredUpheld ==
  ASSUME Shape, NEW t, NEW u, Upheld(log, t, u), NEW c \in Nat, CoveredTo(log, t, c)
  PROVE  CoveredTo(log, u, c)
<1>1. \A id \in 1 .. c : id \in DOMAIN log /\ id <= c
  BY LogParts DEF CoveredTo
<1> QED
  BY <1>1, SeenUpheld DEF CoveredTo

LEMMA WalkUpheld ==
  ASSUME Shape, NEW t, NEW u, Upheld(log, t, u), NEW c \in Nat, NEW todos, WalkOK(log, t, todos, c)
  PROVE  WalkOK(log, u, todos, c)
<1>1. \A y \in 1 .. c : y \in DOMAIN log /\ y <= c
  BY LogParts DEF WalkOK
<1> QED
  BY <1>1, SeenUpheld DEF WalkOK

(* More events change nothing about the old ones.                           *)
LEMMA NewIsLater ==
  ASSUME Shape, Shape', Grown
  PROVE  /\ Len(log) <= Len(log') /\ DOMAIN log \subseteq DOMAIN log'
         /\ \A x \in DOMAIN log' : x \in DOMAIN log \/ Len(log) < x
<1>1. /\ Len(log) \in Nat /\ DOMAIN log = 1 .. Len(log)
      /\ Len(log') \in Nat /\ DOMAIN log' = 1 .. Len(log')
  BY LogParts DEF Shape, RemoteOK
<1>2. 1 .. Len(log) \subseteq 1 .. Len(log')
  BY <1>1 DEF Grown
<1>3. Len(log) <= Len(log')
  <2>1. CASE Len(log) = 0
    BY <1>1, <2>1
  <2>2. CASE Len(log) # 0
    <3>1. Len(log) \in 1 .. Len(log)
      BY <1>1, <2>2
    <3> QED
      BY <1>1, <1>2, <3>1
  <2> QED
    BY <2>1, <2>2
<1> QED
  BY <1>1, <1>2, <1>3

LEMMA SeenGrows ==
  ASSUME Grown, NEW t, NEW id \in DOMAIN log, NEW c, SeenAt(log, t, id, c)
  PROVE  SeenAt(log', t, id, c)
BY DEF Grown, SeenAt, SeenRecord

LEMMA CoveredGrows ==
  ASSUME Shape, Shape', Grown, NEW t, NEW c \in Nat, CoveredTo(log, t, c)
  PROVE  CoveredTo(log', t, c)
<1>1. Len(log) <= Len(log') /\ Len(log) \in Nat /\ Len(log') \in Nat /\ \A id \in 1 .. c : id \in DOMAIN log
  <2>1. Len(log') \in Nat
    BY DEF Shape, RemoteOK
  <2> QED
    BY <2>1, LogParts, NewIsLater DEF CoveredTo
<1> QED
  BY <1>1, SeenGrows DEF CoveredTo

LEMMA WalkGrows ==
  ASSUME Shape, Shape', Grown, NEW t, NEW todos, todos \subseteq DOMAIN log, NEW c \in Nat,
         WalkOK(log, t, todos, c)
  PROVE  WalkOK(log', t, todos, c)
<1>1. /\ Len(log) <= Len(log') /\ Len(log) \in Nat /\ Len(log') \in Nat /\ c <= Len(log)
      /\ \A id \in 1 .. c : id \in DOMAIN log
  <2>1. Len(log') \in Nat
    BY DEF Shape, RemoteOK
  <2> QED
    BY <2>1, LogParts, NewIsLater DEF WalkOK
<1>2. \A y \in 1 .. c : SeenAt(log', t, y, c) \/ Later(log', todos, y)
  BY <1>1, SeenGrows DEF WalkOK, Later, Grown
<1>3. ASSUME NEW id \in todos, NEW y \in DOMAIN log', log'[y].object = log'[id].object, id < y, y <= c
      PROVE  y \in todos
  <2>1. y \in DOMAIN log
    <3>1. y \in Nat
      BY LogParts DEF Shape, RemoteOK
    <3> QED
      BY <1>1, <1>3, <3>1, NewIsLater
  <2> QED
    BY <1>3, <2>1 DEF WalkOK, Grown
<1> QED
  BY <1>1, <1>2, <1>3 DEF WalkOK

LEMMA NewestGrows ==
  ASSUME Shape, Shape', Grown, NEW c \in Nat, c <= Len(log),
         NEW todos, todos \subseteq DOMAIN log, Newest(log, todos, c)
  PROVE  Newest(log', todos, c)
<1>1. ASSUME NEW id \in todos, NEW x \in DOMAIN log', log'[x].object = log'[id].object, x <= c
      PROVE  x <= id
  <2>1. x \in DOMAIN log
    <3>1. x \in Nat /\ Len(log) \in Nat
      BY LogParts DEF Shape, RemoteOK
    <3> QED
      BY <1>1, <3>1, NewIsLater
  <2> QED
    BY <1>1, <2>1 DEF Newest, Grown
<1> QED
  BY <1>1 DEF Newest

LEMMA AnswersGrow ==
  ASSUME Shape, Shape', Grown, NEW c \in Nat, c <= Len(log), NEW conflicts, NewestAnswers(log, conflicts, c)
  PROVE  NewestAnswers(log', conflicts, c)
<1>1. ASSUME NEW a \in conflicts, NEW x \in DOMAIN log', a.id # 0, log'[x].object = a.object, x <= c
      PROVE  x <= a.id
  <2>1. x \in DOMAIN log
    <3>1. x \in Nat /\ Len(log) \in Nat
      BY LogParts DEF Shape, RemoteOK
    <3> QED
      BY <1>1, <3>1, NewIsLater
  <2> QED
    BY <1>1, <2>1 DEF NewestAnswers, Grown
<1> QED
  BY <1>1 DEF NewestAnswers

LEMMA DecidedGrows ==
  ASSUME Shape, Grown, NEW t, NEW u, Upheld(log, t, u), NEW n \in DOMAIN log, NEW v, DecidedOK(log, t, v, n)
  PROVE  DecidedOK(log', u, v, n)
<1>1. log[n].object \in Object /\ log'[n] = log[n]
  BY LogParts DEF Grown
<1>2. Keeps(log, log[n].object, t[log[n].object], u[log[n].object])
  BY <1>1 DEF Upheld
<1> QED
  BY <1>1, <1>2 DEF DecidedOK, Keeps, SeenRecord

-----------------------------------------------------------------------------
(* What a step leaves alone.                                                *)
LEMMA QuietRun ==
  ASSUME NEW d \in Device, NEW r \in Run, pc'[d][r] \notin Walking \cup {"pushing"}, todo'[d][r] = {}
  PROVE  RunSlot(d, r)'
<1>1. pc'[d][r] \notin {"pulling", "restoring", "binding"}
  BY DEF Walking
<1> QED
  BY <1>1 DEF RunSlot, Newest

LEMMA UpheldSame == ASSUME NEW l, NEW t, NEW u, \A o \in Object : t[o] = u[o] PROVE Upheld(l, t, u)
BY DEF Upheld, Keeps

LEMMA SlotStays ==
  ASSUME Shape, Shape', Grown, KeptInv, NEW e \in Device, NEW s \in Run, RunSlot(e, s),
         pc'[e][s] = pc[e][s], todo'[e][s] = todo[e][s], verdict'[e][s] = verdict[e][s],
         at'[e][s] = at[e][s], answers'[e][s] = answers[e][s],
         settings'[e].cursor \in {settings[e].cursor, 0},
         Upheld(log, mem[e], mem'[e]), Upheld(log, Kept(e), Kept(e)')
  PROVE  RunSlot(e, s)'
<1> DEFINE c == settings[e].cursor
           k == settings'[e].cursor
<1>0. c \in Nat /\ k \in Nat /\ k <= c /\ c <= Len(log)
  BY LogParts DEF KeptInv, KeptOf, CoveredTo
<1>1. todo[e][s] \subseteq DOMAIN log /\ at[e][s] \in Nat /\ (verdict[e][s] # "none" => todo[e][s] # {})
  BY RunParts DEF Shape, TodoInv, TodoSlot, Cursors
<1>2. Newest(log', todo'[e][s], k)
  <2>1. Newest(log, todo[e][s], c)
    BY DEF RunSlot
  <2>2. Newest(log', todo[e][s], c)
    BY <1>0, <1>1, <2>1, NewestGrows
  <2>3. \A x \in DOMAIN log' : x \in Nat
    BY DEF Shape, RemoteOK
  <2> QED
    BY <1>0, <2>2, <2>3 DEF Newest
<1>3. pc[e][s] \in Walking => k <= at[e][s] /\ WalkOK(log', Kept(e)', todo[e][s], at[e][s])
  <2> SUFFICES ASSUME pc[e][s] \in Walking
               PROVE  k <= at[e][s] /\ WalkOK(log', Kept(e)', todo[e][s], at[e][s])
    OBVIOUS
  <2>1. c <= at[e][s] /\ WalkOK(log, Kept(e), todo[e][s], at[e][s])
    BY DEF RunSlot
  <2>2. WalkOK(log, Kept(e)', todo[e][s], at[e][s])
    BY <1>1, <2>1, WalkUpheld
  <2>3. WalkOK(log', Kept(e)', todo[e][s], at[e][s])
    BY <1>1, <2>2, WalkGrows
  <2> QED
    BY <1>0, <1>1, <2>1, <2>3
<1>4. pc[e][s] = "pushing" => NewestAnswers(log', ConflictsOf(e, s)', k)
  <2> SUFFICES ASSUME pc[e][s] = "pushing" PROVE NewestAnswers(log', ConflictsOf(e, s)', k)
    OBVIOUS
  <2>1. ConflictsOf(e, s)' = ConflictsOf(e, s)
    BY DEF ConflictsOf
  <2>2. NewestAnswers(log, ConflictsOf(e, s), c)
    BY DEF RunSlot
  <2>3. NewestAnswers(log', ConflictsOf(e, s), c)
    BY <1>0, <2>2, AnswersGrow
  <2>4. \A x \in DOMAIN log' : x \in Nat
    BY DEF Shape, RemoteOK
  <2> QED
    BY <1>0, <2>1, <2>3, <2>4 DEF NewestAnswers
<1>5. pc[e][s] \in {"pulling", "restoring", "binding"} =>
        DecidedOK(log', mem'[e], verdict[e][s], Min(todo[e][s]))
  <2> SUFFICES ASSUME pc[e][s] \in {"pulling", "restoring", "binding"}
               PROVE  DecidedOK(log', mem'[e], verdict[e][s], Min(todo[e][s]))
    OBVIOUS
  <2>1. CASE verdict[e][s] = "none"
    BY <2>1 DEF DecidedOK
  <2>2. CASE verdict[e][s] # "none"
    <3>1. Min(todo[e][s]) \in DOMAIN log
      BY <1>1, <2>2, NextInLog
    <3>2. DecidedOK(log, mem[e], verdict[e][s], Min(todo[e][s]))
      BY DEF RunSlot
    <3> QED
      BY <3>1, <3>2, DecidedGrows
  <2> QED
    BY <2>1, <2>2
<1> QED
  BY <1>2, <1>3, <1>4, <1>5 DEF RunSlot

LEMMA KeptStays ==
  ASSUME Shape, Shape', Grown, NEW e \in Device, KeptOf(e), mem'[e] = mem[e], disk'[e] = disk[e],
         settings'[e] = settings[e], saved'[e] = saved[e]
  PROVE  KeptOf(e)' /\ Kept(e)' = Kept(e)
<1>1. Kept(e)' = Kept(e)
  BY DEF Kept, Persisted
<1>2. /\ CoveredTo(log', Kept(e), settings[e].cursor) /\ CoveredTo(log', Kept(e), saved[e].cursor)
      /\ CoveredTo(log', disk[e], settings[e].cursor) /\ CoveredTo(log', disk[e], saved[e].cursor)
  BY LogParts, CoveredGrows DEF KeptOf
<1> QED
  BY <1>1, <1>2 DEF KeptOf

(* Writing the records puts on disk what would be found.                    *)
LEMMA KeptMove ==
  ASSUME Shape, Shape', NEW d \in Device, LocalMove(d)
  PROVE  /\ \A o \in Object : Kept(d)[o] = IF mem[d][o] # Absent THEN mem[d][o] ELSE disk[d][o]
         /\ \A o \in Object : Kept(d)'[o] = IF mem'[d][o] # Absent THEN mem'[d][o] ELSE disk[d][o]
         /\ saved' = saved
         /\ (disk'[d] = disk[d] /\ settings'[d] = settings[d]) \/ disk'[d] = Kept(d)'
<1>1. \A o \in Object : Kept(d)[o] = IF mem[d][o] # Absent THEN mem[d][o] ELSE disk[d][o]
  BY DEF Kept, Persisted
<1>2. \A o \in Object : Kept(d)'[o] = IF mem'[d][o] # Absent THEN mem'[d][o] ELSE disk'[d][o]
  BY DEF Kept, Persisted
<1>3. /\ saved' = saved
      /\ \/ disk'[d] = disk[d] /\ settings'[d] = settings[d]
         \/ \A o \in Object : disk'[d][o] = IF mem'[d][o] # Absent THEN mem'[d][o] ELSE disk[d][o]
  BY LocalMoveType DEF Shape
<1>4. \A o \in Object : Kept(d)'[o] = IF mem'[d][o] # Absent THEN mem'[d][o] ELSE disk[d][o]
  BY <1>2, <1>3
<1>5. CASE \A o \in Object : disk'[d][o] = IF mem'[d][o] # Absent THEN mem'[d][o] ELSE disk[d][o]
  <2>1. \A o \in Object : disk'[d][o] = Kept(d)'[o]
    BY <1>4, <1>5
  <2>2. disk'[d] \in Table
    BY DEF Shape, LocalOK, Table
  <2>3. disk'[d] = [o \in Object |-> disk'[d][o]] /\ Kept(d)' = [o \in Object |-> Kept(d)'[o]]
    BY <2>2 DEF Table, Kept, Persisted
  <2>4. disk'[d] = Kept(d)'
    BY <2>1, <2>3
  <2> QED
    BY <1>1, <1>3, <1>4, <2>4
<1> QED
  BY <1>1, <1>3, <1>4, <1>5

LEMMA KeptUpheld ==
  ASSUME Shape, Shape', NEW d \in Device, LocalMove(d), Upheld(log, mem[d], mem'[d])
  PROVE  Upheld(log, Kept(d), Kept(d)')
<1> SUFFICES ASSUME NEW o \in Object PROVE Keeps(log, o, Kept(d)[o], Kept(d)'[o])
  BY DEF Upheld
<1>1. Keeps(log, o, mem[d][o], mem'[d][o])
  BY DEF Upheld
<1>2. /\ Kept(d)[o] = IF mem[d][o] # Absent THEN mem[d][o] ELSE disk[d][o]
      /\ Kept(d)'[o] = IF mem'[d][o] # Absent THEN mem'[d][o] ELSE disk[d][o]
  BY KeptMove
<1> QED
  BY <1>1, <1>2 DEF Keeps

LEMMA KeptAfter ==
  ASSUME Shape, Shape', Grown, NEW d \in Device, KeptOf(d), LocalMove(d),
         CoveredTo(log', Kept(d)', settings'[d].cursor), CoveredTo(log', Kept(d)', saved[d].cursor)
  PROVE  KeptOf(d)'
<1>1. saved' = saved
  BY KeptMove
<1>2. CASE disk'[d] = disk[d] /\ settings'[d] = settings[d]
  <2>1. CoveredTo(log', disk[d], settings[d].cursor) /\ CoveredTo(log', disk[d], saved[d].cursor)
    BY LogParts, CoveredGrows DEF KeptOf
  <2> QED
    BY <1>1, <1>2, <2>1 DEF KeptOf
<1>3. CASE disk'[d] = Kept(d)'
  BY <1>1, <1>3 DEF KeptOf
<1> QED
  BY <1>2, <1>3, KeptMove

(* A step of one run that leaves the store alone.                           *)
LEMMA RunOnly ==
  ASSUME Shape, Shape', Grown, KeptInv, RunInv, NEW d \in Device, NEW r \in Run, Elsewhere(d, r),
         UNCHANGED local, RunSlot(d, r)'
  PROVE  KeptInv' /\ RunInv'
<1>1. ASSUME NEW e \in Device
      PROVE  /\ mem'[e] = mem[e] /\ disk'[e] = disk[e] /\ settings'[e] = settings[e] /\ saved'[e] = saved[e]
             /\ KeptOf(e)' /\ Kept(e)' = Kept(e)
  BY KeptStays DEF local, KeptInv
<1>2. ASSUME NEW e \in Device, NEW s \in Run, e # d \/ s # r PROVE RunSlot(e, s)'
  <2>1. /\ pc'[e][s] = pc[e][s] /\ todo'[e][s] = todo[e][s] /\ verdict'[e][s] = verdict[e][s]
        /\ at'[e][s] = at[e][s] /\ answers'[e][s] = answers[e][s]
    BY <1>2 DEF Elsewhere
  <2>2. settings'[e].cursor \in {settings[e].cursor, 0} /\ RunSlot(e, s)
    BY <1>1 DEF RunInv
  <2>3. Upheld(log, mem[e], mem'[e]) /\ Upheld(log, Kept(e), Kept(e)')
    BY <1>1, UpheldSame
  <2> QED
    BY <2>1, <2>2, <2>3, SlotStays
<1> QED
  BY <1>1, <1>2 DEF KeptInv, RunInv

(* What a run found when it began is saved: a cursor or an account that is  *)
(* not saved yet is that of a run that is over.                             *)
AtWorkSaved == \A d \in Device, r \in Run : pc[d][r] # "idle" => saved[d] = settings[d]

(* A step of the only run of a device.                                      *)
LEMMA RunAlone ==
  ASSUME Shape, Shape', Grown, AloneInv, AtWorkSaved, KeptInv, RunInv, NEW d \in Device, NEW r \in Run,
         Elsewhere(d, r), LocalMove(d), pc[d][r] # "idle",
         CoveredTo(log', Kept(d)', settings'[d].cursor),
         settings'[d] = settings[d] \/ CoveredTo(log', Kept(d)', settings[d].cursor), RunSlot(d, r)'
  PROVE  KeptInv' /\ RunInv'
<1>1. ASSUME NEW e \in Device, e # d
      PROVE  /\ mem'[e] = mem[e] /\ disk'[e] = disk[e] /\ settings'[e] = settings[e] /\ saved'[e] = saved[e]
             /\ KeptOf(e)' /\ Kept(e)' = Kept(e)
  <2>1. mem'[e] = mem[e] /\ disk'[e] = disk[e] /\ settings'[e] = settings[e] /\ saved'[e] = saved[e]
    BY <1>1, LocalMoveType DEF Shape
  <2> QED
    BY <2>1, KeptStays DEF KeptInv
<1>2. KeptOf(d)'
  <2>1. CoveredTo(log', Kept(d)', saved[d].cursor)
    BY DEF AtWorkSaved
  <2> QED
    BY <2>1, KeptAfter DEF KeptInv
<1>3. ASSUME NEW e \in Device, NEW s \in Run, e # d PROVE RunSlot(e, s)'
  <2>1. /\ pc'[e][s] = pc[e][s] /\ todo'[e][s] = todo[e][s] /\ verdict'[e][s] = verdict[e][s]
        /\ at'[e][s] = at[e][s] /\ answers'[e][s] = answers[e][s]
    BY <1>3 DEF Elsewhere
  <2>2. settings'[e].cursor \in {settings[e].cursor, 0} /\ RunSlot(e, s)
    BY <1>1, <1>3 DEF RunInv
  <2>3. Upheld(log, mem[e], mem'[e]) /\ Upheld(log, Kept(e), Kept(e)')
    BY <1>1, <1>3, UpheldSame
  <2> QED
    BY <2>1, <2>2, <2>3, SlotStays
<1>4. ASSUME NEW s \in Run, s # r PROVE RunSlot(d, s)'
  <2>1. pc[d][s] = "idle"
    BY <1>4 DEF AloneInv, Alone
  <2>2. pc'[d][s] = "idle" /\ todo'[d][s] = {}
    BY <1>4, <2>1 DEF Elsewhere, Shape, TodoInv, TodoSlot, Phases
  <2> QED
    BY <2>2, QuietRun DEF Walking
<1> QED
  BY <1>1, <1>2, <1>3, <1>4 DEF KeptInv, RunInv

-----------------------------------------------------------------------------
(* The store after one event has been looked at.                            *)
LEMMA SeenUnder ==
  ASSUME Shape, LogInv, NEW n \in DOMAIN log, NEW y \in DOMAIN log, log[y].object = log[n].object, y <= n,
         NEW record \in Record, SeenRecord(log, record, n)
  PROVE  SeenRecord(log, record, y)
<1>1. record.revision \in Nat /\ record.base \in Nat
  BY FieldTypes
<1>2. log[y].version.revision \in Nat /\ log[n].version.revision \in Nat /\ y \in Nat /\ n \in Nat
  BY LogParts
<1>3. log[y].version.revision <= log[n].version.revision
  <2>1. CASE y = n
    BY <1>2, <2>1
  <2>2. CASE y < n
    BY <1>2, <2>2 DEF LogInv, ObjectAt, VersionAt
  <2> QED
    BY <1>2, <2>1, <2>2
<1> QED
  BY <1>1, <1>2, <1>3 DEF SeenRecord

LEMMA OneRecordCovered ==
  ASSUME Shape, LogInv, NEW t, NEW u, NEW n \in DOMAIN log, NEW c \in Nat, CoveredTo(log, t, c),
         \A x \in Object \ {log[n].object} : u[x] = t[x],
         \/ u[log[n].object] = t[log[n].object]
         \/ /\ u[log[n].object] \in Record /\ SeenRecord(log, u[log[n].object], n)
            /\ \A x \in DOMAIN log : log[x].object = log[n].object /\ x <= c => x <= n
  PROVE  CoveredTo(log, u, c)
<1> SUFFICES ASSUME NEW y \in 1 .. c PROVE SeenAt(log, u, y, c)
  BY DEF CoveredTo
<1>1. y \in DOMAIN log /\ SeenAt(log, t, y, c) /\ log[y].object \in Object /\ y <= c
  BY LogParts DEF CoveredTo
<1>2. CASE u[log[y].object] = t[log[y].object]
  BY <1>1, <1>2 DEF SeenAt
<1>3. CASE u[log[y].object] # t[log[y].object]
  <2>1. log[y].object = log[n].object
    BY <1>1, <1>3
  <2>2. u[log[n].object] \in Record /\ SeenRecord(log, u[log[n].object], n) /\ y <= n
    BY <1>1, <1>3, <2>1
  <2>3. SeenRecord(log, u[log[n].object], y) /\ u[log[n].object] # Absent
    BY <1>1, <2>1, <2>2, SeenUnder DEF SeenRecord
  <2> QED
    BY <2>1, <2>3 DEF SeenAt
<1> QED
  BY <1>2, <1>3

LEMMA OneRecordWalks ==
  ASSUME Shape, LogInv, NEW t, NEW u, NEW todos \in SUBSET DOMAIN log, NEW n \in todos,
         \A x \in todos : n <= x, NEW c \in Nat, WalkOK(log, t, todos, c),
         \A x \in Object \ {log[n].object} : u[x] = t[x],
         u[log[n].object] \in Record, SeenRecord(log, u[log[n].object], n)
  PROVE  WalkOK(log, u, todos \ {n}, c)
<1>0. n \in DOMAIN log /\ n \in Nat /\ \A x \in todos : x \in Nat
  BY LogParts
<1>1. ASSUME NEW y \in 1 .. c PROVE SeenAt(log, u, y, c) \/ Later(log, todos \ {n}, y)
  <2>1. /\ y \in DOMAIN log /\ log[y].object \in Object /\ y \in Nat
        /\ SeenAt(log, t, y, c) \/ Later(log, todos, y)
    BY LogParts DEF WalkOK
  <2>2. CASE log[y].object # log[n].object
    <3>1. u[log[y].object] = t[log[y].object]
      BY <2>1, <2>2
    <3>2. SeenAt(log, t, y, c) => SeenAt(log, u, y, c)
      BY <3>1 DEF SeenAt
    <3>3. Later(log, todos, y) => Later(log, todos \ {n}, y)
      BY <2>2 DEF Later
    <3> QED
      BY <2>1, <3>2, <3>3
  <2>3. CASE log[y].object = log[n].object /\ y <= n
    <3>1. SeenRecord(log, u[log[n].object], y) /\ u[log[n].object] # Absent
      BY <1>0, <2>1, <2>3, SeenUnder DEF SeenRecord
    <3> QED
      BY <2>3, <3>1 DEF SeenAt
  <2>4. CASE log[y].object = log[n].object /\ n < y
    <3>1. y \in todos \ {n}
      BY <1>0, <2>1, <2>4 DEF WalkOK
    <3> QED
      BY <2>1, <3>1 DEF Later
  <2> QED
    BY <1>0, <2>1, <2>2, <2>3, <2>4
<1>2. ASSUME NEW id \in todos \ {n}, NEW y \in DOMAIN log, log[y].object = log[id].object, id < y, y <= c
      PROVE  y \in todos \ {n}
  <2>1. y \in todos /\ n <= id /\ id \in Nat /\ y \in Nat
    BY <1>0, <1>2, LogParts DEF WalkOK
  <2> QED
    BY <1>0, <1>2, <2>1
<1> QED
  BY <1>1, <1>2 DEF WalkOK

LEMMA QuietTodo ==
  ASSUME Shape, NEW d \in Device, NEW r \in Run, pc[d][r] \notin Phases
  PROVE  todo[d][r] = {} /\ verdict[d][r] = "none"
BY DEF Shape, TodoInv, TodoSlot

(* What the decision leaves of the record it was about.                     *)
LEMMA CarriedRecord ==
  ASSUME Shape, LiveInv, NEW d \in Device, NEW n \in DOMAIN log, NEW v \in {"apply", "conflict", "skip"}
  PROVE  LET o == log[n].object
             t == Carried(d, v, n)
         IN  /\ \A x \in Object \ {o} : t[x] = mem[d][x]
             /\ v = "skip" \/ (v = "conflict" /\ mem[d][o] = Absent) => t[o] = mem[d][o]
             /\ v = "apply" \/ (v = "conflict" /\ mem[d][o] # Absent) =>
                  t[o] \in Record /\ SeenRecord(log, t[o], n)
<1> DEFINE o == log[n].object
           t == Carried(d, v, n)
<1>0. mem[d] \in Table /\ o \in Object /\ VersionAt(n) \in VersionType /\ ObjectAt(n) = o
  BY LocalParts, LogTypes DEF Shape, ObjectAt
<1>1. CASE v = "apply"
  <2>1. t = WithRemote(mem[d], o, VersionAt(n))
    BY <1>0, <1>1 DEF Carried
  <2>2. ~VersionAt(n).content.deleted
    BY DEF LiveInv, VersionAt
  <2>3. t = [mem[d] EXCEPT ![o] = CleanRecord(VersionAt(n))]
    BY <2>1, <2>2 DEF WithRemote
  <2>4. t[o] = CleanRecord(VersionAt(n)) /\ \A x \in Object \ {o} : t[x] = mem[d][x]
    BY <1>0, <2>3 DEF Table
  <2>5. CleanRecord(VersionAt(n)) \in Record
    BY <1>0, RecordTypes
  <2>6. SeenRecord(log, CleanRecord(VersionAt(n)), n)
    <3>1. CleanRecord(VersionAt(n)).state = "clean" /\ CleanRecord(VersionAt(n)).revision = log[n].version.revision
      BY DEF CleanRecord, VersionAt
    <3>2. log[n].version.revision \in Nat /\ CleanRecord(VersionAt(n)) # Absent
      BY <2>5, LogParts, FieldTypes
    <3> QED
      BY <3>1, <3>2 DEF SeenRecord
  <2> QED
    BY <1>1, <2>4, <2>5, <2>6
<1>2. CASE v = "conflict"
  <2>1. t = MarkedConflicted(mem[d], o)
    BY <1>0, <1>2 DEF Carried
  <2>2. /\ \A x \in Object \ {o} : t[x] = mem[d][x]
        /\ t[o] = IF mem[d][o] = Absent THEN mem[d][o] ELSE [mem[d][o] EXCEPT !.state = "conflicted"]
    BY <1>0, <2>1 DEF MarkedConflicted, Table
  <2>3. mem[d][o] # Absent => t[o] \in Record /\ t[o].state = "conflicted"
    <3>1. mem[d][o] # Absent => mem[d][o] \in Record
      BY <1>0 DEF Table
    <3>2. \A rec \in Record : /\ [rec EXCEPT !.state = "conflicted"] \in Record
                              /\ [rec EXCEPT !.state = "conflicted"].state = "conflicted"
      BY DEF Record, SyncState
    <3> QED
      BY <2>2, <3>1, <3>2
  <2>4. mem[d][o] # Absent => SeenRecord(log, t[o], n)
    <3> HIDE DEF t
    <3> QED
      BY <2>3, FieldTypes DEF SeenRecord
  <2> QED
    BY <1>2, <2>2, <2>3, <2>4
<1>3. CASE v = "skip"
  BY <1>3 DEF Carried
<1> QED
  BY <1>1, <1>2, <1>3

LEMMA ActKeeps ==
  ASSUME Shape, Shape', LogInv, AloneInv, AtWorkSaved, LiveInv, KeptInv, RunInv,
         NEW d \in Device, NEW r \in Run, Act(d, r)
  PROVE  KeptInv' /\ RunInv'
<1> DEFINE n == Min(todo[d][r])
           o == log[n].object
           v == verdict[d][r]
           c == settings[d].cursor
<1>1. /\ log' = log /\ LocalMove(d) /\ settings' = settings /\ mem'[d] = Carried(d, v, n)
      /\ RunMove(d, r, pc[d][r], sent[d][r], answers[d][r], todo[d][r] \ {n}, "none", at[d][r])
      /\ pc[d][r] \in Phases /\ todo[d][r] # {} /\ v \in {"apply", "conflict", "skip"}
  BY ActMoves DEF Still, remote, MemTo
<1>2. /\ n \in todo[d][r] /\ n \in DOMAIN log /\ (\A id \in todo[d][r] : n <= id)
      /\ todo[d][r] \in SUBSET DOMAIN log /\ o \in Object
  BY <1>1, NextInLog DEF ObjectAt
<1>3. /\ Grown /\ RunSlot(d, r) /\ KeptOf(d) /\ c \in Nat /\ at[d][r] \in Nat
  BY <1>1, LogParts, RunParts DEF Grown, RunInv, KeptInv, Shape, Cursors
<1> HIDE DEF n
<1>4. /\ \A x \in Object \ {o} : mem'[d][x] = mem[d][x]
      /\ v = "skip" \/ (v = "conflict" /\ mem[d][o] = Absent) => mem'[d][o] = mem[d][o]
      /\ v = "apply" \/ (v = "conflict" /\ mem[d][o] # Absent) =>
           mem'[d][o] \in Record /\ SeenRecord(log, mem'[d][o], n)
  BY <1>1, <1>2, CarriedRecord
<1>5. /\ \A x \in Object : Kept(d)[x] = IF mem[d][x] # Absent THEN mem[d][x] ELSE disk[d][x]
      /\ \A x \in Object : Kept(d)'[x] = IF mem'[d][x] # Absent THEN mem'[d][x] ELSE disk[d][x]
  BY <1>1, KeptMove
<1>6. \A x \in Object \ {o} : Kept(d)'[x] = Kept(d)[x]
  BY <1>4, <1>5
<1>7. \A x \in DOMAIN log : log[x].object = o /\ x <= c => x <= n
  BY <1>2, <1>3 DEF RunSlot, Newest
<1>8. CoveredTo(log, Kept(d)', c)
  <2>1. CoveredTo(log, Kept(d), c)
    BY <1>3 DEF KeptOf
  <2>2. CASE v = "skip" \/ (v = "conflict" /\ mem[d][o] = Absent)
    <3>1. Kept(d)'[o] = Kept(d)[o]
      BY <1>2, <1>4, <1>5, <2>2
    <3> QED
      BY <1>2, <1>3, <1>6, <2>1, <3>1, OneRecordCovered
  <2>3. CASE v = "apply" \/ (v = "conflict" /\ mem[d][o] # Absent)
    <3>1. Kept(d)'[o] \in Record /\ SeenRecord(log, Kept(d)'[o], n)
      BY <1>2, <1>4, <1>5, <2>3, FieldTypes
    <3> QED
      BY <1>2, <1>3, <1>6, <1>7, <2>1, <3>1, OneRecordCovered
  <2> QED
    BY <1>1, <2>2, <2>3
<1>9. RunSlot(d, r)'
  <2>0. /\ pc'[d][r] = pc[d][r] /\ todo'[d][r] = todo[d][r] \ {n} /\ verdict'[d][r] = "none"
        /\ at'[d][r] = at[d][r]
    BY <1>1 DEF RunMove
  <2>1. Newest(log, todo[d][r] \ {n}, c)
    BY <1>3 DEF RunSlot, Newest
  <2>2. pc[d][r] # "pushing" /\ (pc[d][r] \in Walking => pc[d][r] \in {"pulling", "restoring", "binding"})
    BY <1>1 DEF Phases, Walking
  <2>3. ASSUME pc[d][r] \in Walking PROVE WalkOK(log, Kept(d)', todo[d][r] \ {n}, at[d][r])
    <3>1. WalkOK(log, Kept(d), todo[d][r], at[d][r]) /\ DecidedOK(log, mem[d], v, n)
      BY <1>3, <2>2, <2>3 DEF RunSlot, n
    <3>2. mem[d][o] # Absent => mem[d][o] \in Record
      BY <1>2, LocalParts DEF Shape
    <3>3. mem'[d][o] \in Record /\ SeenRecord(log, mem'[d][o], n)
      <4>1. CASE v = "skip"
        <5>1. mem[d][o] # Absent /\ SeenRecord(log, mem[d][o], n)
          BY <3>1, <4>1 DEF DecidedOK
        <5> QED
          BY <1>4, <3>2, <4>1, <5>1
      <4>2. CASE v = "conflict"
        <5>1. mem[d][o] # Absent
          BY <3>1, <4>2 DEF DecidedOK
        <5> QED
          BY <1>4, <4>2, <5>1
      <4>3. CASE v = "apply"
        BY <1>4, <4>3
      <4> QED
        BY <1>1, <4>1, <4>2, <4>3
    <3>4. Kept(d)'[o] \in Record /\ SeenRecord(log, Kept(d)'[o], n)
      BY <1>2, <1>5, <3>3, FieldTypes
    <3> QED
      BY <1>2, <1>3, <1>6, <3>1, <3>4, OneRecordWalks
  <2>4. c <= at[d][r] \/ pc[d][r] \notin Walking
    BY <1>3 DEF RunSlot
  <2>5. DecidedOK(log, mem'[d], "none", Min(todo'[d][r]))
    BY DEF DecidedOK
  <2> QED
    BY <1>1, <2>0, <2>1, <2>2, <2>3, <2>4, <2>5 DEF RunSlot
<1>10. Elsewhere(d, r) /\ pc[d][r] # "idle"
  BY <1>1 DEF RunMove, Phases
<1> QED
  BY <1>1, <1>3, <1>8, <1>9, <1>10, RunAlone

-----------------------------------------------------------------------------
(* The other steps of a run.                                                *)
LEMMA SameLog ==
  ASSUME Shape, Still
  PROVE  log' = log /\ Grown
BY DEF Still, remote, Grown

(* A decision to skip an event is one about a record that has seen it.      *)
LEMMA SkipsSeen ==
  ASSUME NEW l, NEW n, NEW t, NEW phase \in {"pulling", "restoring", "binding"},
         t[l[n].object] \in Record \cup {Absent}, l[n].version.revision \in Nat,
         ~l[n].version.content.deleted
  PROVE  DecidedOK(l, t, Verdict(phase, t[l[n].object], l[n].version), n)
<1> DEFINE record == t[l[n].object]
           version == l[n].version
           v == Verdict(phase, record, version)
<1>1. CASE phase = "restoring"
  BY <1>1 DEF Verdict, DecidedOK
<1>2. CASE record = Absent
  <2>1. v = "apply"
    BY <1>2 DEF Verdict, PullVerdict, BindVerdict
  <2> QED
    BY <2>1 DEF DecidedOK
<1>3. CASE record # Absent /\ phase = "pulling"
  <2>0. /\ record \in Record /\ record.revision \in Nat /\ record.base \in Nat
        /\ record.state \in {"clean", "dirty", "conflicted"}
    BY <1>3, FieldTypes
  <2>1. v = PullVerdict(record, version)
    BY <1>3 DEF Verdict
  <2> HIDE DEF v, record, version
  <2>2. CASE record.state = "clean"
    <3>1. v = IF record.revision >= version.revision THEN "skip" ELSE "apply"
      BY <1>3, <2>1, <2>2 DEF PullVerdict
    <3>2. v = "skip" => version.revision <= record.revision
      BY <2>0, <3>1 DEF version
    <3> QED
      BY <1>3, <2>2, <3>1, <3>2 DEF DecidedOK, SeenRecord, v, record, version
  <2>3. CASE record.state = "conflicted"
    <3>1. SeenRecord(l, record, n)
      BY <1>3, <2>3 DEF SeenRecord
    <3> QED
      BY <1>3, <3>1 DEF DecidedOK, v, record, version
  <2>4. CASE record.state = "dirty"
    <3>1. v = "skip" => version.revision <= record.base
      BY <1>3, <2>1, <2>4 DEF PullVerdict
    <3> QED
      BY <1>3, <2>4, <3>1 DEF DecidedOK, SeenRecord, v, record, version
  <2> QED
    BY <2>0, <2>2, <2>3, <2>4
<1>4. CASE record # Absent /\ phase = "binding"
  <2>1. v = BindVerdict(record, version)
    BY <1>4 DEF Verdict
  <2>2. v = "skip" => record.state = "dirty" /\ record.base = version.revision
    BY <1>4, <2>1 DEF BindVerdict
  <2> QED
    BY <1>4, <2>2 DEF DecidedOK, SeenRecord
<1> QED
  BY <1>1, <1>2, <1>3, <1>4

LEMMA ExamineKeeps ==
  ASSUME Shape, Shape', LiveInv, KeptInv, RunInv, NEW d \in Device, NEW r \in Run, Examine(d, r)
  PROVE  KeptInv' /\ RunInv'
<1> DEFINE n == Min(todo[d][r])
           v == Verdict(pc[d][r], mem[d][ObjectAt(n)], VersionAt(n))
<1>1. /\ log' = log /\ UNCHANGED local /\ Grown
      /\ RunMove(d, r, pc[d][r], sent[d][r], answers[d][r], todo[d][r], v, at[d][r])
  BY ExamineMoves, SameLog
<1>2. pc[d][r] \in Phases /\ todo[d][r] # {} /\ RunSlot(d, r) /\ KeptOf(d)
  BY DEF Examine, RunInv, KeptInv
<1>3. n \in DOMAIN log /\ log[n].object \in Object /\ log[n].version.revision \in Nat
  BY <1>2, NextInLog, LogParts
<1>4. mem[d][log[n].object] \in Record \cup {Absent} /\ ~log[n].version.content.deleted
  BY <1>3, LocalParts DEF LiveInv, Shape, Table
<1>5. pc[d][r] \in {"pulling", "restoring", "binding"} => DecidedOK(log, mem[d], v, n)
  BY <1>3, <1>4, SkipsSeen DEF ObjectAt, VersionAt
<1>6. /\ pc'[d][r] = pc[d][r] /\ todo'[d][r] = todo[d][r] /\ verdict'[d][r] = v
      /\ at'[d][r] = at[d][r] /\ Elsewhere(d, r) /\ answers'[d][r] = answers[d][r]
  BY <1>1 DEF RunMove
<1>7. Kept(d)' = Kept(d) /\ settings' = settings /\ mem' = mem /\ ConflictsOf(d, r)' = ConflictsOf(d, r)
  BY <1>1, <1>6 DEF local, Kept, Persisted, ConflictsOf
<1> HIDE DEF n, v
<1>8. Min(todo'[d][r]) = n
  BY <1>6 DEF n
<1>9. RunSlot(d, r)'
  BY <1>1, <1>2, <1>5, <1>6, <1>7, <1>8 DEF RunSlot
<1> QED
  BY <1>1, <1>6, <1>9, RunOnly

(* A step after which the run has nothing to look at and does not walk.     *)
LEMMA SettledUpheld ==
  ASSUME Shape, Shape', Grown, NEW d \in Device, KeptOf(d), LocalMove(d),
         settings'[d].cursor = settings[d].cursor, Upheld(log, mem[d], mem'[d])
  PROVE  CoveredTo(log', Kept(d)', settings'[d].cursor)
<1>1. Upheld(log, Kept(d), Kept(d)') /\ settings[d].cursor \in Nat
  BY KeptUpheld, LogParts
<1>2. CoveredTo(log, Kept(d)', settings[d].cursor)
  BY <1>1, CoveredUpheld DEF KeptOf
<1> QED
  BY <1>1, <1>2, CoveredGrows

LEMMA RepairedKeeps ==
  ASSUME Shape, Shape', AloneInv, AtWorkSaved, KeptInv, RunInv, NEW d \in Device, NEW r \in Run, Repaired(d, r)
  PROVE  KeptInv' /\ RunInv'
<1>1. /\ log' = log /\ Grown /\ mem' = mem /\ settings' = settings /\ LocalMove(d) /\ pc[d][r] = "repairing"
      /\ RunMove(d, r, "building", sent[d][r], answers[d][r], todo[d][r], verdict[d][r], at[d][r])
  BY RepairedMoves, SameLog
<1>2. todo[d][r] = {}
  BY DEF Repaired, NothingLeft
<1>3. pc'[d][r] = "building" /\ todo'[d][r] = {} /\ Elsewhere(d, r)
  BY <1>1, <1>2 DEF RunMove
<1>4. RunSlot(d, r)'
  BY <1>3, QuietRun DEF Walking
<1>5. CoveredTo(log', Kept(d)', settings'[d].cursor)
  BY <1>1, UpheldSame, SettledUpheld DEF KeptInv
<1> QED
  BY <1>1, <1>3, <1>4, <1>5, RunAlone

LEMMA ResetKeeps ==
  ASSUME Shape, Shape', AloneInv, AtWorkSaved, KeptInv, RunInv, NEW d \in Device, NEW r \in Run, Reset(d, r)
  PROVE  KeptInv' /\ RunInv'
<1>1. /\ log' = log /\ Grown /\ UNCHANGED run /\ LocalMove(d) /\ settings' = settings
      /\ pc[d][r] = "building" /\ settings[d].cursor = 0
  BY ResetMoves, SameLog DEF MemTo
<1>2. Elsewhere(d, r) /\ pc'[d][r] = "building" /\ todo'[d][r] = {}
  <2>1. todo[d][r] = {}
    BY <1>1, QuietTodo DEF Phases
  <2> QED
    BY <1>1, <2>1 DEF run, Elsewhere
<1>3. RunSlot(d, r)'
  BY <1>2, QuietRun DEF Walking
<1>4. CoveredTo(log', Kept(d)', 0)
  BY <1>1, LogParts DEF CoveredTo
<1> QED
  BY <1>1, <1>2, <1>3, <1>4, RunAlone

LEMMA PushKeeps ==
  ASSUME Shape, Shape', KeptInv, RunInv, NEW d \in Device, NEW r \in Run, Push(d, r)
  PROVE  KeptInv' /\ RunInv'
<1>1. /\ Grown /\ UNCHANGED local /\ pc[d][r] = "building"
      /\ RunMove(d, r, "pushing", PushOf(d), {}, todo[d][r], verdict[d][r], at[d][r])
  BY PushMoves, SameLog DEF Push
<1>2. todo[d][r] = {}
  BY <1>1, QuietTodo DEF Phases
<1>3. pc'[d][r] = "pushing" /\ todo'[d][r] = {} /\ Elsewhere(d, r) /\ answers'[d][r] = {}
  BY <1>1, <1>2 DEF RunMove
<1>4. RunSlot(d, r)'
  BY <1>3 DEF RunSlot, Walking, Newest, NewestAnswers, ConflictsOf
<1> QED
  BY <1>1, <1>3, <1>4, RunOnly

(* The snapshot has the latest event of every object.                       *)
LEMMA SnapshotHasAll ==
  ASSUME Shape, NEW c \in Nat, NEW t
  PROVE  Newest(log, Snapshot, c) /\ WalkOK(log, t, Snapshot, Len(log))
<1>1. Newest(log, Snapshot, c)
  BY DEF Newest, Snapshot, ObjectAt
<1>2. ASSUME NEW y \in 1 .. Len(log) PROVE Later(log, Snapshot, y)
  <2> DEFINE S == {x \in DOMAIN log : log[x].object = log[y].object}
  <2>1. y \in S /\ S \in SUBSET Nat /\ Len(log) \in Nat /\ \A x \in S : x <= Len(log)
    BY LogParts
  <2>2. Max(S) \in S /\ \A x \in S : x <= Max(S)
    <3> HIDE DEF S
    <3> QED
      BY <2>1, MaxOfBounded
  <2> DEFINE m == Max(S)
  <2> HIDE DEF m
  <2>3. m \in S /\ \A x \in S : x <= m
    BY <2>2 DEF m
  <2>4. m \in Snapshot
    BY <2>3 DEF Snapshot, ObjectAt
  <2> QED
    BY <2>1, <2>3, <2>4 DEF Later
<1>3. ASSUME NEW id \in Snapshot, NEW y \in DOMAIN log, log[y].object = log[id].object, id < y
      PROVE  FALSE
  <2>1. y <= id /\ y \in Nat /\ id \in Nat
    BY <1>3, LogParts DEF Snapshot, ObjectAt
  <2> QED
    BY <1>3, <2>1
<1>4. Len(log) <= Len(log)
  BY LogParts
<1> QED
  BY <1>1, <1>2, <1>3, <1>4 DEF WalkOK

LEMMA SnapshotKeeps ==
  ASSUME Shape, Shape', KeptInv, RunInv, NEW d \in Device, NEW r \in Run,
         Start(d, r) \/ Restore(d, r) \/ Bind(d, r)
  PROVE  KeptInv' /\ RunInv'
<1>1. PICK p \in {"repairing", "restoring", "binding"}, s \in {Snapshot, {}}, c \in {at[d][r], Len(log)} :
        /\ Still /\ UNCHANGED local /\ verdict[d][r] = "none"
        /\ RunMove(d, r, p, sent[d][r], answers[d][r], s, verdict[d][r], c)
        /\ p # "repairing" => s = Snapshot /\ c = Len(log)
  <2>1. pc[d][r] \in {"idle", "building"}
    BY DEF Start, Restore, Bind, Idle
  <2>2. verdict[d][r] = "none"
    BY <2>1, QuietTodo DEF Phases
  <2>3. CASE Start(d, r)
    BY <2>2, <2>3, StartMoves
  <2>4. CASE Restore(d, r)
    BY <2>2, <2>4, RestoreMoves
  <2>5. CASE Bind(d, r)
    BY <2>2, <2>5, BindMoves
  <2> QED
    BY <2>3, <2>4, <2>5
<1>2. log' = log /\ Grown
  BY <1>1, SameLog
<1>3. /\ pc'[d][r] = p /\ todo'[d][r] = s /\ at'[d][r] = c /\ verdict'[d][r] = "none" /\ Elsewhere(d, r)
  BY <1>1 DEF RunMove
<1>4. Kept(d)' = Kept(d) /\ settings' = settings
  BY <1>1 DEF local, Kept, Persisted
<1>5. settings[d].cursor \in Nat /\ settings[d].cursor <= Len(log)
  BY LogParts DEF KeptInv, KeptOf, CoveredTo
<1>6. Newest(log, s, settings[d].cursor)
  BY <1>5, SnapshotHasAll DEF Newest
<1>7. p \in Walking => settings[d].cursor <= c /\ WalkOK(log, Kept(d), s, c)
  BY <1>1, <1>5, SnapshotHasAll DEF Walking
<1>8. \A t, n : DecidedOK(log, t, "none", n)
  BY DEF DecidedOK
<1>9. RunSlot(d, r)'
  BY <1>2, <1>3, <1>4, <1>6, <1>7, <1>8 DEF RunSlot
<1> QED
  BY <1>1, <1>2, <1>3, <1>9, RunOnly

(* The answers to a push.                                                   *)
LEMMA ReceivedUpheld ==
  ASSUME Shape, PushInv, NEW d \in Device, NEW r \in Run, pc[d][r] = "pushing"
  PROVE  Upheld(log, mem[d], Received(d, r))
<1> DEFINE t == WithAccepted(mem[d], AcceptedOf(d, r))
<1>0. mem[d] \in Table /\ AcceptedOf(d, r) \in SUBSET AnswerType
  BY LocalParts, RunParts DEF Shape, AcceptedOf, Answers
<1>1. t \in Table
  BY <1>0, TableTypes
<1> SUFFICES ASSUME NEW o \in Object PROVE Keeps(log, o, mem[d][o], Received(d, r)[o])
  BY DEF Upheld
<1>2. mem[d][o] # Absent => mem[d][o] \in Record
  BY <1>0 DEF Table
<1>3. \/ t[o] = mem[d][o]
      \/ /\ mem[d][o] \in Record /\ t[o] \in Record /\ mem[d][o].state = "dirty"
         /\ t[o].state = "clean" /\ t[o].revision = mem[d][o].base + 1
  <2>1. CASE mem[d][o] # Absent /\ \E a \in AcceptedOf(d, r) : a.object = o
    <3> DEFINE a == CHOOSE x \in AcceptedOf(d, r) : x.object = o
               u == [mem[d][o] EXCEPT !.revision = a.revision, !.base = a.revision, !.state = "clean"]
    <3>1. t[o] = u
      BY <2>1 DEF WithAccepted
    <3>2. a \in AcceptedOf(d, r) /\ a.object = o
      BY <2>1
    <3>3. Taken(log, mem[d], a)
      BY <3>2 DEF PushInv, PushSlot
    <3>4. a.revision = mem[d][o].base + 1 /\ mem[d][o].state = "dirty" /\ a.revision \in Nat
      BY <1>0, <3>2, <3>3 DEF Taken, AnswerType
    <3> HIDE DEF a, t
    <3>5. u \in Record /\ u.state = "clean" /\ u.revision = a.revision
      BY <1>2, <2>1, <3>4 DEF Record, SyncState
    <3> HIDE DEF u
    <3> QED
      BY <1>2, <2>1, <3>1, <3>4, <3>5
  <2>2. CASE ~(mem[d][o] # Absent /\ \E a \in AcceptedOf(d, r) : a.object = o)
    BY <2>2 DEF WithAccepted
  <2> QED
    BY <2>1, <2>2
<1> HIDE DEF t
<1>4. Keeps(log, o, mem[d][o], t[o])
  <2>1. CASE t[o] = mem[d][o]
    BY <2>1 DEF Keeps
  <2>2. CASE t[o] # mem[d][o]
    <3>1. /\ mem[d][o] # Absent /\ t[o] # Absent /\ t[o].state = "clean" /\ mem[d][o].state = "dirty"
          /\ t[o].revision = mem[d][o].base + 1 /\ mem[d][o].base \in Nat
      BY <1>3, <2>2, FieldTypes
    <3>2. \A x \in DOMAIN log : log[x].version.revision <= mem[d][o].base => log[x].version.revision <= t[o].revision
      BY <3>1, LogParts
    <3> QED
      BY <3>1, <3>2 DEF Keeps, SeenRecord
  <2> QED
    BY <2>1, <2>2
<1>5. \/ Received(d, r)[o] = t[o]
      \/ Received(d, r)[o] = MarkedConflicted(t, o)[o]
  BY DEF Received, t
<1>6. \/ MarkedConflicted(t, o)[o] = t[o]
      \/ t[o] # Absent /\ MarkedConflicted(t, o)[o] # Absent /\ MarkedConflicted(t, o)[o].state = "conflicted"
  <2>1. MarkedConflicted(t, o)[o] = IF t[o] = Absent THEN t[o] ELSE [t[o] EXCEPT !.state = "conflicted"]
    BY <1>1 DEF MarkedConflicted, Table
  <2>2. t[o] # Absent => t[o] \in Record
    BY <1>1 DEF Table
  <2>3. \A rec \in Record : /\ [rec EXCEPT !.state = "conflicted"] \in Record
                            /\ [rec EXCEPT !.state = "conflicted"].state = "conflicted"
    BY DEF Record, SyncState
  <2> QED
    BY <2>1, <2>2, <2>3, FieldTypes
<1> QED
  BY <1>3, <1>4, <1>5, <1>6, FieldTypes DEF Keeps, SeenRecord

LEMMA ReceiveKeeps ==
  ASSUME Shape, Shape', AloneInv, AtWorkSaved, PushInv, KeptInv, RunInv, NEW d \in Device, NEW r \in Run, Receive(d, r)
  PROVE  KeptInv' /\ RunInv'
<1> DEFINE s == {a.id : a \in ConflictsOf(d, r)} \ {0}
<1>1. /\ log' = log /\ Grown /\ LocalMove(d) /\ settings' = settings /\ mem'[d] = Received(d, r)
      /\ RunMove(d, r, "reconciling", sent[d][r], answers[d][r], s, verdict[d][r], at[d][r])
      /\ pc[d][r] = "pushing"
  BY ReceiveMoves, SameLog DEF MemTo
<1>2. pc'[d][r] = "reconciling" /\ todo'[d][r] = s /\ Elsewhere(d, r)
  BY <1>1 DEF RunMove
<1>3. CoveredTo(log', Kept(d)', settings'[d].cursor)
  BY <1>1, ReceivedUpheld, SettledUpheld DEF KeptInv
<1>4. Newest(log, s, settings[d].cursor)
  <2>1. NewestAnswers(log, ConflictsOf(d, r), settings[d].cursor)
    BY <1>1 DEF RunInv, RunSlot
  <2>2. \A a \in ConflictsOf(d, r) : a.id # 0 => log[a.id].object = a.object
    BY DEF Shape, TodoInv, TodoSlot, EventsOf, ObjectAt
  <2> QED
    BY <2>1, <2>2 DEF Newest, NewestAnswers
<1>5. RunSlot(d, r)'
  BY <1>1, <1>2, <1>4 DEF RunSlot, Walking
<1> QED
  BY <1>1, <1>2, <1>3, <1>5, RunAlone

(* Nothing is deleted, and pulling starts where the cursor is.              *)
LEMMA ReconciledKeeps ==
  ASSUME Shape, Shape', AloneInv, AtWorkSaved, LiveInv, KeptInv, RunInv, NEW d \in Device, NEW r \in Run, Reconciled(d, r)
  PROVE  KeptInv' /\ RunInv'
<1>1. /\ log' = log /\ Grown /\ LocalMove(d) /\ settings' = settings
      /\ mem'[d] = WithoutDeleted(mem[d], AcceptedOf(d, r))
      /\ RunMove(d, r, "asking", sent[d][r], answers[d][r], todo[d][r], verdict[d][r], settings[d].cursor)
      /\ pc[d][r] = "reconciling" /\ todo[d][r] = {}
  BY ReconciledMoves, SameLog DEF MemTo
<1>2. \A o \in Object : mem[d][o] = mem'[d][o]
  BY <1>1 DEF WithoutDeleted, LiveInv, LiveTable
<1>3. CoveredTo(log', Kept(d)', settings'[d].cursor)
  BY <1>1, <1>2, UpheldSame, SettledUpheld DEF KeptInv
<1>4. pc'[d][r] = "asking" /\ todo'[d][r] = {} /\ at'[d][r] = settings[d].cursor /\ Elsewhere(d, r)
  BY <1>1 DEF RunMove
<1>5. WalkOK(log', Kept(d)', {}, settings[d].cursor)
  BY <1>1, <1>3 DEF WalkOK, CoveredTo
<1>6. settings[d].cursor \in Nat
  BY LogParts
<1>7. RunSlot(d, r)'
  BY <1>1, <1>4, <1>5, <1>6 DEF RunSlot, Newest
<1> QED
  BY <1>1, <1>3, <1>4, <1>7, RunAlone

(* A page is what comes after the cursor.                                   *)
LEMMA PullKeeps ==
  ASSUME Shape, Shape', KeptInv, RunInv, NEW d \in Device, NEW r \in Run, Pull(d, r)
  PROVE  KeptInv' /\ RunInv'
<1>0. /\ log' = log /\ Grown /\ UNCHANGED local /\ pc[d][r] = "asking" /\ todo[d][r] = {}
      /\ verdict[d][r] = "none"
  <2>1. Still /\ UNCHANGED local /\ pc[d][r] = "asking"
    BY PullMoves
  <2> QED
    BY <2>1, SameLog, QuietTodo DEF Phases
<1> DEFINE b == at[d][r]
           c == settings[d].cursor
<1>1. b \in Nat /\ c \in Nat /\ Len(log) \in Nat /\ c <= b /\ WalkOK(log, Kept(d), {}, b) /\ b <= Len(log)
  BY <1>0, RunParts, LogParts DEF RunInv, RunSlot, Walking, WalkOK, Shape, Cursors
<1>2. PICK last \in Nat :
        /\ last <= Len(log) /\ b <= last
        /\ RunMove(d, r, "pulling", sent[d][r], answers[d][r], (b + 1) .. last, verdict[d][r], last)
  BY <1>1, PullMoves
<1>3. /\ pc'[d][r] = "pulling" /\ todo'[d][r] = (b + 1) .. last /\ at'[d][r] = last
      /\ verdict'[d][r] = "none" /\ Elsewhere(d, r)
  BY <1>0, <1>2 DEF RunMove
<1> HIDE DEF b, c
<1>4. Kept(d)' = Kept(d) /\ settings' = settings
  BY <1>0 DEF local, Kept, Persisted
<1>5. ASSUME NEW y \in 1 .. last PROVE SeenAt(log, Kept(d), y, last) \/ Later(log, (b + 1) .. last, y)
  <2>1. y \in DOMAIN log /\ y \in Nat
    BY <1>1, <1>2, LogParts
  <2>2. CASE b < y
    <3>1. y \in (b + 1) .. last
      BY <1>1, <1>2, <2>1, <2>2
    <3> QED
      BY <2>1, <3>1 DEF Later
  <2>3. CASE y <= b
    <3>1. SeenAt(log, Kept(d), y, b)
      <4>1. y \in 1 .. b
        BY <1>1, <2>1, <2>3
      <4> QED
        BY <1>1, <4>1 DEF WalkOK, Later
    <3>2. CASE Kept(d)[log[y].object] # Absent
      BY <3>1, <3>2 DEF SeenAt
    <3>3. CASE Kept(d)[log[y].object] = Absent
      <4>1. PICK x \in DOMAIN log : log[x].object = log[y].object /\ b < x
        BY <3>1, <3>3 DEF SeenAt
      <4>2. x \in Nat
        BY LogParts
      <4>3. CASE last < x
        BY <3>3, <4>1, <4>3 DEF SeenAt
      <4>4. CASE x <= last
        <5>1. x \in (b + 1) .. last /\ y <= x
          BY <1>1, <1>2, <2>1, <2>3, <4>1, <4>2, <4>4
        <5> QED
          BY <4>1, <5>1 DEF Later
      <4> QED
        BY <1>2, <4>2, <4>3, <4>4
    <3> QED
      BY <3>2, <3>3
  <2> QED
    BY <1>1, <2>1, <2>2, <2>3
<1>6. WalkOK(log, Kept(d), (b + 1) .. last, last)
  <2>1. ASSUME NEW id \in (b + 1) .. last, NEW y \in DOMAIN log, id < y, y <= last
        PROVE  y \in (b + 1) .. last
    <3>1. y \in Nat
      BY LogParts
    <3> QED
      BY <1>1, <2>1, <3>1
  <2> QED
    BY <1>2, <1>5, <2>1 DEF WalkOK
<1>7. Newest(log, (b + 1) .. last, c)
  <2>1. \A id \in (b + 1) .. last, x \in DOMAIN log : x <= c => x <= id
    BY <1>1, <1>2, LogParts
  <2> QED
    BY <2>1 DEF Newest
<1>8. c <= last
  BY <1>1, <1>2
<1>9. \A t, n : DecidedOK(log, t, "none", n)
  BY DEF DecidedOK
<1>10. RunSlot(d, r)'
  BY <1>0, <1>3, <1>4, <1>6, <1>7, <1>8, <1>9 DEF RunSlot, c
<1> QED
  BY <1>0, <1>3, <1>10, RunOnly

LEMMA AppliedKeeps ==
  ASSUME Shape, Shape', KeptInv, RunInv, NEW d \in Device, NEW r \in Run, Applied(d, r)
  PROVE  KeptInv' /\ RunInv'
<1>1. PICK p \in {"asking", "acking"} :
        RunMove(d, r, p, sent[d][r], answers[d][r], todo[d][r], verdict[d][r], at[d][r])
  BY AppliedMoves
<1>2. log' = log /\ Grown /\ UNCHANGED local
  BY AppliedMoves, SameLog
<1>3. pc[d][r] \in {"pulling", "restoring"} /\ todo[d][r] = {}
  BY DEF Applied, NothingLeft
<1>4. pc'[d][r] = p /\ todo'[d][r] = {} /\ at'[d][r] = at[d][r] /\ Elsewhere(d, r)
  BY <1>1, <1>3 DEF RunMove
<1>5. Kept(d)' = Kept(d) /\ settings' = settings
  BY <1>2 DEF local, Kept, Persisted
<1>6. settings[d].cursor <= at[d][r] /\ WalkOK(log, Kept(d), {}, at[d][r])
  BY <1>3 DEF RunInv, RunSlot, Walking
<1>7. RunSlot(d, r)'
  BY <1>2, <1>4, <1>5, <1>6 DEF RunSlot, Newest
<1> QED
  BY <1>2, <1>4, <1>7, RunOnly

(* The cursor is saved when the walk is over.                               *)
LEMMA WalkIsOver ==
  ASSUME NEW l, NEW t, NEW c, WalkOK(l, t, {}, c)
  PROVE  CoveredTo(l, t, c)
BY DEF WalkOK, CoveredTo, Later

LEMMA OverQuiet ==
  ASSUME NEW d \in Device, NEW r \in Run, Over(d, r)
  PROVE  RunSlot(d, r)' /\ Elsewhere(d, r)
<1>1. pc'[d][r] = "idle" /\ todo'[d][r] = {} /\ Elsewhere(d, r)
  BY DEF Over, RunMove
<1> QED
  BY <1>1, QuietRun DEF Walking

LEMMA FinishKeeps ==
  ASSUME Shape, Shape', AloneInv, AtWorkSaved, KeptInv, RunInv, NEW d \in Device, NEW r \in Run,
         Finish(d, r) \/ Bound(d, r)
  PROVE  KeptInv' /\ RunInv'
<1>1. /\ Still /\ Over(d, r) /\ pc[d][r] \in {"acking", "wrapping"} /\ mem' = mem /\ LocalMove(d)
      /\ settings'[d].cursor = at[d][r]
  <2>1. CASE Finish(d, r)
    <3> DEFINE x == [settings[d] EXCEPT !.cursor = at[d][r], !.synced = TRUE]
    <3>1. settings[d] \in SettingsType
      BY DEF Shape, LocalOK
    <3>2. x.cursor = at[d][r]
      BY <3>1 DEF SettingsType
    <3>3. Still /\ Over(d, r) /\ pc[d][r] = "acking" /\ NewSettings(d, x)
      BY <2>1, FinishMoves
    <3>4. mem' = mem /\ LocalMove(d) /\ settings'[d] = x
      BY <3>3 DEF NewSettings
    <3>5. settings'[d].cursor = at[d][r]
      BY <3>2, <3>4
    <3> QED
      BY <3>3, <3>4, <3>5
  <2>2. CASE Bound(d, r)
    <3> DEFINE x == [cursor |-> at[d][r], synced |-> repaired[d][r], bound |-> TRUE]
    <3>1. x.cursor = at[d][r]
      OBVIOUS
    <3>2. Still /\ Over(d, r) /\ pc[d][r] = "wrapping" /\ NewSettings(d, x)
      BY <2>2, BoundMoves
    <3> HIDE DEF x
    <3>3. mem' = mem /\ LocalMove(d) /\ settings'[d] = x
      BY <3>2 DEF NewSettings
    <3>4. settings'[d].cursor = at[d][r]
      BY <3>1, <3>3
    <3> QED
      BY <3>2, <3>3, <3>4
  <2> QED
    BY <2>1, <2>2
<1>2. log' = log /\ Grown /\ todo[d][r] = {}
  BY <1>1, SameLog, QuietTodo DEF Phases
<1>3. WalkOK(log, Kept(d), {}, at[d][r]) /\ at[d][r] \in Nat
  BY <1>1, <1>2, RunParts DEF RunInv, RunSlot, Walking, Shape, Cursors
<1>4. CoveredTo(log, Kept(d), at[d][r])
  BY <1>3, WalkIsOver
<1>5. Upheld(log, Kept(d), Kept(d)')
  BY <1>1, KeptUpheld, UpheldSame
<1>6. CoveredTo(log', Kept(d)', settings'[d].cursor)
  BY <1>1, <1>2, <1>3, <1>4, <1>5, CoveredUpheld
<1>7. CoveredTo(log', Kept(d)', settings[d].cursor)
  <2>1. CoveredTo(log, Kept(d), settings[d].cursor) /\ settings[d].cursor \in Nat
    BY LogParts DEF KeptInv, KeptOf
  <2> QED
    BY <1>2, <1>5, <2>1, CoveredUpheld
<1> QED
  BY <1>1, <1>2, <1>6, <1>7, OverQuiet, RunAlone

(* What the account has not is reset, and no event is about it.             *)
LEMMA ComparedKeeps ==
  ASSUME Shape, Shape', AloneInv, AtWorkSaved, KeptInv, RunInv, NEW d \in Device, NEW r \in Run, Compared(d, r)
  PROVE  KeptInv' /\ RunInv'
<1> DEFINE b == at[d][r]
           c == settings[d].cursor
<1>1. /\ log' = log /\ Grown /\ LocalMove(d) /\ settings' = settings
      /\ mem'[d] = MissingReset(mem[d], b)
      /\ RunMove(d, r, "wrapping", sent[d][r], answers[d][r], todo[d][r], verdict[d][r], b)
      /\ pc[d][r] = "binding" /\ todo[d][r] = {}
  BY ComparedMoves, SameLog DEF MemTo
<1>2. b \in Nat /\ c \in Nat /\ c <= b /\ b <= Len(log) /\ WalkOK(log, Kept(d), {}, b)
  BY <1>1, LogParts, RunParts DEF RunInv, RunSlot, Walking, WalkOK, Shape, Cursors
<1>3. ASSUME NEW y \in 1 .. b
      PROVE  y \in DOMAIN log /\ Kept(d)'[log[y].object] = Kept(d)[log[y].object]
  <2>1. y \in DOMAIN log /\ log[y].object \in Object
    BY <1>2, LogParts
  <2>2. mem'[d][log[y].object] = mem[d][log[y].object]
    BY <1>1, <2>1 DEF MissingReset, ObjectAt
  <2> QED
    BY <1>1, <2>1, <2>2, KeptMove
<1>4. WalkOK(log, Kept(d)', {}, b)
  BY <1>2, <1>3 DEF WalkOK, SeenAt, Later
<1>5. CoveredTo(log, Kept(d)', c)
  <2>1. CoveredTo(log, Kept(d), c)
    BY DEF KeptInv, KeptOf
  <2>2. \A y \in 1 .. c : y \in 1 .. b
    BY <1>2
  <2> QED
    BY <1>3, <2>1, <2>2 DEF CoveredTo, SeenAt
<1>6. pc'[d][r] = "wrapping" /\ todo'[d][r] = {} /\ at'[d][r] = b /\ Elsewhere(d, r)
  BY <1>1 DEF RunMove
<1>7. RunSlot(d, r)'
  BY <1>1, <1>2, <1>4, <1>6 DEF RunSlot, Newest
<1> QED
  BY <1>1, <1>5, <1>6, <1>7, RunAlone

(* A refused operation is told the latest event of its object.              *)
LEMMA ServeKeeps ==
  ASSUME Shape, Shape', KeptInv, RunInv, NEW d \in Device, NEW r \in Run,
         NEW op \in sent[d][r], Serve(d, r, op), PushInv
  PROVE  KeptInv' /\ RunInv'
<1>1. /\ op \in Operation /\ Served(op) /\ UNCHANGED local
      /\ RunMove(d, r, pc[d][r], sent[d][r] \ {op}, answers[d][r] \cup {Answer(op)}, todo[d][r],
                 verdict[d][r], at[d][r])
  BY ServeMoves
<1>2. Grown /\ pc[d][r] = "pushing" /\ todo[d][r] = {}
  <2>1. RemoteOK /\ strays' \subseteq Operation
    BY DEF Shape, RemoteOK
  <2>2. pc[d][r] = "pushing"
    BY DEF PushInv, PushSlot
  <2> QED
    BY <1>1, <2>1, <2>2, ServedGrows, QuietTodo DEF Phases
<1>3. /\ pc'[d][r] = "pushing" /\ todo'[d][r] = {} /\ Elsewhere(d, r)
      /\ answers'[d][r] = answers[d][r] \cup {Answer(op)}
  BY <1>1, <1>2 DEF RunMove
<1> DEFINE c == settings[d].cursor
<1>4. c \in Nat /\ c <= Len(log) /\ settings' = settings
  BY <1>1, LogParts DEF KeptInv, KeptOf, CoveredTo, local
<1>5. NewestAnswers(log', ConflictsOf(d, r), c)
  <2>1. NewestAnswers(log, ConflictsOf(d, r), c)
    BY <1>2 DEF RunInv, RunSlot
  <2> QED
    BY <1>2, <1>4, <2>1, AnswersGrow
<1>6. ASSUME Answer(op).kind = "conflict", NEW x \in DOMAIN log', log'[x].object = Answer(op).object
      PROVE  x <= Answer(op).id
  <2>1. ~BaseIsCurrent(op)
    BY <1>1, <1>6, AnswerTypes
  <2>2. log' = log
    BY <1>1, <2>1 DEF Served
  <2>3. Answer(op).object = op.object /\ \A z \in EventsOf(op.object) : z <= Answer(op).id
    BY <1>1, <1>6, AnswerTypes
  <2>4. x \in EventsOf(op.object)
    BY <1>6, <2>2, <2>3 DEF EventsOf, ObjectAt
  <2> QED
    BY <2>3, <2>4
<1>7. NewestAnswers(log', ConflictsOf(d, r)', c)
  <2>1. \A a \in ConflictsOf(d, r)' : a \in ConflictsOf(d, r) \/ (a = Answer(op) /\ a.kind = "conflict")
    BY <1>3 DEF ConflictsOf
  <2> QED
    BY <1>5, <1>6, <2>1 DEF NewestAnswers
<1>8. RunSlot(d, r)'
  BY <1>3, <1>4, <1>7 DEF RunSlot, Walking, Newest
<1> QED
  BY <1>1, <1>2, <1>3, <1>8, RunOnly

LEMMA StepKeeps ==
  ASSUME Shape, Shape', LogInv, AloneInv, AtWorkSaved, PushInv, LiveInv, KeptInv, RunInv,
         NEW d \in Device, NEW r \in Run, Step(d, r)
  PROVE  KeptInv' /\ RunInv'
<1>1. CASE Examine(d, r) \/ Act(d, r) \/ Repaired(d, r) \/ Reset(d, r)
  BY <1>1, ExamineKeeps, ActKeeps, RepairedKeeps, ResetKeeps
<1>2. CASE Restore(d, r) \/ Push(d, r) \/ Receive(d, r) \/ Reconciled(d, r)
  BY <1>2, SnapshotKeeps, PushKeeps, ReceiveKeeps, ReconciledKeeps
<1>3. CASE Pull(d, r) \/ Applied(d, r) \/ Finish(d, r) \/ Bound(d, r) \/ Compared(d, r)
  BY <1>3, PullKeeps, AppliedKeeps, FinishKeeps, ComparedKeeps
<1>4. CASE \E op \in sent[d][r] : Serve(d, r, op)
  BY <1>4, ServeKeeps
<1> QED
  BY <1>1, <1>2, <1>3, <1>4 DEF Step

-----------------------------------------------------------------------------
(* The users, the server and the world around a run.                        *)
LEMMA UserUpheld ==
  ASSUME Shape, LogInv, RecordsInv, "conflicted" \notin EditStates, NEW d \in Device, UserMove(d)
  PROVE  Upheld(log, mem[d], mem'[d])
<1> SUFFICES ASSUME NEW o \in Object PROVE Keeps(log, o, mem[d][o], mem'[d][o])
  BY DEF Upheld
<1>1. CASE mem'[d][o] = mem[d][o]
  BY <1>1 DEF Keeps
<1>2. CASE IsNew(d, o)
  <2>1. \A x \in DOMAIN log : log[x].object # o
    BY <1>2 DEF IsNew, LogInv, ObjectAt, VersionAt
  <2> QED
    BY <1>2, <2>1 DEF Keeps, IsNew
<1>3. CASE IsChanged(d, o)
  <2> DEFINE a == mem[d][o]
             b == mem'[d][o]
  <2>1. a \in Record /\ EditsOK /\ a.state \in EditStates
    BY <1>3, LocalParts DEF IsChanged, Shape
  <2>2. a.revision \in Nat /\ a.base \in Nat /\ a.state \in {"clean", "dirty"} /\ a # Absent
    BY <2>1, FieldTypes
  <2>3. a.state = "dirty" => a.revision = a.base + 1
    BY <2>2 DEF RecordsInv, GoodTable, GoodRecord
  <2>4. b = Changed(a, FALSE) \/ b = Changed(a, TRUE)
    BY <1>3 DEF IsChanged
  <2> HIDE DEF a, b
  <2>5. b \in Record /\ b.base = a.revision /\ b.state = "dirty"
    BY <2>1, <2>4, ChangedBoth, Zenon
  <2>6. ASSUME NEW x \in DOMAIN log, SeenRecord(log, a, x) PROVE SeenRecord(log, b, x)
    <3>1. log[x].version.revision \in Nat /\ b # Absent
      BY <2>5, LogParts, FieldTypes
    <3>2. log[x].version.revision <= a.revision
      BY <2>2, <2>3, <2>6, <3>1 DEF SeenRecord
    <3> QED
      BY <2>5, <3>1, <3>2 DEF SeenRecord
  <2>7. b # Absent
    BY <2>5, FieldTypes
  <2> QED
    BY <2>2, <2>6, <2>7 DEF Keeps, a, b
<1> QED
  BY <1>1, <1>2, <1>3 DEF UserMove

(* The store of one device changes, what its run is at does not, or ends.   *)
LEMMA StoreKeeps ==
  ASSUME Shape, Shape', Grown, KeptInv, RunInv, NEW d \in Device, LocalMove(d), UNCHANGED run,
         settings'[d].cursor \in {settings[d].cursor, 0}, Upheld(log, mem[d], mem'[d])
  PROVE  KeptInv' /\ RunInv'
<1>0. Upheld(log, Kept(d), Kept(d)')
  BY KeptUpheld
<1>1. ASSUME NEW e \in Device, e # d
      PROVE  /\ mem'[e] = mem[e] /\ disk'[e] = disk[e] /\ settings'[e] = settings[e] /\ saved'[e] = saved[e]
             /\ KeptOf(e)' /\ Kept(e)' = Kept(e)
  <2>1. mem'[e] = mem[e] /\ disk'[e] = disk[e] /\ settings'[e] = settings[e] /\ saved'[e] = saved[e]
    BY <1>1, LocalMoveType DEF Shape
  <2> QED
    BY <2>1, KeptStays DEF KeptInv
<1>2. CoveredTo(log', Kept(d)', settings'[d].cursor)
  <2>1. CASE settings'[d].cursor = settings[d].cursor
    BY <2>1, SettledUpheld DEF KeptInv
  <2>2. CASE settings'[d].cursor = 0
    <3>1. Len(log') \in Nat
      BY DEF Shape, RemoteOK
    <3> QED
      BY <2>2, <3>1 DEF CoveredTo
  <2> QED
    BY <2>1, <2>2
<1>3. KeptOf(d)'
  <2>1. CoveredTo(log, Kept(d), saved[d].cursor) /\ saved[d].cursor \in Nat
    BY LogParts DEF KeptInv, KeptOf
  <2>2. CoveredTo(log, Kept(d)', saved[d].cursor)
    BY <1>0, <2>1, CoveredUpheld
  <2>3. CoveredTo(log', Kept(d)', saved[d].cursor)
    BY <2>1, <2>2, CoveredGrows
  <2> QED
    BY <1>2, <2>3, KeptAfter DEF KeptInv
<1>4. ASSUME NEW e \in Device, NEW s \in Run PROVE RunSlot(e, s)'
  <2>1. /\ pc'[e][s] = pc[e][s] /\ todo'[e][s] = todo[e][s] /\ verdict'[e][s] = verdict[e][s]
        /\ at'[e][s] = at[e][s] /\ answers'[e][s] = answers[e][s] /\ RunSlot(e, s)
    BY DEF run, RunInv
  <2>2. /\ settings'[e].cursor \in {settings[e].cursor, 0}
        /\ Upheld(log, mem[e], mem'[e]) /\ Upheld(log, Kept(e), Kept(e)')
    <3>1. CASE e = d
      BY <1>0, <3>1
    <3>2. CASE e # d
      BY <1>1, <3>2, UpheldSame
    <3> QED
      BY <3>1, <3>2
  <2> QED
    BY <2>1, <2>2, SlotStays
<1> QED
  BY <1>1, <1>3, <1>4 DEF KeptInv, RunInv

LEMMA RefusedKeeps ==
  ASSUME Shape, Shape', AloneInv, AtWorkSaved, KeptInv, RunInv, NEW d \in Device, NEW r \in Run, Refused(d, r)
  PROVE  KeptInv' /\ RunInv'
<1>1. Still /\ Over(d, r) /\ LocalMove(d) /\ mem' = mem /\ settings'[d] = Unbound /\ pc[d][r] # "idle"
  BY RefusedMoves DEF NewSettings, Refused
<1>2. settings'[d].cursor = 0 /\ log' = log /\ Grown /\ Len(log') \in Nat
  BY <1>1, SameLog DEF Unbound, Shape, RemoteOK
<1>3. CoveredTo(log', Kept(d)', settings'[d].cursor)
  BY <1>2 DEF CoveredTo
<1>4. CoveredTo(log', Kept(d)', settings[d].cursor)
  <2>1. CoveredTo(log, Kept(d), settings[d].cursor) /\ settings[d].cursor \in Nat
    BY LogParts DEF KeptInv, KeptOf
  <2>2. Upheld(log, Kept(d), Kept(d)')
    BY <1>1, KeptUpheld, UpheldSame
  <2> QED
    BY <1>2, <2>1, <2>2, CoveredUpheld
<1> QED
  BY <1>1, <1>2, <1>3, <1>4, OverQuiet, RunAlone

LEMMA FailKeeps ==
  ASSUME Shape, Shape', KeptInv, RunInv, NEW d \in Device, NEW r \in Run, Fail(d, r)
  PROVE  KeptInv' /\ RunInv'
<1>1. UNCHANGED <<log, local>> /\ Over(d, r)
  BY FailMoves
<1>2. Grown
  BY <1>1 DEF Grown
<1> QED
  BY <1>1, <1>2, OverQuiet, RunOnly

LEMMA RestartKeeps ==
  ASSUME Shape, Shape', KeptInv, RunInv, NEW d \in Device, Restart(d)
  PROVE  KeptInv' /\ RunInv'
<1>1. Restarted(d)
  BY RestartMoves
<1>2. log' = log /\ Grown /\ disk' = disk /\ saved' = saved
  BY <1>1 DEF Restarted, Grown
<1>3. ASSUME NEW e \in Device, e # d
      PROVE  mem'[e] = mem[e] /\ settings'[e] = settings[e] /\ KeptOf(e)' /\ Kept(e)' = Kept(e)
  <2>1. mem'[e] = mem[e] /\ disk'[e] = disk[e] /\ settings'[e] = settings[e] /\ saved'[e] = saved[e]
    BY <1>1, <1>2, <1>3 DEF Restarted
  <2> QED
    BY <1>2, <2>1, KeptStays DEF KeptInv
<1>4. KeptOf(d)'
  <2>1. mem'[d] = Loaded(d) /\ settings'[d] = saved[d]
    BY <1>1 DEF Restarted
  <2>2. \A o \in Object : Loaded(d)[o] = disk[d][o] \/ Loaded(d)[o] = Absent
    BY DEF Loaded
  <2>3. \A o \in Object : Kept(d)'[o] = disk[d][o]
    BY <1>2, <2>1, <2>2 DEF Kept, Persisted
  <2>4. Upheld(log, disk[d], Kept(d)')
    BY <2>3, UpheldSame
  <2>5. CoveredTo(log, disk[d], saved[d].cursor) /\ saved[d].cursor \in Nat
    BY LogParts DEF KeptInv, KeptOf
  <2>6. CoveredTo(log, Kept(d)', saved[d].cursor)
    BY <2>4, <2>5, CoveredUpheld
  <2> QED
    BY <1>2, <2>1, <2>5, <2>6 DEF KeptOf
<1>5. ASSUME NEW e \in Device, NEW s \in Run, e # d PROVE RunSlot(e, s)'
  <2>1. /\ pc'[e][s] = pc[e][s] /\ todo'[e][s] = todo[e][s] /\ verdict'[e][s] = verdict[e][s]
        /\ at'[e][s] = at[e][s] /\ answers'[e][s] = answers[e][s] /\ RunSlot(e, s)
    BY <1>1, <1>5 DEF Restarted, RunInv
  <2>2. /\ settings'[e].cursor \in {settings[e].cursor, 0}
        /\ Upheld(log, mem[e], mem'[e]) /\ Upheld(log, Kept(e), Kept(e)')
    BY <1>3, <1>5, UpheldSame
  <2> QED
    BY <1>2, <2>1, <2>2, SlotStays
<1>6. ASSUME NEW s \in Run PROVE RunSlot(d, s)'
  <2>1. pc'[d][s] = "idle" /\ todo'[d][s] = {}
    BY <1>1 DEF Restarted
  <2> QED
    BY <2>1, QuietRun DEF Walking
<1> QED
  BY <1>3, <1>4, <1>5, <1>6 DEF KeptInv, RunInv

LEMMA StrayKeeps ==
  ASSUME Shape, Shape', KeptInv, RunInv, NEW op \in strays, ServeStray(op)
  PROVE  KeptInv' /\ RunInv'
<1>1. op \in Operation /\ Served(op) /\ UNCHANGED <<local, run>> /\ strays' \subseteq Operation
  BY ServeStrayMoves
<1>2. Grown
  BY <1>1, ServedGrows DEF Shape
<1>3. ASSUME NEW e \in Device
      PROVE  /\ mem'[e] = mem[e] /\ settings'[e] = settings[e] /\ KeptOf(e)' /\ Kept(e)' = Kept(e)
  BY <1>1, <1>2, KeptStays DEF local, KeptInv
<1>4. ASSUME NEW e \in Device, NEW s \in Run PROVE RunSlot(e, s)'
  <2>1. /\ pc'[e][s] = pc[e][s] /\ todo'[e][s] = todo[e][s] /\ verdict'[e][s] = verdict[e][s]
        /\ at'[e][s] = at[e][s] /\ answers'[e][s] = answers[e][s] /\ RunSlot(e, s)
    BY <1>1 DEF run, RunInv
  <2>2. /\ settings'[e].cursor \in {settings[e].cursor, 0}
        /\ Upheld(log, mem[e], mem'[e]) /\ Upheld(log, Kept(e), Kept(e)')
    BY <1>3, UpheldSame
  <2> QED
    BY <1>2, <2>1, <2>2, SlotStays
<1> QED
  BY <1>3, <1>4 DEF KeptInv, RunInv

LEMMA KeptNext ==
  ASSUME Shape, Shape', LogInv, AloneInv, AtWorkSaved, RecordsInv, PushInv, LiveInv, KeptInv, RunInv,
         "conflicted" \notin EditStates, Move
  PROVE  KeptInv' /\ RunInv'
<1>1. ASSUME NEW d \in Device, Change(d) PROVE KeptInv' /\ RunInv'
  <2>1. UserMove(d)
    BY <1>1, UserMoves
  <2>2. LocalMove(d) /\ UNCHANGED run /\ settings' = settings /\ Grown
    BY <2>1 DEF UserMove, remote, Grown
  <2> QED
    BY <2>1, <2>2, UserUpheld, StoreKeeps
<1>2. ASSUME NEW d \in Device, Disconnect(d) PROVE KeptInv' /\ RunInv'
  <2>1. Still /\ UNCHANGED run /\ LocalMove(d) /\ mem' = mem /\ settings'[d].cursor = 0
    BY <1>2, DisconnectMoves DEF NewSettings, Unbound
  <2> QED
    BY <2>1, SameLog, UpheldSame, StoreKeeps
<1>3. ASSUME NEW d \in Device, NEW r \in Run, Start(d, r) \/ Bind(d, r) PROVE KeptInv' /\ RunInv'
  BY <1>3, SnapshotKeeps
<1> QED
  BY <1>1, <1>2, <1>3, RestartKeeps, StepKeeps, FailKeeps, RefusedKeeps, StrayKeeps DEF Move

-----------------------------------------------------------------------------
(* Without deletions there is no tombstone anywhere.                        *)
Alive(record) == record # Absent => ~record.content.deleted

LEMMA AliveStep ==
  ASSUME Shape, LiveInv, NEW d \in Device, NEW r \in Run, Step(d, r), NEW o \in Object
  PROVE  Alive(mem'[d][o])
<1>0. /\ LocalOK /\ RunOK /\ mem[d] \in Table
      /\ \A x \in Object : /\ Alive(mem[d][x])
                           /\ mem[d][x] # Absent => ~mem[d][x].content.deleted /\ mem[d][x] \in Record
  BY LocalParts DEF Shape, LiveInv, LiveTable, Alive
<1>n. \A c : NewRecord(c).content = c
  BY DEF NewRecord
<1>c. \A t \in Table, x \in Object : Alive(t[o]) => Alive(MarkedConflicted(t, x)[o])
  <2> SUFFICES ASSUME NEW t \in Table, NEW x \in Object, Alive(t[o]) PROVE Alive(MarkedConflicted(t, x)[o])
    OBVIOUS
  <2>1. x # o => MarkedConflicted(t, x)[o] = t[o]
    BY DEF MarkedConflicted, Table
  <2>2. MarkedConflicted(t, o)[o] = IF t[o] = Absent THEN t[o] ELSE [t[o] EXCEPT !.state = "conflicted"]
    BY DEF MarkedConflicted, Table
  <2>3. t[o] # Absent => t[o] \in Record
    BY DEF Table
  <2>4. t[o] # Absent => [t[o] EXCEPT !.state = "conflicted"].content = t[o].content
    BY <2>3 DEF Record
  <2> QED
    BY <2>1, <2>2, <2>4 DEF Alive
<1>1. CASE \/ Examine(d, r) \/ Repaired(d, r) \/ Restore(d, r) \/ Push(d, r) \/ Pull(d, r)
           \/ Applied(d, r) \/ Finish(d, r) \/ Bound(d, r)
           \/ \E op \in sent[d][r] : Serve(d, r, op)
  <2>1. mem' = mem
    BY <1>1, ExamineMoves, RepairedMoves, RestoreMoves, PushMoves, PullMoves, AppliedMoves,
       FinishMoves, BoundMoves, ServeMoves DEF local, NewSettings
  <2> QED
    BY <1>0, <2>1
<1>2. CASE Act(d, r)
  <2> DEFINE n == Min(todo[d][r])
             x == ObjectAt(n)
  <2>1. /\ mem'[d] = Carried(d, verdict[d][r], n) /\ todo[d][r] # {}
        /\ verdict[d][r] \in {"apply", "conflict", "skip"}
    BY <1>2, ActMoves DEF MemTo
  <2>2. x \in Object /\ n \in DOMAIN log
    BY <2>1, NextInLog
  <2> HIDE DEF n
  <2>3. CASE verdict[d][r] = "apply"
    <3>1. mem'[d] = WithRemote(mem[d], x, VersionAt(n))
      BY <2>1, <2>3 DEF Carried
    <3>2. mem'[d][o] = mem[d][o] \/ mem'[d][o] = Absent \/ mem'[d][o] = CleanRecord(VersionAt(n))
      BY <1>0, <3>1 DEF WithRemote, Table
    <3>3. CleanRecord(VersionAt(n)).content = VersionAt(n).content
      BY DEF CleanRecord
    <3>4. ~VersionAt(n).content.deleted
      BY <2>2 DEF LiveInv, VersionAt
    <3> QED
      BY <1>0, <3>2, <3>3, <3>4 DEF Alive
  <2>4. CASE verdict[d][r] = "conflict"
    <3>1. mem'[d] = MarkedConflicted(mem[d], x)
      BY <2>1, <2>4 DEF Carried
    <3> QED
      BY <1>0, <1>c, <2>2, <3>1
  <2>5. CASE verdict[d][r] = "skip"
    BY <1>0, <2>1, <2>5 DEF Carried
  <2> QED
    BY <2>1, <2>3, <2>4, <2>5
<1>3. CASE Reset(d, r)
  <2>1. mem'[d] = ResetForUpload(mem[d])
    BY <1>3, ResetMoves DEF MemTo
  <2>2. mem'[d][o] = IF mem[d][o] = Absent THEN Absent ELSE NewRecord(mem[d][o].content)
    BY <2>1 DEF ResetForUpload
  <2> QED
    BY <1>0, <1>n, <2>2 DEF Alive
<1>4. CASE Receive(d, r)
  <2> DEFINE t == WithAccepted(mem[d], AcceptedOf(d, r))
  <2>1. mem'[d] = Received(d, r)
    BY <1>4, ReceiveMoves DEF MemTo
  <2>2. AcceptedOf(d, r) \in SUBSET AnswerType
    BY <1>0, RunParts DEF AcceptedOf, Answers
  <2>3. t \in Table
    BY <1>0, <2>2, TableTypes
  <2>4. Alive(t[o])
    <3>1. CASE mem[d][o] # Absent /\ \E a \in AcceptedOf(d, r) : a.object = o
      <4> DEFINE a == CHOOSE x \in AcceptedOf(d, r) : x.object = o
      <4>1. t[o] = [mem[d][o] EXCEPT !.revision = a.revision, !.base = a.revision, !.state = "clean"]
        BY <3>1 DEF WithAccepted
      <4> HIDE DEF a, t
      <4>2. t[o].content = mem[d][o].content
        BY <1>0, <3>1, <4>1 DEF Record
      <4> QED
        BY <1>0, <3>1, <4>2 DEF Alive
    <3>2. CASE ~(mem[d][o] # Absent /\ \E a \in AcceptedOf(d, r) : a.object = o)
      BY <1>0, <3>2 DEF WithAccepted
    <3> QED
      BY <3>1, <3>2
  <2>5. mem'[d][o] = t[o] \/ mem'[d][o] = MarkedConflicted(t, o)[o]
    BY <2>1 DEF Received
  <2> HIDE DEF t
  <2> QED
    BY <1>c, <2>3, <2>4, <2>5
<1>5. CASE Reconciled(d, r)
  <2>1. mem'[d] = WithoutDeleted(mem[d], AcceptedOf(d, r))
    BY <1>5, ReconciledMoves DEF MemTo
  <2>2. mem'[d][o] = mem[d][o] \/ mem'[d][o] = Absent
    BY <2>1 DEF WithoutDeleted
  <2> QED
    BY <1>0, <2>2 DEF Alive
<1>6. CASE Compared(d, r)
  <2>1. mem'[d] = MissingReset(mem[d], at[d][r])
    BY <1>6, ComparedMoves DEF MemTo
  <2>2. mem'[d][o] = mem[d][o] \/ (mem[d][o] # Absent /\ mem'[d][o] = NewRecord(mem[d][o].content))
    BY <2>1 DEF MissingReset
  <2> QED
    BY <1>0, <1>n, <2>2 DEF Alive
<1> QED
  BY <1>1, <1>2, <1>3, <1>4, <1>5, <1>6 DEF Step

LEMMA AliveUser ==
  ASSUME LiveInv, Deletable = {}, NEW d \in Device, UserMove(d), NEW o \in Object
  PROVE  Alive(mem'[d][o])
<1>1. Alive(mem[d][o])
  BY DEF LiveInv, LiveTable, Alive
<1>2. ~NextContent(FALSE).deleted
  BY DEF NextContent
<1>n. \A c : NewRecord(c).content = c
  BY DEF NewRecord
<1>c. \A record : Changed(record, FALSE).content = NextContent(FALSE)
  BY DEF Changed
<1>3. CASE IsNew(d, o)
  <2>1. mem'[d][o].content = NextContent(FALSE)
    BY <1>3, <1>n DEF IsNew
  <2> QED
    BY <1>2, <2>1 DEF Alive
<1>4. CASE IsChanged(d, o)
  <2>1. mem'[d][o] = Changed(mem[d][o], FALSE)
    BY <1>4 DEF IsChanged
  <2>2. mem'[d][o].content = NextContent(FALSE)
    BY <1>c, <2>1
  <2> QED
    BY <1>2, <2>2 DEF Alive
<1> QED
  BY <1>1, <1>3, <1>4 DEF UserMove

LEMMA AliveNext ==
  ASSUME Shape, LiveInv, Deletable = {}, Move, NEW e \in Device, NEW o \in Object
  PROVE  Alive(mem'[e][o])
<1>0. LocalOK /\ Alive(mem[e][o]) /\ Alive(disk[e][o])
  BY DEF Shape, LiveInv, LiveTable, Alive
<1>l. ASSUME NEW d \in Device, LocalMove(d), e # d PROVE Alive(mem'[e][o])
  BY <1>0, <1>l, LocalMoveType
<1>s. ASSUME mem' = mem PROVE Alive(mem'[e][o])
  BY <1>0, <1>s
<1>1. ASSUME NEW d \in Device, Change(d) PROVE Alive(mem'[e][o])
  <2>1. UserMove(d) /\ LocalMove(d)
    BY <1>1, UserMoves DEF UserMove
  <2> QED
    BY <1>l, <2>1, AliveUser
<1>2. ASSUME NEW d \in Device, Restart(d) PROVE Alive(mem'[e][o])
  <2>1. Restarted(d)
    BY <1>2, RestartMoves
  <2>2. Loaded(d)[o] = disk[d][o] \/ Loaded(d)[o] = Absent
    BY DEF Loaded
  <2> QED
    BY <1>0, <2>1, <2>2 DEF Restarted, Alive
<1>3. ASSUME NEW d \in Device, Disconnect(d) PROVE mem' = mem
  BY <1>3, DisconnectMoves DEF NewSettings
<1>4. ASSUME NEW d \in Device, NEW r \in Run, Refused(d, r) PROVE mem' = mem
  BY <1>4, RefusedMoves DEF NewSettings
<1>5. ASSUME NEW d \in Device, NEW r \in Run, Start(d, r) \/ Bind(d, r) \/ Fail(d, r) PROVE mem' = mem
  BY <1>5, StartMoves, BindMoves, FailMoves DEF local
<1>6. ASSUME NEW op \in strays, ServeStray(op) PROVE mem' = mem
  BY <1>6, ServeStrayMoves DEF local
<1>7. ASSUME NEW d \in Device, NEW r \in Run, Step(d, r) PROVE Alive(mem'[e][o])
  BY <1>7, <1>l, <1>s, AliveStep, StepLocal DEF local
<1> QED
  BY <1>s, <1>1, <1>2, <1>3, <1>4, <1>5, <1>6, <1>7 DEF Move

LEMMA LiveNext ==
  ASSUME Shape, LiveInv, Deletable = {}, Move
  PROVE  LiveInv'
<1>1. \A d \in Device : LiveTable(mem'[d]) /\ LiveTable(disk'[d])
  <2> SUFFICES ASSUME NEW d \in Device, NEW o \in Object PROVE Alive(mem'[d][o]) /\ Alive(disk'[d][o])
    BY DEF LiveTable, Alive
  <2>1. Alive(mem'[d][o])
    BY AliveNext
  <2>2. DiskFrom(d, o) /\ Alive(disk[d][o])
    BY RecordsFrom DEF LiveInv, LiveTable, Alive
  <2> QED
    BY <2>1, <2>2 DEF DiskFrom
<1>2. ASSUME NEW d \in Device, NEW r \in Run, NEW op \in sent'[d][r] PROVE ~op.content.deleted
  <2>1. op \in sent[d][r] \/ OfRecord(d, op)
    BY <1>2, OpsNext DEF OpsFrom
  <2> QED
    BY <2>1 DEF LiveInv, LiveOps, LiveTable, OfRecord
<1>3. ASSUME NEW op \in strays' PROVE ~op.content.deleted
  <2>1. op \in strays \/ \E d \in Device, r \in Run : op \in sent[d][r]
    BY <1>3, OpsNext DEF OpsFrom
  <2> QED
    BY <2>1 DEF LiveInv, LiveOps
<1>4. ASSUME NEW id \in DOMAIN log' PROVE ~log'[id].version.content.deleted
  <2>1. CASE UNCHANGED <<server, log>>
    BY <1>4, <2>1 DEF LiveInv
  <2>2. ASSUME NEW op \in Operation, Write(op), op \in strays \/ \E d \in Device, r \in Run : op \in sent[d][r]
        PROVE  ~log'[id].version.content.deleted
    <3>1. ~op.content.deleted
      BY <2>2 DEF LiveInv, LiveOps
    <3>2. CASE id \in DOMAIN log
      BY <2>2, <3>2, WriteParts DEF LiveInv
    <3>3. CASE id = Len(log) + 1
      <4> DEFINE n == server[op.object].revision + 1
      <4>1. /\ log'[id] = [object |-> op.object, version |-> server'[op.object]]
            /\ server'[op.object] = [revision |-> n, content |-> op.content]
        BY <2>2, <3>3, WriteParts
      <4> HIDE DEF n
      <4>2. log'[id].version = server'[op.object] /\ server'[op.object].content = op.content
        BY <4>1
      <4> QED
        BY <3>1, <4>2
    <3>4. DOMAIN log' = DOMAIN log \cup {Len(log) + 1}
      BY <2>2, WriteParts
    <3> QED
      BY <1>4, <3>2, <3>3, <3>4
  <2> QED
    BY <2>1, <2>2, RemoteNext
<1> QED
  BY <1>1, <1>2, <1>3, <1>4 DEF LiveInv, LiveOps

-----------------------------------------------------------------------------
LEMMA LiveInit == Init => LiveInv
<1> SUFFICES ASSUME Init PROVE LiveInv
  OBVIOUS
<1>1. PICK empty \in FirstSync : InitAccount(empty)
  BY DEF Init
<1>2. ~FirstContent.deleted
  BY DEF FirstContent
<1>3. \A id \in DOMAIN log : ~log[id].version.content.deleted
  <2>1. CASE empty
    BY <1>1, <2>1 DEF InitAccount
  <2>2. CASE ~empty
    <3>1. log = InitialLog
      BY <1>1, <2>2 DEF InitAccount
    <3>2. \A id \in DOMAIN log : log[id].version.content = FirstContent
      BY <3>1, FirstLog
    <3> QED
      BY <1>2, <3>2
  <2> QED
    BY <2>1, <2>2
<1>4. ASSUME NEW d \in Device, NEW o \in Object, InitialRecord(d, o, empty) # Absent
      PROVE  ~InitialRecord(d, o, empty).content.deleted
  <2>1. InitialRecord(d, o, empty).content = FirstContent
    BY <1>4 DEF InitialRecord, NewRecord, CleanRecord
  <2> QED
    BY <1>2, <2>1
<1>5. \A d \in Device, o \in Object : mem[d][o] = InitialRecord(d, o, empty)
  BY <1>1 DEF InitAccount
<1>6. \A d \in Device : LiveTable(mem[d])
  BY <1>4, <1>5 DEF LiveTable
<1>7. disk = mem /\ strays = {} /\ \A d \in Device, r \in Run : sent[d][r] = {}
  BY DEF Init
<1> QED
  BY <1>3, <1>6, <1>7 DEF LiveInv, LiveOps

LEMMA KeptInit == Init => KeptInv /\ RunInv
<1> SUFFICES ASSUME Init PROVE KeptInv /\ RunInv
  OBVIOUS
<1>0. Shape
  BY ShapeInit
<1>1. PICK empty \in FirstSync : InitAccount(empty)
  BY DEF Init
<1>2. disk = mem /\ saved = settings
  BY DEF Init
<1>3. ASSUME NEW d \in Device PROVE CoveredTo(log, mem[d], settings[d].cursor)
  <2>1. settings[d].cursor \in {0, Len(log)}
    BY <1>1 DEF InitAccount, Unbound
  <2>2. CASE settings[d].cursor = 0
    BY <1>0, <2>2, LogParts DEF CoveredTo
  <2>3. CASE settings[d].cursor = Len(log)
    <3>1. CASE empty
      <4>1. Len(log) = 0
        BY <1>1, <3>1 DEF InitAccount
      <4> QED
        BY <2>2, <2>3, <4>1
    <3>2. CASE ~empty
      <4> DEFINE v == [revision |-> 1, content |-> FirstContent]
      <4>1. log = InitialLog /\ \A o \in Object : mem[d][o] = InitialRecord(d, o, empty)
        BY <1>1, <3>2 DEF InitAccount
      <4>2. ASSUME NEW id \in DOMAIN log PROVE SeenAt(log, mem[d], id, Len(log))
        <5>1. log[id].object \in Stored /\ log[id].object \in Object /\ log[id].version = v
          BY <1>0, <4>1, <4>2, FirstLog, LogParts
        <5>2. mem[d][log[id].object] = CleanRecord(v)
          BY <3>2, <4>1, <5>1 DEF InitialRecord
        <5>3. CleanRecord(v) \in Record
          BY RecordTypes DEF VersionType
        <5>4. CleanRecord(v).state = "clean" /\ CleanRecord(v).revision = 1 /\ log[id].version.revision = 1
          BY <5>1 DEF CleanRecord
        <5>5. CleanRecord(v) # Absent
          BY <5>3, FieldTypes
        <5> HIDE DEF v
        <5> QED
          BY <5>2, <5>4, <5>5 DEF SeenAt, SeenRecord
      <4>3. Len(log) \in Nat /\ DOMAIN log = 1 .. Len(log)
        BY <1>0, LogParts
      <4> QED
        BY <2>3, <4>2, <4>3 DEF CoveredTo
    <3> QED
      BY <3>1, <3>2
  <2> QED
    BY <2>1, <2>2, <2>3
<1>4. ASSUME NEW d \in Device PROVE KeptOf(d)
  <2>1. \A o \in Object : Kept(d)[o] = mem[d][o]
    BY <1>2 DEF Kept, Persisted
  <2>2. Upheld(log, mem[d], Kept(d))
    BY <2>1, UpheldSame
  <2>3. settings[d].cursor \in Nat
    BY <1>0, LogParts
  <2>4. CoveredTo(log, Kept(d), settings[d].cursor)
    BY <1>0, <1>3, <2>2, <2>3, CoveredUpheld
  <2> QED
    BY <1>2, <1>3, <2>4 DEF KeptOf
<1>5. ASSUME NEW d \in Device, NEW r \in Run PROVE RunSlot(d, r)
  <2>1. pc[d][r] = "idle" /\ todo[d][r] = {}
    BY DEF Init
  <2> QED
    BY <2>1 DEF RunSlot, Walking, Newest
<1> QED
  BY <1>4, <1>5 DEF KeptInv, RunInv

SavedInv == unbinds \in Nat /\ LiveInv /\ AtWorkSaved /\ KeptInv /\ RunInv

LEMMA CoveredIsCovers ==
  ASSUME NEW t \in Table, NEW c \in Nat, Shape, CoveredTo(log, t, c)
  PROVE  Covers(t, c)
<1> SUFFICES ASSUME NEW id \in 1 .. c
             PROVE  LET record == t[ObjectAt(id)]
                    IN  IF record = Absent
                        THEN \E x \in EventsOf(ObjectAt(id)) :
                               x >= id /\ (x > c \/ VersionAt(x).content.deleted)
                        ELSE CASE record.state = "clean" -> record.revision >= VersionAt(id).revision
                               [] record.state = "dirty" -> record.base >= VersionAt(id).revision
                               [] record.state = "conflicted" -> TRUE
  BY DEF Covers
<1>1. id \in DOMAIN log /\ SeenAt(log, t, id, c) /\ id \in Nat /\ id <= c /\ DOMAIN log \subseteq Nat
  BY LogParts DEF CoveredTo
<1>2. CASE t[ObjectAt(id)] = Absent
  <2>1. PICK x \in DOMAIN log : log[x].object = log[id].object /\ c < x
    BY <1>1, <1>2 DEF SeenAt, ObjectAt
  <2>2. x \in EventsOf(ObjectAt(id)) /\ x >= id /\ x > c
    BY <1>1, <2>1 DEF EventsOf, ObjectAt
  <2> QED
    BY <1>2, <2>2
<1>3. CASE t[ObjectAt(id)] # Absent
  <2> DEFINE record == t[ObjectAt(id)]
  <2>1. log[id].object \in Object /\ VersionAt(id).revision \in Nat
    BY <1>1, LogParts DEF VersionAt
  <2>2. record \in Record
    BY <1>3, <2>1 DEF Table, ObjectAt
  <2>3. record.revision \in Nat /\ record.base \in Nat /\ record.state \in {"clean", "dirty", "conflicted"}
    BY <2>2, FieldTypes DEF SyncState
  <2>4. SeenRecord(log, record, id)
    BY <1>1, <1>3 DEF SeenAt, ObjectAt
  <2> HIDE DEF record
  <2>5. record.state = "clean" => record.revision >= VersionAt(id).revision
    BY <2>1, <2>3, <2>4 DEF SeenRecord, VersionAt
  <2>6. record.state = "dirty" => record.base >= VersionAt(id).revision
    BY <2>1, <2>3, <2>4 DEF SeenRecord, VersionAt
  <2> QED
    BY <1>3, <2>3, <2>5, <2>6 DEF record
<1> QED
  BY <1>2, <1>3

(* Saving ends with the settings and the records where they were to be.     *)
LEMMA SavesKeeps ==
  ASSUME Shape, AtWorkSaved, KeptInv, RunInv, Saves
  PROVE  AtWorkSaved' /\ KeptInv' /\ RunInv'
<1>1. \A d \in Device : Kept(d)' = Kept(d)
  BY DEF Saves, Kept, Persisted
<1>2. \A d \in Device : saved'[d] \in {saved[d], settings[d]}
  BY LocalParts DEF Saves, Shape
<1>3. AtWorkSaved'
  BY <1>2 DEF Saves, AtWorkSaved
<1>4. KeptInv'
  <2> SUFFICES ASSUME NEW d \in Device PROVE KeptOf(d)'
    BY DEF KeptInv
  <2>1. KeptOf(d) /\ Kept(d)' = Kept(d) /\ saved'[d] \in {saved[d], settings[d]}
    BY <1>1, <1>2 DEF KeptInv
  <2>2. log' = log /\ disk' = disk /\ settings' = settings
    BY DEF Saves
  <2> QED
    BY <2>1, <2>2 DEF KeptOf
<1>5. ASSUME NEW d \in Device, NEW r \in Run PROVE RunSlot(d, r)'
  <2>1. RunSlot(d, r) /\ ConflictsOf(d, r)' = ConflictsOf(d, r)
    BY DEF Saves, RunInv, ConflictsOf
  <2> QED
    BY <1>1, <2>1 DEF Saves, RunSlot
<1> QED
  BY <1>3, <1>4, <1>5 DEF RunInv

(* Nobody disconnects a device while it is at work.                         *)
NoneLeavesDuringRun == EditsDuringRun => MaxUnbinds = 0

(* The run that changes the settings is over.                               *)
LEMMA SavedWhenOver ==
  ASSUME AloneInv, AtWorkSaved, NEW d \in Device, NEW r \in Run, pc[d][r] # "idle", Over(d, r),
         saved' = saved, \A e \in Device \ {d} : settings'[e] = settings[e]
  PROVE  AtWorkSaved'
<1>1. \A s \in Run \ {r} : pc[d][s] = "idle"
  BY DEF AloneInv, Alone
<1>2. pc'[d][r] = "idle" /\ Elsewhere(d, r)
  BY DEF Over, RunMove
<1>3. \A e \in Device, s \in Run : e # d \/ s # r => pc'[e][s] = pc[e][s]
  BY <1>2 DEF Elsewhere
<1> QED
  BY <1>1, <1>2, <1>3 DEF AtWorkSaved

(* A step of one run does not concern the others: those of its device are   *)
(* idle.                                                                    *)
LEMMA StepElsewhere ==
  ASSUME Shape, PushInv, NEW d \in Device, NEW r \in Run, Step(d, r)
  PROVE  Elsewhere(d, r) /\ pc[d][r] # "idle"
<1>1. CASE \/ Examine(d, r) \/ Act(d, r) \/ Repaired(d, r) \/ Restore(d, r) \/ Push(d, r)
           \/ Receive(d, r) \/ Reconciled(d, r) \/ Pull(d, r) \/ Applied(d, r) \/ Compared(d, r)
  <2>1. Elsewhere(d, r)
    BY <1>1, ExamineMoves, ActMoves, RepairedMoves, RestoreMoves, PushMoves, ReceiveMoves,
       ReconciledMoves, PullMoves, AppliedMoves, ComparedMoves DEF RunMove
  <2>2. pc[d][r] # "idle"
    BY <1>1 DEF Examine, Act, Repaired, Restore, Push, Receive, Reconciled, Pull, Applied, Compared, Phases
  <2> QED
    BY <2>1, <2>2
<1>2. CASE Finish(d, r) \/ Bound(d, r)
  BY <1>2, FinishMoves, BoundMoves DEF Over, RunMove
<1>3. CASE Reset(d, r)
  BY <1>3, ResetMoves DEF Elsewhere, run
<1>4. ASSUME NEW op \in sent[d][r], Serve(d, r, op) PROVE Elsewhere(d, r) /\ pc[d][r] # "idle"
  <2>1. pc[d][r] = "pushing"
    BY <1>4 DEF PushInv, PushSlot
  <2> QED
    BY <1>4, <2>1, ServeMoves DEF RunMove
<1> QED
  BY <1>1, <1>2, <1>3, <1>4 DEF Step

LEMMA AtWorkSavedStep ==
  ASSUME Shape, AloneInv, PushInv, AtWorkSaved, NEW d \in Device, NEW r \in Run, Step(d, r)
  PROVE  AtWorkSaved'
<1>1. CASE Finish(d, r) \/ Bound(d, r)
  <2>1. LocalMove(d) /\ Over(d, r) /\ pc[d][r] # "idle"
    BY <1>1, FinishMoves, BoundMoves DEF NewSettings
  <2>2. saved' = saved /\ \A e \in Device \ {d} : settings'[e] = settings[e]
    BY <2>1, LocalMoveType DEF Shape
  <2> QED
    BY <2>1, <2>2, SavedWhenOver
<1>2. CASE ~(Finish(d, r) \/ Bound(d, r))
  <2>1. saved' = saved /\ settings' = settings
    BY <1>2 DEF Step, Examine, Act, Repaired, Reset, Restore, Push, Receive, Reconciled, Pull, Applied,
                Compared, Serve, Persist, local
  <2>2. pc[d][r] # "idle" /\ \A e \in Device, s \in Run : e # d \/ s # r => pc'[e][s] = pc[e][s]
    BY StepElsewhere DEF Elsewhere
  <2> QED
    BY <2>1, <2>2 DEF AtWorkSaved
<1> QED
  BY <1>1, <1>2

LEMMA AtWorkSavedNext ==
  ASSUME Manual = {}, NoneLeavesDuringRun, unbinds \in Nat,
         Shape, AloneInv, PushInv, AtWorkSaved, Move
  PROVE  AtWorkSaved'
<1>1. ASSUME NEW d \in Device, Change(d) PROVE AtWorkSaved'
  <2>1. settings' = settings /\ pc' = pc /\ saved' = saved
    BY <1>1, UserMoves DEF UserMove, Persist, run
  <2> QED
    BY <2>1 DEF AtWorkSaved
<1>2. ASSUME NEW d \in Device, Restart(d) PROVE AtWorkSaved'
  BY <1>2, RestartMoves DEF Restarted, AtWorkSaved
<1>3. ASSUME NEW d \in Device, Disconnect(d) PROVE AtWorkSaved'
  <2>1. Idle(d)
    BY <1>3 DEF Disconnect, NoneLeavesDuringRun, BoundAssumption
  <2>2. pc' = pc /\ LocalMove(d)
    BY <1>3, DisconnectMoves DEF run, NewSettings
  <2>3. saved' = saved /\ \A e \in Device \ {d} : settings'[e] = settings[e]
    BY <2>2, LocalMoveType DEF Shape
  <2> QED
    BY <2>1, <2>2, <2>3 DEF AtWorkSaved, Idle
<1>4. ASSUME NEW d \in Device, NEW r \in Run, Start(d, r) \/ Bind(d, r) PROVE AtWorkSaved'
  <2>1. saved[d] = settings[d] /\ saved' = saved /\ settings' = settings
    BY <1>4 DEF Start, Bind, Idle, local
  <2>2. \A e \in Device, s \in Run : e # d \/ s # r => pc'[e][s] = pc[e][s]
    BY <1>4, StartMoves, BindMoves DEF RunMove, Elsewhere
  <2> QED
    BY <2>1, <2>2 DEF AtWorkSaved
<1>5. ASSUME NEW d \in Device, NEW r \in Run, Fail(d, r) PROVE AtWorkSaved'
  BY <1>5, FailMoves, SavedWhenOver DEF Fail, local
<1>6. ASSUME NEW d \in Device, NEW r \in Run, Refused(d, r) PROVE AtWorkSaved'
  <2>1. LocalMove(d) /\ Over(d, r) /\ pc[d][r] # "idle"
    BY <1>6, RefusedMoves DEF NewSettings, Refused
  <2>2. saved' = saved /\ \A e \in Device \ {d} : settings'[e] = settings[e]
    BY <2>1, LocalMoveType DEF Shape
  <2> QED
    BY <2>1, <2>2, SavedWhenOver
<1>7. ASSUME NEW op \in strays, ServeStray(op) PROVE AtWorkSaved'
  <2>1. UNCHANGED local /\ pc' = pc
    BY <1>7, ServeStrayMoves DEF run
  <2> QED
    BY <2>1 DEF AtWorkSaved, local
<1> QED
  BY <1>1, <1>2, <1>3, <1>4, <1>5, <1>6, <1>7, AtWorkSavedStep DEF Move

LEMMA UnbindsNext ==
  ASSUME unbinds \in Nat, Move
  PROVE  unbinds' \in Nat
<1>1. ASSUME NEW d \in Device, Change(d) \/ Restart(d) \/ Disconnect(d) PROVE unbinds' \in Nat
  <2>1. ASSUME NEW o \in Object, EditItem(d, o) \/ Create(d, o) \/ DeleteVault(d, o)
        PROVE  unbinds' = unbinds
    BY <2>1 DEF EditItem, Create, DeleteVault, counts
  <2>2. CASE Restart(d) \/ Disconnect(d)
    BY <2>2 DEF Restart, Disconnect
  <2> QED
    BY <1>1, <2>1, <2>2 DEF Change
<1>2. ASSUME NEW d \in Device, NEW r \in Run, Start(d, r) \/ Bind(d, r) \/ Fail(d, r) \/ Refused(d, r)
      PROVE  unbinds' \in Nat
  BY <1>2 DEF Start, Bind, Fail, Refused, counts
<1>3. ASSUME NEW d \in Device, NEW r \in Run, Step(d, r) PROVE unbinds' \in Nat
  BY <1>3 DEF Step, Examine, Act, Repaired, Reset, Restore, Push, Receive, Reconciled, Pull, Applied,
              Finish, Compared, Bound, Serve, counts
<1>4. ASSUME NEW op \in strays, ServeStray(op) PROVE unbinds' \in Nat
  BY <1>4 DEF ServeStray, counts
<1> QED
  BY <1>1, <1>2, <1>3, <1>4 DEF Move

LEMMA SavedInvariant ==
  ASSUME Manual = {}, Untouched, NoneLeavesDuringRun, "conflicted" \notin EditStates, Deletable = {}
  PROVE  Spec => []SavedInv
<1>1. Init => SavedInv
  BY LiveInit, KeptInit DEF SavedInv, AtWorkSaved, Init
<1>2. CleanInv /\ CleanInv' /\ SavedInv /\ [Next]_vars => SavedInv'
  <2> SUFFICES ASSUME CleanInv, CleanInv', SavedInv, [Next]_vars PROVE SavedInv'
    OBVIOUS
  <2>0. /\ Shape /\ Shape' /\ LogInv /\ AloneInv /\ RecordsInv /\ PushInv
        /\ LiveInv /\ AtWorkSaved /\ KeptInv /\ RunInv /\ unbinds \in Nat
    BY DEF CleanInv, SavedInv
  <2>1. CASE Move
    <3>1. LiveInv'
      BY <2>0, <2>1, LiveNext
    <3>2. AtWorkSaved' /\ unbinds' \in Nat
      BY <2>0, <2>1, AtWorkSavedNext, UnbindsNext
    <3>3. KeptInv' /\ RunInv'
      BY <2>0, <2>1, KeptNext
    <3> QED
      BY <3>1, <3>2, <3>3 DEF SavedInv
  <2>2. CASE Saves
    <3>1. LiveInv' /\ unbinds' \in Nat
      BY <2>0, <2>2 DEF Saves, LiveInv, LiveTable, LiveOps
    <3>2. AtWorkSaved' /\ KeptInv' /\ RunInv'
      BY <2>0, <2>2, SavesKeeps
    <3> QED
      BY <3>1, <3>2 DEF SavedInv
  <2> QED
    BY <2>1, <2>2, MoveOrSaves
<1>3. Spec => []CleanInv
  BY CleanInvariant
<1> QED
  BY <1>1, <1>2, <1>3, PTL DEF Spec

(* What a restart finds on a device takes account of every event up to the  *)
(* cursor it finds there, whatever was pushed, refused, resolved, cut off,  *)
(* disconnected or bound again before, and wherever between the records and *)
(* the settings saving stopped, so no event is passed over.  The runs of a  *)
(* device follow one another, what waits for an answer is not edited, and   *)
(* the device not disconnected, meanwhile; nobody edits a conflict, and no  *)
(* vault is deleted: a record another device deleted is on the disk after it*)
(* left the memory.                                                         *)
THEOREM SavedCursorsMeanSeen ==
  ASSUME Manual = {}, Untouched, NoneLeavesDuringRun, "conflicted" \notin EditStates, Deletable = {}
  PROVE  Spec => []SavedCursorMeansSeen
<1>1. CleanInv /\ SavedInv => SavedCursorMeansSeen
  <2> SUFFICES ASSUME CleanInv, SavedInv, NEW d \in Device PROVE Covers(disk[d], saved[d].cursor)
    BY DEF SavedCursorMeansSeen
  <2>1. Shape /\ CoveredTo(log, disk[d], saved[d].cursor)
    BY DEF CleanInv, SavedInv, KeptInv, KeptOf
  <2>2. disk[d] \in Table /\ saved[d].cursor \in Nat
    BY <2>1, LocalParts, LogParts DEF Shape
  <2> QED
    BY <2>1, <2>2, CoveredIsCovers
<1>2. Spec => []CleanInv
  BY CleanInvariant
<1>3. Spec => []SavedInv
  BY SavedInvariant
<1> QED
  BY <1>1, <1>2, <1>3, PTL
===============================================================================
