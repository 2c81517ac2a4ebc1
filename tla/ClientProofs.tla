---------------------------- MODULE ClientProofs ----------------------------
(***************************************************************************)
(* The invariants of the clients: of a user's session on the desktop        *)
(* (VaultSession), of the page around it (DesktopLock) and of the worker of *)
(* the extension (Extension), for any users, vaults, items, values and      *)
(* requests, and any bounds.  The three specifications are proved about one *)
(* after the other and share nothing.                                       *)
(***************************************************************************)
EXTENDS VaultSession, DesktopLock, Extension,
        FiniteSetTheorems, SequenceTheorems, WellFoundedInduction, TLAPS

USE VaultSessionAssumption DEF VaultSessionAssumption

Event == [item : Item, by : {"this", "other"}]
Record == {Absent} \cup [revision : Nat, state : {"clean", "dirty", "conflicted"}]
Table == [Item -> Record]
LoadType ==
  [vaults : SUBSET Vault, session : Nat, items : Table, pc : {"idle", "read", "merge"}]
RunType ==
  [user : User \cup {NoUser}, session : Nat, space : User \cup {NoUser}, items : Table,
   cursor : Nat, events : SUBSET Nat,
   pc : {"idle", "load", "wait", "begin", "push", "pull", "page", "apply"}]

ServerOK == log \in Seq(Event)
StoreOK ==
  /\ disk \in Table /\ mem \in Table /\ diskCursor \in [User -> Nat] /\ profiles = diskCursor
  /\ user \in User /\ cursor = diskCursor[user]
  /\ \A u \in User : diskCursor[u] <= Len(log)
SessionOK ==
  /\ session \in Nat /\ sessions \in Nat /\ session <= sessions
  /\ ui \in {<<"unlocking">>, <<"loading">>} => session # 0
LoadOK ==
  /\ load \in LoadType /\ load.session <= sessions
  /\ load.pc # "idle" => load.session # 0

(* The page of events a run is at has all events of its user up to the      *)
(* run's cursor, but for those it has been through.                         *)
RunOK ==
  /\ run \in RunType
  /\ run.session <= sessions /\ (~Idle => run.session # 0)
  /\ run.cursor <= Len(log)
  /\ run.pc = "apply" => run.events # {}
  /\ run.pc \notin {"page", "apply"} => run.events = {}
  /\ \A n \in run.events : n \in Events /\ n <= run.cursor /\ Owner(log[n].item) = run.user
  /\ \A n \in run.events, m \in Events :
       n <= m /\ m <= run.cursor /\ Owner(log[m].item) = run.user => m \in run.events

SessionShape == ServerOK /\ StoreOK /\ SessionOK /\ LoadOK /\ RunOK

-----------------------------------------------------------------------------
(* Records and numbers                                                      *)
LEMMA RecordTypes ==
  /\ Absent \in Record /\ Nothing \in Table
  /\ \A r \in Nat : Clean(r) \in Record /\ Clean(r) # Absent
  /\ \A i \in Item : Owner(i) \in User /\ Nothing[i] = Absent
  /\ \A r \in Record : /\ r = [revision |-> r.revision, state |-> r.state]
                       /\ r.revision \in Nat /\ r.state \in {"none", "clean", "dirty", "conflicted"}
                       /\ r.state = "none" <=> r = Absent
BY DEF Absent, Nothing, Clean, Record, Table, Owner

LEMMA LeastOf ==
  ASSUME NEW S \in SUBSET Nat, S # {}
  PROVE  \E m \in S : \A s \in S : m <= s
<1>1. PICK m \in S : \A s \in S : ~ (<<s, m>> \in OpToRel(<, Nat))
  BY NatLessThanWellFounded, WFMin
<1>2. \A s \in S : m =< s
  <2> SUFFICES ASSUME NEW s \in S PROVE ~(s < m)
    OBVIOUS
  <2>1. <<s, m>> \in Nat \X Nat
    OBVIOUS
  <2>2. ~(<<s, m>> \in {ss \in Nat \X Nat : ss[1] < ss[2]})
    BY <1>1 DEF OpToRel
  <2> QED
    BY <2>1, <2>2
<1> QED
  BY <1>2

LEMMA GreatestOf ==
  ASSUME NEW k \in Nat, NEW S \in SUBSET (0..k), S # {}
  PROVE  \E m \in S : \A s \in S : s <= m
<1> DEFINE T == {k - s : s \in S}
<1>1. T \in SUBSET Nat /\ T # {}
  <2>1. \A s \in S : k - s \in Nat
    OBVIOUS
  <2>2. T \subseteq Nat
    BY <2>1
  <2>3. PICK s \in S : TRUE
    OBVIOUS
  <2>4. k - s \in T
    BY <2>3
  <2> QED
    BY <2>2, <2>4
<1>2. PICK t \in T : \A u \in T : t <= u
  <2> HIDE DEF T
  <2> QED
    BY <1>1, LeastOf
<1>3. PICK m \in S : t = k - m
  OBVIOUS
<1>4. \A s \in S : s <= m
  <2> SUFFICES ASSUME NEW s \in S PROVE s <= m
    OBVIOUS
  <2>1. k - s \in T
    OBVIOUS
  <2>2. k - m <= k - s /\ s \in 0..k /\ m \in 0..k
    BY <1>2, <1>3, <2>1
  <2> QED
    BY <2>2
<1> QED
  BY <1>4

LEMMA RevisionGrows ==
  ASSUME ServerOK, NEW m \in Events, NEW n \in Events, log[m].item = log[n].item, m <= n
  PROVE  RevisionAt(m) \in Nat /\ RevisionAt(n) \in Nat /\ RevisionAt(m) <= RevisionAt(n)
<1>1. m \in Nat /\ n \in Nat
  BY DEF ServerOK, Events
<1> DEFINE A == {k \in 1..m : log[k].item = log[m].item}
           B == {k \in 1..n : log[k].item = log[n].item}
<1>2. A \subseteq B
  BY <1>1
<1>3. IsFiniteSet(1..n) /\ B \subseteq 1..n
  BY <1>1, FS_Interval
<1>4. IsFiniteSet(B) /\ IsFiniteSet(A)
  BY <1>2, <1>3, FS_Subset
<1>5. Cardinality(A) \in Nat /\ Cardinality(B) \in Nat /\ Cardinality(A) <= Cardinality(B)
  BY <1>2, <1>4, FS_Subset, FS_CardinalityType
<1> QED
  BY <1>5 DEF RevisionAt

LEMMA RevisionsAreLatest ==
  ASSUME ServerOK, NEW n \in Events
  PROVE  /\ RevisionAt(n) \in Nat /\ Latest(log[n].item) \in Nat
         /\ RevisionAt(n) <= Latest(log[n].item) /\ Latest(log[n].item) # 0
<1>1. n \in Nat /\ Events = 1..Len(log) /\ Len(log) \in Nat /\ n <= Len(log)
  BY DEF ServerOK, Events
<1> DEFINE A == {k \in 1..n : log[k].item = log[n].item}
           B == {k \in Events : log[k].item = log[n].item}
<1>2. A \subseteq B /\ n \in B
  BY <1>1
<1>3. IsFiniteSet(Events) /\ B \subseteq Events
  BY <1>1, FS_Interval
<1>4. IsFiniteSet(B) /\ IsFiniteSet(A)
  BY <1>2, <1>3, FS_Subset
<1>5. Cardinality(A) \in Nat /\ Cardinality(B) \in Nat /\ Cardinality(A) <= Cardinality(B)
  BY <1>2, <1>4, FS_Subset, FS_CardinalityType
<1>6. Cardinality(B) # 0
  BY <1>2, <1>4, FS_EmptySet
<1> QED
  BY <1>5, <1>6 DEF RevisionAt, Latest

LEMMA EventTypes ==
  ASSUME ServerOK
  PROVE  /\ Events = 1..Len(log) /\ Len(log) \in Nat
         /\ \A n \in Events : /\ n \in Nat /\ n <= Len(log)
                              /\ log[n].item \in Item /\ RevisionAt(n) \in Nat
<1>1. Events = 1..Len(log) /\ Len(log) \in Nat
  BY DEF ServerOK, Events
<1>2. \A n \in Events : log[n] \in Event
  BY DEF ServerOK, Events
<1> QED
  BY <1>1, <1>2, RevisionsAreLatest DEF Event

LEMMA FirstIsLeast ==
  ASSUME ServerOK, RunOK, run.events # {}
  PROVE  /\ First \in run.events /\ \A n \in run.events : First <= n
         /\ First \in Events /\ First \in Nat /\ First <= run.cursor
         /\ log[First].item \in Item /\ RevisionAt(First) \in Nat
         /\ Owner(log[First].item) = run.user
<1>1. run.events \in SUBSET Nat
  BY DEF RunOK, RunType
<1>2. \E n \in run.events : \A m \in run.events : n <= m
  BY <1>1, LeastOf
<1>3. First \in run.events /\ \A n \in run.events : First <= n
  BY <1>2 DEF First
<1>4. First \in Events /\ First <= run.cursor /\ Owner(log[First].item) = run.user
  BY <1>3 DEF RunOK
<1> QED
  BY <1>3, <1>4, EventTypes

(* What is in the log stays there, with its revision.                       *)
Prefix ==
  /\ Len(log) \in Nat /\ Len(log') \in Nat /\ Len(log) <= Len(log')
  /\ \A n \in Events : n \in Events' /\ log'[n] = log[n] /\ RevisionAt(n)' = RevisionAt(n)
  /\ \A n \in Events' : n \in Nat /\ (n \notin Events => Len(log) < n)

LEMMA Appended ==
  ASSUME ServerOK, NEW e \in Event, log' = Append(log, e)
  PROVE  ServerOK' /\ Prefix
<1>1. ServerOK' /\ Len(log') = Len(log) + 1 /\ Len(log) \in Nat
  BY DEF ServerOK
<1>2. Events = 1..Len(log) /\ Events' = 1..Len(log')
  BY <1>1 DEF ServerOK, Events
<1>3. \A n \in Events : log'[n] = log[n]
  BY <1>2 DEF ServerOK
<1>4. ASSUME NEW n \in Events PROVE RevisionAt(n)' = RevisionAt(n)
  <2>1. n \in Nat /\ \A m \in 1..n : m \in Events
    BY <1>2, <1>1
  <2>2. {m \in 1..n : log'[m].item = log'[n].item} = {m \in 1..n : log[m].item = log[n].item}
    BY <1>3, <2>1
  <2> QED
    BY <2>2 DEF RevisionAt
<1>5. \A n \in Events' : n \in Nat /\ (n \notin Events => Len(log) < n)
  BY <1>1, <1>2
<1>6. Events \subseteq Events'
  BY <1>1, <1>2
<1>7. Len(log') \in Nat /\ Len(log) <= Len(log')
  BY <1>1
<1> QED
  BY <1>1, <1>3, <1>4, <1>5, <1>6, <1>7, Zenon DEF Prefix

LEMMA LogStep ==
  ASSUME ServerOK, RunOK, [Next]_vars
  PROVE  ServerOK' /\ Prefix
<1>1. CASE UNCHANGED log
  <2>1. \A n \in Events : RevisionAt(n)' = RevisionAt(n)
    BY <1>1 DEF RevisionAt
  <2>2. \A n \in Events : n \in Nat
    BY EventTypes
  <2> QED
    BY <1>1, <2>1, <2>2 DEF ServerOK, Prefix, Events
<1>2. ASSUME NEW i \in Item, PushItem(i) PROVE ServerOK' /\ Prefix
  <2>1. CASE UNCHANGED log
    BY <1>1, <2>1
  <2>2. CASE log' = Append(log, [item |-> i, by |-> "this"])
    BY <2>2, Appended DEF Event
  <2> QED
    BY <1>2, <2>1, <2>2 DEF PushItem
<1>3. ASSUME NEW i \in Item, OtherDevice(i) PROVE ServerOK' /\ Prefix
  BY <1>3, Appended DEF OtherDevice, Event
<1>4. Next => UNCHANGED log \/ \E i \in Item : PushItem(i) \/ OtherDevice(i)
  BY Zenon DEF Next, RunStep, Unlock, LoadFirst, Decrypt, Merge, Lock, Restart, SelectVault,
     SaveItem, Switch, Leave, Start, RunReads, Begin, TakeCursor, Pull, Examine, Apply, NextPage,
     Finish, Fail
<1> QED
  BY <1>1, <1>2, <1>3, <1>4 DEF vars
-----------------------------------------------------------------------------
(* Types                                                                    *)
LEMMA Pages ==
  /\ <<"idle">> # <<"unlocking">> /\ <<"idle">> # <<"loading">> /\ <<"loading">> # <<"unlocking">>
  /\ \A u \in User \cup {NoUser} : <<"leave", u>> \notin {<<"idle">>, <<"unlocking">>, <<"loading">>}
OBVIOUS

LEMMA NoTypes == NoLoad \in LoadType /\ NoRun \in RunType
  BY RecordTypes DEF NoLoad, NoRun, LoadType, RunType

LEMMA SessionShapeInit == Init => SessionShape
<1> SUFFICES ASSUME Init PROVE SessionShape
  OBVIOUS
<1>1. ServerOK /\ Len(log) \in Nat
  BY DEF Init, ServerOK, Event
<1>2. disk \in Table /\ mem \in Table
  BY RecordTypes DEF Init, Table
<1>3. StoreOK
  BY <1>1, <1>2 DEF Init, StoreOK
<1>4. SessionOK
  BY Pages DEF Init, SessionOK
<1>5. LoadOK
  BY NoTypes DEF Init, LoadOK, NoLoad
<1>6. RunOK
  BY NoTypes, <1>1 DEF Init, RunOK, NoRun, Idle
<1> QED
  BY <1>1, <1>3, <1>4, <1>5, <1>6 DEF SessionShape

LEMMA TableChange ==
  ASSUME NEW t \in Table, NEW i \in Item, NEW r \in Record
  PROVE  [t EXCEPT ![i] = r] \in Table
BY DEF Table

LEMMA StateChange ==
  ASSUME NEW t \in Table, NEW i \in Item, t[i] # Absent, NEW s \in {"clean", "dirty", "conflicted"}
  PROVE  /\ [t EXCEPT ![i].state = s] \in Table
         /\ [t EXCEPT ![i].state = s][i] = [revision |-> t[i].revision, state |-> s]
<1>1. t[i] \in [revision : Nat, state : {"clean", "dirty", "conflicted"}]
  BY DEF Table, Record
<1>2. [t[i] EXCEPT !.state = s] = [revision |-> t[i].revision, state |-> s]
  BY <1>1
<1> QED
  BY <1>1, <1>2 DEF Table, Record

(* What a step makes of the memory.                                         *)
LEMMA MemoryStep ==
  ASSUME SessionShape, [Next]_vars
  PROVE  mem' \in Table
<1>0. mem \in Table /\ load.items \in Table /\ ServerOK /\ RunOK
  BY DEF SessionShape, StoreOK, LoadOK, LoadType
<1>1. CASE UNCHANGED mem
  BY <1>0, <1>1
<1>2. CASE mem' = Nothing
  BY <1>2, RecordTypes
<1>3. CASE Merge
  BY <1>0, <1>3 DEF Merge, Merged, Table
<1>4. ASSUME NEW i \in Item, SaveItem(i) PROVE mem' \in Table
  <2>1. mem[i] \in Record /\ mem[i].revision + 1 \in Nat
    <3>1. mem[i] \in Record
      BY <1>0 DEF Table
    <3> QED
      BY <3>1, RecordTypes
  <2>2. [revision |-> mem[i].revision + 1, state |-> "dirty"] \in Record
    BY <2>1 DEF Record
  <2>3. mem' = [mem EXCEPT ![i] = [revision |-> mem[i].revision + 1, state |-> "dirty"]]
    BY <1>0, <1>4 DEF SaveItem, Table
  <2> QED
    BY <1>0, <2>2, <2>3, TableChange
<1>5. ASSUME NEW i \in Item, PushItem(i) PROVE mem' \in Table
  <2>1. CASE mem' = mem
    BY <1>0, <2>1
  <2>2. CASE Here(i) /\ mem' # mem
    <3>1. \E s \in {"clean", "conflicted"} : mem' = [mem EXCEPT ![i].state = s]
      BY <1>5, <2>2 DEF PushItem
    <3>2. PICK s \in {"clean", "conflicted"} : mem' = [mem EXCEPT ![i].state = s]
      BY <3>1
    <3>3. mem[i] # Absent
      BY <2>2 DEF Here
    <3> QED
      BY <1>0, <3>2, <3>3, StateChange
  <2> QED
    BY <1>5, <2>1, <2>2 DEF PushItem
<1>6. CASE Examine
  <2>1. log[First].item \in Item
    BY <1>0, <1>6, FirstIsLeast DEF Examine
  <2>2. CASE Verdict(First) = "conflict"
    <3>1. mem[log[First].item] # Absent
      BY <2>2 DEF Verdict, Absent
    <3>2. mem' = [mem EXCEPT ![log[First].item].state = "conflicted"]
      BY <1>6, <2>2 DEF Examine
    <3> QED
      BY <1>0, <2>1, <3>1, <3>2, StateChange
  <2> QED
    BY <1>0, <1>6, <2>2 DEF Examine
<1>7. CASE Apply
  <2>1. log[First].item \in Item /\ RevisionAt(First) \in Nat
    BY <1>0, <1>7, FirstIsLeast DEF Apply, RunOK
  <2>2. Clean(RevisionAt(First)) \in Record
    BY <2>1, RecordTypes
  <2> QED
    BY <1>0, <1>7, <2>1, <2>2, TableChange DEF Apply
<1>8. Next => UNCHANGED mem \/ mem' = Nothing \/ Merge \/ Examine \/ Apply
              \/ \E i \in Item : SaveItem(i) \/ PushItem(i)
  BY Zenon DEF Next, RunStep, Unlock, LoadFirst, Decrypt, Lock, Restart, SelectVault, OtherDevice,
     Switch, Leave, Start, RunReads, Begin, TakeCursor, Pull, NextPage, Finish, Fail, memory
<1> QED
  BY <1>1, <1>2, <1>3, <1>4, <1>5, <1>6, <1>7, <1>8 DEF vars, memory

LEMMA Persisting ==
  ASSUME StoreOK, NEW m \in Table, NEW c \in Nat, Persist(m, c)
  PROVE  /\ disk' \in Table
         /\ diskCursor' \in [User -> Nat] /\ profiles' = diskCursor' /\ diskCursor'[user] = c
         /\ \A u \in User : u # user => diskCursor'[u] = diskCursor[u]
         /\ \A i \in Item :
              disk'[i] = IF session = 0 \/ m[i] = Absent \/ Owner(i) # user THEN disk[i] ELSE m[i]
  BY DEF StoreOK, Persist, Upserted, Table

LEMMA StoreStep ==
  ASSUME SessionShape, [Next]_vars
  PROVE  StoreOK'
<1>0. Prefix /\ mem' \in Table
  BY LogStep, MemoryStep DEF SessionShape
<1>p. cursor \in Nat /\ cursor <= Len(log) /\ run.cursor \in Nat /\ run.cursor <= Len(log)
  BY DEF SessionShape, StoreOK, RunOK, RunType
<1>1. ASSUME NEW m \in Table, NEW c \in Nat, c <= Len(log), Persist(m, c), cursor' = c, user' = user
      PROVE  StoreOK'
  <2>1. StoreOK
    BY DEF SessionShape
  <2>2. /\ disk' \in Table /\ diskCursor' \in [User -> Nat] /\ profiles' = diskCursor'
        /\ diskCursor'[user] = c /\ \A u \in User : u # user => diskCursor'[u] = diskCursor[u]
    BY <1>1, <2>1, Persisting
  <2>3. Len(log) \in Nat /\ Len(log') \in Nat /\ Len(log) <= Len(log')
    BY <1>0 DEF Prefix
  <2>4. \A u \in User : diskCursor'[u] <= Len(log')
    <3> SUFFICES ASSUME NEW u \in User PROVE diskCursor'[u] <= Len(log')
      OBVIOUS
    <3>1. diskCursor[u] \in Nat /\ diskCursor[u] <= Len(log)
      BY <2>1 DEF StoreOK
    <3>2. diskCursor'[u] \in {c, diskCursor[u]}
      BY <2>2
    <3> QED
      BY <1>1, <2>3, <3>1, <3>2
  <2> QED
    BY <1>0, <1>1, <2>1, <2>2, <2>4 DEF StoreOK
<1>2. CASE UNCHANGED <<saved, user, cursor>>
  BY <1>0, <1>2 DEF SessionShape, StoreOK, saved, Prefix
<1>3. CASE Merge
  BY <1>0, <1>1, <1>2, <1>3, <1>p DEF Merge
<1>4. ASSUME NEW i \in Item, SaveItem(i) PROVE StoreOK'
  BY <1>0, <1>1, <1>4, <1>p DEF SaveItem, page
<1>5. ASSUME NEW u \in User \cup {NoUser}, Leave(u) PROVE StoreOK'
  <2>1. mem \in Table
    BY DEF SessionShape, StoreOK
  <2> QED
    BY <1>1, <1>2, <1>5, <1>p, <2>1 DEF Leave
<1>6. ASSUME NEW u \in User, Switch(u) PROVE StoreOK'
  BY <1>0, <1>6 DEF Switch, SessionShape, StoreOK, Prefix
<1>7. CASE Finish
  <2>1. mem \in Table
    BY DEF SessionShape, StoreOK
  <2> QED
    BY <1>1, <1>7, <1>p, <2>1 DEF Finish, page
<1>8. CASE Restart
  BY <1>0, <1>8 DEF Restart, SessionShape, StoreOK, Prefix
<1>9. Next => UNCHANGED <<saved, user, cursor>> \/ Merge \/ Finish \/ Restart
              \/ (\E i \in Item : SaveItem(i)) \/ (\E u \in User : Switch(u))
              \/ \E u \in User \cup {NoUser} : Leave(u)
  BY Zenon DEF Next, RunStep, Unlock, LoadFirst, Decrypt, Lock, SelectVault, OtherDevice, PushItem,
     Start, RunReads, Begin, TakeCursor, Pull, Examine, Apply, NextPage, Fail, page
<1> QED
  BY <1>2, <1>3, <1>4, <1>5, <1>6, <1>7, <1>8, <1>9 DEF vars, page
LEMMA SessionStep ==
  ASSUME SessionOK, [Next]_vars
  PROVE  SessionOK' /\ sessions <= sessions'
<1> USE Pages DEF SessionOK
<1>1. CASE Unlock
  BY <1>1 DEF Unlock
<1>2. CASE LoadFirst
  BY <1>2 DEF LoadFirst
<1>3. CASE Merge
  BY <1>3 DEF Merge
<1>4. ASSUME NEW u \in User \cup {NoUser}, Leave(u) PROVE SessionOK' /\ sessions <= sessions'
  BY <1>4 DEF Leave
<1>5. CASE Lock
  BY <1>5 DEF Lock
<1>6. ASSUME NEW u \in User, Switch(u) PROVE SessionOK' /\ sessions <= sessions'
  BY <1>6 DEF Switch
<1>7. CASE Restart
  BY <1>7 DEF Restart
<1>8. CASE UNCHANGED <<session, sessions, ui>>
  BY <1>8
<1>9. Next => Unlock \/ LoadFirst \/ Merge \/ Lock \/ Restart \/ UNCHANGED <<session, sessions, ui>>
              \/ (\E u \in User : Switch(u)) \/ \E u \in User \cup {NoUser} : Leave(u)
  BY Zenon DEF Next, RunStep, Decrypt, SelectVault, OtherDevice, PushItem, SaveItem, Start,
     RunReads, Begin, TakeCursor, Pull, Examine, Apply, NextPage, Finish, Fail, page
<1> QED
  BY <1>1, <1>2, <1>3, <1>4, <1>5, <1>6, <1>7, <1>8, <1>9 DEF vars, page

LEMMA Reading == ASSUME StoreOK, NEW vaults PROVE Read(vaults) \in Table
<1>1. Absent \in Record
  BY RecordTypes
<1> QED
  BY <1>1 DEF StoreOK, Table, Read

LEMMA LoadStep ==
  ASSUME SessionShape, [Next]_vars
  PROVE  LoadOK'
<1>0. SessionOK /\ LoadOK /\ StoreOK /\ sessions <= sessions' /\ sessions' \in Nat
  BY SessionStep DEF SessionShape, SessionOK
<1>1. CASE UNCHANGED load
  BY <1>0, <1>1 DEF LoadOK, LoadType, SessionOK
<1>2. CASE load' = NoLoad
  BY <1>0, <1>2, NoTypes DEF LoadOK, NoLoad, SessionOK
<1>3. ASSUME NEW vaults \in SUBSET Vault, session # 0, sessions' = sessions,
             load' = [vaults |-> vaults, session |-> session, items |-> Read(vaults), pc |-> "read"]
      PROVE  LoadOK'
  BY <1>0, <1>3, Reading DEF LoadOK, LoadType, SessionOK
<1>4. CASE LoadFirst
  <2>1. {FirstVault[user]} \in SUBSET Vault /\ session # 0
    BY <1>0, <1>4 DEF StoreOK, LoadFirst, SessionOK
  <2> QED
    BY <1>3, <1>4, <2>1 DEF LoadFirst
<1>5. ASSUME NEW v \in Vault, SelectVault(v) PROVE LoadOK'
  <2>1. {v} \in SUBSET Vault
    OBVIOUS
  <2> QED
    BY <1>3, <1>5, <2>1 DEF SelectVault, page
<1>6. CASE RunReads
  <2>1. Missing \in SUBSET Vault
    BY DEF Missing
  <2> QED
    BY <1>1, <1>3, <1>6, <2>1 DEF RunReads, page
<1>7. CASE Decrypt
  <2>1. load' = [load EXCEPT !.pc = "merge"] => LoadOK'
    BY <1>0, <1>7 DEF Decrypt, page, LoadOK, LoadType, SessionOK
  <2> QED
    BY <1>2, <1>7, <2>1 DEF Decrypt
<1>8. Next => UNCHANGED load \/ load' = NoLoad \/ LoadFirst \/ RunReads \/ Decrypt
              \/ \E v \in Vault : SelectVault(v)
  BY Zenon DEF Next, RunStep, Unlock, Lock, Leave, Switch, Merge, Restart, OtherDevice, PushItem,
     SaveItem, Start, Begin, TakeCursor, Pull, Examine, Apply, NextPage, Finish, Fail
<1> QED
  BY <1>1, <1>2, <1>4, <1>5, <1>6, <1>7, <1>8 DEF vars

(* A page is the beginning of what there is.                                *)
LEMMA PageOf ==
  ASSUME ServerOK, NEW c \in Nat, c <= Len(log)
  PROVE  /\ PageAfter(c) \in SUBSET EventsAfter(c)
         /\ LastOf(PageAfter(c), c) \in Nat
         /\ c <= LastOf(PageAfter(c), c) /\ LastOf(PageAfter(c), c) <= Len(log)
         /\ \A n \in PageAfter(c) : n <= LastOf(PageAfter(c), c)
         /\ \A n \in EventsAfter(c) : n <= LastOf(PageAfter(c), c) => n \in PageAfter(c)
<1> DEFINE P == PageAfter(c)
           Before(n) == {m \in EventsAfter(c) : m < n}
<1>1. /\ Events = 1..Len(log) /\ Len(log) \in Nat
      /\ EventsAfter(c) \subseteq Events /\ \A n \in EventsAfter(c) : n > c
  BY EventTypes DEF EventsAfter
<1>2. P \in SUBSET EventsAfter(c) /\ P \cup {c} \in SUBSET (0..Len(log)) /\ P \cup {c} # {}
  BY <1>1 DEF PageAfter
<1>3. \E m \in P \cup {c} : \A n \in P \cup {c} : n <= m
  BY <1>1, <1>2, GreatestOf
<1>4. LastOf(P, c) \in P \cup {c} /\ \A n \in P : n <= LastOf(P, c)
  BY <1>3 DEF LastOf
<1>5. c <= LastOf(P, c) /\ LastOf(P, c) <= Len(log) /\ LastOf(P, c) \in Nat
  BY <1>1, <1>2, <1>4
<1>6. ASSUME NEW n \in EventsAfter(c), NEW m \in P, n <= m PROVE n \in P
  <2>1. n \in Nat /\ m \in Nat
    BY <1>1, <1>2
  <2>2. Before(n) \subseteq Before(m) /\ Before(m) \subseteq 1..Len(log)
    BY <1>1, <1>6, <2>1
  <2>3. IsFiniteSet(Before(m)) /\ IsFiniteSet(Before(n))
    <3>1. IsFiniteSet(1..Len(log))
      BY <1>1, FS_Interval
    <3> HIDE DEF Before
    <3> QED
      BY <2>2, <3>1, FS_Subset
  <2>4. /\ Cardinality(Before(n)) <= Cardinality(Before(m))
        /\ Cardinality(Before(n)) \in Nat /\ Cardinality(Before(m)) \in Nat
    BY <2>2, <2>3, FS_Subset, FS_CardinalityType
  <2>5. Cardinality(Before(m)) < PageSize
    BY DEF PageAfter
  <2>6. Cardinality(Before(n)) < PageSize
    BY <2>4, <2>5
  <2> QED
    BY <2>6 DEF PageAfter
<1>7. \A n \in EventsAfter(c) : n <= LastOf(P, c) => n \in P
  <2> SUFFICES ASSUME NEW n \in EventsAfter(c), n <= LastOf(P, c) PROVE n \in P
    OBVIOUS
  <2>1. LastOf(P, c) # c
    BY <1>1
  <2> QED
    BY <1>4, <1>6, <2>1
<1> QED
  BY <1>2, <1>4, <1>5, <1>7

(* What a step of a run makes of it                                         *)
Passed == run' = [run EXCEPT !.events = @ \ {First}] \/ run' = [run EXCEPT !.events = @ \ {First}, !.pc = "page"]

LEMMA PassedOK ==
  ASSUME ServerOK, RunOK, run.events # {}, run.pc \in {"page", "apply"}, Passed,
         run.pc = "apply" => run'.pc = "page", UNCHANGED <<log, sessions>>
  PROVE  RunOK'
<1>1. /\ run' \in RunType /\ run'.events = run.events \ {First} /\ run'.pc = "page"
      /\ run'.session = run.session /\ run'.user = run.user /\ run'.cursor = run.cursor
  <2>1. run \in RunType
    BY DEF RunOK
  <2>2. CASE run' = [run EXCEPT !.events = @ \ {First}]
    BY <2>1, <2>2 DEF RunType
  <2>3. CASE run' = [run EXCEPT !.events = @ \ {First}, !.pc = "page"]
    BY <2>1, <2>3 DEF RunType
  <2> QED
    BY <2>2, <2>3 DEF Passed
<1>2. First \in run.events /\ (\A n \in run.events : First <= n) /\ run.events \in SUBSET Nat
  BY FirstIsLeast DEF RunOK, RunType
<1>3. ASSUME NEW n \in run'.events, NEW m \in Events, n <= m, m <= run.cursor, Owner(log[m].item) = run.user
      PROVE  m \in run'.events
  <2>1. m \in run.events
    BY <1>1, <1>3 DEF RunOK
  <2>2. First < n
    BY <1>1, <1>2
  <2>3. m # First
    BY <1>1, <1>2, <1>3, <2>1, <2>2
  <2> QED
    BY <1>1, <2>1, <2>3
<1> QED
  BY <1>1, <1>3 DEF RunOK, Idle, Events, Owner

LEMMA RunKept ==
  ASSUME RunOK, Prefix, sessions \in Nat, sessions' \in Nat, sessions <= sessions',
         run' \in RunType, run'.pc # "idle" => run.session # 0,
         run'.pc = "apply" => run.events # {}, run'.pc \notin {"page", "apply"} => run.events = {},
         run'.session = run.session, run'.user = run.user,
         run'.cursor = run.cursor, run'.events = run.events
  PROVE  RunOK'
<1>1. /\ run.session \in Nat /\ run.session <= sessions' /\ run.cursor <= Len(log')
  BY DEF RunOK, RunType, Prefix
<1>2. ASSUME NEW n \in run.events
      PROVE  n \in Events' /\ n <= run.cursor /\ log'[n] = log[n] /\ Owner(log'[n].item) = run.user
  BY DEF RunOK, Prefix
<1>3. ASSUME NEW n \in run.events, NEW m \in Events', n <= m, m <= run.cursor,
             Owner(log'[m].item) = run.user
      PROVE  m \in run.events
  <2>1. m \in Events
    BY <1>3 DEF RunOK, RunType, Prefix
  <2> QED
    BY <1>3, <2>1 DEF RunOK, Prefix
<1> QED
  BY <1>1, <1>2, <1>3 DEF RunOK, Idle, Owner
LEMMA RunTypesStep ==
  ASSUME SessionShape, [Next]_vars
  PROVE  RunOK'
<1>0. /\ ServerOK /\ RunOK /\ SessionOK /\ StoreOK /\ run \in RunType
      /\ Prefix /\ ServerOK' /\ sessions <= sessions' /\ sessions' \in Nat /\ sessions \in Nat
      /\ mem \in Table /\ Absent \in Record /\ Nothing \in Table
  BY LogStep, SessionStep, RecordTypes DEF SessionShape, SessionOK, StoreOK, RunOK
<1>1. CASE UNCHANGED run
  <2>1. /\ run.pc # "idle" => run.session # 0
        /\ run.pc = "apply" => run.events # {}
        /\ run.pc \notin {"page", "apply"} => run.events = {}
    BY <1>0 DEF RunOK, Idle
  <2> QED
    BY <1>0, <1>1, <2>1, RunKept
<1>2. CASE run' = NoRun
  <2>1. NoRun \in RunType /\ Len(log') \in Nat
    BY <1>0, NoTypes DEF Prefix
  <2> QED
    BY <1>0, <1>2, <2>1 DEF RunOK, NoRun, Idle
<1>3. CASE Start
  <2>1. /\ run' \in RunType /\ run'.session = session /\ run'.cursor = 0 /\ run'.events = {}
        /\ run'.pc = "load"
    BY <1>0, <1>3, NoTypes DEF Start, NoRun, RunType, StoreOK, SessionOK
  <2>2. session # 0 /\ session <= sessions' /\ Len(log') \in Nat
    BY <1>0, <1>3 DEF Start, page, SessionOK, Prefix
  <2> QED
    BY <2>1, <2>2 DEF RunOK, Idle
<1>4. ASSUME NEW p \in {"wait", "begin", "push", "pull"}, ~Idle, run.events = {},
             NEW s \in User \cup {NoUser}, NEW t \in Table,
             run' = [run EXCEPT !.space = s, !.items = t, !.pc = p]
      PROVE  RunOK'
  <2>1. /\ run' \in RunType /\ run'.pc = p /\ run'.session = run.session /\ run'.user = run.user
        /\ run'.cursor = run.cursor /\ run'.events = run.events
    BY <1>0, <1>4 DEF RunType
  <2>2. run.session # 0
    BY <1>0, <1>4 DEF RunOK
  <2>3. p # "apply"
    OBVIOUS
  <2> QED
    BY <1>0, <1>4, <2>1, <2>2, <2>3, RunKept
<1>5. CASE RunReads \/ Merge
  <2>1. ASSUME NEW p \in {"wait", "begin"}, run.pc \in {"load", "wait"}, run' = [run EXCEPT !.pc = p]
        PROVE  RunOK'
    <3>1. run' = [run EXCEPT !.space = run.space, !.items = run.items, !.pc = p]
      BY <1>0, <2>1 DEF RunType
    <3>2. ~Idle /\ run.events = {} /\ run.space \in User \cup {NoUser} /\ run.items \in Table
      BY <1>0, <2>1 DEF RunOK, RunType, Idle
    <3>3. p \in {"wait", "begin", "push", "pull"}
      BY <2>1
    <3> QED
      BY <1>4, <3>1, <3>2, <3>3
  <2>2. CASE RunReads
    BY <1>2, <2>1, <2>2 DEF RunReads
  <2>3. CASE Merge
    BY <1>1, <2>1, <2>3 DEF Merge
  <2> QED
    BY <1>5, <2>2, <2>3
<1>6. CASE Begin
  <2>1. run.pc = "begin" /\ run.events = {} /\ ~Idle /\ user \in User \cup {NoUser}
    BY <1>0, <1>6 DEF Begin, RunOK, StoreOK, Idle
  <2> QED
    BY <1>0, <1>2, <1>4, <1>6, <2>1 DEF Begin
<1>7. ASSUME NEW i \in Item, PushItem(i) PROVE RunOK'
  <2>1. run.pc = "push" /\ run.events = {} /\ ~Idle /\ run.space \in User \cup {NoUser}
    BY <1>0, <1>7 DEF PushItem, RunOK, RunType, Idle
  <2>2. [run.items EXCEPT ![i] = Absent] \in Table
    BY <1>0, TableChange DEF RunType
  <2>3. run' = [run EXCEPT !.space = run.space, !.items = [run.items EXCEPT ![i] = Absent], !.pc = "push"]
    BY <1>0, <1>7, <2>1 DEF PushItem, RunType
  <2> QED
    BY <1>4, <2>1, <2>2, <2>3
<1>8. CASE TakeCursor
  <2>1. /\ run.pc = "push" /\ run.events = {} /\ cursor \in Nat /\ cursor <= Len(log)
        /\ log' = log /\ sessions' = sessions
    BY <1>0, <1>8 DEF TakeCursor, RunOK, StoreOK, page
  <2>2. /\ run' \in RunType /\ run'.pc = "pull" /\ run'.session = run.session
        /\ run'.user = run.user
        /\ run'.cursor = cursor /\ run'.events = {}
    BY <1>0, <1>8, <2>1 DEF TakeCursor, RunType
  <2> QED
    BY <1>0, <2>1, <2>2 DEF RunOK, Idle
<1>9. CASE Pull
  <2> DEFINE P == PageAfter(run.cursor)
             L == LastOf(P, run.cursor)
  <2>1. /\ run.pc = "pull" /\ log' = log /\ sessions' = sessions
        /\ run.cursor \in Nat /\ run.cursor <= Len(log) /\ run.session # 0
    BY <1>0, <1>9 DEF Pull, RunOK, RunType, page, Idle
  <2>2. /\ P \in SUBSET EventsAfter(run.cursor) /\ L \in Nat /\ run.cursor <= L /\ L <= Len(log)
        /\ (\A n \in P : n <= L) /\ \A n \in EventsAfter(run.cursor) : n <= L => n \in P
    BY <1>0, <2>1, PageOf
  <2>3. \A n \in P : n \in Events /\ n \in Nat /\ n > run.cursor /\ Owner(log[n].item) = run.user
    BY <1>0, <2>2, EventTypes DEF EventsAfter
  <2>4. P \in SUBSET Nat
    BY <2>3
  <2> HIDE DEF P, L
  <2>5. run' = [run EXCEPT !.events = P, !.cursor = L, !.pc = "page"]
    BY <1>9 DEF Pull, P, L
  <2>6. /\ run' \in RunType /\ run'.pc = "page" /\ run'.session = run.session
        /\ run'.user = run.user
        /\ run'.cursor = L /\ run'.events = P
    BY <1>0, <2>2, <2>4, <2>5 DEF RunType
  <2>7. ASSUME NEW n \in P, NEW m \in Events, n <= m, m <= L, Owner(log[m].item) = run.user
        PROVE  m \in P
    <3>1. m \in Nat /\ m > run.cursor
      BY <1>0, <2>1, <2>3, <2>7, EventTypes
    <3> QED
      BY <2>2, <2>7, <3>1 DEF EventsAfter
  <2> QED
    BY <1>0, <2>1, <2>2, <2>3, <2>6, <2>7 DEF RunOK, Idle, Events, Owner
<1>10. CASE Examine
  <2>1. CASE run' = [run EXCEPT !.events = @ \ {First}]
    BY <1>0, <1>10, <2>1, PassedOK DEF Examine, page, Passed
  <2>2. CASE run' = [run EXCEPT !.pc = "apply"]
    <3>1. /\ run' \in RunType /\ run'.pc = "apply" /\ run'.session = run.session
          /\ run'.user = run.user
          /\ run'.cursor = run.cursor /\ run'.events = run.events
      BY <1>0, <2>2 DEF RunType
    <3>2. run.events # {} /\ run.session # 0
      BY <1>0, <1>10 DEF Examine, Idle, RunOK
    <3> QED
      BY <1>0, <3>1, <3>2, RunKept
  <2> QED
    BY <1>2, <1>10, <2>1, <2>2 DEF Examine
<1>11. CASE Apply
  <2>1. /\ run.pc = "apply" /\ run.events # {} /\ UNCHANGED <<log, sessions>>
        /\ run' = [run EXCEPT !.events = @ \ {First}, !.pc = "page"]
    BY <1>0, <1>11 DEF Apply, RunOK, page
  <2>2. run'.pc = "page" /\ Passed
    BY <1>0, <2>1 DEF RunType, Passed
  <2> QED
    BY <1>0, <2>1, <2>2, PassedOK
<1>12. CASE NextPage
  <2>1. run.events = {} /\ ~Idle /\ run' = [run EXCEPT !.pc = "pull"]
    BY <1>12 DEF NextPage, Idle
  <2>2. run' = [run EXCEPT !.space = run.space, !.items = run.items, !.pc = "pull"]
    BY <1>0, <2>1 DEF RunType
  <2>3. run.space \in User \cup {NoUser} /\ run.items \in Table
    BY <1>0 DEF RunType
  <2> QED
    BY <1>4, <2>1, <2>2, <2>3
<1>13. Next => UNCHANGED run \/ run' = NoRun \/ Start \/ RunReads \/ Merge \/ Begin \/ TakeCursor
               \/ Pull
               \/ Examine \/ Apply \/ NextPage \/ \E i \in Item : PushItem(i)
  BY Zenon DEF Next, RunStep, Unlock, LoadFirst, Decrypt, Lock, Leave, Switch, Restart,
     SelectVault, OtherDevice, SaveItem, Finish, Fail
<1> QED
  BY <1>1, <1>2, <1>3, <1>5, <1>6, <1>7, <1>8, <1>9, <1>10, <1>11, <1>12, <1>13 DEF vars

LEMMA SessionShapeStep == SessionShape /\ [Next]_vars => SessionShape'
<1> SUFFICES ASSUME SessionShape, [Next]_vars PROVE SessionShape'
  OBVIOUS
<1>1. ServerOK' /\ SessionOK'
  BY LogStep, SessionStep DEF SessionShape
<1> QED
  BY <1>1, StoreStep, LoadStep, RunTypesStep DEF SessionShape
-----------------------------------------------------------------------------
(* Where a load and a run can be when the vault is locked and unlocked: a   *)
(* run that has begun in this session has every vault loaded.               *)
Active == session # 0 /\ ui # <<"unlocking">>
Working == run.pc \in {"push", "pull", "page", "apply"}
Begun == Working \/ run.pc = "begin"

WhereInv ==
  /\ Active /\ load.pc # "idle" => load.session = session
  /\ ui = <<"loading">> => load.pc # "idle"
  /\ load.pc = "merge" => load.items = Nothing \/ session \in {0, load.session}
  /\ run.pc \in {"load", "apply"} => session \in {0, run.session}
  /\ run.pc = "wait" => load.pc # "idle" /\ load.session = run.session
  /\ ~Idle /\ run.session = session => ui # <<"unlocking">>
  /\ run.session = session =>
       /\ Begun => load.pc = "idle" /\ \A v \in Vault : UserOf[v] = user => v \in loaded
       /\ run.pc = "wait" => \A v \in Vault : UserOf[v] = user => v \in loaded \cup load.vaults

LEMMA WhereInit == Init => WhereInv
  BY Pages DEF Init, WhereInv, NoLoad, NoRun, Active, Begun, Working, Idle

LEMMA WhereRun ==
  ASSUME WhereInv, UNCHANGED <<session, ui, user, load>>, loaded \subseteq loaded',
         run'.session = run.session, run'.pc # "idle" => run.pc # "idle",
         run'.pc \in {"begin", "push", "pull", "page", "apply"} => Begun,
         run'.pc \in {"load", "wait"} => run'.pc = run.pc,
         run'.pc = "apply" => session \in {0, run.session}
  PROVE  WhereInv'
  BY DEF WhereInv, Active, Begun, Working, Idle

LEMMA WhereStep ==
  ASSUME SessionShape, WhereInv, [Next]_vars
  PROVE  WhereInv'
<1>0. /\ run \in RunType /\ load \in LoadType /\ RunOK /\ SessionOK /\ LoadOK /\ ServerOK
      /\ session \in Nat /\ sessions \in Nat /\ session <= sessions /\ load.session <= sessions
      /\ run.session <= sessions /\ load.session \in Nat /\ run.session \in Nat
  BY DEF SessionShape, SessionOK, RunOK, LoadOK, RunType, LoadType
<1>i. /\ NoRun.pc = "idle" /\ NoRun.session = 0 /\ NoLoad.pc = "idle" /\ NoLoad.session = 0
      /\ NoLoad.items = Nothing
  BY DEF NoRun, NoLoad
<1>1. CASE UNCHANGED <<session, ui, user, load>> /\ loaded \subseteq loaded' /\ (run' = run \/ run' = NoRun)
  BY <1>i, <1>1 DEF WhereInv, Active, Begun, Working, Idle
<1>3. CASE Unlock
  BY <1>0, <1>3, Pages DEF Unlock, WhereInv, Active, Begun, Working, Idle, LoadOK, RunOK
<1>4. CASE LoadFirst
  <2>1. /\ load'.pc = "read" /\ load'.session = session /\ load.pc = "idle" /\ ui = <<"unlocking">>
        /\ ui' = <<"loading">> /\ session' = session /\ run' = run
    BY <1>4 DEF LoadFirst
  <2> QED
    BY <2>1, Pages DEF WhereInv, Active, Begun, Working, Idle
<1>5. ASSUME NEW v \in Vault, SelectVault(v) PROVE WhereInv'
  <2>1. /\ load'.pc = "read" /\ load'.session = session /\ load.pc = "idle" /\ ui = <<"idle">>
        /\ UNCHANGED <<session, user, ui, run, loaded>> /\ UserOf[v] = user /\ v \notin loaded
    BY <1>5 DEF SelectVault, page, memory
  <2>2. ~(Begun /\ run.session = session)
    BY <2>1 DEF WhereInv
  <2> QED
    BY <2>1, <2>2, Pages DEF WhereInv, Active, Begun, Working, Idle
<1>6. CASE Decrypt
  <2>1. CASE load' = [load EXCEPT !.pc = "merge"]
    <3>1. /\ load.session = session \/ load.items = Nothing
          /\ load'.pc = "merge" /\ load'.session = load.session /\ load'.items = load.items
          /\ load'.vaults = load.vaults /\ load.pc = "read"
          /\ UNCHANGED <<run, session, user, ui, loaded>>
      BY <1>0, <1>6, <2>1, <1>i DEF Decrypt, page, memory, LoadType
    <3> QED
      BY <3>1, <1>0 DEF WhereInv, Active, Begun, Working, Idle
  <2>2. CASE load' = NoLoad
    <3>1. /\ load.pc = "read" /\ UNCHANGED <<session, user, ui, loaded>>
          /\ load.session # session
          /\ run' = IF run.pc = "wait" THEN NoRun ELSE run
      BY <1>0, <1>6, <2>2, <1>i DEF Decrypt, page, memory, LoadType
    <3>2. ui # <<"loading">>
      BY <3>1, <1>0, Pages DEF WhereInv, Active, SessionOK
    <3> QED
      BY <3>1, <3>2, <2>2, <1>i DEF WhereInv, Active, Begun, Working, Idle
  <2> QED
    BY <1>6, <2>1, <2>2 DEF Decrypt
<1>7. CASE Merge
  <2>1. /\ load.pc = "merge" /\ load' = NoLoad /\ loaded' = loaded \cup load.vaults
        /\ UNCHANGED <<session, user>>
        /\ ui' = IF ui = <<"loading">> THEN <<"idle">> ELSE ui
        /\ run' = IF run.pc = "wait" THEN [run EXCEPT !.pc = "begin"] ELSE run
    BY <1>7 DEF Merge
  <2>2. CASE run.pc = "wait"
    <3>1. run'.pc = "begin" /\ run'.session = run.session
      BY <1>0, <2>1, <2>2 DEF RunType
    <3> QED
      BY <2>1, <2>2, <3>1, <1>i, <1>0, Pages DEF WhereInv, Active, Begun, Working, Idle
  <2>3. CASE run.pc # "wait"
    BY <2>1, <2>3, <1>i, <1>0, Pages DEF WhereInv, Active, Begun, Working, Idle
  <2> QED
    BY <2>2, <2>3
<1>8. ASSUME NEW u \in User \cup {NoUser}, Leave(u) PROVE WhereInv'
  <2>1. UNCHANGED <<session, user, load, run, loaded>> /\ ui = <<"idle">> /\ ui' = <<"leave", u>>
    BY <1>8 DEF Leave, memory
  <2> QED
    BY <2>1, Pages DEF WhereInv, Active, Begun, Working, Idle
<1>9. CASE Lock \/ \E u \in User : Switch(u)
  <2>1. session' = 0 /\ ui' = <<"idle">> /\ UNCHANGED <<load, run>>
    BY <1>9 DEF Lock, Switch
  <2> QED
    BY <1>0, <2>1, Pages DEF WhereInv, Active, Begun, Working, Idle, RunOK, LoadOK
<1>10. CASE Restart
  BY <1>i, <1>10, Pages DEF Restart, WhereInv, Active, Begun, Working, Idle
<1>11. CASE Start
  <2>1. /\ run'.pc = "load" /\ run'.session = session /\ session # 0 /\ ui # <<"unlocking">>
        /\ UNCHANGED <<session, ui, user, load, loaded>>
    BY <1>11 DEF Start, NoRun, page, memory
  <2> QED
    BY <2>1 DEF WhereInv, Active, Begun, Working, Idle
<1>12. CASE RunReads
  <2>1. CASE session = 0
    BY <1>1, <1>12, <2>1 DEF RunReads, page, memory
  <2>2. CASE session # 0
    <3>1. /\ run.pc = "load" /\ load.pc = "idle" /\ run'.pc = "wait" /\ run'.session = run.session
          /\ load'.vaults = Missing /\ load'.session = session /\ load'.pc = "read"
          /\ UNCHANGED <<session, ui, user, loaded>>
      BY <1>0, <1>12, <2>2 DEF RunReads, page, memory, RunType
    <3>2. \A v \in Vault : UserOf[v] = user => v \in loaded \cup Missing
      BY DEF Missing
    <3> QED
      BY <1>0, <2>2, <3>1, <3>2 DEF WhereInv, Active, Begun, Working, Idle
  <2> QED
    BY <2>1, <2>2
<1>13. ASSUME NEW i \in Item, PushItem(i) PROVE WhereInv'
  <2>1. run.pc = "push" /\ run'.pc = "push" /\ run'.session = run.session
    BY <1>0, <1>13 DEF PushItem, RunType
  <2> QED
    BY <1>13, <2>1, WhereRun DEF PushItem, page, Begun, Working
<1>14. CASE Begin
  <2>1. CASE run' # NoRun
    <3>1. run.pc = "begin" /\ run'.pc = "push" /\ run'.session = run.session
      BY <1>0, <1>14, <2>1 DEF Begin, RunType
    <3> QED
      BY <1>14, <3>1, WhereRun DEF Begin, page, memory, Begun, Working
  <2> QED
    BY <1>1, <1>14, <2>1 DEF Begin, page, memory
<1>15. CASE TakeCursor \/ Pull \/ NextPage \/ Apply
  <2>1. /\ run.pc \in {"push", "pull", "page", "apply"} /\ run'.pc \in {"pull", "page"}
        /\ run'.session = run.session /\ UNCHANGED <<session, ui, user, load, loaded>>
    BY <1>0, <1>15, ZenonT(60) DEF TakeCursor, Pull, NextPage, Apply, RunType, page, memory
  <2> QED
    BY <2>1, WhereRun DEF Begun, Working
<1>16. CASE Examine
  <2>1. CASE run' # NoRun
    <3>1. /\ run.pc = "page" /\ run'.pc \in {"page", "apply"}
          /\ run'.session = run.session /\ UNCHANGED <<session, ui, user, load, loaded>>
          /\ run'.pc = "apply" => run.session = session
      BY <1>0, <1>16, <2>1 DEF Examine, RunType, page
    <3> QED
      BY <3>1, WhereRun DEF Begun, Working
  <2> QED
    BY <1>1, <1>16, <2>1 DEF Examine, page
<1>17. CASE Finish \/ Fail \/ \E i \in Item : SaveItem(i) \/ OtherDevice(i)
  BY <1>1, <1>17 DEF Finish, Fail, SaveItem, OtherDevice, page, memory
<1>18. CASE UNCHANGED vars
  BY <1>1, <1>18 DEF vars, page, memory
<1> QED
  BY <1>3, <1>4, <1>5, <1>6, <1>7, <1>8, <1>9, <1>10, <1>11, <1>12, <1>13, <1>14, <1>15, <1>16, <1>17, <1>18
  DEF Next, RunStep
-----------------------------------------------------------------------------
(* What is known up to a cursor.  It matters for users whose vault no run   *)
(* outlived.                                                                *)
OwnRun ==
  ~Idle /\ user \notin torn =>
    run.user = user /\ run.session = session /\ (Working => run.space = user)

LEMMA OwnInit == Init => OwnRun
  BY DEF Init, OwnRun, NoRun, Idle

LEMMA TornGrows == [Next]_vars => torn \subseteq torn'
<1>1. Next => UNCHANGED torn \/ LoadFirst \/ Lock \/ \E u \in User : Switch(u)
  BY Zenon DEF Next, RunStep, Unlock, Decrypt, SelectVault, OtherDevice, PushItem, SaveItem, Merge,
     Leave, Restart, Start, RunReads, Begin, TakeCursor, Pull, Examine, Apply, NextPage, Finish,
     Fail, aux
<1> QED
  BY <1>1 DEF LoadFirst, Lock, Switch, vars, aux

LEMMA OwnStep ==
  ASSUME SessionShape, WhereInv, OwnRun, [Next]_vars
  PROVE  OwnRun'
<1>0. run \in RunType /\ RunOK /\ torn \subseteq torn'
  BY TornGrows DEF SessionShape, RunOK
<1>1. CASE UNCHANGED <<run, user, session>> \/ run' = NoRun
  BY <1>0, <1>1 DEF OwnRun, NoRun, Idle, Working
<1>2. CASE Unlock
  <2>1. session = 0 /\ UNCHANGED <<run, user, torn>>
    BY <1>2 DEF Unlock, aux
  <2> QED
    BY <1>0, <2>1 DEF OwnRun, RunOK, Idle, Working
<1>3. CASE LoadFirst \/ Lock \/ \E u \in User : Switch(u)
  <2>1. ~Idle => user' \in torn'
    BY <1>3 DEF LoadFirst, Lock, Switch, Outlived
  <2>2. run' = run
    BY <1>3 DEF LoadFirst, Lock, Switch
  <2> QED
    BY <2>1, <2>2 DEF OwnRun, Idle
<1>4. CASE Start
  <2>1. /\ run'.pc = "load" /\ run'.session = session /\ run'.user = user
        /\ UNCHANGED <<session, user>>
    BY <1>4 DEF Start, NoRun, page
  <2> QED
    BY <2>1 DEF OwnRun, Working
<1>5. CASE Begin
  <2>1. run' # NoRun => run'.session = run.session /\ run'.user = run.user /\ run'.space = user /\ ~Idle
    BY <1>0, <1>5 DEF Begin, RunType, Idle
  <2>2. UNCHANGED <<session, user>>
    BY <1>5 DEF Begin, page
  <2> QED
    BY <1>0, <1>1, <2>1, <2>2 DEF OwnRun
<1>6. CASE RunReads \/ Merge
  <2>1. run' \in {NoRun, run} \/ run' = [run EXCEPT !.pc = "wait"] \/ run' = [run EXCEPT !.pc = "begin"]
    BY <1>6 DEF RunReads, Merge
  <2>2. run' # run /\ run' # NoRun => ~Working' /\ ~Idle /\ run'.session = run.session /\ run'.user = run.user
    BY <1>0, <1>6, <2>1 DEF RunReads, Merge, RunType, Working, Idle
  <2>3. UNCHANGED <<session, user>>
    BY <1>6 DEF RunReads, Merge, page
  <2> QED
    BY <1>0, <1>1, <2>1, <2>2, <2>3 DEF OwnRun
<1>7. CASE TakeCursor \/ Pull \/ NextPage \/ Apply \/ Examine \/ \E i \in Item : PushItem(i)
  <2>1. UNCHANGED <<session, user>>
    BY <1>7 DEF TakeCursor, Pull, NextPage, Apply, Examine, PushItem, page
  <2>2. run' # NoRun => /\ run'.session = run.session /\ run'.user = run.user /\ run'.space = run.space
                        /\ Working
    BY <1>0, <1>7, ZenonT(60) DEF TakeCursor, Pull, NextPage, Apply, Examine, PushItem, RunType, Working
  <2> QED
    BY <1>0, <1>1, <2>1, <2>2 DEF OwnRun, Working, Idle
<1>8. CASE Decrypt \/ Finish \/ Fail \/ Restart \/ \E i \in Item : SaveItem(i) \/ OtherDevice(i)
  <2>1. UNCHANGED <<run, user, session>> \/ run' = NoRun
    BY <1>8 DEF Decrypt, Finish, Fail, Restart, SaveItem, OtherDevice, page
  <2> QED
    BY <1>1, <2>1
<1>9. CASE (\E v \in Vault : SelectVault(v)) \/ \E u \in User \cup {NoUser} : Leave(u)
  <2>1. UNCHANGED <<run, user, session>>
    BY <1>9 DEF SelectVault, Leave, page
  <2> QED
    BY <1>1, <2>1
<1> QED
  BY <1>1, <1>2, <1>3, <1>4, <1>5, <1>6, <1>7, <1>8, <1>9 DEF Next, RunStep, vars, page

LEMMA OwnRuns ==
  ASSUME SessionShape, WhereInv, OwnRun, ~Idle, user \notin torn
  PROVE  /\ Active /\ run.session = session /\ run.user = user /\ (Working => run.space = user)
         /\ Begun => load.pc = "idle"
  BY DEF SessionShape, RunOK, WhereInv, OwnRun, Active

RevisionIn(lg, n) == Cardinality({m \in 1..n : lg[m].item = lg[n].item})

Covers(lg, entry, i, c) ==
  entry.state \in {"clean", "dirty"} =>
    \A n \in 1..c : lg[n].item = i => RevisionIn(lg, n) <= entry.revision

(* The same of a record that is to be there if there is an event.           *)
KeptTo(lg, entry, i, c) ==
  entry.state # "conflicted" =>
    \A n \in 1..c : lg[n].item = i => RevisionIn(lg, n) <= entry.revision

(* The record has caught up with an event.                                  *)
Caught(lg, entry, n) ==
  entry.state # "none" /\ (entry.state \in {"clean", "dirty"} => RevisionIn(lg, n) <= entry.revision)

DiskCovers == \A i \in Item : Owner(i) \notin torn => KeptTo(log, disk[i], i, diskCursor[Owner(i)])
MemoryCovers ==
  user \notin torn /\ Active => \A i \in Item : Owner(i) = user => Covers(log, mem[i], i, cursor)
LoadCovers ==
  user \notin torn /\ load.pc # "idle" /\ load.session = session =>
    \A i \in Item : Owner(i) = user => Covers(log, load.items[i], i, cursor)
PushesMemory ==
  user \notin torn /\ run.pc = "push" =>
    \A i \in Item : run.items[i].state = "dirty" => mem[i] = run.items[i]
WalksOn ==
  user \notin torn /\ run.pc \in {"pull", "page", "apply"} =>
    /\ cursor <= run.cursor /\ \A n \in run.events : cursor < n
    /\ \A n \in Events :
         cursor < n /\ n <= run.cursor /\ n \notin run.events /\ Owner(log[n].item) = user =>
           Caught(log, mem[log[n].item], n)

CoverInv == DiskCovers /\ MemoryCovers /\ LoadCovers /\ PushesMemory /\ WalksOn

LEMMA RevisionInLog ==
  ASSUME ServerOK
  PROVE  /\ \A n : RevisionAt(n) = RevisionIn(log, n)
         /\ \A n \in Events : RevisionIn(log, n) \in Nat
BY EventTypes DEF RevisionAt, RevisionIn

LEMMA PrefixIn ==
  ASSUME ServerOK, Prefix
  PROVE  \A n \in Events : log'[n] = log[n] /\ RevisionIn(log', n) = RevisionIn(log, n)
BY DEF Prefix, RevisionAt, RevisionIn

LEMMA CoversStays ==
  ASSUME ServerOK, Prefix, NEW r, NEW i, NEW c \in Nat, c <= Len(log), Covers(log, r, i, c)
  PROVE  Covers(log', r, i, c)
<1>1. \A n \in 1..c : n \in Events
  BY EventTypes
<1>2. \A n \in 1..c : log'[n] = log[n] /\ RevisionIn(log', n) = RevisionIn(log, n)
  BY <1>1, PrefixIn
<1> QED
  BY <1>2 DEF Covers

LEMMA KeptStays ==
  ASSUME ServerOK, Prefix, NEW r, NEW i, NEW c \in Nat, c <= Len(log), KeptTo(log, r, i, c)
  PROVE  KeptTo(log', r, i, c)
<1>1. \A n \in 1..c : n \in Events
  BY EventTypes
<1>2. \A n \in 1..c : log'[n] = log[n] /\ RevisionIn(log', n) = RevisionIn(log, n)
  BY <1>1, PrefixIn
<1> QED
  BY <1>2 DEF KeptTo

LEMMA KeptCovers ==
  ASSUME NEW lg, NEW r \in Record, NEW i, NEW c
  PROVE  /\ KeptTo(lg, r, i, c) => Covers(lg, r, i, c)
         /\ Covers(lg, r, i, c) /\ r # Absent => KeptTo(lg, r, i, c)
BY DEF Record, KeptTo, Covers

LEMMA AbsentCovers == \A lg, i, c : Covers(lg, Absent, i, c)
  BY DEF Covers, Absent

LEMMA CoverInit == Init => CoverInv
<1> SUFFICES ASSUME Init PROVE CoverInv
  OBVIOUS
<1>1. ServerOK
  BY SessionShapeInit DEF SessionShape
<1>2. ASSUME NEW i \in Item PROVE KeptTo(log, disk[i], i, diskCursor[Owner(i)])
  <2>0. diskCursor[Owner(i)] = Len(log)
    BY RecordTypes DEF Init
  <2>1. CASE Latest(i) = 1
    <3>1. disk[i] = Clean(1)
      BY <2>1 DEF Init
    <3>2. \A n \in 1..Len(log) : log[n].item = i => RevisionIn(log, n) <= 1
      BY <1>1, <2>1, EventTypes, RevisionsAreLatest, RevisionInLog
    <3> QED
      BY <2>0, <3>1, <3>2 DEF KeptTo, Clean
  <2>2. CASE Latest(i) # 1
    <3>1. ASSUME NEW n \in Events, log[n].item = i PROVE FALSE
      <4>1. {m \in Events : log[m].item = i} = {n}
        <5>1. \A m \in Events : log[m].item = i => m = n
          BY <3>1 DEF Init, Events
        <5> QED
          BY <3>1, <5>1
      <4>2. Latest(i) = 1
        BY <4>1, FS_Singleton DEF Latest
      <4> QED
        BY <2>2, <4>2
    <3> QED
      BY <1>1, <2>0, <3>1, EventTypes DEF KeptTo
  <2> QED
    BY <2>1, <2>2
<1> QED
  BY <1>2 DEF Init, CoverInv, DiskCovers, MemoryCovers, LoadCovers, PushesMemory, WalksOn, Active,
     NoRun, NoLoad
(* The facts that every step is judged by                                   *)
LEMMA SessionFacts ==
  ASSUME SessionShape, [Next]_vars
  PROVE  /\ ServerOK /\ StoreOK /\ SessionOK /\ LoadOK /\ RunOK /\ Prefix /\ ServerOK'
         /\ torn \subseteq torn'
         /\ run \in RunType /\ load \in LoadType /\ mem \in Table /\ disk \in Table
         /\ mem' \in Table
         /\ load.items \in Table /\ run.items \in Table
         /\ cursor \in Nat /\ cursor = diskCursor[user] /\ cursor <= Len(log) /\ user \in User
         /\ run.cursor \in Nat /\ run.cursor <= Len(log)
         /\ \A i \in Item : mem[i] \in Record /\ disk[i] \in Record
BY LogStep, MemoryStep, TornGrows DEF SessionShape, StoreOK, LoadOK, RunOK, LoadType, RunType, Table

LEMMA NewItem ==
  ASSUME ServerOK, NEW i \in Item, Latest(i) = 0
  PROVE  \A n \in Events : log[n].item # i
BY RevisionsAreLatest

LEMMA MemoryCoversStep ==
  ASSUME SessionShape, WhereInv, OwnRun, CoverInv, [Next]_vars
  PROVE  MemoryCovers'
<1> SUFFICES ASSUME user' \notin torn', Active', NEW i \in Item, Owner(i) = user'
             PROVE  Covers(log', mem'[i], i, cursor')
  BY DEF MemoryCovers, Owner
<1>0. /\ ServerOK /\ Prefix /\ torn \subseteq torn' /\ run \in RunType /\ RunOK /\ mem \in Table
      /\ mem' \in Table
      /\ cursor \in Nat /\ cursor <= Len(log) /\ run.cursor \in Nat /\ run.cursor <= Len(log)
  BY SessionFacts
<1>t. mem[i] \in Record /\ mem[i].revision \in Nat
  BY <1>0, RecordTypes DEF Table
<1>m. ASSUME Active, UNCHANGED <<user, cursor>> PROVE Covers(log, mem[i], i, cursor)
  BY <1>0, <1>m DEF CoverInv, MemoryCovers
<1>1. ASSUME Active, UNCHANGED <<user, cursor>>, mem'[i] = mem[i]
      PROVE  Covers(log', mem'[i], i, cursor')
  BY <1>0, <1>1, <1>m, CoversStays
<1>2. CASE mem' = Nothing \/ session' = 0
  BY <1>2, RecordTypes, AbsentCovers DEF Active
<1>3. CASE Merge
  <2>1. /\ Active /\ UNCHANGED <<user, session, cursor>> /\ load.pc = "merge"
        /\ mem' = Merged(load.items)
    BY <1>3, Pages DEF Merge, Active
  <2>2. Covers(log, load.items[i], i, cursor)
    BY <1>0, <2>1 DEF WhereInv, CoverInv, LoadCovers
  <2>3. mem'[i] \in {mem[i], load.items[i]}
    BY <2>1 DEF Merged
  <2> QED
    BY <1>0, <1>m, <2>1, <2>2, <2>3, CoversStays
<1>4. ASSUME NEW j \in Item, SaveItem(j) PROVE Covers(log', mem'[i], i, cursor')
  <2>1. /\ Active /\ UNCHANGED <<log, user, cursor>>
        /\ mem[j].state = "clean" \/ (~Here(j) /\ Latest(j) = 0)
        /\ mem' = [mem EXCEPT ![j] = [revision |-> @.revision + 1, state |-> "dirty"]]
    BY <1>4, Pages DEF SaveItem, page, Active
  <2>2. CASE i # j
    BY <1>0, <1>1, <2>1, <2>2 DEF Table
  <2>3. CASE i = j
    <3>1. mem'[i] = [revision |-> mem[i].revision + 1, state |-> "dirty"]
      BY <1>0, <2>1, <2>3 DEF Table
    <3>2. \A n \in 1..cursor : n \in Events /\ RevisionIn(log, n) \in Nat
      BY <1>0, EventTypes, RevisionInLog
    <3>3. CASE mem[j].state = "clean"
      BY <1>m, <1>t, <2>1, <2>3, <3>1, <3>2, <3>3 DEF Covers
    <3>4. CASE Latest(j) = 0
      BY <1>0, <2>1, <2>3, <3>2, <3>4, NewItem DEF Covers
    <3> QED
      BY <2>1, <3>3, <3>4
  <2> QED
    BY <2>2, <2>3
<1>5. ASSUME NEW j \in Item, PushItem(j) PROVE Covers(log', mem'[i], i, cursor')
  <2>1. /\ UNCHANGED <<user, session, cursor, ui, torn>> /\ ~Idle /\ run.pc = "push"
        /\ run.items[j].state = "dirty"
        /\ mem' = mem \/ (mem[j] # Absent /\ \E s \in {"clean", "conflicted"} : mem' = [mem EXCEPT ![j].state = s])
    BY <1>5 DEF PushItem, page, aux, Idle, Dirty, Here
  <2>2. Active
    BY <2>1, OwnRuns
  <2>3. CASE mem'[i] = mem[i]
    BY <1>1, <2>1, <2>2, <2>3
  <2>4. CASE mem'[i] # mem[i]
    <3>1. i = j /\ mem[i] # Absent /\ mem'[i].revision = mem[i].revision
      <4>1. PICK s \in {"clean", "conflicted"} : mem[j] # Absent /\ mem' = [mem EXCEPT ![j].state = s]
        BY <2>1, <2>4
      <4>2. i = j
        BY <1>0, <2>4, <4>1 DEF Table
      <4>3. mem'[j] = [revision |-> mem[j].revision, state |-> s]
        <5>1. mem[j] \in [revision : Nat, state : {"clean", "dirty", "conflicted"}]
          BY <1>0, <4>1 DEF Table, Record
        <5>2. [mem[j] EXCEPT !.state = s] = [revision |-> mem[j].revision, state |-> s]
          BY <5>1
        <5>3. mem'[j] = [mem[j] EXCEPT !.state = s]
          BY <1>0, <4>1 DEF Table
        <5> QED
          BY <5>2, <5>3
      <4> QED
        BY <4>1, <4>2, <4>3
    <3>2. mem[i].state = "dirty"
      BY <2>1, <3>1 DEF CoverInv, PushesMemory
    <3>3. Covers(log, mem'[i], i, cursor)
      BY <1>m, <2>1, <2>2, <3>1, <3>2 DEF Covers
    <3> QED
      BY <1>0, <2>1, <3>3, CoversStays
  <2> QED
    BY <2>3, <2>4
<1>6. CASE Examine
  <2>1. /\ UNCHANGED <<user, session, cursor, ui, torn>> /\ ~Idle /\ run.events # {}
        /\ run.pc = "page"
        /\ mem' = IF Verdict(First) = "conflict" THEN [mem EXCEPT ![log[First].item].state = "conflicted"] ELSE mem
    BY <1>6 DEF Examine, page, aux, Idle
  <2>2. Active
    BY <2>1, OwnRuns
  <2>3. CASE mem'[i] = mem[i]
    BY <1>1, <2>1, <2>2, <2>3
  <2>4. CASE mem'[i] # mem[i]
    <3>1. mem'[i].state = "conflicted"
      <4>1. Verdict(First) = "conflict" => mem[log[First].item] # Absent
        BY DEF Verdict, Absent
      <4> QED
        BY <1>0, <2>1, <2>4, <4>1, StateChange, FirstIsLeast DEF Table
    <3> QED
      BY <3>1 DEF Covers
  <2> QED
    BY <2>3, <2>4
<1>7. CASE Apply
  <2>1. /\ UNCHANGED <<log, user, session, cursor, ui, torn>> /\ ~Idle /\ run.events # {}
        /\ run.pc = "apply"
        /\ mem' = [mem EXCEPT ![log[First].item] = Clean(RevisionAt(First))]
    BY <1>0, <1>7 DEF Apply, page, Idle, RunOK
  <2>2. Active
    BY <2>1, OwnRuns
  <2>3. CASE i # log[First].item
    BY <1>0, <1>1, <2>1, <2>2, <2>3 DEF Table
  <2>4. CASE i = log[First].item
    <3>1. mem'[i] = Clean(RevisionAt(First)) /\ First \in Events
      BY <1>0, <2>1, <2>4, FirstIsLeast DEF Table
    <3>2. cursor < First /\ First \in Nat
      BY <1>0, <2>1, FirstIsLeast DEF CoverInv, WalksOn
    <3>3. ASSUME NEW n \in 1..cursor, log[n].item = i PROVE RevisionIn(log, n) <= RevisionAt(First)
      <4>1. n \in Events /\ n <= First
        BY <1>0, <3>2, EventTypes
      <4>2. log[n].item = log[First].item
        BY <2>4, <3>3
      <4>3. RevisionAt(n) <= RevisionAt(First)
        BY <1>0, <3>1, <4>1, <4>2, RevisionGrows
      <4> QED
        BY <1>0, <4>3, RevisionInLog
    <3> QED
      BY <2>1, <3>1, <3>3 DEF Covers, Clean
  <2> QED
    BY <2>3, <2>4
<1>8. CASE Finish
  <2>1. /\ UNCHANGED <<log, user, session, ui, torn, mem>> /\ ~Idle /\ run.events = {}
        /\ run.pc = "page"
        /\ cursor' = run.cursor
    BY <1>8 DEF Finish, page, memory, aux, Idle
  <2>2. Active
    BY <2>1, OwnRuns
  <2>3. Covers(log, mem[i], i, cursor)
    BY <2>1, <2>2 DEF CoverInv, MemoryCovers
  <2>4. ASSUME NEW n \in 1..run.cursor, log[n].item = i, mem[i].state \in {"clean", "dirty"}
        PROVE  RevisionIn(log, n) <= mem[i].revision
    <3>1. n \in Events
      BY <1>0, EventTypes
    <3>2. CASE n <= cursor
      BY <1>0, <2>3, <2>4, <3>2 DEF Covers
    <3>3. CASE cursor < n
      BY <1>0, <2>1, <2>4, <3>1, <3>3 DEF CoverInv, WalksOn, Caught
    <3> QED
      BY <1>0, <3>2, <3>3
  <2> QED
    BY <2>1, <2>4 DEF Covers
<1>9. CASE UNCHANGED <<mem, session, ui, user, cursor>>
  BY <1>1, <1>9 DEF Active
<1>10. CASE Unlock
  BY <1>10 DEF Unlock, Active
<1>11. ASSUME NEW u \in User \cup {NoUser}, Leave(u) PROVE Covers(log', mem'[i], i, cursor')
  <2>1. ui = <<"idle">> /\ UNCHANGED <<mem, session, user, cursor>>
    BY <1>11 DEF Leave, memory
  <2> QED
    BY <1>1, <2>1, Pages DEF Active
<1>12. Next => \/ UNCHANGED <<mem, session, ui, user, cursor>> \/ mem' = Nothing \/ session' = 0
               \/ Unlock \/ Merge \/ Examine \/ Apply \/ Finish
               \/ (\E j \in Item : SaveItem(j) \/ PushItem(j)) \/ \E u \in User \cup {NoUser} : Leave(u)
  BY Zenon DEF Next, RunStep, LoadFirst, Decrypt, Lock, Restart, SelectVault, OtherDevice, Switch,
     Start, RunReads, Begin, TakeCursor, Pull, NextPage, Fail, memory, page
<1> QED
  BY <1>1, <1>2, <1>3, <1>4, <1>5, <1>6, <1>7, <1>8, <1>9, <1>10, <1>11, <1>12 DEF vars, memory,
     page
(* What a save writes is what the memory has.                               *)
LEMMA DiskCoversStep ==
  ASSUME SessionShape, WhereInv, OwnRun, CoverInv, [Next]_vars, MemoryCovers'
  PROVE  DiskCovers'
<1> SUFFICES ASSUME NEW i \in Item, Owner(i) \notin torn'
             PROVE  KeptTo(log', disk'[i], i, diskCursor'[Owner(i)])
  BY DEF DiskCovers, Owner
<1>0. /\ ServerOK /\ StoreOK /\ SessionOK /\ Prefix /\ torn \subseteq torn' /\ mem' \in Table
      /\ RunOK
      /\ cursor \in Nat /\ cursor = diskCursor[user] /\ cursor <= Len(log) /\ user \in User
      /\ run.cursor \in Nat /\ run.cursor <= Len(log)
  BY SessionFacts
<1>1. KeptTo(log', disk[i], i, diskCursor[Owner(i)])
  <2>1. KeptTo(log, disk[i], i, diskCursor[Owner(i)])
    BY <1>0 DEF CoverInv, DiskCovers
  <2>2. diskCursor[Owner(i)] \in Nat /\ diskCursor[Owner(i)] <= Len(log)
    BY <1>0, RecordTypes DEF StoreOK
  <2> QED
    BY <1>0, <2>1, <2>2, KeptStays
<1>2. CASE disk' = disk /\ diskCursor' = diskCursor
  BY <1>1, <1>2
<1>3. ASSUME Persist(mem', cursor'), UNCHANGED user, cursor' \in Nat,
             Owner(i) = user => /\ Active' /\ session # 0
                                /\ mem'[i] = Absent => KeptTo(log', disk[i], i, cursor')
      PROVE  KeptTo(log', disk'[i], i, diskCursor'[Owner(i)])
  <2>1. /\ diskCursor'[user] = cursor' /\ \A u \in User : u # user => diskCursor'[u] = diskCursor[u]
        /\ disk'[i] = IF session = 0 \/ mem'[i] = Absent \/ Owner(i) # user THEN disk[i] ELSE mem'[i]
    BY <1>0, <1>3, Persisting
  <2>2. CASE Owner(i) # user
    BY <1>1, <2>1, <2>2, RecordTypes
  <2>3. CASE Owner(i) = user
    <3>1. CASE mem'[i] = Absent
      BY <1>3, <2>1, <2>3, <3>1
    <3>2. CASE mem'[i] # Absent
      <4>1. Covers(log', mem'[i], i, cursor')
        BY <1>3, <2>3 DEF MemoryCovers, Owner
      <4>2. mem'[i] \in Record
        BY <1>0 DEF Table
      <4> QED
        BY <1>3, <2>1, <2>3, <3>2, <4>1, <4>2, KeptCovers
    <3> QED
      BY <3>1, <3>2
  <2> QED
    BY <2>2, <2>3
<1>4. CASE Merge
  <2>1. CASE ui = <<"loading">>
    <3>1. /\ Persist(mem', cursor) /\ cursor' = cursor /\ UNCHANGED <<user, session>>
          /\ ui' = <<"idle">> /\ session # 0
      BY <1>0, <1>4, <2>1 DEF Merge, SessionOK
    <3>2. Active'
      BY <3>1, Pages DEF Active
    <3> QED
      BY <1>0, <1>1, <1>3, <3>1, <3>2
  <2>2. CASE ui # <<"loading">>
    BY <1>2, <1>4, <2>2 DEF Merge, saved
  <2> QED
    BY <2>1, <2>2
<1>5. ASSUME NEW j \in Item, SaveItem(j) PROVE KeptTo(log', disk'[i], i, diskCursor'[Owner(i)])
  <2>1. /\ Persist(mem', cursor) /\ cursor' = cursor /\ UNCHANGED <<user, session, ui>>
        /\ ui = <<"idle">> /\ session # 0
    BY <1>5 DEF SaveItem, page
  <2>2. Active'
    BY <2>1, Pages DEF Active
  <2> QED
    BY <1>0, <1>1, <1>3, <2>1, <2>2
<1>6. ASSUME NEW u \in User \cup {NoUser}, Leave(u)
      PROVE  KeptTo(log', disk'[i], i, diskCursor'[Owner(i)])
  <2>1. /\ UNCHANGED <<user, session, mem, cursor>> /\ ui' = <<"leave", u>>
        /\ IF session # 0 THEN Persist(mem, cursor) ELSE UNCHANGED saved
    BY <1>6 DEF Leave, memory
  <2>2. session # 0 => Active'
    BY <2>1, Pages DEF Active
  <2>3. CASE session # 0
    <3>1. Persist(mem', cursor')
      BY <2>1, <2>3
    <3> QED
      BY <1>0, <1>1, <1>3, <2>1, <2>2, <2>3, <3>1
  <2>4. CASE session = 0
    BY <1>2, <2>1, <2>4 DEF saved
  <2> QED
    BY <2>3, <2>4
<1>7. CASE Finish
  <2>1. /\ UNCHANGED <<log, user, session, ui, torn, mem>> /\ ~Idle /\ run.events = {}
        /\ run.pc = "page"
        /\ cursor' = run.cursor /\ Persist(mem, cursor')
    BY <1>7 DEF Finish, page, memory, aux, Idle
  <2>2. ASSUME Owner(i) = user PROVE Active /\ session # 0
    BY <2>1, <2>2, OwnRuns DEF Active
  <2>3. ASSUME Owner(i) = user, mem'[i] = Absent PROVE KeptTo(log', disk[i], i, cursor')
    <3>1. KeptTo(log, disk[i], i, cursor)
      BY <1>0, <1>1, <2>1, <2>3
    <3>2. ASSUME NEW n \in 1..run.cursor, log[n].item = i PROVE n <= cursor
      <4>1. n \in Events
        BY <1>0, EventTypes
      <4>2. user \notin torn /\ mem[i] = Absent /\ n \notin run.events /\ n <= run.cursor
        BY <1>0, <2>1, <2>3, <3>2
      <4>3. ASSUME cursor < n PROVE Caught(log, mem[log[n].item], n)
        BY <2>1, <2>3, <3>2, <4>1, <4>2, <4>3 DEF CoverInv, WalksOn
      <4>4. ~(cursor < n)
        BY <3>2, <4>2, <4>3 DEF Caught, Absent
      <4> QED
        BY <1>0, <4>4
    <3> QED
      BY <1>0, <2>1, <3>1, <3>2 DEF KeptTo
  <2>4. Owner(i) = user => Active'
    BY <2>1, <2>2 DEF Active
  <2> QED
    BY <1>0, <1>3, <2>1, <2>2, <2>3, <2>4
<1>8. ASSUME NEW u \in User, Switch(u) PROVE disk' = disk /\ diskCursor' = diskCursor
  BY <1>0, <1>8 DEF Switch, StoreOK
<1>9. Next => \/ (disk' = disk /\ diskCursor' = diskCursor) \/ Merge \/ Finish
              \/ (\E j \in Item : SaveItem(j)) \/ (\E u \in User : Switch(u)) \/ \E u \in User \cup {NoUser} : Leave(u)
  BY Zenon DEF Next, RunStep, Unlock, LoadFirst, Decrypt, Lock, Restart, SelectVault, OtherDevice,
     PushItem, Start, RunReads, Begin, TakeCursor, Pull, Examine, Apply, NextPage, Fail, saved
<1> QED
  BY <1>2, <1>4, <1>5, <1>6, <1>7, <1>8, <1>9 DEF vars, saved

LEMMA LoadCoversStep ==
  ASSUME SessionShape, WhereInv, OwnRun, CoverInv, [Next]_vars
  PROVE  LoadCovers'
<1> SUFFICES ASSUME user' \notin torn', load'.pc # "idle", load'.session = session', NEW i \in Item, Owner(i) = user'
             PROVE  Covers(log', load'.items[i], i, cursor')
  BY DEF LoadCovers, Owner
<1>0. /\ ServerOK /\ StoreOK /\ SessionOK /\ LoadOK /\ Prefix /\ torn \subseteq torn'
      /\ load \in LoadType
      /\ cursor \in Nat /\ cursor = diskCursor[user] /\ cursor <= Len(log) /\ disk[i] \in Record
  BY SessionFacts
<1>1. ASSUME NEW vaults, load'.items = Read(vaults), UNCHANGED <<user, cursor>>
      PROVE  Covers(log', load'.items[i], i, cursor')
  <2>1. load'.items[i] = disk[i] \/ load'.items[i] = Absent
    BY <1>1 DEF Read
  <2>2. Covers(log, disk[i], i, cursor)
    BY <1>0, <1>1, KeptCovers DEF CoverInv, DiskCovers
  <2> QED
    BY <1>0, <1>1, <2>1, <2>2, CoversStays, AbsentCovers
<1>2. ASSUME load'.items = load.items, load'.session = load.session, load.pc # "idle",
             UNCHANGED <<user, session, cursor>>
      PROVE  Covers(log', load'.items[i], i, cursor')
  <2>1. Covers(log, load.items[i], i, cursor)
    BY <1>0, <1>2 DEF CoverInv, LoadCovers
  <2> QED
    BY <1>0, <1>2, <2>1, CoversStays
<1>3. CASE load' = NoLoad \/ session' = 0
  <2>1. load' \in LoadType /\ load'.session # 0
    BY LoadStep DEF LoadOK
  <2> QED
    BY <1>3, <2>1 DEF NoLoad
<1>4. CASE Unlock
  <2>1. session' = sessions + 1 /\ load' = load
    BY <1>4 DEF Unlock
  <2> QED
    BY <1>0, <2>1 DEF LoadOK, LoadType, SessionOK
<1>5. CASE LoadFirst
  BY <1>1, <1>5 DEF LoadFirst
<1>6. ASSUME NEW v \in Vault, SelectVault(v) PROVE Covers(log', load'.items[i], i, cursor')
  BY <1>1, <1>6 DEF SelectVault, page
<1>7. CASE RunReads
  BY <1>1, <1>2, <1>7 DEF RunReads, page
<1>8. CASE Decrypt
  BY <1>0, <1>2, <1>3, <1>8 DEF Decrypt, page, LoadType
<1>9. CASE Finish
  <2>1. /\ UNCHANGED <<user, torn, load>> /\ ~Idle /\ run.pc = "page"
    BY <1>9 DEF Finish, page, aux, Idle
  <2> QED
    BY <2>1, OwnRuns DEF Begun, Working
<1>10. Next => \/ UNCHANGED <<load, user, session, cursor>> \/ load' = NoLoad \/ session' = 0
               \/ Unlock \/ LoadFirst \/ RunReads \/ Decrypt \/ Finish \/ \E v \in Vault : SelectVault(v)
  BY Zenon DEF Next, RunStep, Merge, Lock, Restart, SaveItem, OtherDevice, PushItem, Switch, Leave,
     Start, Begin, TakeCursor, Pull, Examine, Apply, NextPage, Fail, page
<1> QED
  BY <1>2, <1>3, <1>4, <1>5, <1>6, <1>7, <1>8, <1>9, <1>10 DEF vars, page

LEMMA PushesMemoryStep ==
  ASSUME SessionShape, WhereInv, OwnRun, CoverInv, [Next]_vars
  PROVE  PushesMemory'
<1> SUFFICES ASSUME user' \notin torn', run'.pc = "push", NEW i \in Item, run'.items[i].state = "dirty"
             PROVE  mem'[i] = run'.items[i]
  BY DEF PushesMemory
<1>0. /\ RunOK /\ run \in RunType /\ run.items \in Table /\ torn \subseteq torn'
      /\ mem \in Table /\ mem[i] \in Record
  BY SessionFacts
<1>1. ASSUME run.pc = "push", user' = user, run'.items[i] = run.items[i], mem'[i] = mem[i]
      PROVE  mem'[i] = run'.items[i]
  BY <1>0, <1>1 DEF CoverInv, PushesMemory
<1>2. CASE Begin
  <2>1. run' = [run EXCEPT !.space = user, !.items = mem, !.pc = "push"] /\ mem' = mem
    BY <1>2 DEF Begin, NoRun, memory
  <2> QED
    BY <1>0, <2>1 DEF RunType
<1>3. ASSUME NEW j \in Item, PushItem(j) PROVE mem'[i] = run'.items[i]
  <2>1. /\ run.pc = "push" /\ user' = user /\ run' = [run EXCEPT !.items[j] = Absent]
        /\ mem' = mem \/ (\E s : mem' = [mem EXCEPT ![j].state = s])
    BY <1>3 DEF PushItem, page
  <2>2. run'.items = [run.items EXCEPT ![j] = Absent]
    BY <1>0, <2>1 DEF RunType
  <2>3. i # j /\ run'.items[i] = run.items[i]
    BY <1>0, <2>2 DEF Table, Absent
  <2>4. mem'[i] = mem[i]
    BY <1>0, <2>1, <2>3 DEF Table
  <2> QED
    BY <1>1, <2>1, <2>3, <2>4
<1>4. ASSUME NEW j \in Item, SaveItem(j) PROVE mem'[i] = run'.items[i]
  <2>1. /\ UNCHANGED <<user, run, torn>>
        /\ mem[j].state = "clean" \/ mem[j] = Absent
        /\ mem' = [mem EXCEPT ![j] = [revision |-> @.revision + 1, state |-> "dirty"]]
    BY <1>4 DEF SaveItem, page, Here
  <2>2. mem[i] = run.items[i]
    BY <2>1 DEF CoverInv, PushesMemory
  <2>3. i # j
    BY <2>1, <2>2 DEF Absent
  <2>4. mem'[i] = mem[i]
    BY <1>0, <2>1, <2>3 DEF Table
  <2> QED
    BY <2>1, <2>2, <2>4
<1>5. CASE LoadFirst \/ Lock \/ \E u \in User : Switch(u)
  <2>1. run' = run /\ (~Idle => user' \in torn')
    BY <1>5 DEF LoadFirst, Lock, Switch, Outlived
  <2> QED
    BY <2>1 DEF Idle
<1>6. CASE Merge
  <2>1. /\ UNCHANGED <<user, torn>> /\ load.pc = "merge" /\ (run.pc # "wait" => run' = run)
    BY <1>6 DEF Merge
  <2>2. run.pc # "wait"
    BY <1>0, <1>6 DEF Merge, RunType
  <2> QED
    BY <2>1, <2>2, OwnRuns DEF Begun, Working, Idle
<1>7. CASE Start \/ RunReads \/ TakeCursor \/ Pull \/ Examine \/ Apply \/ NextPage \/ Finish \/ Fail \/ Restart
  <2>1. run'.pc \in {"idle", "load", "wait", "pull", "page", "apply"}
    <3>0. NoRun.pc = "idle" /\ NoRun \in RunType
      BY NoTypes DEF NoRun
    <3>1. CASE Start \/ Finish \/ Fail \/ Restart
      <4>1. run' = NoRun \/ run' = [NoRun EXCEPT !.user = user, !.session = session, !.pc = "load"]
        BY <3>1 DEF Start, Finish, Fail, Restart
      <4> QED
        BY <3>0, <4>1 DEF RunType
    <3>2. CASE RunReads \/ TakeCursor \/ Pull \/ NextPage
      BY <1>0, <3>0, <3>2 DEF RunReads, TakeCursor, Pull, NextPage, RunType
    <3>3. CASE Examine \/ Apply
      BY <1>0, <3>0, <3>3 DEF Examine, Apply, RunType
    <3> QED
      BY <1>7, <3>1, <3>2, <3>3
  <2> QED
    BY <2>1
<1>8. CASE Decrypt
  BY <1>1, <1>8 DEF Decrypt, page, memory, NoRun
<1>9. CASE UNCHANGED <<run, mem, user>>
  BY <1>1, <1>9
<1>10. Next => \/ UNCHANGED <<run, mem, user>> \/ Begin \/ LoadFirst \/ Lock \/ Merge \/ Decrypt \/ Restart
               \/ Start \/ RunReads \/ TakeCursor \/ Pull \/ Examine \/ Apply \/ NextPage \/ Finish \/ Fail
               \/ (\E u \in User : Switch(u)) \/ \E j \in Item : PushItem(j) \/ SaveItem(j)
  BY Zenon DEF Next, RunStep, Unlock, SelectVault, Leave, OtherDevice, page, memory
<1> QED
  BY <1>2, <1>3, <1>4, <1>5, <1>6, <1>7, <1>8, <1>9, <1>10 DEF vars, memory, page

LEMMA CaughtStays ==
  ASSUME ServerOK, Prefix, NEW n \in Events, NEW r, NEW q, Caught(log, r, n),
         q = r \/ q.state = "conflicted" \/ (/\ r.state = "clean" /\ r.revision \in Nat
                                            /\ q = [revision |-> r.revision + 1, state |-> "dirty"])
  PROVE  Caught(log', q, n)
<1>1. RevisionIn(log', n) = RevisionIn(log, n) /\ RevisionIn(log, n) \in Nat
  BY PrefixIn, RevisionInLog
<1> QED
  BY <1>1 DEF Caught

LEMMA WalksOnStep ==
  ASSUME SessionShape, WhereInv, OwnRun, CoverInv, [Next]_vars
  PROVE  WalksOn'
<1> SUFFICES ASSUME user' \notin torn', run'.pc \in {"pull", "page", "apply"}
             PROVE  /\ cursor' <= run'.cursor /\ \A n \in run'.events : cursor' < n
                    /\ \A n \in Events' :
                         cursor' < n /\ n <= run'.cursor /\ n \notin run'.events
                         /\ Owner(log'[n].item) = user' => Caught(log', mem'[log'[n].item], n)
  BY DEF WalksOn, Owner
<1>0. /\ RunOK /\ ServerOK /\ Prefix /\ run \in RunType /\ torn \subseteq torn' /\ mem \in Table
      /\ cursor \in Nat /\ run.cursor \in Nat /\ run.cursor <= Len(log) /\ Len(log) \in Nat
      /\ cursor <= Len(log)
      /\ Events = 1..Len(log) /\ Events' \subseteq Nat
      /\ \A n \in Events : log'[n] = log[n] /\ log[n].item \in Item
      /\ \A i \in Item : mem[i] \in Record /\ mem[i].revision \in Nat
  <2>1. /\ RunOK /\ ServerOK /\ Prefix /\ run \in RunType /\ torn \subseteq torn'
        /\ mem \in Table /\ ServerOK'
        /\ cursor \in Nat /\ run.cursor \in Nat /\ run.cursor <= Len(log) /\ cursor <= Len(log)
        /\ \A i \in Item : mem[i] \in Record
    BY SessionFacts
  <2>2. Events' = 1..Len(log') /\ Len(log') \in Nat
    BY <2>1 DEF ServerOK, Events
  <2> QED
    BY <2>1, <2>2, EventTypes, PrefixIn, RecordTypes, SMTT(30)
(* A step in which the records of the events behind the run stay caught up  *)
<1>1. ASSUME run.pc \in {"pull", "page", "apply"}, UNCHANGED <<user, cursor>>,
             run'.cursor = run.cursor, run'.events \subseteq run.events,
             \A n \in Events : /\ n <= run.cursor /\ n \notin run'.events /\ cursor < n /\ Owner(log[n].item) = user
                               /\ (n \notin run.events => Caught(log, mem[log[n].item], n))
                               => Caught(log', mem'[log[n].item], n)
      PROVE  /\ cursor' <= run'.cursor /\ \A n \in run'.events : cursor' < n
             /\ \A n \in Events' :
                  cursor' < n /\ n <= run'.cursor /\ n \notin run'.events
                  /\ Owner(log'[n].item) = user' => Caught(log', mem'[log'[n].item], n)
  <2>1. user \notin torn
    BY <1>0, <1>1
  <2>2. ASSUME NEW n \in Events', n <= run.cursor, cursor < n PROVE n \in Events
    BY <1>0, <2>2
  <2>3. /\ cursor <= run.cursor /\ \A n \in run.events : cursor < n
        /\ \A n \in Events : cursor < n /\ n <= run.cursor /\ n \notin run.events /\ Owner(log[n].item) = user
             => Caught(log, mem[log[n].item], n)
    BY <1>1, <2>1 DEF CoverInv, WalksOn
  <2>4. ASSUME NEW n \in Events', cursor < n, n <= run.cursor, n \notin run'.events, Owner(log'[n].item) = user
        PROVE  Caught(log', mem'[log'[n].item], n)
    <3>1. n \in Events /\ log'[n] = log[n]
      BY <1>0, <2>2, <2>4
    <3>2. n \notin run.events => Caught(log, mem[log[n].item], n)
      BY <2>3, <2>4, <3>1
    <3>3. Caught(log', mem'[log[n].item], n)
      BY <1>1, <2>4, <3>1, <3>2
    <3> QED
      BY <3>1, <3>3
  <2> QED
    BY <1>1, <2>3, <2>4
<1>2. ASSUME run.pc \in {"pull", "page", "apply"}, run'.cursor = run.cursor, run'.events = run.events,
             UNCHANGED <<user, cursor, mem>>
      PROVE  /\ cursor' <= run'.cursor /\ \A n \in run'.events : cursor' < n
             /\ \A n \in Events' :
                  cursor' < n /\ n <= run'.cursor /\ n \notin run'.events
                  /\ Owner(log'[n].item) = user' => Caught(log', mem'[log'[n].item], n)
  <2>1. \A n \in Events : n \notin run'.events /\ (n \notin run.events => Caught(log, mem[log[n].item], n))
           => Caught(log', mem'[log[n].item], n)
    BY <1>0, <1>2, CaughtStays
  <2> QED
    BY <1>1, <1>2, <2>1
<1>3. CASE TakeCursor
  <2>1. run'.cursor = cursor /\ run'.events = {} /\ cursor' = cursor
    BY <1>0, <1>3 DEF TakeCursor, RunType, RunOK
  <2> QED
    BY <1>0, <2>1
<1>4. CASE Pull
  <2> DEFINE P == PageAfter(run.cursor)
             L == LastOf(P, run.cursor)
  <2>1. /\ run.pc = "pull" /\ run.events = {} /\ ~Idle
        /\ UNCHANGED <<log, user, cursor, mem, torn, session>>
    BY <1>0, <1>4 DEF Pull, RunOK, page, memory, aux, Idle
  <2>2. /\ P \in SUBSET EventsAfter(run.cursor) /\ L \in Nat /\ run.cursor <= L /\ L <= Len(log)
        /\ \A n \in EventsAfter(run.cursor) : n <= L => n \in P
    BY <1>0, PageOf
  <2>3. \A n \in P : n \in Events /\ n \in Nat /\ n > run.cursor
    BY <1>0, <2>2 DEF EventsAfter
  <2> HIDE DEF P, L
  <2>4. run'.events = P /\ run'.cursor = L
    BY <1>0, <1>4 DEF Pull, P, L, RunType
  <2>5. user \notin torn /\ run.user = user
    BY <1>0, <2>1, OwnRuns
  <2>6. /\ cursor <= run.cursor
        /\ \A n \in Events : cursor < n /\ n <= run.cursor /\ Owner(log[n].item) = user => Caught(log, mem[log[n].item], n)
    BY <2>1, <2>5 DEF CoverInv, WalksOn
  <2>7. ASSUME NEW n \in Events, cursor < n, n <= L, n \notin P, Owner(log[n].item) = user
        PROVE  Caught(log, mem[log[n].item], n)
    <3>1. n <= run.cursor
      <4>1. n \notin EventsAfter(run.cursor)
        BY <2>2, <2>7
      <4> QED
        BY <1>0, <2>5, <2>7, <4>1 DEF EventsAfter
    <3> QED
      BY <2>6, <2>7, <3>1
  <2>8. Events' = Events
    BY <2>1 DEF Events
  <2> QED
    BY <1>0, <2>1, <2>2, <2>3, <2>4, <2>6, <2>7, <2>8
<1>5. CASE NextPage
  BY <1>0, <1>2, <1>5 DEF NextPage, RunType, page, memory
<1>6. CASE Examine
  <2>1. /\ run.pc = "page" /\ run.events # {} /\ ~Idle
        /\ UNCHANGED <<log, user, cursor, torn, session>>
        /\ mem' = IF Verdict(First) = "conflict" THEN [mem EXCEPT ![log[First].item].state = "conflicted"] ELSE mem
        /\ First \in run.events /\ First \in Events /\ Owner(log[First].item) = run.user
    BY <1>0, <1>6, FirstIsLeast DEF Examine, page, aux, Idle
  <2>2. run.user = user /\ run.space = user
    BY <1>0, <2>1, OwnRuns DEF Working
  <2>3. CASE Verdict(First) = "apply"
    <3>1. mem' = mem /\ run'.cursor = run.cursor /\ run'.events = run.events
      BY <1>0, <1>6, <2>1, <2>3 DEF Examine, RunType, NoRun
    <3> QED
      BY <1>2, <2>1, <3>1
  <2>4. CASE Verdict(First) # "apply"
    <3>1. run'.cursor = run.cursor /\ run'.events = run.events \ {First}
      BY <1>0, <1>6, <2>1, <2>4 DEF Examine, RunType
    <3>2. \A i \in Item : mem'[i] = mem[i] \/ mem'[i].state = "conflicted"
      <4>1. Verdict(First) = "conflict" => mem[log[First].item] # Absent
        BY DEF Verdict, Absent
      <4>2. CASE Verdict(First) = "conflict"
        <5>1. log[First].item \in Item
          BY <1>0, <2>1
        <5>2. mem'[log[First].item].state = "conflicted"
          BY <1>0, <2>1, <4>1, <4>2, <5>1 DEF Table, Record
        <5>3. \A i \in Item : i # log[First].item => mem'[i] = mem[i]
          BY <1>0, <2>1, <4>2 DEF Table
        <5> QED
          BY <2>1, <4>2, <5>2, <5>3
      <4> QED
        BY <2>1, <4>2
    <3>3. Caught(log, mem'[log[First].item], First)
      <4> DEFINE r == mem[log[First].item]
      <4>1. /\ r \in Record /\ r.revision \in Nat /\ RevisionIn(log, First) = RevisionAt(First)
            /\ RevisionAt(First) \in Nat
        BY <1>0, <2>1, RevisionInLog
      <4>2. CASE Verdict(First) = "conflict"
        <5>1. r # Absent /\ log[First].item \in Item
          BY <1>0, <2>1, <4>2 DEF Verdict, Absent
        <5>2. mem'[log[First].item].state = "conflicted"
          BY <1>0, <2>1, <4>2, <5>1 DEF Table, Record
        <5> QED
          BY <5>2 DEF Caught
      <4>3. CASE Verdict(First) = "skip"
        <5>1. mem' = mem
          BY <2>1, <4>3
        <5>2. Owner(log[First].item) = run.space
          BY <2>1, <2>2
        <5>3. r.state # "none" /\ (r.state = "clean" => r.revision >= RevisionAt(First))
          BY <4>3, <5>2 DEF Verdict
        <5>4. r.state = "dirty" => RevisionAt(First) < r.revision
          BY <4>3, <5>2 DEF Verdict
        <5> QED
          BY <4>1, <5>1, <5>3, <5>4 DEF Caught
      <4>4. Verdict(First) \in {"skip", "apply", "conflict"}
        BY DEF Verdict
      <4> QED
        BY <2>4, <4>2, <4>3, <4>4
    <3>4. ASSUME NEW n \in Events, n \notin run'.events, n \notin run.events => Caught(log, mem[log[n].item], n)
          PROVE  Caught(log', mem'[log[n].item], n)
      <4>1. CASE n = First
        BY <2>1, <3>3, <4>1
      <4>2. CASE n # First
        <5>1. Caught(log, mem[log[n].item], n) /\ log[n].item \in Item
          BY <1>0, <3>1, <3>4, <4>2
        <5> QED
          BY <1>0, <3>2, <5>1, CaughtStays
      <4> QED
        BY <4>1, <4>2
    <3> QED
      BY <1>1, <2>1, <3>1, <3>4
  <2> QED
    BY <2>3, <2>4
<1>7. CASE Apply
  <2>1. /\ run.pc = "apply" /\ run.events # {} /\ ~Idle
        /\ UNCHANGED <<log, user, cursor, torn, session>>
        /\ mem' = [mem EXCEPT ![log[First].item] = Clean(RevisionAt(First))]
        /\ run'.cursor = run.cursor /\ run'.events = run.events \ {First}
    BY <1>0, <1>7 DEF Apply, page, aux, Idle, RunOK, RunType
  <2>2. /\ First \in run.events /\ First \in Events /\ Owner(log[First].item) = run.user
        /\ log[First].item \in Item /\ RevisionAt(First) \in Nat /\ First \in Nat
        /\ First <= run.cursor
    BY <1>0, <2>1, FirstIsLeast
  <2>3. run.user = user
    BY <1>0, <2>1, OwnRuns
  <2>4. ASSUME NEW n \in Events, n <= run.cursor, n \notin run'.events,
               n \notin run.events => Caught(log, mem[log[n].item], n)
        PROVE  Caught(log', mem'[log[n].item], n)
    <3>1. CASE log[n].item # log[First].item
      <4>1. n \notin run.events /\ mem'[log[n].item] = mem[log[n].item]
        BY <1>0, <2>1, <2>4, <3>1 DEF Table
      <4> QED
        BY <2>1, <2>4, <4>1
    <3>2. CASE log[n].item = log[First].item
      <4>1. mem'[log[n].item] = Clean(RevisionAt(First))
        BY <1>0, <2>1, <2>2, <3>2 DEF Table
      <4>2. n <= First
        <5>1. CASE n = First
          BY <1>0, <5>1
        <5>2. CASE n # First
          <6>1. n \notin run.events
            BY <2>1, <2>4, <5>2
          <6>2. ~(First <= n)
            BY <1>0, <2>2, <2>4, <3>2, <6>1 DEF RunOK
          <6> QED
            BY <1>0, <2>2, <6>2
        <5> QED
          BY <5>1, <5>2
      <4>3. RevisionAt(n) <= RevisionAt(First) /\ RevisionAt(n) = RevisionIn(log, n)
        BY <1>0, <2>2, <3>2, <4>2, RevisionGrows, RevisionInLog
      <4> QED
        BY <2>1, <4>1, <4>3 DEF Caught, Clean
    <3> QED
      BY <3>1, <3>2
  <2> QED
    BY <1>1, <2>1, <2>4
<1>8. ASSUME NEW j \in Item, SaveItem(j)
      PROVE  /\ cursor' <= run'.cursor /\ \A n \in run'.events : cursor' < n
             /\ \A n \in Events' :
                  cursor' < n /\ n <= run'.cursor /\ n \notin run'.events
                  /\ Owner(log'[n].item) = user' => Caught(log', mem'[log'[n].item], n)
  <2>1. /\ UNCHANGED <<log, user, cursor, run>>
        /\ mem[j].state = "clean" \/ Latest(j) = 0
        /\ mem' = [mem EXCEPT ![j] = [revision |-> @.revision + 1, state |-> "dirty"]]
    BY <1>8 DEF SaveItem, page
  <2>2. ASSUME NEW n \in Events, n \notin run'.events, n \notin run.events => Caught(log, mem[log[n].item], n)
        PROVE  Caught(log', mem'[log[n].item], n)
    <3>1. Caught(log, mem[log[n].item], n) /\ log[n].item \in Item
      BY <1>0, <2>1, <2>2
    <3>2. CASE log[n].item # j
      <4>1. mem'[log[n].item] = mem[log[n].item]
        BY <1>0, <2>1, <3>1, <3>2 DEF Table
      <4> QED
        BY <2>1, <3>1, <4>1
    <3>3. CASE log[n].item = j
      <4>1. mem[j].state = "clean"
        BY <1>0, <2>1, <3>3, NewItem
      <4>2. mem'[j] = [revision |-> mem[j].revision + 1, state |-> "dirty"]
        BY <1>0, <2>1 DEF Table
      <4> QED
        BY <1>0, <3>1, <3>3, <4>1, <4>2, CaughtStays
    <3> QED
      BY <3>2, <3>3
  <2> QED
    BY <1>1, <2>1, <2>2
<1>9. CASE LoadFirst \/ Lock \/ \E u \in User : Switch(u)
  <2>1. run' = run /\ (~Idle => user' \in torn')
    BY <1>9 DEF LoadFirst, Lock, Switch, Outlived
  <2> QED
    BY <2>1 DEF Idle
<1>10. CASE Merge
  <2>1. /\ UNCHANGED <<user, torn>> /\ load.pc = "merge" /\ (run.pc # "wait" => run' = run)
    BY <1>10 DEF Merge
  <2>2. run.pc # "wait"
    BY <1>0, <1>10 DEF Merge, RunType
  <2> QED
    BY <2>1, <2>2, OwnRuns DEF Begun, Working, Idle
<1>11. CASE Start \/ RunReads \/ Begin \/ Finish \/ Fail \/ Restart \/ \E i \in Item : PushItem(i)
  <2>1. run'.pc \in {"idle", "load", "wait", "push"}
    <3>0. NoRun.pc = "idle" /\ NoRun \in RunType
      BY NoTypes DEF NoRun
    <3>1. CASE Start \/ Finish \/ Fail \/ Restart
      <4>1. run' = NoRun \/ run' = [NoRun EXCEPT !.user = user, !.session = session, !.pc = "load"]
        BY <3>1 DEF Start, Finish, Fail, Restart
      <4> QED
        BY <3>0, <4>1 DEF RunType
    <3>2. CASE RunReads \/ Begin \/ \E i \in Item : PushItem(i)
      BY <1>0, <3>0, <3>2 DEF RunReads, Begin, PushItem, RunType
    <3> QED
      BY <1>11, <3>1, <3>2
  <2> QED
    BY <2>1
<1>12. CASE Decrypt
  BY <1>2, <1>12 DEF Decrypt, page, memory, NoRun
<1>13. CASE UNCHANGED <<run, mem, user, cursor>>
  BY <1>2, <1>13
<1>14. Next => \/ UNCHANGED <<run, mem, user, cursor>> \/ Begin \/ LoadFirst \/ Lock \/ Merge \/ Decrypt \/ Restart
               \/ Start \/ RunReads \/ TakeCursor \/ Pull \/ Examine \/ Apply \/ NextPage \/ Finish \/ Fail
               \/ (\E u \in User : Switch(u)) \/ \E j \in Item : PushItem(j) \/ SaveItem(j)
  BY Zenon DEF Next, RunStep, Unlock, SelectVault, Leave, OtherDevice, page, memory
<1> QED
  BY <1>3, <1>4, <1>5, <1>6, <1>7, <1>8, <1>9, <1>10, <1>11, <1>12, <1>13, <1>14 DEF vars, memory,
     page

LEMMA CoverStep ==
  ASSUME SessionShape, WhereInv, OwnRun, CoverInv, [Next]_vars
  PROVE  CoverInv'
BY MemoryCoversStep, DiskCoversStep, LoadCoversStep, PushesMemoryStep, WalksOnStep DEF CoverInv

SessionInv == SessionShape /\ WhereInv /\ OwnRun /\ CoverInv

(* The types, and what else is inductive with them                          *)
THEOREM SessionInvariant == Spec => []SessionInv
<1>1. Init => SessionInv
  BY SessionShapeInit, WhereInit, OwnInit, CoverInit DEF SessionInv
<1>2. SessionInv /\ [Next]_vars => SessionInv'
  BY SessionShapeStep, WhereStep, OwnStep, CoverStep DEF SessionInv
<1> QED
  BY <1>1, <1>2, PTL DEF Spec

(* What the profile of a user says was seen is on the disk: up to the       *)
(* cursor every version, or a conflict with it (SavedCursorIsCovered).      *)
THEOREM SavedCursorsAreCovered == Spec => []SavedCursorIsCovered
<1>1. SessionInv => SavedCursorIsCovered
  <2> SUFFICES ASSUME SessionInv, NEW u \in User \ torn, NEW n \in 1..diskCursor[u], Owner(log[n].item) = u
               PROVE  disk[log[n].item].revision >= RevisionAt(n) \/ disk[log[n].item].state = "conflicted"
    BY DEF SavedCursorIsCovered
  <2>1. ServerOK /\ StoreOK /\ DiskCovers
    BY DEF SessionInv, SessionShape, CoverInv
  <2>2. diskCursor[u] \in Nat /\ diskCursor[u] <= Len(log)
    BY <2>1 DEF StoreOK
  <2>3. /\ n \in Events /\ log[n].item \in Item /\ RevisionAt(n) \in Nat
        /\ RevisionAt(n) = RevisionIn(log, n)
    BY <2>1, <2>2, EventTypes, RevisionInLog
  <2>4. KeptTo(log, disk[log[n].item], log[n].item, diskCursor[u])
    BY <2>1, <2>3 DEF DiskCovers
  <2>5. disk[log[n].item].revision \in Nat
    BY <2>1, <2>3, RecordTypes, SMTT(30) DEF StoreOK, Table
  <2> QED
    BY <2>3, <2>4, <2>5 DEF KeptTo
<1> QED
  BY <1>1, SessionInvariant, PTL

-----------------------------------------------------------------------------
(* What is in memory, on its way there and on the disk.  A load has what    *)
(* the disk has, a vault that is loaded is whole but for what missed names. *)
Made(lg, i, r) ==
  \E n \in DOMAIN lg : lg[n].item = i /\ lg[n].by = "this" /\ RevisionIn(lg, n) = r

InMemory(i) ==
  /\ mem[i] # Absent => Owner(i) = user /\ VaultOf[i] \in loaded
  /\ Owner(i) = user /\ VaultOf[i] \in loaded /\ disk[i] # Absent /\ i \notin missed => mem[i] # Absent
  /\ mem[i].state = "dirty" => disk[i] = mem[i]

OnItsWay(i) ==
  /\ load.items[i] # Absent => VaultOf[i] \in load.vaults
  /\ load.items[i] # Absent /\ session \in {0, load.session} => disk[i] = load.items[i]
  /\ load.session = session =>
       /\ load.items[i] # Absent => mem[i] = Absent /\ Owner(i) = user
       /\ VaultOf[i] \in load.vaults /\ disk[i] # Absent => load.items[i] # Absent \/ mem[i] # Absent

LoadedInv ==
  /\ ~Idle /\ run.session = session => run.user = user
  /\ Active => \A i \in Item : InMemory(i)
  /\ load.pc # "idle" => \A i \in Item : OnItsWay(i)

(* What is to be pushed is on the disk, and nothing else is in memory.      *)
PushedIsKept ==
  run.pc = "push" =>
    \A i \in Item : run.items[i].state = "dirty" =>
      disk[i] = run.items[i] /\ (Owner(i) = user => mem[i] \in {Absent, run.items[i]})

(* An edit on the disk is in memory, or in conflict there, or the server    *)
(* has it.                                                                  *)
EditKept(i) ==
  mem[i] # Absent /\ disk[i].state = "dirty" =>
    \/ mem[i] = disk[i]
    \/ mem[i].state = "conflicted" /\ mem[i].revision = disk[i].revision
    \/ Made(log, i, disk[i].revision)

EditsInv ==
  /\ \A i \in Item : Owner(i) = user /\ i \notin missed => EditKept(i)
  /\ run.pc = "apply" /\ run.session = session =>
       LET i == log[First].item
       IN  disk[i].state = "dirty" /\ mem[i].state # "dirty" /\ i \notin missed
             => Made(log, i, disk[i].revision)

LEMMA MadeGrows ==
  ASSUME ServerOK, Prefix, NEW i, NEW r, Made(log, i, r)
  PROVE  Made(log', i, r)
<1>1. PICK n \in DOMAIN log : log[n].item = i /\ log[n].by = "this" /\ RevisionIn(log, n) = r
  BY DEF Made
<1>2. n \in Events /\ n \in DOMAIN log'
  BY <1>1 DEF Prefix, ServerOK, Events
<1> QED
  BY <1>1, <1>2, PrefixIn DEF Made

LEMMA AppendedIsMade ==
  ASSUME ServerOK, NEW i \in Item, log' = Append(log, [item |-> i, by |-> "this"])
  PROVE  Made(log', i, Latest(i) + 1)
<1> DEFINE e == [item |-> i, by |-> "this"]
           n == Len(log) + 1
           A == {m \in Events : log[m].item = i}
<1>1. Events = 1..Len(log) /\ Len(log) \in Nat /\ e \in Event
  BY EventTypes DEF Event
<1>2. log' \in Seq(Event) /\ Len(log') = n /\ log'[n] = e /\ \A m \in Events : log'[m] = log[m]
  BY <1>1 DEF ServerOK
<1>3. {m \in 1..n : log'[m].item = log'[n].item} = A \cup {n}
  BY <1>1, <1>2
<1>4. IsFiniteSet(A) /\ n \notin A
  <2>1. IsFiniteSet(1..Len(log)) /\ A \subseteq 1..Len(log)
    BY <1>1, FS_Interval
  <2>2. IsFiniteSet(A)
    BY <2>1, FS_Subset
  <2> QED
    BY <1>1, <2>2
<1>5. Cardinality(A \cup {n}) = Cardinality(A) + 1
  BY <1>4, FS_AddElement
<1>6. RevisionIn(log', n) = Latest(i) + 1
  BY <1>3, <1>5 DEF RevisionIn, Latest
<1>7. n \in DOMAIN log'
  BY <1>1, <1>2
<1> QED
  BY <1>2, <1>6, <1>7 DEF Made

LEMMA MissedGrows == [Next]_vars => missed \subseteq missed'
<1>1. Next => UNCHANGED missed \/ Merge \/ Apply \/ \E i \in Item : SaveItem(i)
  BY Zenon DEF Next, RunStep, Unlock, LoadFirst, Decrypt, Lock, SelectVault, OtherDevice, PushItem,
     Leave, Switch, Restart, Start, RunReads, Begin, TakeCursor, Pull, Examine, NextPage, Finish,
     Fail, aux
<1> QED
  BY <1>1 DEF Merge, Apply, SaveItem, vars, aux

(* The disk changes to what is in memory then.                              *)
LEMMA DiskStep ==
  ASSUME SessionShape, [Next]_vars, NEW i \in Item
  PROVE  \/ disk'[i] = disk[i]
         \/ /\ session # 0 /\ UNCHANGED <<user, session>> /\ Owner(i) = user
            /\ mem'[i] # Absent /\ disk'[i] = mem'[i]
<1>0. StoreOK /\ mem' \in Table /\ mem \in Table /\ cursor \in Nat /\ run.cursor \in Nat
  BY SessionFacts
<1>1. ASSUME Persist(mem', cursor'), UNCHANGED <<user, session>>, cursor' \in Nat
      PROVE  \/ disk'[i] = disk[i]
             \/ /\ session # 0 /\ UNCHANGED <<user, session>> /\ Owner(i) = user
                /\ mem'[i] # Absent /\ disk'[i] = mem'[i]
  BY <1>0, <1>1, Persisting
<1>2. CASE Merge \/ \E j \in Item : SaveItem(j)
  <2>1. (disk' = disk \/ Persist(mem', cursor)) /\ UNCHANGED <<user, session, cursor>>
    BY <1>2 DEF Merge, SaveItem, saved, page
  <2> QED
    BY <1>0, <1>1, <2>1
<1>3. CASE \E u \in User \cup {NoUser} : Leave(u)
  <2>1. (disk' = disk \/ Persist(mem, cursor)) /\ UNCHANGED <<user, session, cursor, mem>>
    BY <1>3 DEF Leave, saved, memory
  <2>2. disk' = disk \/ Persist(mem', cursor')
    BY <2>1
  <2> QED
    BY <1>0, <1>1, <2>1, <2>2
<1>4. CASE Finish
  <2>1. Persist(mem', cursor') /\ UNCHANGED <<user, session>> /\ cursor' = run.cursor
    BY <1>4 DEF Finish, page, memory
  <2> QED
    BY <1>0, <1>1, <2>1
<1>5. Next => disk' = disk \/ Merge \/ Finish \/ (\E j \in Item : SaveItem(j)) \/ \E u \in User \cup {NoUser} : Leave(u)
  BY Zenon DEF Next, RunStep, Unlock, LoadFirst, Decrypt, Lock, Restart, SelectVault, OtherDevice,
     PushItem, Switch, Start, RunReads, Begin, TakeCursor, Pull, Examine, Apply, NextPage, Fail,
     saved
<1> QED
  BY <1>2, <1>3, <1>4, <1>5 DEF vars, saved

(* A change of one record by a push or by a conflict                        *)
LEMMA Marking ==
  ASSUME SessionShape, [Next]_vars, (\E j \in Item : PushItem(j)) \/ Examine, NEW i \in Item
  PROVE  \/ mem'[i] = mem[i]
         \/ /\ mem[i] # Absent /\ mem'[i] # Absent /\ mem'[i].state \in {"clean", "conflicted"}
            /\ mem'[i].revision = mem[i].revision
<1>0. mem \in Table /\ ServerOK /\ RunOK
  BY SessionFacts
<1>1. ASSUME NEW j \in Item, NEW s \in {"clean", "conflicted"}, mem[j] # Absent, mem' = [mem EXCEPT ![j].state = s]
      PROVE  \/ mem'[i] = mem[i]
             \/ /\ mem[i] # Absent /\ mem'[i] # Absent /\ mem'[i].state \in {"clean", "conflicted"}
                /\ mem'[i].revision = mem[i].revision
  <2>1. mem[j] \in [revision : Nat, state : {"clean", "dirty", "conflicted"}]
    BY <1>0, <1>1 DEF Table, Record
  <2>2. [mem[j] EXCEPT !.state = s] = [revision |-> mem[j].revision, state |-> s]
    BY <2>1
  <2>3. mem'[j] = [mem[j] EXCEPT !.state = s] /\ (i # j => mem'[i] = mem[i])
    BY <1>0, <1>1 DEF Table
  <2> QED
    BY <1>1, <2>2, <2>3 DEF Absent
<1>2. ASSUME NEW j \in Item, PushItem(j)
      PROVE  mem' = mem \/ (mem[j] # Absent /\ \E s \in {"clean", "conflicted"} : mem' = [mem EXCEPT ![j].state = s])
  BY <1>2 DEF PushItem, Here
<1>3. CASE Examine
  <2>1. mem' = IF Verdict(First) = "conflict" THEN [mem EXCEPT ![log[First].item].state = "conflicted"] ELSE mem
    BY <1>3 DEF Examine
  <2>2. Verdict(First) = "conflict" => mem[log[First].item] # Absent
    BY DEF Verdict, Absent
  <2>3. log[First].item \in Item
    BY <1>0, <1>3, FirstIsLeast DEF Examine
  <2> QED
    BY <1>1, <2>1, <2>2, <2>3
<1> QED
  BY <1>1, <1>2, <1>3

LEMMA RunsUser ==
  ASSUME SessionShape, LoadedInv, [Next]_vars
  PROVE  (~Idle /\ run.session = session => run.user = user)'
<1>0. run \in RunType /\ RunOK /\ SessionOK
  BY SessionFacts
<1>1. CASE UNCHANGED <<session, user>> /\ (run' = NoRun \/ (~Idle /\ run'.session = run.session /\ run'.user = run.user) \/ run' = run)
  BY <1>1 DEF LoadedInv, NoRun, Idle
<1>2. CASE Start
  <2>1. run'.session = session /\ run'.user = user /\ UNCHANGED <<session, user>>
    BY <1>2 DEF Start, NoRun, page
  <2> QED
    BY <2>1
<1>3. CASE Unlock \/ Lock \/ Restart \/ \E u \in User : Switch(u)
  <2>1. (run' = run /\ session' \in {0, sessions + 1}) \/ run' = NoRun
    BY <1>3 DEF Unlock, Lock, Restart, Switch
  <2>2. ~Idle => run.session # 0 /\ run.session # sessions + 1
    BY <1>0 DEF RunOK, RunType, SessionOK
  <2> QED
    BY <2>1, <2>2 DEF NoRun, Idle
<1>4. CASE RunReads \/ Merge \/ Decrypt
  <2>1. UNCHANGED <<session, user>> /\ (run' \in {NoRun, run} \/ \E p : run' = [run EXCEPT !.pc = p] /\ ~Idle)
    BY <1>4 DEF RunReads, Merge, Decrypt, page, Idle
  <2> QED
    BY <1>0, <1>1, <2>1 DEF RunType
<1>5. CASE Begin \/ TakeCursor \/ Pull \/ Examine \/ Apply \/ NextPage \/ Finish \/ Fail \/ \E i \in Item : PushItem(i)
  <2>1. UNCHANGED <<session, user>>
    BY <1>5 DEF Begin, TakeCursor, Pull, Examine, Apply, NextPage, Finish, Fail, PushItem, page
  <2>2. run' = NoRun \/ (~Idle /\ run'.session = run.session /\ run'.user = run.user)
    BY <1>0, <1>5, ZenonT(60) DEF Begin, TakeCursor, Pull, Examine, Apply, NextPage, Finish, Fail, PushItem,
       RunType, Idle
  <2> QED
    BY <1>1, <2>1, <2>2
<1>6. Next => \/ UNCHANGED <<session, user, run>> \/ Start \/ Unlock \/ Lock \/ Restart \/ RunReads \/ Merge \/ Decrypt
              \/ Begin \/ TakeCursor \/ Pull \/ Examine \/ Apply \/ NextPage \/ Finish \/ Fail
              \/ (\E i \in Item : PushItem(i)) \/ \E u \in User : Switch(u)
  BY Zenon DEF Next, RunStep, LoadFirst, SelectVault, OtherDevice, Leave, SaveItem, page
<1> QED
  BY <1>1, <1>2, <1>3, <1>4, <1>5, <1>6 DEF vars, page

LEMMA InMemoryStep ==
  ASSUME SessionShape, WhereInv, LoadedInv, [Next]_vars, Active', NEW i \in Item
  PROVE  InMemory(i)'
<1>0. /\ ServerOK /\ RunOK /\ SessionOK /\ run \in RunType /\ mem \in Table
      /\ missed \subseteq missed'
      /\ load.items \in Table
  BY SessionFacts, MissedGrows
<1>d. disk'[i] = disk[i] \/ (mem'[i] # Absent /\ disk'[i] = mem'[i])
  BY DiskStep
<1>o. Owner(i)' = Owner(i)
  BY DEF Owner
<1>i. Active => InMemory(i)
  BY DEF LoadedInv
<1>1. ASSUME Active, UNCHANGED <<user, loaded>>, mem'[i] = mem[i] PROVE InMemory(i)'
  BY <1>0, <1>d, <1>o, <1>i, <1>1 DEF InMemory
<1>2. ASSUME Active, UNCHANGED <<user, loaded>>, mem[i] # Absent, mem'[i] # Absent,
             mem'[i].state \in {"clean", "conflicted"}
      PROVE  InMemory(i)'
  BY <1>0, <1>o, <1>i, <1>2 DEF InMemory
<1>3. CASE session' = 0 \/ Unlock
  BY <1>3 DEF Active, Unlock
<1>4. CASE LoadFirst
  <2>1. mem'[i] = Absent /\ loaded' = {}
    BY <1>4, RecordTypes DEF LoadFirst
  <2> QED
    BY <2>1 DEF InMemory, Absent
<1>5. CASE Merge
  <2>1. /\ Active /\ UNCHANGED <<user, session>> /\ load.pc # "idle"
        /\ mem' = Merged(load.items) /\ loaded' = loaded \cup load.vaults
    BY <1>5, Pages DEF Merge, Active
  <2>2. load.session = session /\ OnItsWay(i) /\ InMemory(i)
    BY <2>1 DEF WhereInv, LoadedInv
  <2>3. CASE load.items[i] = Absent
    <3>1. mem'[i] = mem[i]
      BY <2>1, <2>3 DEF Merged
    <3> QED
      BY <1>0, <1>d, <1>o, <2>1, <2>2, <2>3, <3>1 DEF InMemory, OnItsWay
  <2>4. CASE load.items[i] # Absent
    <3>1. mem'[i] = load.items[i]
      BY <2>1, <2>4 DEF Merged
    <3>2. disk[i] = load.items[i] /\ VaultOf[i] \in load.vaults /\ Owner(i) = user
      BY <2>2, <2>4 DEF OnItsWay
    <3> QED
      BY <1>d, <1>o, <2>1, <2>4, <3>1, <3>2 DEF InMemory
  <2> QED
    BY <2>3, <2>4
<1>6. ASSUME NEW j \in Item, SaveItem(j) PROVE InMemory(i)'
  <2>1. /\ Active /\ UNCHANGED <<user, session>> /\ session # 0 /\ Owner(j) = user
        /\ mem' = [mem EXCEPT ![j] = [revision |-> @.revision + 1, state |-> "dirty"]]
        /\ loaded' = loaded \cup {VaultOf[j]}
        /\ missed' = missed \cup {k \in Item : VaultOf[k] = VaultOf[j] /\ disk[k] # Absent /\ ~Here(k)}
        /\ Persist(mem', cursor)
    BY <1>6, Pages DEF SaveItem, page, Active
  <2>2. CASE i = j
    <3>1. mem'[i].state = "dirty" /\ mem'[i] # Absent
      BY <1>0, <2>1, <2>2 DEF Table, Absent
    <3>2. disk'[i] = mem'[i]
      <4>1. StoreOK /\ mem' \in Table /\ cursor \in Nat
        BY SessionFacts
      <4> QED
        BY <2>1, <2>2, <3>1, <4>1, Persisting, ZenonT(60)
    <3> QED
      BY <1>o, <2>1, <2>2, <3>1, <3>2 DEF InMemory
  <2>3. CASE i # j
    <3>1. mem'[i] = mem[i] /\ InMemory(i)
      BY <1>0, <1>i, <2>1, <2>3 DEF Table
    <3>2. VaultOf[i] = VaultOf[j] /\ disk[i] # Absent /\ mem[i] = Absent => i \in missed'
      BY <2>1 DEF Here
    <3> QED
      BY <1>0, <1>d, <1>o, <2>1, <3>1, <3>2 DEF InMemory
  <2> QED
    BY <2>2, <2>3
<1>7. CASE (\E j \in Item : PushItem(j)) \/ Examine
  <2>1. Active /\ UNCHANGED <<user, loaded>>
    BY <1>7 DEF PushItem, Examine, page, Active
  <2> QED
    BY <1>1, <1>2, <1>7, <2>1, Marking
<1>8. CASE Apply
  <2>1. /\ Active /\ UNCHANGED <<user, loaded>> /\ run.pc = "apply" /\ run.events # {}
        /\ mem' = [mem EXCEPT ![log[First].item] = Clean(RevisionAt(First))]
    BY <1>0, <1>8 DEF Apply, page, Active, RunOK
  <2>2. CASE i # log[First].item
    BY <1>0, <1>1, <2>1, <2>2 DEF Table
  <2>3. CASE i = log[First].item
    <3>1. run.session = session /\ run.user = user
      BY <2>1 DEF WhereInv, LoadedInv, Active, Idle
    <3>2. Owner(i) = user /\ VaultOf[i] \in loaded
      BY <1>0, <2>1, <2>3, <3>1, FirstIsLeast DEF WhereInv, Begun, Working, Owner
    <3>3. mem'[i] = Clean(RevisionAt(First)) /\ RevisionAt(First) \in Nat
      BY <1>0, <2>1, <2>3, FirstIsLeast DEF Table
    <3> QED
      BY <1>o, <2>1, <3>2, <3>3 DEF InMemory, Clean, Absent
  <2> QED
    BY <2>2, <2>3
<1>9. CASE UNCHANGED <<mem, loaded, session, ui, user>>
  BY <1>1, <1>9 DEF Active
<1>10. CASE \E u \in User \cup {NoUser} : Leave(u)
  <2>1. ui = <<"idle">> /\ UNCHANGED <<mem, loaded, session, user>>
    BY <1>10 DEF Leave, memory
  <2> QED
    BY <1>1, <2>1, Pages DEF Active
<1>11. Next => \/ UNCHANGED <<mem, loaded, session, ui, user>> \/ session' = 0 \/ Unlock \/ LoadFirst \/ Merge
               \/ Examine \/ Apply \/ (\E j \in Item : PushItem(j) \/ SaveItem(j))
               \/ \E u \in User \cup {NoUser} : Leave(u)
  BY Zenon DEF Next, RunStep, Decrypt, Lock, Restart, SelectVault, OtherDevice, Switch, Start,
     RunReads, Begin, TakeCursor, Pull, NextPage, Finish, Fail, memory, page
<1> QED
  BY <1>3, <1>4, <1>5, <1>6, <1>7, <1>8, <1>9, <1>10, <1>11 DEF vars, memory, page

LEMMA OnItsWayStep ==
  ASSUME SessionShape, WhereInv, LoadedInv, [Next]_vars, load'.pc # "idle", NEW i \in Item
  PROVE  OnItsWay(i)'
<1>0. /\ ServerOK /\ RunOK /\ SessionOK /\ LoadOK /\ run \in RunType /\ mem \in Table
      /\ load \in LoadType /\ load.items \in Table
  BY SessionFacts
<1>d. disk'[i] = disk[i] \/ (session # 0 /\ mem'[i] # Absent /\ disk'[i] = mem'[i])
  BY DiskStep
<1>o. Owner(i)' = Owner(i)
  BY DEF Owner
<1>i. load.pc # "idle" => OnItsWay(i) /\ load.session # 0
  BY <1>0 DEF LoadedInv, LoadOK
<1>1. ASSUME load.pc # "idle", UNCHANGED <<user, session>>,
             load'.items = load.items, load'.vaults = load.vaults, load'.session = load.session,
             mem'[i] = mem[i] \/ (mem[i] # Absent /\ mem'[i] # Absent)
      PROVE  OnItsWay(i)'
  BY <1>0, <1>d, <1>o, <1>i, <1>1 DEF OnItsWay
<1>2. CASE Lock \/ \E u \in User : Switch(u)
  <2>1. load' = load /\ session' = 0 /\ disk' = disk /\ \E u \in User \cup {NoUser} : ui = <<"leave", u>>
    BY <1>2 DEF Lock, Switch, saved
  <2>2. Active => load.session = session
    BY <2>1 DEF WhereInv
  <2>3. session \in {0, load.session}
    BY <2>1, <2>2, Pages DEF Active
  <2> QED
    BY <1>i, <2>1, <2>3 DEF OnItsWay
<1>3. CASE Unlock
  <2>1. load' = load /\ session' = sessions + 1
    BY <1>3 DEF Unlock
  <2>2. session' \notin {0, load.session}
    BY <1>0, <2>1 DEF LoadOK, LoadType, SessionOK
  <2> QED
    BY <1>i, <2>1, <2>2 DEF OnItsWay
<1>4. ASSUME NEW vaults, \A v \in vaults : UserOf[v] = user,
             load'.vaults = vaults, load'.items = Read(vaults), load'.session = session,
             UNCHANGED <<user, session, disk>>, VaultOf[i] \in vaults => mem'[i] = Absent
      PROVE  OnItsWay(i)'
  <2>1. load'.items[i] = IF VaultOf[i] \in vaults THEN disk[i] ELSE Absent
    BY <1>4 DEF Read
  <2>2. VaultOf[i] \in vaults => Owner(i) = user
    BY <1>4 DEF Owner
  <2> QED
    BY <1>4, <1>o, <2>1, <2>2 DEF OnItsWay
<1>5. CASE LoadFirst
  <2>1. /\ load'.vaults = {FirstVault[user]} /\ load'.items = Read({FirstVault[user]})
        /\ load'.session = session
        /\ UNCHANGED <<user, session, disk>> /\ mem'[i] = Absent /\ user \in User
    BY <1>5, SessionFacts, RecordTypes DEF LoadFirst, saved
  <2> QED
    BY <1>4, <2>1
<1>6. ASSUME NEW v \in Vault, SelectVault(v) PROVE OnItsWay(i)'
  <2>1. /\ load'.vaults = {v} /\ load'.items = Read({v}) /\ load'.session = session
        /\ UNCHANGED <<user, session, disk, mem>> /\ UserOf[v] = user /\ v \notin loaded /\ Active
    BY <1>6, Pages DEF SelectVault, saved, page, memory, Active
  <2>2. VaultOf[i] = v => mem[i] = Absent
    BY <2>1 DEF LoadedInv, InMemory
  <2> QED
    BY <1>4, <2>1, <2>2
<1>7. CASE RunReads
  <2>1. CASE session = 0
    BY <1>1, <1>7, <2>1 DEF RunReads, page, memory
  <2>2. CASE session # 0
    <3>1. /\ load'.vaults = Missing /\ load'.items = Read(Missing) /\ load'.session = session
          /\ UNCHANGED <<user, session, disk, mem>> /\ run.pc = "load"
      BY <1>7, <2>2 DEF RunReads, saved, page, memory
    <3>2. Active
      BY <2>2, <3>1 DEF WhereInv, Active, Idle
    <3>3. VaultOf[i] \in Missing => mem[i] = Absent
      BY <3>2 DEF LoadedInv, InMemory, Missing
    <3>4. \A v \in Missing : UserOf[v] = user
      BY DEF Missing
    <3> QED
      BY <1>4, <3>1, <3>3, <3>4
  <2> QED
    BY <2>1, <2>2
<1>8. ASSUME NEW j \in Item, SaveItem(j) PROVE OnItsWay(i)'
  <2>1. /\ Active /\ UNCHANGED <<user, session, load>>
        /\ mem[j].state = "clean" \/ (disk[j] = Absent /\ ~Here(j))
        /\ mem' = [mem EXCEPT ![j] = [revision |-> @.revision + 1, state |-> "dirty"]]
    BY <1>8, Pages DEF SaveItem, page, Active
  <2>2. CASE i # j
    <3>1. mem'[i] = mem[i]
      BY <1>0, <2>1, <2>2 DEF Table
    <3> QED
      BY <1>1, <2>1, <3>1
  <2>3. CASE i = j
    <3>1. load.session = session /\ OnItsWay(i)
      BY <1>i, <2>1 DEF WhereInv
    <3>2. load.items[i] = Absent
      BY <2>1, <2>3, <3>1 DEF OnItsWay, Absent
    <3>3. mem'[i] # Absent
      BY <1>0, <2>1, <2>3 DEF Table, Absent
    <3> QED
      BY <2>1, <3>1, <3>2, <3>3 DEF OnItsWay
  <2> QED
    BY <2>2, <2>3
<1>9. CASE (\E j \in Item : PushItem(j)) \/ Examine
  <2>1. UNCHANGED <<user, session, load>>
    BY <1>9 DEF PushItem, Examine, page
  <2> QED
    BY <1>1, <1>9, <2>1, Marking
<1>10. CASE Apply
  <2>1. /\ UNCHANGED <<user, session, load, disk>> /\ run.pc = "apply"
    BY <1>10 DEF Apply, page, saved
  <2>2. session = 0
    BY <2>1 DEF WhereInv, Begun, Working
  <2> QED
    BY <1>i, <2>1, <2>2 DEF OnItsWay
<1>11. CASE Decrypt
  <2>1. UNCHANGED <<user, session, mem>> /\ load.pc # "idle" /\ (load' = NoLoad \/ load' = [load EXCEPT !.pc = "merge"])
    BY <1>11 DEF Decrypt, page, memory
  <2>2. load' # NoLoad
    BY DEF NoLoad
  <2> QED
    BY <1>0, <1>1, <2>1, <2>2 DEF LoadType
<1>12. CASE load' = NoLoad
  BY <1>12 DEF NoLoad
<1>13. CASE UNCHANGED <<user, session, mem, load>>
  BY <1>1, <1>13
<1>14. Next => \/ UNCHANGED <<user, session, mem, load>> \/ load' = NoLoad \/ Lock \/ Unlock \/ LoadFirst \/ RunReads
               \/ Examine \/ Apply \/ Decrypt \/ (\E j \in Item : PushItem(j) \/ SaveItem(j))
               \/ (\E v \in Vault : SelectVault(v)) \/ \E u \in User : Switch(u)
  BY Zenon DEF Next, RunStep, Merge, Restart, OtherDevice, Leave, Start, Begin, TakeCursor, Pull,
     NextPage, Finish, Fail, memory, page
<1> QED
  BY <1>2, <1>3, <1>5, <1>6, <1>7, <1>8, <1>9, <1>10, <1>11, <1>12, <1>13, <1>14 DEF vars, memory,
     page

LEMMA LoadedStep ==
  ASSUME SessionShape, WhereInv, LoadedInv, [Next]_vars
  PROVE  LoadedInv'
BY RunsUser, InMemoryStep, OnItsWayStep DEF LoadedInv

LEMMA LoadedInit == Init => LoadedInv
  BY DEF Init, LoadedInv, NoRun, NoLoad, Idle, Active

LEMMA PushedIsKeptStep ==
  ASSUME SessionShape, WhereInv, LoadedInv, PushedIsKept, [Next]_vars
  PROVE  PushedIsKept'
<1> SUFFICES ASSUME run'.pc = "push", NEW i \in Item, run'.items[i].state = "dirty"
             PROVE  disk'[i] = run'.items[i] /\ (Owner(i) = user' => mem'[i] \in {Absent, run'.items[i]})
  BY DEF PushedIsKept, Owner
<1>0. /\ RunOK /\ SessionOK /\ run \in RunType /\ run.items \in Table /\ mem \in Table
  BY SessionFacts
<1>d. disk'[i] = disk[i] \/ (Owner(i) = user /\ mem'[i] # Absent /\ disk'[i] = mem'[i] /\ user' = user)
  BY DiskStep
<1>1. ASSUME run.pc = "push", run'.items[i] = run.items[i],
             \/ user' = user /\ (mem'[i] = mem[i] \/ mem'[i] = disk[i])
             \/ mem'[i] = Absent
      PROVE  disk'[i] = run'.items[i] /\ (Owner(i) = user' => mem'[i] \in {Absent, run'.items[i]})
  <2>1. disk[i] = run.items[i] /\ (Owner(i) = user => mem[i] \in {Absent, run.items[i]})
    BY <1>1 DEF PushedIsKept
  <2> QED
    BY <1>1, <1>d, <2>1
<1>2. CASE Begin
  <2>1. /\ run' = [run EXCEPT !.space = user, !.items = mem, !.pc = "push"]
        /\ UNCHANGED <<mem, disk>>
        /\ run.session = session \/ Dirty(mem) = {}
        /\ run.pc = "begin"
    BY <1>2 DEF Begin, NoRun, memory, saved
  <2>2. run'.items[i] = mem[i]
    BY <1>0, <2>1 DEF RunType
  <2>3. run.session = session
    BY <2>1, <2>2 DEF Dirty
  <2>4. Active
    BY <1>0, <2>1, <2>3 DEF WhereInv, Active, RunOK, Idle
  <2> QED
    BY <2>1, <2>2, <2>4 DEF LoadedInv, InMemory
<1>3. ASSUME NEW j \in Item, PushItem(j)
      PROVE  disk'[i] = run'.items[i] /\ (Owner(i) = user' => mem'[i] \in {Absent, run'.items[i]})
  <2>1. /\ run.pc = "push" /\ user' = user /\ run' = [run EXCEPT !.items[j] = Absent]
        /\ mem' = mem \/ (\E s : mem' = [mem EXCEPT ![j].state = s])
    BY <1>3 DEF PushItem, page
  <2>2. run'.items = [run.items EXCEPT ![j] = Absent]
    BY <1>0, <2>1 DEF RunType
  <2>3. i # j /\ run'.items[i] = run.items[i]
    BY <1>0, <2>2 DEF Table, Absent
  <2>4. mem'[i] = mem[i]
    BY <1>0, <2>1, <2>3 DEF Table
  <2> QED
    BY <1>1, <2>1, <2>3, <2>4
<1>4. ASSUME NEW j \in Item, SaveItem(j)
      PROVE  disk'[i] = run'.items[i] /\ (Owner(i) = user' => mem'[i] \in {Absent, run'.items[i]})
  <2>1. /\ UNCHANGED <<user, run>> /\ Owner(j) = user
        /\ mem[j].state = "clean" \/ disk[j] = Absent
        /\ mem' = [mem EXCEPT ![j] = [revision |-> @.revision + 1, state |-> "dirty"]]
    BY <1>4 DEF SaveItem, page
  <2>2. disk[i] = run.items[i] /\ (Owner(i) = user => mem[i] \in {Absent, run.items[i]})
    BY <2>1 DEF PushedIsKept
  <2>3. i # j
    BY <2>1, <2>2 DEF Absent
  <2>4. mem'[i] = mem[i]
    BY <1>0, <2>1, <2>3 DEF Table
  <2> QED
    BY <1>1, <2>1, <2>4
<1>5. CASE LoadFirst \/ Lock \/ \E u \in User : Switch(u)
  <2>1. run' = run /\ mem'[i] = Absent
    BY <1>5, RecordTypes DEF LoadFirst, Lock, Switch
  <2> QED
    BY <1>1, <2>1
<1>6. CASE Merge
  <2>1. /\ user' = user /\ load.pc = "merge" /\ (run.pc # "wait" => run' = run) /\ mem' = Merged(load.items)
    BY <1>6 DEF Merge
  <2>2. run.pc # "wait"
    BY <1>0, <1>6 DEF Merge, RunType
  <2>3. CASE load.items[i] = Absent
    <3>1. mem'[i] = mem[i]
      BY <2>1, <2>3 DEF Merged
    <3> QED
      BY <1>1, <2>1, <2>2, <3>1
  <2>4. CASE load.items[i] # Absent
    <3>1. mem'[i] = load.items[i]
      BY <2>1, <2>4 DEF Merged
    <3>2. session \in {0, load.session}
      BY <2>1, <2>4, RecordTypes DEF WhereInv
    <3>3. disk[i] = load.items[i]
      BY <2>1, <2>4, <3>2 DEF LoadedInv, OnItsWay
    <3> QED
      BY <1>1, <2>1, <2>2, <3>1, <3>3
  <2> QED
    BY <2>3, <2>4
<1>7. CASE Start \/ RunReads \/ TakeCursor \/ Pull \/ Examine \/ Apply \/ NextPage \/ Finish \/ Fail \/ Restart
  <2>1. run'.pc \in {"idle", "load", "wait", "pull", "page", "apply"}
    <3>0. NoRun.pc = "idle" /\ NoRun \in RunType
      BY NoTypes DEF NoRun
    <3>1. CASE Start \/ Finish \/ Fail \/ Restart
      <4>1. run' = NoRun \/ run' = [NoRun EXCEPT !.user = user, !.session = session, !.pc = "load"]
        BY <3>1 DEF Start, Finish, Fail, Restart
      <4> QED
        BY <3>0, <4>1 DEF RunType
    <3>2. CASE RunReads \/ TakeCursor \/ Pull \/ NextPage
      BY <1>0, <3>0, <3>2 DEF RunReads, TakeCursor, Pull, NextPage, RunType
    <3>3. CASE Examine \/ Apply
      BY <1>0, <3>0, <3>3 DEF Examine, Apply, RunType
    <3> QED
      BY <1>7, <3>1, <3>2, <3>3
  <2> QED
    BY <2>1
<1>8. CASE Decrypt
  BY <1>1, <1>8 DEF Decrypt, page, memory, NoRun
<1>9. CASE UNCHANGED <<run, mem, user>>
  BY <1>1, <1>9
<1>10. Next => \/ UNCHANGED <<run, mem, user>> \/ Begin \/ LoadFirst \/ Lock \/ Merge \/ Decrypt \/ Restart
               \/ Start \/ RunReads \/ TakeCursor \/ Pull \/ Examine \/ Apply \/ NextPage \/ Finish \/ Fail
               \/ (\E u \in User : Switch(u)) \/ \E j \in Item : PushItem(j) \/ SaveItem(j)
  BY Zenon DEF Next, RunStep, Unlock, SelectVault, Leave, OtherDevice, page, memory
<1> QED
  BY <1>2, <1>3, <1>4, <1>5, <1>6, <1>7, <1>8, <1>9, <1>10 DEF vars, memory, page

LEMMA EditKeptStep ==
  ASSUME SessionShape, WhereInv, LoadedInv, PushedIsKept, EditsInv, [Next]_vars,
         NEW i \in Item, Owner(i) = user', i \notin missed'
  PROVE  EditKept(i)'
<1>0. /\ ServerOK /\ Prefix /\ ServerOK' /\ RunOK /\ run \in RunType /\ mem \in Table
      /\ run.items \in Table
      /\ missed \subseteq missed'
  BY SessionFacts, MissedGrows
<1>d. disk'[i] = disk[i] \/ (mem'[i] # Absent /\ disk'[i] = mem'[i])
  BY DiskStep
<1>m. \A r : Made(log, i, r) => Made(log', i, r)
  BY <1>0, MadeGrows
<1>1. CASE mem'[i] = Absent
  BY <1>1 DEF EditKept
<1>2. CASE disk'[i] = mem'[i]
  BY <1>2 DEF EditKept
<1>3. ASSUME user' = user, mem'[i] = mem[i] PROVE EditKept(i)'
  <2>1. EditKept(i)
    BY <1>0, <1>3 DEF EditsInv
  <2> QED
    BY <1>d, <1>m, <1>3, <2>1 DEF EditKept
<1>4. CASE LoadFirst \/ Lock \/ Restart \/ \E u \in User : Switch(u)
  <2>1. mem'[i] = Absent
    BY <1>4, RecordTypes DEF LoadFirst, Lock, Restart, Switch
  <2> QED
    BY <1>1, <2>1
<1>5. CASE Merge
  <2>1. user' = user /\ load.pc = "merge" /\ mem' = Merged(load.items)
    BY <1>5 DEF Merge
  <2>2. CASE load.items[i] = Absent
    BY <1>3, <2>1, <2>2 DEF Merged
  <2>3. CASE load.items[i] # Absent
    <3>1. mem'[i] = load.items[i]
      BY <2>1, <2>3 DEF Merged
    <3>2. session \in {0, load.session}
      BY <2>1, <2>3, RecordTypes DEF WhereInv
    <3>3. disk[i] = load.items[i]
      BY <2>1, <2>3, <3>2 DEF LoadedInv, OnItsWay
    <3> QED
      BY <1>d, <3>1, <3>3 DEF EditKept
  <2> QED
    BY <2>2, <2>3
<1>6. ASSUME NEW j \in Item, SaveItem(j) PROVE EditKept(i)'
  <2>1. /\ user' = user /\ session # 0 /\ Owner(j) = user /\ Persist(mem', cursor)
        /\ mem' = [mem EXCEPT ![j] = [revision |-> @.revision + 1, state |-> "dirty"]]
    BY <1>6 DEF SaveItem, page
  <2>2. CASE i # j
    <3>1. mem'[i] = mem[i]
      BY <1>0, <2>1, <2>2 DEF Table
    <3> QED
      BY <1>3, <2>1, <3>1
  <2>3. CASE i = j
    <3>1. mem'[i] # Absent
      BY <1>0, <2>1, <2>3 DEF Table, Absent
    <3>2. StoreOK /\ mem' \in Table /\ cursor \in Nat
      BY SessionFacts
    <3>3. disk'[i] = mem'[i]
      BY <2>1, <2>3, <3>1, <3>2, Persisting, ZenonT(60)
    <3> QED
      BY <1>2, <3>3
  <2> QED
    BY <2>2, <2>3
<1>7. ASSUME NEW j \in Item, PushItem(j) PROVE EditKept(i)'
  <2> DEFINE accepted == run.items[j].revision = Latest(j) + 1
             settled == accepted \/ \E n \in Events : log[n].item = j /\ Same(run.items, n)
  <2>1. /\ UNCHANGED <<user, disk>> /\ run.pc = "push" /\ run.items[j].state = "dirty"
        /\ log' = IF accepted THEN Append(log, [item |-> j, by |-> "this"]) ELSE log
        /\ mem' = IF Here(j) THEN [mem EXCEPT ![j].state = IF settled THEN "clean" ELSE "conflicted"] ELSE mem
    BY <1>7 DEF PushItem, page, saved, Dirty
  <2>2. CASE mem'[i] = mem[i]
    BY <1>3, <2>1, <2>2
  <2>3. CASE mem'[i] # mem[i]
    <3>1. i = j /\ mem[j] # Absent
      BY <1>0, <2>1, <2>3 DEF Table, Here
    <3>2. disk[i] = run.items[i] /\ mem[i] = run.items[i]
      BY <2>1, <3>1 DEF PushedIsKept
    <3>3. CASE settled
      <4>1. Made(log', i, run.items[i].revision)
        <5>1. CASE accepted
          <6>1. /\ log' = Append(log, [item |-> i, by |-> "this"])
                /\ run.items[i].revision = Latest(i) + 1
            BY <2>1, <3>1, <5>1
          <6> QED
            BY <1>0, <6>1, AppendedIsMade
        <5>2. CASE \E n \in Events : log[n].item = j /\ Same(run.items, n)
          <6>1. Made(log, i, run.items[i].revision)
            BY <1>0, <3>1, <5>2, RevisionInLog DEF Made, Same, Events
          <6> QED
            BY <1>m, <6>1
        <5> QED
          BY <3>3, <5>1, <5>2
      <4> QED
        BY <2>1, <3>2, <4>1 DEF EditKept
    <3>4. CASE ~settled
      <4>1. mem' = [mem EXCEPT ![i].state = "conflicted"]
        BY <2>1, <3>1, <3>4 DEF Here
      <4>2. mem'[i].state = "conflicted" /\ mem'[i].revision = mem[i].revision
        BY <1>0, <3>1, <4>1 DEF Table, Record
      <4> QED
        BY <2>1, <3>2, <4>2 DEF EditKept
    <3> QED
      BY <3>3, <3>4
  <2> QED
    BY <2>2, <2>3
<1>8. CASE Examine
  <2>1. /\ UNCHANGED <<user, disk, log>> /\ run.events # {}
        /\ mem' = IF Verdict(First) = "conflict" THEN [mem EXCEPT ![log[First].item].state = "conflicted"] ELSE mem
    BY <1>8 DEF Examine, page, saved
  <2>2. CASE mem'[i] = mem[i]
    BY <1>3, <2>1, <2>2
  <2>3. CASE mem'[i] # mem[i]
    <3>1. i = log[First].item /\ Verdict(First) = "conflict"
      BY <1>0, <2>1, <2>3, FirstIsLeast DEF Table
    <3>2. mem[i].state = "dirty"
      <4>1. mem[i].state \in {"none", "clean", "dirty", "conflicted"}
        BY <1>0, RecordTypes DEF Table
      <4> QED
        BY <3>1, <4>1 DEF Verdict
    <3>3. mem'[i].state = "conflicted" /\ mem'[i].revision = mem[i].revision
      BY <2>1, <2>3, Marking, <1>8, <3>1, <1>0 DEF Table
    <3>4. EditKept(i)
      BY <1>0, <2>1 DEF EditsInv
    <3> QED
      BY <2>1, <3>2, <3>3, <3>4 DEF EditKept, Absent
  <2> QED
    BY <2>2, <2>3
<1>9. CASE Apply
  <2>1. /\ UNCHANGED <<user, disk, log>> /\ run.pc = "apply"
        /\ mem' = [mem EXCEPT ![log[First].item] = Clean(RevisionAt(First))]
        /\ missed' = missed \cup {k \in {log[First].item} :
                         mem[k].state = "dirty" \/ (disk[k].state = "dirty" /\ session # run.session)}
    BY <1>9 DEF Apply, page, saved
  <2>2. CASE i # log[First].item
    BY <1>0, <1>3, <2>1, <2>2 DEF Table
  <2>3. CASE i = log[First].item
    <3>1. mem[i].state # "dirty" /\ (disk[i].state = "dirty" => session = run.session)
      BY <2>1, <2>3
    <3>2. disk[i].state = "dirty" => Made(log, i, disk[i].revision)
      BY <1>0, <2>1, <2>3, <3>1 DEF EditsInv
    <3> QED
      BY <2>1, <3>2 DEF EditKept
  <2> QED
    BY <2>2, <2>3
<1>10. CASE UNCHANGED <<mem, user>>
  BY <1>3, <1>10
<1>11. Next => \/ UNCHANGED <<mem, user>> \/ LoadFirst \/ Lock \/ Restart \/ Merge \/ Examine \/ Apply
               \/ (\E u \in User : Switch(u)) \/ \E j \in Item : PushItem(j) \/ SaveItem(j)
  BY Zenon DEF Next, RunStep, Unlock, Decrypt, SelectVault, OtherDevice, Leave, Start, RunReads,
     Begin, TakeCursor, Pull, NextPage, Finish, Fail, memory, page
<1> QED
  BY <1>4, <1>5, <1>6, <1>7, <1>8, <1>9, <1>10, <1>11 DEF vars, memory, page

(* A record that is being decrypted is behind what is in memory, or in its  *)
(* place, unless the server has the edit.                                   *)
LEMMA DecryptedStep ==
  ASSUME SessionShape, WhereInv, LoadedInv, EditsInv, [Next]_vars, run'.pc = "apply", run'.session = session',
         NEW i \in Item, i = log'[First'].item,
         disk'[i].state = "dirty", mem'[i].state # "dirty", i \notin missed'
  PROVE  Made(log', i, disk'[i].revision)
<1>0. /\ ServerOK /\ Prefix /\ ServerOK' /\ RunOK /\ SessionOK /\ run \in RunType /\ mem \in Table
      /\ missed \subseteq missed' /\ \A j \in Item : mem[j] \in Record
  BY SessionFacts, MissedGrows
<1>d. disk'[i] = disk[i]
  BY DiskStep
<1>m. \A r : Made(log, i, r) => Made(log', i, r)
  BY <1>0, MadeGrows
<1>1. ASSUME run' = run, session' = session, mem'[i] = mem[i] PROVE Made(log', i, disk'[i].revision)
  <2>1. run.events # {} /\ First' = First
    BY <1>0, <1>1 DEF RunOK, First
  <2>2. First \in Events
    BY <1>0, <2>1, FirstIsLeast
  <2>3. i = log[First].item
    BY <1>0, <2>1, <2>2 DEF Prefix
  <2>4. Made(log, i, disk[i].revision)
    BY <1>0, <1>1, <1>d, <2>3 DEF EditsInv
  <2> QED
    BY <1>d, <1>m, <2>4
<1>2. CASE Examine
  <2>1. run.pc = "page" /\ run.events # {} /\ UNCHANGED <<log, user, session>>
    BY <1>2 DEF Examine, page
  <2>2. /\ Verdict(First) = "apply" /\ run.session = session
        /\ run' = [run EXCEPT !.pc = "apply"] /\ mem' = mem
    <3>1. Verdict(First) = "apply"
      BY <1>0, <1>2, <2>1 DEF Examine, RunType
    <3>2. run.session = session
      BY <1>2, <2>1, <3>1 DEF Examine, NoRun
    <3> QED
      BY <1>2, <3>1, <3>2 DEF Examine
  <2>3. First' = First /\ i = log[First].item
    <3>1. run'.events = run.events
      BY <1>0, <2>2 DEF RunType
    <3>2. First' = First
      BY <3>1 DEF First
    <3> QED
      BY <2>1, <3>2
  <2>4. run.user = user /\ Owner(i) = user /\ VaultOf[i] \in loaded /\ Active
    <3>1. run.user = user /\ Owner(i) = user
      BY <1>0, <2>1, <2>2, <2>3, FirstIsLeast DEF LoadedInv, Idle
    <3>2. session # 0 /\ ui # <<"unlocking">>
      BY <1>0, <2>1, <2>2 DEF WhereInv, RunOK, Idle
    <3>3. VaultOf[i] \in Vault /\ UserOf[VaultOf[i]] = user
      BY <3>1 DEF Owner
    <3>4. VaultOf[i] \in loaded
      BY <2>1, <2>2, <3>3 DEF WhereInv, Begun, Working
    <3> QED
      BY <3>1, <3>2, <3>4 DEF Active
  <2>5. mem[i] # Absent
    <3>1. disk[i] # Absent
      BY <1>d DEF Absent
    <3> QED
      BY <1>0, <2>4, <3>1 DEF LoadedInv, InMemory
  <2>6. EditKept(i)
    BY <1>0, <2>4 DEF EditsInv
  <2>7. CASE Made(log, i, disk[i].revision)
    BY <1>d, <1>m, <2>7
  <2>8. CASE mem[i].state = "conflicted" /\ mem[i].revision = disk[i].revision
    <3>1. Owner(i) = run.space
      BY <2>2, <2>3 DEF Verdict
    <3>2. Same(mem, First)
      BY <2>2, <2>3, <2>8, <3>1 DEF Verdict
    <3>3. First \in Events /\ RevisionIn(log, First) = RevisionAt(First)
      BY <1>0, <2>1, FirstIsLeast, RevisionInLog
    <3>4. Made(log, i, disk[i].revision)
      BY <2>3, <2>8, <3>2, <3>3 DEF Same, Made, Events
    <3> QED
      BY <1>d, <1>m, <3>4
  <2> QED
    BY <1>d, <2>2, <2>5, <2>6, <2>7, <2>8 DEF EditKept
<1>3. CASE \E j \in Item : SaveItem(j)
  <2>1. PICK j \in Item : SaveItem(j)
    BY <1>3
  <2>2. /\ UNCHANGED <<run, session>>
        /\ mem' = [mem EXCEPT ![j] = [revision |-> @.revision + 1, state |-> "dirty"]]
    BY <2>1 DEF SaveItem, page
  <2>3. i # j
    BY <1>0, <2>2 DEF Table
  <2>4. mem'[i] = mem[i]
    BY <1>0, <2>2, <2>3 DEF Table
  <2> QED
    BY <1>1, <2>2, <2>4
<1>4. CASE Lock \/ Unlock \/ LoadFirst \/ \E u \in User : Switch(u)
  <2>1. /\ run' = run
        /\ \/ session' = 0
           \/ session' = sessions + 1
           \/ session' = session /\ ui = <<"unlocking">>
    BY <1>4 DEF Lock, Unlock, LoadFirst, Switch
  <2>2. run.session # 0 /\ run.session # sessions + 1 /\ ~Idle
    BY <1>0, <2>1 DEF RunOK, RunType, SessionOK, Idle
  <2> QED
    BY <2>1, <2>2 DEF WhereInv
<1>5. CASE Merge
  <2>1. session' = session /\ load.pc = "merge" /\ run.pc = "apply" /\ run.session = session
    <3>1. run' = (IF run.pc = "wait" THEN [run EXCEPT !.pc = "begin"] ELSE run) /\ session' = session /\ load.pc = "merge"
      BY <1>5 DEF Merge
    <3>2. run.pc # "wait"
      BY <1>0, <3>1 DEF RunType
    <3> QED
      BY <3>1, <3>2
  <2> QED
    BY <2>1 DEF WhereInv, Begun, Working
<1>6. CASE Decrypt
  BY <1>1, <1>6 DEF Decrypt, page, memory, NoRun
<1>7. CASE Restart \/ Start \/ RunReads \/ Begin \/ TakeCursor \/ Pull \/ Apply \/ NextPage \/ Finish \/ Fail
           \/ \E j \in Item : PushItem(j)
  <2>1. NoRun.pc = "idle" /\ NoRun \in RunType
    BY NoTypes DEF NoRun
  <2>2. CASE Start \/ Finish \/ Fail \/ Restart
    <3>1. run' = NoRun \/ run' = [NoRun EXCEPT !.user = user, !.session = session, !.pc = "load"]
      BY <2>2 DEF Start, Finish, Fail, Restart
    <3> QED
      BY <2>1, <3>1 DEF RunType
  <2>3. CASE RunReads \/ Begin \/ TakeCursor \/ Pull \/ NextPage
    BY <1>0, <2>1, <2>3 DEF RunReads, Begin, TakeCursor, Pull, NextPage, RunType
  <2>4. CASE Apply \/ \E j \in Item : PushItem(j)
    BY <1>0, <2>4 DEF Apply, PushItem, RunType
  <2> QED
    BY <1>7, <2>2, <2>3, <2>4
<1>8. CASE UNCHANGED <<run, mem, session>>
  BY <1>1, <1>8
<1>9. Next => \/ UNCHANGED <<run, mem, session>> \/ Examine \/ Lock \/ Unlock \/ LoadFirst \/ Merge \/ Decrypt
              \/ Restart \/ Start \/ RunReads \/ Begin \/ TakeCursor \/ Pull \/ Apply \/ NextPage \/ Finish \/ Fail
              \/ (\E u \in User : Switch(u)) \/ (\E j \in Item : SaveItem(j)) \/ \E j \in Item : PushItem(j)
  BY Zenon DEF Next, RunStep, SelectVault, Leave, OtherDevice, page, memory
<1> QED
  BY <1>2, <1>3, <1>4, <1>5, <1>6, <1>7, <1>8, <1>9 DEF vars, memory, page

LEMMA EditsStep ==
  ASSUME SessionShape, WhereInv, LoadedInv, PushedIsKept, EditsInv, [Next]_vars
  PROVE  EditsInv'
<1>1. ASSUME NEW i \in Item, Owner(i) = user', i \notin missed' PROVE EditKept(i)'
  BY <1>1, EditKeptStep
<1>2. ASSUME run'.pc = "apply", run'.session = session', disk'[log'[First'].item].state = "dirty",
             mem'[log'[First'].item].state # "dirty", log'[First'].item \notin missed'
      PROVE  Made(log', log'[First'].item, disk'[log'[First'].item].revision)
  <2>1. log'[First'].item \in Item
    <3>1. SessionShape'
      BY SessionShapeStep
    <3>2. ServerOK' /\ RunOK' /\ run'.events # {}
      BY <1>2, <3>1 DEF SessionShape, RunOK
    <3>3. run'.events \in SUBSET Nat
      BY <3>2 DEF RunOK, RunType
    <3>4. First' \in run'.events
      BY <3>2, <3>3, LeastOf DEF First
    <3>5. First' \in DOMAIN log'
      BY <3>2, <3>4 DEF RunOK, Events
    <3>6. \A n \in DOMAIN log' : log'[n] \in Event
      BY <3>2 DEF ServerOK
    <3> QED
      BY <3>5, <3>6 DEF Event
  <2> QED
    BY <1>2, <2>1, DecryptedStep
<1> QED
  BY <1>1, <1>2 DEF EditsInv, Owner

LEMMA EditsInit == Init => PushedIsKept /\ EditsInv
<1> SUFFICES ASSUME Init PROVE PushedIsKept /\ EditsInv
  OBVIOUS
<1>1. run.pc = "idle" /\ \A i \in Item : mem[i] = Absent
  BY RecordTypes DEF Init, NoRun
<1> QED
  BY <1>1 DEF PushedIsKept, EditsInv, EditKept

KeptInv == SessionInv /\ LoadedInv /\ PushedIsKept /\ EditsInv

(* What is edited is on the disk and in memory, or in conflict there, or    *)
(* the server has it, whatever is loaded, pushed or pulled meanwhile.       *)
THEOREM EditsInvariant == Spec => []KeptInv
<1>1. Init => LoadedInv /\ PushedIsKept /\ EditsInv
  BY LoadedInit, EditsInit
<1>2. SessionInv /\ LoadedInv /\ PushedIsKept /\ EditsInv /\ [Next]_vars
        => LoadedInv' /\ PushedIsKept' /\ EditsInv'
  BY LoadedStep, PushedIsKeptStep, EditsStep DEF SessionInv
<1> QED
  BY <1>1, <1>2, SessionInvariant, PTL DEF Spec, KeptInv

(* A step that writes to the disk takes what is in memory, where a saved    *)
(* edit still is, or is marked a conflict, unless the server has it.        *)
LEMMA EditLeaves ==
  ASSUME KeptInv, [Next]_vars, NEW i \in Item, disk[i].state = "dirty", disk'[i] # disk[i],
         i \notin missed', disk'[i].state # "conflicted"
  PROVE  \E n \in Events : log[n].item = i /\ Same(disk, n)
<1> USE DEF KeptInv, SessionInv
<1>0. /\ ServerOK /\ mem \in Table /\ missed \subseteq missed' /\ \A j \in Item : mem[j] \in Record
  BY SessionFacts, MissedGrows
<1>1. session # 0 /\ user' = user /\ Owner(i) = user /\ mem'[i] # Absent /\ disk'[i] = mem'[i]
  BY DiskStep
<1>2. EditKept(i)
  BY <1>0, <1>1 DEF EditsInv
<1>3. ASSUME Made(log, i, disk[i].revision) PROVE \E n \in Events : log[n].item = i /\ Same(disk, n)
  BY <1>0, <1>3, RevisionInLog DEF Made, Same, Events
<1>4. CASE mem'[i] = mem[i]
  BY <1>1, <1>2, <1>3, <1>4 DEF EditKept
<1>5. CASE Merge
  <2>1. load.pc = "merge" /\ mem' = Merged(load.items)
    BY <1>5 DEF Merge
  <2>2. load.items[i] # Absent => session \in {0, load.session}
    BY <2>1, RecordTypes DEF WhereInv
  <2>3. load.items[i] = Absent \/ disk[i] = load.items[i]
    BY <2>1, <2>2 DEF LoadedInv, OnItsWay
  <2>4. mem'[i] = mem[i] \/ mem'[i] = disk[i]
    BY <2>1, <2>3 DEF Merged
  <2> QED
    BY <1>1, <1>4, <2>4
<1>6. ASSUME NEW j \in Item, SaveItem(j) PROVE \E n \in Events : log[n].item = i /\ Same(disk, n)
  <2>1. /\ mem[j].state = "clean" \/ disk[j] = Absent
        /\ mem' = [mem EXCEPT ![j] = [revision |-> @.revision + 1, state |-> "dirty"]]
    BY <1>6 DEF SaveItem
  <2>2. CASE i # j
    BY <1>0, <1>4, <2>1, <2>2 DEF Table
  <2>3. CASE i = j
    <3>1. mem[i].state = "clean"
      BY <2>1, <2>3 DEF Absent
    <3> QED
      BY <1>2, <1>3, <3>1 DEF EditKept, Absent
  <2> QED
    BY <2>2, <2>3
<1>7. CASE Finish \/ (\E u \in User \cup {NoUser} : Leave(u)) \/ UNCHANGED disk
  BY <1>4, <1>7 DEF Finish, Leave, memory
<1>8. Next => UNCHANGED disk \/ Merge \/ Finish \/ (\E j \in Item : SaveItem(j))
              \/ \E u \in User \cup {NoUser} : Leave(u)
  BY Zenon DEF Next, RunStep, Unlock, LoadFirst, Decrypt, Lock, Restart, SelectVault, OtherDevice,
     PushItem, Switch, Start, RunReads, Begin, TakeCursor, Pull, Examine, Apply, NextPage, Fail,
     saved
<1> QED
  BY <1>5, <1>6, <1>7, <1>8 DEF vars, saved

(* A saved edit leaves the disk only for the same version from the server,  *)
(* a conflict, or an item that missed names (EditIsKept).                   *)
THEOREM EditsAreKept == Spec => EditIsKept
<1>1. ASSUME KeptInv, [Next]_vars
      PROVE  \A i \in Item :
               disk[i].state = "dirty" /\ disk'[i] # disk[i] =>
                 \/ i \in missed'
                 \/ disk'[i].state = "conflicted"
                 \/ \E n \in Events : log[n].item = i /\ Same(disk, n)
  BY <1>1, EditLeaves
<1> QED
  BY <1>1, EditsInvariant, PTL DEF Spec, EditIsKept

HIDE VaultSessionAssumption DEF VaultSessionAssumption

-----------------------------------------------------------------------------
(* The page and what it leaves to others.  Each invariant needs little      *)
(* besides itself: for the items the last call of a locked page is always a *)
(* clear, for the clipboard a copy between writing and scheduling is        *)
(* watched without the old timer.                                           *)
USE DesktopLockAssumption DEF DesktopLockAssumption, Front, Room

-----------------------------------------------------------------------------
(* Types                                                                    *)
OpenOK ==
  /\ unlocked \in BOOLEAN /\ items \in BOOLEAN /\ unlocking \in {"no", "deriving", "loading"}

LocksOK ==
  /\ window \in {"front", "behind", "hidden"} /\ timer \in BOOLEAN
  /\ lockKey \in BOOLEAN /\ unwatched \in BOOLEAN

CountsOK == lockings \in 0..MaxLockings /\ opening \in 0..MaxOpening

CallsOK == calls \in Seq(Payloads \cup {"clear"}) /\ Len(calls) <= MaxCalls

NativeOK ==
  /\ show \in Payloads \cup {"none"} /\ cache \in Payloads \cup {"none"}
  /\ quick \in Payloads \cup {"closed", "blank"} /\ reload \in BOOLEAN
  /\ overtaken \in BOOLEAN

Value == Secret \cup {Other}
BoardOK ==
  /\ clip \in Value /\ cleanup \in Value /\ copying \in Value /\ request \in Value
  /\ clearing \in SUBSET Secret /\ kept \in BOOLEAN

PageShape == OpenOK /\ LocksOK /\ CountsOK /\ CallsOK /\ NativeOK /\ BoardOK

LEMMA PageShapeInit == DesktopInit => PageShape
<1> SUFFICES ASSUME DesktopInit PROVE PageShape
  OBVIOUS
<1>1. CallsOK
  <2>1. calls = <<"clear">> /\ "clear" \in Payloads \cup {"clear"}
    BY DEF DesktopInit
  <2> QED
    BY <2>1 DEF CallsOK
<1>2. OpenOK
  BY DEF DesktopInit, OpenOK
<1>3. LocksOK
  BY DEF DesktopInit, LocksOK
<1>4. NativeOK
  BY DEF DesktopInit, NativeOK, Payloads
<1>5. BoardOK
  BY DEF DesktopInit, BoardOK, Value
<1>6. CountsOK
  BY DEF DesktopInit, CountsOK
<1> QED
  BY <1>1, <1>2, <1>3, <1>4, <1>5, <1>6 DEF PageShape

LEMMA OpenStep == OpenOK /\ [DesktopNext]_desktop => OpenOK'
<1> SUFFICES ASSUME OpenOK, [DesktopNext]_desktop PROVE OpenOK'
  OBVIOUS
<1>1. CASE UnlockApp \/ Opened \/ Loaded \/ EndLock
  BY <1>1 DEF OpenOK, UnlockApp, Opened, Loaded, EndLock
<1>2. CASE UNCHANGED store
  BY <1>2 DEF OpenOK, store
<1>3. DesktopNext => UnlockApp \/ Opened \/ Loaded \/ EndLock \/ UNCHANGED store
  BY DEF DesktopNext, Changed, Left, Uncovered, LockHere, AutoLock, SystemLock, PressLockKey, Poll,
     ReplaceShortcuts, CopyHere, Empty, CopyAndClose, ScheduleCleanup, CleanupDue, HandleCopy,
     Deliver, OpenQuickSearch, RunShow, PressQuickSearch, ShowWindow, Reload, CloseQuickSearch
<1> QED
  BY <1>1, <1>2, <1>3 DEF desktop

LEMMA CountsStep == CountsOK /\ [DesktopNext]_desktop => CountsOK'
<1> SUFFICES ASSUME CountsOK, [DesktopNext]_desktop PROVE CountsOK'
  OBVIOUS
<1>1. lockings' = lockings \/ (lockings > 0 /\ lockings' = lockings - 1)
        \/ (lockings < MaxLockings /\ lockings' = lockings + 1)
  BY Zenon DEF DesktopNext, desktop, locks, UnlockApp, Opened, Loaded, Changed, Left, Uncovered,
     LockHere, AutoLock, SystemLock, StartLock, PressLockKey, Poll, ReplaceShortcuts, EndLock,
     CopyHere, Empty, CopyAndClose, ScheduleCleanup, CleanupDue, HandleCopy, Deliver,
     OpenQuickSearch, RunShow, PressQuickSearch, ShowWindow, Reload, CloseQuickSearch
<1>2. opening' = opening \/ (opening > 0 /\ opening' = opening - 1)
        \/ (opening < MaxOpening /\ opening' = opening + 1)
  BY Zenon DEF DesktopNext, desktop, native, UnlockApp, Opened, Loaded, Changed, Left, Uncovered,
     LockHere, AutoLock, SystemLock, PressLockKey, Poll, ReplaceShortcuts, EndLock, CopyHere,
     Empty, CopyAndClose, ScheduleCleanup, CleanupDue, HandleCopy, Deliver, OpenQuickSearch,
     RunShow, PressQuickSearch, ShowWindow, Reload, CloseQuickSearch
<1> QED
  BY <1>1, <1>2 DEF CountsOK

LEMMA LocksStep == OpenOK /\ LocksOK /\ [DesktopNext]_desktop => LocksOK'
<1> SUFFICES ASSUME OpenOK, LocksOK, [DesktopNext]_desktop PROVE LocksOK'
  OBVIOUS
<1> USE DEF OpenOK, LocksOK, Schedule, Cancel
<1>1. CASE Opened
  BY <1>1 DEF Opened
<1>2. CASE Left \/ Uncovered
  BY <1>2 DEF Left, Uncovered
<1>3. CASE LockHere \/ AutoLock
  BY <1>3 DEF LockHere, AutoLock
<1>4. CASE SystemLock
  BY <1>4 DEF SystemLock
<1>5. CASE PressLockKey \/ Poll \/ ReplaceShortcuts
  BY <1>5 DEF PressLockKey, Poll, ReplaceShortcuts
<1>6. CASE EndLock
  BY <1>6 DEF EndLock
<1>7. CASE UNCHANGED locks
  BY <1>7 DEF locks
<1>8. DesktopNext => Opened \/ Left \/ Uncovered \/ LockHere \/ AutoLock \/ SystemLock \/ PressLockKey
              \/ Poll \/ ReplaceShortcuts \/ EndLock \/ UNCHANGED locks
  BY DEF DesktopNext, UnlockApp, Loaded, Changed, CopyHere, Empty, CopyAndClose, ScheduleCleanup,
     CleanupDue, HandleCopy, Deliver, OpenQuickSearch, RunShow, PressQuickSearch, ShowWindow,
     Reload, CloseQuickSearch
<1> QED
  BY <1>1, <1>2, <1>3, <1>4, <1>5, <1>6, <1>7, <1>8 DEF desktop

(* Every step leaves the calls, adds one or takes the first.                *)
LEMMA CallSteps ==
  ASSUME OpenOK, [DesktopNext]_desktop
  PROVE  \/ UNCHANGED calls
         \/ Room /\ \E c \in Payloads \cup {"clear"} : calls' = Append(calls, c)
         \/ calls # <<>> /\ calls' = Tail(calls)
<1>1. CASE Opened \/ Loaded \/ Changed \/ EndLock
  BY <1>1 DEF Opened, Loaded, Changed, EndLock, Refresh, Shown, Payloads
<1>2. CASE Deliver
  BY <1>2 DEF Deliver
<1>3. DesktopNext => Opened \/ Loaded \/ Changed \/ EndLock \/ Deliver \/ UNCHANGED calls
  BY DEF DesktopNext, UnlockApp, Left, Uncovered, LockHere, AutoLock, SystemLock, PressLockKey,
     Poll, ReplaceShortcuts, CopyHere, Empty, CopyAndClose, ScheduleCleanup, CleanupDue,
     HandleCopy, OpenQuickSearch, RunShow, PressQuickSearch, ShowWindow, Reload, CloseQuickSearch
<1> QED
  BY <1>1, <1>2, <1>3 DEF desktop

LEMMA CallsStep == OpenOK /\ CallsOK /\ [DesktopNext]_desktop => CallsOK'
<1> SUFFICES ASSUME OpenOK, CallsOK, [DesktopNext]_desktop PROVE CallsOK'
  OBVIOUS
<1> USE DEF CallsOK
<1>1. CASE UNCHANGED calls
  BY <1>1
<1>2. ASSUME Room, NEW c \in Payloads \cup {"clear"}, calls' = Append(calls, c) PROVE CallsOK'
  BY <1>2
<1>3. CASE calls # <<>> /\ calls' = Tail(calls)
  BY <1>3
<1> QED
  BY <1>1, <1>2, <1>3, CallSteps

LEMMA NativeStep == OpenOK /\ CallsOK /\ NativeOK /\ [DesktopNext]_desktop => NativeOK'
<1> SUFFICES ASSUME OpenOK, CallsOK, NativeOK, [DesktopNext]_desktop PROVE NativeOK'
  OBVIOUS
<1> USE DEF NativeOK, Payloads, Closed
<1>1. CASE Deliver
  <2>1. Head(calls) \in Payloads \cup {"clear"}
    BY <1>1 DEF Deliver, CallsOK
  <2> QED
    BY <1>1, <2>1 DEF Deliver
<1>2. CASE OpenQuickSearch \/ RunShow
  BY <1>2 DEF OpenQuickSearch, RunShow, Shown, OpenOK
<1>3. CASE PressQuickSearch \/ ShowWindow
  BY <1>3 DEF PressQuickSearch, ShowWindow
<1>4. CASE Reload \/ CloseQuickSearch
  BY <1>4 DEF Reload, CloseQuickSearch
<1>5. ASSUME NEW s \in Secret, CopyAndClose(s) PROVE NativeOK'
  BY <1>5 DEF CopyAndClose
<1>6. CASE UNCHANGED native
  BY <1>6 DEF native
<1>7. DesktopNext => Deliver \/ OpenQuickSearch \/ RunShow \/ PressQuickSearch \/ ShowWindow \/ Reload
              \/ CloseQuickSearch \/ (\E s \in Secret : CopyAndClose(s)) \/ UNCHANGED native
  BY DEF DesktopNext, UnlockApp, Opened, Loaded, Changed, Left, Uncovered, LockHere, AutoLock,
     SystemLock, PressLockKey, Poll, ReplaceShortcuts, EndLock, CopyHere, Empty, ScheduleCleanup,
     CleanupDue, HandleCopy
<1> QED
  BY <1>1, <1>2, <1>3, <1>4, <1>5, <1>6, <1>7 DEF desktop

LEMMA BoardStep == BoardOK /\ [DesktopNext]_desktop => BoardOK'
<1> SUFFICES ASSUME BoardOK, [DesktopNext]_desktop PROVE BoardOK'
  OBVIOUS
<1> USE DEF BoardOK, Value, Write, ReadClipboard
<1>1. ASSUME NEW s \in Secret, CopyHere(s) PROVE BoardOK'
  BY <1>1 DEF CopyHere
<1>2. ASSUME NEW s \in Secret, Empty(s) PROVE BoardOK'
  BY <1>2 DEF Empty
<1>3. ASSUME NEW s \in Secret, CopyAndClose(s) PROVE BoardOK'
  BY <1>3 DEF CopyAndClose
<1>4. CASE ScheduleCleanup
  BY <1>4 DEF ScheduleCleanup
<1>5. CASE CleanupDue
  BY <1>5 DEF CleanupDue
<1>6. CASE EndLock
  BY <1>6 DEF EndLock, ClearPending
<1>7. CASE HandleCopy
  BY <1>7 DEF HandleCopy
<1>8. CASE UNCHANGED board
  BY <1>8 DEF board
<1>9. DesktopNext => (\E s \in Secret : CopyHere(s) \/ Empty(s) \/ CopyAndClose(s)) \/ ScheduleCleanup
              \/ CleanupDue \/ EndLock \/ HandleCopy \/ UNCHANGED board
  BY DEF DesktopNext, UnlockApp, Opened, Loaded, Changed, Left, Uncovered, LockHere, AutoLock,
     SystemLock, PressLockKey, Poll, ReplaceShortcuts, Deliver, OpenQuickSearch, RunShow,
     PressQuickSearch, ShowWindow, Reload, CloseQuickSearch
<1> QED
  BY <1>1, <1>2, <1>3, <1>4, <1>5, <1>6, <1>7, <1>8, <1>9 DEF desktop

LEMMA PageShapeStep == PageShape /\ [DesktopNext]_desktop => PageShape'
  BY OpenStep, CountsStep, LocksStep, CallsStep, NativeStep, BoardStep DEF PageShape

LEMMA PageTypes == PageShape => TypeOK
  BY DEF PageShape, OpenOK, LocksOK, CountsOK, CallsOK, NativeOK, BoardOK, Value, TypeOK

(* Every variable keeps its type, and no bound is passed.                   *)
THEOREM Typing == DesktopSpec => []TypeOK
  BY PageShapeInit, PageShapeStep, PageTypes, PTL DEF DesktopSpec

-----------------------------------------------------------------------------
(* A vault whose window is left                                             *)
LEMMA WatchStep ==
  ASSUME OpenOK, LocksOK, CountsOK, LeftIsWatched, [DesktopNext]_desktop
  PROVE  LeftIsWatched'
<1> USE DEF LeftIsWatched, OpenOK, LocksOK, store
<1>1. CASE Opened \/ EndLock
  BY <1>1 DEF Opened, EndLock
<1>2. CASE Left
  BY <1>2 DEF Left, Schedule
<1>3. CASE Uncovered
  BY <1>3 DEF Uncovered, Cancel
<1>4. StartLock => lockings' > 0
  BY DEF StartLock, CountsOK
<1>5. CASE LockHere \/ AutoLock \/ Poll
  BY <1>4, <1>5 DEF LockHere, AutoLock, Poll
<1>6. CASE SystemLock
  BY <1>4, <1>6 DEF SystemLock, Cancel
<1>7. CASE UNCHANGED <<unlocked, locks>>
  BY <1>7 DEF locks
<1>8. CASE UNCHANGED <<unlocked, window, timer, lockings, unwatched>>
  BY <1>8
<1>9. DesktopNext => Opened \/ EndLock \/ Left \/ Uncovered \/ LockHere \/ AutoLock \/ Poll \/ SystemLock
              \/ UNCHANGED <<unlocked, locks>> \/ UNCHANGED <<unlocked, window, timer, lockings, unwatched>>
  <2>1. UnlockApp \/ Loaded => UNCHANGED <<unlocked, locks>>
    BY DEF UnlockApp, Loaded
  <2>2. PressLockKey \/ ReplaceShortcuts => UNCHANGED <<unlocked, window, timer, lockings, unwatched>>
    BY DEF PressLockKey, ReplaceShortcuts, store
  <2>3. Changed \/ (\E s \in Secret : CopyHere(s) \/ Empty(s) \/ CopyAndClose(s)) \/ ScheduleCleanup
          \/ CleanupDue \/ HandleCopy => UNCHANGED <<unlocked, locks>>
    BY DEF Changed, CopyHere, Empty, CopyAndClose, ScheduleCleanup, CleanupDue, HandleCopy, store
  <2>4. Deliver \/ OpenQuickSearch \/ RunShow \/ PressQuickSearch \/ ShowWindow \/ Reload
          \/ CloseQuickSearch => UNCHANGED <<unlocked, locks>>
    BY DEF Deliver, OpenQuickSearch, RunShow, PressQuickSearch, ShowWindow, Reload,
       CloseQuickSearch, store
  <2> QED
    BY <2>1, <2>2, <2>3, <2>4 DEF DesktopNext
<1> QED
  BY <1>1, <1>2, <1>3, <1>5, <1>6, <1>7, <1>8, <1>9 DEF desktop, store

(* An unlocked vault behind other windows has its timer or is being locked, *)
(* but for the exceptions that unwatched names.                             *)
THEOREM LeftWatched == DesktopSpec => []LeftIsWatched
<1>1. DesktopInit => PageShape /\ LeftIsWatched
  BY PageShapeInit DEF DesktopInit, LeftIsWatched
<1>2. PageShape /\ LeftIsWatched /\ [DesktopNext]_desktop => (PageShape /\ LeftIsWatched)'
  BY PageShapeStep, WatchStep DEF PageShape
<1> QED
  BY <1>1, <1>2, PTL DEF DesktopSpec

-----------------------------------------------------------------------------
(* What a locked vault leaves to the native side.  The last call of a       *)
(* locked page clears, so what is still to be carried out ends with it.     *)
EndsWithClear == ~unlocked => calls = <<>> \/ calls[Len(calls)] = "clear"

LEMMA EndsStep ==
  ASSUME OpenOK, CallsOK, EndsWithClear, [DesktopNext]_desktop
  PROVE  EndsWithClear'
<1> SUFFICES ASSUME ~unlocked' PROVE calls' = <<>> \/ calls'[Len(calls')] = "clear"
  BY DEF EndsWithClear
<1>1. CASE EndLock \/ Loaded
  <2>1. calls' = Append(calls, "clear")
    BY <1>1 DEF EndLock, Loaded, Refresh
  <2> QED
    BY <2>1 DEF CallsOK
<1>2. CASE Deliver
  <2>1. ~unlocked /\ calls' = Tail(calls) /\ calls # <<>>
    BY <1>2 DEF Deliver, store
  <2>2. calls[Len(calls)] = "clear"
    BY <2>1 DEF EndsWithClear
  <2> QED
    BY <2>1, <2>2 DEF CallsOK
<1>3. CASE unlocked' = unlocked /\ calls' = calls
  BY <1>3 DEF EndsWithClear
<1>4. ~Opened /\ ~Changed
  <2>1. ~Opened
    BY DEF Opened
  <2>2. Changed => unlocked /\ unlocked' = unlocked
    BY DEF Changed, store
  <2> QED
    BY <2>1, <2>2
<1>5. DesktopNext => Opened \/ Changed \/ EndLock \/ Loaded \/ Deliver \/ (unlocked' = unlocked /\ calls' = calls)
  BY DEF DesktopNext, UnlockApp, Left, Uncovered, LockHere, AutoLock, SystemLock, PressLockKey,
     Poll, ReplaceShortcuts, CopyHere, Empty, CopyAndClose, ScheduleCleanup, CleanupDue,
     HandleCopy, OpenQuickSearch, RunShow, PressQuickSearch, ShowWindow, Reload, CloseQuickSearch,
     store
<1> QED
  BY <1>1, <1>2, <1>3, <1>4, <1>5 DEF desktop, store

LEMMA ForgetsStep ==
  ASSUME OpenOK, CallsOK, NativeOK, EndsWithClear, LockedForgets, [DesktopNext]_desktop
  PROVE  LockedForgets'
<1> SUFFICES ASSUME ~unlocked', calls' = <<>>, ~overtaken'
             PROVE  cache' # "items" /\ quick' # "items"
  BY DEF LockedForgets
<1>1. CASE Deliver
  <2>1. ~unlocked /\ calls # <<>> /\ Tail(calls) = <<>>
    BY <1>1 DEF Deliver, store
  <2>2. Len(calls) = 1 /\ Head(calls) = calls[1]
    <3>1. calls # <<>> /\ Tail(calls) = <<>>
      BY <2>1
    <3>2. Len(Tail(calls)) = 0
      BY <3>1, EmptySeq
    <3>3. Len(Tail(calls)) = Len(calls) - 1 /\ Len(calls) \in Nat
      BY <3>1, HeadTailProperties DEF CallsOK
    <3> QED
      BY <3>1, <3>2, <3>3 DEF CallsOK
  <2>3. Head(calls) = "clear"
    BY <2>1, <2>2 DEF EndsWithClear
  <2> QED
    BY <1>1, <2>3 DEF Deliver, Closed
<1>2. CASE RunShow
  BY <1>2 DEF RunShow, store, LockedForgets, NativeOK
<1>3. CASE Reload
  BY <1>3 DEF Reload, Closed, store, LockedForgets
<1>4. CASE ShowWindow
  BY <1>4 DEF ShowWindow, store, LockedForgets
<1>5. CASE CloseQuickSearch \/ (\E s \in Secret : CopyAndClose(s))
  BY <1>5 DEF CloseQuickSearch, CopyAndClose, Closed, store, LockedForgets
<1>6. CASE UNCHANGED <<unlocked, calls, cache, quick, overtaken>>
  BY <1>6 DEF LockedForgets
<1>7. ~(Opened \/ Loaded \/ Changed \/ EndLock)
  <2>1. \A c \in Payloads \cup {"clear"} : Append(calls, c) # <<>>
    BY DEF CallsOK
  <2> QED
    BY <2>1 DEF Opened, Loaded, Changed, EndLock, Refresh, Shown, Payloads
<1>8. DesktopNext => Deliver \/ RunShow \/ Reload \/ ShowWindow \/ CloseQuickSearch
              \/ (\E s \in Secret : CopyAndClose(s)) \/ Opened \/ Loaded \/ Changed \/ EndLock
              \/ UNCHANGED <<unlocked, calls, cache, quick, overtaken>>
  BY DEF DesktopNext, UnlockApp, Left, Uncovered, LockHere, AutoLock, SystemLock, PressLockKey,
     Poll, ReplaceShortcuts, CopyHere, Empty, ScheduleCleanup, CleanupDue, HandleCopy,
     OpenQuickSearch, PressQuickSearch, store, native
<1> QED
  BY <1>1, <1>2, <1>3, <1>4, <1>5, <1>6, <1>7, <1>8 DEF desktop, store, native

(* Nothing decrypted stays with the native side or its window after a lock, *)
(* unless a command to show it was carried out later.                       *)
THEOREM Forgotten == DesktopSpec => []LockedForgets
<1> DEFINE Inv == PageShape /\ EndsWithClear /\ LockedForgets
<1>1. DesktopInit => Inv
  BY PageShapeInit DEF DesktopInit, EndsWithClear, LockedForgets
<1>2. Inv /\ [DesktopNext]_desktop => Inv'
  BY PageShapeStep, EndsStep, ForgetsStep DEF PageShape
<1> QED
  BY <1>1, <1>2, PTL DEF DesktopSpec

-----------------------------------------------------------------------------
(* The clipboard.  A copy that is not scheduled yet is watched without the  *)
(* timer, which it is about to replace.                                     *)
CopyInHand ==
  copying # Other /\ clip \in Secret /\ ~kept => clip \in {copying, request} \cup clearing

LEMMA CopyStep ==
  ASSUME BoardOK, CopyInHand, CopyIsWatched, [DesktopNext]_desktop
  PROVE  CopyInHand' /\ CopyIsWatched'
<1> USE DEF BoardOK, Value, CopyInHand, CopyIsWatched, Write, ReadClipboard
<1>1. ASSUME NEW s \in Secret, CopyHere(s) PROVE CopyInHand' /\ CopyIsWatched'
  BY <1>1 DEF CopyHere
<1>2. ASSUME NEW s \in Secret, Empty(s) PROVE CopyInHand' /\ CopyIsWatched'
  BY <1>2 DEF Empty
<1>3. ASSUME NEW s \in Secret, CopyAndClose(s) PROVE CopyInHand' /\ CopyIsWatched'
  BY <1>3 DEF CopyAndClose
<1>4. CASE ScheduleCleanup
  BY <1>4 DEF ScheduleCleanup
<1>5. CASE CleanupDue
  BY <1>5 DEF CleanupDue
<1>6. CASE EndLock
  BY <1>6 DEF EndLock, ClearPending
<1>7. CASE HandleCopy
  BY <1>7 DEF HandleCopy
<1>8. CASE UNCHANGED board
  BY <1>8 DEF board
<1>9. DesktopNext => (\E s \in Secret : CopyHere(s) \/ Empty(s) \/ CopyAndClose(s)) \/ ScheduleCleanup
              \/ CleanupDue \/ EndLock \/ HandleCopy \/ UNCHANGED board
  BY DEF DesktopNext, UnlockApp, Opened, Loaded, Changed, Left, Uncovered, LockHere, AutoLock,
     SystemLock, PressLockKey, Poll, ReplaceShortcuts, Deliver, OpenQuickSearch, RunShow,
     PressQuickSearch, ShowWindow, Reload, CloseQuickSearch
<1> QED
  BY <1>1, <1>2, <1>3, <1>4, <1>5, <1>6, <1>7, <1>8, <1>9 DEF desktop

(* Something still clears a copied value, unless that was refused or the    *)
(* page was locked when it learnt of the copy.                              *)
THEOREM CopyWatched == DesktopSpec => []CopyIsWatched
<1> DEFINE Inv == PageShape /\ CopyInHand /\ CopyIsWatched
<1>1. DesktopInit => Inv
  BY PageShapeInit DEF DesktopInit, CopyInHand, CopyIsWatched
<1>2. Inv /\ [DesktopNext]_desktop => Inv'
  BY PageShapeStep, CopyStep DEF PageShape
<1> QED
  BY <1>1, <1>2, PTL DEF DesktopSpec

HIDE DesktopLockAssumption DEF DesktopLockAssumption, Front, Room

-----------------------------------------------------------------------------
(* The extension.  What a request has read is as it was while no other has  *)
(* overtaken it, and what is unlocked is of the account but for the         *)
(* exceptions.                                                              *)
USE ExtensionAssumption DEF ExtensionAssumption

Items == [VaultItem -> Nat]
RecordType == [unlocked : BOOLEAN, items : Items]
JobType ==
  [account : Account \cup {Nobody}, item : VaultItem \cup {Nobody}, items : Items, id : Nat,
   saw : RecordType, overtaken : BOOLEAN]

Asking == {"unlock", "lock", "authorize", "settings", "save", "page", "touch"}
Steps == Asking \cup Holding \cup {"idle", "failed", "wipe", "empty"}
Opening == {"close", "derive", "decrypt", "activate", "write"}
Saving == {"encrypt", "push", "show"}

WorkerOK ==
  /\ account \in Account \cup {Nobody} /\ record \in RecordType /\ late \in BOOLEAN
  /\ active \in [account : Account \cup {Nobody}, id : Nat]
  /\ server \in [Account -> Items] /\ ids \in Nat
TasksOK ==
  /\ job \in [Task -> JobType] /\ pc \in [Task -> Steps]
  /\ \A t \in Task : /\ pc[t] \in {"fetch"} \cup Opening \cup Saving => job[t].account \in Account
                     /\ pc[t] \in Saving => job[t].item \in VaultItem

WorkerShape == WorkerOK /\ TasksOK

(* An item is of one account.                                               *)
OneOwner ==
  \A a, b \in Account, i \in VaultItem : server[a][i] # 0 /\ server[b][i] # 0 => a = b

(* No revision is made up.                                                  *)
Known(its, srv) == \A i \in VaultItem : its[i] = 0 \/ \E a \in Account : its[i] <= srv[a][i]

KnownInv ==
  /\ Known(record.items, server)
  /\ \A t \in Task :
       /\ Known(job[t].items, server) /\ Known(job[t].saw.items, server)
       /\ pc[t] = "show" => job[t].items[job[t].item] + 1 <= server[job[t].account][job[t].item]

(* An item that is being created is nobody's yet, and one request's.        *)
Creating(t) == pc[t] \in {"encrypt", "push"} /\ job[t].items[job[t].item] = 0

CreateInv ==
  \A t \in Task : Creating(t) =>
    /\ \A a \in Account : server[a][job[t].item] = 0
    /\ \A u \in Task \ {t} : pc[u] \in Saving => job[u].item # job[t].item

Of(its, a) == a \in Account /\ \A i \in VaultItem : its[i] # 0 => server[a][i] # 0

(* What is as a request has read it                                         *)
Current(t) ==
  ~job[t].overtaken =>
    /\ pc[t] \in {"fetch"} \cup Opening \cup Saving => job[t].account = account
    /\ pc[t] \in Opening =>
         /\ Of(job[t].items, account)
         /\ \A i \in VaultItem :
              record.items[i] <= job[t].items[i] \/ \E a \in Account \ {account} : server[a][i] # 0
    /\ pc[t] \in Saving => record.unlocked /\ job[t].items = record.items
    /\ pc[t] = "touched" => job[t].saw = record
    /\ pc[t] = "give" => account # Nobody /\ active.account = account

CurrentInv == \A t \in Task : Current(t)

RecordInv ==
  late \/ (\E u \in Task : SigningIn(u)) \/ (record.unlocked => Of(record.items, account))

WorkerInv == WorkerShape /\ OneOwner /\ KnownInv /\ CreateInv /\ CurrentInv /\ RecordInv

-----------------------------------------------------------------------------
(* Types                                                                    *)
LEMMA Values ==
  /\ NoItems \in Items /\ Locked \in RecordType /\ NoJob \in JobType /\ ~Locked.unlocked
  /\ Locked.items = NoItems /\ NoJob.items = NoItems /\ NoJob.saw = Locked
  /\ \A i \in VaultItem : NoItems[i] = 0
  /\ \A its \in Items : /\ Unlocked(its) \in RecordType /\ Unlocked(its) # Locked
                        /\ Unlocked(its).unlocked /\ Unlocked(its).items = its
<1>1. NoItems \in Items /\ \A i \in VaultItem : NoItems[i] = 0
  BY DEF NoItems, Items
<1>2. Locked \in RecordType /\ ~Locked.unlocked /\ Locked.items = NoItems
  BY <1>1 DEF Locked, RecordType
<1>3. NoJob \in JobType /\ NoJob.items = NoItems /\ NoJob.saw = Locked
  BY <1>1, <1>2 DEF NoJob, JobType
<1>4. ASSUME NEW its \in Items
      PROVE  /\ Unlocked(its) \in RecordType /\ Unlocked(its) # Locked
             /\ Unlocked(its).unlocked /\ Unlocked(its).items = its
  BY <1>4 DEF Unlocked, RecordType, Locked
<1> QED
  BY <1>1, <1>2, <1>3, <1>4

(* A step of a request: where it goes on, and with what                     *)
Moves(t, next, j) ==
  /\ pc' = [pc EXCEPT ![t] = next]
  /\ \/ job' = [job EXCEPT ![t] = j] /\ UNCHANGED <<account, record, active>>
     \/ Overtakes(t, j)

Saved(b, k) == server' = [server EXCEPT ![b][k] = @ + 1]

LEMMA Others ==
  ASSUME TasksOK, NEW t \in Task, NEW next, NEW j, Moves(t, next, j)
  PROVE  /\ pc'[t] = next /\ job'[t] = j
         /\ \A u \in Task \ {t} :
              /\ pc'[u] = pc[u] /\ job'[u] \in JobType
              /\ job'[u] \in {job[u], [job[u] EXCEPT !.overtaken = TRUE]}
              /\ job'[u].account = job[u].account /\ job'[u].item = job[u].item
              /\ job'[u].items = job[u].items /\ job'[u].saw = job[u].saw
              /\ ~job'[u].overtaken /\ pc[u] \in Holding =>
                   job'[u] = job[u] /\ UNCHANGED <<account, record, active>>
<1>1. pc'[t] = next /\ \A u \in Task \ {t} : pc'[u] = pc[u]
  BY DEF Moves, TasksOK
<1>2. CASE job' = [job EXCEPT ![t] = j] /\ UNCHANGED <<account, record, active>>
  <2>1. job'[t] = j /\ \A u \in Task \ {t} : job'[u] = job[u] /\ job[u] \in JobType
    BY <1>2 DEF TasksOK
  <2> QED
    BY <1>1, <1>2, <2>1
<1>3. CASE Overtakes(t, j)
  <2>1. job'[t] = j
    BY <1>3 DEF Overtakes
  <2>2. ASSUME NEW u \in Task \ {t}
        PROVE  /\ job'[u] = [job[u] EXCEPT !.overtaken = @ \/ pc[u] \in Holding] /\ job[u] \in JobType
    BY <1>3, <2>2 DEF Overtakes, TasksOK
  <2>3. ASSUME NEW u \in Task \ {t}
        PROVE  /\ job'[u] \in JobType /\ job'[u] \in {job[u], [job[u] EXCEPT !.overtaken = TRUE]}
               /\ job'[u].account = job[u].account /\ job'[u].item = job[u].item
               /\ job'[u].items = job[u].items /\ job'[u].saw = job[u].saw
               /\ pc[u] \in Holding => job'[u].overtaken
    <3> DEFINE k == job[u]
    <3>1. k \in JobType /\ k.overtaken \in BOOLEAN
      BY <2>2 DEF JobType
    <3>2. [k EXCEPT !.overtaken = TRUE] \in JobType /\ [k EXCEPT !.overtaken = k.overtaken] = k
      BY <3>1 DEF JobType
    <3>3. CASE pc[u] \in Holding
      <4>1. job'[u] = [k EXCEPT !.overtaken = TRUE]
        BY <2>2, <3>3
      <4> QED
        BY <3>1, <3>2, <4>1 DEF JobType
    <3>4. CASE pc[u] \notin Holding
      <4>1. job'[u] = [k EXCEPT !.overtaken = k.overtaken]
        BY <2>2, <3>1, <3>4, Zenon
      <4> QED
        BY <3>1, <3>2, <3>4, <4>1
    <3> QED
      BY <3>3, <3>4
  <2> QED
    BY <1>1, <2>1, <2>3
<1> QED
  BY <1>2, <1>3 DEF Moves

(* What a request has in hand after a step of its own                       *)
Resumed(t) ==
  /\ job'[t].items \in {job[t].items, NoItems, record.items}
     \/ (pc[t] = "fetch" /\ job'[t].items = server[job[t].account])
  /\ job'[t].saw \in {job[t].saw, record, Locked}
  /\ pc'[t] = "fetch" => job'[t].account = account /\ account \in Account /\ UNCHANGED account
  /\ pc'[t] \in Opening =>
       /\ UNCHANGED <<account, record, server>>
       /\ job'[t].account = job[t].account /\ job'[t].overtaken = job[t].overtaken
       /\ \/ pc[t] = "fetch" /\ job'[t].items = server[job[t].account]
          \/ pc[t] \in Opening /\ job'[t].items = job[t].items
  /\ pc'[t] = "encrypt" =>
       /\ record.unlocked /\ UNCHANGED <<account, record, server>>
       /\ job'[t].account = account /\ account \in Account
       /\ job'[t].item \in VaultItem /\ job'[t].items = record.items
       /\ record.items[job'[t].item] # 0 \/ Fresh(job'[t].item)
  /\ pc'[t] = "push" =>
       pc[t] = "encrypt" /\ job'[t] = job[t] /\ UNCHANGED <<account, record, server>>
  /\ pc'[t] = "show" =>
       /\ pc[t] = "push" /\ job'[t] = job[t] /\ UNCHANGED <<account, record>>
       /\ server[job[t].account][job[t].item] = job[t].items[job[t].item]
       /\ Saved(job[t].account, job[t].item)
  /\ pc'[t] = "touched" => job'[t].saw = record /\ UNCHANGED record
  /\ pc'[t] = "give" => account # Nobody /\ active.account = account /\ UNCHANGED <<account, active>>

Moved(t) == \E next \in Steps, j \in JobType : Moves(t, next, j)

LEMMA JobFields ==
  ASSUME NEW k \in JobType
  PROVE  /\ k.account \in Account \cup {Nobody} /\ k.item \in VaultItem \cup {Nobody}
         /\ k.items \in Items /\ k.saw \in RecordType /\ k.overtaken \in BOOLEAN
  BY DEF JobType

(* A step after which nothing in hand is looked at any more                 *)
LEMMA Quiet ==
  ASSUME TasksOK, NEW t \in Task, NEW j \in JobType,
         NEW next \in Asking \cup {"idle", "failed", "wipe", "empty", "settle"}, Moves(t, next, j),
         j.items \in {job[t].items, NoItems, record.items}, j.saw \in {job[t].saw, record, Locked}
  PROVE  Moved(t) /\ Resumed(t)
<1>1. next \in Steps
  BY DEF Steps, Holding
<1>2. pc'[t] = next /\ job'[t] = j
  BY Others
<1>3. pc'[t] \notin {"fetch", "touched", "give"} \cup Opening \cup Saving
  BY <1>2 DEF Asking, Opening, Saving
<1>4. Moved(t)
  BY <1>1 DEF Moved
<1>5. pc'[t] \notin Opening /\ pc'[t] \notin {"fetch", "touched", "give", "encrypt", "push", "show"}
  BY <1>3 DEF Saving
<1> QED
  BY <1>2, <1>4, <1>5 DEF Resumed

LEMMA EndMoves ==
  ASSUME TasksOK, NEW t \in Task, Overtakes(t, NoJob) \/ (Becomes(t, NoJob) /\ UNCHANGED <<account, record, active>>),
         NEW next \in Asking \cup {"idle", "failed", "wipe", "empty", "settle"}, Goto(t, next)
  PROVE  Moved(t) /\ Resumed(t)
<1>1. Moves(t, next, NoJob)
  BY DEF Moves, Goto, Becomes
<1> QED
  BY <1>1, Quiet, Values

LEMMA TaskMoves ==
  ASSUME WorkerShape, NEW t \in Task, TaskStep(t)
  PROVE  Moved(t) /\ Resumed(t)
<1>0. /\ TasksOK /\ WorkerOK /\ job[t] \in JobType /\ pc[t] \in Steps
      /\ job[t].items \in Items /\ record \in RecordType /\ record.items \in Items
  BY DEF WorkerShape, TasksOK, WorkerOK, JobType, RecordType
<1> DEFINE Rest == Asking \cup {"idle", "failed", "wipe", "empty", "settle"}
<1>r. Asking \subseteq Rest /\ {"idle", "failed", "wipe", "empty", "settle", "touch"} \subseteq Rest
  BY DEF Asking
<1>1. ASSUME NEW do \in DOMAIN MaxAsked, Ask(t, do) PROVE Moved(t) /\ Resumed(t)
  <2>1. Moves(t, do, job[t]) /\ do \in Rest
    BY <1>0, <1>1 DEF Ask, Goto, Moves, TasksOK, Asking
  <2> QED
    BY <1>0, <2>1, Quiet
<1>2. CASE UnlockExtension(t)
  <2>1. CASE account = Nobody
    BY <1>0, <1>2, <1>r, <2>1, EndMoves DEF UnlockExtension, End
  <2>2. CASE account # Nobody
    <3> DEFINE j == [job[t] EXCEPT !.account = account, !.overtaken = FALSE]
    <3>1. account \in Account /\ UNCHANGED <<account, record, active, server>>
          /\ job' = [job EXCEPT ![t] = j] /\ pc' = [pc EXCEPT ![t] = "fetch"]
      BY <1>0, <1>2, <2>2 DEF UnlockExtension, Becomes, Goto, WorkerOK
    <3>2. j \in JobType /\ j.account = account /\ j.items = job[t].items /\ j.saw = job[t].saw
      BY <1>0, <3>1 DEF JobType
    <3> HIDE DEF j
    <3>3. Moves(t, "fetch", j) /\ "fetch" \in Steps
      BY <3>1 DEF Moves, Steps, Holding
    <3>4. pc'[t] = "fetch" /\ job'[t] = j
      BY <1>0, <3>3, Others
    <3> QED
      BY <3>1, <3>2, <3>3, <3>4 DEF Resumed, Moved, Opening
  <2> QED
    BY <2>1, <2>2
<1>3. CASE Fetch(t)
  <2>1. CASE Becomes(t, NoJob) /\ Goto(t, "failed")
    BY <1>0, <1>3, <1>r, <2>1, EndMoves DEF Fetch
  <2>2. CASE Becomes(t, [job[t] EXCEPT !.items = server[job[t].account]]) /\ Goto(t, "close")
    <3> DEFINE j == [job[t] EXCEPT !.items = server[job[t].account]]
    <3>1. pc[t] = "fetch" /\ job[t].account \in Account /\ server[job[t].account] \in Items
          /\ UNCHANGED <<account, record, active, server>>
      BY <1>0, <1>3 DEF Fetch, TasksOK, WorkerOK
    <3>2. j \in JobType /\ j.account = job[t].account /\ j.items = server[job[t].account]
          /\ j.saw = job[t].saw /\ j.overtaken = job[t].overtaken
      BY <1>0, <3>1 DEF JobType
    <3> HIDE DEF j
    <3>3. Moves(t, "close", j) /\ "close" \in Steps
      BY <2>2, <3>1 DEF Moves, Becomes, Goto, Steps, Holding, j
    <3>4. pc'[t] = "close" /\ job'[t] = j
      BY <1>0, <3>3, Others
    <3> QED
      BY <3>1, <3>2, <3>3, <3>4 DEF Resumed, Moved, Opening
  <2> QED
    BY <1>3, <2>1, <2>2 DEF Fetch
(* A step of unlocking that keeps what was fetched                          *)
<1>o. ASSUME NEW next \in Opening, pc[t] \in Opening, UNCHANGED <<account, record, server>>,
             NEW j \in JobType, Moves(t, next, j),
             j.items = job[t].items, j.account = job[t].account, j.overtaken = job[t].overtaken, j.saw = job[t].saw
      PROVE  Moved(t) /\ Resumed(t)
  <2>1. pc'[t] = next /\ job'[t] = j
    BY <1>0, <1>o, Others
  <2>2. next \in Steps /\ next \notin {"fetch", "touched", "give", "encrypt", "push", "show"}
    BY <1>o DEF Opening, Steps, Holding
  <2> QED
    BY <1>o, <2>1, <2>2 DEF Resumed, Moved
<1>4. CASE Close(t)
  <2>1. Moves(t, "derive", job[t]) /\ UNCHANGED <<account, record, server>> /\ pc[t] = "close"
    BY <1>4 DEF Close, Goto, Moves
  <2> QED
    BY <1>0, <1>o, <2>1 DEF Opening
<1>5. CASE Derive(t)
  <2>1. CASE Becomes(t, NoJob) /\ Goto(t, "failed")
    BY <1>0, <1>5, <1>r, <2>1, EndMoves DEF Derive
  <2>2. CASE Overtakes(t, [job[t] EXCEPT !.id = ids + 1]) /\ Goto(t, "decrypt")
    <3>1. UNCHANGED <<account, record, server>> /\ pc[t] = "derive" /\ ids + 1 \in Nat
      BY <1>0, <1>5 DEF Derive, WorkerOK
    <3> DEFINE j == [job[t] EXCEPT !.id = ids + 1]
    <3>2. /\ j \in JobType /\ j.items = job[t].items /\ j.account = job[t].account
          /\ j.overtaken = job[t].overtaken /\ j.saw = job[t].saw
      BY <1>0, <3>1 DEF JobType
    <3>3. Moves(t, "decrypt", j)
      BY <2>2 DEF Goto, Moves
    <3> HIDE DEF j
    <3> QED
      BY <1>o, <3>1, <3>2, <3>3 DEF Opening
  <2> QED
    BY <1>5, <2>1, <2>2 DEF Derive
<1>6. CASE DecryptSnapshot(t)
  <2>1. CASE Becomes(t, NoJob) /\ Goto(t, "failed")
    BY <1>0, <1>6, <1>r, <2>1, EndMoves DEF DecryptSnapshot
  <2>2. CASE Goto(t, "activate") /\ UNCHANGED job
    <3>1. Moves(t, "activate", job[t]) /\ UNCHANGED <<account, record, server>> /\ pc[t] = "decrypt"
      BY <1>0, <1>6, <2>2 DEF DecryptSnapshot, Goto, Moves, TasksOK
    <3> QED
      BY <1>0, <1>o, <3>1 DEF Opening
  <2> QED
    BY <1>6, <2>1, <2>2 DEF DecryptSnapshot
<1>7. CASE Activate(t)
  <2>1. Moves(t, "write", job[t]) /\ UNCHANGED <<account, record, server>> /\ pc[t] = "activate"
    BY <1>7 DEF Activate, Goto, Moves
  <2> QED
    BY <1>0, <1>o, <2>1 DEF Opening
<1>8. CASE SaveUnlocked(t) \/ WriteBack(t) \/ Wipe(t) \/ Show(t)
  <2>1. Overtakes(t, NoJob) /\ (Goto(t, "idle") \/ Goto(t, "touch"))
    BY <1>8 DEF SaveUnlocked, WriteBack, Wipe, Show, Put
  <2> QED
    BY <1>0, <1>r, <2>1, EndMoves
<1>9. CASE UnlockFails(t) \/ (\E a \in Account : SignIn(t, a)) \/ WriteSettings(t)
  <2>1. Overtakes(t, NoJob) /\ \E next \in {"idle", "touch", "empty"} : Goto(t, next)
    BY <1>9 DEF UnlockFails, SignIn, WriteSettings
  <2> QED
    BY <1>0, <1>r, <2>1, EndMoves
<1>10. CASE ReadRecord(t)
  <2> DEFINE j == [job[t] EXCEPT !.saw = record, !.overtaken = FALSE]
  <2>1. /\ UNCHANGED <<account, record, active>> /\ pc' = [pc EXCEPT ![t] = "touched"]
        /\ job' = [job EXCEPT ![t] = j]
    BY <1>10 DEF ReadRecord, Becomes, Goto
  <2>2. j \in JobType /\ j.saw = record /\ j.items = job[t].items
    BY <1>0 DEF JobType
  <2> HIDE DEF j
  <2>3. Moves(t, "touched", j) /\ "touched" \in Steps
    BY <2>1 DEF Moves, Steps, Holding
  <2>4. pc'[t] = "touched" /\ job'[t] = j
    BY <1>0, <2>3, Others
  <2> QED
    BY <2>1, <2>2, <2>3, <2>4 DEF Resumed, Moved, Opening
<1>11. CASE LockExtension(t)
  <2>1. Moves(t, "wipe", job[t])
    BY <1>11 DEF LockExtension, Goto, Moves
  <2> QED
    BY <1>0, <1>r, <2>1, Quiet
<1>12. CASE ReadSettings(t)
  <2> DEFINE j == [job[t] EXCEPT !.account = account, !.overtaken = FALSE]
  <2>1. Moves(t, "settle", j)
    BY <1>12 DEF ReadSettings, Becomes, Goto, Moves
  <2>2. j \in JobType /\ j.items = job[t].items /\ j.saw = job[t].saw
    BY <1>0 DEF JobType, WorkerOK
  <2> HIDE DEF j
  <2> QED
    BY <1>0, <1>r, <2>1, <2>2, Quiet
<1>13. ASSUME NEW i \in VaultItem, Save(t, i) PROVE Moved(t) /\ Resumed(t)
  <2>1. CASE End(t)
    BY <1>0, <1>13, <1>r, <2>1, EndMoves DEF Save, End
  <2>2. CASE ~End(t)
    <3> DEFINE j == [job[t] EXCEPT !.account = account, !.item = i, !.items = record.items, !.overtaken = FALSE]
    <3>1. /\ record.unlocked /\ account # Nobody /\ (record.items[i] # 0 \/ Fresh(i))
          /\ UNCHANGED <<account, record, active, server>>
          /\ job' = [job EXCEPT ![t] = j] /\ pc' = [pc EXCEPT ![t] = "encrypt"]
      BY <1>13, <2>2 DEF Save, Becomes, Goto
    <3>2. account \in Account
      BY <1>0, <3>1 DEF WorkerOK
    <3>3. /\ j \in JobType /\ j.account = account /\ j.item = i /\ j.items = record.items
          /\ j.saw = job[t].saw
      BY <1>0, <3>2 DEF JobType
    <3> HIDE DEF j
    <3>4. Moves(t, "encrypt", j) /\ "encrypt" \in Steps
      BY <3>1 DEF Moves, Steps, Holding
    <3>5. pc'[t] = "encrypt" /\ job'[t] = j
      BY <1>0, <3>4, Others
    <3>6. pc'[t] \notin Opening
      BY <3>5 DEF Opening
    <3> QED
      BY <3>1, <3>2, <3>3, <3>4, <3>5, <3>6 DEF Resumed, Moved
  <2> QED
    BY <2>1, <2>2
<1>14. CASE Encrypt(t)
  <2>1. CASE End(t)
    BY <1>0, <1>14, <1>r, <2>1, EndMoves DEF Encrypt, End
  <2>2. CASE ~End(t)
    <3>1. pc[t] = "encrypt" /\ UNCHANGED <<account, record, active, server, job>> /\ Goto(t, "push")
      BY <1>14, <2>2 DEF Encrypt
    <3>2. Moves(t, "push", job[t]) /\ "push" \in Steps
      BY <1>0, <3>1 DEF Moves, Goto, Steps, Holding, TasksOK
    <3>3. pc'[t] = "push" /\ job'[t] = job[t]
      BY <1>0, <3>2, Others
    <3>4. pc'[t] \notin Opening
      BY <3>3 DEF Opening
    <3> QED
      BY <1>0, <3>1, <3>2, <3>3, <3>4 DEF Resumed, Moved
  <2> QED
    BY <2>1, <2>2
<1>15. CASE Push(t) \/ PushLost(t)
  <2>1. UNCHANGED <<account, record, active>> /\ pc[t] = "push"
    BY <1>15 DEF Push, PushLost
  <2>2. CASE Becomes(t, NoJob) /\ (Goto(t, "touch") \/ Goto(t, "idle"))
    BY <1>0, <1>r, <2>1, <2>2, EndMoves
  <2>3. CASE ~(Becomes(t, NoJob) /\ (Goto(t, "touch") \/ Goto(t, "idle")))
    <3>1. /\ server[job[t].account][job[t].item] = job[t].items[job[t].item]
          /\ Saved(job[t].account, job[t].item)
          /\ Goto(t, "show") /\ UNCHANGED job
      BY <1>15, <2>3 DEF Push, PushLost, End, Saved
    <3>2. Moves(t, "show", job[t]) /\ "show" \in Steps
      BY <1>0, <2>1, <3>1 DEF Moves, Goto, Steps, Holding, TasksOK
    <3>3. pc'[t] = "show" /\ job'[t] = job[t]
      BY <1>0, <3>2, Others
    <3>4. pc'[t] \notin Opening
      BY <3>3 DEF Opening
    <3> QED
      BY <1>0, <2>1, <3>1, <3>2, <3>3, <3>4 DEF Resumed, Moved
  <2> QED
    BY <2>2, <2>3
<1>16. CASE Check(t)
  <2>1. /\ Becomes(t, NoJob) /\ UNCHANGED <<account, record, active, server>>
        /\ \/ Goto(t, "idle") \/ Goto(t, "wipe")
           \/ Goto(t, "give") /\ Consistent
    BY <1>16 DEF Check
  <2>2. CASE Goto(t, "idle") \/ Goto(t, "wipe")
    BY <1>0, <1>r, <2>1, <2>2, EndMoves
  <2>3. CASE Goto(t, "give") /\ Consistent
    <3>1. Moves(t, "give", NoJob) /\ "give" \in Steps
      BY <2>1, <2>3 DEF Moves, Becomes, Goto, Steps, Holding
    <3>2. pc'[t] = "give" /\ job'[t] = NoJob
      BY <1>0, <3>1, Others
    <3>3. pc'[t] \notin Opening
      BY <3>2 DEF Opening
    <3> QED
      BY <2>1, <2>3, <3>1, <3>2, <3>3, Values DEF Resumed, Moved, Consistent
  <2> QED
    BY <2>1, <2>2, <2>3
<1>17. CASE Give(t)
  BY <1>0, <1>17, <1>r, EndMoves DEF Give, End
<1> QED
  BY <1>1, <1>2, <1>3, <1>4, <1>5, <1>6, <1>7, <1>8, <1>9, <1>10, <1>11, <1>12, <1>13, <1>14, <1>15, <1>16, <1>17
     DEF TaskStep

-----------------------------------------------------------------------------
(* What a step makes of the server and of the record                        *)
LEMMA ServerChange ==
  ASSUME WorkerOK, NEW b \in Account, NEW k \in VaultItem, Saved(b, k)
  PROVE  /\ server' \in [Account -> Items] /\ server'[b][k] = server[b][k] + 1
         /\ \A a \in Account, i \in VaultItem : a # b \/ i # k => server'[a][i] = server[a][i]
         /\ \A a \in Account, i \in VaultItem : server[a][i] \in Nat
<1>1. server \in [Account -> Items] /\ server[b] \in Items
  BY DEF WorkerOK
<1>2. server' = [server EXCEPT ![b] = [server[b] EXCEPT ![k] = server[b][k] + 1]]
  BY <1>1 DEF Items, Saved
<1>3. [server[b] EXCEPT ![k] = server[b][k] + 1] \in Items
  BY <1>1 DEF Items
<1> QED
  BY <1>1, <1>2, <1>3 DEF Items

LEMMA PushChange ==
  ASSUME WorkerShape, NEW t \in Task, TaskStep(t)
  PROVE  \/ UNCHANGED server
         \/ /\ pc[t] = "push" /\ job[t].account \in Account /\ job[t].item \in VaultItem
            /\ server[job[t].account][job[t].item] = job[t].items[job[t].item]
            /\ Saved(job[t].account, job[t].item)
<1>1. CASE Push(t)
  BY <1>1 DEF Push, WorkerShape, TasksOK, Saving, Saved
<1>2. TaskStep(t) => UNCHANGED server \/ Push(t)
  BY Zenon DEF TaskStep, Ask, UnlockExtension, Fetch, Close, Derive, DecryptSnapshot, Activate,
     SaveUnlocked, UnlockFails, ReadRecord, WriteBack, LockExtension, Wipe, SignIn, ReadSettings,
     WriteSettings, Save, Encrypt, PushLost, Show, Check, Give
<1> QED
  BY <1>1, <1>2

LEMMA OneGrows ==
  ASSUME WorkerOK, NEW b \in Account, NEW k \in VaultItem, Saved(b, k)
  PROVE  /\ server' \in [Account -> Items]
         /\ \A a \in Account, i \in VaultItem :
              /\ server[a][i] \in Nat /\ server'[a][i] \in Nat /\ server[a][i] <= server'[a][i]
              /\ server[a][i] = 0 /\ server'[a][i] # 0 => a = b /\ i = k
<1>1. /\ server' \in [Account -> Items] /\ server'[b][k] = server[b][k] + 1
      /\ \A a \in Account, i \in VaultItem : a # b \/ i # k => server'[a][i] = server[a][i]
      /\ \A a \in Account, i \in VaultItem : server[a][i] \in Nat
  BY ServerChange
<1>2. ASSUME NEW a \in Account, NEW i \in VaultItem
      PROVE  /\ server[a][i] \in Nat /\ server'[a][i] \in Nat /\ server[a][i] <= server'[a][i]
             /\ server[a][i] = 0 /\ server'[a][i] # 0 => a = b /\ i = k
  <2>1. CASE a = b /\ i = k
    BY <1>1, <2>1
  <2>2. CASE a # b \/ i # k
    BY <1>1, <2>2
  <2> QED
    BY <2>1, <2>2
<1> QED
  BY <1>1, <1>2

LEMMA ServerStep ==
  ASSUME WorkerShape, [ExtensionNext]_extension
  PROVE  /\ server' \in [Account -> Items]
         /\ \A a \in Account, i \in VaultItem :
              /\ server[a][i] \in Nat /\ server'[a][i] \in Nat /\ server[a][i] <= server'[a][i]
              /\ server[a][i] = 0 /\ server'[a][i] # 0 =>
                   \E t \in Task : /\ TaskStep(t) /\ pc[t] = "push" /\ Creating(t)
                                  /\ job[t].account = a /\ job[t].item = i
<1>0. WorkerOK /\ server \in [Account -> Items]
      /\ \A a \in Account, i \in VaultItem : server[a][i] \in Nat
  BY DEF WorkerShape, WorkerOK, Items
<1>1. CASE UNCHANGED server
  BY <1>0, <1>1
<1>2. ASSUME NEW t \in Task, TaskStep(t), server' # server
      PROVE  /\ server' \in [Account -> Items]
             /\ \A a \in Account, i \in VaultItem :
                  /\ server[a][i] \in Nat /\ server'[a][i] \in Nat /\ server[a][i] <= server'[a][i]
                  /\ server[a][i] = 0 /\ server'[a][i] # 0 =>
                       pc[t] = "push" /\ Creating(t) /\ job[t].account = a /\ job[t].item = i
  <2>1. PICK b \in Account, k \in VaultItem :
          /\ pc[t] = "push" /\ job[t].account = b /\ job[t].item = k
          /\ server[b][k] = job[t].items[k]
          /\ Saved(b, k)
    BY <1>2, PushChange, Zenon
  <2>2. /\ server' \in [Account -> Items]
        /\ \A a \in Account, i \in VaultItem :
             /\ server[a][i] \in Nat /\ server'[a][i] \in Nat /\ server[a][i] <= server'[a][i]
             /\ server[a][i] = 0 /\ server'[a][i] # 0 => a = b /\ i = k
    BY <1>0, <2>1, OneGrows
  <2> QED
    BY <2>1, <2>2 DEF Creating
<1>3. ASSUME NEW b \in Account, NEW k \in VaultItem, OtherClient(b, k)
      PROVE  /\ server' \in [Account -> Items]
             /\ \A a \in Account, i \in VaultItem :
                  /\ server[a][i] \in Nat /\ server'[a][i] \in Nat /\ server[a][i] <= server'[a][i]
                  /\ ~(server[a][i] = 0 /\ server'[a][i] # 0)
  <2>1. server[b][k] # 0 /\ Saved(b, k)
    BY <1>3 DEF OtherClient, Saved
  <2>2. /\ server' \in [Account -> Items]
        /\ \A a \in Account, i \in VaultItem :
             /\ server[a][i] \in Nat /\ server'[a][i] \in Nat /\ server[a][i] <= server'[a][i]
             /\ server[a][i] = 0 /\ server'[a][i] # 0 => a = b /\ i = k
    BY <1>0, <2>1, OneGrows
  <2> QED
    BY <2>1, <2>2
<1>4. ExtensionNext => UNCHANGED server \/ (\E t \in Task : TaskStep(t))
                       \/ \E b \in Account, k \in VaultItem : OtherClient(b, k)
  BY Zenon DEF ExtensionNext, Stop
<1> QED
  BY <1>1, <1>2, <1>3, <1>4 DEF extension

(* The record is kept, locked, or written by a request.                     *)
Written(t) ==
  \/ record' = record /\ pc[t] # "empty" /\ (late => late') /\ (account' # account => late' \/ pc'[t] = "empty")
  \/ record' = Locked
  \/ /\ UNCHANGED <<account, server>> /\ pc[t] # "empty"
     /\ \/ /\ pc[t] = "write" /\ record' = Unlocked(job[t].items)
           /\ job[t].overtaken => late'
        \/ /\ pc[t] = "touched" /\ record' = job[t].saw
           /\ job[t].saw # Locked /\ (job[t].overtaken \/ late) => late'
        \/ /\ pc[t] = "show" /\ record' = Unlocked(SavedItems(job[t]))
           /\ job[t].overtaken \/ late => late'

LEMMA SavedTypes ==
  ASSUME WorkerShape, NEW t \in Task, pc[t] = "show"
  PROVE  /\ SavedItems(job[t]) \in Items /\ job[t].item \in VaultItem /\ job[t].account \in Account
         /\ \A i \in VaultItem :
              /\ job[t].items[i] \in Nat
              /\ SavedItems(job[t])[i] = IF i = job[t].item THEN job[t].items[i] + 1 ELSE job[t].items[i]
<1>1. job[t].items \in Items /\ job[t].item \in VaultItem /\ job[t].account \in Account
  BY DEF WorkerShape, TasksOK, JobType, Saving
<1> QED
  BY <1>1 DEF SavedItems, Items

LEMMA RecordChange ==
  ASSUME WorkerShape, NEW t \in Task, TaskStep(t)
  PROVE  Written(t)
<1>0. /\ job[t] \in JobType /\ job[t].items \in Items /\ job[t].saw \in RecordType
      /\ late \in BOOLEAN
      /\ pc \in [Task -> Steps]
  BY DEF WorkerShape, TasksOK, WorkerOK, JobType
<1>1. CASE SaveUnlocked(t)
  BY <1>0, <1>1, Values DEF SaveUnlocked, Put, Written
<1>2. CASE WriteBack(t)
  BY <1>2 DEF WriteBack, Put, Written
<1>3. CASE Wipe(t)
  BY <1>3 DEF Wipe, Put, Written
<1>4. CASE Show(t)
  <2>1. SavedItems(job[t]) \in Items
    BY <1>4, SavedTypes DEF Show
  <2> QED
    BY <1>4, <2>1, Values DEF Show, Put, Written
<1>5. ASSUME NEW a \in Account, SignIn(t, a) PROVE Written(t)
  BY <1>0, <1>5 DEF SignIn, Written, Goto
<1>6. CASE WriteSettings(t)
  BY <1>6 DEF WriteSettings, Written
<1>7. CASE UNCHANGED <<account, record, late>> /\ pc[t] # "empty"
  BY <1>7 DEF Written
<1>8. TaskStep(t) => \/ UNCHANGED <<account, record, late>> /\ pc[t] # "empty"
                     \/ SaveUnlocked(t) \/ WriteBack(t) \/ Wipe(t) \/ Show(t)
                     \/ (\E a \in Account : SignIn(t, a)) \/ WriteSettings(t)
  <2>1. "empty" \notin DOMAIN MaxAsked
    OBVIOUS
  <2>2. \A do \in DOMAIN MaxAsked : Ask(t, do) => UNCHANGED <<account, record, late>> /\ pc[t] # "empty"
    BY DEF Ask
  <2>3. UnlockExtension(t) \/ Fetch(t) \/ Close(t) \/ Derive(t) \/ DecryptSnapshot(t) \/ Activate(t)
        \/ UnlockFails(t) \/ ReadRecord(t) \/ LockExtension(t) \/ ReadSettings(t) \/ (\E i \in VaultItem : Save(t, i))
        \/ Encrypt(t) \/ Push(t) \/ PushLost(t) \/ Check(t) \/ Give(t)
          => UNCHANGED <<account, record, late>> /\ pc[t] # "empty"
    BY DEF UnlockExtension, Fetch, Close, Derive, DecryptSnapshot, Activate, UnlockFails,
       ReadRecord, LockExtension, ReadSettings, Save, Encrypt, Push, PushLost, Check, Give
  <2> QED
    BY <2>2, <2>3 DEF TaskStep
<1> QED
  BY <1>1, <1>2, <1>3, <1>4, <1>5, <1>6, <1>7, <1>8

-----------------------------------------------------------------------------
LEMMA TaskValues ==
  ASSUME WorkerShape, NEW t \in Task, TaskStep(t)
  PROVE  /\ account' \in Account \cup {Nobody} /\ late' \in BOOLEAN /\ ids' \in Nat
         /\ active' \in [account : Account \cup {Nobody}, id : Nat]
         /\ record' \in RecordType
<1>0. /\ account \in Account \cup {Nobody} /\ late \in BOOLEAN /\ ids \in Nat
      /\ record \in RecordType
      /\ active \in [account : Account \cup {Nobody}, id : Nat]
      /\ job[t].account \in Account \cup {Nobody} /\ job[t].id \in Nat
      /\ job[t].saw \in RecordType /\ job[t].items \in Items /\ job[t].overtaken \in BOOLEAN
  BY DEF WorkerShape, WorkerOK, TasksOK, JobType
<1>n. NoSession \in [account : Account \cup {Nobody}, id : Nat]
  BY DEF NoSession
<1>1. record' \in RecordType
  <2>1. pc[t] = "show" => Unlocked(SavedItems(job[t])) \in RecordType
    BY SavedTypes, Values
  <2>2. Unlocked(job[t].items) \in RecordType /\ Locked \in RecordType
    BY <1>0, Values
  <2> QED
    BY <1>0, <2>1, <2>2, RecordChange DEF Written
<1>2. CASE SaveUnlocked(t) \/ WriteBack(t) \/ Wipe(t) \/ Show(t)
  BY <1>0, <1>1, <1>2 DEF SaveUnlocked, WriteBack, Wipe, Show, Put
<1>3. ASSUME NEW a \in Account, SignIn(t, a)
      PROVE  UNCHANGED <<late, ids, active>> /\ account' \in Account
  BY <1>3 DEF SignIn
<1>4. CASE WriteSettings(t)
  BY <1>0, <1>1, <1>4 DEF WriteSettings
<1>5. CASE Close(t) \/ UnlockFails(t) \/ LockExtension(t)
  BY <1>0, <1>1, <1>5, <1>n DEF Close, UnlockFails, LockExtension, CloseSessions
<1>6. CASE Activate(t)
  BY <1>0, <1>1, <1>6 DEF Activate
<1>7. CASE Derive(t)
  BY <1>0, <1>1, <1>7 DEF Derive
<1>8. CASE UNCHANGED <<account, late, ids, active>>
  BY <1>0, <1>1, <1>8
<1>9. TaskStep(t) => \/ UNCHANGED <<account, late, ids, active>>
                     \/ SaveUnlocked(t) \/ WriteBack(t) \/ Wipe(t) \/ Show(t)
                     \/ (\E a \in Account : SignIn(t, a)) \/ WriteSettings(t)
                     \/ Close(t) \/ UnlockFails(t) \/ LockExtension(t) \/ Activate(t) \/ Derive(t)
  BY Zenon DEF TaskStep, Ask, UnlockExtension, Fetch, DecryptSnapshot, ReadRecord, ReadSettings,
     Save, Encrypt, Push, PushLost, Check, Give
<1> QED
  BY <1>0, <1>1, <1>2, <1>3, <1>4, <1>5, <1>6, <1>7, <1>8, <1>9

LEMMA TaskShape ==
  ASSUME WorkerShape, NEW t \in Task, TaskStep(t)
  PROVE  TasksOK'
<1>0. TasksOK /\ WorkerOK
  BY DEF WorkerShape
<1>1. PICK next \in Steps, j \in JobType : Moves(t, next, j)
  BY TaskMoves DEF Moved
<1>2. /\ pc'[t] = next /\ job'[t] = j
      /\ \A u \in Task \ {t} : /\ pc'[u] = pc[u] /\ job'[u] \in JobType
                               /\ job'[u].account = job[u].account /\ job'[u].item = job[u].item
  BY <1>0, <1>1, Others
<1>3. pc' \in [Task -> Steps]
  BY <1>0, <1>1 DEF Moves, TasksOK
<1>4. DOMAIN job' = Task /\ job' = [u \in Task |-> job'[u]]
  BY <1>0, <1>1 DEF Moves, Overtakes, TasksOK
<1>5. job' \in [Task -> JobType]
  BY <1>1, <1>2, <1>4
<1>6. ASSUME NEW u \in Task
      PROVE  /\ pc'[u] \in {"fetch"} \cup Opening \cup Saving => job'[u].account \in Account
             /\ pc'[u] \in Saving => job'[u].item \in VaultItem
  <2>1. CASE u # t
    BY <1>0, <1>2, <2>1 DEF TasksOK
  <2>2. CASE u = t
    <3>1. Resumed(t)
      BY TaskMoves
    <3>2. CASE pc'[t] = "fetch"
      BY <2>2, <3>1, <3>2 DEF Resumed, Saving
    <3>3. CASE pc'[t] \in Opening
      <4>1. /\ pc[t] \in {"fetch"} \cup Opening /\ job'[t].account = job[t].account
            /\ pc'[t] \notin Saving
        BY <3>1, <3>3 DEF Resumed, Opening, Saving
      <4> QED
        BY <1>0, <2>2, <4>1 DEF TasksOK
    <3>4. CASE pc'[t] = "encrypt"
      BY <2>2, <3>1, <3>4 DEF Resumed
    <3>5. CASE pc'[t] \in {"push", "show"}
      <4>1. pc[t] \in Saving /\ job'[t] = job[t]
        BY <3>1, <3>5 DEF Resumed, Saving
      <4> QED
        BY <1>0, <2>2, <4>1 DEF TasksOK
    <3> QED
      BY <2>2, <3>2, <3>3, <3>4, <3>5 DEF Saving
  <2> QED
    BY <2>1, <2>2
<1> QED
  BY <1>3, <1>5, <1>6 DEF TasksOK

(* The browser stops the worker.                                            *)
LEMMA StopShape ==
  ASSUME WorkerShape, Stop
  PROVE  /\ UNCHANGED <<account, server, ids>> /\ active' = NoSession
         /\ \A t \in Task : job'[t] = NoJob /\ pc'[t] = "idle"
         /\ \/ record' = record /\ (late \/ (\E u \in Task : SigningIn(u)) => late')
            \/ record' = Locked
         /\ late' \in BOOLEAN /\ TasksOK'
<1>1. /\ UNCHANGED <<account, server, ids>> /\ active' = NoSession
      /\ job' = [t \in Task |-> NoJob] /\ pc' = [t \in Task |-> "idle"]
      /\ \/ record' = record /\ late' = (late \/ \E u \in Task : SigningIn(u))
         \/ record' = Locked /\ late' = FALSE
  BY DEF Stop, CloseSessions
<1>2. late' \in BOOLEAN
  BY <1>1 DEF WorkerShape, WorkerOK
<1>3. TasksOK'
  BY <1>1, Values DEF TasksOK, Steps, Opening, Saving
<1> QED
  BY <1>1, <1>2, <1>3

LEMMA ShapeStep ==
  ASSUME WorkerShape, [ExtensionNext]_extension
  PROVE  WorkerShape'
<1>0. server' \in [Account -> Items]
  BY ServerStep
<1>1. ASSUME NEW t \in Task, TaskStep(t) PROVE WorkerShape'
  BY <1>0, <1>1, TaskValues, TaskShape DEF WorkerShape, WorkerOK
<1>2. CASE Stop
  BY <1>0, <1>2, StopShape, Values DEF WorkerShape, WorkerOK, NoSession
<1>3. ASSUME NEW a \in Account, NEW i \in VaultItem, OtherClient(a, i) PROVE WorkerShape'
  <2>1. UNCHANGED <<account, record, active, job, pc, ids, late>>
    BY <1>3 DEF OtherClient
  <2> QED
    BY <1>0, <2>1 DEF WorkerShape, WorkerOK, TasksOK
<1>4. CASE UNCHANGED extension
  BY <1>4 DEF extension, WorkerShape, WorkerOK, TasksOK
<1> QED
  BY <1>1, <1>2, <1>3, <1>4 DEF ExtensionNext

-----------------------------------------------------------------------------
LEMMA OneOwnerStep ==
  ASSUME WorkerShape, OneOwner, CreateInv, [ExtensionNext]_extension
  PROVE  OneOwner'
<1> SUFFICES ASSUME NEW a \in Account, NEW b \in Account, NEW i \in VaultItem,
                    server'[a][i] # 0, server'[b][i] # 0
             PROVE  a = b
  BY DEF OneOwner
<1>1. ASSUME NEW c \in Account, NEW d \in Account, server[c][i] = 0, server'[c][i] # 0, server'[d][i] # 0
      PROVE  c = d
  <2>1. PICK t \in Task : pc[t] = "push" /\ Creating(t) /\ job[t].account = c /\ job[t].item = i
    BY <1>1, ServerStep
  <2>2. server[d][i] = 0
    BY <2>1 DEF CreateInv
  <2>3. PICK u \in Task : pc[u] = "push" /\ Creating(u) /\ job[u].account = d /\ job[u].item = i
    BY <1>1, <2>2, ServerStep
  <2>4. u = t
    BY <2>1, <2>3 DEF CreateInv, Saving
  <2> QED
    BY <2>1, <2>3, <2>4
<1>2. CASE server[a][i] # 0 /\ server[b][i] # 0
  BY <1>2 DEF OneOwner
<1> QED
  BY <1>1, <1>2

-----------------------------------------------------------------------------
(* A step that is no request's and not the stop changes the server alone.   *)
LEMMA WorkerSteps ==
  ASSUME [ExtensionNext]_extension
  PROVE  \/ \E t \in Task : TaskStep(t)
         \/ Stop
         \/ UNCHANGED <<account, record, active, job, pc, late>>
  BY DEF ExtensionNext, extension, OtherClient

LEMMA KnownGrows ==
  ASSUME WorkerShape, [ExtensionNext]_extension, NEW its \in Items, Known(its, server)
  PROVE  Known(its, server')
<1> SUFFICES ASSUME NEW i \in VaultItem, its[i] # 0 PROVE \E a \in Account : its[i] <= server'[a][i]
  BY DEF Known
<1>1. PICK a \in Account : its[i] <= server[a][i]
  BY DEF Known
<1>2. /\ its[i] \in Nat /\ server[a][i] \in Nat /\ server'[a][i] \in Nat
      /\ server[a][i] <= server'[a][i]
  BY ServerStep DEF Items
<1>3. its[i] <= server'[a][i]
  BY <1>1, <1>2
<1> QED
  BY <1>3

LEMMA ItemTypes ==
  ASSUME WorkerShape, NEW t \in Task
  PROVE  /\ job[t].items \in Items /\ job[t].saw \in RecordType /\ job[t].saw.items \in Items
         /\ record \in RecordType /\ record.items \in Items /\ NoItems \in Items
         /\ \A a \in Account : server[a] \in Items
         /\ job[t].overtaken \in BOOLEAN /\ late \in BOOLEAN
  BY Values DEF WorkerShape, WorkerOK, TasksOK, JobType, RecordType

LEMMA KnownStep ==
  ASSUME WorkerShape, KnownInv, [ExtensionNext]_extension
  PROVE  KnownInv'
<1>1. \A its \in Items : Known(its, server) => Known(its, server')
  BY KnownGrows
<1>2. Known(NoItems, server) /\ \A a \in Account : Known(server[a], server)
  <2>1. \A a \in Account, i \in VaultItem : server[a][i] \in Nat
    BY ServerStep
  <2> QED
    BY <2>1, Values DEF Known
<1>3. /\ record.items \in Items /\ NoItems \in Items
      /\ \A t \in Task : job[t].items \in Items /\ job[t].saw.items \in Items
      /\ \A a \in Account : server[a] \in Items
  BY ItemTypes, Values DEF WorkerShape, WorkerOK, RecordType
<1>4. ASSUME NEW t \in Task, pc[t] = "show"
      PROVE  job[t].items[job[t].item] + 1 <= server'[job[t].account][job[t].item]
  <2>1. /\ job[t].account \in Account /\ job[t].item \in VaultItem
        /\ job[t].items[job[t].item] \in Nat
        /\ job[t].items[job[t].item] + 1 <= server[job[t].account][job[t].item]
    BY <1>4, SavedTypes DEF KnownInv
  <2> DEFINE a == job[t].account
             i == job[t].item
  <2>2. server[a][i] <= server'[a][i] /\ server[a][i] \in Nat /\ server'[a][i] \in Nat
    BY <2>1, ServerStep
  <2> QED
    BY <2>1, <2>2
<1>5. ASSUME NEW t \in Task, TaskStep(t) PROVE KnownInv'
  <2>0. TasksOK /\ \E next \in Steps, j \in JobType : Moves(t, next, j)
    BY <1>5, TaskMoves DEF Moved, WorkerShape
  <2>1. \A u \in Task \ {t} : pc'[u] = pc[u] /\ job'[u].account = job[u].account /\ job'[u].item = job[u].item
                              /\ job'[u].items = job[u].items /\ job'[u].saw = job[u].saw
    BY <2>0, Others
  <2>2. Resumed(t) /\ Written(t)
    BY <1>5, TaskMoves, RecordChange
  <2>3. Known(record'.items, server')
    <3>1. CASE record' \in {record, Locked, Unlocked(job[t].items), job[t].saw}
      <4>1. record'.items \in {record.items, NoItems, job[t].items, job[t].saw.items}
        BY <1>3, <3>1, Values
      <4> QED
        BY <1>1, <1>2, <1>3, <4>1 DEF KnownInv
    <3>2. CASE pc[t] = "show" /\ record' = Unlocked(SavedItems(job[t]))
      <4>1. /\ SavedItems(job[t]) \in Items /\ job[t].item \in VaultItem
            /\ job[t].account \in Account
            /\ \A i \in VaultItem :
                 SavedItems(job[t])[i] = IF i = job[t].item THEN job[t].items[i] + 1 ELSE job[t].items[i]
        BY <3>2, SavedTypes
      <4>2. record'.items = SavedItems(job[t])
        BY <3>2, <4>1, Values
      <4>3. SavedItems(job[t])[job[t].item] <= server'[job[t].account][job[t].item]
        BY <1>4, <3>2, <4>1
      <4>4. Known(job[t].items, server')
        BY <1>1, <1>3 DEF KnownInv
      <4> QED
        BY <4>1, <4>2, <4>3, <4>4 DEF Known
    <3> QED
      BY <2>2, <3>1, <3>2 DEF Written
  <2>4. ASSUME NEW u \in Task
        PROVE  Known(job'[u].items, server') /\ Known(job'[u].saw.items, server')
    <3>1. CASE u # t
      BY <1>1, <1>3, <2>1, <3>1 DEF KnownInv
    <3>2. CASE u = t
      <4>1. job'[t].items \in {job[t].items, NoItems, record.items}
            \/ \E a \in Account : job'[t].items = server[a]
        BY <2>0, <2>2 DEF Resumed, TasksOK
      <4>2. job'[t].saw.items \in {job[t].saw.items, record.items, NoItems}
        BY <2>2, Values DEF Resumed
      <4> QED
        BY <1>1, <1>2, <1>3, <3>2, <4>1, <4>2 DEF KnownInv
    <3> QED
      BY <3>1, <3>2
  <2>5. ASSUME NEW u \in Task, pc'[u] = "show"
        PROVE  job'[u].items[job'[u].item] + 1 <= server'[job'[u].account][job'[u].item]
    <3>1. CASE u # t
      BY <1>4, <2>1, <2>5, <3>1
    <3>2. CASE u = t
      <4>1. PICK b, k : /\ b = job[t].account /\ k = job[t].item
                        /\ Saved(b, k) /\ job'[t] = job[t] /\ pc[t] = "push"
                        /\ server[b][k] = job[t].items[k]
        BY <2>2, <2>5, <3>2 DEF Resumed
      <4>2. b \in Account /\ k \in VaultItem
        BY <2>0, <4>1 DEF TasksOK, Saving
      <4>3. server'[b][k] = server[b][k] + 1 /\ server[b][k] \in Nat
        BY <4>1, <4>2, ServerChange DEF WorkerShape
      <4> QED
        BY <3>2, <4>1, <4>3
    <3> QED
      BY <3>1, <3>2
  <2> QED
    BY <2>3, <2>4, <2>5 DEF KnownInv
<1>6. CASE Stop
  <2>1. record'.items \in {record.items, NoItems} /\ \A t \in Task : job'[t] = NoJob /\ pc'[t] = "idle"
    BY <1>6, StopShape, Values
  <2>2. Known(record'.items, server')
    BY <1>1, <1>2, <1>3, <2>1 DEF KnownInv
  <2>3. \A t \in Task : job'[t].items = NoItems /\ job'[t].saw.items = NoItems
    BY <2>1, Values
  <2> QED
    BY <1>1, <1>2, <1>3, <2>1, <2>2, <2>3 DEF KnownInv
<1>7. CASE UNCHANGED <<account, record, active, job, pc, late>>
  <2>1. Known(record'.items, server')
    BY <1>1, <1>3, <1>7 DEF KnownInv
  <2>2. \A t \in Task : Known(job'[t].items, server') /\ Known(job'[t].saw.items, server')
    BY <1>1, <1>3, <1>7 DEF KnownInv
  <2>3. \A t \in Task : pc'[t] = "show" =>
          job'[t].items[job'[t].item] + 1 <= server'[job'[t].account][job'[t].item]
    BY <1>4, <1>7
  <2> QED
    BY <2>1, <2>2, <2>3 DEF KnownInv
<1> QED
  BY <1>5, <1>6, <1>7, WorkerSteps

(* Nobody makes an item somebody else is creating.                          *)
LEMMA CreateStep ==
  ASSUME WorkerShape, KnownInv, CreateInv, [ExtensionNext]_extension
  PROVE  CreateInv'
<1>s. \A t \in Task : Creating(t) => job[t].item \in VaultItem /\ pc[t] \in Saving
  BY DEF Creating, WorkerShape, TasksOK, Saving
<1>1. ASSUME NEW t \in Task, TaskStep(t) PROVE CreateInv'
  <2>0. TasksOK /\ \E next \in Steps, j \in JobType : Moves(t, next, j)
    BY <1>1, TaskMoves DEF Moved, WorkerShape
  <2>1. \A u \in Task \ {t} : pc'[u] = pc[u] /\ job'[u].item = job[u].item /\ job'[u].items = job[u].items
    BY <2>0, Others
  <2>2. Resumed(t) /\ TasksOK'
    BY <1>1, TaskMoves, TaskShape
(* What is created stays nobody's while no other creates it.                *)
  <2>3. ASSUME NEW u \in Task, Creating(u), Creating(u)', job'[u].item = job[u].item
        PROVE  \A a \in Account : server'[a][job[u].item] = 0
    <3> SUFFICES ASSUME NEW a \in Account, server'[a][job[u].item] # 0 PROVE FALSE
      OBVIOUS
    <3>1. server[a][job[u].item] = 0 /\ job[u].item \in VaultItem
      BY <1>s, <2>3 DEF CreateInv
    <3>2. PICK v \in Task : /\ TaskStep(v) /\ pc[v] = "push" /\ Creating(v)
                            /\ job[v].account = a /\ job[v].item = job[u].item
      BY <3>1, ServerStep
    <3>3. v = u
      BY <2>3, <3>2 DEF CreateInv, Saving
    <3>4. \E next \in Steps, j \in JobType : Moves(v, next, j)
      BY <3>2, TaskMoves DEF Moved
    <3>5. Resumed(v)
      BY <3>2, TaskMoves
    <3>6. pc'[v] \in {"encrypt", "push"} /\ UNCHANGED server
      BY <2>3, <3>3, <3>5 DEF Creating, Resumed
    <3> QED
      BY <3>1, <3>6
(* One that begins is fresh.                                                *)
  <2>4. ASSUME pc'[t] = "encrypt", Creating(t)'
        PROVE  /\ job'[t].item \in VaultItem /\ Fresh(job'[t].item) /\ UNCHANGED server
    BY <2>2, <2>4 DEF Resumed, Creating
(* A request that begins to save an item somebody creates has it from the   *)
(* record, where it is not.                                                 *)
  <2>5. ASSUME pc'[t] = "encrypt", NEW u \in Task \ {t}, Creating(u), job'[t].item = job[u].item
        PROVE  FALSE
    <3> DEFINE i == job[u].item
    <3>1. i \in VaultItem /\ pc[u] \in Saving /\ \A a \in Account : server[a][i] = 0
      BY <1>s, <2>5 DEF CreateInv
    <3>2. ~Fresh(i)
      BY <3>1 DEF Fresh, Saving
    <3>3. record.items[i] # 0 /\ record.items[i] \in Nat
      BY <2>2, <2>5, <3>1, <3>2, ItemTypes DEF Resumed, Items
    <3>4. PICK a \in Account : record.items[i] <= server[a][i]
      BY <3>1, <3>3 DEF KnownInv, Known
    <3> QED
      BY <3>1, <3>3, <3>4
  <2>6. ASSUME NEW u \in Task, Creating(u)'
        PROVE  /\ \A a \in Account : server'[a][job'[u].item] = 0
               /\ \A v \in Task \ {u} : pc'[v] \in Saving => job'[v].item # job'[u].item
    <3>1. CASE u # t
      <4>1. Creating(u) /\ job'[u].item = job[u].item /\ pc'[u] = pc[u]
        BY <2>1, <2>6, <3>1 DEF Creating
      <4>2. \A a \in Account : server'[a][job'[u].item] = 0
        BY <2>3, <2>6, <4>1
      <4>3. ASSUME NEW v \in Task \ {u}, pc'[v] \in Saving, job'[v].item = job'[u].item PROVE FALSE
        <5>1. CASE v # t
          BY <2>1, <4>1, <4>3, <5>1 DEF CreateInv
        <5>2. CASE v = t
          <6>1. CASE pc'[t] = "encrypt"
            BY <2>5, <3>1, <4>1, <4>3, <5>2, <6>1
          <6>2. CASE pc'[t] \in {"push", "show"}
            <7>1. pc[t] \in Saving /\ job'[t] = job[t]
              BY <2>2, <6>2 DEF Resumed, Saving
            <7> QED
              BY <3>1, <4>1, <4>3, <5>2, <7>1 DEF CreateInv
          <6> QED
            BY <4>3, <5>2, <6>1, <6>2 DEF Saving
        <5> QED
          BY <5>1, <5>2
      <4> QED
        BY <4>2, <4>3
    <3>2. CASE u = t /\ pc'[t] = "encrypt"
      <4>1. Fresh(job'[t].item) /\ UNCHANGED server
        BY <2>4, <2>6, <3>2
      <4>2. \A v \in Task \ {t} : pc'[v] \in Saving => job'[v].item # job'[t].item
        BY <2>1, <4>1 DEF Fresh, Saving
      <4> QED
        BY <3>2, <4>1, <4>2 DEF Fresh
    <3>3. CASE u = t /\ pc'[t] = "push"
      <4>1. pc[t] = "encrypt" /\ job'[t] = job[t] /\ UNCHANGED server
        BY <2>2, <3>3 DEF Resumed
      <4>2. Creating(t)
        BY <2>6, <3>3, <4>1 DEF Creating
      <4> QED
        BY <2>1, <3>3, <4>1, <4>2 DEF CreateInv
    <3> QED
      BY <2>6, <3>1, <3>2, <3>3 DEF Creating
  <2> QED
    BY <2>6 DEF CreateInv
<1>2. CASE Stop
  <2>1. \A t \in Task : pc'[t] = "idle"
    BY <1>2, StopShape
  <2> QED
    BY <2>1 DEF CreateInv, Creating
<1>3. CASE UNCHANGED <<account, record, active, job, pc, late>> /\ ~\E t \in Task : TaskStep(t)
  <2>1. ASSUME NEW t \in Task, Creating(t), NEW a \in Account PROVE server'[a][job[t].item] = 0
    BY <1>3, <1>s, <2>1, ServerStep DEF CreateInv
  <2> QED
    BY <1>3, <2>1 DEF CreateInv, Creating
<1> QED
  BY <1>1, <1>2, <1>3, WorkerSteps

-----------------------------------------------------------------------------
LEMMA WorkerInit == ExtensionInit => WorkerInv
<1> SUFFICES ASSUME ExtensionInit PROVE WorkerInv
  OBVIOUS
<1>1. /\ server = [a \in Account |-> [i \in VaultItem |-> IF StoredFor[i] = a THEN 1 ELSE 0]]
      /\ job = [t \in Task |-> NoJob] /\ pc = [t \in Task |-> "idle"] /\ late = FALSE
  BY DEF ExtensionInit
<1>2. server \in [Account -> Items] /\ \A a \in Account : server[a] \in Items
  <2>1. ASSUME NEW a \in Account
        PROVE  [i \in VaultItem |-> IF StoredFor[i] = a THEN 1 ELSE 0] \in Items
    BY DEF Items
  <2> QED
    BY <1>1, <2>1
<1>3. TasksOK
  BY <1>1, Values DEF TasksOK, Steps, Opening, Saving
<1>4. /\ account \in Account \cup {Nobody} /\ ids \in Nat
      /\ active \in [account : Account \cup {Nobody}, id : Nat]
      /\ \/ record = Locked
         \/ account \in Account /\ record = Unlocked(server[account])
  BY DEF ExtensionInit, NoSession
<1>5. record \in RecordType
  BY <1>2, <1>4, Values
<1>6. WorkerShape
  BY <1>1, <1>2, <1>3, <1>4, <1>5 DEF WorkerShape, WorkerOK
<1>7. OneOwner
  BY <1>1 DEF OneOwner
<1>8. \A t \in Task : job[t] = NoJob /\ pc[t] = "idle"
  BY <1>1
<1>9. KnownInv
  <2>1. Known(NoItems, server) /\ \A a \in Account : Known(server[a], server)
    BY <1>2, Values DEF Known, Items
  <2>2. record.items = NoItems \/ (account \in Account /\ record.items = server[account])
    BY <1>2, <1>4, Values
  <2>3. \A t \in Task : job[t].items = NoItems /\ job[t].saw.items = NoItems
    BY <1>8, Values
  <2> QED
    BY <1>8, <2>1, <2>2, <2>3 DEF KnownInv
<1>10. CreateInv
  BY <1>8 DEF CreateInv, Creating
<1>11. CurrentInv
  BY <1>8 DEF CurrentInv, Current, Opening, Saving
<1>12. RecordInv
  BY <1>2, <1>4, Values DEF RecordInv, Of
<1> QED
  BY <1>6, <1>7, <1>9, <1>10, <1>11, <1>12 DEF WorkerInv

LEMMA OfGrows ==
  ASSUME WorkerShape, [ExtensionNext]_extension, NEW its, NEW a, Of(its, a)
  PROVE  a \in Account /\ \A i \in VaultItem : its[i] # 0 => server'[a][i] # 0
<1>1. \A i \in VaultItem : server[a][i] # 0 => server'[a][i] # 0
  <2> SUFFICES ASSUME NEW i \in VaultItem, server[a][i] # 0 PROVE server'[a][i] # 0
    OBVIOUS
  <2>1. /\ server[a][i] \in Nat /\ server'[a][i] \in Nat /\ server[a][i] <= server'[a][i]
    BY ServerStep DEF Of
  <2> QED
    BY <2>1
<1> QED
  BY <1>1 DEF Of

(* What another step leaves alone is as current as it was.                  *)
LEMMA CurrentKept ==
  ASSUME WorkerShape, [ExtensionNext]_extension, NEW t \in Task, Current(t),
         UNCHANGED <<account, record, active>>, pc'[t] = pc[t], job'[t] = job[t]
  PROVE  Current(t)'
<1> SUFFICES ASSUME ~job[t].overtaken PROVE Current(t)'
  BY DEF Current
<1>1. pc[t] \in {"fetch"} \cup Opening \cup Saving => job[t].account = account
  BY DEF Current
<1>2. pc[t] \in Saving => record.unlocked /\ job[t].items = record.items
  BY DEF Current
<1>3. /\ pc[t] = "touched" => job[t].saw = record
      /\ pc[t] = "give" => account # Nobody /\ active.account = account
  BY DEF Current
<1>4. pc[t] \in Opening =>
        /\ account \in Account
        /\ \A i \in VaultItem : job[t].items[i] # 0 => server'[account][i] # 0
        /\ \A i \in VaultItem :
             record.items[i] <= job[t].items[i] \/ \E a \in Account \ {account} : server'[a][i] # 0
  <2> SUFFICES ASSUME pc[t] \in Opening
               PROVE  /\ account \in Account
                      /\ \A i \in VaultItem : job[t].items[i] # 0 => server'[account][i] # 0
                      /\ \A i \in VaultItem : \/ record.items[i] <= job[t].items[i]
                                              \/ \E a \in Account \ {account} : server'[a][i] # 0
    OBVIOUS
  <2>1. Of(job[t].items, account)
        /\ \A i \in VaultItem :
             record.items[i] <= job[t].items[i] \/ \E a \in Account \ {account} : server[a][i] # 0
    BY DEF Current
  <2>2. \A a \in Account, i \in VaultItem : server[a][i] # 0 => server'[a][i] # 0
    <3> SUFFICES ASSUME NEW a \in Account, NEW i \in VaultItem, server[a][i] # 0 PROVE server'[a][i] # 0
      OBVIOUS
    <3>1. server[a][i] \in Nat /\ server'[a][i] \in Nat /\ server[a][i] <= server'[a][i]
      BY ServerStep
    <3> QED
      BY <3>1
  <2> QED
    BY <2>1, <2>2 DEF Of
<1> QED
  BY <1>1, <1>2, <1>3, <1>4 DEF Current, Of

LEMMA CurrentOwn ==
  ASSUME WorkerInv, NEW t \in Task, TaskStep(t), [ExtensionNext]_extension
  PROVE  Current(t)'
<1> SUFFICES ASSUME ~job'[t].overtaken PROVE Current(t)'
  BY DEF Current
<1>1. WorkerShape /\ TasksOK /\ Current(t) /\ KnownInv
  BY DEF WorkerInv, WorkerShape, CurrentInv
<1>2. Resumed(t)
  BY <1>1, TaskMoves
<1>3. CASE pc'[t] = "fetch"
  BY <1>2, <1>3 DEF Resumed, Current, Opening, Saving
<1>4. CASE pc'[t] \in Opening
  <2>1. /\ UNCHANGED <<account, record, server>> /\ ~job[t].overtaken
        /\ job'[t].account = job[t].account /\ job[t].account = account /\ account \in Account
    <3>1. /\ UNCHANGED <<account, record, server>> /\ job'[t].account = job[t].account
          /\ ~job[t].overtaken /\ pc[t] \in {"fetch"} \cup Opening \cup Saving
      BY <1>2, <1>4 DEF Resumed
    <3> QED
      BY <1>1, <3>1 DEF Current, TasksOK
  <2>2. /\ Of(job'[t].items, account)
        /\ \A i \in VaultItem :
             record.items[i] <= job'[t].items[i] \/ \E a \in Account \ {account} : server[a][i] # 0
    <3>1. CASE job'[t].items = server[account]
      <4>1. Of(server[account], account)
        BY <2>1 DEF Of
      <4>2. ASSUME NEW i \in VaultItem
            PROVE  record.items[i] <= server[account][i] \/ \E a \in Account \ {account} : server[a][i] # 0
        <5>1. record.items[i] \in Nat /\ \A a \in Account : server[a][i] \in Nat
          BY <1>1, ItemTypes DEF Items
        <5>2. CASE record.items[i] = 0
          BY <2>1, <5>1, <5>2
        <5>3. CASE record.items[i] # 0
          <6>1. PICK a \in Account : record.items[i] <= server[a][i]
            BY <1>1, <5>3 DEF KnownInv, Known
          <6>2. server[a][i] # 0
            BY <5>1, <5>3, <6>1
          <6> QED
            BY <6>1, <6>2
        <5> QED
          BY <5>2, <5>3
      <4> QED
        BY <3>1, <4>1, <4>2
    <3>2. CASE pc[t] \in Opening /\ job'[t].items = job[t].items
      BY <1>1, <2>1, <3>2 DEF Current
    <3> QED
      BY <1>2, <1>4, <2>1, <3>1, <3>2 DEF Resumed
  <2>3. pc'[t] \notin Saving /\ pc'[t] \notin {"touched", "give"}
    BY <1>4 DEF Opening, Saving
  <2> QED
    BY <1>4, <2>1, <2>2, <2>3 DEF Current, Of
<1>5. CASE pc'[t] = "encrypt"
  BY <1>2, <1>5 DEF Resumed, Current, Opening, Saving
<1>6. CASE pc'[t] \in {"push", "show"}
  <2>1. pc[t] \in Saving /\ job'[t] = job[t] /\ UNCHANGED <<account, record>>
    BY <1>2, <1>6 DEF Resumed, Saving
  <2>2. job[t].account = account /\ record.unlocked /\ job[t].items = record.items
    BY <1>1, <2>1 DEF Current
  <2> QED
    BY <1>6, <2>1, <2>2 DEF Current, Opening, Saving
<1>7. CASE pc'[t] \in {"touched", "give"}
  BY <1>2, <1>7 DEF Resumed, Current, Opening, Saving
<1>8. CASE pc'[t] \notin {"fetch", "touched", "give"} \cup Opening \cup Saving
  BY <1>8 DEF Current
<1> QED
  BY <1>3, <1>4, <1>5, <1>6, <1>7, <1>8 DEF Saving

LEMMA CurrentStep ==
  ASSUME WorkerInv, [ExtensionNext]_extension
  PROVE  CurrentInv'
<1>0. WorkerShape /\ TasksOK /\ \A u \in Task : Current(u)
  BY DEF WorkerInv, WorkerShape, CurrentInv
<1>1. ASSUME NEW t \in Task, TaskStep(t), NEW u \in Task PROVE Current(u)'
  <2>1. CASE u = t
    BY <1>1, <2>1, CurrentOwn
  <2>2. CASE u # t
    <3>1. PICK next \in Steps, j \in JobType : Moves(t, next, j)
      BY <1>0, <1>1, TaskMoves DEF Moved
    <3>2. /\ pc'[u] = pc[u]
          /\ ~job'[u].overtaken /\ pc[u] \in Holding =>
               job'[u] = job[u] /\ UNCHANGED <<account, record, active>>
      BY <1>0, <2>2, <3>1, Others
    <3>3. CASE ~job'[u].overtaken /\ pc[u] \in Holding
      BY <1>0, <3>2, <3>3, CurrentKept
    <3>4. CASE pc[u] \notin Holding
      <4>1. pc'[u] \notin {"fetch", "touched", "give"} \cup Opening \cup Saving
        BY <3>2, <3>4 DEF Holding, Opening, Saving
      <4> QED
        BY <4>1 DEF Current
    <3>5. CASE job'[u].overtaken
      BY <3>5 DEF Current
    <3> QED
      BY <3>3, <3>4, <3>5
  <2> QED
    BY <2>1, <2>2
<1>2. ASSUME Stop, NEW u \in Task PROVE Current(u)'
  <2>1. pc'[u] = "idle"
    BY <1>0, <1>2, StopShape
  <2> QED
    BY <2>1 DEF Current, Opening, Saving
<1>3. ASSUME UNCHANGED <<account, record, active, job, pc, late>>, NEW u \in Task PROVE Current(u)'
  BY <1>0, <1>3, CurrentKept
<1> QED
  BY <1>1, <1>2, <1>3, WorkerSteps DEF CurrentInv

-----------------------------------------------------------------------------
(* What a request writes that no other has overtaken                        *)
LEMMA WhatIsWritten ==
  ASSUME WorkerInv, NEW t \in Task, TaskStep(t), ~late', record'.unlocked, record' # record
  PROVE  /\ UNCHANGED <<account, server>> /\ pc[t] # "empty" /\ ~job[t].overtaken
         /\ \/ pc[t] = "write" /\ record'.items = job[t].items
            \/ /\ pc[t] = "show" /\ ~late /\ record'.items = SavedItems(job[t])
<1>0. WorkerShape /\ Current(t) /\ job[t].items \in Items
  BY ItemTypes DEF WorkerInv, CurrentInv
<1>1. Written(t) /\ record' # Locked
  BY <1>0, RecordChange, Values
<1>2. CASE pc[t] = "write" /\ record' = Unlocked(job[t].items)
  BY <1>0, <1>1, <1>2, Values DEF Written
<1>3. CASE pc[t] = "show" /\ record' = Unlocked(SavedItems(job[t]))
  <2>1. record'.items = SavedItems(job[t])
    BY <1>0, <1>3, SavedTypes, Values
  <2> QED
    BY <1>0, <1>1, <1>3, <2>1 DEF Written
<1>4. CASE pc[t] = "touched" /\ record' = job[t].saw
  <2>1. ~job[t].overtaken
    BY <1>1, <1>4 DEF Written
  <2> QED
    BY <1>0, <1>4, <2>1 DEF Current
<1> QED
  BY <1>1, <1>2, <1>3, <1>4 DEF Written

LEMMA RecordStep ==
  ASSUME WorkerInv, [ExtensionNext]_extension
  PROVE  RecordInv'
<1> SUFFICES ASSUME ~late', \A u \in Task : ~SigningIn(u)', record'.unlocked
             PROVE  account' \in Account /\ \A i \in VaultItem : record'.items[i] # 0 => server'[account'][i] # 0
  BY DEF RecordInv, Of
<1>0. WorkerShape /\ TasksOK /\ RecordInv /\ KnownInv
  BY DEF WorkerInv, WorkerShape
<1>1. ASSUME UNCHANGED <<account, record>>, ~late, \A u \in Task : ~SigningIn(u)
      PROVE  account' \in Account /\ \A i \in VaultItem : record'.items[i] # 0 => server'[account'][i] # 0
  <2>1. Of(record.items, account)
    BY <1>1 DEF WorkerInv, RecordInv
  <2> QED
    BY <1>0, <1>1, <2>1, OfGrows
<1>2. ASSUME NEW t \in Task, TaskStep(t)
      PROVE  account' \in Account /\ \A i \in VaultItem : record'.items[i] # 0 => server'[account'][i] # 0
  <2>1. \A u \in Task \ {t} : pc'[u] = pc[u]
    <3>1. PICK next \in Steps, j \in JobType : Moves(t, next, j)
      BY <1>0, <1>2, TaskMoves DEF Moved
    <3> QED
      BY <1>0, <3>1, Others
  <2>2. pc[t] # "empty" => \A u \in Task : ~SigningIn(u)
    BY <2>1 DEF SigningIn
  <2>3. CASE record' = record
    <3>1. Written(t) /\ record' # Locked
      BY <1>0, <1>2, RecordChange, Values
    <3>2. CASE pc[t] # "empty" /\ (late => late') /\ (account' # account => late' \/ pc'[t] = "empty")
      BY <1>1, <2>2, <2>3, <3>2 DEF SigningIn
    <3>3. CASE UNCHANGED <<account, server>> /\ pc[t] # "empty" /\ ~late
      BY <1>1, <2>2, <2>3, <3>3
    <3>4. CASE /\ UNCHANGED <<account, server>> /\ pc[t] = "write"
               /\ record' = Unlocked(job[t].items) /\ (job[t].overtaken => late')
      <4>1. ~job[t].overtaken /\ job[t].items \in Items
        BY <1>0, <3>4, ItemTypes
      <4>2. Of(job[t].items, account)
        BY <3>4, <4>1 DEF WorkerInv, CurrentInv, Current, Opening
      <4> QED
        BY <3>4, <4>1, <4>2, Values DEF Of
    <3> QED
      BY <3>1, <3>2, <3>3, <3>4 DEF Written
  <2>4. CASE record' # record
    <3>1. /\ UNCHANGED <<account, server>> /\ pc[t] # "empty" /\ ~job[t].overtaken
          /\ \/ pc[t] = "write" /\ record'.items = job[t].items
             \/ pc[t] = "show" /\ ~late /\ record'.items = SavedItems(job[t])
      BY <1>2, <2>4, WhatIsWritten
    <3>2. CASE pc[t] = "write"
      <4>1. Of(job[t].items, account)
        BY <3>1, <3>2 DEF WorkerInv, CurrentInv, Current, Opening
      <4> QED
        BY <3>1, <3>2, <4>1 DEF Of
    <3>3. CASE pc[t] = "show"
      <4>1. job[t].account = account /\ job[t].items = record.items /\ record.unlocked
        BY <3>1, <3>3 DEF WorkerInv, CurrentInv, Current, Saving
      <4>2. Of(record.items, account)
        BY <2>2, <3>1, <3>3, <4>1 DEF WorkerInv, RecordInv
      <4>3. /\ job[t].item \in VaultItem
            /\ \A i \in VaultItem :
                 /\ job[t].items[i] \in Nat
                 /\ SavedItems(job[t])[i] = IF i = job[t].item THEN job[t].items[i] + 1 ELSE job[t].items[i]
        BY <1>0, <3>3, SavedTypes
      <4>4. server[account][job[t].item] # 0
        <5>1. job[t].items[job[t].item] + 1 <= server[account][job[t].item]
          BY <1>0, <3>3, <4>1 DEF KnownInv
        <5> QED
          BY <4>3, <5>1
      <4> QED
        BY <3>1, <3>3, <4>1, <4>2, <4>3, <4>4 DEF Of
    <3> QED
      BY <3>1, <3>2, <3>3
  <2> QED
    BY <2>3, <2>4
<1>3. CASE Stop
  <2>1. UNCHANGED account /\ (record' = record /\ (late \/ (\E u \in Task : SigningIn(u)) => late'))
    BY <1>0, <1>3, StopShape, Values
  <2> QED
    BY <1>1, <2>1
<1>4. CASE UNCHANGED <<account, record, active, job, pc, late>>
  <2>1. ~late /\ \A u \in Task : ~SigningIn(u)
    BY <1>4 DEF SigningIn
  <2> QED
    BY <1>1, <1>4, <2>1
<1> QED
  BY <1>2, <1>3, <1>4, WorkerSteps

(* What a request of the extension has read before an await is what is      *)
(* there after it, or another request has overtaken it; and what is         *)
(* unlocked is of the account in chrome.storage.local, but for the          *)
(* exceptions.                                                              *)
THEOREM WorkerInvariant == ExtensionSpec => []WorkerInv
<1>1. WorkerInv /\ [ExtensionNext]_extension => WorkerInv'
  BY ShapeStep, OneOwnerStep, KnownStep, CreateStep, CurrentStep, RecordStep DEF WorkerInv
<1> QED
  BY <1>1, WorkerInit, PTL DEF ExtensionSpec

(* A page is given credentials only of the account that is unlocked, and of *)
(* items it has, but for requests that were overtaken and for sign-ins that *)
(* were cut (GivenToTheUnlocked).                                           *)
THEOREM GivenOnlyUnlocked == ExtensionSpec => GivenToTheUnlocked
<1>1. ASSUME WorkerInv, NEW t \in Task, pc[t] = "give", record.unlocked
      PROVE  \/ job[t].overtaken
             \/ /\ active.account = account
                /\ \/ \A i \in VaultItem \ Has(account) : record.items[i] = 0
                   \/ late
                   \/ \E u \in Task : SigningIn(u)
  <2>1. job[t].overtaken \/ active.account = account
    BY <1>1 DEF WorkerInv, CurrentInv, Current
  <2>2. late \/ (\E u \in Task : SigningIn(u)) \/ Of(record.items, account)
    BY <1>1 DEF WorkerInv, RecordInv
  <2> QED
    BY <2>1, <2>2 DEF Of, Has
<1>2. WorkerInv /\ [ExtensionNext]_extension =>
        \A t \in Task :
          pc[t] = "give" /\ pc'[t] = "idle" /\ stops' = stops /\ record.unlocked =>
            \/ job[t].overtaken
            \/ /\ active.account = account
               /\ \/ \A i \in VaultItem \ Has(account) : record.items[i] = 0
                  \/ late
                  \/ \E u \in Task : SigningIn(u)
  BY <1>1
<1> QED
  BY <1>2, WorkerInvariant, PTL DEF ExtensionSpec, GivenToTheUnlocked

(* What panels show of the account's items never goes back to an older      *)
(* revision, unless an overtaken request writes the record                  *)
(* (NothingGoesBack).                                                       *)
THEOREM ShownGrows == ExtensionSpec => NothingGoesBack
<1> DEFINE Forward == \A i \in Has(account) : record.items[i] <= record'.items[i]
<1>1. ASSUME WorkerInv, [ExtensionNext]_extension,
             record.unlocked, record'.unlocked, account # Nobody, ~late'
      PROVE  Forward
  <2>0. /\ WorkerShape /\ OneOwner /\ account \in Account
        /\ record.items \in Items /\ \A i \in VaultItem : record.items[i] \in Nat
    BY <1>1 DEF WorkerInv, WorkerShape, WorkerOK, RecordType, Items
  <2>1. CASE record' = record
    BY <2>0, <2>1 DEF Has
  <2>2. ASSUME NEW t \in Task, TaskStep(t), record' # record PROVE Forward
    <3>1. /\ UNCHANGED <<account, server>> /\ pc[t] # "empty" /\ ~job[t].overtaken
          /\ \/ pc[t] = "write" /\ record'.items = job[t].items
             \/ pc[t] = "show" /\ ~late /\ record'.items = SavedItems(job[t])
      BY <1>1, <2>2, WhatIsWritten
    <3>2. CASE pc[t] = "write"
      <4>1. \A i \in VaultItem :
              record.items[i] <= job[t].items[i] \/ \E a \in Account \ {account} : server[a][i] # 0
        BY <1>1, <3>1, <3>2 DEF WorkerInv, CurrentInv, Current, Opening
      <4>2. ASSUME NEW i \in Has(account) PROVE ~\E a \in Account \ {account} : server[a][i] # 0
        BY <2>0, <4>2 DEF OneOwner, Has
      <4> QED
        BY <3>1, <3>2, <4>1, <4>2 DEF Has
    <3>3. CASE pc[t] = "show"
      <4>1. job[t].items = record.items
        BY <1>1, <3>1, <3>3 DEF WorkerInv, CurrentInv, Current, Saving
      <4>2. \A i \in VaultItem :
              SavedItems(job[t])[i] = IF i = job[t].item THEN job[t].items[i] + 1 ELSE job[t].items[i]
        BY <2>0, <3>3, SavedTypes
      <4> QED
        BY <2>0, <3>1, <3>3, <4>1, <4>2 DEF Has
    <3> QED
      BY <3>1, <3>2, <3>3
  <2>3. CASE Stop
    BY <1>1, <2>0, <2>1, <2>3, StopShape, Values
  <2> QED
    BY <1>1, <2>1, <2>2, <2>3, WorkerSteps
<1>2. WorkerInv /\ [ExtensionNext]_extension =>
        (record.unlocked /\ record'.unlocked /\ account # Nobody =>
           late' \/ \A i \in Has(account) : record.items[i] <= record'.items[i])
  BY <1>1
<1> QED
  BY <1>2, WorkerInvariant, PTL DEF ExtensionSpec, NothingGoesBack
=============================================================================
