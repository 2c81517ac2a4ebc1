-------------------------- MODULE AdminRolesProofs --------------------------
(***************************************************************************)
(* Proofs about AdminRoles for any number of accounts, handlers, requests   *)
(* and connections.                                                         *)
(***************************************************************************)
EXTENDS AdminRoles, FiniteSetTheorems, TLAPS

Shape ==
  /\ accounts \in [Account -> AccountRecord]
  /\ pc \in [Handler -> {"idle", "received", "begun", "locked", "known", "guarded",
                         "allowed", "written", "committed", "auditing"}]
  /\ request \in [Handler -> Request]
  /\ seen \in [Handler -> AccountRecord]
  /\ requests \in Nat

LEMMA IdleType == Idle \in Request
<1>1. PICK a \in Account : a = CHOOSE x \in Admin : TRUE
  BY AccountAssumption
<1> QED
  BY <1>1 DEF Idle, Request, Kind

LEMMA ChangedType ==
  ASSUME Shape, NEW h \in Handler, NEW account \in AccountRecord
  PROVE  Changed(h, account) \in AccountRecord
<1>1. request[h].kind \in Kind /\ seen[h].status \in {"enabled", "disabled"}
  BY DEF Shape, Request, AccountRecord
<1> QED
  BY <1>1 DEF Changed, AccountRecord, Role, Kind

LEMMA InitShape == Init => Shape
<1> SUFFICES ASSUME Init PROVE Shape
  OBVIOUS
<1>1. accounts \in [Account -> AccountRecord]
  BY DEF Init, AccountRecord, Role
<1>2. request \in [Handler -> Request]
  BY IdleType DEF Init
<1>3. seen \in [Handler -> AccountRecord]
  BY DEF Init, Unread, AccountRecord
<1> QED
  BY <1>1, <1>2, <1>3 DEF Init, Shape

LEMMA NextShape == Shape /\ [Next]_vars => Shape'
<1> SUFFICES ASSUME Shape, [Next]_vars PROVE Shape'
  OBVIOUS
<1>1. ASSUME NEW h \in Handler, NEW r \in Request, Receive(h, r) PROVE Shape'
  BY <1>1 DEF Shape, Receive, GoTo
<1>2. ASSUME NEW h \in Handler, LockRow(h) PROVE Shape'
  <2>1. Target(h) \in Account
    BY DEF Shape, Target, Request
  <2>2. accounts[Target(h)] \in AccountRecord
    BY <2>1 DEF Shape
  <2> QED
    BY <1>2, <2>2 DEF Shape, LockRow, GoTo
<1>3. ASSUME NEW h \in Handler, Commit(h) PROVE Shape'
  <2>1. \A a \in Account : Changed(h, accounts[a]) \in AccountRecord
    BY ChangedType DEF Shape
  <2>2. accounts' \in [Account -> AccountRecord]
    BY <1>3, <2>1 DEF Shape, Commit
  <2>3. Unread \in AccountRecord
    BY DEF Unread, AccountRecord
  <2> QED
    BY <1>3, <2>2, <2>3 DEF Shape, Commit, GoTo
<1>4. ASSUME NEW h \in Handler, Begin(h) \/ EnsureRole(h) \/ TakeGuard(h) \/ Allow(h) \/ Write(h)
               \/ BeginAudit(h)
      PROVE  Shape'
  BY <1>4 DEF Shape, Begin, EnsureRole, TakeGuard, Allow, Write, BeginAudit, GoTo
<1>5. ASSUME NEW h \in Handler, Refuse(h) \/ Audit(h) \/ Abort(h) PROVE Shape'
  <2>1. Unread \in AccountRecord
    BY DEF Unread, AccountRecord
  <2> QED
    BY <1>5, <2>1, IdleType DEF Shape, Refuse, Audit, Abort, Finish, GoTo
<1>6. ASSUME UNCHANGED vars PROVE Shape'
  BY <1>6 DEF Shape, vars
<1> QED
  BY <1>1, <1>2, <1>3, <1>4, <1>5, <1>6 DEF Next, Work

-----------------------------------------------------------------------------
(* A row belongs to one transaction, the advisory lock too, and what a      *)
(* transaction has read of its row is still what the table holds.           *)
RowInv ==
  \A h \in Handler : HoldsRow(h, Target(h)) =>
    /\ seen[h] = accounts[Target(h)]
    /\ \A g \in Handler \ {h} : ~HoldsRow(g, Target(h))

GuardInv == \A g, h \in Handler : HoldsGuard(g) /\ HoldsGuard(h) => g = h

(* Whoever may demote an enabled administrator leaves another one.          *)
CountInv ==
  \A h \in Handler : pc[h] \in {"allowed", "written"} /\ TakesGuard(h)
    => \E b \in EnabledAdmins : b # Target(h)

IInv == Shape /\ RowInv /\ GuardInv /\ CountInv /\ SomeEnabledAdmin

Step(h) == Work(h) \/ \E r \in Request : Receive(h, r)

(* What a step of one handler leaves to the others.                         *)
LEMMA OthersUnchanged ==
  ASSUME Shape, NEW h \in Handler, Step(h),
         NEW g \in Handler, g # h
  PROVE  pc'[g] = pc[g] /\ request'[g] = request[g] /\ seen'[g] = seen[g]
BY DEF Shape, Step, Work, Begin, LockRow, EnsureRole, Refuse, TakeGuard, Allow, Write, Commit,
       BeginAudit, Audit, Abort, Receive, GoTo, Finish

(* A step that changes the accounts is a commit.                            *)
LEMMA OnlyCommits ==
  ASSUME NEW h \in Handler, Step(h), ~Commit(h)
  PROVE  accounts' = accounts
BY DEF Step, Work, Begin, LockRow, EnsureRole, Refuse, TakeGuard, Allow, Write,
       BeginAudit, Audit, Abort, Receive

LEMMA OtherAdmin ==
  ASSUME NEW a \in EnabledAdmins, ~IsLastAdmin
  PROVE  \E b \in EnabledAdmins : b # a
<1> SUFFICES ASSUME EnabledAdmins \subseteq {a} PROVE FALSE
  OBVIOUS
<1>1. EnabledAdmins = {a}
  OBVIOUS
<1>2. Cardinality({a}) = 1
  BY FS_Singleton
<1> QED
  BY <1>1, <1>2 DEF IsLastAdmin

(* A handler that holds a row has just locked it, or held it before.        *)
LEMMA RowOrigin ==
  ASSUME Shape, NEW h \in Handler, Step(h), NEW a, HoldsRow(h, a)'
  PROVE  /\ accounts' = accounts /\ request'[h] = request[h]
         /\ \/ LockRow(h) /\ Target(h) = a
            \/ HoldsRow(h, a) /\ seen'[h] = seen[h]
BY DEF Shape, Step, Work, Begin, LockRow, EnsureRole, Refuse, TakeGuard, Allow, Write, Commit,
       BeginAudit, Audit, Abort, Receive, GoTo, Finish, HoldsRow, Target

LEMMA RowStep ==
  ASSUME Shape, RowInv, NEW h \in Handler, Step(h)
  PROVE  RowInv'
<1> SUFFICES ASSUME NEW g \in Handler, HoldsRow(g, Target(g))'
             PROVE  /\ (seen[g] = accounts[Target(g)])'
                    /\ \A f \in Handler \ {g} : ~HoldsRow(f, Target(g))'
  BY DEF RowInv
<1>1. CASE g = h
  <2>1. /\ accounts' = accounts /\ request'[h] = request[h] /\ Target(h)' = Target(h)
        /\ \/ LockRow(h)
           \/ HoldsRow(h, Target(h)) /\ seen'[h] = seen[h]
    BY <1>1, RowOrigin DEF Target
  <2>2. \A f \in Handler \ {h} : HoldsRow(f, Target(h))' <=> HoldsRow(f, Target(h))
    BY <2>1, OthersUnchanged DEF HoldsRow, Target
  <2>3. CASE LockRow(h)
    <3>1. pc[h] = "begun" /\ Blockers(h) = {} /\ seen'[h] = accounts[Target(h)]
      BY <2>3 DEF LockRow, Shape
    <3>2. \A f \in Handler \ {h} : ~HoldsRow(f, Target(h))
      BY <3>1 DEF Blockers
    <3> QED
      BY <1>1, <2>1, <2>2, <3>1, <3>2
  <2>4. CASE HoldsRow(h, Target(h)) /\ seen'[h] = seen[h]
    BY <1>1, <2>1, <2>2, <2>4 DEF RowInv
  <2> QED
    BY <2>1, <2>3, <2>4
<1>2. CASE g # h
  <2>1. pc'[g] = pc[g] /\ request'[g] = request[g] /\ seen'[g] = seen[g]
    BY <1>2, OthersUnchanged
  <2>2. HoldsRow(g, Target(g)) /\ Target(g)' = Target(g)
    BY <2>1 DEF HoldsRow, Target
  <2>3. ~HoldsRow(h, Target(g)) /\ seen[g] = accounts[Target(g)]
    BY <1>2, <2>2 DEF RowInv
  <2>4. accounts'[Target(g)] = accounts[Target(g)]
    <3>1. CASE Commit(h)
      BY <2>3, <3>1 DEF Commit, HoldsRow, Shape, Target, Request
    <3>2. CASE ~Commit(h)
      BY <3>2, OnlyCommits
    <3> QED
      BY <3>1, <3>2
  <2>5. ~HoldsRow(h, Target(g))'
    <3> SUFFICES ASSUME HoldsRow(h, Target(g))' PROVE FALSE
      OBVIOUS
    <3>1. LockRow(h) /\ Target(h) = Target(g)
      BY <2>2, <2>3, RowOrigin
    <3>2. ~HoldsRow(g, Target(h))
      BY <1>2, <3>1 DEF LockRow, Blockers
    <3> QED
      BY <2>2, <3>1, <3>2
  <2>6. ASSUME NEW f \in Handler \ {g}, f # h PROVE ~HoldsRow(f, Target(g))'
    <3>1. ~HoldsRow(f, Target(g))
      BY <2>2 DEF RowInv
    <3>2. pc'[f] = pc[f] /\ request'[f] = request[f]
      BY <2>6, OthersUnchanged
    <3> QED
      BY <2>2, <3>1, <3>2 DEF HoldsRow, Target
  <2> QED
    BY <2>1, <2>2, <2>3, <2>4, <2>5, <2>6
<1> QED
  BY <1>1, <1>2

LEMMA GuardStep ==
  ASSUME Shape, GuardInv, NEW h \in Handler, Step(h)
  PROVE  GuardInv'
<1>1. ASSUME HoldsGuard(h)', NEW g \in Handler, g # h, HoldsGuard(g)' PROVE FALSE
  <2>1. HoldsGuard(g)
    BY <1>1, OthersUnchanged DEF HoldsGuard, TakesGuard, Demotes
  <2>2. ~HoldsGuard(h)
    BY <1>1, <2>1 DEF GuardInv
  <2>3. TakeGuard(h)
    BY <1>1, <2>2 DEF Shape, Step, Work, Begin, LockRow, EnsureRole, Refuse, TakeGuard, Allow,
       Write, Commit, BeginAudit, Audit, Abort, Receive, GoTo, Finish, HoldsGuard, TakesGuard, Demotes
  <2>4. g \notin Blockers(h)
    BY <2>3 DEF TakeGuard
  <2> QED
    BY <1>1, <2>1, <2>3, <2>4 DEF Blockers, TakeGuard
<1>2. ASSUME NEW f \in Handler, NEW g \in Handler, HoldsGuard(f)', HoldsGuard(g)',
             f # h, g # h
      PROVE  f = g
  <2>1. HoldsGuard(f) /\ HoldsGuard(g)
    BY <1>2, OthersUnchanged DEF HoldsGuard, TakesGuard, Demotes
  <2> QED
    BY <2>1 DEF GuardInv
<1> QED
  BY <1>1, <1>2 DEF GuardInv

(* Only a commit that held the advisory lock takes an administrator away.   *)
LEMMA Demotion ==
  ASSUME Shape, RowInv, NEW h \in Handler, Step(h),
         NEW a \in EnabledAdmins, a \notin EnabledAdmins'
  PROVE  Commit(h) /\ Target(h) = a /\ HoldsGuard(h)
<1>1. Commit(h)
  <2> SUFFICES ASSUME ~Commit(h) PROVE FALSE
    OBVIOUS
  <2>1. accounts' = accounts
    BY OnlyCommits
  <2> QED
    BY <2>1 DEF EnabledAdmins
<1>2. Target(h) = a
  BY <1>1 DEF Commit, Shape, EnabledAdmins, Target, Request
<1>3. seen[h] = accounts[a]
  BY <1>1, <1>2 DEF Commit, RowInv, HoldsRow
<1>4. IsEnabledAdmin(seen[h])
  BY <1>3 DEF EnabledAdmins
<1>5. ~IsEnabledAdmin(Changed(h, accounts[a]))
  <2>1. a \in Account /\ accounts'[a] = Changed(h, accounts[a])
    BY <1>1, <1>2 DEF Commit, Shape, EnabledAdmins
  <2> QED
    BY <2>1 DEF EnabledAdmins
<1>6. Demotes(h)
  <2>1. accounts[a] \in AccountRecord /\ request[h].kind \in Kind
    BY DEF Shape, EnabledAdmins, Request
  <2> QED
    BY <1>3, <1>4, <1>5, <2>1
    DEF Changed, Demotes, IsEnabledAdmin, AccountRecord, Kind
<1> QED
  BY <1>1, <1>2, <1>4, <1>6 DEF Commit, HoldsGuard, TakesGuard

LEMMA CountStep ==
  ASSUME IInv, NEW h \in Handler, Step(h)
  PROVE  CountInv'
<1> USE DEF IInv
<1> SUFFICES ASSUME NEW g \in Handler, pc'[g] \in {"allowed", "written"}, TakesGuard(g)'
             PROVE  \E b \in EnabledAdmins' : b # Target(g)'
  BY DEF CountInv
<1>1. /\ TakesGuard(g) /\ Target(g)' = Target(g)
      /\ pc[g] \in {"guarded", "allowed", "written"}
      /\ pc[g] = "guarded" => ~IsLastAdmin /\ g = h
  <2>1. CASE g # h
    BY <2>1, OthersUnchanged DEF TakesGuard, Demotes, Target
  <2>2. CASE g = h
    BY <2>2 DEF Shape, Step, Work, Begin, LockRow, EnsureRole, Refuse, TakeGuard, Allow,
       Write, Commit, BeginAudit, Audit, Abort, Receive, GoTo, Finish, TakesGuard, Demotes, Target
  <2> QED
    BY <2>1, <2>2
<1>2. HoldsGuard(g)
  BY <1>1 DEF HoldsGuard
<1>3. PICK b \in EnabledAdmins : b # Target(g)
  <2>1. CASE pc[g] = "guarded"
    <3>1. HoldsRow(g, Target(g))
      BY <2>1 DEF HoldsRow
    <3>2. Target(g) \in EnabledAdmins
      BY <1>1, <3>1 DEF RowInv, TakesGuard, EnabledAdmins, Shape, Target, Request
    <3> QED
      BY <1>1, <2>1, <3>2, OtherAdmin
  <2>2. CASE pc[g] \in {"allowed", "written"}
    BY <1>1, <2>2 DEF CountInv
  <2> QED
    BY <1>1, <2>1, <2>2
<1>4. b \in EnabledAdmins'
  <2> SUFFICES ASSUME b \notin EnabledAdmins' PROVE FALSE
    OBVIOUS
  <2>1. Commit(h) /\ Target(h) = b /\ HoldsGuard(h)
    BY Demotion
  <2>2. g = h
    BY <1>2, <2>1 DEF GuardInv
  <2> QED
    BY <1>3, <2>1, <2>2
<1> QED
  BY <1>1, <1>3, <1>4

LEMMA AdminStep ==
  ASSUME IInv, NEW h \in Handler, Step(h)
  PROVE  SomeEnabledAdmin'
<1> USE DEF IInv
<1>1. PICK a \in EnabledAdmins : TRUE
  BY DEF SomeEnabledAdmin
<1>2. CASE a \in EnabledAdmins'
  BY <1>2 DEF SomeEnabledAdmin
<1>3. CASE a \notin EnabledAdmins'
  <2>1. Commit(h) /\ Target(h) = a /\ HoldsGuard(h)
    BY <1>3, Demotion
  <2>2. PICK b \in EnabledAdmins : b # a
    BY <2>1 DEF CountInv, Commit, HoldsGuard
  <2>3. b \in EnabledAdmins'
    BY <2>1, <2>2, Demotion
  <2> QED
    BY <2>3 DEF SomeEnabledAdmin
<1> QED
  BY <1>2, <1>3

LEMMA InitInv == Init => IInv
<1> SUFFICES ASSUME Init PROVE IInv
  OBVIOUS
<1>1. PICK a \in Account : a \in Admin
  BY AccountAssumption
<1>2. a \in EnabledAdmins
  BY <1>1 DEF Init, EnabledAdmins, IsEnabledAdmin
<1>3. RowInv /\ GuardInv /\ CountInv
  BY DEF Init, RowInv, GuardInv, CountInv, HoldsRow, HoldsGuard
<1> QED
  BY <1>2, <1>3, InitShape DEF IInv, SomeEnabledAdmin

LEMMA NextInv == IInv /\ [Next]_vars => IInv'
<1> SUFFICES ASSUME IInv, [Next]_vars PROVE IInv'
  OBVIOUS
<1>1. ASSUME NEW h \in Handler, Step(h) PROVE IInv'
  BY <1>1, NextShape, RowStep, GuardStep, CountStep, AdminStep DEF IInv
<1>2. CASE UNCHANGED vars
  BY <1>2 DEF IInv, Shape, RowInv, GuardInv, CountInv, SomeEnabledAdmin, vars, HoldsRow,
     HoldsGuard, TakesGuard, Demotes, Target, EnabledAdmins
<1> QED
  BY <1>1, <1>2 DEF Next, Step

THEOREM Invariance == Spec => []IInv
BY InitInv, NextInv, PTL DEF Spec

(* However many administrators disable and demote each other at the same    *)
(* time, one that is enabled is left.                                       *)
THEOREM AdminRemains == Spec => []SomeEnabledAdmin
<1>1. IInv => SomeEnabledAdmin
  BY DEF IInv
<1> QED
  BY <1>1, Invariance, PTL

-----------------------------------------------------------------------------
LEMMA PoolStep ==
  ASSUME Shape, Cardinality(Connected) <= PoolSize, NEW h \in Handler, Step(h)
  PROVE  (Cardinality(Connected) <= PoolSize)'
<1>1. IsFiniteSet(Connected) /\ Cardinality(Connected) \in Nat
  BY PoolAssumption, FS_Subset, FS_CardinalityType DEF Connected
<1>2. CASE Begin(h) \/ BeginAudit(h)
  <2>1. Connected' = Connected \cup {h} /\ h \notin Connected
    BY <1>2 DEF Begin, BeginAudit, GoTo, Shape, Connected, InTransaction
  <2>2. Cardinality(Connected') = Cardinality(Connected) + 1
    BY <1>1, <2>1, FS_AddElement
  <2> QED
    BY <1>1, <1>2, <2>2, PoolAssumption DEF Begin, BeginAudit, ConnectionFree
<1>3. CASE ~Begin(h) /\ ~BeginAudit(h)
  <2>1. Connected' \subseteq Connected
    BY <1>3 DEF Shape, Step, Work, LockRow, EnsureRole, Refuse, TakeGuard, Allow, Write,
       Commit, Audit, Abort, Receive, GoTo, Finish, Connected, InTransaction
  <2>2. Cardinality(Connected') <= Cardinality(Connected) /\ Cardinality(Connected') \in Nat
    BY <1>1, <2>1, FS_Subset, FS_CardinalityType
  <2> QED
    BY <1>1, <2>2, PoolAssumption
<1> QED
  BY <1>2, <1>3

(* The tables and handlers keep their shape, and the connections in use     *)
(* never outnumber those of the pool.                                       *)
THEOREM TypeCorrect == Spec => []TypeOK
<1>1. TypeOK <=> Shape /\ Cardinality(Connected) <= PoolSize
  BY DEF TypeOK, Shape
<1>2. Init => TypeOK
  <2> SUFFICES ASSUME Init PROVE Cardinality(Connected) <= PoolSize
    BY <1>1, InitShape
  <2>1. Connected = {}
    BY DEF Init, Connected, InTransaction
  <2> QED
    BY <2>1, FS_EmptySet, PoolAssumption
<1>3. TypeOK /\ [Next]_vars => TypeOK'
  <2> SUFFICES ASSUME TypeOK, [Next]_vars PROVE TypeOK'
    OBVIOUS
  <2>1. Shape'
    BY <1>1, NextShape
  <2>2. (Cardinality(Connected) <= PoolSize)'
    <3>1. CASE Next
      BY <1>1, <3>1, PoolStep DEF Next, Step
    <3>2. CASE UNCHANGED vars
      <4>1. Connected' = Connected
        BY <3>2 DEF vars, Connected, InTransaction
      <4> QED
        BY <1>1, <4>1
    <3> QED
      BY <3>1, <3>2
  <2> QED
    BY <2>1, <2>2 DEF TypeOK, Shape
<1> QED
  BY <1>2, <1>3, PTL DEF Spec

(* A disabled account is enabled only by a request that asks for it.        *)
THEOREM DisabledUntilEnabled == Spec => DisabledStays
<1> DEFINE Asked(a) ==
      accounts[a].status = "disabled" /\ accounts'[a].status = "enabled"
        => \E h \in Handler : pc[h] = "written" /\ request[h].kind = "enable" /\ Target(h) = a
<1>1. IInv /\ [Next]_vars => [\A a \in Account : Asked(a)]_vars
  <2> SUFFICES ASSUME IInv, NEW h \in Handler, Step(h), NEW a \in Account,
                      accounts[a].status = "disabled", accounts'[a].status = "enabled"
               PROVE  pc[h] = "written" /\ request[h].kind = "enable" /\ Target(h) = a
    BY DEF Next, Step
  <2>1. Commit(h)
    BY OnlyCommits
  <2>2. Target(h) = a
    BY <2>1 DEF Commit, IInv, Shape, Target, Request
  <2>3. accounts'[a] = Changed(h, accounts[a]) /\ accounts[a] \in AccountRecord
    BY <2>1, <2>2 DEF Commit, IInv, Shape
  <2>4. seen[h] = accounts[a]
    BY <2>1, <2>2 DEF Commit, IInv, RowInv, HoldsRow
  <2>5. request[h].kind \in Kind
    BY DEF IInv, Shape, Request
  <2> QED
    BY <2>1, <2>2, <2>3, <2>4, <2>5 DEF Commit, Changed, AccountRecord, Kind
<1> QED
  BY <1>1, Invariance, PTL DEF Spec, DisabledStays

-----------------------------------------------------------------------------
(* Only grants come to where a second connection or the actor's row is      *)
(* needed, and without connections there are no requests.                   *)
WayInv ==
  \A h \in Handler :
    /\ pc[h] \in {"locked", "allowed"} => Grants(h)
    /\ pc[h] # "idle" => 0 < PoolSize

LEMMA WayStep == Shape /\ WayInv /\ [Next]_vars => WayInv'
<1> SUFFICES ASSUME Shape, WayInv, [Next]_vars PROVE WayInv'
  OBVIOUS
<1>1. ASSUME NEW h \in Handler, Step(h) PROVE WayInv'
  <2>1. ASSUME NEW g \in Handler, g # h
        PROVE  /\ pc'[g] \in {"locked", "allowed"} => Grants(g)'
               /\ pc'[g] # "idle" => 0 < PoolSize
    BY <1>1, <2>1, OthersUnchanged DEF WayInv, Grants
  <2>2. pc'[h] \in {"locked", "allowed"} => Grants(h)'
    BY <1>1 DEF Shape, Step, Work, Begin, LockRow, EnsureRole, Refuse, TakeGuard, Allow, Write, Commit,
       BeginAudit, Audit, Abort, Receive, GoTo, Finish, Grants
  <2>3. CASE \E r \in Request : Receive(h, r)
    <3>1. IsFiniteSet(Connected)
      BY PoolAssumption, FS_Subset DEF Connected
    <3>2. Cardinality(Connected) \in Nat /\ Cardinality(Connected) < PoolSize
      BY <2>3, <3>1, FS_CardinalityType DEF Receive, ConnectionFree
    <3>3. 0 < PoolSize
      BY <3>2, PoolAssumption
    <3> QED
      BY <2>1, <2>2, <3>3 DEF WayInv
  <2>4. CASE Work(h)
    <3>1. pc[h] # "idle"
      BY <2>4 DEF Work, Begin, LockRow, EnsureRole, Refuse, TakeGuard, Allow, Write, Commit, BeginAudit,
         Audit, Abort
    <3> QED
      BY <2>1, <2>2, <3>1 DEF WayInv
  <2> QED
    BY <1>1, <2>3, <2>4 DEF Step
<1>2. CASE UNCHANGED vars
  BY <1>2 DEF vars, WayInv, Grants
<1> QED
  BY <1>1, <1>2 DEF Next, Step

(* Who holds a lock and is waiting is a grant: without one nobody waits for *)
(* a lock of the others, and the connections are with others too.           *)
LEMMA NoCircle ==
  ASSUME Shape, WayInv,
         NEW handlers \in SUBSET Handler, handlers # {}, WaitForEachOther(handlers),
         \A h \in handlers : ~(Grants(h) /\ pc[h] \in {"locked", "allowed"})
  PROVE  FALSE
<1>1. \A h \in handlers : pc[h] \in {"received", "begun", "known", "auditing", "committed"}
  <2>1. \A h \in handlers : pc[h] \notin {"locked", "allowed"}
    BY DEF WayInv
  <2>2. ASSUME NEW h \in handlers, pc[h] \in {"idle", "guarded", "written"} PROVE FALSE
    <3>1. Blockers(h) = {} /\ ~WaitsForConnection(h)
      BY <2>2 DEF Blockers, WaitsForConnection
    <3> QED
      BY <3>1 DEF WaitForEachOther
  <2> QED
    BY <2>1, <2>2 DEF Shape
<1>2. \A h \in handlers : pc[h] # "known"
  <2> SUFFICES ASSUME NEW h \in handlers, pc[h] = "known" PROVE FALSE
    OBVIOUS
  <2>1. PICK g \in Blockers(h) : g \in handlers
    BY DEF WaitForEachOther, WaitsForConnection
  <2>2. HoldsGuard(g)
    BY <2>1 DEF Blockers
  <2> QED
    BY <1>1, <2>1, <2>2 DEF HoldsGuard
<1>3. \A h \in handlers : Blockers(h) \cap handlers = {}
  <2> SUFFICES ASSUME NEW h \in handlers, NEW g \in handlers, g \in Blockers(h) PROVE FALSE
    OBVIOUS
  <2>1. pc[g] \notin {"locked", "known", "guarded", "allowed", "written"}
    BY <1>1, <1>2
  <2> QED
    BY <2>1 DEF Blockers, HoldsRow, HoldsKeyShare, HoldsGuard
<1>4. PICK h \in handlers : TRUE
  OBVIOUS
<1>5. ~ConnectionFree /\ Connected \subseteq handlers
  BY <1>3, <1>4 DEF WaitForEachOther, WaitsForConnection
<1>6. Connected = {}
  <2> SUFFICES ASSUME NEW g \in Connected PROVE FALSE
    OBVIOUS
  <2>1. g \in handlers /\ pc[g] \in {"begun", "auditing"}
    BY <1>1, <1>2, <1>5 DEF Connected, InTransaction
  <2> QED
    BY <1>3, <2>1 DEF WaitForEachOther, WaitsForConnection
<1>7. 0 < PoolSize
  BY <1>1, <1>4 DEF WayInv
<1> QED
  BY <1>5, <1>6, <1>7, FS_EmptySet DEF ConnectionFree

(* A circle of requests that wait for each other, for locks or for the last *)
(* connections of the pool, has a grant in it: for any number of handlers   *)
(* and any size of the pool.                                                *)
THEOREM CirclesNeedGrants == Spec => []OnlyGrantsDeadlock
<1>1. Init => Shape /\ WayInv
  BY InitShape DEF Init, WayInv
<1>2. Shape /\ WayInv /\ [Next]_vars => (Shape /\ WayInv)'
  BY NextShape, WayStep
<1>3. Shape /\ WayInv => OnlyGrantsDeadlock
  BY NoCircle DEF OnlyGrantsDeadlock
<1> QED
  BY <1>1, <1>2, <1>3, PTL DEF Spec
=============================================================================
