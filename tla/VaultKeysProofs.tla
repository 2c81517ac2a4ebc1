--------------------------- MODULE VaultKeysProofs ---------------------------
(***************************************************************************)
(* Invariants of VaultKeys for any number of devices, set-ups and changes.  *)
(*                                                                         *)
(* A record of wrapped_vault_keys never changes its key.  An upload adds a  *)
(* record for its key and revokes the others of that key, and the record a  *)
(* change replaces is of the same key: so no key that had a record in force *)
(* loses the last one, and none has two.                                    *)
(***************************************************************************)
EXTENDS VaultKeys, FiniteSetTheorems, SequenceTheorems, TLAPS

USE DeviceAssumption DEF DeviceAssumption

Row == [key : Key, password : Password, by : Device, revoked : BOOLEAN]

(* An upload says its key, and a record it replaces is of that key.         *)
Fits(u) ==
  u.replaces # 0 => u.replaces \in DOMAIN keys /\ keys[u.replaces].key = u.key

LEMMA KeysAre == Key \subseteq Nat \ {0} /\ Password \subseteq Nat \ {0} /\ Cardinality(Local) \in Nat
BY FS_CardinalityType DEF Key, Password

LEMMA AfterCreate ==
  ASSUME keys \in Seq(Row), NEW u \in UploadType, CreateKey(u)
  PROVE  /\ keys' \in Seq(Row)
         /\ DOMAIN keys = 1 .. Len(keys) /\ Len(keys) \in Nat
         /\ DOMAIN keys' = 1 .. Len(keys) + 1
         /\ \A i \in DOMAIN keys : /\ keys'[i].key = keys[i].key
                                   /\ keys'[i].revoked <=> keys[i].revoked \/ Replaced(i, u)
                                   /\ keys'[i].by = keys[i].by /\ keys'[i].password = keys[i].password
         /\ keys'[Len(keys) + 1].key = u.key /\ ~keys'[Len(keys) + 1].revoked
         /\ keys'[Len(keys) + 1].by = u.by /\ keys'[Len(keys) + 1].password = u.password
<1> DEFINE old == [i \in DOMAIN keys |-> [keys[i] EXCEPT !.revoked = @ \/ Replaced(i, u)]]
           new == [key |-> u.key, password |-> u.password, by |-> u.by, revoked |-> FALSE]
           n == Len(keys)
<1>1. n \in Nat /\ keys \in [1..n -> Row] /\ DOMAIN keys = 1..n
  BY LenProperties
<1>2. new \in Row
  BY DEF UploadType, Row
<1>3. \A i \in 1..n : old[i] \in Row
  <2>1. ASSUME NEW i \in 1..n, NEW b \in BOOLEAN PROVE [keys[i] EXCEPT !.revoked = b] \in Row
    BY <1>1 DEF Row
  <2>2. \A i \in 1..n : (keys[i].revoked \/ Replaced(i, u)) \in BOOLEAN
    OBVIOUS
  <2> QED
    BY <1>1, <2>1, <2>2, Zenon
<1>4. old \in Seq(Row) /\ Len(old) = n
  <2>1. old \in [1..n -> Row]
    BY <1>1, <1>3
  <2>2. old \in Seq(Row)
    BY <1>1, <2>1, SeqDef
  <2>3. 1..Len(old) = 1..n /\ Len(old) \in Nat
    BY <1>1, <2>2, LenProperties
  <2> QED
    BY <1>1, <2>2, <2>3
<1>5. keys' = Append(old, new)
  BY DEF CreateKey
<1>6. ASSUME NEW i \in 1..n
      PROVE  /\ old[i].key = keys[i].key /\ old[i].revoked = (keys[i].revoked \/ Replaced(i, u))
             /\ old[i].by = keys[i].by /\ old[i].password = keys[i].password
  <2> DEFINE b == keys[i].revoked \/ Replaced(i, u)
  <2>1. old[i] = [keys[i] EXCEPT !.revoked = b]
    BY <1>1
  <2> HIDE DEF b, old
  <2>2. /\ old[i].key = keys[i].key /\ old[i].revoked = b
        /\ old[i].by = keys[i].by /\ old[i].password = keys[i].password
    BY <1>1, <2>1 DEF Row
  <2> QED
    BY <2>2 DEF b
<1>7. new.key = u.key /\ new.revoked = FALSE /\ new.by = u.by /\ new.password = u.password
  OBVIOUS
<1> HIDE DEF old, new
<1>8. /\ keys' \in Seq(Row) /\ Len(keys') = n + 1
      /\ \A i \in 1..n : keys'[i] = old[i]
      /\ keys'[n + 1] = new
  BY <1>1, <1>2, <1>4, <1>5, AppendProperties
<1>9. DOMAIN keys' = 1 .. n + 1
  BY <1>8, LenProperties
<1> QED
  BY <1>1, <1>6, <1>7, <1>8, <1>9, Zenon

LEMMA ActiveAfter ==
  ASSUME keys \in Seq(Row), NEW u \in UploadType, CreateKey(u), Fits(u)
  PROVE  /\ \A k : k # u.key => Active(k)' = Active(k)
         /\ Active(u.key)' = {Len(keys) + 1}
<1>1. /\ DOMAIN keys = 1 .. Len(keys) /\ Len(keys) \in Nat /\ DOMAIN keys' = 1 .. Len(keys) + 1
      /\ \A i \in DOMAIN keys : /\ keys'[i].key = keys[i].key
                                /\ keys'[i].revoked <=> keys[i].revoked \/ Replaced(i, u)
      /\ keys'[Len(keys) + 1].key = u.key /\ ~keys'[Len(keys) + 1].revoked
  BY AfterCreate
<1>2. u.replaces \notin DOMAIN keys \/ keys[u.replaces].key = u.key
  BY <1>1 DEF Fits
<1>3. DOMAIN keys' = DOMAIN keys \cup {Len(keys) + 1} /\ Len(keys) + 1 \notin DOMAIN keys
  BY <1>1
<1>4. ASSUME NEW k, k # u.key PROVE Active(k)' = Active(k)
  <2>1. \A i \in DOMAIN keys : keys[i].key = k => ~Replaced(i, u)
    BY <1>2, <1>4 DEF Replaced
  <2> QED
    BY <1>1, <1>3, <1>4, <2>1, Zenon DEF Active
<1>5. Active(u.key)' = {Len(keys) + 1}
  <2>1. \A i \in DOMAIN keys : keys[i].key = u.key => Replaced(i, u)
    BY DEF Replaced
  <2> QED
    BY <1>1, <1>3, <2>1, Zenon DEF Active
<1> QED
  BY <1>4, <1>5

-----------------------------------------------------------------------------
(* Types, and where a device is tells what it does.                         *)
OpType ==
  [do : {"none", "setup", "bind", "restore", "change"}, key : Key \cup {0},
   password : Password \cup {0}, replaces : Nat, found : BOOLEAN]

Place == {"idle", "listing", "saving", "keying", "keyed", "pushed", "restored", "undoing"}

ServerOK == keys \in Seq(Row) /\ sealed \subseteq Key /\ strays \subseteq UploadType
UsersOK ==
  /\ user \in [Device -> Wrapping \cup {None}] /\ disk \in [Device -> Wrapping \cup {None}]
OpsOK ==
  /\ op \in [Device -> OpType]
  /\ pc \in [Device -> Place]
CountsOK == madeKeys \in Key \cup {0} /\ chosen \in Password
MarksOK ==
  /\ bound \subseteq Device /\ page \in BOOLEAN
  /\ told \in [Device -> Password \cup {0}] /\ cut \subseteq Device /\ joined \subseteq bound
Shape == ServerOK /\ UsersOK /\ OpsOK /\ CountsOK /\ MarksOK

Placed(where, o) ==
  /\ where = "idle" => o = NoOp
  /\ where # "idle" => /\ o.key \in Key /\ o.password \in Password
                       /\ o.do \in {"setup", "bind", "restore", "change"}
  /\ where \in {"listing", "saving", "undoing"} => o.do = "change"
  /\ where \in {"keying", "keyed"} => o.do \in {"setup", "bind", "change"}
  /\ where = "pushed" => o.do = "setup"
  /\ where = "restored" => o.do = "restore"

PlaceInv == \A d \in Device : Placed(pc[d], op[d])

(* What is saved has the key of what is in memory, and whoever is bound or  *)
(* binds or changes has a user.                                             *)
UserInv ==
  \A d \in Device :
    /\ user[d] = None <=> disk[d] = None
    /\ user[d] # None => disk[d].key = user[d].key
    /\ d \in bound => user[d] # None
    /\ pc[d] # "idle" /\ op[d].do \in {"bind", "change"} => user[d] # None /\ op[d].key = user[d].key
    /\ pc[d] # "idle" /\ op[d].do \in {"setup", "restore"} => user[d] = None

TypeInv == Shape /\ PlaceInv /\ UserInv

LEMMA NoOpType == NoOp \in OpType
BY DEF NoOp, OpType

LEMMA NotNone == \A w \in Wrapping : w # None
BY KeysAre DEF Wrapping

LEMMA UploadTyped ==
  ASSUME OpsOK, PlaceInv, NEW d \in Device, pc[d] # "idle"
  PROVE  /\ Upload(d) \in UploadType
         /\ Upload(d).key = op[d].key /\ Upload(d).replaces = op[d].replaces /\ Upload(d).by = d
<1>1. op[d].key \in Key /\ op[d].password \in Password /\ op[d].replaces \in Nat
  BY DEF OpsOK, PlaceInv, Placed, OpType
<1> QED
  BY <1>1 DEF Upload, UploadType

LEMMA InitTypes == Init => TypeInv
<1> SUFFICES ASSUME Init PROVE TypeInv
  OBVIOUS
<1>0. PICK owners \in SUBSET Local, own \in [Local -> 1 .. Cardinality(Local)] :
        /\ user = [d \in Device |-> IF d \in owners THEN [key |-> own[d], password |-> 1] ELSE None]
        /\ told = [d \in Device |-> IF d \in owners THEN 1 ELSE 0]
  BY DEF Init
<1>1. \A d \in Local : own[d] \in Key
  BY KeysAre DEF Key
<1>2. 1 \in Password /\ Cardinality(Local) \in Key \cup {0}
  BY KeysAre DEF Password, Key
<1>3. UsersOK
  BY <1>0, <1>1, <1>2 DEF Init, UsersOK, Wrapping
<1>4. ServerOK
  BY EmptySeq DEF Init, ServerOK
<1>5. OpsOK
  BY NoOpType DEF Init, OpsOK, Place
<1>6. CountsOK
  BY <1>2 DEF Init, CountsOK
<1>7. MarksOK
  BY <1>0, <1>2 DEF Init, MarksOK
<1>8. PlaceInv /\ UserInv
  BY <1>3 DEF Init, PlaceInv, Placed, UserInv, UsersOK
<1> QED
  BY <1>3, <1>4, <1>5, <1>6, <1>7, <1>8 DEF TypeInv, Shape

LEMMA ServerStep == TypeInv /\ [Next]_vars => ServerOK'
<1> SUFFICES ASSUME TypeInv, [Next]_vars PROVE ServerOK'
  OBVIOUS
<1>1. ASSUME NEW d \in Device, ServeKey(d) PROVE ServerOK'
  <2>1. Upload(d) \in UploadType
    BY <1>1, UploadTyped DEF ServeKey, TypeInv, Shape
  <2> QED
    BY <1>1, <2>1, AfterCreate DEF ServeKey, TypeInv, Shape, ServerOK
<1>2. ASSUME NEW u \in strays, ServeStray(u) PROVE ServerOK'
  BY <1>2, AfterCreate DEF ServeStray, TypeInv, Shape, ServerOK
<1>3. ASSUME NEW d \in Device, PushVault(d) \/ Push(d) PROVE ServerOK'
  <2>1. CASE PushVault(d)
    BY <2>1 DEF PushVault, Does, TypeInv, Shape, ServerOK, PlaceInv, Placed
  <2>2. CASE Push(d)
    <3>1. user[d].key \in Key
      BY <2>2 DEF Push, TypeInv, UserInv, Shape, UsersOK, Wrapping
    <3> QED
      BY <2>2, <3>1 DEF Push, TypeInv, Shape, ServerOK
  <2> QED
    BY <1>3, <2>1, <2>2
<1>4. ASSUME NEW d \in Device, Lose(d) \/ Restart(d) PROVE ServerOK'
  <2>1. strays' = strays \/ (pc[d] = "keying" /\ strays' = strays \cup {Upload(d)})
    BY <1>4 DEF Lose, Restart
  <2>2. UNCHANGED <<keys, sealed>>
    BY <1>4 DEF Lose, Restart
  <2> QED
    BY <2>1, <2>2, UploadTyped DEF TypeInv, Shape, ServerOK
<1>5. CASE UNCHANGED server
  BY <1>5 DEF server, TypeInv, Shape, ServerOK
<1>6. \/ \E u \in strays : ServeStray(u)
      \/ \E d \in Device : ServeKey(d) \/ PushVault(d) \/ Push(d) \/ Lose(d) \/ Restart(d)
      \/ UNCHANGED server
  BY Zenon DEF Next, vars, RefuseKey, Persist, BeginSetup, FinishSetup, Restore, FinishRestore, Bind,
     FinishBind, Unbind, BeginChange, Listed, SaveLocal, Change, Undo
<1> QED
  BY <1>1, <1>2, <1>3, <1>4, <1>5, <1>6

LEMMA UsersStep == TypeInv /\ [Next]_vars => UsersOK'
<1> SUFFICES ASSUME TypeInv, [Next]_vars PROVE UsersOK'
  OBVIOUS
<1>1. ASSUME NEW d \in Device, pc[d] # "idle"
      PROVE  [key |-> op[d].key, password |-> op[d].password] \in Wrapping
  BY <1>1 DEF TypeInv, PlaceInv, Placed, Wrapping
<1>2. ASSUME NEW d \in Device, FinishSetup(d) \/ FinishRestore(d) PROVE UsersOK'
  <2>1. pc[d] # "idle"
    BY <1>2 DEF FinishSetup, FinishRestore, Does
  <2> QED
    BY <1>1, <1>2, <2>1 DEF FinishSetup, FinishRestore, WithUser, TypeInv, Shape, UsersOK
<1>3. ASSUME NEW d \in Device, SaveLocal(d) \/ Change(d) PROVE UsersOK'
  <2>1. pc[d] # "idle"
    BY <1>3 DEF SaveLocal, Change, Does
  <2>2. NewWrapping(d) \in Wrapping
    BY <1>1, <2>1 DEF NewWrapping
  <2>3. user' \in {user, [user EXCEPT ![d] = NewWrapping(d)]}
    BY <1>3, Zenon DEF SaveLocal, Change, Use
  <2>4. disk' \in {disk, [disk EXCEPT ![d] = NewWrapping(d)]}
    BY <1>3 DEF SaveLocal, Change
  <2> QED
    BY <2>2, <2>3, <2>4 DEF TypeInv, Shape, UsersOK
<1>4. ASSUME NEW d \in Device, FinishBind(d) \/ Unbind(d) \/ Undo(d) \/ Persist(d) \/ Restart(d)
      PROVE  UsersOK'
  BY <1>4 DEF FinishBind, Unbind, Undo, Persist, Restart, TypeInv, Shape, UsersOK
<1>5. CASE UNCHANGED <<user, disk>>
  BY <1>5 DEF TypeInv, Shape, UsersOK
<1>6. \/ \E d \in Device : \/ FinishSetup(d) \/ FinishRestore(d) \/ SaveLocal(d) \/ Change(d)
                           \/ FinishBind(d) \/ Unbind(d) \/ Undo(d) \/ Persist(d) \/ Restart(d)
      \/ UNCHANGED <<user, disk>>
  BY ZenonT(60) DEF Next, vars, device, ServeStray, ServeKey, RefuseKey, Lose, BeginSetup, PushVault, Restore,
     Bind, Push, BeginChange, Listed
<1> QED
  BY <1>2, <1>3, <1>4, <1>5, <1>6

LEMMA CountsStep == TypeInv /\ [Next]_vars => CountsOK'
<1> SUFFICES ASSUME TypeInv, [Next]_vars PROVE CountsOK'
  OBVIOUS
<1>1. ASSUME NEW d \in Device, BeginSetup(d) PROVE CountsOK' /\ madeKeys + 1 \in Key
  BY <1>1, KeysAre DEF BeginSetup, TypeInv, Shape, CountsOK, Key
<1>2. ASSUME NEW d \in Device, BeginChange(d) PROVE CountsOK'
  BY <1>2, KeysAre DEF BeginChange, TypeInv, Shape, CountsOK, Password
<1>3. CASE UNCHANGED <<madeKeys, chosen>>
  BY <1>3 DEF TypeInv, Shape, CountsOK
<1>4. (\E d \in Device : BeginSetup(d) \/ BeginChange(d)) \/ UNCHANGED <<madeKeys, chosen>>
  BY Zenon DEF Next, vars, counts, ServeStray, ServeKey, RefuseKey, Lose, Persist, Restart, PushVault,
     FinishSetup, Restore, FinishRestore, Bind, FinishBind, Unbind, Push, Listed, SaveLocal, Change, Undo
<1> QED
  BY <1>1, <1>2, <1>3, <1>4

(* The operations that begin with a record of their own, and their types.   *)
LEMMA OpTypes ==
  ASSUME TypeInv, NEW d \in Device
  PROVE  /\ madeKeys < MaxSetups + Cardinality(Local) =>
              [NoOp EXCEPT !.do = "setup", !.key = madeKeys + 1, !.password = 1] \in OpType
         /\ \A k \in Key, p \in Password, b \in BOOLEAN :
              [NoOp EXCEPT !.do = "restore", !.key = k, !.password = p, !.found = b] \in OpType
         /\ \A k \in Key, p \in Password, b \in BOOLEAN :
              [NoOp EXCEPT !.do = "bind", !.key = k, !.password = p, !.found = b] \in OpType
         /\ \A k \in Key, p \in Password :
              [NoOp EXCEPT !.do = "change", !.key = k, !.password = p] \in OpType
         /\ \A n \in Nat, b \in BOOLEAN : [op[d] EXCEPT !.replaces = n, !.found = b] \in OpType
<1>1. \A o \in OpType : [o EXCEPT !.do = "setup"] \in OpType /\ [o EXCEPT !.do = "restore"] \in OpType
        /\ [o EXCEPT !.do = "bind"] \in OpType /\ [o EXCEPT !.do = "change"] \in OpType
  BY DEF OpType
<1>2. \A o \in OpType, k \in Key, p \in Password : [[o EXCEPT !.key = k] EXCEPT !.password = p] \in OpType
  BY DEF OpType
<1>3. \A o \in OpType, b \in BOOLEAN : [o EXCEPT !.found = b] \in OpType
  BY DEF OpType
<1>4. \A o \in OpType, n \in Nat : [o EXCEPT !.replaces = n] \in OpType
  BY DEF OpType
<1>5. madeKeys < MaxSetups + Cardinality(Local) => madeKeys + 1 \in Key
  BY KeysAre DEF TypeInv, Shape, CountsOK, Key
<1>6. 1 \in Password
  BY DEF Password
<1>7. op[d] \in OpType
  BY DEF TypeInv, Shape, OpsOK
<1> QED
  BY <1>1, <1>2, <1>3, <1>4, <1>5, <1>6, <1>7, NoOpType

(* A device begins something, goes on or ends: it is somewhere it may be.   *)
Moves(d) ==
  \E next \in Place, o \in OpType :
    /\ Begin(d, next, o) /\ Placed(next, o)
    /\ next # "idle" /\ pc[d] # "idle" => o.do = op[d].do /\ o.key = op[d].key

LEMMA MovesType ==
  ASSUME OpsOK, PlaceInv, NEW d \in Device, Moves(d)
  PROVE  /\ OpsOK' /\ PlaceInv'
         /\ \A e \in Device \ {d} : pc'[e] = pc[e] /\ op'[e] = op[e]
<1>1. PICK next \in Place, o \in OpType : Begin(d, next, o) /\ Placed(next, o)
  BY DEF Moves
<1>2. OpsOK'
  BY <1>1 DEF OpsOK, Begin
<1>3. pc'[d] = next /\ op'[d] = o /\ \A e \in Device \ {d} : pc'[e] = pc[e] /\ op'[e] = op[e]
  BY <1>1 DEF OpsOK, Begin
<1>4. PlaceInv'
  BY <1>1, <1>3 DEF PlaceInv
<1> QED
  BY <1>2, <1>3, <1>4

LEMMA GoesOn ==
  ASSUME OpsOK, PlaceInv, NEW d \in Device, NEW next \in Place, GoTo(d, next), Placed(next, op[d])
  PROVE  Moves(d)
<1>1. Begin(d, next, op[d]) /\ op[d] \in OpType
  BY DEF GoTo, Begin, OpsOK
<1> QED
  BY <1>1 DEF Moves

LEMMA Ends == ASSUME NEW d \in Device, End(d) PROVE Moves(d)
<1>1. Placed("idle", NoOp) /\ "idle" \in Place
  BY DEF Placed, Place
<1> QED
  BY <1>1, NoOpType DEF End, Moves

LEMMA StopMoves == ASSUME OpsOK, PlaceInv, NEW d \in Device, Stop(d), pc[d] # "idle" PROVE Moves(d)
<1>1. CASE op[d].do = "change"
  <2>1. GoTo(d, "undoing") /\ Placed("undoing", op[d]) /\ "undoing" \in Place
    BY <1>1 DEF Stop, PlaceInv, Placed, Place
  <2> QED
    BY <2>1, GoesOn
<1>2. CASE op[d].do # "change"
  BY <1>2, Ends DEF Stop
<1> QED
  BY <1>1, <1>2

LEMMA BeginsMoves ==
  ASSUME TypeInv, NEW d \in Device,
         BeginSetup(d) \/ Restore(d) \/ Bind(d) \/ BeginChange(d) \/ Listed(d)
  PROVE  Moves(d)
<1>0. {"idle", "listing", "saving", "keying", "restored"} \subseteq Place
  BY DEF Place
<1>1. CASE BeginSetup(d)
  <2> DEFINE o == [NoOp EXCEPT !.do = "setup", !.key = madeKeys + 1, !.password = 1]
  <2>1. o \in OpType /\ madeKeys + 1 \in Key /\ 1 \in Password
    <3>1. madeKeys + 1 \in Key /\ 1 \in Password
      BY <1>1, KeysAre DEF BeginSetup, Password, TypeInv, Shape, CountsOK, Key
    <3> QED
      BY <1>1, <3>1, OpTypes DEF BeginSetup
  <2>2. o.do = "setup" /\ o.key = madeKeys + 1 /\ o.password = 1
    BY DEF NoOp
  <2>3. Begin(d, "keying", o) /\ pc[d] = "idle"
    BY <1>1 DEF BeginSetup
  <2> HIDE DEF o
  <2>4. Placed("keying", o)
    BY <2>1, <2>2 DEF Placed
  <2> QED
    BY <1>0, <2>1, <2>3, <2>4 DEF Moves
<1>2. CASE Restore(d)
  <2>0. PICK k \in Key : \E i \in Active(k) :
          Begin(d, "restored", [NoOp EXCEPT !.do = "restore", !.key = k,
                                            !.password = keys[i].password, !.found = sealed # {}])
    BY <1>2 DEF Restore
  <2>1. PICK i \in Active(k) :
          Begin(d, "restored", [NoOp EXCEPT !.do = "restore", !.key = k,
                                            !.password = keys[i].password, !.found = sealed # {}])
    BY <2>0
  <2> DEFINE p == keys[i].password
             o == [NoOp EXCEPT !.do = "restore", !.key = k, !.password = p, !.found = sealed # {}]
  <2>2. p \in Password
    <3>1. keys \in [1..Len(keys) -> Row] /\ i \in DOMAIN keys
      BY LenProperties DEF Active, TypeInv, Shape, ServerOK
    <3> QED
      BY <3>1 DEF Row
  <2>3. o \in OpType
    BY <2>2, OpTypes
  <2>4. o.do = "restore" /\ o.key = k /\ o.password = p
    BY DEF NoOp
  <2>5. pc[d] = "idle"
    BY <1>2 DEF Restore
  <2> HIDE DEF p
  <2>6. Placed("restored", o)
    BY <2>2, <2>4 DEF Placed
  <2> QED
    BY <1>0, <2>1, <2>3, <2>5, <2>6 DEF Moves, p
<1>3. CASE Bind(d)
  <2> DEFINE k == user[d].key  p == user[d].password
             o == [NoOp EXCEPT !.do = "bind", !.key = k, !.password = p, !.found = sealed # {}]
  <2>2. k \in Key /\ p \in Password
    BY <1>3 DEF Bind, TypeInv, Shape, UsersOK, Wrapping
  <2>3. o \in OpType
    BY <2>2, OpTypes
  <2>4. o.do = "bind" /\ o.key = k /\ o.password = p
    BY DEF NoOp
  <2>5. pc[d] = "idle" /\ Begin(d, "keying", o)
    BY <1>3 DEF Bind
  <2> HIDE DEF p, k
  <2>6. Placed("keying", o)
    BY <2>2, <2>4 DEF Placed
  <2> HIDE DEF o
  <2> QED
    BY <1>0, <2>3, <2>5, <2>6 DEF Moves
<1>4. CASE BeginChange(d)
  <2> DEFINE k == user[d].key  p == chosen + 1
             o == [NoOp EXCEPT !.do = "change", !.key = k, !.password = p]
  <2>1. k \in Key
    BY <1>4 DEF BeginChange, TypeInv, Shape, UsersOK, Wrapping
  <2>2. p \in Password
    BY <1>4, KeysAre DEF BeginChange, TypeInv, Shape, CountsOK, Password
  <2>3. o \in OpType
    BY <2>1, <2>2, OpTypes
  <2>4. o.do = "change" /\ o.key = k /\ o.password = p
    BY DEF NoOp
  <2>5. pc[d] = "idle" /\ Begin(d, IF d \in bound THEN "listing" ELSE "saving", o)
    BY <1>4 DEF BeginChange
  <2> HIDE DEF p, k
  <2>6. Placed("listing", o) /\ Placed("saving", o)
    BY <2>1, <2>2, <2>4 DEF Placed
  <2> HIDE DEF o
  <2> QED
    BY <1>0, <2>3, <2>5, <2>6 DEF Moves
<1>5. CASE Listed(d)
  <2>1. CASE End(d)
    BY <2>1, Ends
  <2>2. ASSUME NEW i \in Active(op[d].key),
               Begin(d, "saving", [op[d] EXCEPT !.replaces = i, !.found = \A u \in strays : u.by # d])
        PROVE  Moves(d)
    <3> DEFINE o == [op[d] EXCEPT !.replaces = i, !.found = \A u \in strays : u.by # d]
    <3>1. i \in Nat
      BY LenProperties DEF Active, TypeInv, Shape, ServerOK
    <3>2. o \in OpType
      BY <3>1, OpTypes
    <3>3. o.do = op[d].do /\ o.key = op[d].key /\ o.password = op[d].password
      BY DEF TypeInv, Shape, OpsOK, OpType
    <3> HIDE DEF o
    <3>4. Placed("saving", o)
      BY <1>5, <3>3 DEF Listed, TypeInv, PlaceInv, Placed
    <3>5. Begin(d, "saving", o)
      BY <2>2 DEF o
    <3> QED
      BY <1>0, <3>2, <3>3, <3>4, <3>5 DEF Moves
  <2> QED
    BY <1>5, <2>1, <2>2 DEF Listed
<1> QED
  BY <1>1, <1>2, <1>3, <1>4, <1>5

LEMMA WorkMoves ==
  ASSUME TypeInv, NEW d \in Device,
         \/ ServeKey(d) \/ RefuseKey(d) \/ Lose(d) \/ Restart(d) \/ PushVault(d) \/ FinishSetup(d)
         \/ FinishRestore(d) \/ FinishBind(d) \/ SaveLocal(d) \/ Change(d) \/ Undo(d)
  PROVE  Moves(d)
<1>0. OpsOK /\ PlaceInv /\ {"keyed", "pushed", "keying"} \subseteq Place
  BY DEF TypeInv, Shape, Place
<1>1. CASE ServeKey(d)
  <2>1. GoTo(d, "keyed") /\ Placed("keyed", op[d])
    BY <1>0, <1>1 DEF ServeKey, PlaceInv, Placed
  <2> QED
    BY <1>0, <2>1, GoesOn
<1>2. CASE PushVault(d)
  <2>1. GoTo(d, "pushed") /\ Placed("pushed", op[d])
    BY <1>0, <1>2 DEF PushVault, Does, PlaceInv, Placed
  <2> QED
    BY <1>0, <2>1, GoesOn
<1>3. CASE SaveLocal(d)
  <2>1. GoTo(d, "keying") \/ End(d)
    BY <1>3, Zenon DEF SaveLocal, Use
  <2>2. Placed("keying", op[d])
    BY <1>0, <1>3 DEF SaveLocal, PlaceInv, Placed
  <2> QED
    BY <1>0, <2>1, <2>2, GoesOn, Ends
<1>4. CASE RefuseKey(d) \/ Lose(d)
  <2>1. Stop(d) /\ pc[d] # "idle"
    BY <1>4 DEF RefuseKey, Lose
  <2> QED
    BY <1>0, <2>1, StopMoves
<1>5. CASE FinishSetup(d) \/ FinishRestore(d) \/ FinishBind(d) \/ Change(d) \/ Undo(d) \/ Restart(d)
  BY <1>5, Ends DEF FinishSetup, FinishRestore, FinishBind, Change, Use, Undo, Restart
<1> QED
  BY <1>1, <1>2, <1>3, <1>4, <1>5

Begins(d) == BeginSetup(d) \/ Restore(d) \/ Bind(d) \/ BeginChange(d) \/ Listed(d)
Goes(d) == ServeKey(d) \/ RefuseKey(d) \/ Lose(d) \/ PushVault(d)
Finishes(d) ==
  FinishSetup(d) \/ FinishRestore(d) \/ FinishBind(d) \/ SaveLocal(d) \/ Change(d) \/ Undo(d) \/ Restart(d)
Rests == UNCHANGED <<op, pc>>

LEMMA Steps ==
  [Next]_vars =>
    \/ \E d \in Device : Begins(d) \/ Goes(d) \/ Finishes(d) \/ Unbind(d) \/ Push(d) \/ Persist(d)
    \/ \E u \in strays : ServeStray(u)
    \/ UNCHANGED vars
BY Zenon DEF Next, Begins, Goes, Finishes

LEMMA OpsStep == TypeInv /\ [Next]_vars => OpsOK' /\ PlaceInv'
<1> SUFFICES ASSUME TypeInv, [Next]_vars PROVE OpsOK' /\ PlaceInv'
  OBVIOUS
<1>0. OpsOK /\ PlaceInv
  BY DEF TypeInv, Shape
<1>1. ASSUME NEW d \in Device, Begins(d) \/ Goes(d) \/ Finishes(d) PROVE OpsOK' /\ PlaceInv'
  <2>1. Moves(d)
    BY <1>1, BeginsMoves, WorkMoves DEF Begins, Goes, Finishes
  <2> QED
    BY <1>0, <2>1, MovesType
<1>2. CASE Rests
  BY <1>0, <1>2 DEF Rests, OpsOK, PlaceInv
<1>3. ASSUME NEW d \in Device, Unbind(d) \/ Push(d) \/ Persist(d) PROVE Rests
  BY <1>3 DEF Unbind, Push, Persist, Rests
<1>4. ASSUME NEW u \in strays, ServeStray(u) PROVE Rests
  BY <1>4 DEF ServeStray, Rests
<1>5. UNCHANGED vars => Rests
  BY DEF vars, Rests
<1> QED
  BY <1>1, <1>2, <1>3, <1>4, <1>5, Steps

LEMMA MarksStep == TypeInv /\ [Next]_vars => MarksOK'
<1> SUFFICES ASSUME TypeInv, [Next]_vars PROVE MarksOK'
  OBVIOUS
<1>1. ASSUME NEW d \in Device, FinishSetup(d) \/ FinishRestore(d) PROVE MarksOK'
  <2>1. op[d].password \in Password
    BY <1>1 DEF FinishSetup, FinishRestore, Does, TypeInv, PlaceInv, Placed
  <2>2. told' = [told EXCEPT ![d] = op[d].password] /\ page' \in BOOLEAN /\ cut' = cut
    BY <1>1 DEF FinishSetup, FinishRestore, WithUser, TypeInv, Shape, MarksOK
  <2>3. bound' = bound \cup {d} /\ joined' \in {joined, joined \cup {d}}
    BY <1>1 DEF FinishSetup, FinishRestore, Join
  <2> QED
    BY <2>1, <2>2, <2>3 DEF TypeInv, Shape, MarksOK
<1>2. ASSUME NEW d \in Device, SaveLocal(d) \/ Change(d) PROVE MarksOK'
  <2>1. op[d].password \in Password
    BY <1>2 DEF SaveLocal, Change, Does, TypeInv, PlaceInv, Placed
  <2>2. told' \in {told, [told EXCEPT ![d] = op[d].password]}
    BY <1>2, Zenon DEF SaveLocal, Change, Use
  <2>3. UNCHANGED <<bound, page, joined>> /\ cut' \subseteq cut
    BY <1>2 DEF SaveLocal, Change, Settled
  <2> QED
    BY <2>1, <2>2, <2>3 DEF TypeInv, Shape, MarksOK
<1>3. ASSUME NEW d \in Device, FinishBind(d) \/ Unbind(d) PROVE MarksOK'
  BY <1>3 DEF FinishBind, Unbind, Join, TypeInv, Shape, MarksOK
<1>4. ASSUME NEW d \in Device, Lose(d) \/ Undo(d) \/ Persist(d) \/ Restart(d) PROVE MarksOK'
  <2>1. cut' \subseteq cut \cup {d} /\ UNCHANGED <<bound, told, joined>>
    BY <1>4 DEF Lose, device, Undo, Persist, Restart
  <2>2. page' = page \/ page' = (page /\ d # Creator)
    BY <1>4 DEF Lose, device, Undo, Persist, Restart
  <2>3. page' \in BOOLEAN
    BY <2>2 DEF TypeInv, Shape, MarksOK
  <2> QED
    BY <2>1, <2>3 DEF TypeInv, Shape, MarksOK
<1>5. CASE UNCHANGED <<bound, page, told, cut, joined>>
  BY <1>5 DEF TypeInv, Shape, MarksOK
<1>6. \/ \E d \in Device : \/ FinishSetup(d) \/ FinishRestore(d) \/ SaveLocal(d) \/ Change(d)
                           \/ FinishBind(d) \/ Unbind(d) \/ Lose(d) \/ Undo(d) \/ Persist(d) \/ Restart(d)
      \/ UNCHANGED <<bound, page, told, cut, joined>>
  BY ZenonT(60) DEF Next, vars, device, auxiliary, ServeStray, ServeKey, RefuseKey, BeginSetup, PushVault,
     Restore, Bind, Push, BeginChange, Listed
<1> QED
  BY <1>1, <1>2, <1>3, <1>4, <1>5, <1>6

(* What a device begins says whose key it is about.                         *)
LEMMA BeginsAbout ==
  ASSUME TypeInv, NEW d \in Device, Begins(d), pc'[d] # "idle"
  PROVE  /\ op'[d].do \in {"bind", "change"} => user[d] # None /\ op'[d].key = user[d].key
         /\ op'[d].do \in {"setup", "restore"} => user[d] = None
<1>0. op \in [Device -> OpType] /\ d \in DOMAIN op
  BY DEF TypeInv, Shape, OpsOK
<1>1. CASE BeginSetup(d)
  <2>1. op'[d].do = "setup"
    BY <1>0, <1>1 DEF BeginSetup, Begin, NoOp
  <2> QED
    BY <1>1, <2>1 DEF BeginSetup
<1>2. CASE Restore(d)
  <2>1. op'[d].do = "restore"
    <3>1. PICK k \in Key : \E i \in Active(k) :
            Begin(d, "restored", [NoOp EXCEPT !.do = "restore", !.key = k,
                                              !.password = keys[i].password, !.found = sealed # {}])
      BY <1>2 DEF Restore
    <3>2. PICK i \in Active(k) :
            Begin(d, "restored", [NoOp EXCEPT !.do = "restore", !.key = k,
                                              !.password = keys[i].password, !.found = sealed # {}])
      BY <3>1
    <3> QED
      BY <1>0, <3>2 DEF Begin, NoOp
  <2> QED
    BY <1>2, <2>1 DEF Restore
<1>3. CASE Bind(d) \/ BeginChange(d)
  <2>1. op'[d].do \in {"bind", "change"} /\ op'[d].key = user[d].key
    <3> DEFINE o == IF Bind(d)
                    THEN [NoOp EXCEPT !.do = "bind", !.key = user[d].key,
                                      !.password = user[d].password, !.found = sealed # {}]
                    ELSE [NoOp EXCEPT !.do = "change", !.key = user[d].key, !.password = chosen + 1]
    <3>1. o.do \in {"bind", "change"} /\ o.key = user[d].key
      BY DEF NoOp
    <3>2. \E next : Begin(d, next, o)
      BY <1>3, Zenon DEF Bind, BeginChange
    <3> HIDE DEF o
    <3> QED
      BY <1>0, <3>1, <3>2 DEF Begin
  <2> QED
    BY <1>3, <2>1 DEF Bind, BeginChange
<1>4. CASE Listed(d)
  <2>1. op[d].do = "change" /\ pc[d] # "idle"
    BY <1>4 DEF Listed, TypeInv, PlaceInv, Placed
  <2>2. ~End(d)
    BY DEF End, Begin, TypeInv, Shape, OpsOK
  <2>3. PICK i \in Active(op[d].key) :
          Begin(d, "saving", [op[d] EXCEPT !.replaces = i, !.found = \A u \in strays : u.by # d])
    BY <1>4, <2>2 DEF Listed
  <2>4. op'[d] = [op[d] EXCEPT !.replaces = i, !.found = \A u \in strays : u.by # d]
    BY <1>0, <2>3 DEF Begin
  <2>5. op'[d].do = op[d].do /\ op'[d].key = op[d].key
    BY <1>0, <2>4 DEF OpType
  <2> QED
    BY <2>1, <2>5 DEF TypeInv, UserInv
<1> QED
  BY <1>1, <1>2, <1>3, <1>4 DEF Begins

(* Going on leaves it as it is.                                             *)
LEMMA SameAbout ==
  ASSUME TypeInv, NEW d \in Device, Goes(d) \/ Finishes(d), pc'[d] # "idle"
  PROVE  pc[d] # "idle" /\ op'[d] = op[d]
<1>1. (UNCHANGED op /\ pc[d] # "idle") \/ End(d)
  BY Zenon DEF Goes, Finishes, ServeKey, RefuseKey, Lose, Stop, PushVault, Does, FinishSetup,
     FinishRestore, FinishBind, SaveLocal, Change, Use, Undo, Restart, GoTo
<1>2. End(d) => pc'[d] = "idle"
  BY DEF End, Begin, TypeInv, Shape, OpsOK
<1> QED
  BY <1>1, <1>2

LEMMA UserStep == TypeInv /\ [Next]_vars => UserInv'
<1> SUFFICES ASSUME TypeInv, [Next]_vars PROVE UserInv'
  OBVIOUS
<1> DEFINE Of(e) ==
      /\ user[e] = None <=> disk[e] = None
      /\ user[e] # None => disk[e].key = user[e].key
      /\ e \in bound => user[e] # None
      /\ pc[e] # "idle" /\ op[e].do \in {"bind", "change"} => user[e] # None /\ op[e].key = user[e].key
      /\ pc[e] # "idle" /\ op[e].do \in {"setup", "restore"} => user[e] = None
<1>0. \A e \in Device : Of(e)
  BY DEF TypeInv, UserInv
<1>1. ASSUME NEW d \in Device,
             \A e \in Device \ {d} : /\ pc'[e] = pc[e] /\ op'[e] = op[e]
                                     /\ user'[e] = user[e] /\ disk'[e] = disk[e]
                                     /\ e \in bound' => e \in bound,
             Of(d)'
      PROVE  UserInv'
  <2>1. \A e \in Device : Of(e)'
    BY <1>0, <1>1
  <2> QED
    BY <2>1 DEF UserInv
<1>2. ASSUME NEW d \in Device, Begins(d) \/ Goes(d) \/ Finishes(d)
      PROVE  \A e \in Device \ {d} : pc'[e] = pc[e] /\ op'[e] = op[e]
  <2>1. Moves(d)
    BY <1>2, BeginsMoves, WorkMoves DEF Begins, Goes, Finishes
  <2> QED
    BY <2>1, MovesType DEF TypeInv, Shape
<1>3. ASSUME NEW d \in Device, Begins(d) \/ Goes(d) PROVE UserInv'
  <2>1. UNCHANGED <<user, disk, bound>>
    BY <1>3 DEF Begins, Goes, device, BeginSetup, Restore, Bind, BeginChange, Listed, ServeKey,
       RefuseKey, Lose, PushVault
  <2>2. pc'[d] # "idle" =>
          /\ op'[d].do \in {"bind", "change"} => user[d] # None /\ op'[d].key = user[d].key
          /\ op'[d].do \in {"setup", "restore"} => user[d] = None
    BY <1>0, <1>3, BeginsAbout, SameAbout
  <2>3. Of(d)'
    BY <1>0, <2>1, <2>2
  <2> QED
    BY <1>1, <1>2, <1>3, <2>1, <2>3
<1>4. ASSUME NEW d \in Device, Finishes(d),
             \A e \in Device \ {d} : user'[e] = user[e] /\ disk'[e] = disk[e] /\ (e \in bound' => e \in bound),
             /\ user'[d] = None <=> disk'[d] = None
             /\ user'[d] # None => disk'[d].key = user'[d].key
             /\ d \in bound' => user'[d] # None,
             user'[d] = user[d] \/ pc'[d] = "idle"
      PROVE  UserInv'
  <2>1. pc'[d] # "idle" => pc[d] # "idle" /\ op'[d] = op[d] /\ user'[d] = user[d]
    BY <1>4, SameAbout
  <2>2. Of(d)'
    BY <1>0, <1>4, <2>1
  <2> QED
    BY <1>1, <1>2, <1>4, <2>2
<1>5. ASSUME NEW d \in Device, End(d) PROVE pc'[d] = "idle"
  BY <1>5 DEF End, Begin, TypeInv, Shape, OpsOK
<1>6. ASSUME NEW d \in Device, pc[d] # "idle"
      PROVE  /\ [key |-> op[d].key, password |-> op[d].password] # None
             /\ [key |-> op[d].key, password |-> op[d].password].key = op[d].key
  BY <1>6, NotNone DEF TypeInv, PlaceInv, Placed, Wrapping
<1>7. /\ user \in [Device -> Wrapping \cup {None}] /\ disk \in [Device -> Wrapping \cup {None}]
      /\ bound \subseteq Device
  BY DEF TypeInv, Shape, UsersOK, MarksOK
<1>8. ASSUME NEW d \in Device, FinishSetup(d) \/ FinishRestore(d) PROVE UserInv'
  <2>1. pc[d] # "idle" /\ End(d)
    BY <1>8 DEF FinishSetup, FinishRestore, Does
  <2>2. /\ user' = [user EXCEPT ![d] = [key |-> op[d].key, password |-> op[d].password]]
        /\ disk' = [disk EXCEPT ![d] = user'[d]]
        /\ bound' = bound \cup {d}
    BY <1>8 DEF FinishSetup, FinishRestore, WithUser, Join
  <2>3. user'[d] = [key |-> op[d].key, password |-> op[d].password] /\ disk'[d] = user'[d]
    BY <1>7, <2>2
  <2>4. \A e \in Device \ {d} : user'[e] = user[e] /\ disk'[e] = disk[e] /\ (e \in bound' => e \in bound)
    BY <1>7, <2>2
  <2> QED
    BY <1>4, <1>5, <1>6, <1>8, <2>1, <2>3, <2>4 DEF Finishes
<1>9. ASSUME NEW d \in Device, SaveLocal(d) \/ Change(d) PROVE UserInv'
  <2>1. pc[d] # "idle" /\ op[d].do = "change"
    BY <1>9 DEF SaveLocal, Change, Does, TypeInv, PlaceInv, Placed
  <2>2. user[d] # None /\ disk[d] # None /\ op[d].key = user[d].key /\ disk[d].key = user[d].key
    BY <1>0, <2>1
  <2>3. NewWrapping(d) # None /\ NewWrapping(d).key = op[d].key
    BY <1>6, <2>1 DEF NewWrapping
  <2>4. disk' \in {disk, [disk EXCEPT ![d] = NewWrapping(d)]} /\ bound' = bound
    BY <1>9 DEF SaveLocal, Change
  <2>5. user' = user \/ (user' = [user EXCEPT ![d] = NewWrapping(d)] /\ End(d))
    BY <1>9, Zenon DEF SaveLocal, Change, Use
  <2>6. \A e \in Device \ {d} : user'[e] = user[e] /\ disk'[e] = disk[e]
    BY <1>7, <2>4, <2>5
  <2>7. /\ user'[d] # None /\ user'[d].key = user[d].key
        /\ disk'[d] # None /\ disk'[d].key = user[d].key
        /\ user'[d] = user[d] \/ End(d)
    BY <1>7, <2>2, <2>3, <2>4, <2>5
  <2> QED
    BY <1>4, <1>5, <1>9, <2>4, <2>6, <2>7 DEF Finishes
<1>10. ASSUME NEW d \in Device, FinishBind(d) \/ Undo(d) \/ Restart(d) PROVE UserInv'
  <2>1. End(d)
    BY <1>10 DEF FinishBind, Undo, Restart
  <2>2. /\ disk' \in {disk, [disk EXCEPT ![d] = user[d]]} /\ user' \in {user, [user EXCEPT ![d] = disk[d]]}
        /\ user' = user \/ disk' = disk
        /\ bound' = bound \/ (bound' = bound \cup {d} /\ FinishBind(d) /\ user' = user)
    BY <1>10 DEF FinishBind, Undo, Restart, Join
  <2>3. FinishBind(d) => user[d] # None
    BY <1>0 DEF FinishBind, Does, TypeInv, PlaceInv, Placed
  <2>4. \A e \in Device \ {d} : user'[e] = user[e] /\ disk'[e] = disk[e] /\ (e \in bound' => e \in bound)
    BY <1>7, <2>2
  <2>5. /\ user'[d] = None <=> disk'[d] = None
        /\ user'[d] # None => disk'[d].key = user'[d].key
        /\ d \in bound' => user'[d] # None
    BY <1>0, <1>7, <2>2, <2>3
  <2> QED
    BY <1>4, <1>5, <1>10, <2>1, <2>4, <2>5 DEF Finishes
<1>11. ASSUME NEW d \in Device, Unbind(d) \/ Push(d) \/ Persist(d) PROVE UserInv'
  <2>1. UNCHANGED <<user, op, pc>> /\ bound' \subseteq bound /\ disk' \in {disk, [disk EXCEPT ![d] = user[d]]}
    BY <1>11 DEF Unbind, Push, Persist, device
  <2>2. Of(d)'
    BY <1>0, <1>7, <2>1
  <2> QED
    BY <1>1, <1>7, <2>1, <2>2
<1>12. CASE UNCHANGED <<user, disk, bound, op, pc>>
  BY <1>0, <1>12 DEF UserInv
<1>13. ASSUME NEW u \in strays, ServeStray(u) PROVE UNCHANGED <<user, disk, bound, op, pc>>
  BY <1>13 DEF ServeStray, device
<1>14. UNCHANGED vars => UNCHANGED <<user, disk, bound, op, pc>>
  BY DEF vars, device
<1> QED
  BY <1>3, <1>8, <1>9, <1>10, <1>11, <1>12, <1>13, <1>14, Steps DEF Finishes

LEMMA TypeStep == TypeInv /\ [Next]_vars => TypeInv'
BY ServerStep, UsersStep, OpsStep, CountsStep, MarksStep, UserStep DEF TypeInv, Shape

LEMMA Types == Spec => []TypeInv
BY InitTypes, TypeStep, PTL DEF Spec

(* Records, users and what is under way keep their shape.                   *)
THEOREM Typing == Spec => []TypeOK
<1>1. TypeInv => TypeOK
  <2> SUFFICES ASSUME TypeInv PROVE TypeOK
    OBVIOUS
  <2>1. \A d \in Device : pc[d] = "idle" <=> op[d] = NoOp
    BY DEF TypeInv, PlaceInv, Placed, NoOp
  <2>2. \A d \in Device : d \in bound => user[d] # None /\ disk[d] # None
    BY DEF TypeInv, UserInv
  <2> QED
    BY <2>1, <2>2 DEF TypeOK, TypeInv, Shape, ServerOK, UsersOK, OpsOK, CountsOK, MarksOK, Row,
       OpType, Place
<1> QED
  BY <1>1, Types, PTL

-----------------------------------------------------------------------------
(* Keys                                                                     *)
Has(k) == Active(k) # {}

(* Whatever is going to need a record in force has one.                     *)
KeyInv ==
  /\ \A k \in Key : \A i, j \in Active(k) : i = j
  /\ \A k \in sealed : Has(k)
  /\ \A d \in bound : Has(user[d].key)
  /\ \A d \in Device : pc[d] \in {"keyed", "pushed", "restored"} => Has(op[d].key)
  /\ \A u \in strays : Fits(u)
  /\ \A d \in Device : Fits(op[d])

(* After an upload                                                          *)
LEMMA CreateKeeps ==
  ASSUME TypeInv, KeyInv, NEW u \in UploadType, CreateKey(u), Fits(u), UNCHANGED sealed, UNCHANGED device,
         strays' \subseteq strays, UNCHANGED op,
         \A d \in Device : pc'[d] # pc[d] => op[d].key = u.key
  PROVE  KeyInv'
<1>1. /\ \A k : k # u.key => Active(k)' = Active(k)
      /\ Active(u.key)' = {Len(keys) + 1}
  BY ActiveAfter DEF TypeInv, Shape, ServerOK
<1>2. \A k : Has(k) => Has(k)'
  BY <1>1 DEF Has
<1>3. Has(u.key)'
  BY <1>1 DEF Has
<1>4. \A i \in DOMAIN keys : i \in DOMAIN keys' /\ keys'[i].key = keys[i].key
  BY AfterCreate DEF TypeInv, Shape, ServerOK
<1>5. \A k \in Key : \A i, j \in Active(k)' : i = j
  BY <1>1 DEF KeyInv
<1>6. \A v \in strays' : Fits(v)'
  BY <1>4 DEF KeyInv, Fits
<1>7. \A d \in Device : Fits(op[d])'
  BY <1>4 DEF KeyInv, Fits
<1>8. \A k \in sealed' : Has(k)'
  BY <1>2 DEF KeyInv
<1>9. \A d \in bound' : Has(user[d].key)'
  <2>1. bound' = bound /\ user' = user
    BY DEF device
  <2>2. \A d \in bound : Has(user[d].key)
    BY DEF KeyInv
  <2> QED
    BY <1>1, <2>1, <2>2 DEF Has
<1>10. \A d \in Device : pc'[d] \in {"keyed", "pushed", "restored"} => Has(op[d].key)'
  <2>1. \A d \in Device : pc[d] \in {"keyed", "pushed", "restored"} => Has(op[d].key)
    BY DEF KeyInv
  <2> QED
    BY <1>1, <2>1 DEF Has
<1> QED
  BY <1>5, <1>6, <1>7, <1>8, <1>9, <1>10 DEF KeyInv

LEMMA OpFits ==
  ASSUME TypeInv, KeyInv, NEW d \in Device, Begins(d) \/ Goes(d) \/ Finishes(d), UNCHANGED keys
  PROVE  \A e \in Device : Fits(op[e])'
<1>0. op \in [Device -> OpType] /\ \A e \in Device : Fits(op[e])
  BY DEF TypeInv, Shape, OpsOK, KeyInv
<1>1. \A e \in Device \ {d} : op'[e] = op[e]
  <2>1. Moves(d)
    BY BeginsMoves, WorkMoves DEF Begins, Goes, Finishes
  <2> QED
    BY <2>1, MovesType DEF TypeInv, Shape
<1>2. op'[d] = op[d] \/ op'[d].replaces = 0 \/
        (op'[d].key = op[d].key /\ op'[d].replaces \in Active(op[d].key))
  <2>1. CASE End(d)
    BY <1>0, <2>1 DEF End, Begin, NoOp
  <2>2. CASE UNCHANGED op
    BY <2>2
  <2>3. CASE BeginSetup(d)
    BY <1>0, <2>3 DEF BeginSetup, Begin, NoOp
  <2>4. CASE Restore(d)
    BY <1>0, <2>4 DEF Restore, Begin, NoOp
  <2>5. CASE Bind(d)
    BY <1>0, <2>5 DEF Bind, Begin, NoOp
  <2>6. CASE BeginChange(d)
    BY <1>0, <2>6 DEF BeginChange, Begin, NoOp
  <2>7. CASE Listed(d) /\ ~End(d)
    <3>1. PICK i \in Active(op[d].key) :
            Begin(d, "saving", [op[d] EXCEPT !.replaces = i, !.found = \A u \in strays : u.by # d])
      BY <2>7 DEF Listed
    <3>2. op'[d] = [op[d] EXCEPT !.replaces = i, !.found = \A u \in strays : u.by # d]
      BY <1>0, <3>1 DEF Begin
    <3>3. op'[d].key = op[d].key /\ op'[d].replaces = i
      BY <1>0, <3>2 DEF OpType
    <3> QED
      BY <3>3
  <2>8. Goes(d) \/ Finishes(d) => UNCHANGED op \/ End(d)
    BY Zenon DEF Goes, Finishes, ServeKey, RefuseKey, Lose, Stop, PushVault, FinishSetup,
       FinishRestore, FinishBind, SaveLocal, Change, Use, Undo, Restart, GoTo
  <2> QED
    BY <2>1, <2>2, <2>3, <2>4, <2>5, <2>6, <2>7, <2>8 DEF Begins
<1> QED
  BY <1>0, <1>1, <1>2 DEF Fits, Active

(* Without an upload                                                        *)
LEMMA OthersKeep ==
  ASSUME TypeInv, KeyInv, UNCHANGED keys,
         \A k \in sealed' : Has(k),
         \A d \in bound' : Has(user'[d].key),
         \A d \in Device : pc'[d] \in {"keyed", "pushed", "restored"} => Has(op'[d].key),
         \A u \in strays' : Fits(u),
         \A d \in Device : Fits(op[d])'
  PROVE  KeyInv'
<1>1. \A k : Active(k)' = Active(k)
  BY DEF Active
<1> QED
  BY <1>1 DEF KeyInv, Has, Fits

LEMMA KeyStep == TypeInv /\ KeyInv /\ [Next]_vars => KeyInv'
<1> SUFFICES ASSUME TypeInv, KeyInv, [Next]_vars PROVE KeyInv'
  OBVIOUS
<1>0. /\ \A k \in sealed : Has(k)
      /\ \A d \in bound : Has(user[d].key)
      /\ \A d \in Device : pc[d] \in {"keyed", "pushed", "restored"} => Has(op[d].key)
      /\ \A u \in strays : Fits(u)
      /\ \A d \in Device : Fits(op[d])
      /\ pc \in [Device -> Place] /\ op \in [Device -> OpType]
      /\ user \in [Device -> Wrapping \cup {None}] /\ bound \subseteq Device
  BY DEF KeyInv, TypeInv, Shape, OpsOK, UsersOK, MarksOK
<1>1. ASSUME NEW d \in Device, ServeKey(d) PROVE KeyInv'
  <2>1. Upload(d) \in UploadType /\ Upload(d).key = op[d].key /\ Upload(d).replaces = op[d].replaces
    BY <1>1, UploadTyped DEF ServeKey, TypeInv, Shape
  <2>2. Fits(Upload(d))
    BY <1>0, <2>1 DEF Fits
  <2>3. CreateKey(Upload(d)) /\ UNCHANGED <<sealed, device, strays, op>>
    BY <1>1 DEF ServeKey, GoTo
  <2>4. \A e \in Device : pc'[e] # pc[e] => op[e].key = Upload(d).key
    BY <1>0, <1>1, <2>1 DEF ServeKey, GoTo
  <2> QED
    BY <2>1, <2>2, <2>3, <2>4, CreateKeeps
<1>2. ASSUME NEW u \in strays, ServeStray(u) PROVE KeyInv'
  <2>1. u \in UploadType /\ Fits(u)
    BY <1>0 DEF TypeInv, Shape, ServerOK
  <2>2. CreateKey(u) /\ UNCHANGED <<sealed, device, op, pc>> /\ strays' \subseteq strays
    BY <1>2 DEF ServeStray
  <2> QED
    BY <2>1, <2>2, CreateKeeps
<1>3. ASSUME NEW d \in Device, Begins(d) \/ Finishes(d) \/ RefuseKey(d) \/ Lose(d) \/ PushVault(d)
      PROVE  KeyInv'
  <2>1. UNCHANGED keys
    BY <1>3 DEF Begins, Finishes, server, BeginSetup, Restore, Bind, BeginChange, Listed, FinishSetup,
       FinishRestore, FinishBind, SaveLocal, Change, Undo, Restart, RefuseKey, Lose, PushVault
  <2>2. \A e \in Device : Fits(op[e])'
    BY <1>3, <2>1, OpFits DEF Goes
  <2>3. \A k \in sealed' : Has(k)
    <3>1. sealed' = sealed \/ (sealed' = sealed \cup {op[d].key} /\ pc[d] = "keyed")
      BY <1>3 DEF Begins, Finishes, server, BeginSetup, Restore, Bind, BeginChange, Listed, FinishSetup,
         FinishRestore, FinishBind, SaveLocal, Change, Undo, Restart, RefuseKey, Lose, PushVault, Does
    <3> QED
      BY <1>0, <3>1
  <2>4. \A u \in strays' : Fits(u)
    <3>1. strays' = strays \/ (pc[d] = "keying" /\ strays' = strays \cup {Upload(d)})
      BY <1>3 DEF Begins, Finishes, server, BeginSetup, Restore, Bind, BeginChange, Listed, FinishSetup,
         FinishRestore, FinishBind, SaveLocal, Change, Undo, Restart, RefuseKey, Lose, PushVault
    <3>2. pc[d] = "keying" => Fits(Upload(d))
      BY <1>0, UploadTyped DEF TypeInv, Shape, Fits
    <3> QED
      BY <1>0, <3>1, <3>2
  <2>5. \A e \in Device : pc'[e] \in {"keyed", "pushed", "restored"} => Has(op'[e].key)
    <3>1. \A e \in Device \ {d} : pc'[e] = pc[e] /\ op'[e] = op[e]
      <4>1. Moves(d)
        BY <1>3, BeginsMoves, WorkMoves DEF Begins, Finishes
      <4> QED
        BY <4>1, MovesType DEF TypeInv, Shape
    <3>2. CASE PushVault(d)
      BY <1>0, <3>1, <3>2 DEF PushVault, Does, GoTo
    <3>3. CASE Restore(d)
      <4>1. PICK k \in Key : Has(k) /\ \E p : Begin(d, "restored",
              [NoOp EXCEPT !.do = "restore", !.key = k, !.password = p, !.found = sealed # {}])
        BY <3>3 DEF Restore, Has
      <4>2. op'[d].key = k
        BY <1>0, <4>1 DEF Begin, NoOp
      <4> QED
        BY <1>0, <3>1, <4>1, <4>2
    <3>4. CASE ~PushVault(d) /\ ~Restore(d)
      <4>1. pc'[d] \notin {"keyed", "pushed", "restored"}
        BY <1>0, <1>3, <3>4 DEF Begins, Finishes, BeginSetup, Bind, BeginChange, Listed, FinishSetup,
           FinishRestore, FinishBind, SaveLocal, Change, Use, Undo, Restart, RefuseKey, Lose, Stop,
           GoTo, Begin, End
      <4> QED
        BY <1>0, <3>1, <4>1
    <3> QED
      BY <3>2, <3>3, <3>4
  <2>6. \A e \in bound' : Has(user'[e].key)
    <3>1. CASE FinishSetup(d) \/ FinishRestore(d)
      <4>1. Has(op[d].key)
        BY <1>0, <3>1 DEF FinishSetup, FinishRestore, Does
      <4>2. /\ user' = [user EXCEPT ![d] = [key |-> op[d].key, password |-> op[d].password]]
            /\ bound' = bound \cup {d}
        BY <3>1 DEF FinishSetup, FinishRestore, WithUser, Join
      <4>3. user'[d].key = op[d].key /\ \A e \in Device \ {d} : user'[e] = user[e]
        BY <1>0, <4>2
      <4> QED
        BY <1>0, <4>1, <4>2, <4>3
    <3>2. CASE SaveLocal(d) \/ Change(d)
      <4>1. op[d].key = user[d].key
        BY <3>2 DEF SaveLocal, Change, Does, TypeInv, PlaceInv, Placed, UserInv
      <4>2. user' \in {user, [user EXCEPT ![d] = NewWrapping(d)]} /\ bound' = bound
        BY <3>2, Zenon DEF SaveLocal, Change, Use
      <4>3. \A e \in bound : user'[e].key = user[e].key
        BY <1>0, <4>1, <4>2 DEF NewWrapping
      <4> QED
        BY <1>0, <4>2, <4>3
    <3>3. CASE FinishBind(d)
      <4>1. op[d].key = user[d].key /\ pc[d] = "keyed"
        BY <3>3 DEF FinishBind, Does, TypeInv, UserInv
      <4>2. user' = user /\ bound' = bound \cup {d}
        BY <3>3 DEF FinishBind, Join
      <4> QED
        BY <1>0, <4>1, <4>2
    <3>4. CASE Restart(d)
      <4>1. user' = [user EXCEPT ![d] = disk[d]] /\ bound' = bound
        BY <3>4 DEF Restart
      <4>2. \A e \in bound : user'[e].key = user[e].key
        BY <1>0, <4>1 DEF TypeInv, UserInv
      <4> QED
        BY <1>0, <4>1, <4>2
    <3>5. CASE UNCHANGED <<user, bound>>
      BY <1>0, <3>5
    <3>6. Begins(d) \/ Undo(d) \/ RefuseKey(d) \/ Lose(d) \/ PushVault(d) => UNCHANGED <<user, bound>>
      BY DEF Begins, device, BeginSetup, Restore, Bind, BeginChange, Listed, Undo, RefuseKey, Lose,
         PushVault
    <3> QED
      BY <1>3, <3>1, <3>2, <3>3, <3>4, <3>5, <3>6 DEF Finishes
  <2> QED
    BY <2>1, <2>2, <2>3, <2>4, <2>5, <2>6, OthersKeep
<1>4. ASSUME NEW d \in Device, Unbind(d) \/ Push(d) \/ Persist(d) PROVE KeyInv'
  <2>1. UNCHANGED <<keys, strays, user, op, pc>> /\ bound' \subseteq bound
    BY <1>4 DEF Unbind, Push, Persist, server, device
  <2>2. \A k \in sealed' : Has(k)
    BY <1>0, <1>4 DEF Unbind, Push, Persist, server
  <2>3. \A e \in Device : Fits(op[e])'
    BY <1>0, <2>1 DEF Fits
  <2>4. /\ \A e \in bound' : Has(user'[e].key)
        /\ \A e \in Device : pc'[e] \in {"keyed", "pushed", "restored"} => Has(op'[e].key)
        /\ \A u \in strays' : Fits(u)
    BY <1>0, <2>1
  <2> QED
    BY <2>1, <2>2, <2>3, <2>4, OthersKeep
<1>5. CASE UNCHANGED vars
  BY <1>5 DEF vars, server, device, KeyInv, Has, Active, Fits
<1> QED
  BY <1>1, <1>2, <1>3, <1>4, <1>5, Steps DEF Goes

(* The key of every object on the server and of every bound device has      *)
(* exactly one wrapped key in force, for any number of devices.             *)
THEOREM KeysKept == Spec => []EverythingHasItsKey
<1>1. Init => KeyInv
  BY DEF Init, KeyInv, Active, Fits, NoOp
<1>2. TypeInv /\ KeyInv => EverythingHasItsKey
  <2> SUFFICES ASSUME TypeInv, KeyInv, NEW k \in sealed \cup {user[d].key : d \in bound}
               PROVE  Cardinality(Active(k)) = 1
    BY DEF EverythingHasItsKey
  <2>1. k \in Key
    BY DEF TypeInv, UserInv, Shape, ServerOK, UsersOK, MarksOK, Wrapping
  <2>2. PICK i : i \in Active(k)
    BY DEF KeyInv, Has
  <2>3. Active(k) = {i}
    BY <2>1, <2>2 DEF KeyInv
  <2> QED
    BY <2>3, FS_Singleton
<1> QED
  BY <1>1, <1>2, InitTypes, TypeStep, KeyStep, PTL DEF Spec

-----------------------------------------------------------------------------
(* The key a device has, or is going to have, because it found the objects: *)
(* there is at most one, and objects are encrypted with it.                 *)
Found(d) == pc[d] # "idle" /\ op[d].do \in {"bind", "restore"} /\ op[d].found
Claims == {user[d].key : d \in joined} \cup {op[d].key : d \in {e \in Device : Found(e)}}
ShareInv == Claims \subseteq sealed /\ \A k, l \in Claims : k = l

(* Who looks at the snapshot finds objects of one key, or none.             *)
LEMMA Looks ==
  ASSUME TypeInv, NEW d \in Device, Begins(d), Found(d)'
  PROVE  sealed = {op'[d].key}
<1>0. op \in [Device -> OpType]
  BY DEF TypeInv, Shape, OpsOK
<1>1. CASE Restore(d)
  <2>1. PICK k \in Key : Opens(k) /\ \E p : Begin(d, "restored",
          [NoOp EXCEPT !.do = "restore", !.key = k, !.password = p, !.found = sealed # {}])
    BY <1>1 DEF Restore
  <2>2. op'[d].key = k /\ op'[d].found = (sealed # {})
    BY <1>0, <2>1 DEF Begin, NoOp
  <2> QED
    BY <2>1, <2>2 DEF Found, Opens
<1>2. CASE Bind(d)
  <2>1. op'[d].key = user[d].key /\ op'[d].found = (sealed # {})
    BY <1>0, <1>2 DEF Bind, Begin, NoOp
  <2> QED
    BY <1>2, <2>1 DEF Bind, Found, Opens
<1>3. CASE BeginSetup(d) \/ BeginChange(d)
  <2>1. op'[d].do \in {"setup", "change"}
    BY <1>0, <1>3 DEF BeginSetup, BeginChange, Begin, NoOp
  <2> QED
    BY <2>1 DEF Found
<1>4. CASE Listed(d)
  <2>1. op[d].do = "change" /\ pc[d] # "idle"
    BY <1>4 DEF Listed, TypeInv, PlaceInv, Placed
  <2>2. op'[d].do = "change" \/ op'[d] = NoOp
    <3>1. CASE End(d)
      BY <1>0, <3>1 DEF End, Begin
    <3>2. CASE ~End(d)
      <4>1. PICK i \in Active(op[d].key) :
              Begin(d, "saving", [op[d] EXCEPT !.replaces = i, !.found = \A u \in strays : u.by # d])
        BY <1>4, <3>2 DEF Listed
      <4>2. op'[d] = [op[d] EXCEPT !.replaces = i, !.found = \A u \in strays : u.by # d]
        BY <1>0, <4>1 DEF Begin
      <4> QED
        BY <1>0, <2>1, <4>2 DEF OpType
    <3> QED
      BY <3>1, <3>2
  <2> QED
    BY <2>2 DEF Found, NoOp
<1> QED
  BY <1>1, <1>2, <1>3, <1>4 DEF Begins

LEMMA ShareStep == TypeInv /\ ShareInv /\ [Next]_vars => ShareInv'
<1> SUFFICES ASSUME TypeInv, ShareInv, [Next]_vars PROVE ShareInv'
  OBVIOUS
<1>0. /\ op \in [Device -> OpType] /\ pc \in [Device -> Place]
      /\ user \in [Device -> Wrapping \cup {None}] /\ bound \subseteq Device /\ joined \subseteq bound
      /\ \A e \in joined : user[e] # None
  BY DEF TypeInv, Shape, OpsOK, UsersOK, MarksOK, UserInv
<1>1. ASSUME sealed \subseteq sealed', Claims' \subseteq Claims PROVE ShareInv'
  BY <1>1 DEF ShareInv
<1>2. ASSUME NEW k, sealed = {k}, sealed' = sealed, Claims' \subseteq Claims \cup {k} PROVE ShareInv'
  BY <1>2 DEF ShareInv
<1>3. ASSUME NEW d \in Device, Begins(d) PROVE ShareInv'
  <2>1. UNCHANGED <<user, joined, sealed>>
    BY <1>3 DEF Begins, server, device, auxiliary, BeginSetup, Restore, Bind, BeginChange, Listed
  <2>2. \A e \in Device \ {d} : Found(e)' = Found(e) /\ op'[e] = op[e]
    <3>1. Moves(d)
      BY <1>3, BeginsMoves DEF Begins
    <3>2. \A e \in Device \ {d} : pc'[e] = pc[e] /\ op'[e] = op[e]
      BY <3>1, MovesType DEF TypeInv, Shape
    <3> QED
      BY <3>2 DEF Found
  <2>3. CASE Found(d)'
    <3>1. sealed = {op'[d].key}
      BY <1>3, <2>3, Looks
    <3>2. Claims' \subseteq Claims \cup {op'[d].key}
      BY <2>1, <2>2 DEF Claims
    <3> QED
      BY <1>2, <2>1, <3>1, <3>2
  <2>4. CASE ~Found(d)'
    <3>1. Claims' \subseteq Claims
      BY <2>1, <2>2, <2>4 DEF Claims
    <3> QED
      BY <1>1, <2>1, <3>1
  <2> QED
    BY <2>3, <2>4
<1>4. ASSUME NEW d \in Device, Goes(d) \/ Finishes(d) PROVE ShareInv'
  <2>1. sealed \subseteq sealed'
    BY <1>4 DEF Goes, Finishes, server, ServeKey, RefuseKey, Lose, PushVault, FinishSetup, FinishRestore,
       FinishBind, SaveLocal, Change, Undo, Restart
  <2>2. \A e \in Device : Found(e)' => Found(e) /\ op'[e] = op[e]
    <3>1. Moves(d)
      BY <1>4, WorkMoves DEF Goes, Finishes
    <3>2. \A e \in Device \ {d} : pc'[e] = pc[e] /\ op'[e] = op[e]
      BY <3>1, MovesType DEF TypeInv, Shape
    <3>3. pc'[d] # "idle" => pc[d] # "idle" /\ op'[d] = op[d]
      BY <1>4, SameAbout
    <3> QED
      BY <3>2, <3>3 DEF Found
  <2>3. \A e \in joined' : e \in joined \/ (e = d /\ Found(d) /\ user'[d].key = op[d].key)
    <3>1. CASE FinishRestore(d)
      <4>1. op[d].do = "restore" /\ pc[d] = "restored"
        BY <3>1 DEF FinishRestore, TypeInv, PlaceInv, Placed
      <4>2. user'[d] = [key |-> op[d].key, password |-> op[d].password]
        BY <1>0, <3>1 DEF FinishRestore, WithUser
      <4>3. joined' = IF op[d].found THEN joined \cup {d} ELSE joined
        BY <3>1 DEF FinishRestore, Join
      <4> QED
        BY <4>1, <4>2, <4>3 DEF Found
    <3>2. CASE FinishBind(d)
      <4>1. op[d].do = "bind" /\ pc[d] = "keyed" /\ op[d].key = user[d].key /\ user' = user
        BY <3>2 DEF FinishBind, Does, TypeInv, UserInv
      <4>2. joined' = IF op[d].found THEN joined \cup {d} ELSE joined
        BY <3>2 DEF FinishBind, Join
      <4> QED
        BY <4>1, <4>2 DEF Found
    <3>3. CASE ~FinishRestore(d) /\ ~FinishBind(d)
      <4>1. joined' = joined
        BY <1>4, <3>3 DEF Goes, Finishes, auxiliary, ServeKey, RefuseKey, Lose, PushVault, FinishSetup,
           SaveLocal, Change, Undo, Restart
      <4> QED
        BY <4>1
    <3> QED
      BY <3>1, <3>2, <3>3
  <2>4. \A e \in joined : user'[e].key = user[e].key
    <3>1. CASE FinishSetup(d) \/ FinishRestore(d)
      <4>1. user[d] = None
        BY <3>1 DEF FinishSetup, FinishRestore, Does, TypeInv, PlaceInv, Placed, UserInv
      <4>2. \A e \in Device \ {d} : user'[e] = user[e]
        BY <1>0, <3>1 DEF FinishSetup, FinishRestore, WithUser
      <4> QED
        BY <1>0, <4>1, <4>2
    <3>2. CASE SaveLocal(d) \/ Change(d)
      <4>1. op[d].key = user[d].key
        BY <3>2 DEF SaveLocal, Change, Does, TypeInv, PlaceInv, Placed, UserInv
      <4>2. user' \in {user, [user EXCEPT ![d] = NewWrapping(d)]}
        BY <3>2, Zenon DEF SaveLocal, Change, Use
      <4> QED
        BY <1>0, <4>1, <4>2 DEF NewWrapping
    <3>3. CASE Restart(d)
      <4>1. user' = [user EXCEPT ![d] = disk[d]]
        BY <3>3 DEF Restart
      <4> QED
        BY <1>0, <4>1 DEF TypeInv, UserInv
    <3>4. Goes(d) \/ FinishBind(d) \/ Undo(d) => UNCHANGED user
      BY DEF Goes, device, ServeKey, RefuseKey, Lose, PushVault, FinishBind, Undo
    <3> QED
      BY <1>4, <3>1, <3>2, <3>3, <3>4 DEF Finishes
  <2>5. Claims' \subseteq Claims
    BY <2>2, <2>3, <2>4 DEF Claims
  <2> QED
    BY <1>1, <2>1, <2>5
<1>5. ASSUME NEW d \in Device, Unbind(d) \/ Push(d) \/ Persist(d) PROVE ShareInv'
  <2>1. UNCHANGED <<user, op, pc>> /\ joined' \subseteq joined /\ sealed \subseteq sealed'
    BY <1>5 DEF Unbind, Push, Persist, server, device, auxiliary
  <2>2. Claims' \subseteq Claims
    BY <2>1 DEF Claims, Found
  <2> QED
    BY <1>1, <2>1, <2>2
<1>6. ASSUME UNCHANGED <<user, op, pc, joined, sealed>> PROVE ShareInv'
  BY <1>1, <1>6 DEF Claims, Found
<1>7. ASSUME NEW u \in strays, ServeStray(u) PROVE ShareInv'
  BY <1>6, <1>7 DEF ServeStray, device, auxiliary
<1>8. CASE UNCHANGED vars
  BY <1>6, <1>8 DEF vars, server, device, auxiliary
<1> QED
  BY <1>3, <1>4, <1>5, <1>7, <1>8, Steps

(* Devices that found objects when they joined the account use one key.     *)
THEOREM KeyShared == Spec => []DevicesShareKey
<1>1. Init => ShareInv
  BY DEF Init, ShareInv, Claims, Found
<1>2. ShareInv => DevicesShareKey
  BY DEF ShareInv, Claims, DevicesShareKey
<1> QED
  BY <1>1, <1>2, InitTypes, TypeStep, ShareStep, PTL DEF Spec

-----------------------------------------------------------------------------
(* The records in force that this device put on the server open with p.     *)
Mine(d, k, p) ==
  \A i \in DOMAIN keys :
    keys[i].key = k /\ ~keys[i].revoked /\ keys[i].by = d => keys[i].password = p

Changing(d, where) == op[d].do = "change" /\ pc[d] \in where

(* A change that is going to put the device in order whatever came before.  *)
Sure(d) == op[d].found /\ Changing(d, {"saving", "keying", "keyed"})

InOrder(d) ==
  /\ pc[d] \in {"keyed", "pushed", "restored"} => Mine(d, op[d].key, op[d].password)
  /\ d \in bound /\ ~Changing(d, {"keyed"}) => Mine(d, user[d].key, told[d])
  /\ user[d] # None => user[d].password = told[d]
  /\ op[d].do = "bind" => op[d].password = user[d].password
  /\ Changing(d, {"keying", "keyed"}) => disk[d] = NewWrapping(d)
  /\ ~Changing(d, {"keying", "keyed", "undoing"}) => disk[d] = user[d]

(* An upload nobody waits for comes from a device where a change was cut off*)
(* and is not yet put right.                                                *)
Agrees(d) ==
  /\ d \notin cut => InOrder(d)
  /\ (\E u \in strays : u.by = d) => d \in cut /\ ~Sure(d)
  /\ Sure(d) /\ pc[d] = "keyed" => Mine(d, op[d].key, op[d].password)

AgreeInv == \A d \in Device : Agrees(d)

(* After an upload a record in force is the new one, or of another key.     *)
LEMMA InForce ==
  ASSUME keys \in Seq(Row), NEW u \in UploadType, CreateKey(u),
         NEW i \in DOMAIN keys', ~keys'[i].revoked
  PROVE  \/ keys'[i].key = u.key /\ keys'[i].by = u.by /\ keys'[i].password = u.password
         \/ /\ i \in DOMAIN keys /\ ~keys[i].revoked /\ keys'[i].key # u.key
            /\ keys'[i].key = keys[i].key /\ keys'[i].by = keys[i].by
            /\ keys'[i].password = keys[i].password
<1>1. i \in DOMAIN keys \/ i = Len(keys) + 1
  BY AfterCreate
<1>2. CASE i = Len(keys) + 1
  BY <1>2, AfterCreate
<1>3. CASE i \in DOMAIN keys
  BY <1>3, AfterCreate DEF Replaced
<1> QED
  BY <1>1, <1>2, <1>3

(* No record of this device comes into force.                               *)
NothingNew(d) ==
  \A i \in DOMAIN keys' :
    ~keys'[i].revoked /\ keys'[i].by = d =>
      /\ i \in DOMAIN keys /\ ~keys[i].revoked /\ keys[i].by = d
      /\ keys'[i].key = keys[i].key /\ keys'[i].password = keys[i].password

(* What others do leaves a device in order.                                 *)
LEMMA Elsewhere ==
  ASSUME NEW d \in Device, Agrees(d), NothingNew(d),
         op'[d] = op[d], pc'[d] = pc[d], user'[d] = user[d], disk'[d] = disk[d], told'[d] = told[d],
         d \in bound' <=> d \in bound, d \in cut' <=> d \in cut,
         \A u \in strays' : u.by = d => u \in strays
  PROVE  Agrees(d)'
<1>1. Mine(d, op[d].key, op[d].password) => Mine(d, op[d].key, op[d].password)'
  BY DEF NothingNew, Mine
<1>2. Mine(d, user[d].key, told[d]) => Mine(d, user[d].key, told[d])'
  BY DEF NothingNew, Mine
<1>3. /\ \A where : Changing(d, where)' <=> Changing(d, where)
      /\ Sure(d)' <=> Sure(d)
      /\ NewWrapping(d)' = NewWrapping(d)
  BY DEF Changing, Sure, NewWrapping
<1> QED
  BY <1>1, <1>2, <1>3 DEF Agrees, InOrder

(* A step of one device says nothing of the others.                         *)
SameFor(e) ==
  /\ op'[e] = op[e] /\ pc'[e] = pc[e] /\ user'[e] = user[e] /\ disk'[e] = disk[e] /\ told'[e] = told[e]
  /\ e \in bound' <=> e \in bound
  /\ e \in cut' <=> e \in cut
  /\ \A u \in strays' : u.by = e => u \in strays

LEMMA OneDevice ==
  ASSUME TypeInv, NEW d \in Device,
         Begins(d) \/ Goes(d) \/ Finishes(d) \/ Unbind(d) \/ Push(d) \/ Persist(d)
  PROVE  \A e \in Device \ {d} : SameFor(e)
<1>0. /\ user \in [Device -> Wrapping \cup {None}] /\ disk \in [Device -> Wrapping \cup {None}]
      /\ told \in [Device -> Password \cup {0}]
  BY DEF TypeInv, Shape, UsersOK, MarksOK
<1>1. \A e \in Device \ {d} : pc'[e] = pc[e] /\ op'[e] = op[e]
  <2>1. CASE Begins(d) \/ Goes(d) \/ Finishes(d)
    <3>1. Moves(d)
      BY <2>1, BeginsMoves, WorkMoves DEF Begins, Goes, Finishes
    <3> QED
      BY <3>1, MovesType DEF TypeInv, Shape
  <2>2. CASE Unbind(d) \/ Push(d) \/ Persist(d)
    BY <2>2 DEF Unbind, Push, Persist
  <2> QED
    BY <2>1, <2>2
<1>2. /\ user' = user \/ \E w : user' = [user EXCEPT ![d] = w]
      /\ disk' = disk \/ \E w : disk' = [disk EXCEPT ![d] = w]
      /\ told' = told \/ \E p : told' = [told EXCEPT ![d] = p]
  BY Zenon DEF Begins, Goes, Finishes, server, device, auxiliary, BeginSetup, Restore, Bind, BeginChange,
     Listed, ServeKey, RefuseKey, Lose, PushVault, FinishSetup, FinishRestore, WithUser, FinishBind,
     SaveLocal, Use, Change, Undo, Restart, Unbind, Push, Persist
<1>3. \A e \in Device \ {d} : user'[e] = user[e] /\ disk'[e] = disk[e] /\ told'[e] = told[e]
  BY <1>0, <1>2
<1>4. /\ bound' \in {bound, bound \cup {d}, bound \ {d}}
      /\ cut' \in {cut, cut \cup {d}, cut \ {d}}
  BY DEF Begins, Goes, Finishes, server, device, auxiliary, BeginSetup, Restore, Bind, BeginChange,
     Listed, ServeKey, RefuseKey, Lose, PushVault, FinishSetup, FinishRestore, FinishBind, Join,
     SaveLocal, Change, Settled, Undo, Restart, Unbind, Push, Persist
<1>5. \A u \in strays' : u \in strays \/ u.by = d
  <2>1. strays' = strays \/ strays' = strays \cup {Upload(d)}
    BY DEF Begins, Goes, Finishes, server, BeginSetup, Restore, Bind, BeginChange, Listed, ServeKey,
       RefuseKey, Lose, PushVault, FinishSetup, FinishRestore, FinishBind, SaveLocal, Change, Undo,
       Restart, Unbind, Push, Persist
  <2>2. Upload(d).by = d
    BY DEF Upload
  <2> QED
    BY <2>1, <2>2
<1> QED
  BY <1>1, <1>3, <1>4, <1>5 DEF SameFor

(* So only the device that takes the step is left to look at.               *)
LEMMA OthersAgree ==
  ASSUME TypeInv, AgreeInv, NEW d \in Device,
         Begins(d) \/ Goes(d) \/ Finishes(d) \/ Unbind(d) \/ Push(d) \/ Persist(d),
         Agrees(d)'
  PROVE  AgreeInv'
<1>1. ASSUME NEW e \in Device \ {d} PROVE NothingNew(e)
  <2>1. CASE ServeKey(d)
    <3>1. Upload(d) \in UploadType /\ Upload(d).by = d /\ CreateKey(Upload(d))
      BY <2>1, UploadTyped DEF ServeKey, TypeInv, Shape
    <3> QED
      BY <3>1, InForce DEF NothingNew, TypeInv, Shape, ServerOK
  <2>2. CASE keys' = keys
    BY <2>2 DEF NothingNew
  <2>3. ServeKey(d) \/ keys' = keys
    BY DEF Begins, Goes, Finishes, server, BeginSetup, Restore, Bind, BeginChange, Listed,
       RefuseKey, Lose, PushVault, FinishSetup, FinishRestore, FinishBind, SaveLocal, Change, Undo,
       Restart, Unbind, Push, Persist
  <2> QED
    BY <2>1, <2>2, <2>3
<1>2. ASSUME NEW e \in Device \ {d} PROVE Agrees(e)'
  BY <1>1, OneDevice, Elsewhere DEF SameFor, AgreeInv
<1> QED
  BY <1>2 DEF AgreeInv

(* The record a device puts on the server is one it agrees with.            *)
LEMMA ServedAgrees ==
  ASSUME TypeInv, AgreeInv, NEW d \in Device, ServeKey(d)
  PROVE  Agrees(d)'
<1>0. Agrees(d) /\ pc[d] = "keying" /\ op[d].do \in {"setup", "bind", "change"}
  BY DEF AgreeInv, ServeKey, TypeInv, PlaceInv, Placed
<1>1. /\ op' = op /\ pc'[d] = "keyed" /\ UNCHANGED <<user, disk, bound, told, cut, strays>>
  BY DEF ServeKey, GoTo, device, auxiliary, TypeInv, Shape, OpsOK
<1>2. Mine(d, op[d].key, op[d].password)'
  <2>1. Upload(d) \in UploadType /\ Upload(d).by = d /\ CreateKey(Upload(d))
        /\ Upload(d).key = op[d].key /\ Upload(d).password = op[d].password
    BY UploadTyped DEF ServeKey, TypeInv, Shape, Upload
  <2> QED
    BY <1>1, <2>1, InForce DEF Mine, TypeInv, Shape, ServerOK
<1>3. d \notin cut /\ d \in bound /\ op[d].do # "change" =>
        op[d].key = user[d].key /\ op[d].password = told[d]
  <2>1. op[d].do = "bind" => op[d].key = user[d].key /\ user[d] # None
    BY <1>0 DEF TypeInv, UserInv
  <2>2. op[d].do = "setup" => d \notin bound
    BY <1>0 DEF TypeInv, UserInv
  <2> QED
    BY <1>0, <2>1, <2>2 DEF Agrees, InOrder
<1>4. d \notin cut /\ d \in bound /\ op[d].do # "change" => Mine(d, user[d].key, told[d])'
  BY <1>1, <1>2, <1>3 DEF Mine
<1> QED
  BY <1>0, <1>1, <1>2, <1>4 DEF Agrees, InOrder, Changing, Sure, NewWrapping

(* An upload nobody waits for changes nothing more where it came from.      *)
LEMMA StrayAgrees ==
  ASSUME TypeInv, AgreeInv, NEW u \in strays, ServeStray(u)
  PROVE  AgreeInv'
<1>1. CreateKey(u) /\ u \in UploadType /\ strays' \subseteq strays
      /\ UNCHANGED <<op, pc, user, disk, told, bound, cut>>
  BY DEF ServeStray, device, auxiliary, TypeInv, Shape, ServerOK
<1>2. ASSUME NEW d \in Device, d # u.by PROVE Agrees(d)'
  <2>1. NothingNew(d)
    BY <1>1, <1>2, InForce DEF NothingNew, TypeInv, Shape, ServerOK
  <2> QED
    BY <1>1, <2>1, Elsewhere DEF AgreeInv
<1>3. ASSUME NEW d \in Device, d = u.by PROVE Agrees(d)'
  <2>1. d \in cut /\ ~Sure(d)
    BY <1>3 DEF AgreeInv, Agrees
  <2>2. d \in cut' /\ ~Sure(d)'
    BY <1>1, <2>1 DEF Sure, Changing
  <2> QED
    BY <2>2 DEF Agrees
<1> QED
  BY <1>2, <1>3 DEF AgreeInv

(* Whoever does nothing has nothing to agree about but what it has.         *)
LEMMA AtRest ==
  ASSUME NEW d \in Device, op'[d] = NoOp,
         (\E u \in strays' : u.by = d) => d \in cut',
         d \notin cut' => /\ pc'[d] = "idle" /\ disk'[d] = user'[d]
                          /\ user'[d] # None => user'[d].password = told'[d]
                          /\ d \in bound' => Mine(d, user[d].key, told[d])'
  PROVE  Agrees(d)'
BY DEF Agrees, InOrder, Sure, Changing, NoOp

LEMMA BeginsAgree ==
  ASSUME TypeInv, KeyInv, AgreeInv, NEW d \in Device, Begins(d)
  PROVE  Agrees(d)'
<1>0. /\ Agrees(d) /\ op \in [Device -> OpType] /\ pc \in [Device -> Place]
      /\ UNCHANGED <<keys, strays, user, disk, bound, told, cut>>
  BY DEF AgreeInv, TypeInv, Shape, OpsOK, Begins, server, device, auxiliary, BeginSetup, Restore, Bind,
     BeginChange, Listed
<1>1. pc[d] = "idle" => op[d] = NoOp
  BY DEF TypeInv, PlaceInv, Placed
<1>2. CASE BeginSetup(d)
  <2>1. pc'[d] = "keying" /\ op'[d].do = "setup" /\ user[d] = None /\ d \notin bound /\ pc[d] = "idle"
    BY <1>0, <1>2 DEF BeginSetup, Begin, NoOp, TypeInv, UserInv
  <2> QED
    BY <1>0, <1>1, <2>1 DEF Agrees, InOrder, Sure, Changing, NoOp
<1>3. CASE Restore(d)
  <2>1. user[d] = None /\ d \notin bound /\ pc[d] = "idle"
    BY <1>3 DEF Restore, TypeInv, UserInv
  <2>2. PICK k \in Key : \E i \in Active(k) : Begin(d, "restored", [NoOp EXCEPT !.do = "restore", !.key = k,
                                                 !.password = keys[i].password, !.found = sealed # {}])
    BY <1>3 DEF Restore
  <2>3. PICK i \in Active(k) : Begin(d, "restored", [NoOp EXCEPT !.do = "restore", !.key = k,
                                                 !.password = keys[i].password, !.found = sealed # {}])
    BY <2>2
  <2>4. pc'[d] = "restored" /\ op'[d].do = "restore" /\ op'[d].key = k /\ op'[d].password = keys[i].password
    BY <1>0, <2>3 DEF Begin, NoOp
  <2>5. Mine(d, k, keys[i].password)
    BY DEF KeyInv, Active, Mine
  <2>6. Mine(d, op[d].key, op[d].password)'
    BY <1>0, <2>4, <2>5 DEF Mine
  <2> QED
    BY <1>0, <1>1, <2>1, <2>4, <2>6 DEF Agrees, InOrder, Sure, Changing, NoOp
<1>4. CASE Bind(d)
  <2>1. /\ pc'[d] = "keying" /\ op'[d].do = "bind" /\ op'[d].password = user[d].password
        /\ d \notin bound /\ pc[d] = "idle"
    BY <1>0, <1>4 DEF Bind, Begin, NoOp
  <2> QED
    BY <1>0, <1>1, <2>1 DEF Agrees, InOrder, Sure, Changing, NoOp
<1>5. CASE BeginChange(d)
  <2>1. /\ pc'[d] \in {"listing", "saving"} /\ op'[d].do = "change" /\ ~op'[d].found /\ pc[d] = "idle"
    BY <1>0, <1>5 DEF BeginChange, Begin, NoOp
  <2>2. Mine(d, user[d].key, told[d]) => Mine(d, user[d].key, told[d])'
    BY <1>0 DEF Mine
  <2> QED
    BY <1>0, <1>1, <2>1, <2>2 DEF Agrees, InOrder, Sure, Changing, NoOp
<1>6. CASE Listed(d)
  <2>0. Mine(d, user[d].key, told[d]) => Mine(d, user[d].key, told[d])'
    BY <1>0 DEF Mine
  <2>1. pc[d] = "listing" /\ op[d].do = "change"
    BY <1>6 DEF Listed, TypeInv, PlaceInv, Placed
  <2>2. CASE End(d)
    <3>1. op'[d] = NoOp /\ pc'[d] = "idle"
      BY <1>0, <2>2 DEF End, Begin
    <3> QED
      BY <1>0, <2>0, <2>1, <3>1, AtRest DEF Agrees, InOrder, Sure, Changing
  <2>3. CASE ~End(d)
    <3>1. PICK i \in Active(op[d].key) :
            Begin(d, "saving", [op[d] EXCEPT !.replaces = i, !.found = \A u \in strays : u.by # d])
      BY <1>6, <2>3 DEF Listed
    <3>2. op'[d] = [op[d] EXCEPT !.replaces = i, !.found = \A u \in strays : u.by # d] /\ pc'[d] = "saving"
      BY <1>0, <3>1 DEF Begin
    <3>3. op'[d].do = "change" /\ op'[d].found = (\A u \in strays : u.by # d)
      BY <1>0, <2>1, <3>2 DEF OpType
    <3> QED
      BY <1>0, <2>0, <2>1, <3>2, <3>3 DEF Agrees, InOrder, Sure, Changing
  <2> QED
    BY <2>2, <2>3
<1> QED
  BY <1>2, <1>3, <1>4, <1>5, <1>6 DEF Begins

(* A request that fails or is lost.                                         *)
LEMMA FailsAgree ==
  ASSUME TypeInv, AgreeInv, NEW d \in Device, RefuseKey(d) \/ Lose(d)
  PROVE  Agrees(d)'
<1>0. /\ Agrees(d) /\ op \in [Device -> OpType] /\ pc \in [Device -> Place]
      /\ UNCHANGED <<keys, user, disk, bound, told>>
  BY DEF AgreeInv, TypeInv, Shape, OpsOK, device, auxiliary, server, RefuseKey, Lose
<1>1. \/ op'[d] = NoOp /\ pc'[d] = "idle" /\ op[d].do # "change"
      \/ op'[d] = op[d] /\ pc'[d] = "undoing" /\ op[d].do = "change"
  BY <1>0 DEF RefuseKey, Lose, Stop, End, Begin, GoTo
<1>2. CASE RefuseKey(d)
  <2>1. pc[d] = "keying" /\ UNCHANGED <<strays, cut>>
    BY <1>2 DEF RefuseKey, server, auxiliary
  <2>2. Mine(d, user[d].key, told[d]) => Mine(d, user[d].key, told[d])'
    BY <1>0 DEF Mine
  <2> QED
    BY <1>0, <1>1, <2>1, <2>2 DEF Agrees, InOrder, Sure, Changing, NoOp
<1>3. CASE Lose(d)
  <2>1. d \in cut'
    BY <1>3 DEF Lose
  <2>2. ~Sure(d)'
    BY <1>1 DEF Sure, Changing, NoOp
  <2> QED
    BY <2>1, <2>2 DEF Agrees
<1> QED
  BY <1>2, <1>3

(* Setting up, restoring and binding leave the password that was told.      *)
LEMMA FinishAgree ==
  ASSUME TypeInv, AgreeInv, NEW d \in Device,
         PushVault(d) \/ FinishSetup(d) \/ FinishRestore(d) \/ FinishBind(d)
  PROVE  Agrees(d)'
<1>0. /\ Agrees(d) /\ op \in [Device -> OpType] /\ pc \in [Device -> Place]
      /\ user \in [Device -> Wrapping \cup {None}] /\ disk \in [Device -> Wrapping \cup {None}]
      /\ told \in [Device -> Password \cup {0}]
      /\ UNCHANGED <<keys, strays, cut>>
  BY DEF AgreeInv, TypeInv, Shape, OpsOK, UsersOK, MarksOK, auxiliary, server, PushVault, FinishSetup,
     FinishRestore, FinishBind
<1>1. CASE PushVault(d)
  <2>1. /\ op' = op /\ pc'[d] = "pushed" /\ pc[d] = "keyed" /\ op[d].do = "setup"
        /\ UNCHANGED <<user, disk, bound, told>>
    BY <1>0, <1>1 DEF PushVault, Does, GoTo, device, auxiliary
  <2>2. d \notin bound /\ user[d] = None
    BY <2>1 DEF TypeInv, UserInv
  <2>3. Mine(d, op[d].key, op[d].password) => Mine(d, op[d].key, op[d].password)'
    BY <1>0, <2>1 DEF Mine
  <2> QED
    BY <1>0, <2>1, <2>2, <2>3 DEF Agrees, InOrder, Sure, Changing
<1>2. CASE FinishSetup(d) \/ FinishRestore(d)
  <2>1. /\ user'[d] = [key |-> op[d].key, password |-> op[d].password]
        /\ disk'[d] = user'[d] /\ told'[d] = op[d].password
    BY <1>0, <1>2 DEF FinishSetup, FinishRestore, WithUser
  <2>2. op'[d] = NoOp /\ pc'[d] = "idle" /\ pc[d] \in {"pushed", "restored"}
    BY <1>0, <1>2 DEF FinishSetup, FinishRestore, Does, End, Begin
  <2>3. Mine(d, op[d].key, op[d].password) => Mine(d, user[d].key, told[d])'
    BY <1>0, <2>1 DEF Mine
  <2> QED
    BY <1>0, <2>1, <2>2, <2>3, AtRest DEF Agrees, InOrder
<1>3. CASE FinishBind(d)
  <2>1. /\ pc[d] = "keyed" /\ op[d].do = "bind" /\ op'[d] = NoOp /\ pc'[d] = "idle"
        /\ UNCHANGED <<user, told>> /\ disk'[d] = user[d]
    BY <1>0, <1>3 DEF FinishBind, Does, End, Begin
  <2>2. user[d] # None /\ op[d].key = user[d].key
    BY <2>1 DEF TypeInv, UserInv
  <2>3. op[d].password = told[d] /\ Mine(d, op[d].key, op[d].password) => Mine(d, user[d].key, told[d])'
    BY <1>0, <2>1, <2>2 DEF Mine
  <2> QED
    BY <1>0, <2>1, <2>2, <2>3, AtRest DEF Agrees, InOrder
<1> QED
  BY <1>1, <1>2, <1>3

(* The steps of a change.                                                   *)
LEMMA ChangeAgrees ==
  ASSUME TypeInv, AgreeInv, NEW d \in Device, SaveLocal(d) \/ Change(d) \/ Undo(d)
  PROVE  Agrees(d)'
<1>0. /\ Agrees(d) /\ op \in [Device -> OpType] /\ pc \in [Device -> Place]
      /\ user \in [Device -> Wrapping \cup {None}] /\ disk \in [Device -> Wrapping \cup {None}]
      /\ told \in [Device -> Password \cup {0}]
      /\ UNCHANGED <<keys, strays, bound>> /\ op[d].do = "change"
  BY DEF AgreeInv, TypeInv, Shape, OpsOK, UsersOK, MarksOK, PlaceInv, Placed, server, SaveLocal, Change,
     Does, Undo
<1>1. ASSUME Use(d)
      PROVE  /\ op'[d] = NoOp /\ pc'[d] = "idle" /\ told'[d] = op[d].password
             /\ user'[d] = NewWrapping(d) /\ user'[d].key = op[d].key /\ user'[d].password = op[d].password
             /\ Mine(d, op[d].key, op[d].password) => Mine(d, user[d].key, told[d])'
  <2>1. /\ op'[d] = NoOp /\ pc'[d] = "idle" /\ told'[d] = op[d].password
        /\ user'[d] = NewWrapping(d)
    BY <1>0, <1>1 DEF Use, End, Begin
  <2>2. user'[d].key = op[d].key /\ user'[d].password = op[d].password
    BY <2>1 DEF NewWrapping
  <2> QED
    BY <1>0, <2>1, <2>2 DEF Mine
<1>2. CASE SaveLocal(d)
  <2>1. pc[d] = "saving" /\ disk'[d] = NewWrapping(d) /\ cut' = cut
    BY <1>0, <1>2 DEF SaveLocal
  <2>2. CASE d \in bound
    <3>1. op' = op /\ pc'[d] = "keying" /\ UNCHANGED <<user, told>>
      BY <1>0, <1>2, <2>2 DEF SaveLocal, GoTo
    <3>2. Mine(d, user[d].key, told[d]) => Mine(d, user[d].key, told[d])'
      BY <1>0, <3>1 DEF Mine
    <3> QED
      BY <1>0, <2>1, <3>1, <3>2 DEF Agrees, InOrder, Sure, Changing, NewWrapping
  <2>3. CASE d \notin bound
    BY <1>0, <1>1, <1>2, <2>1, <2>3, AtRest DEF SaveLocal, Agrees
  <2> QED
    BY <2>2, <2>3
<1>3. CASE Change(d)
  <2>1. pc[d] = "keyed" /\ Use(d) /\ disk' = disk /\ cut' = Settled(d)
    BY <1>3 DEF Change, Does
  <2>2. CASE d \notin cut
    <3>1. d \notin cut' /\ \A u \in strays' : u.by # d
      BY <1>0, <2>1, <2>2 DEF Settled, Agrees
    <3>2. disk[d] = NewWrapping(d) /\ Mine(d, op[d].key, op[d].password)
      BY <1>0, <2>1, <2>2 DEF Agrees, InOrder, Changing
    <3> QED
      BY <1>1, <2>1, <3>1, <3>2, AtRest
  <2>3. CASE d \in cut /\ d \notin cut'
    <3>1. disk[d] = NewWrapping(d) /\ op[d].found
      BY <2>1, <2>3 DEF Settled
    <3>2. Sure(d)
      BY <1>0, <2>1, <3>1 DEF Sure, Changing
    <3> QED
      BY <1>0, <1>1, <2>1, <3>1, <3>2, AtRest DEF Agrees
  <2>4. CASE d \in cut'
    BY <1>1, <2>1, <2>4, AtRest
  <2> QED
    BY <2>2, <2>3, <2>4
<1>4. CASE Undo(d)
  <2>1. /\ pc[d] = "undoing" /\ op'[d] = NoOp /\ pc'[d] = "idle" /\ UNCHANGED <<user, told>>
        /\ (disk'[d] = user[d] /\ cut' = cut) \/ cut' = cut \cup {d}
    BY <1>0, <1>4 DEF Undo, End, Begin
  <2>2. Mine(d, user[d].key, told[d]) => Mine(d, user[d].key, told[d])'
    BY <1>0, <2>1 DEF Mine
  <2> QED
    BY <1>0, <2>1, <2>2, AtRest DEF Agrees, InOrder, Changing
<1> QED
  BY <1>2, <1>3, <1>4

(* Restarts, disconnections, and what a run does.                           *)
LEMMA OtherAgree ==
  ASSUME TypeInv, AgreeInv, NEW d \in Device, Restart(d) \/ Unbind(d) \/ Push(d) \/ Persist(d)
  PROVE  Agrees(d)'
<1>0. /\ Agrees(d) /\ op \in [Device -> OpType] /\ pc \in [Device -> Place]
      /\ user \in [Device -> Wrapping \cup {None}] /\ disk \in [Device -> Wrapping \cup {None}]
      /\ keys' = keys /\ told' = told
      /\ pc[d] = "idle" => op[d] = NoOp
  BY DEF AgreeInv, TypeInv, Shape, OpsOK, UsersOK, PlaceInv, Placed, auxiliary, server, Restart, Unbind,
     Push, Persist
<1>1. CASE Restart(d)
  <2>1. /\ op'[d] = NoOp /\ pc'[d] = "idle" /\ UNCHANGED <<disk, bound>> /\ user'[d] = disk[d]
        /\ cut' = IF pc[d] = "idle" THEN cut ELSE cut \cup {d}
        /\ pc[d] = "idle" => strays' = strays
    BY <1>0, <1>1 DEF Restart, End, Begin
  <2>2. disk[d] = user[d] => (Mine(d, user[d].key, told[d]) => Mine(d, user[d].key, told[d])')
    BY <1>0, <2>1 DEF Mine
  <2> QED
    BY <1>0, <2>1, <2>2, AtRest DEF Agrees, InOrder, Changing, NoOp
<1>2. CASE Unbind(d)
  <2>1. /\ pc[d] = "idle" /\ UNCHANGED <<op, pc, user, cut, strays>> /\ d \notin bound' /\ disk'[d] = user[d]
    BY <1>0, <1>2 DEF Unbind, server
  <2> QED
    BY <1>0, <2>1, AtRest DEF Agrees, InOrder
<1>3. CASE Push(d)
  <2>1. UNCHANGED <<keys, strays, user, disk, bound, op, pc, told, cut>>
    BY <1>3 DEF Push, device, auxiliary
  <2> QED
    BY <1>0, <2>1, Elsewhere DEF NothingNew
<1>4. CASE Persist(d)
  <2>1. /\ UNCHANGED <<strays, user, bound, op, pc>> /\ disk'[d] = user[d]
        /\ cut' = IF pc[d] = "idle" THEN cut ELSE cut \cup {d}
    BY <1>0, <1>4 DEF Persist, server
  <2>2. /\ Mine(d, user[d].key, told[d]) => Mine(d, user[d].key, told[d])'
        /\ Mine(d, op[d].key, op[d].password) => Mine(d, op[d].key, op[d].password)'
    BY <1>0, <2>1 DEF Mine
  <2>3. Sure(d)' <=> Sure(d)
    BY <2>1 DEF Sure, Changing
  <2>4. CASE pc[d] = "idle"
    BY <1>0, <2>1, <2>2, <2>4, AtRest DEF Agrees, InOrder, Changing
  <2>5. CASE pc[d] # "idle"
    BY <1>0, <2>1, <2>2, <2>3, <2>5 DEF Agrees
  <2> QED
    BY <2>4, <2>5
<1> QED
  BY <1>1, <1>2, <1>3, <1>4

LEMMA AgreeStep == TypeInv /\ KeyInv /\ AgreeInv /\ [Next]_vars => AgreeInv'
<1> SUFFICES ASSUME TypeInv, KeyInv, AgreeInv, [Next]_vars PROVE AgreeInv'
  OBVIOUS
<1>1. ASSUME NEW d \in Device,
             Begins(d) \/ Goes(d) \/ Finishes(d) \/ Unbind(d) \/ Push(d) \/ Persist(d)
      PROVE  AgreeInv'
  <2>1. Agrees(d)'
    BY <1>1, BeginsAgree, ServedAgrees, FailsAgree, FinishAgree, ChangeAgrees, OtherAgree
       DEF Goes, Finishes
  <2> QED
    BY <1>1, <2>1, OthersAgree
<1>2. ASSUME NEW u \in strays, ServeStray(u) PROVE AgreeInv'
  BY <1>2, StrayAgrees
<1>3. CASE UNCHANGED vars
  <2>1. ASSUME NEW d \in Device PROVE Agrees(d)'
    BY <1>3, Elsewhere DEF NothingNew, AgreeInv, vars, server, device, auxiliary
  <2> QED
    BY <2>1 DEF AgreeInv
<1> QED
  BY <1>1, <1>2, <1>3, Steps

(* A device where no change was cut off opens the account with the password *)
(* it last confirmed: in memory, after a restart, and with the wrapped key  *)
(* it put on the server, whatever the other devices do.                     *)
THEOREM PasswordsKept == Spec => []PasswordsAgree
<1>1. Init => AgreeInv
  <2> SUFFICES ASSUME Init, NEW d \in Device PROVE Agrees(d)
    BY DEF AgreeInv
  <2>1. user[d] # None => user[d].password = told[d]
    BY DEF Init
  <2> QED
    BY <2>1 DEF Init, Agrees, InOrder, Sure, Changing, NoOp
<1>2. TypeInv /\ AgreeInv => PasswordsAgree
  <2> SUFFICES ASSUME TypeInv, AgreeInv, NEW d \in Device \ cut, pc[d] = "idle", user[d] # None
               PROVE  /\ disk[d] = user[d] /\ user[d].password = told[d]
                      /\ d \in bound => \A i \in Active(user[d].key) :
                                          keys[i].by = d => keys[i].password = told[d]
    BY DEF PasswordsAgree
  <2>1. InOrder(d) /\ op[d] = NoOp
    BY DEF AgreeInv, Agrees, TypeInv, PlaceInv, Placed
  <2> QED
    BY <2>1 DEF InOrder, Changing, Mine, Active, NoOp
<1>3. Init => KeyInv
  BY DEF Init, KeyInv, Active, Fits, NoOp
<1> QED
  BY <1>1, <1>2, <1>3, InitTypes, TypeStep, KeyStep, AgreeStep, PTL DEF Spec
=============================================================================
