-------------------------- MODULE SyncServerProofs --------------------------
(***************************************************************************)
(* Proofs about SyncServer and SyncReaders for any number of handlers,      *)
(* devices, objects and requests.                                           *)
(***************************************************************************)
EXTENDS SyncReaders, FiniteSetTheorems, WellFoundedInduction, TLAPS

(* The element a handler works on is an operation of its request.           *)
LEMMA OpType ==
  ASSUME TypeOK, NEW h \in Handler, HasObject(h)
  PROVE  /\ at[h] \in DOMAIN batch[h]
         /\ Op(h) \in Operation
<1>1. batch[h] \in Seq(Operation)
  <2>1. batch[h] \in Batch \cup {<<>>}
    BY DEF TypeOK
  <2>2. <<>> \in Seq(Operation)
    OBVIOUS
  <2> QED
    BY <2>1, <2>2, BatchAssumption
<1>2. at[h] \in 1 .. Len(batch[h])
  BY <1>1 DEF TypeOK, HasObject
<1> QED
  BY <1>1, <1>2 DEF Op

(* A handler in a transaction has an object to work on.                     *)
AtObject == \A h \in Handler : pc[h] \in InTransaction => HasObject(h)

PastChecks == {"read", "written", "logged"}

(* An object that is read has passed the checks, and an event has its id.   *)
Validated ==
  \A h \in Handler :
    /\ pc[h] \in PastChecks => Op(h).revision = Op(h).base + 1
    /\ pc[h] = "logged" => eventId[h] # 0

LEMMA AppendType ==
  ASSUME NEW S, NEW s \in Seq(S), NEW e \in S
  PROVE  Append(s, e) \in Seq(S)
OBVIOUS

LEMMA AnswerType ==
  ASSUME TypeOK, NEW h \in Handler, HasObject(h), NEW r \in Response, Answer(h, r)
  PROVE  /\ replies' \in [Handler -> Seq(Reply)]
         /\ at' \in [Handler -> Nat \ {0}]
         /\ pc' \in [Handler -> InTransaction \cup {"idle", "next"}]
<1> DEFINE e == [key |-> Op(h).key, outcome |-> r]
<1>1. e \in Reply
  <2>1. Op(h) \in Operation
    BY OpType
  <2>2. Op(h).key \in Key
    BY <2>1 DEF Operation
  <2> QED
    BY <2>2 DEF Reply
<1>2. replies[h] \in Seq(Reply)
  BY DEF TypeOK
<1>3. Append(replies[h], e) \in Seq(Reply)
  BY <1>1, <1>2, AppendType
<1>4. replies' = [replies EXCEPT ![h] = Append(replies[h], e)]
  BY DEF Answer
<1>5. replies' \in [Handler -> Seq(Reply)]
  BY <1>3, <1>4 DEF TypeOK
<1> QED
  BY <1>5 DEF TypeOK, Answer

LEMMA CommitOutcomeType ==
  ASSUME TypeOK, NEW h \in Handler, HasObject(h), NEW r \in Response, CommitOutcome(h, r)
  PROVE  /\ DOMAIN outcomes' \subseteq Key
         /\ \A k \in DOMAIN outcomes' : outcomes'[k] \in Response
<1>1. Op(h).key \in Key
  BY OpType DEF Operation
<1> QED
  BY <1>1 DEF TypeOK, CommitOutcome, Saved

TypeInv == TypeOK /\ AtObject /\ Validated

(* What a step of one handler leaves to the others.                        *)
Step(h) == Work(h) \/ Abort(h) \/ \E b \in Batch : Receive(h, b)

LEMMA OthersUnchanged ==
  ASSUME TypeOK, NEW h \in Handler, Step(h), NEW g \in Handler, g # h
  PROVE  /\ pc'[g] = pc[g] /\ batch'[g] = batch[g] /\ at'[g] = at[g]
         /\ seen'[g] = seen[g] /\ eventId'[g] = eventId[g]
<1>1. /\ pc'[g] = pc[g]
      /\ at'[g] = at[g]
  BY DEF Step, Work, Receive, Replay, Claim, Reject, Read, Conflict, Write, Log,
         Commit, Respond, Abort, CommitOutcome, Answer, TypeOK
<1>2. /\ batch'[g] = batch[g]
      /\ seen'[g] = seen[g]
      /\ eventId'[g] = eventId[g]
  BY DEF Step, Work, Receive, Replay, Claim, Reject, Read, Conflict, Write, Log,
         Commit, Respond, Abort, TypeOK
<1> QED
  BY <1>1, <1>2

LEMMA TypeInit == Init => TypeInv
<1> SUFFICES ASSUME Init PROVE TypeInv
  OBVIOUS
<1>1. rows \in [Object -> Row \cup {Nil}]
  BY SeedAssumption DEF Init, Row
<1>2. events \subseteq Event
  BY SeedAssumption DEF Init, Event
<1>3. TypeOK
  BY <1>1, <1>2, SeedAssumption, BoundAssumption
     DEF Init, TypeOK, InTransaction
<1> QED
  BY <1>3 DEF Init, TypeInv, AtObject, Validated, InTransaction, PastChecks

(* The local conditions of a handler that just moved suffice.               *)
LEMMA LocalConditions ==
  ASSUME TypeInv, TypeOK', NEW h \in Handler, Step(h),
         pc'[h] \in InTransaction => HasObject(h)',
         pc'[h] \in PastChecks => (Op(h).revision = Op(h).base + 1)',
         pc'[h] = "logged" => eventId'[h] # 0
  PROVE  TypeInv'
<1>1. AtObject'
  <2> SUFFICES ASSUME NEW g \in Handler, g # h, (pc[g] \in InTransaction)'
               PROVE  HasObject(g)'
    BY DEF AtObject
  <2>1. HasObject(g)
    BY OthersUnchanged DEF TypeInv, AtObject
  <2> QED
    BY <2>1, OthersUnchanged DEF TypeInv, HasObject
<1>2. Validated'
  <2> SUFFICES ASSUME NEW g \in Handler, g # h
               PROVE  /\ (pc[g] \in PastChecks)' => (Op(g).revision = Op(g).base + 1)'
                      /\ (pc[g] = "logged")' => (eventId[g] # 0)'
    BY DEF Validated
  <2>1. Op(g)' = Op(g) /\ pc'[g] = pc[g] /\ eventId'[g] = eventId[g]
    BY OthersUnchanged DEF TypeInv, Op
  <2> QED
    BY <2>1 DEF TypeInv, Validated
<1> QED
  BY <1>1, <1>2 DEF TypeInv

LEMMA TypeNext == TypeInv /\ [Next]_vars => TypeInv'
<1> SUFFICES ASSUME TypeInv, [Next]_vars PROVE TypeInv'
  OBVIOUS
<1>0. TypeOK /\ AtObject /\ Validated
  BY DEF TypeInv
<1> USE DEF InTransaction, PastChecks
<1>1. ASSUME NEW h \in Handler, NEW b \in Batch, Receive(h, b)
      PROVE  TypeInv'
  <2>1. TypeOK'
    BY <1>0, <1>1, BoundAssumption DEF Receive, TypeOK, tables
  <2>2. pc'[h] = "next" /\ Step(h)
    BY <1>0, <1>1 DEF Receive, TypeOK, Step
  <2> QED
    BY <2>1, <2>2, LocalConditions
<1>2. ASSUME NEW h \in Handler, Replay(h)
      PROVE  TypeInv'
  <2>1. /\ HasObject(h)
        /\ outcomes[Op(h).key] \in Response
        /\ Answer(h, outcomes[Op(h).key])
    BY <1>0, <1>2 DEF Replay, TypeOK
  <2>2. TypeOK'
    BY <1>0, <1>2, <2>1, AnswerType DEF Replay, TypeOK, tables
  <2>3. pc'[h] = "next" /\ Step(h)
    BY <1>0, <1>2 DEF Replay, Answer, TypeOK, Step, Work
  <2> QED
    BY <2>2, <2>3, LocalConditions
<1>3. ASSUME NEW h \in Handler, Claim(h)
      PROVE  TypeInv'
  <2>1. TypeOK'
    BY <1>0, <1>3 DEF Claim, TypeOK, tables
  <2>2. pc'[h] = "claimed" /\ HasObject(h)' /\ Step(h)
    BY <1>0, <1>3 DEF Claim, TypeOK, HasObject, Step, Work
  <2> QED
    BY <2>1, <2>2, LocalConditions
<1>4. ASSUME NEW h \in Handler, Reject(h)
      PROVE  TypeInv'
  <2>1. HasObject(h) /\ Rejected \in Response /\ CommitOutcome(h, Rejected)
    BY <1>0, <1>4 DEF Reject, AtObject, Rejected, Response
  <2>2. TypeOK'
    BY <1>0, <1>4, <2>1, AnswerType, CommitOutcomeType DEF Reject, TypeOK, CommitOutcome
  <2>3. pc'[h] = "next" /\ Step(h)
    BY <1>0, <1>4 DEF Reject, CommitOutcome, Answer, TypeOK, Step, Work
  <2> QED
    BY <2>2, <2>3, LocalConditions
<1>5. ASSUME NEW h \in Handler, Read(h)
      PROVE  TypeInv'
  <2>1. HasObject(h) /\ Op(h) \in Operation
    BY <1>0, <1>5, OpType DEF Read, AtObject
  <2>2. TypeOK'
    BY <1>0, <1>5, <2>1 DEF Read, TypeOK, tables, Operation
  <2>3. pc'[h] = "read" /\ HasObject(h)' /\ Op(h)' = Op(h) /\ Step(h)
    BY <1>0, <1>5, <2>1 DEF Read, TypeOK, HasObject, Op, Step, Work
  <2>4. Op(h).revision = Op(h).base + 1
    BY <1>5 DEF Read, Refused
  <2> QED
    BY <2>2, <2>3, <2>4, LocalConditions
<1>6. ASSUME NEW h \in Handler, Conflict(h)
      PROVE  TypeInv'
  <2>1. HasObject(h) /\ CommitOutcome(h, Conflicted(h))
    BY <1>0, <1>6 DEF Conflict, AtObject
  <2>2. Conflicted(h) \in Response
    BY <1>0 DEF Conflicted, Response, CurrentRevision, TypeOK, Row
  <2>3. TypeOK'
    BY <1>0, <1>6, <2>1, <2>2, AnswerType, CommitOutcomeType DEF Conflict, TypeOK, CommitOutcome
  <2>4. pc'[h] = "next" /\ Step(h)
    BY <1>0, <1>6 DEF Conflict, CommitOutcome, Answer, TypeOK, Step, Work
  <2> QED
    BY <2>3, <2>4, LocalConditions
<1>7. ASSUME NEW h \in Handler, Write(h)
      PROVE  TypeInv'
  <2>1. TypeOK'
    BY <1>0, <1>7 DEF Write, TypeOK, tables
  <2>2. /\ pc'[h] = "written" /\ HasObject(h)' /\ Op(h)' = Op(h) /\ Step(h)
        /\ Op(h).revision = Op(h).base + 1
    BY <1>0, <1>7 DEF Write, TypeOK, AtObject, Validated, HasObject, Op, Step, Work
  <2> QED
    BY <2>1, <2>2, LocalConditions
<1>8. ASSUME NEW h \in Handler, Log(h)
      PROVE  TypeInv'
  <2>1. TypeOK'
    BY <1>0, <1>8 DEF Log, TypeOK
  <2>2. /\ pc'[h] = "logged" /\ HasObject(h)' /\ Op(h)' = Op(h) /\ Step(h)
        /\ Op(h).revision = Op(h).base + 1
        /\ eventId'[h] # 0
    BY <1>0, <1>8 DEF Log, TypeOK, AtObject, Validated, HasObject, Op, Step, Work
  <2> QED
    BY <2>1, <2>2, LocalConditions
<1>9. ASSUME NEW h \in Handler, Commit(h)
      PROVE  TypeInv'
  <2>1. HasObject(h) /\ Op(h) \in Operation /\ CommitOutcome(h, Accepted(h))
    BY <1>0, <1>9, OpType DEF Commit, AtObject
  <2>2. Op(h).revision \in Nat \ {0} /\ eventId[h] \in Nat \ {0}
    BY <1>0, <1>9, <2>1 DEF Commit, Validated, Operation, TypeOK
  <2>3. Accepted(h) \in Response
    BY <2>2 DEF Accepted, Response
  <2>4. rows' \in [Object -> Row \cup {Nil}] /\ events' \subseteq Event
    BY <1>0, <1>9, <2>1, <2>2 DEF Commit, TypeOK, Row, Event, Operation
  <2>5. TypeOK'
    BY <1>0, <1>9, <2>1, <2>3, <2>4, AnswerType, CommitOutcomeType
       DEF Commit, TypeOK, CommitOutcome
  <2>6. pc'[h] = "next" /\ Step(h)
    BY <1>0, <1>9 DEF Commit, CommitOutcome, Answer, TypeOK, Step, Work
  <2> QED
    BY <2>5, <2>6, LocalConditions
<1>10. ASSUME NEW h \in Handler, Respond(h)
       PROVE  TypeInv'
  <2>1. TypeOK' /\ pc'[h] = "idle" /\ Step(h)
    BY <1>0, <1>10 DEF Respond, TypeOK, tables, Step, Work
  <2> QED
    BY <2>1, LocalConditions
<1>11. ASSUME NEW h \in Handler, Abort(h)
       PROVE  TypeInv'
  <2>1. TypeOK' /\ pc'[h] = "idle" /\ Step(h)
    BY <1>0, <1>11 DEF Abort, TypeOK, tables, Step
  <2> QED
    BY <2>1, LocalConditions
<1>12. CASE UNCHANGED vars
  BY <1>0, <1>12 DEF vars, tables, locals, TypeInv, TypeOK, AtObject, Validated, HasObject, Op
<1> QED
  BY <1>1, <1>2, <1>3, <1>4, <1>5, <1>6, <1>7, <1>8, <1>9, <1>10, <1>11, <1>12
     DEF Next, Work

(* The tables and the handlers keep their shape.                            *)
THEOREM TypeCorrect == Spec => []TypeOK
<1>1. TypeInv => TypeOK
  BY DEF TypeInv
<1> QED
  BY <1>1, TypeInit, TypeNext, PTL DEF Spec

-----------------------------------------------------------------------------
(* Row locks.  A handler that is past FOR UPDATE on an object that has a    *)
(* row still sees the current row, because no other handler can hold it.    *)

Holds(h) == pc[h] \in PastChecks /\ HoldsRow(h, Op(h).object)

StoredHaveRows == \A o \in Stored : rows[o] # Nil

SeesCurrentRow ==
  \A h \in Handler : pc[h] \in PastChecks /\ Op(h).object \in Stored =>
    seen[h] = rows[Op(h).object]

WritesOnBase ==
  \A h \in Handler : pc[h] \in {"written", "logged"} => BaseIsCurrent(h)

OneHolder ==
  \A g, h \in Handler : g # h /\ Holds(g) /\ Holds(h) => Op(g).object # Op(h).object

LockInv == StoredHaveRows /\ SeesCurrentRow /\ WritesOnBase /\ OneHolder

LEMMA LockInit == Init => LockInv
<1> SUFFICES ASSUME Init PROVE LockInv
  OBVIOUS
<1>1. \A h \in Handler : pc[h] = "idle"
  BY DEF Init
<1>2. StoredHaveRows
  BY NilAssumption, SeedAssumption DEF Init, StoredHaveRows, Row
<1> QED
  BY <1>1, <1>2 DEF LockInv, SeesCurrentRow, WritesOnBase, OneHolder, Holds, PastChecks

(* What the other handlers hold and see does not move with a step of h.     *)
LEMMA OthersHold ==
  ASSUME TypeOK, NEW h \in Handler, Step(h), NEW g \in Handler, g # h
  PROVE  /\ Op(g)' = Op(g) /\ pc'[g] = pc[g] /\ seen'[g] = seen[g] /\ eventId'[g] = eventId[g]
         /\ Holds(g)' <=> Holds(g)
         /\ BaseIsCurrent(g)' <=> BaseIsCurrent(g)
<1>1. Op(g)' = Op(g) /\ pc'[g] = pc[g] /\ seen'[g] = seen[g] /\ eventId'[g] = eventId[g]
  BY OthersUnchanged DEF Op
<1> QED
  BY <1>1 DEF Holds, HoldsRow, BaseIsCurrent, CurrentRevision

(* A step after which h holds nothing and the rows are the same.            *)
LEMMA Releases ==
  ASSUME TypeInv, LockInv, NEW h \in Handler, Step(h),
         pc'[h] \notin PastChecks, rows' = rows
  PROVE  LockInv'
<1>1. TypeOK
  BY DEF TypeInv
<1>2. ~Holds(h)'
  BY DEF Holds
<1>3. OneHolder'
  BY <1>1, <1>2, OthersHold DEF LockInv, OneHolder
<1>4. SeesCurrentRow'
  BY <1>1, OthersHold DEF LockInv, SeesCurrentRow
<1>5. WritesOnBase'
  BY <1>1, OthersHold DEF LockInv, WritesOnBase, PastChecks
<1> QED
  BY <1>3, <1>4, <1>5 DEF LockInv, StoredHaveRows

(* A step by which h may take its row while no other handler holds it.      *)
LEMMA Takes ==
  ASSUME TypeInv, LockInv, NEW h \in Handler, Step(h), rows' = rows,
         Op(h)' = Op(h),
         Holds(h)' => \A g \in Handler \ {h} : Holds(g) => Op(g).object # Op(h).object,
         Op(h).object \in Stored => seen'[h] = rows[Op(h).object],
         pc'[h] \in {"written", "logged"} => BaseIsCurrent(h)'
  PROVE  LockInv'
<1>1. TypeOK
  BY DEF TypeInv
<1>2. OneHolder'
  BY <1>1, OthersHold DEF LockInv, OneHolder
<1>3. SeesCurrentRow'
  BY <1>1, OthersHold DEF LockInv, SeesCurrentRow
<1>4. WritesOnBase'
  BY <1>1, OthersHold DEF LockInv, WritesOnBase
<1> QED
  BY <1>2, <1>3, <1>4 DEF LockInv, StoredHaveRows

LEMMA FreeMeansNotHeld ==
  ASSUME NEW h \in Handler, NEW o, RowFree(h, o)
  PROVE  \A g \in Handler \ {h} : Holds(g) => Op(g).object # o
BY DEF RowFree, Holds, PastChecks, InTransaction

(* The commit of an object that is stored puts its next version.            *)
LEMMA CommitPuts ==
  ASSUME TypeInv, LockInv, NEW h \in Handler, Commit(h), Op(h).object \in Stored
  PROVE  /\ rows[Op(h).object] \in Row
         /\ Op(h).revision = rows[Op(h).object].revision + 1
<1>1. seen[h] = rows[Op(h).object] /\ BaseIsCurrent(h)
  BY DEF Commit, LockInv, SeesCurrentRow, WritesOnBase, PastChecks
<1>2. Op(h).revision = Op(h).base + 1
  BY DEF Commit, TypeInv, Validated, PastChecks
<1>3. rows[Op(h).object] \in Row
  BY SeedAssumption DEF LockInv, StoredHaveRows, TypeInv, TypeOK
<1>4. Op(h).base = rows[Op(h).object].revision
  BY <1>1, <1>3, NilAssumption DEF BaseIsCurrent, CurrentRevision
<1> QED
  BY <1>2, <1>3, <1>4

LEMMA LockNext == TypeInv /\ LockInv /\ [Next]_vars => LockInv'
<1> SUFFICES ASSUME TypeInv, LockInv, [Next]_vars PROVE LockInv'
  OBVIOUS
<1>0. TypeOK
  BY DEF TypeInv
<1> USE DEF PastChecks
<1>1. ASSUME NEW h \in Handler, NEW b \in Batch, Receive(h, b)
      PROVE  LockInv'
  <2>1. Step(h) /\ pc'[h] = "next" /\ rows' = rows
    BY <1>0, <1>1 DEF Step, Receive, TypeOK, tables
  <2> QED
    BY <2>1, Releases
<1>2. ASSUME NEW h \in Handler,
             Replay(h) \/ Claim(h) \/ Reject(h) \/ Conflict(h) \/ Respond(h) \/ Abort(h)
      PROVE  LockInv'
  <2>1. Step(h)
    BY <1>2 DEF Step, Work
  <2>2. pc'[h] \in {"next", "claimed", "idle"} /\ rows' = rows
    BY <1>0, <1>2 DEF Replay, Claim, Reject, Conflict, Respond, Abort, CommitOutcome,
                      Answer, TypeOK, tables
  <2> QED
    BY <2>1, <2>2, Releases
<1>3. ASSUME NEW h \in Handler, Read(h)
      PROVE  LockInv'
  <2>1. Step(h) /\ Op(h)' = Op(h) /\ rows' = rows /\ pc'[h] = "read"
        /\ seen'[h] = rows[Op(h).object]
    BY <1>0, <1>3 DEF Step, Work, Read, Op, TypeOK, tables
  <2>2. Holds(h)' => rows[Op(h).object] # Nil
    BY <2>1 DEF Holds, HoldsRow
  <2>3. Holds(h)' => \A g \in Handler \ {h} : Holds(g) => Op(g).object # Op(h).object
    BY <1>3, <2>2, FreeMeansNotHeld DEF Read
  <2> QED
    BY <2>1, <2>3, Takes
<1>4. ASSUME NEW h \in Handler, Write(h)
      PROVE  LockInv'
  <2>1. Step(h) /\ Op(h)' = Op(h) /\ rows' = rows /\ seen' = seen
    BY <1>0, <1>4 DEF Step, Work, Write, Op, tables
  <2>2. BaseIsCurrent(h)'
    BY <1>4, <2>1 DEF Write, BaseIsCurrent, CurrentRevision
  <2>3. \A g \in Handler \ {h} : Holds(g) => Op(g).object # Op(h).object
    BY <1>4, FreeMeansNotHeld DEF Write
  <2>4. Op(h).object \in Stored => seen[h] = rows[Op(h).object]
    BY <1>4 DEF Write, LockInv, SeesCurrentRow
  <2> QED
    BY <2>1, <2>2, <2>3, <2>4, Takes
<1>5. ASSUME NEW h \in Handler, Log(h)
      PROVE  LockInv'
  <2>1. Step(h) /\ Op(h)' = Op(h) /\ rows' = rows /\ seen' = seen
    BY <1>0, <1>5 DEF Step, Work, Log, Op, tables
  <2>2. Holds(h)
    BY <1>5 DEF Log, Holds, HoldsRow
  <2>3. \A g \in Handler \ {h} : Holds(g) => Op(g).object # Op(h).object
    BY <2>2 DEF LockInv, OneHolder
  <2>4. BaseIsCurrent(h)'
    BY <1>5, <2>1 DEF Log, LockInv, WritesOnBase, BaseIsCurrent, CurrentRevision
  <2>5. Op(h).object \in Stored => seen[h] = rows[Op(h).object]
    BY <1>5 DEF Log, LockInv, SeesCurrentRow
  <2> QED
    BY <2>1, <2>3, <2>4, <2>5, Takes
<1>6. ASSUME NEW h \in Handler, Commit(h)
      PROVE  LockInv'
  <2> DEFINE o == Op(h).object
             row == [revision |-> Op(h).revision, content |-> Op(h).content]
  <2>1. Step(h) /\ pc'[h] = "next" /\ rows' = [rows EXCEPT ![o] = row]
    BY <1>0, <1>6 DEF Step, Work, Commit, CommitOutcome, Answer, TypeOK
  <2>2. ~Holds(h)' /\ Holds(h)
    BY <1>6, <2>1 DEF Holds, HoldsRow, Commit
  <2>3. Op(h) \in Operation
    BY <1>0, <1>6, OpType DEF Commit, TypeInv, AtObject, InTransaction
  <2>4. row \in Row
    BY <1>6, <2>3 DEF Commit, TypeInv, Validated, Operation, Row
  <2>5. StoredHaveRows'
    BY <1>0, <2>1, <2>4, NilAssumption, SeedAssumption DEF LockInv, StoredHaveRows, TypeOK
  <2>6. SeesCurrentRow'
    <3> SUFFICES ASSUME NEW g \in Handler, (pc[g] \in PastChecks)', (Op(g).object \in Stored)'
                 PROVE  (seen[g] = rows[Op(g).object])'
      BY DEF SeesCurrentRow
    <3>1. g # h
      BY <2>1
    <3>2. Op(g)' = Op(g) /\ pc'[g] = pc[g] /\ seen'[g] = seen[g]
      BY <1>0, <2>1, <3>1, OthersHold
    <3>3. seen[g] = rows[Op(g).object] /\ rows[Op(g).object] # Nil
      BY <3>2 DEF LockInv, SeesCurrentRow, StoredHaveRows
    <3>4. Holds(g)
      BY <3>2, <3>3 DEF Holds, HoldsRow
    <3>5. Op(g).object # o
      BY <2>2, <3>1, <3>4 DEF LockInv, OneHolder
    <3> QED
      BY <1>0, <2>1, <3>2, <3>3, <3>5 DEF TypeOK
  <2>7. WritesOnBase'
    BY <1>0, <2>1, OthersHold DEF LockInv, WritesOnBase
  <2>8. OneHolder'
    BY <1>0, <2>1, <2>2, OthersHold DEF LockInv, OneHolder
  <2> QED
    BY <2>5, <2>6, <2>7, <2>8 DEF LockInv
<1>7. CASE UNCHANGED vars
  BY <1>7 DEF vars, tables, locals, LockInv, StoredHaveRows, SeesCurrentRow, WritesOnBase,
              OneHolder, Holds, HoldsRow, BaseIsCurrent, CurrentRevision, Op
<1> QED
  BY <1>1, <1>2, <1>3, <1>4, <1>5, <1>6, <1>7 DEF Next, Work

-----------------------------------------------------------------------------
(* Refinement: an object with a row is a compare-and-set register.  Only a  *)
(* commit changes the registers, and the lock it holds makes the row it     *)
(* replaces the one its revision was compared with.                         *)

LEMMA RegistersInit == Init => Registers!Init
<1> SUFFICES ASSUME Init PROVE Registers!Init
  OBVIOUS
<1>1. \A o \in Stored : rows[o] = [revision |-> 1, content |-> SeedContent]
  BY SeedAssumption DEF Init
<1> QED
  BY <1>1, SeedAssumption DEF Registers!Init, Registers!Version

LEMMA RegistersNext ==
  TypeInv /\ LockInv /\ [Next]_vars =>
    [Registers!Next]_([o \in Stored |-> rows[o]])
<1> DEFINE store == [o \in Stored |-> rows[o]]
<1> SUFFICES ASSUME TypeInv, LockInv, [Next]_vars
             PROVE  Registers!Next \/ store' = store
  OBVIOUS
<1>1. CASE rows' = rows
  BY <1>1
<1>2. CASE \E h \in Handler : Commit(h)
  <2>1. PICK h \in Handler : Commit(h)
    BY <1>2
  <2> DEFINE o == Op(h).object
             row == [revision |-> Op(h).revision, content |-> Op(h).content]
  <2>2. Op(h) \in Operation
    BY <2>1, OpType DEF Commit, TypeInv, AtObject, InTransaction
  <2>3. o \in Object /\ Op(h).content \in Content
    BY <2>2 DEF Operation
  <2>4. rows' = [rows EXCEPT ![o] = row]
    BY <2>1 DEF Commit
  <2>5. CASE o \notin Stored
    <3>1. \A p \in Stored : rows'[p] = rows[p]
      BY <2>4, <2>5, SeedAssumption DEF TypeInv, TypeOK
    <3> QED
      BY <3>1
  <2>6. CASE o \in Stored
    <3>1. Op(h).revision = rows[o].revision + 1
      BY <2>1, <2>6, CommitPuts
    <3>2. \A p \in Stored : rows'[p] = IF p = o THEN row ELSE rows[p]
      BY <2>4, SeedAssumption DEF TypeInv, TypeOK
    <3>3. store' = [store EXCEPT ![o] = [revision |-> store[o].revision + 1,
                                         content |-> Op(h).content]]
      BY <2>6, <3>1, <3>2
    <3>4. \E p \in Stored, c \in Content :
            store' = [store EXCEPT ![p] = [revision |-> store[p].revision + 1, content |-> c]]
      BY <2>3, <2>6, <3>3
    <3> QED
      BY <3>4 DEF Registers!Next, Registers!Put
  <2> QED
    BY <2>5, <2>6
<1>3. CASE UNCHANGED vars
  BY <1>3 DEF vars, tables
<1> QED
  BY <1>1, <1>2, <1>3
     DEF Next, Work, Receive, Replay, Claim, Reject, Read, Conflict, Write, Log, Respond,
         Abort, tables

(* SyncServer implements VersionedStore for the objects that have a row.    *)
THEOREM StoredObjectsAreRegisters == Spec => RegistersSpec
<1>1. Spec => [](TypeInv /\ LockInv)
  BY TypeInit, TypeNext, LockInit, LockNext, PTL DEF Spec
<1> QED
  BY <1>1, RegistersInit, RegistersNext, PTL DEF Spec, RegistersSpec, Registers!Spec

-----------------------------------------------------------------------------
(* The event log.  Ids are handed out before the commit, so they may commit *)
(* out of order, but not for one object: its lock is held from before the   *)
(* id is taken until the commit.                                            *)

IdsInOrder ==
  /\ \A e \in events : e.id < nextId
  /\ \A h \in Handler : pc[h] = "logged" =>
       /\ eventId[h] < nextId
       /\ \A e \in EventsOf(Op(h).object) : e.id < eventId[h]

EventInv == IdsInOrder /\ RowIsLatestEvent /\ HistoryIsLinear

LEMMA EventInit == Init => EventInv
<1> SUFFICES ASSUME Init PROVE EventInv
  OBVIOUS
<1> DEFINE seed(o) == [id |-> Seed[o], object |-> o, revision |-> 1, content |-> SeedContent]
<1>1. \A o \in Object : EventsOf(o) = IF o \in Stored THEN {seed(o)} ELSE {}
  BY DEF Init, EventsOf
<1>2. \A o \in Stored : o \in Object /\ rows[o] = [revision |-> 1, content |-> SeedContent]
  BY SeedAssumption DEF Init
<1>3. IdsInOrder
  BY SeedAssumption DEF Init, IdsInOrder
<1>4. RowIsLatestEvent
  <2> SUFFICES ASSUME NEW o \in Object
               PROVE  IF rows[o] = Nil
                      THEN EventsOf(o) = {}
                      ELSE \E e \in EventsOf(o) : /\ \A f \in EventsOf(o) : f.id <= e.id
                                                  /\ e.revision = rows[o].revision
                                                  /\ e.content = rows[o].content
    BY DEF RowIsLatestEvent
  <2>1. CASE o \notin Stored
    BY <1>1, <2>1 DEF Init
  <2>2. CASE o \in Stored
    <3>1. rows[o] # Nil
      BY <1>2, <2>2, NilAssumption, SeedAssumption DEF Row
    <3>2. /\ seed(o) \in EventsOf(o)
          /\ \A f \in EventsOf(o) : f = seed(o)
      BY <1>1, <2>2
    <3>3. seed(o).revision = rows[o].revision /\ seed(o).content = rows[o].content
      BY <1>2, <2>2
    <3>4. seed(o).id \in Nat
      BY <2>2, SeedAssumption
    <3> HIDE DEF seed
    <3>5. \A f \in EventsOf(o) : f.id <= seed(o).id
      BY <3>2, <3>4
    <3> QED
      BY <3>1, <3>2, <3>3, <3>5
  <2> QED
    BY <2>1, <2>2
<1>5. HistoryIsLinear
  <2> SUFFICES ASSUME NEW o \in Stored
               PROVE  /\ {e.revision : e \in EventsOf(o)} = 1 .. rows[o].revision
                      /\ \A e, f \in EventsOf(o) : e.id < f.id <=> e.revision < f.revision
    BY DEF HistoryIsLinear
  <2>1. EventsOf(o) = {seed(o)}
    BY <1>1, <1>2
  <2>2. seed(o).revision = 1 /\ seed(o).id \in Nat /\ rows[o].revision = 1
    BY <1>2, SeedAssumption
  <2> HIDE DEF seed
  <2>3. {e.revision : e \in EventsOf(o)} = {1}
    BY <2>1, <2>2
  <2>4. 1 .. rows[o].revision = {1}
    BY <2>2
  <2> QED
    BY <2>1, <2>2, <2>3, <2>4
<1> QED
  BY <1>3, <1>4, <1>5 DEF EventInv

LEMMA EventNext == TypeInv /\ LockInv /\ EventInv /\ [Next]_vars => EventInv'
<1> SUFFICES ASSUME TypeInv, LockInv, EventInv, [Next]_vars PROVE EventInv'
  OBVIOUS
<1>0. TypeOK
  BY DEF TypeInv
<1>1. CASE rows' = rows /\ events' = events
  <2>1. RowIsLatestEvent' /\ HistoryIsLinear'
    BY <1>1 DEF EventInv, RowIsLatestEvent, HistoryIsLinear, EventsOf
  <2>2. IdsInOrder'
    <3>1. ASSUME NEW h \in Handler, Step(h), ~Log(h), pc'[h] # "logged", nextId' = nextId
          PROVE  IdsInOrder'
      BY <1>0, <1>1, <3>1, OthersHold DEF EventInv, IdsInOrder, EventsOf
    <3>2. ASSUME NEW h \in Handler, Log(h)
          PROVE  IdsInOrder'
      <4>1. Step(h) /\ nextId' = nextId + 1 /\ eventId'[h] = nextId /\ Op(h)' = Op(h)
        BY <1>0, <3>2 DEF Step, Work, Log, TypeOK, Op
      <4>2. nextId \in Nat /\ \A e \in events : e.id \in Nat /\ e.id < nextId
        BY <1>0 DEF TypeOK, Event, EventInv, IdsInOrder
      <4>3. \A e \in events' : e.id < nextId'
        BY <1>1, <4>1, <4>2
      <4>4. ASSUME NEW g \in Handler, pc'[g] = "logged"
            PROVE  /\ eventId'[g] < nextId'
                   /\ \A e \in EventsOf(Op(g).object)' : e.id < eventId'[g]
        <5>1. CASE g = h
          BY <1>1, <4>1, <4>2, <5>1 DEF EventsOf
        <5>2. CASE g # h
          <6>1. Op(g)' = Op(g) /\ pc[g] = "logged" /\ eventId'[g] = eventId[g]
            BY <1>0, <4>1, <4>4, <5>2, OthersHold
          <6>2. EventsOf(Op(g).object)' = EventsOf(Op(g).object)
            BY <1>1, <6>1 DEF EventsOf
          <6>3. eventId[g] \in Nat
            BY <1>0 DEF TypeOK
          <6> QED
            BY <4>1, <4>2, <6>1, <6>2, <6>3 DEF EventInv, IdsInOrder
        <5> QED
          BY <5>1, <5>2
      <4> QED
        BY <4>3, <4>4 DEF IdsInOrder
    <3>3. CASE UNCHANGED vars
      BY <1>1, <3>3 DEF vars, tables, locals, EventInv, IdsInOrder, EventsOf, Op
    <3>4. ASSUME NEW h \in Handler, Step(h), ~Log(h), ~Commit(h)
          PROVE  pc'[h] # "logged" /\ nextId' = nextId
      BY <1>0, <3>4 DEF Step, Work, Receive, Replay, Claim, Reject, Read, Conflict, Write,
                        Respond, Abort, CommitOutcome, Answer, TypeOK, tables
    <3>5. ASSUME NEW h \in Handler, Commit(h)
          PROVE  Step(h) /\ ~Log(h) /\ pc'[h] # "logged" /\ nextId' = nextId
      BY <1>0, <3>5 DEF Step, Work, Commit, Log, CommitOutcome, Answer, TypeOK
    <3> QED
      BY <3>1, <3>2, <3>3, <3>4, <3>5 DEF Next, Step
  <2> QED
    BY <2>1, <2>2 DEF EventInv
<1>2. ASSUME NEW h \in Handler, Commit(h)
      PROVE  EventInv'
  <2>0. PICK o : o = Op(h).object
    OBVIOUS
  <2> DEFINE row == [revision |-> Op(h).revision, content |-> Op(h).content]
         new == [id |-> eventId[h], object |-> o, revision |-> Op(h).revision,
                     content |-> Op(h).content]
  <2>1. /\ Step(h) /\ pc'[h] = "next" /\ nextId' = nextId
        /\ rows' = [rows EXCEPT ![o] = row] /\ events' = events \cup {new}
    BY <1>0, <1>2, <2>0 DEF Step, Work, Commit, CommitOutcome, Answer, TypeOK
  <2>2. Op(h) \in Operation /\ o \in Object
    BY <1>0, <1>2, <2>0, OpType DEF Commit, TypeInv, AtObject, InTransaction, Operation
  <2>3. row \in Row /\ row # Nil
    BY <1>2, <2>2, NilAssumption
       DEF Commit, TypeInv, Validated, PastChecks, Operation, Row
  <2>4. \A e \in events : e.id \in Nat /\ e.revision \in Nat
    BY <1>0 DEF TypeOK, Event
  <2>5. /\ eventId[h] \in Nat /\ eventId[h] < nextId
        /\ \A e \in EventsOf(o) : e.id < eventId[h]
    BY <1>0, <1>2, <2>0 DEF Commit, EventInv, IdsInOrder, TypeOK
  <2>6. /\ EventsOf(o)' = EventsOf(o) \cup {new}
        /\ \A p \in Object \ {o} : EventsOf(p)' = EventsOf(p)
    BY <2>1 DEF EventsOf
  <2>7. IdsInOrder'
    <3>1. ASSUME NEW g \in Handler, g # h, pc'[g] = "logged"
          PROVE  /\ eventId'[g] < nextId'
                 /\ \A e \in EventsOf(Op(g).object)' : e.id < eventId'[g]
      <4>1. Op(g)' = Op(g) /\ pc[g] = "logged" /\ eventId'[g] = eventId[g]
        BY <1>0, <2>1, <3>1, OthersHold
      <4>2. Holds(g) /\ Holds(h)
        BY <1>2, <4>1 DEF Holds, HoldsRow, PastChecks, Commit
      <4>3. Op(g).object # o
        BY <2>0, <3>1, <4>2 DEF LockInv, OneHolder
      <4>4. Op(g).object \in Object
        BY <1>0, <4>1, OpType DEF TypeInv, AtObject, InTransaction, Operation
      <4>5. EventsOf(Op(g).object)' = EventsOf(Op(g).object)
        BY <2>6, <4>1, <4>3, <4>4
      <4> QED
        BY <2>1, <4>1, <4>5 DEF EventInv, IdsInOrder
    <3>2. \A e \in events' : e.id < nextId'
      BY <2>1, <2>5 DEF EventInv, IdsInOrder
    <3> QED
      BY <2>1, <3>1, <3>2 DEF IdsInOrder
  <2>8. RowIsLatestEvent'
    <3> SUFFICES ASSUME NEW p \in Object
                 PROVE  (IF rows[p] = Nil
                         THEN EventsOf(p) = {}
                         ELSE \E e \in EventsOf(p) : /\ \A f \in EventsOf(p) : f.id <= e.id
                                                     /\ e.revision = rows[p].revision
                                                     /\ e.content = rows[p].content)'
      BY DEF RowIsLatestEvent
    <3>1. CASE p = o
      <4>1. rows'[p] = row
        BY <1>0, <2>1, <2>2, <3>1 DEF TypeOK
      <4>2. new \in EventsOf(p)' /\ \A f \in EventsOf(p)' : f.id <= new.id
        BY <2>4, <2>5, <2>6, <3>1 DEF EventsOf
      <4> QED
        BY <2>3, <4>1, <4>2
    <3>2. CASE p # o
      <4>1. rows'[p] = rows[p] /\ EventsOf(p)' = EventsOf(p)
        BY <1>0, <2>1, <2>6, <3>2 DEF TypeOK
      <4> QED
        BY <4>1 DEF EventInv, RowIsLatestEvent
    <3> QED
      BY <3>1, <3>2
  <2>9. HistoryIsLinear'
    <3> SUFFICES ASSUME NEW p \in Stored
                 PROVE  (/\ {e.revision : e \in EventsOf(p)} = 1 .. rows[p].revision
                         /\ \A e, f \in EventsOf(p) : e.id < f.id <=> e.revision < f.revision)'
      BY DEF HistoryIsLinear
    <3>1. /\ {e.revision : e \in EventsOf(p)} = 1 .. rows[p].revision
          /\ \A e, f \in EventsOf(p) : e.id < f.id <=> e.revision < f.revision
      BY DEF EventInv, HistoryIsLinear
    <3>2. CASE p # o
      <4>1. rows'[p] = rows[p] /\ EventsOf(p)' = EventsOf(p)
        BY <1>0, <2>1, <2>6, <3>2, SeedAssumption DEF TypeOK
      <4> QED
        BY <3>1, <4>1
    <3>3. CASE p = o
      <4>1. rows[p] \in Row /\ Op(h).revision = rows[p].revision + 1
        BY <1>2, <2>0, <3>3, CommitPuts
      <4>2. rows[p].revision \in Nat /\ rows'[p].revision = rows[p].revision + 1
        BY <1>0, <2>1, <2>2, <3>3, <4>1 DEF TypeOK, Row
      <4>3. {e.revision : e \in EventsOf(p)'} = 1 .. rows'[p].revision
        <5>1. {e.revision : e \in EventsOf(p)'}
                = {e.revision : e \in EventsOf(p)} \cup {rows[p].revision + 1}
          <6>1. new.revision = rows[p].revision + 1
            BY <4>1
          <6> HIDE DEF new
          <6> QED
            BY <2>6, <3>3, <6>1
        <5> QED
          BY <3>1, <4>2, <5>1
      <4>4. \A e \in EventsOf(p) : e.revision < new.revision /\ e.id < new.id
        BY <2>5, <3>1, <3>3, <4>1, <4>2
      <4>5. \A e \in EventsOf(p) : e.id \in Nat /\ e.revision \in Nat
        BY <2>4 DEF EventsOf
      <4>6. new.id \in Nat /\ new.revision \in Nat
        BY <2>5, <4>1, <4>2
      <4>7. \A e, f \in EventsOf(p)' : e.id < f.id <=> e.revision < f.revision
        <5> HIDE DEF new
        <5> SUFFICES ASSUME NEW e \in EventsOf(p)', NEW f \in EventsOf(p)'
                     PROVE  e.id < f.id <=> e.revision < f.revision
          OBVIOUS
        <5>1. (e = new \/ e \in EventsOf(p)) /\ (f = new \/ f \in EventsOf(p))
          BY <2>6, <3>3
        <5> QED
          BY <3>1, <4>4, <4>5, <4>6, <5>1
      <4> QED
        BY <4>3, <4>7
    <3> QED
      BY <3>2, <3>3
  <2> QED
    BY <2>7, <2>8, <2>9 DEF EventInv
<1>3. CASE UNCHANGED vars
  BY <1>1, <1>3 DEF vars, tables
<1> QED
  BY <1>1, <1>2, <1>3
     DEF Next, Work, Receive, Replay, Claim, Reject, Read, Conflict, Write, Log, Respond,
         Abort, tables

(* The row of every object is its latest event, and the events of an object *)
(* with a row are its versions in order, however the requests interleave.   *)
THEOREM LogIsHistory == Spec => [](RowIsLatestEvent /\ HistoryIsLinear)
<1>1. EventInv => RowIsLatestEvent /\ HistoryIsLinear
  BY DEF EventInv
<1> QED
  BY <1>1, TypeInit, TypeNext, LockInit, LockNext, EventInit, EventNext, PTL DEF Spec

(* The row of an object and its latest event describe one version.          *)
THEOREM RowsMatchTheLog == Spec => []RowIsLatestEvent
BY LogIsHistory, PTL

-----------------------------------------------------------------------------
(* Idempotency keys.  A claimed key has no outcome yet and one claimant, so *)
(* an outcome that is saved is never replaced.                              *)

KeyInv ==
  \A h \in Handler : pc[h] \in InTransaction =>
    /\ Op(h).key \notin DOMAIN outcomes
    /\ \A g \in Handler \ {h} : pc[g] \in InTransaction => Op(g).key # Op(h).key

LEMMA KeyInit == Init => KeyInv
BY DEF Init, KeyInv, InTransaction

(* What is saved stays, and is what the handler adds to its response.       *)
LEMMA OutcomeSaved ==
  ASSUME TypeInv, KeyInv, NEW h \in Handler, pc[h] \in InTransaction,
         NEW r, CommitOutcome(h, r)
  PROVE  /\ DOMAIN outcomes' = DOMAIN outcomes \cup {Op(h).key}
         /\ outcomes'[Op(h).key] = r
         /\ Op(h).key \notin DOMAIN outcomes
         /\ \A k \in DOMAIN outcomes : outcomes'[k] = outcomes[k]
         /\ pc'[h] = "next"
BY DEF CommitOutcome, Saved, Answer, TypeInv, TypeOK, KeyInv

(* The three steps that end a transaction save an outcome.                  *)
LEMMA CommitsAnOutcome ==
  ASSUME TypeInv, NEW h \in Handler, Reject(h) \/ Conflict(h) \/ Commit(h)
  PROVE  pc[h] \in InTransaction /\ \E r \in Response : CommitOutcome(h, r)
<1>1. CASE Reject(h)
  BY <1>1 DEF Reject, InTransaction, Rejected, Response
<1>2. CASE Conflict(h)
  <2>1. Conflicted(h) \in Response
    BY DEF Conflicted, Response, CurrentRevision, TypeInv, TypeOK, Row
  <2> QED
    BY <1>2, <2>1 DEF Conflict, InTransaction
<1>3. CASE Commit(h)
  <2>1. Op(h) \in Operation
    BY <1>3, OpType DEF Commit, TypeInv, AtObject, InTransaction
  <2>2. Op(h).revision \in Nat /\ eventId[h] \in Nat
    BY <2>1 DEF Operation, TypeInv, TypeOK
  <2>3. Accepted(h) \in Response
    BY <2>2 DEF Accepted, Response
  <2> QED
    BY <1>3, <2>3 DEF Commit, InTransaction
<1> QED
  BY <1>1, <1>2, <1>3

(* A step either leaves the outcomes or commits one of a claimed key.       *)
LEMMA OutcomeSteps ==
  ASSUME TypeInv, NEW h \in Handler, Step(h)
  PROVE  \/ outcomes' = outcomes
         \/ pc[h] \in InTransaction /\ \E r \in Response : CommitOutcome(h, r)
<1>1. ASSUME ~Reject(h), ~Conflict(h), ~Commit(h)
      PROVE  outcomes' = outcomes
  BY <1>1 DEF Step, Work, Receive, Replay, Claim, Read, Write, Log, Respond, Abort, tables
<1> QED
  BY <1>1, CommitsAnOutcome

(* A handler that is in a transaction was in it before on the same object,  *)
(* or has just claimed a key that was free.                                 *)
LEMMA StaysOnKey ==
  ASSUME TypeInv, NEW h \in Handler, Step(h), pc'[h] \in InTransaction
  PROVE  /\ Op(h)' = Op(h) /\ outcomes' = outcomes
         /\ \/ pc[h] \in InTransaction
            \/ Op(h).key \notin DOMAIN outcomes /\ KeyFree(Op(h).key)
<1>0. TypeOK
  BY DEF TypeInv
<1>1. ASSUME Claim(h) \/ Read(h) \/ Write(h) \/ Log(h)
      PROVE  /\ Op(h)' = Op(h) /\ outcomes' = outcomes
             /\ \/ pc[h] \in InTransaction
                \/ Op(h).key \notin DOMAIN outcomes /\ KeyFree(Op(h).key)
  BY <1>1 DEF Claim, Read, Write, Log, Op, InTransaction, tables
<1>2. ASSUME ~(Claim(h) \/ Read(h) \/ Write(h) \/ Log(h))
      PROVE  pc'[h] \in {"next", "idle"}
  BY <1>0, <1>2 DEF Step, Work, Receive, Replay, Reject, Conflict, Commit, Respond, Abort,
                    CommitOutcome, Answer, TypeOK
<1> QED
  BY <1>1, <1>2 DEF InTransaction

LEMMA KeyNext == TypeInv /\ KeyInv /\ [Next]_vars => KeyInv'
<1> SUFFICES ASSUME TypeInv, KeyInv, [Next]_vars PROVE KeyInv'
  OBVIOUS
<1>0. TypeOK
  BY DEF TypeInv
<1>1. ASSUME NEW h \in Handler, Step(h)
      PROVE  KeyInv'
  <2>1. ASSUME NEW g \in Handler, g # h, pc'[g] \in InTransaction
        PROVE  /\ Op(g)' = Op(g) /\ pc[g] \in InTransaction
               /\ (Op(g).key \notin DOMAIN outcomes)'
    <3>1. Op(g)' = Op(g) /\ pc'[g] = pc[g]
      BY <1>0, <1>1, <2>1, OthersHold
    <3>2. Op(g).key \notin DOMAIN outcomes
      BY <2>1, <3>1 DEF KeyInv
    <3>3. ASSUME pc[h] \in InTransaction, NEW r, CommitOutcome(h, r)
          PROVE  Op(g).key \notin DOMAIN outcomes'
      <4>1. pc[g] \in InTransaction /\ Op(g).key # Op(h).key
        BY <2>1, <3>1, <3>3 DEF KeyInv
      <4>2. DOMAIN outcomes' = DOMAIN outcomes \cup {Op(h).key}
        BY <3>3, OutcomeSaved
      <4> QED
        BY <3>2, <4>1, <4>2
    <3> QED
      BY <1>1, <2>1, <3>1, <3>2, <3>3, OutcomeSteps
  <2>2. ASSUME pc'[h] \in InTransaction
        PROVE  /\ (Op(h).key \notin DOMAIN outcomes)'
               /\ \A g \in Handler \ {h} : pc'[g] \in InTransaction => Op(g).key' # Op(h).key'
    <3>1. /\ Op(h)' = Op(h) /\ outcomes' = outcomes
          /\ \/ pc[h] \in InTransaction
             \/ Op(h).key \notin DOMAIN outcomes /\ KeyFree(Op(h).key)
      BY <1>1, <2>2, StaysOnKey
    <3>2. Op(h).key \notin DOMAIN outcomes
      BY <3>1 DEF KeyInv
    <3>3. ASSUME NEW g \in Handler \ {h}, pc'[g] \in InTransaction
          PROVE  Op(g).key' # Op(h).key'
      <4>1. Op(g)' = Op(g) /\ pc[g] \in InTransaction
        BY <2>1, <3>3
      <4> QED
        BY <3>1, <4>1 DEF KeyInv, KeyFree, HoldsKey
    <3> QED
      BY <3>1, <3>2, <3>3
  <2>3. ASSUME NEW g \in Handler, pc'[g] \in InTransaction, NEW k \in Handler \ {g},
               pc'[k] \in InTransaction
        PROVE  Op(k).key' # Op(g).key'
    <3>1. CASE g = h
      BY <2>2, <2>3, <3>1
    <3>2. CASE k = h
      BY <2>2, <2>3, <3>2
    <3>3. CASE g # h /\ k # h
      BY <2>1, <2>3, <3>3 DEF KeyInv
    <3> QED
      BY <3>1, <3>2, <3>3
  <2>4. ASSUME NEW g \in Handler, pc'[g] \in InTransaction
        PROVE  (Op(g).key \notin DOMAIN outcomes)'
    BY <2>1, <2>2, <2>4
  <2> QED
    BY <2>3, <2>4 DEF KeyInv
<1>2. CASE UNCHANGED vars
  BY <1>2 DEF vars, tables, locals, KeyInv, Op
<1> QED
  BY <1>1, <1>2 DEF Next, Step

(* What is in the idempotency table stays in it as it is.                   *)
LEMMA OutcomesKept ==
  ASSUME TypeInv, KeyInv, NEW h \in Handler, Step(h)
  PROVE  \A k \in DOMAIN outcomes : k \in DOMAIN outcomes' /\ outcomes'[k] = outcomes[k]
<1>1. ASSUME pc[h] \in InTransaction, NEW r \in Response, CommitOutcome(h, r)
      PROVE  \A k \in DOMAIN outcomes : k \in DOMAIN outcomes' /\ outcomes'[k] = outcomes[k]
  BY <1>1, OutcomeSaved
<1> QED
  BY <1>1, OutcomeSteps

(* What a step adds to a response is in the table after the step.           *)
LEMMA RepliesGrow ==
  ASSUME TypeInv, KeyInv, NEW h \in Handler, Step(h)
  PROVE  /\ \A g \in Handler \ {h} : replies'[g] = replies[g]
         /\ \/ replies'[h] \in {<<>>, replies[h]}
            \/ \E e : /\ replies'[h] = Append(replies[h], e)
                     /\ e.key \in DOMAIN outcomes' /\ outcomes'[e.key] = e.outcome
<1>0. TypeOK
  BY DEF TypeInv
<1> DEFINE Entry(r) == [key |-> Op(h).key, outcome |-> r]
<1>1. ASSUME NEW r, Answer(h, r)
      PROVE  /\ \A g \in Handler \ {h} : replies'[g] = replies[g]
             /\ replies'[h] = Append(replies[h], Entry(r))
  BY <1>0, <1>1 DEF Answer, TypeOK
<1>2. ASSUME Replay(h)
      PROVE  /\ \A g \in Handler \ {h} : replies'[g] = replies[g]
             /\ replies'[h] = Append(replies[h], Entry(outcomes[Op(h).key]))
             /\ Op(h).key \in DOMAIN outcomes' /\ outcomes' = outcomes
  BY <1>1, <1>2 DEF Replay, tables
<1>3. ASSUME pc[h] \in InTransaction, NEW r \in Response, CommitOutcome(h, r)
      PROVE  /\ \A g \in Handler \ {h} : replies'[g] = replies[g]
             /\ replies'[h] = Append(replies[h], Entry(r))
             /\ Op(h).key \in DOMAIN outcomes' /\ outcomes'[Op(h).key] = r
  BY <1>1, <1>3, OutcomeSaved DEF CommitOutcome
<1>4. ASSUME ~Replay(h), ~Reject(h), ~Conflict(h), ~Commit(h)
      PROVE  /\ \A g \in Handler \ {h} : replies'[g] = replies[g]
             /\ replies'[h] \in {<<>>, replies[h]}
  BY <1>0, <1>4 DEF Step, Work, Receive, Claim, Read, Write, Log, Respond, Abort, TypeOK
<1>5. CASE Reject(h) \/ Conflict(h) \/ Commit(h)
  <2>1. PICK r \in Response : pc[h] \in InTransaction /\ CommitOutcome(h, r)
    BY <1>5, CommitsAnOutcome
  <2>2. /\ \A g \in Handler \ {h} : replies'[g] = replies[g]
        /\ replies'[h] = Append(replies[h], Entry(r))
        /\ Entry(r).key \in DOMAIN outcomes' /\ outcomes'[Entry(r).key] = Entry(r).outcome
    BY <1>3, <2>1
  <2> QED
    BY <2>2
<1>6. CASE Replay(h)
  <2>1. /\ \A g \in Handler \ {h} : replies'[g] = replies[g]
        /\ replies'[h] = Append(replies[h], Entry(outcomes[Op(h).key]))
        /\ Entry(outcomes[Op(h).key]).key \in DOMAIN outcomes'
        /\ outcomes'[Entry(outcomes[Op(h).key]).key] = Entry(outcomes[Op(h).key]).outcome
    BY <1>2, <1>6
  <2> QED
    BY <2>1
<1> QED
  BY <1>4, <1>5, <1>6

(* Everything a handler will say is in the idempotency table as it says it. *)
LEMMA RepliesNext ==
  TypeInv /\ KeyInv /\ RepliesAreDurable /\ [Next]_vars => RepliesAreDurable'
<1> SUFFICES ASSUME TypeInv, KeyInv, RepliesAreDurable, [Next]_vars PROVE RepliesAreDurable'
  OBVIOUS
<1>1. ASSUME NEW h \in Handler, Step(h)
      PROVE  RepliesAreDurable'
  <2> SUFFICES ASSUME NEW g \in Handler, NEW i \in DOMAIN replies'[g]
               PROVE  /\ replies'[g][i].key \in DOMAIN outcomes'
                      /\ outcomes'[replies'[g][i].key] = replies'[g][i].outcome
    BY DEF RepliesAreDurable
  <2>1. ASSUME i \in DOMAIN replies[g], replies'[g][i] = replies[g][i]
        PROVE  /\ replies'[g][i].key \in DOMAIN outcomes'
               /\ outcomes'[replies'[g][i].key] = replies'[g][i].outcome
    BY <1>1, <2>1, OutcomesKept DEF RepliesAreDurable
  <2>2. CASE replies'[g] = replies[g]
    BY <2>1, <2>2
  <2>3. CASE replies'[g] = <<>>
    BY <2>3
  <2>4. ASSUME NEW e, replies'[g] = Append(replies[g], e),
               e.key \in DOMAIN outcomes', outcomes'[e.key] = e.outcome
        PROVE  /\ replies'[g][i].key \in DOMAIN outcomes'
               /\ outcomes'[replies'[g][i].key] = replies'[g][i].outcome
    <3>1. replies[g] \in Seq(Reply)
      BY DEF TypeInv, TypeOK
    <3>2. \/ i \in DOMAIN replies[g] /\ replies'[g][i] = replies[g][i]
          \/ replies'[g][i] = e
      BY <2>4, <3>1
    <3> QED
      BY <2>1, <2>4, <3>2
  <2> QED
    BY <1>1, <2>2, <2>3, <2>4, RepliesGrow
<1>2. CASE UNCHANGED vars
  BY <1>2 DEF vars, tables, locals, RepliesAreDurable
<1> QED
  BY <1>1, <1>2 DEF Next, Step

(* A response says what is committed, also when the request is a repeat.    *)
THEOREM RepliesDurable == Spec => []RepliesAreDurable
<1>1. Init => RepliesAreDurable
  BY DEF Init, RepliesAreDurable
<1> QED
  BY <1>1, TypeInit, TypeNext, KeyInit, KeyNext, RepliesNext, PTL DEF Spec

-----------------------------------------------------------------------------
(* Event ids are given out once: the one a handler has taken is in no event *)
(* yet, and no other handler has it.                                        *)

IdsAreFresh ==
  /\ \A e \in events : e.id < nextId
  /\ \A h \in Handler : pc[h] = "logged" =>
       /\ eventId[h] < nextId
       /\ \A e \in events : e.id # eventId[h]
       /\ \A g \in Handler \ {h} : pc[g] = "logged" => eventId[g] # eventId[h]

OperationInv == IdsAreFresh /\ OneEventPerOperation

LEMMA OperationInit == Init => OperationInv
<1> SUFFICES ASSUME Init PROVE OperationInv
  OBVIOUS
<1>1. \A e \in events : \E o \in Stored : e.id = Seed[o]
  BY DEF Init
<1>2. DOMAIN outcomes = {} /\ nextId = FirstId /\ \A h \in Handler : pc[h] = "idle"
  BY DEF Init
<1> QED
  BY <1>1, <1>2, SeedAssumption DEF OperationInv, IdsAreFresh, OneEventPerOperation

(* Only Log gives an id out, and only to the handler that logs.             *)
LEMMA IdsNext ==
  ASSUME TypeInv, IdsAreFresh, NEW h \in Handler, Step(h)
  PROVE  IdsAreFresh'
<1>0. TypeOK
  BY DEF TypeInv
<1>1. nextId \in Nat /\ eventId \in [Handler -> Nat] /\ \A e \in events : e.id \in Nat
  BY <1>0 DEF TypeOK, Event
<1>2. \A g \in Handler \ {h} : pc'[g] = pc[g] /\ eventId'[g] = eventId[g]
  BY <1>0, OthersUnchanged
<1>3. CASE Log(h)
  <2>1. nextId' = nextId + 1 /\ eventId'[h] = nextId /\ events' = events
    BY <1>0, <1>3 DEF Log, TypeOK
  <2>2. \A e \in events' : e.id < nextId'
    BY <1>1, <2>1 DEF IdsAreFresh
  <2>3. ASSUME NEW g \in Handler, pc'[g] = "logged"
        PROVE  /\ eventId'[g] < nextId'
               /\ \A e \in events' : e.id # eventId'[g]
    BY <1>1, <1>2, <2>1, <2>3 DEF IdsAreFresh
  <2>4. ASSUME NEW g \in Handler, NEW k \in Handler \ {g}, pc'[g] = "logged", pc'[k] = "logged"
        PROVE  eventId'[k] # eventId'[g]
    <3>1. CASE g = h
      <4>1. eventId[k] < nextId /\ eventId'[k] = eventId[k]
        BY <1>2, <2>4, <3>1 DEF IdsAreFresh
      <4> QED
        BY <1>1, <2>1, <3>1, <4>1
    <3>2. CASE k = h
      <4>1. eventId[g] < nextId /\ eventId'[g] = eventId[g]
        BY <1>2, <2>4, <3>2 DEF IdsAreFresh
      <4> QED
        BY <1>1, <2>1, <3>2, <4>1
    <3>3. CASE g # h /\ k # h
      BY <1>2, <2>4, <3>3 DEF IdsAreFresh
    <3> QED
      BY <3>1, <3>2, <3>3
  <2> QED
    BY <2>2, <2>3, <2>4 DEF IdsAreFresh
<1>4. CASE Commit(h)
  <2>1. /\ nextId' = nextId /\ pc'[h] = "next" /\ pc[h] = "logged"
        /\ \A e \in events' : e \in events \/ e.id = eventId[h]
    BY <1>0, <1>4 DEF Commit, CommitOutcome, Answer, TypeOK
  <2> QED
    BY <1>2, <2>1 DEF IdsAreFresh
<1>5. CASE ~Log(h) /\ ~Commit(h)
  <2>1. nextId' = nextId /\ pc'[h] # "logged" /\ events' = events
    BY <1>0, <1>5 DEF Step, Work, Receive, Replay, Claim, Reject, Read, Conflict, Write,
                      Respond, Abort, CommitOutcome, Answer, TypeOK, tables
  <2> QED
    BY <1>2, <2>1 DEF IdsAreFresh
<1> QED
  BY <1>3, <1>4, <1>5

LEMMA OperationNext == TypeInv /\ KeyInv /\ OperationInv /\ [Next]_vars => OperationInv'
<1> SUFFICES ASSUME TypeInv, KeyInv, OperationInv, [Next]_vars PROVE OperationInv'
  OBVIOUS
<1>0. TypeOK
  BY DEF TypeInv
<1>1. ASSUME NEW h \in Handler, Step(h)
      PROVE  OneEventPerOperation'
  <2>1. CASE Commit(h)
    <3> DEFINE key == Op(h).key
               new == [id |-> eventId[h], object |-> Op(h).object,
                       revision |-> Op(h).revision, content |-> Op(h).content]
    <3>1. /\ DOMAIN outcomes' = DOMAIN outcomes \cup {key} /\ key \notin DOMAIN outcomes
          /\ outcomes'[key] = Accepted(h)
          /\ \A k \in DOMAIN outcomes : outcomes'[k] = outcomes[k]
      <4>1. pc[h] \in InTransaction /\ CommitOutcome(h, Accepted(h))
        BY <2>1 DEF Commit, InTransaction
      <4> QED
        BY <4>1, OutcomeSaved
    <3>2. events' = events \cup {new} /\ pc[h] = "logged"
      BY <2>1 DEF Commit
    <3>3. /\ Accepted(h).kind = "accepted" /\ Accepted(h).id = eventId[h]
          /\ Accepted(h).revision = Op(h).revision
      BY DEF Accepted
    <3>4. \A e \in events : e.id # eventId[h]
      BY <3>2 DEF OperationInv, IdsAreFresh
    <3>5. \A k \in DOMAIN outcomes : outcomes[k].kind = "accepted" => outcomes[k].id # eventId[h]
      BY <3>4 DEF OperationInv, OneEventPerOperation
    <3>6. new.id = eventId[h] /\ new.revision = Op(h).revision
      OBVIOUS
    <3> HIDE DEF key, new
    <3>7. \A k \in DOMAIN outcomes' : outcomes'[k].kind = "accepted" =>
            \E e \in events' : e.id = outcomes'[k].id /\ e.revision = outcomes'[k].revision
      BY <3>1, <3>2, <3>3, <3>6 DEF OperationInv, OneEventPerOperation
    <3>8. ASSUME NEW e \in events'
          PROVE  \/ \E o \in Stored : e.id = Seed[o]
                 \/ \E k \in DOMAIN outcomes' :
                      /\ outcomes'[k].kind = "accepted" /\ outcomes'[k].id = e.id
                      /\ \A j \in DOMAIN outcomes' \ {k} :
                           ~(outcomes'[j].kind = "accepted" /\ outcomes'[j].id = e.id)
      <4>1. CASE e = new
        BY <3>1, <3>3, <3>5, <3>6, <4>1
      <4>2. CASE e \in events
        <5>1. CASE \E o \in Stored : e.id = Seed[o]
          BY <5>1
        <5>2. CASE ~\E o \in Stored : e.id = Seed[o]
          <6>1. PICK k \in DOMAIN outcomes :
                  /\ outcomes[k].kind = "accepted" /\ outcomes[k].id = e.id
                  /\ \A j \in DOMAIN outcomes \ {k} :
                       ~(outcomes[j].kind = "accepted" /\ outcomes[j].id = e.id)
            BY <4>2, <5>2 DEF OperationInv, OneEventPerOperation
          <6>2. e.id # eventId[h]
            BY <3>4, <4>2
          <6> QED
            BY <3>1, <3>3, <6>1, <6>2
        <5> QED
          BY <5>1, <5>2
      <4> QED
        BY <3>2, <4>1, <4>2
    <3> QED
      BY <3>7, <3>8 DEF OneEventPerOperation
  <2>2. ASSUME pc[h] \in InTransaction, NEW r, r.kind # "accepted", CommitOutcome(h, r),
               events' = events
        PROVE  OneEventPerOperation'
    <3>1. /\ DOMAIN outcomes' = DOMAIN outcomes \cup {Op(h).key}
          /\ outcomes'[Op(h).key].kind # "accepted" /\ Op(h).key \notin DOMAIN outcomes
          /\ \A k \in DOMAIN outcomes : outcomes'[k] = outcomes[k]
      BY <2>2, OutcomeSaved
    <3>2. \A k \in DOMAIN outcomes' : outcomes'[k].kind = "accepted" =>
            k \in DOMAIN outcomes /\ outcomes[k] = outcomes'[k]
      BY <3>1
    <3>3. ASSUME NEW e \in events, NEW k \in DOMAIN outcomes,
                 outcomes[k].kind = "accepted", outcomes[k].id = e.id,
                 \A j \in DOMAIN outcomes \ {k} :
                   ~(outcomes[j].kind = "accepted" /\ outcomes[j].id = e.id)
          PROVE  /\ k \in DOMAIN outcomes'
                 /\ outcomes'[k].kind = "accepted" /\ outcomes'[k].id = e.id
                 /\ \A j \in DOMAIN outcomes' \ {k} :
                      ~(outcomes'[j].kind = "accepted" /\ outcomes'[j].id = e.id)
      BY <3>1, <3>2, <3>3
    <3> QED
      BY <2>2, <3>2, <3>3 DEF OperationInv, OneEventPerOperation
  <2>3. CASE Reject(h) \/ Conflict(h)
    <3>1. PICK r : CommitOutcome(h, r) /\ r.kind # "accepted"
      BY <2>3 DEF Reject, Conflict, Rejected, Conflicted
    <3>2. pc[h] \in InTransaction /\ events' = events
      BY <2>3 DEF Reject, Conflict, InTransaction
    <3> QED
      BY <2>2, <3>1, <3>2
  <2>4. CASE ~Commit(h) /\ ~Reject(h) /\ ~Conflict(h)
    <3>1. events' = events /\ outcomes' = outcomes
      BY <1>1, <2>4 DEF Step, Work, Receive, Replay, Claim, Read, Write, Log, Respond, Abort,
                       tables
    <3> QED
      BY <3>1 DEF OperationInv, OneEventPerOperation
  <2> QED
    BY <2>1, <2>3, <2>4
<1>2. ASSUME NEW h \in Handler, Step(h)
      PROVE  OperationInv'
  BY <1>1, <1>2, IdsNext DEF OperationInv
<1>3. CASE UNCHANGED vars
  BY <1>3 DEF vars, tables, locals, OperationInv, IdsAreFresh, OneEventPerOperation
<1> QED
  BY <1>2, <1>3 DEF Next, Step

(* However often a request is sent and wherever it is cut, an accepted      *)
(* operation has one event and an event one operation.                      *)
THEOREM OperationsHaveOneEvent == Spec => []OneEventPerOperation
<1>1. OperationInv => OneEventPerOperation
  BY DEF OperationInv
<1> QED
  BY <1>1, TypeInit, TypeNext, KeyInit, KeyNext, OperationInit, OperationNext, PTL DEF Spec

-----------------------------------------------------------------------------
(* Facts about what the readers are built from: the greatest element of a   *)
(* bounded set, the rank of an event, and what a device has after a page.   *)

LEMMA MaxOfBounded ==
  ASSUME NEW S \in SUBSET Nat, S # {}, NEW n \in Nat, \A s \in S : s <= n
  PROVE  Max(S) \in S /\ \A s \in S : s <= Max(S)
<1> DEFINE T == {n - s : s \in S}
<1>1. T \subseteq Nat
  <2> SUFFICES ASSUME NEW s \in S PROVE n - s \in Nat
    OBVIOUS
  <2>1. s \in Nat /\ s <= n
    OBVIOUS
  <2> QED
    BY <2>1
<1>0. T # {}
  OBVIOUS
<1> HIDE DEF T
<1>2. PICK x \in T : \A y \in T : ~ (<<y, x>> \in OpToRel(<, Nat))
  BY <1>1, <1>0, NatLessThanWellFounded, WFMin
<1>3. \A y \in T : x <= y
  <2> SUFFICES ASSUME NEW y \in T PROVE ~(y < x)
    BY <1>1
  <2>1. <<y, x>> \in Nat \X Nat
    BY <1>1
  <2>2. ~(<<y, x>> \in {ss \in Nat \X Nat : ss[1] < ss[2]})
    BY <1>2 DEF OpToRel
  <2> QED
    BY <2>1, <2>2
<1>4. PICK m \in S : x = n - m
  BY DEF T
<1>5. \A s \in S : n - m <= n - s
  BY <1>3, <1>4 DEF T
<1>6. \A s \in S : m >= s
  <2> SUFFICES ASSUME NEW s \in S PROVE m >= s
    OBVIOUS
  <2>1. n - m <= n - s /\ s \in Nat /\ m \in Nat
    BY <1>5
  <2> QED
    BY <2>1
<1> QED
  BY <1>6 DEF Max

LEMMA RankBelowSize ==
  ASSUME NEW S \in SUBSET Event, IsFiniteSet(S), NEW e \in S
  PROVE  Rank(e, S) \in Nat /\ Rank(e, S) < Cardinality(S)
<1> DEFINE below == {f \in S : f.id < e.id}
<1>1. below \subseteq S \ {e}
  BY DEF Event
<1>2. IsFiniteSet(S \ {e}) /\ Cardinality(S \ {e}) = Cardinality(S) - 1
  BY FS_RemoveElement
<1>3. IsFiniteSet(below) /\ Cardinality(below) <= Cardinality(S \ {e})
  BY <1>1, <1>2, FS_Subset
<1>4. Cardinality(S) \in Nat /\ Cardinality(below) \in Nat
  BY <1>3, FS_CardinalityType
<1> HIDE DEF below
<1>5. Cardinality(below) < Cardinality(S)
  BY <1>2, <1>3, <1>4
<1> QED
  BY <1>4, <1>5 DEF Rank, below

LEMMA RankInOrder ==
  ASSUME NEW S \in SUBSET Event, IsFiniteSet(S), NEW e \in S, NEW f \in S, f.id <= e.id
  PROVE  Rank(f, S) <= Rank(e, S)
<1> DEFINE below(g) == {k \in S : k.id < g.id}
<1>1. below(f) \subseteq below(e)
  BY DEF Event
<1>2. IsFiniteSet(below(e))
  BY FS_Subset
<1>3. Cardinality(below(f)) <= Cardinality(below(e))
  BY <1>1, <1>2, FS_Subset
<1> QED
  BY <1>3 DEF Rank

RevisionsBounded == \E n \in Nat : \A e \in events : e.revision <= n

LEMMA TakeKeepsNewest ==
  ASSUME TypeOK, RevisionsBounded, NEW r \in [Object -> Nat], NEW page \in SUBSET events
  PROVE  /\ Take(r, page) \in [Object -> Nat]
         /\ \A o \in Object : Take(r, page)[o] >= r[o]
         /\ \A e \in page : Take(r, page)[e.object] >= e.revision
<1> DEFINE revs(o) == {r[o]} \cup {e.revision : e \in {f \in page : f.object = o}}
<1>1. ASSUME NEW o \in Object
      PROVE  Max(revs(o)) \in revs(o) /\ \A n \in revs(o) : n <= Max(revs(o))
  <2>1. revs(o) \in SUBSET Nat /\ revs(o) # {}
    BY DEF TypeOK, Event
  <2>2. PICK n \in Nat : \A e \in events : e.revision <= n
    BY DEF RevisionsBounded
  <2>3. n + r[o] \in Nat /\ \A m \in revs(o) : m <= n + r[o]
    BY <2>1, <2>2
  <2> QED
    BY <2>1, <2>3, MaxOfBounded
<1>2. \A o \in Object : revs(o) \subseteq Nat
  BY DEF TypeOK, Event
<1>3. Take(r, page) = [o \in Object |-> Max(revs(o))]
  BY DEF Take
<1>4. \A o \in Object : r[o] \in revs(o)
  OBVIOUS
<1>5. \A e \in page : e.object \in Object /\ e.revision \in revs(e.object)
  BY DEF TypeOK, Event
<1> HIDE DEF revs
<1> QED
  BY <1>1, <1>2, <1>3, <1>4, <1>5

-----------------------------------------------------------------------------
(* What the readers rest on.  Ids are not used twice and revisions are      *)
(* bounded, so the events up to a cursor are finitely many.                 *)

UniqueIds == \A e, f \in events : e.id = f.id => e = f

LogInv == TypeInv /\ LockInv /\ EventInv /\ IdsAreFresh /\ UniqueIds /\ RevisionsBounded

LEMMA LogInit == Init => LogInv
<1> SUFFICES ASSUME Init PROVE LogInv
  OBVIOUS
<1>1. UniqueIds
  BY SeedAssumption DEF Init, UniqueIds
<1>2. RevisionsBounded
  <2>1. 1 \in Nat /\ \A e \in events : e.revision <= 1
    BY DEF Init
  <2> QED
    BY <2>1 DEF RevisionsBounded
<1> QED
  BY <1>1, <1>2, TypeInit, LockInit, EventInit, OperationInit DEF LogInv, OperationInv

LEMMA LogNext == LogInv /\ [Next]_vars => LogInv'
<1> SUFFICES ASSUME LogInv, [Next]_vars PROVE LogInv'
  OBVIOUS
<1> USE DEF LogInv
<1>0. TypeOK
  BY DEF TypeInv
<1>1. ASSUME NEW h \in Handler, Commit(h)
      PROVE  UniqueIds' /\ RevisionsBounded'
  <2> DEFINE new == [id |-> eventId[h], object |-> Op(h).object,
                     revision |-> Op(h).revision, content |-> Op(h).content]
  <2>1. events' = events \cup {new} /\ pc[h] = "logged"
    BY <1>1 DEF Commit
  <2>2. \A e \in events : e.id # new.id
    BY <2>1 DEF IdsAreFresh
  <2>3. new.revision \in Nat
    BY <1>0, <2>1, OpType DEF TypeInv, AtObject, InTransaction, Operation
  <2> HIDE DEF new
  <2>4. PICK n \in Nat : \A e \in events : e.revision <= n
    BY DEF RevisionsBounded
  <2>5. \A e \in events : e.revision \in Nat
    BY <1>0 DEF TypeOK, Event
  <2>6. n + new.revision \in Nat /\ \A e \in events' : e.revision <= n + new.revision
    BY <2>1, <2>3, <2>4, <2>5
  <2>7. UniqueIds'
    BY <2>1, <2>2 DEF UniqueIds
  <2> QED
    BY <2>6, <2>7 DEF RevisionsBounded
<1>2. ASSUME events' = events
      PROVE  UniqueIds' /\ RevisionsBounded'
  <2>1. UniqueIds'
    BY <1>2 DEF UniqueIds
  <2>2. RevisionsBounded'
    BY <1>2 DEF RevisionsBounded
  <2> QED
    BY <2>1, <2>2
<1>3. UniqueIds' /\ RevisionsBounded'
  BY <1>1, <1>2 DEF Next, Work, Receive, Replay, Claim, Reject, Read, Conflict, Write, Log,
     Respond, Abort, tables, vars
<1>4. IdsAreFresh'
  <2>1. CASE UNCHANGED vars
    BY <2>1 DEF vars, tables, locals, IdsAreFresh
  <2> QED
    BY <2>1, IdsNext DEF Next, Step
<1> QED
  BY <1>3, <1>4, TypeNext, LockNext, EventNext

LEMMA EventsFinite ==
  ASSUME LogInv
  PROVE  IsFiniteSet(events)
<1> DEFINE id == [e \in events |-> e.id]
<1>1. nextId \in Nat /\ \A e \in events : e.id \in Nat /\ e.id < nextId
  BY DEF LogInv, TypeInv, TypeOK, Event, IdsAreFresh
<1>2. id \in Injection(events, 0 .. nextId)
  BY <1>1 DEF LogInv, UniqueIds, Injection, IsInjective
<1>3. IsFiniteSet(0 .. nextId)
  BY <1>1, FS_Interval
<1> HIDE DEF id
<1> QED
  BY <1>2, <1>3, FS_Injection

(* The later of two events of a stored object has the newer version.        *)
LEMMA LaterIsNewer ==
  ASSUME LogInv, NEW o \in Stored, NEW e \in EventsOf(o), NEW f \in EventsOf(o), e.id <= f.id
  PROVE  e.revision <= f.revision
<1>1. /\ e.id \in Nat /\ f.id \in Nat /\ e.revision \in Nat /\ f.revision \in Nat
  BY DEF LogInv, TypeInv, TypeOK, Event, EventsOf
<1>2. f.id < e.id <=> f.revision < e.revision
  BY DEF LogInv, EventInv, HistoryIsLinear
<1> QED
  BY <1>1, <1>2

(* The newest events of the objects, as far as a cursor goes, are enough to *)
(* have every version of these objects up to it: the log is a history.      *)
LEMMA SnapshotCovers ==
  ASSUME LogInv, NEW c \in Nat, NEW r \in [Object -> Nat], NEW left,
         \A e \in SnapshotAt(c) : e.object \notin left => r[e.object] >= e.revision
  PROVE  \A e \in events : e.object \in Stored \ left /\ e.id <= c => r[e.object] >= e.revision
<1> SUFFICES ASSUME NEW e \in events, e.object \in Stored, e.object \notin left, e.id <= c
             PROVE  r[e.object] >= e.revision
  OBVIOUS
<1>0. \A f \in events : f.id \in Nat /\ f.revision \in Nat /\ f.object \in Object
  BY DEF LogInv, TypeInv, TypeOK, Event
<1> DEFINE ids == {f.id : f \in {g \in EventsOf(e.object) : g.id <= c}}
<1>1. ids \in SUBSET Nat /\ ids # {} /\ \A i \in ids : i <= c
  BY <1>0 DEF EventsOf
<1>2. Max(ids) \in ids /\ \A i \in ids : i <= Max(ids)
  BY <1>1, MaxOfBounded
<1>3. PICK f \in EventsOf(e.object) : f.id <= c /\ f.id = Max(ids)
  BY <1>2
<1>4. \A g \in EventsOf(e.object) : g.id <= c => g.id <= f.id
  BY <1>2, <1>3
<1>5. f \in events /\ f.object = e.object
  BY DEF EventsOf
<1>6. f \in SnapshotAt(c)
  BY <1>3, <1>4, <1>5 DEF SnapshotAt
<1>7. e \in EventsOf(e.object) /\ e.id <= f.id
  BY <1>4 DEF EventsOf
<1>8. e.revision <= f.revision
  BY <1>0, <1>5, <1>7, LaterIsNewer
<1>9. r[e.object] >= f.revision
  BY <1>5, <1>6
<1> QED
  BY <1>0, <1>5, <1>8, <1>9

-----------------------------------------------------------------------------
(* Readers.  While no transaction that took an id up to the cursor is open, *)
(* the events up to the cursor are all there; a pull has those up to the    *)
(* page it asks for next, a resync those of the pages before its offset.    *)

Modes == {"none", "restore", "resync", "pull", "pulled"}

ReadersTypeOK ==
  /\ received \in [Device -> [Object -> Nat]]
  /\ cursor \in [Device -> Nat]
  /\ reading \in [Device -> [mode : Modes, offset : Nat, cursor : Nat]]
  /\ exposed \in [Device -> BOOLEAN]
  /\ unread \in [Device -> SUBSET Object]

InLog(c) == c = 0 \/ \E e \in events : e.id = c

(* The cursors of a device are ids of the log.                              *)
CursorsInLog(d) == InLog(cursor[d]) /\ InLog(reading[d].cursor)

NonePending(d) == ~exposed[d] => ~PendingUpTo(cursor[d]) /\ ~PendingUpTo(reading[d].cursor)

HasPagesBefore(d) ==
  \A e \in SnapshotOf(d) :
    Rank(e, SnapshotOf(d)) < reading[d].offset => received[d][e.object] >= e.revision

ReadSoFar(d) ==
  /\ reading[d].mode = "restore" => received[d] = Nothing
  /\ ~exposed[d] /\ reading[d].mode = "none" /\ received[d] # Nothing =>
       Covers(d, cursor[d], unread[d])
  /\ ~exposed[d] /\ reading[d].mode \in {"pull", "pulled"} =>
       Covers(d, reading[d].cursor, unread[d])
  /\ ~exposed[d] /\ reading[d].mode = "resync" =>
       HasPagesBefore(d) /\ (received[d] # Nothing => Covers(d, cursor[d], unread[d]))
  /\ reading[d].mode \in {"resync", "pull", "pulled"} => cursor[d] <= reading[d].cursor

DeviceInv(d) == CursorsInLog(d) /\ NonePending(d) /\ ReadSoFar(d)

ReadersInv == ReadersTypeOK /\ \A d \in Device : DeviceInv(d)

LEMMA LatestInLog ==
  ASSUME LogInv
  PROVE  /\ LatestCursor \in Nat /\ InLog(LatestCursor)
         /\ \A e \in events : e.id <= LatestCursor
<1> DEFINE ids == {e.id : e \in events} \cup {0}
<1>1. ids \in SUBSET Nat /\ ids # {}
  BY DEF LogInv, TypeInv, TypeOK, Event
<1>2. nextId \in Nat /\ \A i \in ids : i <= nextId
  BY DEF LogInv, TypeInv, TypeOK, Event, IdsAreFresh
<1>3. Max(ids) \in ids /\ \A i \in ids : i <= Max(ids)
  BY <1>1, <1>2, MaxOfBounded
<1>4. LatestCursor = Max(ids)
  BY DEF LatestCursor
<1> QED
  BY <1>1, <1>3, <1>4 DEF InLog

LEMMA InLogBelowNext ==
  ASSUME LogInv, NEW c \in Nat, InLog(c)
  PROVE  c < nextId
BY DEF LogInv, TypeInv, TypeOK, Event, IdsAreFresh, InLog

(* No step of the server adds an event up to a cursor that is below every   *)
(* pending id, or hands out an id up to a cursor of the log.                *)
LEMMA EventsSettled ==
  ASSUME LogInv, [Next]_vars, NEW c \in Nat, InLog(c)
  PROVE  /\ InLog(c)'
         /\ ~PendingUpTo(c) => /\ ~PendingUpTo(c)'
                               /\ {e \in events' : e.id <= c} = {e \in events : e.id <= c}
<1>0. TypeOK /\ c < nextId
  BY InLogBelowNext DEF LogInv, TypeInv
<1>1. eventId \in [Handler -> Nat] /\ nextId \in Nat
  BY <1>0 DEF TypeOK
<1>2. ASSUME NEW h \in Handler, Step(h), NEW g \in Handler, pc'[g] = "logged"
      PROVE  \/ pc[g] = "logged" /\ eventId'[g] = eventId[g]
             \/ eventId'[g] = nextId
  <2>1. CASE g # h
    BY <1>0, <1>2, <2>1, OthersUnchanged
  <2>2. CASE g = h
    <3>1. Log(h)
      BY <1>0, <1>2, <2>2 DEF Step, Work, Receive, Replay, Claim, Reject, Read, Conflict,
         Write, Commit, Respond, Abort, CommitOutcome, Answer, TypeOK
    <3> QED
      BY <1>0, <2>2, <3>1 DEF Log, TypeOK
  <2> QED
    BY <2>1, <2>2
<1>3. ASSUME NEW h \in Handler, Step(h)
      PROVE  \/ events' = events
             \/ \E e : events' = events \cup {e} /\ pc[h] = "logged" /\ e.id = eventId[h]
  <2>1. CASE Commit(h)
    BY <2>1 DEF Commit
  <2>2. CASE ~Commit(h)
    BY <1>3, <2>2 DEF Step, Work, Receive, Replay, Claim, Reject, Read, Conflict, Write, Log,
       Respond, Abort, tables
  <2> QED
    BY <2>1, <2>2
<1>4. CASE UNCHANGED vars
  BY <1>4 DEF vars, tables, locals, InLog, PendingUpTo, Pending
<1>5. ASSUME NEW h \in Handler, Step(h)
      PROVE  /\ InLog(c)'
             /\ ~PendingUpTo(c) => /\ ~PendingUpTo(c)'
                                   /\ {e \in events' : e.id <= c} = {e \in events : e.id <= c}
  <2>1. InLog(c)'
    BY <1>3, <1>5 DEF InLog
  <2>2. ASSUME ~PendingUpTo(c)
        PROVE  ~PendingUpTo(c)'
    BY <1>0, <1>1, <1>2, <1>5, <2>2 DEF PendingUpTo, Pending
  <2>3. ASSUME ~PendingUpTo(c)
        PROVE  {e \in events' : e.id <= c} = {e \in events : e.id <= c}
    <3>1. pc[h] = "logged" => ~(eventId[h] <= c)
      BY <2>3 DEF PendingUpTo, Pending
    <3> QED
      BY <1>3, <1>5, <3>1
  <2> QED
    BY <2>1, <2>2, <2>3
<1> QED
  BY <1>4, <1>5 DEF Next, Step

LEMMA SnapshotSettled ==
  ASSUME NEW c, {e \in events' : e.id <= c} = {e \in events : e.id <= c}
  PROVE  SnapshotAt(c)' = SnapshotAt(c)
BY DEF SnapshotAt, EventsOf

(* What a device has read stays enough while the server works.              *)
LEMMA ServerKeepsDevice ==
  ASSUME LogInv, ReadersTypeOK, [Next]_vars, UNCHANGED readers,
         NEW d \in Device, DeviceInv(d)
  PROVE  DeviceInv(d)'
<1> DEFINE c == cursor[d]  rc == reading[d].cursor
<1>1. c \in Nat /\ rc \in Nat /\ InLog(c) /\ InLog(rc)
  BY DEF ReadersTypeOK, DeviceInv, CursorsInLog
<1>2. UNCHANGED <<received, cursor, reading, exposed, unread>>
  BY DEF readers
<1>3. InLog(c)' /\ InLog(rc)'
  BY <1>1, <1>2, EventsSettled
<1>4. CursorsInLog(d)'
  BY <1>2, <1>3 DEF CursorsInLog, InLog
<1>5. ASSUME ~exposed[d]
      PROVE  /\ ~PendingUpTo(c)' /\ ~PendingUpTo(rc)'
             /\ {e \in events' : e.id <= c} = {e \in events : e.id <= c}
             /\ {e \in events' : e.id <= rc} = {e \in events : e.id <= rc}
  BY <1>1, <1>5, EventsSettled, <1>2 DEF DeviceInv, NonePending, PendingUpTo, Pending
<1>6. NonePending(d)'
  BY <1>2, <1>5 DEF NonePending, PendingUpTo, Pending
<1>7. ASSUME ~exposed[d]
      PROVE  /\ Covers(d, c, unread[d]) => Covers(d, c, unread[d])'
             /\ Covers(d, rc, unread[d]) => Covers(d, rc, unread[d])'
  BY <1>2, <1>5, <1>7 DEF Covers
<1>8. ASSUME ~exposed[d], HasPagesBefore(d)
      PROVE  HasPagesBefore(d)'
  <2>1. SnapshotAt(rc)' = SnapshotAt(rc)
    BY <1>2, <1>5, <1>8, SnapshotSettled
  <2>2. SnapshotOf(d)' = SnapshotOf(d)
    BY <1>2, <2>1 DEF SnapshotOf, SnapshotAt, EventsOf
  <2> QED
    BY <1>2, <1>8, <2>2 DEF HasPagesBefore, Rank
<1>9. Nothing' = Nothing
  OBVIOUS
<1>10. ReadSoFar(d)'
  BY <1>2, <1>7, <1>8, <1>9 DEF DeviceInv, ReadSoFar, Covers
<1> QED
  BY <1>4, <1>6, <1>10 DEF DeviceInv

(* A step of one reader leaves the others and the server alone.             *)
LEMMA OtherReaders ==
  ASSUME ReadersTypeOK, UNCHANGED vars, NEW d \in Device, ReaderStep(d),
         NEW g \in Device, g # d, DeviceInv(g)
  PROVE  DeviceInv(g)'
<1>1. UNCHANGED <<events, pc, eventId>>
  BY DEF vars, tables, locals
<1>2. /\ received'[g] = received[g] /\ cursor'[g] = cursor[g]
      /\ reading'[g] = reading[g] /\ exposed'[g] = exposed[g] /\ unread'[g] = unread[g]
  BY DEF ReadersTypeOK, ReaderStep, Open, Restore, Resync, StartPull, Pull, FinishPull, Cut, Lose
<1>3. \A c : /\ InLog(c)' <=> InLog(c)
             /\ PendingUpTo(c)' <=> PendingUpTo(c)
             /\ SnapshotAt(c)' = SnapshotAt(c)
  BY <1>1 DEF InLog, PendingUpTo, Pending, SnapshotAt, EventsOf
<1>4. CursorsInLog(g)' /\ NonePending(g)'
  BY <1>2, <1>3 DEF DeviceInv, CursorsInLog, NonePending, InLog, PendingUpTo, Pending
<1>5. SnapshotOf(g)' = SnapshotOf(g)
  BY <1>1, <1>2 DEF SnapshotOf, SnapshotAt, EventsOf
<1>6. HasPagesBefore(g)' <=> HasPagesBefore(g)
  BY <1>2, <1>5 DEF HasPagesBefore, Rank
<1>7. ReadSoFar(g)'
  BY <1>1, <1>2, <1>6 DEF DeviceInv, ReadSoFar, Covers
<1> QED
  BY <1>4, <1>7 DEF DeviceInv

(* What covers up to a cursor covers up to an earlier one.                  *)
LEMMA CoversLess ==
  ASSUME LogInv, NEW d \in Device, NEW c \in Nat, NEW k \in Nat, k <= c, NEW left, Covers(d, c, left)
  PROVE  Covers(d, k, left)
<1>1. \A e \in events : e.id \in Nat
  BY DEF LogInv, TypeInv, TypeOK, Event
<1> QED
  BY <1>1 DEF Covers

(* Up to the last id of a page of a pull nothing is missing from the page.  *)
LEMMA PageIsPrefix ==
  ASSUME NEW S \in SUBSET Event, IsFiniteSet(S), NEW limit \in Nat,
         NEW e \in Page(S, 0, limit), NEW f \in S, f.id <= e.id
  PROVE  f \in Page(S, 0, limit)
<1>1. e \in S /\ Rank(e, S) < 0 + limit
  BY DEF Page
<1>2. Rank(f, S) <= Rank(e, S) /\ Rank(f, S) \in Nat /\ Rank(e, S) \in Nat
  BY <1>1, RankInOrder, RankBelowSize
<1>3. 0 <= Rank(f, S) /\ Rank(f, S) < 0 + limit
  BY <1>1, <1>2
<1> QED
  BY <1>3 DEF Page

LEMMA SnapshotFinite ==
  ASSUME LogInv, NEW c
  PROVE  SnapshotAt(c) \in SUBSET Event /\ SnapshotAt(c) \in SUBSET events
         /\ IsFiniteSet(SnapshotAt(c))
BY EventsFinite, FS_Subset DEF SnapshotAt, LogInv, TypeInv, TypeOK

(* A device that has the pages of a snapshot up to a rank has every version *)
(* of the objects that are not beyond it.                                   *)
LEMMA PagesCover ==
  ASSUME LogInv, NEW d \in Device, NEW c \in Nat, c = reading[d].cursor, NEW n \in Nat,
         NEW r \in [Object -> Nat],
         \A e \in SnapshotAt(c) : Rank(e, SnapshotAt(c)) < n => r[e.object] >= e.revision
  PROVE  \A e \in events : e.object \in Stored \ Beyond(d, n) /\ e.id <= c => r[e.object] >= e.revision
<1>1. SnapshotOf(d) = SnapshotAt(c)
  BY DEF SnapshotOf
<1>2. \A e \in SnapshotAt(c) : Rank(e, SnapshotAt(c)) \in Nat
  BY SnapshotFinite, RankBelowSize
<1>3. \A e \in SnapshotAt(c) : e.object \notin Beyond(d, n) => r[e.object] >= e.revision
  <2> SUFFICES ASSUME NEW e \in SnapshotAt(c), e.object \notin Beyond(d, n)
               PROVE  r[e.object] >= e.revision
    OBVIOUS
  <2>1. ~(Rank(e, SnapshotAt(c)) >= n)
    BY <1>1 DEF Beyond
  <2> QED
    BY <1>2, <2>1
<1> HIDE DEF Beyond
<1> QED
  BY <1>3, SnapshotCovers

LEMMA BeyondType ==
  ASSUME LogInv, NEW d \in Device, NEW n
  PROVE  Beyond(d, n) \in SUBSET Object
BY SnapshotFinite DEF Beyond, SnapshotOf, Event

LEMMA RestoreCovers ==
  ASSUME LogInv, ReadersTypeOK, UNCHANGED vars, NEW d \in Device, Restore(d),
         NEW c, c = reading[d].cursor
  PROVE  /\ \A e \in events : e.object \in Stored \ unread'[d] /\ e.id <= c => received'[d][e.object] >= e.revision
         /\ received'[d] \in [Object -> Nat] /\ unread'[d] \in SUBSET Object
<1> DEFINE S == SnapshotAt(c)
           r == received'[d]
<1>1. c \in Nat /\ RestoreLimit \in Nat /\ TypeOK /\ RevisionsBounded
      /\ received[d] \in [Object -> Nat]
  BY LimitAssumption DEF ReadersTypeOK, LogInv, TypeInv
<1>2. r = Take(received[d], Page(S, 0, RestoreLimit)) /\ unread'[d] = Beyond(d, RestoreLimit)
  BY DEF Restore, ReadersTypeOK, SnapshotOf
<1>3. S \in SUBSET Event /\ S \in SUBSET events /\ IsFiniteSet(S)
  BY <1>1, SnapshotFinite
<1>4. ASSUME NEW e \in S, Rank(e, S) < RestoreLimit
      PROVE  e \in Page(S, 0, RestoreLimit)
  <2> HIDE DEF S
  <2>1. Rank(e, S) \in Nat
    BY <1>3, RankBelowSize
  <2>2. 0 <= Rank(e, S) /\ Rank(e, S) < 0 + RestoreLimit
    BY <1>1, <1>4, <2>1
  <2> QED
    BY <2>2 DEF Page
<1>5. Page(S, 0, RestoreLimit) \in SUBSET events
  BY <1>3 DEF Page
<1>6. r \in [Object -> Nat] /\ \A e \in S : Rank(e, S) < RestoreLimit => r[e.object] >= e.revision
  <2> HIDE DEF S
  <2> QED
    BY <1>1, <1>2, <1>4, <1>5, TakeKeepsNewest
<1>7. \A e \in events : e.object \in Stored \ Beyond(d, RestoreLimit) /\ e.id <= c => r[e.object] >= e.revision
  <2> HIDE DEF r
  <2> QED
    BY <1>1, <1>6, PagesCover
<1> QED
  BY <1>2, <1>6, <1>7, BeyondType

(* The page of a resync adds the ranks from its offset to the next one.     *)
LEMMA ResyncReads ==
  ASSUME LogInv, ReadersTypeOK, UNCHANGED vars, NEW d \in Device, Resync(d), HasPagesBefore(d)
  PROVE  /\ received'[d] \in [Object -> Nat]
         /\ \A e \in SnapshotOf(d) :
              Rank(e, SnapshotOf(d)) < reading[d].offset + SnapshotLimit =>
                received'[d][e.object] >= e.revision
<1> DEFINE S == SnapshotOf(d)
           off == reading[d].offset
           P == Page(S, off, SnapshotLimit)
<1>1. off \in Nat /\ SnapshotLimit \in Nat /\ TypeOK /\ RevisionsBounded
      /\ received[d] \in [Object -> Nat]
  BY LimitAssumption DEF ReadersTypeOK, LogInv, TypeInv
<1>2. received'[d] = Take(received[d], P)
  BY DEF Resync, ReadersTypeOK
<1>3. S \in SUBSET Event /\ S \in SUBSET events /\ IsFiniteSet(S)
  BY SnapshotFinite DEF SnapshotOf
<1>4. P \in SUBSET events
  BY <1>3 DEF Page
<1>5. /\ received'[d] \in [Object -> Nat]
      /\ \A o \in Object : received'[d][o] >= received[d][o]
      /\ \A e \in P : received'[d][e.object] >= e.revision
  BY <1>1, <1>2, <1>4, TakeKeepsNewest
<1>6. ASSUME NEW e \in S, Rank(e, S) < off + SnapshotLimit
      PROVE  received'[d][e.object] >= e.revision
  <2>1. Rank(e, S) \in Nat
    BY <1>3, RankBelowSize
  <2>2. CASE Rank(e, S) < off
    <3>1. received[d][e.object] >= e.revision
      BY <2>2 DEF HasPagesBefore
    <3>2. e.object \in Object /\ e.revision \in Nat
      BY <1>3 DEF Event
    <3> QED
      BY <1>1, <1>5, <3>1, <3>2
  <2>3. CASE off <= Rank(e, S)
    <3>1. e \in P
      BY <1>6, <2>3 DEF Page
    <3> QED
      BY <1>5, <3>1
  <2> QED
    BY <1>1, <2>1, <2>2, <2>3
<1> QED
  BY <1>5, <1>6

(* A page of a pull brings everything up to the next cursor.                *)
LEMMA PullCovers ==
  ASSUME LogInv, ReadersTypeOK, UNCHANGED vars, NEW d \in Device, Pull(d),
         NEW c, c = reading[d].cursor, InLog(c)
  PROVE  /\ received'[d] \in [Object -> Nat]
         /\ \A o \in Object : received'[d][o] >= received[d][o]
         /\ reading'[d].cursor \in Nat /\ InLog(reading'[d].cursor) /\ c <= reading'[d].cursor
         /\ unread'[d] \in SUBSET Object
         /\ Covers(d, c, unread[d]) => \A e \in events :
              e.object \in Stored \ unread'[d] /\ e.id <= reading'[d].cursor =>
                received'[d][e.object] >= e.revision
         /\ exposed'[d] = (exposed[d] \/ PendingUpTo(reading'[d].cursor))
         /\ reading'[d] \in [mode : {"pull", "pulled"}, offset : {0}, cursor : Nat]
<1> DEFINE R == EventsAfter(c)
           P == Page(R, 0, PullLimit)
           n == NextCursor(d, P)
<1>1. c \in Nat /\ PullLimit \in Nat /\ TypeOK /\ RevisionsBounded
      /\ received[d] \in [Object -> Nat] /\ nextId \in Nat
      /\ \A e \in events : e \in Event /\ e.id \in Nat /\ e.id < nextId
  BY LimitAssumption DEF ReadersTypeOK, LogInv, TypeInv, IdsAreFresh, TypeOK, Event
<1>2. /\ received'[d] = Take(received[d], P)
      /\ reading'[d] = Reading(IF Cardinality(R) > PullLimit THEN "pull" ELSE "pulled", 0, n)
      /\ exposed'[d] = (exposed[d] \/ PendingUpTo(n))
      /\ unread'[d] = unread[d] \ {e.object : e \in P}
      /\ unread[d] \in SUBSET Object
  BY DEF Pull, ReadersTypeOK
<1>3. R \in SUBSET Event /\ R \in SUBSET events /\ IsFiniteSet(R)
  BY <1>1, EventsFinite, FS_Subset DEF EventsAfter
<1>4. P \in SUBSET events
  BY <1>3 DEF Page
<1>5. /\ received'[d] \in [Object -> Nat]
      /\ \A o \in Object : received'[d][o] >= received[d][o]
      /\ \A e \in P : received'[d][e.object] >= e.revision
  BY <1>1, <1>2, <1>4, TakeKeepsNewest
<1>6. \/ P = {} /\ n = c
      \/ \E e \in P : n = e.id /\ \A f \in P : f.id <= n
  <2>1. CASE P = {}
    BY <2>1 DEF NextCursor
  <2>2. CASE P # {}
    <3> DEFINE ids == {e.id : e \in P}
    <3>1. ids \in SUBSET Nat /\ ids # {} /\ \A i \in ids : i <= nextId
      BY <1>1, <1>4, <2>2
    <3>2. Max(ids) \in ids /\ \A i \in ids : i <= Max(ids)
      BY <1>1, <3>1, MaxOfBounded
    <3>3. n = Max(ids)
      BY <2>2 DEF NextCursor
    <3> QED
      BY <3>2, <3>3
  <2> QED
    BY <2>1, <2>2
<1>7. n \in Nat /\ InLog(n) /\ c <= n
  <2>1. \A e \in P : c < e.id
    BY <1>1, <1>3 DEF Page, EventsAfter
  <2> QED
    BY <1>1, <1>4, <1>6, <2>1 DEF InLog
<1>8. ASSUME Covers(d, c, unread[d]), NEW e \in events, e.object \in Stored, e.object \notin unread'[d],
             e.id <= n
      PROVE  received'[d][e.object] >= e.revision
  <2>1. CASE e.id <= c /\ e.object \notin unread[d]
    <3>1. received[d][e.object] >= e.revision /\ e.object \in Object /\ e.revision \in Nat
      BY <1>1, <1>8, <2>1 DEF Covers, Event
    <3> QED
      BY <1>1, <1>5, <3>1
  <2>3. CASE e.id <= c /\ e.object \in unread[d]
    <3>1. PICK f \in P : f.object = e.object
      BY <1>2, <1>8, <2>3
    <3>2. f \in events /\ c < f.id
      BY <1>3, <3>1 DEF Page, EventsAfter
    <3>3. e.id <= f.id /\ e \in EventsOf(e.object) /\ f \in EventsOf(e.object)
      BY <1>1, <2>3, <3>1, <3>2 DEF EventsOf
    <3>4. e.revision <= f.revision
      BY <1>8, <3>3, LaterIsNewer
    <3>5. received'[d][e.object] >= f.revision /\ received'[d][e.object] \in Nat
      BY <1>1, <1>5, <3>1, <3>2 DEF Event
    <3> QED
      BY <1>1, <3>2, <3>4, <3>5 DEF Event
  <2>2. CASE ~(e.id <= c)
    <3>1. e \in R
      BY <1>1, <2>2 DEF EventsAfter
    <3>2. PICK f \in P : n = f.id
      BY <1>6, <1>8, <2>2
    <3>3. e \in P
      BY <1>1, <1>3, <1>8, <3>1, <3>2, PageIsPrefix
    <3> QED
      BY <1>5, <3>3
  <2> QED
    BY <2>1, <2>2, <2>3
<1> HIDE DEF n, P, R
<1> QED
  BY <1>2, <1>5, <1>7, <1>8 DEF Reading

LEMMA ReadersStart == Init /\ ReadersInit => ReadersInv
<1> SUFFICES ASSUME Init, ReadersInit PROVE ReadersInv
  OBVIOUS
<1>1. ReadersTypeOK
  BY DEF ReadersInit, ReadersTypeOK, Modes, NotReading, Reading, Nothing
<1>2. ASSUME NEW d \in Device
      PROVE  DeviceInv(d)
  <2>1. /\ cursor[d] = 0 /\ reading[d].cursor = 0 /\ reading[d].mode = "none"
        /\ received[d] = Nothing
    BY DEF ReadersInit, NotReading, Reading
  <2>2. Pending = {}
    BY DEF Init, Pending
  <2> QED
    BY <2>1, <2>2 DEF DeviceInv, CursorsInLog, InLog, NonePending, PendingUpTo, ReadSoFar
<1> QED
  BY <1>1, <1>2 DEF ReadersInv

(* The server part of a device's invariant does not move with a reader.     *)
LEMMA LogAtRest ==
  ASSUME UNCHANGED vars
  PROVE  /\ UNCHANGED events
         /\ \A c : /\ InLog(c)' <=> InLog(c)
                   /\ PendingUpTo(c)' <=> PendingUpTo(c)
                   /\ SnapshotAt(c)' = SnapshotAt(c)
BY DEF vars, tables, locals, InLog, PendingUpTo, Pending, SnapshotAt, EventsOf

(* Id 0 is nobody's: an event has a greater one.                            *)
LEMMA NonePendingAtZero ==
  ASSUME LogInv
  PROVE  ~PendingUpTo(0)
BY DEF LogInv, TypeInv, TypeOK, Validated, PendingUpTo, Pending

(* How the parts of the invariant follow for the device that moves.         *)
LEMMA DeviceConditions ==
  ASSUME UNCHANGED vars, NEW d \in Device,
         NEW c, NEW rc, NEW m, NEW got, NEW ex,
         c = cursor'[d], rc = reading'[d].cursor, m = reading'[d].mode,
         got = received'[d], ex = exposed'[d],
         InLog(c), InLog(rc),
         ~ex => ~PendingUpTo(c) /\ ~PendingUpTo(rc),
         ReadSoFar(d)'
  PROVE  DeviceInv(d)'
<1>1. InLog(c)' /\ InLog(rc)'
  BY LogAtRest
<1>2. ~ex => ~PendingUpTo(c)' /\ ~PendingUpTo(rc)'
  BY LogAtRest
<1>3. CursorsInLog(d)'
  BY <1>1 DEF CursorsInLog, InLog
<1>4. NonePending(d)'
  BY <1>2 DEF NonePending, PendingUpTo, Pending
<1> QED
  BY <1>3, <1>4 DEF DeviceInv

LEMMA OpenKeeps ==
  ASSUME LogInv, ReadersTypeOK, UNCHANGED vars, NEW d \in Device, DeviceInv(d), Open(d)
  PROVE  ReadersTypeOK' /\ DeviceInv(d)'
<1>0. PICK c : c = LatestCursor
  OBVIOUS
<1> DEFINE m == IF cursor[d] = 0 THEN "restore" ELSE "resync"
<1>1. c \in Nat /\ InLog(c) /\ \A e \in events : e.id <= c
  BY <1>0, LatestInLog
<1>2. /\ reading'[d] = Reading(m, 0, c) /\ exposed'[d] = PendingUpTo(c)
      /\ received' = received /\ cursor' = cursor /\ received[d] = Nothing
  BY <1>0 DEF Open, ReadersTypeOK
<1>3. ReadersTypeOK'
  BY <1>0, <1>1 DEF ReadersTypeOK, Open, Reading, Modes, PendingUpTo
<1>4. InLog(cursor[d]) /\ cursor[d] \in Nat
  BY DEF DeviceInv, CursorsInLog, ReadersTypeOK
<1>5. cursor[d] <= c
  BY <1>1, <1>4 DEF InLog
<1>6. eventId \in [Handler -> Nat]
  BY DEF LogInv, TypeInv, TypeOK
<1>7. ~PendingUpTo(c) => ~PendingUpTo(cursor[d])
  BY <1>1, <1>4, <1>5, <1>6 DEF PendingUpTo, Pending
<1>8. HasPagesBefore(d)'
  <2>1. /\ reading'[d].offset = 0
        /\ SnapshotOf(d)' \in SUBSET Event /\ IsFiniteSet(SnapshotOf(d)')
    <3>1. reading'[d].cursor = c /\ reading'[d].offset = 0
      BY <1>2 DEF Reading
    <3>2. SnapshotAt(c)' = SnapshotAt(c)
      BY LogAtRest
    <3>3. SnapshotOf(d)' = SnapshotAt(c)'
      BY <3>1 DEF SnapshotOf, SnapshotAt, EventsOf
    <3> QED
      BY <3>1, <3>2, <3>3, SnapshotFinite
  <2> DEFINE S == SnapshotOf(d)'
  <2>2. \A e \in S : Rank(e, S) \in Nat
    BY <2>1, RankBelowSize
  <2>3. \A e \in SnapshotOf(d)' : ~(Rank(e, SnapshotOf(d)') < reading'[d].offset)
    BY <2>1, <2>2
  <2> QED
    BY <2>3 DEF HasPagesBefore, Rank
<1>9. ReadSoFar(d)'
  BY <1>2, <1>5, <1>8 DEF ReadSoFar, Reading, Nothing
<1>10. cursor'[d] = cursor[d] /\ reading'[d].cursor = c
  BY <1>2 DEF Reading
<1>11. DeviceInv(d)'
  BY <1>1, <1>2, <1>4, <1>7, <1>9, <1>10, DeviceConditions
<1> QED
  BY <1>3, <1>11

LEMMA RestoreKeeps ==
  ASSUME LogInv, ReadersTypeOK, UNCHANGED vars,
         NEW d \in Device, DeviceInv(d), Restore(d)
  PROVE  ReadersTypeOK' /\ DeviceInv(d)'
<1>0. PICK c : c = reading[d].cursor
  OBVIOUS
<1>1. /\ \A e \in events : e.object \in Stored \ unread'[d] /\ e.id <= c => received'[d][e.object] >= e.revision
      /\ received'[d] \in [Object -> Nat] /\ unread'[d] \in SUBSET Object
  BY <1>0, RestoreCovers
<1>2. /\ reading'[d] = NotReading /\ cursor'[d] = c /\ exposed'[d] = exposed[d]
      /\ c \in Nat /\ InLog(c) /\ (~exposed[d] => ~PendingUpTo(c))
  BY <1>0 DEF Restore, ReadersTypeOK, DeviceInv, CursorsInLog, NonePending
<1>3. ReadersTypeOK'
  <2>1. /\ received' = [received EXCEPT ![d] = received'[d]] /\ unread' = [unread EXCEPT ![d] = unread'[d]]
        /\ cursor' = [cursor EXCEPT ![d] = c] /\ reading' = [reading EXCEPT ![d] = NotReading]
        /\ exposed' = exposed
    BY <1>0 DEF Restore, ReadersTypeOK
  <2>2. NotReading \in [mode : Modes, offset : Nat, cursor : Nat]
    BY DEF NotReading, Reading, Modes
  <2> QED
    BY <1>1, <1>2, <2>1, <2>2 DEF ReadersTypeOK
<1>4. reading'[d].cursor = 0 /\ reading'[d].mode = "none" /\ InLog(0) /\ ~PendingUpTo(0)
  BY <1>2, NonePendingAtZero DEF NotReading, Reading, InLog
<1>5. ReadSoFar(d)'
  BY <1>1, <1>2, <1>4, LogAtRest DEF ReadSoFar, Covers
<1> QED
  BY <1>2, <1>3, <1>4, <1>5, DeviceConditions

LEMMA ResyncKeeps ==
  ASSUME LogInv, ReadersTypeOK, UNCHANGED vars, NEW d \in Device, DeviceInv(d), Resync(d)
  PROVE  ReadersTypeOK' /\ DeviceInv(d)'
<1>0. PICK c : c = reading[d].cursor
  OBVIOUS
<1> DEFINE S == SnapshotAt(c)
<1>1. /\ SnapshotOf(d) = S /\ S \in SUBSET Event /\ IsFiniteSet(S)
      /\ S' = S /\ c \in Nat
      /\ reading[d].offset \in Nat /\ SnapshotLimit \in Nat /\ reading[d].mode = "resync"
  BY <1>0, SnapshotFinite, LogAtRest, LimitAssumption DEF SnapshotOf, ReadersTypeOK, Resync
<1>2. received'[d] \in [Object -> Nat]
  <2> DEFINE P == Page(S, reading[d].offset, SnapshotLimit)
  <2>1. received'[d] = Take(received[d], P) /\ received[d] \in [Object -> Nat]
    BY <1>1 DEF Resync, ReadersTypeOK
  <2>2. P \in SUBSET events
    BY SnapshotFinite DEF Page
  <2> QED
    BY <2>1, <2>2, TakeKeepsNewest DEF LogInv, TypeInv
<1>3. /\ exposed'[d] = exposed[d] /\ InLog(c) /\ (~exposed[d] => ~PendingUpTo(c))
      /\ InLog(cursor[d]) /\ (~exposed[d] => ~PendingUpTo(cursor[d]))
      /\ cursor[d] \in Nat /\ cursor[d] <= c
  BY <1>0 DEF Resync, DeviceInv, CursorsInLog, NonePending, ReadSoFar, ReadersTypeOK
<1>4. ASSUME ~exposed[d], NEW e \in S, Rank(e, S) < reading[d].offset + SnapshotLimit
      PROVE  received'[d][e.object] >= e.revision
  <2>1. HasPagesBefore(d)
    BY <1>1, <1>4 DEF DeviceInv, ReadSoFar
  <2> QED
    BY <1>1, <1>4, <2>1, ResyncReads
<1>n. reading[d].offset + SnapshotLimit \in Nat
  BY <1>1
<1>u. /\ unread'[d] = Beyond(d, reading[d].offset + SnapshotLimit) /\ unread'[d] \in SUBSET Object
      /\ unread' = [unread EXCEPT ![d] = unread'[d]]
  BY BeyondType DEF Resync, ReadersTypeOK
<1>c. ASSUME ~exposed[d]
      PROVE  \A e \in events : e.object \in Stored \ unread'[d] /\ e.id <= c => received'[d][e.object] >= e.revision
  <2> HIDE DEF S
  <2> DEFINE r == received'[d]
  <2>1. \A e \in SnapshotAt(c) : Rank(e, SnapshotAt(c)) < reading[d].offset + SnapshotLimit => r[e.object] >= e.revision
    BY <1>4, <1>c DEF S
  <2>2. r \in [Object -> Nat]
    BY <1>2
  <2> HIDE DEF r
  <2>3. \A e \in events : e.object \in Stored \ Beyond(d, reading[d].offset + SnapshotLimit) /\ e.id <= c
                         => r[e.object] >= e.revision
    BY <1>0, <1>1, <1>n, <2>1, <2>2, PagesCover
  <2> QED
    BY <1>u, <2>3 DEF r
<1>5. ReadersTypeOK'
  <2>1. received' = [received EXCEPT ![d] = received'[d]] /\ exposed' = exposed
    BY DEF Resync, ReadersTypeOK
  <2>2. CASE HasMorePages(d)
    <3> DEFINE r == [reading[d] EXCEPT !.offset = @ + SnapshotLimit]
    <3>1. reading' = [reading EXCEPT ![d] = r] /\ cursor' = cursor
      BY <2>2 DEF Resync
    <3>2. r \in [mode : Modes, offset : Nat, cursor : Nat]
      BY <1>1 DEF ReadersTypeOK
    <3> QED
      BY <1>2, <1>u, <2>1, <3>1, <3>2 DEF ReadersTypeOK
  <2>3. CASE ~HasMorePages(d)
    <3>1. reading' = [reading EXCEPT ![d] = NotReading] /\ cursor' = [cursor EXCEPT ![d] = c]
      BY <1>0, <2>3 DEF Resync
    <3>2. NotReading \in [mode : Modes, offset : Nat, cursor : Nat]
      BY DEF NotReading, Reading, Modes
    <3> QED
      BY <1>1, <1>2, <1>u, <2>1, <3>1, <3>2 DEF ReadersTypeOK
  <2> QED
    BY <2>2, <2>3
<1>6. CASE HasMorePages(d)
  <2>1. /\ reading'[d].cursor = c /\ reading'[d].mode = "resync"
        /\ reading'[d].offset = reading[d].offset + SnapshotLimit
        /\ cursor'[d] = cursor[d]
    BY <1>0, <1>1, <1>6 DEF Resync, ReadersTypeOK
  <2>2. SnapshotOf(d)' = S
    BY <1>1, <2>1 DEF SnapshotOf, SnapshotAt, EventsOf
  <2>3. ~exposed[d] => HasPagesBefore(d)'
    BY <1>4, <2>1, <2>2 DEF HasPagesBefore, Rank
  <2>6. \A e \in events : e.id \in Nat
    BY DEF LogInv, TypeInv, TypeOK, Event
  <2>7. ~exposed[d] => Covers(d, cursor[d], unread[d])'
    BY <1>1, <1>3, <1>c, <2>1, <2>6, LogAtRest DEF Covers
  <2>4. ReadSoFar(d)'
    BY <1>3, <2>1, <2>3, <2>7 DEF ReadSoFar
  <2>5. DeviceInv(d)'
    BY <1>3, <2>1, <2>4, DeviceConditions
  <2> QED
    BY <1>5, <2>5
<1>7. CASE ~HasMorePages(d)
  <2>1. /\ reading'[d] = NotReading /\ cursor'[d] = c
    BY <1>0, <1>7 DEF Resync, ReadersTypeOK
  <2>4. ~exposed[d] => Covers(d, cursor[d], unread[d])'
    BY <1>c, <2>1, LogAtRest DEF Covers
  <2>5. reading'[d].cursor = 0 /\ reading'[d].mode = "none" /\ InLog(0) /\ ~PendingUpTo(0)
    BY <2>1, NonePendingAtZero DEF NotReading, Reading, InLog
  <2>6. ReadSoFar(d)'
    BY <1>3, <2>1, <2>4, <2>5 DEF ReadSoFar
  <2>7. DeviceInv(d)'
    BY <1>3, <2>1, <2>5, <2>6, DeviceConditions
  <2> QED
    BY <1>5, <2>7
<1> QED
  BY <1>6, <1>7

LEMMA PullKeeps ==
  ASSUME LogInv, ReadersTypeOK, UNCHANGED vars, NEW d \in Device, DeviceInv(d), Pull(d)
  PROVE  ReadersTypeOK' /\ DeviceInv(d)'
<1>0. PICK c : c = reading[d].cursor
  OBVIOUS
<1>1. InLog(c) /\ reading[d].mode = "pull" /\ cursor'[d] = cursor[d] /\ InLog(cursor[d])
      /\ received[d] \in [Object -> Nat] /\ cursor[d] \in Nat
  BY <1>0 DEF DeviceInv, CursorsInLog, Pull, ReadersTypeOK
<1>2. /\ received'[d] \in [Object -> Nat]
      /\ \A o \in Object : received'[d][o] >= received[d][o]
      /\ reading'[d].cursor \in Nat /\ InLog(reading'[d].cursor) /\ c <= reading'[d].cursor
      /\ unread'[d] \in SUBSET Object
      /\ Covers(d, c, unread[d]) => \A e \in events :
           e.object \in Stored \ unread'[d] /\ e.id <= reading'[d].cursor =>
             received'[d][e.object] >= e.revision
      /\ exposed'[d] = (exposed[d] \/ PendingUpTo(reading'[d].cursor))
      /\ reading'[d] \in [mode : {"pull", "pulled"}, offset : {0}, cursor : Nat]
  BY <1>0, <1>1, PullCovers
<1>3. ReadersTypeOK'
  <2>1. /\ received' = [received EXCEPT ![d] = received'[d]]
        /\ reading' = [reading EXCEPT ![d] = reading'[d]]
        /\ exposed' = [exposed EXCEPT ![d] = exposed'[d]]
        /\ unread' = [unread EXCEPT ![d] = unread'[d]]
        /\ cursor' = cursor
    BY DEF Pull, ReadersTypeOK
  <2>2. exposed'[d] \in BOOLEAN
    BY <1>2 DEF PendingUpTo, ReadersTypeOK
  <2>3. reading'[d] \in [mode : Modes, offset : Nat, cursor : Nat]
    BY <1>2 DEF Modes
  <2> QED
    BY <1>2, <2>1, <2>2, <2>3 DEF ReadersTypeOK
<1>4. ASSUME ~exposed'[d]
      PROVE  ~exposed[d] /\ ~PendingUpTo(cursor[d]) /\ ~PendingUpTo(reading'[d].cursor)
  BY <1>2, <1>4 DEF DeviceInv, NonePending
<1>5. ASSUME ~exposed'[d]
      PROVE  Covers(d, reading[d].cursor, unread[d])'
  <2>1. Covers(d, c, unread[d])
    BY <1>0, <1>1, <1>4, <1>5 DEF DeviceInv, ReadSoFar
  <2> QED
    BY <1>2, <2>1, LogAtRest DEF Covers
<1>9. cursor[d] <= c /\ c \in Nat
  BY <1>0, <1>1 DEF DeviceInv, ReadSoFar, ReadersTypeOK
<1>10. cursor'[d] <= reading'[d].cursor
  BY <1>1, <1>2, <1>9
<1>6. reading'[d].mode \in {"pull", "pulled"}
  BY <1>2
<1>7. ReadSoFar(d)'
  BY <1>5, <1>6, <1>10 DEF ReadSoFar
<1>8. DeviceInv(d)'
  BY <1>1, <1>2, <1>4, <1>7, DeviceConditions
<1> QED
  BY <1>3, <1>8

(* Steps by which a device receives nothing.                                *)
LEMMA QuietKeeps ==
  ASSUME LogInv, ReadersTypeOK, UNCHANGED vars, NEW d \in Device, DeviceInv(d),
         StartPull(d) \/ FinishPull(d) \/ Cut(d) \/ Lose(d)
  PROVE  ReadersTypeOK' /\ DeviceInv(d)'
<1>1. ReadersTypeOK'
  <2>1. CASE StartPull(d)
    <3>1. Reading("pull", 0, cursor[d]) \in [mode : Modes, offset : Nat, cursor : Nat]
      BY DEF Reading, Modes, ReadersTypeOK
    <3> QED
      BY <2>1, <3>1 DEF StartPull, ReadersTypeOK
  <2>2. NotReading \in [mode : Modes, offset : Nat, cursor : Nat]
    BY DEF NotReading, Reading, Modes
  <2>3. CASE FinishPull(d) \/ Cut(d)
    BY <2>2, <2>3 DEF FinishPull, Cut, ReadersTypeOK
  <2>4. CASE Lose(d)
    BY <2>4 DEF Lose, ReadersTypeOK, Nothing
  <2> QED
    BY <2>1, <2>3, <2>4
<1>2. InLog(0) /\ ~PendingUpTo(0)
  BY NonePendingAtZero DEF InLog
<1>3. \A c : Covers(d, c, unread[d]) /\ received'[d] = received[d] =>
        \A e \in events' : e.object \in Stored \ unread[d] /\ e.id <= c => received'[d][e.object] >= e.revision
  BY LogAtRest DEF Covers
<1>8. unread'[d] = unread[d] /\ cursor[d] \in Nat
  BY DEF StartPull, FinishPull, Cut, Lose, ReadersTypeOK
<1>4. CASE StartPull(d)
  <2>1. /\ reading'[d].mode = "pull" /\ reading'[d].cursor = cursor[d] /\ cursor'[d] = cursor[d]
        /\ exposed'[d] = exposed[d] /\ received'[d] = received[d]
        /\ reading[d].mode = "none" /\ received[d] # Nothing
    BY <1>4 DEF StartPull, ReadersTypeOK, Reading, NotReading
  <2>2. ~exposed[d] => Covers(d, cursor[d], unread[d])
    BY <2>1 DEF DeviceInv, ReadSoFar
  <2>3. ReadSoFar(d)'
    BY <1>3, <1>8, <2>1, <2>2 DEF ReadSoFar, Covers
  <2>4. InLog(cursor[d]) /\ (~exposed[d] => ~PendingUpTo(cursor[d]))
    BY DEF DeviceInv, CursorsInLog, NonePending
  <2>5. DeviceInv(d)'
    BY <2>1, <2>3, <2>4, DeviceConditions
  <2> QED
    BY <1>1, <2>5
<1>5. CASE FinishPull(d)
  <2>0. PICK c : c = reading[d].cursor
    OBVIOUS
  <2>1. /\ reading'[d].mode = "none" /\ reading'[d].cursor = 0 /\ cursor'[d] = c
        /\ exposed'[d] = exposed[d] /\ received'[d] = received[d] /\ reading[d].mode = "pulled"
    BY <1>5, <2>0 DEF FinishPull, ReadersTypeOK, Reading, NotReading
  <2>2. ~exposed[d] => Covers(d, c, unread[d])
    BY <2>0, <2>1 DEF DeviceInv, ReadSoFar
  <2>3. ReadSoFar(d)'
    BY <1>3, <1>8, <2>1, <2>2 DEF ReadSoFar, Covers
  <2>4. InLog(c) /\ (~exposed[d] => ~PendingUpTo(c))
    BY <2>0 DEF DeviceInv, CursorsInLog, NonePending
  <2>5. DeviceInv(d)'
    BY <1>2, <2>1, <2>3, <2>4, DeviceConditions
  <2> QED
    BY <1>1, <2>5
<1>6. CASE Cut(d)
  <2>1. /\ reading'[d].mode = "none" /\ reading'[d].cursor = 0 /\ cursor'[d] = cursor[d]
        /\ exposed'[d] = exposed[d] /\ received'[d] = received[d]
        /\ reading[d].mode \in Modes /\ reading[d].cursor \in Nat
    BY <1>6 DEF Cut, ReadersTypeOK, Reading, NotReading
  <2>2. ~exposed[d] /\ received[d] # Nothing => Covers(d, cursor[d], unread[d])
    <3>1. CASE reading[d].mode \in {"pull", "pulled"}
      BY <1>8, <2>1, <3>1, CoversLess DEF DeviceInv, ReadSoFar
    <3> QED
      BY <2>1, <3>1 DEF DeviceInv, ReadSoFar, Modes
  <2>3. ReadSoFar(d)'
    BY <1>3, <1>8, <2>1, <2>2 DEF ReadSoFar, Covers, Nothing
  <2>4. InLog(cursor[d]) /\ (~exposed[d] => ~PendingUpTo(cursor[d]))
    BY DEF DeviceInv, CursorsInLog, NonePending
  <2>5. DeviceInv(d)'
    BY <1>2, <2>1, <2>3, <2>4, DeviceConditions
  <2> QED
    BY <1>1, <2>5
<1>7. CASE Lose(d)
  <2>1. /\ reading'[d].mode = "none" /\ reading'[d].cursor = 0 /\ cursor'[d] = cursor[d]
        /\ exposed'[d] = exposed[d] /\ received'[d] = Nothing
    BY <1>7 DEF Lose, ReadersTypeOK, Reading, NotReading
  <2>3. ReadSoFar(d)'
    BY <2>1 DEF ReadSoFar, Nothing
  <2>4. InLog(cursor[d]) /\ (~exposed[d] => ~PendingUpTo(cursor[d]))
    BY DEF DeviceInv, CursorsInLog, NonePending
  <2>5. DeviceInv(d)'
    BY <1>2, <2>1, <2>3, <2>4, DeviceConditions
  <2> QED
    BY <1>1, <2>5
<1> QED
  BY <1>4, <1>5, <1>6, <1>7

LEMMA ReadersStepKeeps ==
  LogInv /\ ReadersInv /\ [ReadersNext]_allVars => ReadersInv'
<1> SUFFICES ASSUME LogInv, ReadersInv, [ReadersNext]_allVars PROVE ReadersInv'
  OBVIOUS
<1>0. ReadersTypeOK /\ \A d \in Device : DeviceInv(d)
  BY DEF ReadersInv
<1>1. CASE [Next]_vars /\ UNCHANGED readers
  <2>1. ReadersTypeOK'
    BY <1>0, <1>1 DEF readers, ReadersTypeOK
  <2> QED
    BY <1>0, <1>1, <2>1, ServerKeepsDevice DEF ReadersInv
<1>2. ASSUME NEW d \in Device, ReaderStep(d), UNCHANGED vars
      PROVE  ReadersInv'
  <2>1. ReadersTypeOK' /\ DeviceInv(d)'
    BY <1>0, <1>2, OpenKeeps, RestoreKeeps, ResyncKeeps, PullKeeps, QuietKeeps DEF ReaderStep
  <2>2. \A g \in Device \ {d} : DeviceInv(g)'
    BY <1>0, <1>2, OtherReaders
  <2> QED
    BY <2>1, <2>2 DEF ReadersInv
<1> QED
  BY <1>1, <1>2 DEF ReadersNext, allVars

(* A device at rest that has not read past an open transaction has every    *)
(* version of the stored objects that its cursor has passed, but for what a *)
(* snapshot has beyond the pages it read, for any number of handlers,       *)
(* devices, requests, objects and cuts, and pages of any size.              *)
THEOREM ReadersMissNothing == ReadersSpec => []NothingMissed
<1>1. LogInv /\ [ReadersNext]_allVars => LogInv'
  <2>1. [ReadersNext]_allVars => [Next]_vars
    BY DEF ReadersNext, allVars
  <2> QED
    BY <2>1, LogNext
<1>2. ReadersInv => NothingMissed
  BY DEF ReadersInv, NothingMissed, DeviceInv, ReadSoFar, NotReading, Reading
<1>3. LogInv /\ ReadersInv /\ [ReadersNext]_allVars => ReadersInv'
  BY ReadersStepKeeps
<1> QED
  BY <1>1, <1>2, <1>3, LogInit, ReadersStart, PTL DEF ReadersSpec
=============================================================================
