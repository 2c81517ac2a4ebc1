----------------------------- MODULE SyncServer -----------------------------
(***************************************************************************)
(* The write path of the server's encrypted-object store: the handler of    *)
(* POST /sync/push (push_sync_objects) with its idempotency table, for one  *)
(* account and its one sync space, one action per SQL statement that other  *)
(* transactions can observe or wait for.                                    *)
(*                                                                         *)
(* PostgreSQL runs at READ COMMITTED: a statement sees what was committed   *)
(* when it started; FOR UPDATE, and an INSERT that meets an uncommitted     *)
(* duplicate, wait for the other transaction; a bigserial value is handed   *)
(* out at once and a rollback does not give it back.  Each object of a push *)
(* has a transaction of its own.                                            *)
(***************************************************************************)
EXTENDS Naturals, Sequences

CONSTANTS
  Handler,      \* requests the server can be working on at the same time
  Object,       \* object ids of the sync space
  Content,      \* encrypted payloads, a tombstone is one of them
  Key,          \* (device, clientBatchId, clientOperationId)
  Batch,        \* the push requests devices may send, and send again
  Seed,         \* event id that created each object stored at the start
  SeedContent,  \* what those objects contain at the start
  FirstId,      \* next value of the event id sequence at the start
  MaxRequests,  \* bound: push requests the server receives
  Nil           \* no row

(* Objects that have a row before the first request.                        *)
Stored == DOMAIN Seed

(* One element of a push.  wellFormed abstracts the checks of the object    *)
(* type, the envelope, its size and the sync space.                         *)
Operation == [key : Key, object : Object, base : Nat, revision : Nat,
              content : Content, wellFormed : BOOLEAN]

ASSUME BatchAssumption == Batch \subseteq Seq(Operation) \ {<<>>}

ASSUME SeedAssumption ==
  /\ Stored \subseteq Object
  /\ Seed \in [Stored -> Nat \ {0}]
  /\ \A o, p \in Stored : Seed[o] = Seed[p] => o = p
  /\ SeedContent \in Content
  /\ FirstId \in Nat \ {0}
  /\ \A o \in Stored : Seed[o] < FirstId

ASSUME BoundAssumption == MaxRequests \in Nat

Row == [revision : Nat \ {0}, content : Content]

ASSUME NilAssumption == Nil \notin Row /\ Nil \notin Content

VARIABLES
  rows,      \* sync_objects: the committed row of each object, or Nil
  events,    \* sync_events: the committed rows
  nextId,    \* the sequence behind sync_events.id
  outcomes,  \* sync_idempotency_keys: the committed response of each key
  pc,        \* where each handler is
  batch,     \* the request it works on
  at,        \* index of the object it works on
  seen,      \* the row its FOR UPDATE returned, or Nil
  eventId,   \* the id its event got
  replies,   \* accepted, conflicts and rejected, with the key of each
  requests   \* push requests received so far

tables == <<rows, events, nextId, outcomes>>
locals == <<pc, batch, at, seen, eventId, replies>>
vars   == <<tables, locals, requests>>

-----------------------------------------------------------------------------
(* Requests in progress.                                                    *)

InTransaction == {"claimed", "read", "written", "logged"}

Op(h) == batch[h][at[h]]

HasObject(h) == at[h] <= Len(batch[h])

(* The placeholder row h inserted and has not committed.                    *)
HoldsKey(h, k) == pc[h] \in InTransaction /\ Op(h).key = k

(* Seeded mistake: one transaction for the whole request, which keeps the   *)
(* rows of the objects it has done.                                         *)
Bug_OneTransaction(h, o) ==
  \E i \in DOMAIN batch[h] :
    /\ batch[h][i].object = o
    /\ \/ i < at[h]
       \/ i = at[h] /\ pc[h] \in {"read", "written", "logged"}

(* Seeded mistake: the row is read without FOR UPDATE.                      *)
Bug_PlainSelect(h, o) == Op(h).object = o /\ pc[h] \in {"written", "logged"}

(* h locked the row with FOR UPDATE, or inserted or updated it.             *)
HoldsRow(h, o) ==
  /\ Op(h).object = o
  /\ \/ pc[h] = "read" /\ seen[h] # Nil
     \/ pc[h] \in {"written", "logged"}

(* Seeded mistake: nobody waits for row locks.                              *)
Bug_NoRowLocks(h, o) == TRUE

RowFree(h, o) == \A g \in Handler \ {h} : pc[g] \in InTransaction => ~HoldsRow(g, o)

(* Seeded mistake: the placeholder is not under a unique constraint.        *)
Bug_KeyNotUnique(k) == TRUE

KeyFree(k) == \A h \in Handler : ~HoldsKey(h, k)

CurrentRevision(row) == IF row = Nil THEN 0 ELSE row.revision

BaseIsCurrent(h) == Op(h).base = CurrentRevision(seen[h])

(* duplicate_sync_object_pairs, computed once per request.                  *)
IsDuplicate(h) ==
  \E i \in DOMAIN batch[h] : i # at[h] /\ batch[h][i].object = Op(h).object

(* Seeded mistake: the revision a device asks for is taken as it is.        *)
Bug_AnyRevision(h) == IsDuplicate(h) \/ ~Op(h).wellFormed

Refused(h) ==
  \/ IsDuplicate(h)
  \/ Op(h).revision < 1
  \/ Op(h).revision # Op(h).base + 1
  \/ ~Op(h).wellFormed

Accepted(h) == [kind |-> "accepted", revision |-> Op(h).revision, id |-> eventId[h]]
Conflicted(h) == [kind |-> "conflict", revision |-> CurrentRevision(seen[h]), id |-> 0]
Rejected == [kind |-> "rejected", revision |-> 0, id |-> 0]

(* append_sync_outcome, then the loop goes to the next object.              *)
Answer(h, outcome) ==
  /\ replies' = [replies EXCEPT ![h] = Append(@, [key |-> Op(h).key, outcome |-> outcome])]
  /\ at' = [at EXCEPT ![h] = @ + 1]
  /\ pc' = [pc EXCEPT ![h] = "next"]

(* Seeded mistake: the transaction commits without the outcome.             *)
Bug_OutcomeNotSaved(k, outcome) == outcomes

(* save_idempotency_outcome_tx.                                             *)
Saved(k, outcome) ==
  [j \in DOMAIN outcomes \cup {k} |-> IF j = k THEN outcome ELSE outcomes[j]]

(* The outcome replaces the placeholder and the transaction commits.        *)
CommitOutcome(h, outcome) ==
  /\ outcomes' = Saved(Op(h).key, outcome)
  /\ Answer(h, outcome)

-----------------------------------------------------------------------------
Init ==
  /\ rows = [o \in Object |-> IF o \in Stored
                              THEN [revision |-> 1, content |-> SeedContent]
                              ELSE Nil]
  /\ events = {[id |-> Seed[o], object |-> o, revision |-> 1,
                content |-> SeedContent] : o \in Stored}
  /\ nextId = FirstId
  /\ outcomes = [k \in {} |-> Rejected]
  /\ pc = [h \in Handler |-> "idle"]
  /\ batch = [h \in Handler |-> <<>>]
  /\ at = [h \in Handler |-> 1]
  /\ seen = [h \in Handler |-> Nil]
  /\ eventId = [h \in Handler |-> 0]
  /\ replies = [h \in Handler |-> <<>>]
  /\ requests = 0

(* POST /sync/push arrives; a device may send the same batch again.         *)
Receive(h, b) ==
  /\ pc[h] = "idle"
  /\ requests < MaxRequests
  /\ requests' = requests + 1
  /\ batch' = [batch EXCEPT ![h] = b]
  /\ at' = [at EXCEPT ![h] = 1]
  /\ replies' = [replies EXCEPT ![h] = <<>>]
  /\ pc' = [pc EXCEPT ![h] = "next"]
  /\ UNCHANGED <<tables, seen, eventId>>

(* claim_idempotency_outcome_tx finds a response stored earlier.            *)
Replay(h) ==
  /\ pc[h] = "next" /\ HasObject(h)
  /\ Op(h).key \in DOMAIN outcomes
  /\ Answer(h, outcomes[Op(h).key])
  /\ UNCHANGED <<tables, batch, seen, eventId, requests>>

(* claim_idempotency_outcome_tx inserts the placeholder; the insert waits   *)
(* while another transaction holds an uncommitted row with the same key.    *)
Claim(h) ==
  /\ pc[h] = "next" /\ HasObject(h)
  /\ Op(h).key \notin DOMAIN outcomes
  /\ KeyFree(Op(h).key)
  /\ pc' = [pc EXCEPT ![h] = "claimed"]
  /\ UNCHANGED <<tables, batch, at, seen, eventId, replies, requests>>

(* One of the checks before the read fails.                                 *)
Reject(h) ==
  /\ pc[h] = "claimed"
  /\ Refused(h)
  /\ CommitOutcome(h, Rejected)
  /\ UNCHANGED <<rows, events, nextId, batch, seen, eventId, requests>>

(* fetch_sync_object_for_update: an object without a row locks nothing.     *)
Read(h) ==
  /\ pc[h] = "claimed"
  /\ ~Refused(h)
  /\ rows[Op(h).object] # Nil => RowFree(h, Op(h).object)
  /\ seen' = [seen EXCEPT ![h] = rows[Op(h).object]]
  /\ pc' = [pc EXCEPT ![h] = "read"]
  /\ UNCHANGED <<tables, batch, at, eventId, replies, requests>>

(* current_revision differs from base_revision.                             *)
Conflict(h) ==
  /\ pc[h] = "read"
  /\ ~BaseIsCurrent(h)
  /\ CommitOutcome(h, Conflicted(h))
  /\ UNCHANGED <<rows, events, nextId, batch, seen, eventId, requests>>

(* insert into sync_objects ... on conflict do update: it waits for the     *)
(* transaction that locks the row or has an uncommitted one, and does not   *)
(* look at the revision again.                                              *)
Write(h) ==
  /\ pc[h] = "read"
  /\ BaseIsCurrent(h)
  /\ RowFree(h, Op(h).object)
  /\ pc' = [pc EXCEPT ![h] = "written"]
  /\ UNCHANGED <<tables, batch, at, seen, eventId, replies, requests>>

(* insert into sync_events ... returning id.                                *)
Log(h) ==
  /\ pc[h] = "written"
  /\ eventId' = [eventId EXCEPT ![h] = nextId]
  /\ nextId' = nextId + 1
  /\ pc' = [pc EXCEPT ![h] = "logged"]
  /\ UNCHANGED <<rows, events, outcomes, batch, at, seen, replies, requests>>

(* The outcome is saved and the row, the event and the outcome commit.      *)
Commit(h) ==
  /\ pc[h] = "logged"
  /\ rows' = [rows EXCEPT ![Op(h).object] =
                [revision |-> Op(h).revision, content |-> Op(h).content]]
  /\ events' = events \cup {[id |-> eventId[h], object |-> Op(h).object,
                             revision |-> Op(h).revision, content |-> Op(h).content]}
  /\ CommitOutcome(h, Accepted(h))
  /\ UNCHANGED <<nextId, batch, seen, eventId, requests>>

(* All objects are done and the response is sent.                           *)
Respond(h) ==
  /\ pc[h] = "next" /\ ~HasObject(h)
  /\ pc' = [pc EXCEPT ![h] = "idle"]
  /\ UNCHANGED <<tables, batch, at, seen, eventId, replies, requests>>

(* A statement fails, the connection breaks or the server stops: the open   *)
(* transaction rolls back, objects committed before stay, no response.      *)
Abort(h) ==
  /\ pc[h] \in InTransaction \cup {"next"}
  /\ pc' = [pc EXCEPT ![h] = "idle"]
  /\ replies' = [replies EXCEPT ![h] = <<>>]
  /\ UNCHANGED <<tables, batch, at, seen, eventId, requests>>

Work(h) ==
  \/ Replay(h) \/ Claim(h) \/ Reject(h) \/ Read(h) \/ Conflict(h)
  \/ Write(h) \/ Log(h) \/ Commit(h) \/ Respond(h)

Next == \E h \in Handler : Work(h) \/ Abort(h) \/ \E b \in Batch : Receive(h, b)

Spec == Init /\ [][Next]_vars

(* Lock queues of PostgreSQL are served in order, so a statement that can   *)
(* run again and again does run.                                            *)
Fairness == \A h \in Handler : SF_vars(Work(h))

FairSpec == Spec /\ Fairness

-----------------------------------------------------------------------------
Event == [id : Nat \ {0}, object : Object, revision : Nat \ {0}, content : Content]

Response == [kind : {"accepted", "conflict", "rejected"}, revision : Nat, id : Nat]

Reply == [key : Key, outcome : Response]

(* The shape of the tables and of the handlers' local state.                *)
TypeOK ==
  /\ rows \in [Object -> Row \cup {Nil}]
  /\ events \subseteq Event
  /\ nextId \in Nat \ {0}
  /\ DOMAIN outcomes \subseteq Key
  /\ \A k \in DOMAIN outcomes : outcomes[k] \in Response
  /\ pc \in [Handler -> InTransaction \cup {"idle", "next"}]
  /\ batch \in [Handler -> Batch \cup {<<>>}]
  /\ at \in [Handler -> Nat \ {0}]
  /\ seen \in [Handler -> Row \cup {Nil}]
  /\ eventId \in [Handler -> Nat]
  /\ replies \in [Handler -> Seq(Reply)]
  /\ requests \in 0 .. MaxRequests

EventsOf(o) == {e \in events : e.object = o}

(* The row of an object and its event with the greatest id agree, whatever  *)
(* transactions raced: snapshots, built from the events, and conflict       *)
(* answers, built from the rows, describe the same version.                 *)
RowIsLatestEvent ==
  \A o \in Object :
    IF rows[o] = Nil
    THEN EventsOf(o) = {}
    ELSE \E e \in EventsOf(o) : /\ \A f \in EventsOf(o) : f.id <= e.id
                                /\ e.revision = rows[o].revision
                                /\ e.content = rows[o].content

(* The idempotency table and the event log agree: an accepted response      *)
(* names an event that is there, and no event was written twice for one     *)
(* operation however often the request was sent and wherever it was cut.    *)
OneEventPerOperation ==
  /\ \A k \in DOMAIN outcomes : outcomes[k].kind = "accepted" =>
       \E e \in events : e.id = outcomes[k].id /\ e.revision = outcomes[k].revision
  /\ \A e \in events : (\E o \in Stored : e.id = Seed[o])
       \/ \E k \in DOMAIN outcomes :
            /\ outcomes[k].kind = "accepted" /\ outcomes[k].id = e.id
            /\ \A j \in DOMAIN outcomes \ {k} :
                 ~(outcomes[j].kind = "accepted" /\ outcomes[j].id = e.id)

(* Everything a response will say has been committed, and a repeated        *)
(* request is told what the first one was told.                             *)
RepliesAreDurable ==
  \A h \in Handler : \A i \in DOMAIN replies[h] :
    /\ replies[h][i].key \in DOMAIN outcomes
    /\ outcomes[replies[h][i].key] = replies[h][i].outcome

(* The events of an object that was stored at the start are its versions,   *)
(* one per revision from 1 to the current one, in the order of their ids:   *)
(* the history the log keeps has no gap and no fork.                        *)
HistoryIsLinear ==
  \A o \in Stored :
    /\ {e.revision : e \in EventsOf(o)} = 1 .. rows[o].revision
    /\ \A e, f \in EventsOf(o) : e.id < f.id <=> e.revision < f.revision

(* Objects with a row are compare-and-set registers.                        *)
Registers == INSTANCE VersionedStore
  WITH Object <- Stored, store <- [o \in Stored |-> rows[o]]

RegistersSpec == Registers!Spec

(* No request waits for ever: idempotency keys and row locks are released   *)
(* whatever the interleaving, retries and aborts.                           *)
EveryRequestEnds == \A h \in Handler : pc[h] # "idle" ~> pc[h] = "idle"
=============================================================================
