----------------------------- MODULE SyncReaders -----------------------------
(***************************************************************************)
(* Devices read what pushes write: GET /sync/snapshot in pages, GET         *)
(* /sync/pull after a cursor, while handlers of SyncServer are at any point *)
(* of their transactions.  What a device does with an object it receives is *)
(* VaultSync; here it remembers the revision.                               *)
(*                                                                         *)
(* Event ids are handed out before a transaction commits, so a cursor can   *)
(* pass an id whose event is not there yet.                                 *)
(***************************************************************************)
EXTENDS SyncServer, FiniteSets, FiniteSetsExt

CONSTANTS
  Device,         \* devices that only read
  RestoreLimit,   \* objects in the one page a restore reads
  SnapshotLimit,  \* objects in a page of a resync; both are 500 in the code
  PullLimit,      \* events in a page of a pull
  CutResync       \* bound: may a resync stop between two pages?

ASSUME LimitAssumption ==
  /\ RestoreLimit \in Nat \ {0} /\ SnapshotLimit \in Nat \ {0} /\ PullLimit \in Nat \ {0}
  /\ CutResync \in BOOLEAN

VARIABLES
  received,  \* newest revision of each object the device has, 0 for none
  cursor,    \* settings.sync.cursor
  reading,   \* the page it asks for next
  exposed,   \* auxiliary: it has read past the id of an open transaction
  unread     \* auxiliary: objects of the snapshot that it has not read, nor
             \* an event of them since

readers == <<received, cursor, reading, exposed, unread>>
allVars == <<vars, readers>>

-----------------------------------------------------------------------------
(* "restore" is restoreServerAccount, "resync" restoreFromSyncSnapshot; the *)
(* cursor is the one the snapshot is taken at, or the next one of a pull.   *)
Reading(mode, offset, c) == [mode |-> mode, offset |-> offset, cursor |-> c]
NotReading == Reading("none", 0, 0)

LatestCursor == Max({e.id : e \in events} \cup {0})

(* How many events of a set come before e in the order of their ids.        *)
Rank(e, set) == Cardinality({f \in set : f.id < e.id})

(* limit and offset of a query that is ordered by id.                       *)
Page(set, offset, limit) ==
  {e \in set : offset <= Rank(e, set) /\ Rank(e, set) < offset + limit}

(* select distinct on (object_id) ... where id <= cursor: the newest event  *)
(* of each object, as far as the cursor goes.                               *)
SnapshotAt(c) ==
  {e \in events : e.id <= c /\ \A f \in EventsOf(e.object) : f.id <= c => f.id <= e.id}

EventsAfter(c) == {e \in events : e.id > c}

(* A device keeps what it has if that is not older.                         *)
Take(revisions, page) ==
  [o \in Object |-> Max({revisions[o]} \cup {e.revision : e \in {f \in page : f.object = o}})]

Nothing == [o \in Object |-> 0]

(* Ids that have been handed out to transactions still open.                *)
Pending == {eventId[h] : h \in {g \in Handler : pc[g] = "logged"}}

PendingUpTo(c) == \E i \in Pending : i <= c

-----------------------------------------------------------------------------
ReadersInit ==
  /\ received = [d \in Device |-> Nothing]
  /\ cursor = [d \in Device |-> 0]
  /\ reading = [d \in Device |-> NotReading]
  /\ exposed = [d \in Device |-> FALSE]
  /\ unread = [d \in Device |-> {}]

(* sync_snapshot without a page token first reads the latest cursor, in a   *)
(* statement of its own.  A new device restores; one that has lost its      *)
(* objects but not its cursor resyncs (shouldRepairEmptyLocalSyncState).    *)
Open(d) ==
  /\ reading[d] = NotReading /\ received[d] = Nothing
  /\ reading' = [reading EXCEPT ![d] =
                   Reading(IF cursor[d] = 0 THEN "restore" ELSE "resync", 0, LatestCursor)]
  /\ exposed' = [exposed EXCEPT ![d] = PendingUpTo(LatestCursor)]
  /\ UNCHANGED <<received, cursor, unread>>

SnapshotOf(d) == SnapshotAt(reading[d].cursor)

(* The objects of the snapshot after the first n.                           *)
Beyond(d, n) == {e.object : e \in {f \in SnapshotOf(d) : Rank(f, SnapshotOf(d)) >= n}}

(* The only page of a restore; the account is saved with its cursor.        *)
Restore(d) ==
  /\ reading[d].mode = "restore"
  /\ received' = [received EXCEPT ![d] = Take(@, Page(SnapshotOf(d), 0, RestoreLimit))]
  /\ cursor' = [cursor EXCEPT ![d] = reading[d].cursor]
  /\ reading' = [reading EXCEPT ![d] = NotReading]
  /\ unread' = [unread EXCEPT ![d] = Beyond(d, RestoreLimit)]
  /\ UNCHANGED exposed

HasMorePages(d) == reading[d].offset + SnapshotLimit < Cardinality(SnapshotOf(d))

(* One page of a resync; the cursor is saved after the last one.            *)
Resync(d) ==
  /\ reading[d].mode = "resync"
  /\ received' = [received EXCEPT ![d] =
                    Take(@, Page(SnapshotOf(d), reading[d].offset, SnapshotLimit))]
  /\ IF HasMorePages(d)
     THEN /\ reading' = [reading EXCEPT ![d].offset = @ + SnapshotLimit]
          /\ UNCHANGED cursor
     ELSE /\ reading' = [reading EXCEPT ![d] = NotReading]
          /\ cursor' = [cursor EXCEPT ![d] = reading[d].cursor]
  /\ unread' = [unread EXCEPT ![d] = Beyond(d, reading[d].offset + SnapshotLimit)]
  /\ UNCHANGED exposed

(* A run starts to pull at the saved cursor.                                *)
StartPull(d) ==
  /\ reading[d] = NotReading /\ received[d] # Nothing
  /\ reading' = [reading EXCEPT ![d] = Reading("pull", 0, cursor[d])]
  /\ UNCHANGED <<received, cursor, exposed, unread>>

(* Seeded mistake: the next cursor is that of the log, not of the page.     *)
Bug_NextIsLatest(d, page) == LatestCursor

NextCursor(d, page) == IF page = {} THEN reading[d].cursor ELSE Max({e.id : e \in page})

(* pull_sync_events: one page, with the cursor of its last event, and       *)
(* whether there are more.                                                  *)
Pull(d) ==
  LET rest == EventsAfter(reading[d].cursor)
      page == Page(rest, 0, PullLimit)
      next == NextCursor(d, page)
  IN  /\ reading[d].mode = "pull"
      /\ received' = [received EXCEPT ![d] = Take(@, page)]
      /\ reading' = [reading EXCEPT ![d] =
                       Reading(IF Cardinality(rest) > PullLimit THEN "pull" ELSE "pulled", 0, next)]
      /\ exposed' = [exposed EXCEPT ![d] = @ \/ PendingUpTo(next)]
      /\ unread' = [unread EXCEPT ![d] = @ \ {e.object : e \in page}]
      /\ UNCHANGED cursor

(* The last page has been read: the cursor is saved.                        *)
FinishPull(d) ==
  /\ reading[d].mode = "pulled"
  /\ cursor' = [cursor EXCEPT ![d] = reading[d].cursor]
  /\ reading' = [reading EXCEPT ![d] = NotReading]
  /\ UNCHANGED <<received, exposed, unread>>

(* A request fails or the application stops: what was applied stays, the    *)
(* cursor stays where it was.                                               *)
Cut(d) ==
  /\ reading[d] # NotReading
  /\ reading[d].mode = "resync" => CutResync
  /\ reading' = [reading EXCEPT ![d] = NotReading]
  /\ UNCHANGED <<received, cursor, exposed, unread>>

(* The local objects are gone, the settings are not.                        *)
Lose(d) ==
  /\ reading[d] = NotReading /\ cursor[d] > 0
  /\ received' = [received EXCEPT ![d] = Nothing]
  /\ UNCHANGED <<cursor, reading, exposed, unread>>

ReaderStep(d) ==
  Open(d) \/ Restore(d) \/ Resync(d) \/ StartPull(d) \/ Pull(d) \/ FinishPull(d) \/ Cut(d) \/ Lose(d)

ReadersNext ==
  \/ Next /\ UNCHANGED readers
  \/ (\E d \in Device : ReaderStep(d)) /\ UNCHANGED vars

ReadersSpec == Init /\ ReadersInit /\ [][ReadersNext]_allVars

-----------------------------------------------------------------------------
(* A device has every version of the stored objects up to a cursor, or a    *)
(* newer one, but for the objects that are left out.                        *)
Covers(d, c, left) ==
  \A e \in events : e.object \in Stored \ left /\ e.id <= c => received[d][e.object] >= e.revision

(* A device at rest has every version its cursor has passed, or a newer     *)
(* one: pages overlap, repeat and are cut, events arrive between them, and  *)
(* none falls in between.  A device that has read past an id whose          *)
(* transaction was still open is left out, and so are the objects of a      *)
(* snapshot beyond the one page of a restore or the cut of a resync, until  *)
(* an event of them is pulled.                                              *)
NothingMissed ==
  \A d \in Device : reading[d] = NotReading /\ received[d] # Nothing /\ ~exposed[d] =>
    Covers(d, cursor[d], unread[d])

(* docs/server-sync-design.md:173: at the first login a device takes the    *)
(* complete encrypted state from a snapshot.  It reads one page of it and   *)
(* keeps the cursor of all of it.                                           *)
RestoreIsComplete ==
  [][\A d \in Device : reading[d].mode = "restore" /\ cursor'[d] # cursor[d] =>
       Covers(d, cursor[d], {})']_allVars
=============================================================================
