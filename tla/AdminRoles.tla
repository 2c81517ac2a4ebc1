----------------------------- MODULE AdminRoles -----------------------------
(***************************************************************************)
(* Administrators disable accounts and change roles, each request in a      *)
(* transaction of its own, one action per SQL statement that others can     *)
(* observe or wait for.                                                     *)
(*                                                                         *)
(* PostgreSQL runs at READ COMMITTED.  FOR UPDATE on an account waits for   *)
(* another FOR UPDATE on it and for the key-share lock that a row referring *)
(* to it takes: account_roles.granted_by and the audit log refer to the     *)
(* account of the administrator who asks.  A request in a transaction has   *)
(* one connection of the pool, and ensure_role takes a second one; the     *)
(* audit entry is written after the commit, on a connection of its own.     *)
(***************************************************************************)
EXTENDS Naturals, FiniteSets

CONSTANTS
  Account,
  Admin,        \* administrators at the start
  Handler,      \* requests the server can be working on at the same time
  PoolSize,     \* connections of the pool
  MaxRequests   \* bound: requests the server receives

ASSUME AccountAssumption ==
  /\ IsFiniteSet(Account)
  /\ Admin \subseteq Account /\ Admin # {}

ASSUME PoolAssumption == IsFiniteSet(Handler) /\ PoolSize \in Nat /\ MaxRequests \in Nat

Role == {"admin", "user"}

AccountRecord == [roles : SUBSET Role, status : {"enabled", "disabled"}]

(* "rename" is a patch of the display name alone.                           *)
Kind == {"rename", "disable", "enable", "grant_admin", "grant_user",
         "revoke_admin", "revoke_user"}

Request == [actor : Account, kind : Kind, target : Account]

(* What a handler holds that has no request, or has read no account.        *)
Idle == LET a == CHOOSE x \in Admin : TRUE
        IN  [actor |-> a, kind |-> "rename", target |-> a]

Unread == [roles |-> {}, status |-> "enabled"]

VARIABLES
  accounts,  \* accounts with their account_roles, as committed
  pc,        \* where each handler is
  request,   \* the request it works on
  seen,      \* the account as its FOR UPDATE returned it
  requests   \* requests received so far

vars == <<accounts, pc, request, seen, requests>>

-----------------------------------------------------------------------------
IsEnabledAdmin(account) == "admin" \in account.roles /\ account.status = "enabled"

EnabledAdmins == {a \in Account : IsEnabledAdmin(accounts[a])}

Target(h) == request[h].target
Grants(h) == request[h].kind \in {"grant_admin", "grant_user"}

(* Requests that may take an administrator away.                            *)
Demotes(h) == request[h].kind \in {"disable", "grant_user", "revoke_admin"}

(* ensure_can_disable_account and ensure_can_remove_admin look no further   *)
(* if the account is no enabled administrator.                              *)
TakesGuard(h) == Demotes(h) /\ IsEnabledAdmin(seen[h])

InTransaction(h) == pc[h] \in {"begun", "locked", "known", "guarded", "allowed", "written"}

(* Seeded mistake: the account is read without FOR UPDATE.                  *)
Bug_PlainSelect(h, a) == pc[h] = "written" /\ Target(h) = a

HoldsRow(h, a) ==
  pc[h] \in {"locked", "known", "guarded", "allowed", "written"} /\ Target(h) = a

(* Seeded mistake: administrators are counted without the advisory lock.    *)
Bug_NoGuard(h) == FALSE

(* Seeded mistake: the advisory lock is taken before the row.               *)
Bug_GuardFirst(h) == InTransaction(h) /\ Demotes(h)

(* pg_advisory_xact_lock, until the end of the transaction.                 *)
HoldsGuard(h) == pc[h] \in {"guarded", "allowed", "written"} /\ TakesGuard(h)

(* The foreign key of a granted role.                                       *)
HoldsKeyShare(h, a) == pc[h] = "written" /\ Grants(h) /\ request[h].actor = a

(* The handlers whose locks the next statement of h waits for.              *)
Blockers(h) ==
  {g \in Handler \ {h} :
     \/ pc[h] = "begun" /\ (HoldsRow(g, Target(h)) \/ HoldsKeyShare(g, Target(h)))
     \/ pc[h] = "known" /\ TakesGuard(h) /\ HoldsGuard(g)
     \/ pc[h] = "allowed" /\ Grants(h) /\ HoldsRow(g, request[h].actor)
     \/ pc[h] = "auditing" /\ HoldsRow(g, request[h].actor)}

Connected == {h \in Handler : InTransaction(h) \/ pc[h] = "auditing"}

ConnectionFree == Cardinality(Connected) < PoolSize

GoTo(h, where) == pc' = [pc EXCEPT ![h] = where]

Finish(h) ==
  /\ GoTo(h, "idle")
  /\ request' = [request EXCEPT ![h] = Idle]
  /\ seen' = [seen EXCEPT ![h] = Unread]

-----------------------------------------------------------------------------
Init ==
  /\ accounts = [a \in Account |->
       [roles |-> IF a \in Admin THEN {"admin"} ELSE {"user"}, status |-> "enabled"]]
  /\ pc = [h \in Handler |-> "idle"]
  /\ request = [h \in Handler |-> Idle]
  /\ seen = [h \in Handler |-> Unread]
  /\ requests = 0

(* authenticate_bearer and ensure_admin read the roles of the actor; they   *)
(* are not looked at again.                                                 *)
Receive(h, r) ==
  /\ pc[h] = "idle" /\ requests < MaxRequests
  /\ ConnectionFree
  /\ IsEnabledAdmin(accounts[r.actor])
  /\ request' = [request EXCEPT ![h] = r]
  /\ requests' = requests + 1
  /\ GoTo(h, "received")
  /\ UNCHANGED <<accounts, seen>>

Begin(h) ==
  /\ pc[h] = "received" /\ ConnectionFree
  /\ GoTo(h, "begun")
  /\ UNCHANGED <<accounts, request, seen, requests>>

(* fetch_account_required_for_update.                                       *)
LockRow(h) ==
  /\ pc[h] = "begun" /\ Blockers(h) = {}
  /\ seen' = [seen EXCEPT ![h] = accounts[Target(h)]]
  /\ GoTo(h, IF Grants(h) THEN "locked" ELSE "known")
  /\ UNCHANGED <<accounts, request, requests>>

(* ensure_role, on a connection of its own.                                 *)
EnsureRole(h) ==
  /\ pc[h] = "locked" /\ ConnectionFree
  /\ GoTo(h, "known")
  /\ UNCHANGED <<accounts, request, seen, requests>>

(* Administrators demote neither themselves ...                             *)
IsOwnDemotion(h) == Demotes(h) /\ Target(h) = request[h].actor

(* ... nor the last one that is enabled.                                    *)
IsLastAdmin == Cardinality(EnabledAdmins) <= 1

Refuse(h) ==
  /\ \/ pc[h] = "known" /\ IsOwnDemotion(h)
     \/ pc[h] = "guarded" /\ IsLastAdmin
  /\ Finish(h)
  /\ UNCHANGED <<accounts, requests>>

TakeGuard(h) ==
  /\ pc[h] = "known" /\ ~IsOwnDemotion(h)
  /\ TakesGuard(h) /\ Blockers(h) = {}
  /\ GoTo(h, "guarded")
  /\ UNCHANGED <<accounts, request, seen, requests>>

(* Only the write of a grant can wait.                                      *)
Allow(h) ==
  /\ \/ pc[h] = "guarded" /\ ~IsLastAdmin
     \/ pc[h] = "known" /\ ~IsOwnDemotion(h) /\ ~TakesGuard(h)
  /\ GoTo(h, IF Grants(h) THEN "allowed" ELSE "written")
  /\ UNCHANGED <<accounts, request, seen, requests>>

Write(h) ==
  /\ pc[h] = "allowed" /\ Blockers(h) = {}
  /\ GoTo(h, "written")
  /\ UNCHANGED <<accounts, request, seen, requests>>

(* A patch writes the whole row it has read; a grant replaces all roles.    *)
Changed(h, account) ==
  CASE request[h].kind = "rename" -> [account EXCEPT !.status = seen[h].status]
    [] request[h].kind = "disable" -> [account EXCEPT !.status = "disabled"]
    [] request[h].kind = "enable" -> [account EXCEPT !.status = "enabled"]
    [] request[h].kind = "grant_admin" -> [account EXCEPT !.roles = {"admin"}]
    [] request[h].kind = "grant_user" -> [account EXCEPT !.roles = {"user"}]
    [] request[h].kind = "revoke_admin" -> [account EXCEPT !.roles = @ \ {"admin"}]
    [] request[h].kind = "revoke_user" -> [account EXCEPT !.roles = @ \ {"user"}]

Commit(h) ==
  /\ pc[h] = "written"
  /\ accounts' = [accounts EXCEPT ![Target(h)] = Changed(h, @)]
  /\ GoTo(h, "committed")
  /\ seen' = [seen EXCEPT ![h] = Unread]
  /\ UNCHANGED <<request, requests>>

(* append_audit, after the transaction and on another connection.           *)
BeginAudit(h) ==
  /\ pc[h] = "committed" /\ ConnectionFree
  /\ GoTo(h, "auditing")
  /\ UNCHANGED <<accounts, request, seen, requests>>

Audit(h) ==
  /\ pc[h] = "auditing" /\ Blockers(h) = {}
  /\ Finish(h)
  /\ UNCHANGED <<accounts, requests>>

(* A statement fails, times out or is the victim of a deadlock.             *)
Abort(h) ==
  /\ pc[h] # "idle"
  /\ Finish(h)
  /\ UNCHANGED <<accounts, requests>>

Work(h) ==
  \/ Begin(h) \/ LockRow(h) \/ EnsureRole(h) \/ Refuse(h) \/ TakeGuard(h) \/ Allow(h)
  \/ Write(h) \/ Commit(h) \/ BeginAudit(h) \/ Audit(h) \/ Abort(h)

Next == \E h \in Handler : Work(h) \/ \E r \in Request : Receive(h, r)

Spec == Init /\ [][Next]_vars

-----------------------------------------------------------------------------
(* The shape of the tables and handlers; no more connections in use than    *)
(* the pool has.                                                            *)
TypeOK ==
  /\ accounts \in [Account -> AccountRecord]
  /\ pc \in [Handler -> {"idle", "received", "begun", "locked", "known", "guarded",
                         "allowed", "written", "committed", "auditing"}]
  /\ request \in [Handler -> Request]
  /\ seen \in [Handler -> AccountRecord]
  /\ requests \in Nat
  /\ Cardinality(Connected) <= PoolSize

(* Somebody can always administer the server, even if administrators        *)
(* disable or demote each other at the same moment.                         *)
SomeEnabledAdmin == EnabledAdmins # {}

(* Only a request to enable it enables an account: a patch that writes back *)
(* the row it has read does not undo what was done in the meantime.         *)
DisabledStays ==
  [][\A a \in Account :
       accounts[a].status = "disabled" /\ accounts'[a].status = "enabled"
         => \E h \in Handler : pc[h] = "written" /\ request[h].kind = "enable"
                               /\ Target(h) = a]_vars

WaitsForConnection(h) ==
  pc[h] \in {"received", "locked", "committed"} /\ ~ConnectionFree

(* Handlers of which none can go on before another one of them does.        *)
WaitForEachOther(handlers) ==
  \A h \in handlers :
    \/ Blockers(h) \cap handlers # {}
    \/ WaitsForConnection(h) /\ Connected \subseteq handlers

(* Requests wait for each other in a circle only if one of them grants a    *)
(* role, which takes a second connection and a lock on its own actor; all   *)
(* others take the target's row, then the advisory lock, and nothing else.  *)
OnlyGrantsDeadlock ==
  \A handlers \in SUBSET Handler :
    handlers # {} /\ WaitForEachOther(handlers)
      => \E h \in handlers : Grants(h) /\ pc[h] \in {"locked", "allowed"}
=============================================================================
