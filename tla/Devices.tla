------------------------------- MODULE Devices -------------------------------
(***************************************************************************)
(* The devices of one account and the instance configuration: binding a     *)
(* device (bind_device, complete_email_account_setup), revoking it, calls   *)
(* with its token, and the administrator's changes of the configuration.    *)
(* None of these handlers uses a transaction: every statement commits on    *)
(* its own.  A token is a number; an installation keeps the one in the last *)
(* answer it received.                                                      *)
(***************************************************************************)
EXTENDS Naturals, FiniteSets

CONSTANTS
  Handler,   \* requests the server works on at a time
  Client,    \* installations, each with its clientDeviceId
  Default,   \* the configuration when none is stored: a number per setting
  Values,    \* numbers an administrator may give a setting
  NoOne,     \* the client of an administrator's request
  MaxToken, MaxRequests \* bounds

(* "maxDevices" is max_devices_per_account; the others stand for the rest   *)
(* of the document, the mail templates included.                            *)
Setting == DOMAIN Default

ASSUME DevicesAssumption ==
  /\ "maxDevices" \in Setting /\ Default \in [Setting -> Nat] /\ Values \subseteq Nat
  /\ NoOne \notin Client \cup Handler /\ Default["maxDevices"] >= 1

VARIABLES
  devices,   \* rows by client: [token, revoked]
  config,    \* the JSON document of instance_config
  job, pc,   \* what each handler works on, and where it is
  held,      \* the token an installation has stored, 0 for none
  waiting,   \* the handler an installation waits for, or NoOne
  issued, requests, \* tokens and requests so far
  changes,   \* auxiliary: steps that changed devices or config
  unheard    \* auxiliary: clients bound since they last heard of it

client == <<held, waiting>>
vars == <<devices, config, job, pc, client, issued, requests, changes, unheard>>

Bound == DOMAIN devices
Active == {c \in Bound : ~devices[c].revoked}

NoJob == [do |-> "none", client |-> NoOne, token |-> 0, saw |-> 0, doc |-> Default,
          setting |-> "maxDevices", value |-> 1]

Init ==
  /\ devices = [c \in {} |-> [token |-> 0, revoked |-> FALSE]]
  /\ config = Default
  /\ job = [h \in Handler |-> NoJob] /\ pc = [h \in Handler |-> "idle"]
  /\ held = [c \in Client |-> 0] /\ waiting = [c \in Client |-> NoOne]
  /\ issued = 0 /\ requests = 0 /\ changes = 0 /\ unheard = {}

WithDevice(c, token, revoked) ==
  [d \in Bound \cup {c} |-> IF d = c THEN [token |-> token, revoked |-> revoked] ELSE devices[d]]

Goto(h, next) == pc' = [pc EXCEPT ![h] = next]
End(h) == Goto(h, "idle") /\ job' = [job EXCEPT ![h] = NoJob]
Ask(h, j) ==
  /\ pc[h] = "idle" /\ requests < MaxRequests /\ requests' = requests + 1
  /\ job' = [job EXCEPT ![h] = j] /\ Goto(h, "received")

(* The answer reaches the installation if it still waits for it.            *)
Hears(h) == waiting[job[h].client] = h
Hear(h, token) ==
  LET c == job[h].client
  IN  IF Hears(h)
      THEN /\ waiting' = [waiting EXCEPT ![c] = NoOne]
           /\ held' = [held EXCEPT ![c] = token]
      ELSE UNCHANGED client

-----------------------------------------------------------------------------
(* An installation with a session asks to be bound, or calls with its token.*)
AskBind(h, c) ==
  /\ waiting[c] = NoOne /\ issued < MaxToken
  /\ issued' = issued + 1
  /\ Ask(h, [NoJob EXCEPT !.do = "bind", !.client = c, !.token = issued + 1])
  /\ waiting' = [waiting EXCEPT ![c] = h]
  /\ UNCHANGED <<devices, config, held, changes, unheard>>

AskSync(h, c) ==
  /\ waiting[c] = NoOne /\ held[c] # 0
  /\ Ask(h, [NoJob EXCEPT !.do = "sync", !.client = c, !.token = held[c]])
  /\ waiting' = [waiting EXCEPT ![c] = h]
  /\ UNCHANGED <<devices, config, held, issued, changes, unheard>>

(* The connection is lost; the server goes on with the request.             *)
GiveUp(c) ==
  /\ waiting[c] # NoOne
  /\ waiting' = [waiting EXCEPT ![c] = NoOne]
  /\ UNCHANGED <<devices, config, job, pc, held, issued, requests, changes, unheard>>

(* Seeded mistake: a device that is not revoked keeps its token.            *)
Bug_KeepToken(c, token) ==
  IF devices[c].revoked THEN WithDevice(c, token, FALSE) ELSE devices

(* "update devices set token_hash = ..., revoked_at = null where ..."       *)
Rebound(c, token) == WithDevice(c, token, FALSE)

(* create_or_update_device: a known installation gets a new token, whatever *)
(* the quota and whether or not it was revoked.                             *)
Rebind(h) ==
  LET c == job[h].client
  IN  /\ pc[h] = "received" /\ job[h].do = "bind" /\ c \in Bound
      /\ devices' = Rebound(c, job[h].token)
      /\ changes' = changes + 1
      /\ unheard' = IF Hears(h) THEN unheard \ {c} ELSE unheard \cup {c}
      /\ Hear(h, job[h].token)
      /\ End(h)
      /\ UNCHANGED <<config, issued, requests>>

(* An unknown one reads the quota, counts, and inserts.                     *)
Unknown(h) ==
  /\ pc[h] = "received" /\ job[h].do = "bind" /\ job[h].client \notin Bound
  /\ Goto(h, "quota")
  /\ UNCHANGED <<devices, config, job, client, issued, requests, changes, unheard>>

ReadQuota(h) ==
  /\ pc[h] = "quota"
  /\ job' = [job EXCEPT ![h].doc = config, ![h].saw = changes]
  /\ Goto(h, "count")
  /\ UNCHANGED <<devices, config, client, issued, requests, changes, unheard>>

(* Seeded mistake: the device that is about to come is not counted.         *)
Bug_Exceeded(quota) == Cardinality(Active) > quota

QuotaExceeded(quota) == Cardinality(Active) >= quota

Count(h) ==
  /\ pc[h] = "count"
  /\ IF QuotaExceeded(job[h].doc["maxDevices"])
     THEN End(h) /\ Hear(h, held[job[h].client])
     ELSE Goto(h, "insert") /\ UNCHANGED <<job, client>>
  /\ UNCHANGED <<devices, config, issued, requests, changes, unheard>>

(* A row that has come meanwhile breaks the unique index: an error.         *)
Insert(h) ==
  LET c == job[h].client
  IN  /\ pc[h] = "insert"
      /\ IF c \in Bound
         THEN Hear(h, held[c]) /\ UNCHANGED <<devices, changes, unheard>>
         ELSE /\ devices' = WithDevice(c, job[h].token, FALSE)
              /\ changes' = changes + 1
              /\ unheard' = IF Hears(h) THEN unheard \ {c} ELSE unheard \cup {c}
              /\ Hear(h, job[h].token)
      /\ End(h)
      /\ UNCHANGED <<config, issued, requests>>

-----------------------------------------------------------------------------
WithToken(token) == {c \in Active : devices[c].token = token}

(* authenticate_bearer; an installation that is refused drops its token.    *)
Authenticate(h) ==
  /\ pc[h] = "received" /\ job[h].do = "sync"
  /\ IF WithToken(job[h].token) = {}
     THEN End(h) /\ Hear(h, 0)
     ELSE Goto(h, "allowed") /\ UNCHANGED <<job, client>>
  /\ UNCHANGED <<devices, config, issued, requests, changes, unheard>>

(* The sync handler itself looks at the scopes only, not at the device.     *)
Serve(h) ==
  /\ pc[h] = "allowed"
  /\ End(h) /\ Hear(h, held[job[h].client])
  /\ UNCHANGED <<devices, config, issued, requests, changes, unheard>>

(* revoke_device and admin_revoke_device                                    *)
Revoke(c) ==
  /\ c \in Bound /\ requests < MaxRequests /\ requests' = requests + 1
  /\ devices' = WithDevice(c, devices[c].token, TRUE)
  /\ changes' = changes + 1
  /\ UNCHANGED <<config, job, pc, client, issued, unheard>>

-----------------------------------------------------------------------------
(* admin_patch_config, admin_update_email_template and                      *)
(* admin_restore_email_template: load the document, change it, save it.     *)
AskPatch(h, s, v) ==
  /\ Ask(h, [NoJob EXCEPT !.do = "patch", !.setting = s, !.value = v])
  /\ UNCHANGED <<devices, config, client, issued, changes, unheard>>

Load(h) ==
  /\ pc[h] = "received" /\ job[h].do = "patch"
  /\ job' = [job EXCEPT ![h].doc = config]
  /\ Goto(h, "save")
  /\ UNCHANGED <<devices, config, client, issued, requests, changes, unheard>>

Save(h) ==
  /\ pc[h] = "save"
  /\ config' = [job[h].doc EXCEPT ![job[h].setting] = job[h].value]
  /\ changes' = changes + 1
  /\ End(h)
  /\ UNCHANGED <<devices, client, issued, requests, unheard>>

(* A statement fails or the process stops between two statements.           *)
Fail(h) ==
  /\ pc[h] # "idle"
  /\ End(h)
  /\ IF job[h].client # NoOne THEN Hear(h, held[job[h].client]) ELSE UNCHANGED client
  /\ UNCHANGED <<devices, config, issued, requests, changes, unheard>>

HandlerStep(h) ==
  \/ Rebind(h) \/ Unknown(h) \/ ReadQuota(h) \/ Count(h) \/ Insert(h)
  \/ Authenticate(h) \/ Serve(h) \/ Load(h) \/ Save(h) \/ Fail(h)
  \/ \E c \in Client : AskBind(h, c) \/ AskSync(h, c)
  \/ \E s \in Setting, v \in Values : AskPatch(h, s, v)

Next ==
  \/ \E h \in Handler : HandlerStep(h)
  \/ \E c \in Client : GiveUp(c) \/ Revoke(c)

Spec == Init /\ [][Next]_vars

-----------------------------------------------------------------------------
(* Tables, documents and installations keep their shape; two devices never  *)
(* share a token.                                                           *)
TypeOK ==
  /\ Bound \subseteq Client /\ config \in [Setting -> Nat]
  /\ \A c \in Bound : devices[c] \in [token : 1..issued, revoked : BOOLEAN]
  /\ \A c, d \in Bound : devices[c].token = devices[d].token => c = d
  /\ held \in [Client -> 0..issued] /\ waiting \in [Client -> Handler \cup {NoOne}]

(* A device comes into use over the quota in two ways only: its row was     *)
(* there and revoked, and binding it again never asks for the quota, or     *)
(* devices or configuration changed after the handler that inserts it had   *)
(* read the quota.                                                          *)
OverQuotaTwoWays ==
  [][\A c \in Active' \ Active :
       Cardinality(Active') > config["maxDevices"] =>
         \/ c \in Bound
         \/ \E h \in Handler : /\ pc[h] = "insert" /\ pc'[h] = "idle"
                             /\ job[h].client = c /\ changes # job[h].saw]_vars

(* An installation at rest holds a token that works, unless the device was  *)
(* revoked, or bound again in a request whose answer it did not hear.       *)
HeldTokenWorks ==
  \A c \in Client :
    waiting[c] = NoOne /\ held[c] # 0 /\ c \notin unheard =>
      devices[c].token = held[c]
=============================================================================
