---------------------------- MODULE DevicesProofs ----------------------------
(***************************************************************************)
(* Invariants of Devices for any number of requests, installations and      *)
(* settings.  Both rest on the tokens of requests under way being new.      *)
(***************************************************************************)
EXTENDS Devices, FiniteSetTheorems, TLAPS

USE DevicesAssumption DEF DevicesAssumption

Job ==
  [do : {"none", "bind", "sync", "patch"}, client : Client \cup {NoOne}, token : Nat,
   saw : Nat, doc : [Setting -> Nat], setting : Setting, value : Nat]

Pending(h) == pc[h] # "idle" /\ job[h].do = "bind"

TablesOK ==
  /\ Bound \subseteq Client /\ config \in [Setting -> Nat]
  /\ \A c \in Bound : devices[c] \in [token : Nat, revoked : BOOLEAN]
JobsOK ==
  /\ job \in [Handler -> Job]
  /\ pc \in [Handler -> {"idle", "received", "quota", "count", "insert", "allowed", "save"}]
HeardOK == held \in [Client -> Nat] /\ waiting \in [Client -> Handler \cup {NoOne}]
CountersOK == issued \in Nat /\ changes \in Nat
Shape == TablesOK /\ JobsOK /\ HeardOK /\ CountersOK

(* Where a handler is tells what its request asks for.                      *)
PlaceInv ==
  \A h \in Handler :
    /\ pc[h] \in {"quota", "count", "insert"} => job[h].do = "bind"
    /\ pc[h] = "allowed" => job[h].do = "sync"
    /\ pc[h] # "idle" /\ job[h].do \in {"bind", "sync"} => job[h].client \in Client

(* Tokens have been issued; no two devices share one, and those of requests *)
(* under way are in no row yet.                                             *)
IssuedInv ==
  /\ \A c \in Bound : devices[c].token \in 1..issued
  /\ \A c \in Client : held[c] \in 0..issued
  /\ \A h \in Handler : Pending(h) => job[h].token \in 1..issued
UniqueInv ==
  /\ \A c, d \in Bound : devices[c].token = devices[d].token => c = d
  /\ \A h \in Handler : Pending(h) => \A c \in Bound : devices[c].token # job[h].token
  /\ \A g, h \in Handler : Pending(g) /\ Pending(h) /\ job[g].token = job[h].token => g = h

HeldInv ==
  \A c \in Client : held[c] # 0 /\ c \notin unheard => c \in Bound /\ devices[c].token = held[c]

IInv == Shape /\ PlaceInv /\ IssuedInv /\ UniqueInv /\ HeldInv

LEMMA NoJobType == NoJob \in Job
<1>1. Default \in [Setting -> Nat] /\ "maxDevices" \in Setting
  BY DEF Setting
<1> QED
  BY <1>1 DEF NoJob, Job

LEMMA Initial == Init => IInv
<1> SUFFICES ASSUME Init PROVE IInv
  OBVIOUS
<1>1. Bound = {}
  BY DEF Init, Bound
<1>2. TablesOK
  BY <1>1 DEF Init, TablesOK, Setting
<1>3. JobsOK
  BY NoJobType DEF Init, JobsOK
<1>4. HeardOK /\ CountersOK
  BY DEF Init, HeardOK, CountersOK
<1>5. PlaceInv /\ HeldInv
  BY DEF Init, PlaceInv, HeldInv
<1>6. IssuedInv /\ UniqueInv
  BY <1>1 DEF Init, IssuedInv, UniqueInv, Pending
<1> QED
  BY <1>2, <1>3, <1>4, <1>5, <1>6 DEF IInv, Shape

LEMMA WithDeviceType ==
  ASSUME TablesOK, NEW c \in Client, NEW token \in Nat, NEW revoked \in BOOLEAN,
         devices' = WithDevice(c, token, revoked)
  PROVE  /\ Bound' = Bound \cup {c}
         /\ devices'[c] = [token |-> token, revoked |-> revoked]
         /\ \A d \in Bound \ {c} : devices'[d] = devices[d]
BY DEF WithDevice, Bound

-----------------------------------------------------------------------------
(* What the steps do, by what they change                                   *)

(* A handler that goes on or ends, as the others see it                     *)
LEMMA EndJobs ==
  ASSUME JobsOK, NEW h \in Handler, End(h)
  PROVE  /\ JobsOK'
         /\ pc'[h] = "idle"
         /\ \A g \in Handler \ {h} : pc'[g] = pc[g] /\ job'[g] = job[g]
BY NoJobType DEF JobsOK, End, Goto

LEMMA AskJobs ==
  ASSUME JobsOK, NEW h \in Handler, NEW j \in Job, Ask(h, j)
  PROVE  /\ JobsOK'
         /\ pc'[h] = "received" /\ job'[h] = j
         /\ \A g \in Handler \ {h} : pc'[g] = pc[g] /\ job'[g] = job[g]
BY DEF JobsOK, Ask, Goto

LEMMA HearType ==
  ASSUME HeardOK, NEW h \in Handler, job[h].client \in Client, NEW token \in Nat, Hear(h, token)
  PROVE  /\ HeardOK'
         /\ \A c \in Client : held'[c] = IF c = job[h].client /\ Hears(h) THEN token ELSE held[c]
BY DEF HeardOK, Hear, client

(* A device is bound: inserted or updated.                                  *)
Binds(h) ==
  LET c == job[h].client
  IN  /\ Pending(h) /\ c \in Client
      /\ devices' = WithDevice(c, job[h].token, FALSE)
      /\ changes' = changes + 1
      /\ unheard' = IF Hears(h) THEN unheard \ {c} ELSE unheard \cup {c}
      /\ Hear(h, job[h].token)
      /\ End(h)
      /\ UNCHANGED <<config, issued>>

LEMMA BindsKeeps ==
  ASSUME IInv, NEW h \in Handler, Binds(h)
  PROVE  IInv'
<1> DEFINE c == job[h].client  t == job[h].token
<1>0. c \in Client /\ t \in Nat /\ t \in 1..issued /\ Pending(h) /\ FALSE \in BOOLEAN
  BY DEF Binds, IInv, Shape, JobsOK, Job, IssuedInv
<1> HIDE DEF c, t
<1>1. /\ Bound' = Bound \cup {c} /\ devices'[c] = [token |-> t, revoked |-> FALSE]
      /\ \A d \in Bound \ {c} : devices'[d] = devices[d]
  BY <1>0, WithDeviceType DEF Binds, IInv, Shape, c, t
<1>2. /\ JobsOK' /\ pc'[h] = "idle" /\ \A g \in Handler \ {h} : pc'[g] = pc[g] /\ job'[g] = job[g]
  BY EndJobs DEF Binds, IInv, Shape
<1>3. HeardOK' /\ \A d \in Client : held'[d] = IF d = c /\ Hears(h) THEN t ELSE held[d]
  BY <1>0, HearType DEF Binds, IInv, Shape, c, t
<1>4. unheard' = IF Hears(h) THEN unheard \ {c} ELSE unheard \cup {c}
  BY DEF Binds, c
<1>5. issued' = issued /\ config' = config /\ changes' = changes + 1
  BY DEF Binds
<1>6. ~Pending(h)' /\ \A g \in Handler \ {h} : Pending(g)' = Pending(g)
  BY <1>2 DEF Pending
<1>7. Shape'
  <2>0. devices'[c] \in [token : Nat, revoked : BOOLEAN]
    BY <1>0, <1>1
  <2>1. TablesOK'
    BY <1>0, <1>1, <1>5, <2>0 DEF IInv, Shape, TablesOK
  <2>2. CountersOK'
    BY <1>5 DEF IInv, Shape, CountersOK
  <2> QED
    BY <1>2, <1>3, <2>1, <2>2 DEF Shape
<1>8. PlaceInv'
  BY <1>2 DEF IInv, PlaceInv
<1>9. IssuedInv'
  <2>1. \A d \in Bound' : devices'[d].token \in 1..issued'
    BY <1>0, <1>1, <1>5 DEF IInv, IssuedInv
  <2>2. \A d \in Client : held'[d] \in 0..issued'
    BY <1>0, <1>3, <1>5 DEF IInv, IssuedInv
  <2>3. \A g \in Handler : Pending(g)' => job'[g].token \in 1..issued'
    BY <1>2, <1>5, <1>6 DEF IInv, IssuedInv
  <2> QED
    BY <2>1, <2>2, <2>3 DEF IssuedInv
<1>10. UniqueInv'
  <2>1. \A d \in Bound : devices[d].token # t
    BY <1>0 DEF IInv, UniqueInv, t
  <2>2. \A d, e \in Bound' : devices'[d].token = devices'[e].token => d = e
    BY <1>1, <2>1 DEF IInv, UniqueInv
  <2>3. \A g \in Handler \ {h} : Pending(g) => job[g].token # t
    BY <1>0 DEF IInv, UniqueInv, t
  <2>4. \A g \in Handler : Pending(g)' => \A d \in Bound' : devices'[d].token # job'[g].token
    BY <1>1, <1>2, <1>6, <2>3 DEF IInv, UniqueInv
  <2>5. \A g, k \in Handler : Pending(g)' /\ Pending(k)' /\ job'[g].token = job'[k].token => g = k
    BY <1>2, <1>6 DEF IInv, UniqueInv
  <2> QED
    BY <2>2, <2>4, <2>5 DEF UniqueInv
<1>11. HeldInv'
  <2> SUFFICES ASSUME NEW d \in Client, held'[d] # 0, d \notin unheard'
               PROVE  d \in Bound' /\ devices'[d].token = held'[d]
    BY DEF HeldInv
  <2>1. CASE d = c
    BY <1>1, <1>3, <1>4, <2>1
  <2>2. CASE d # c
    BY <1>1, <1>3, <1>4, <2>2 DEF IInv, HeldInv
  <2> QED
    BY <2>1, <2>2
<1> QED
  BY <1>7, <1>8, <1>9, <1>10, <1>11 DEF IInv

(* A handler answers with the token the installation has, or with none.     *)
Answers(h) ==
  LET c == job[h].client
  IN  /\ c \in Client
      /\ \E token \in {0, held[c]} : Hear(h, token)
      /\ End(h)
      /\ UNCHANGED <<devices, config, issued, changes, unheard>>

LEMMA AnswersKeeps ==
  ASSUME IInv, NEW h \in Handler, Answers(h)
  PROVE  IInv'
<1> DEFINE c == job[h].client
<1>0. PICK token \in {0, held[c]} : Hear(h, token)
  BY DEF Answers
<1>1. c \in Client /\ token \in Nat
  BY DEF Answers, IInv, Shape, HeardOK
<1>2. /\ JobsOK' /\ pc'[h] = "idle" /\ \A g \in Handler \ {h} : pc'[g] = pc[g] /\ job'[g] = job[g]
  BY EndJobs DEF Answers, IInv, Shape
<1>3. HeardOK' /\ \A d \in Client : held'[d] = held[d] \/ held'[d] = 0
  BY <1>0, <1>1, HearType DEF IInv, Shape
<1>4. ~Pending(h)' /\ \A g \in Handler \ {h} : Pending(g)' = Pending(g)
  BY <1>2 DEF Pending
<1>5. UNCHANGED <<devices, Bound, config, issued, changes, unheard>>
  BY DEF Answers, Bound
<1>6. Shape' /\ PlaceInv'
  BY <1>2, <1>3, <1>5 DEF IInv, Shape, TablesOK, CountersOK, PlaceInv
<1>7. IssuedInv'
  <2>1. \A d \in Client : held'[d] \in 0..issued'
    BY <1>3, <1>5 DEF IInv, IssuedInv, Shape, CountersOK
  <2> QED
    BY <1>2, <1>4, <1>5, <2>1 DEF IInv, IssuedInv
<1>8. UniqueInv'
  BY <1>2, <1>4, <1>5 DEF IInv, UniqueInv
<1>9. HeldInv'
  BY <1>3, <1>5 DEF IInv, HeldInv
<1> QED
  BY <1>6, <1>7, <1>8, <1>9 DEF IInv

(* A handler receives a request or goes on with it.                         *)
Works(h) ==
  /\ \A g \in Handler \ {h} : pc'[g] = pc[g] /\ job'[g] = job[g]
  /\ JobsOK'
  /\ Pending(h)' => Pending(h) /\ job'[h].token = job[h].token
  /\ UNCHANGED <<devices, config, held, issued, changes, unheard>>

LEMMA WorksKeeps ==
  ASSUME IInv, NEW h \in Handler, Works(h), PlaceInv', HeardOK'
  PROVE  IInv'
<1>1. UNCHANGED <<devices, Bound, config, held, issued, changes, unheard>>
  BY DEF Works, Bound
<1>2. \A g \in Handler : Pending(g)' => Pending(g) /\ job'[g].token = job[g].token
  BY DEF Works, Pending
<1>3. Shape'
  BY <1>1 DEF IInv, Shape, Works, TablesOK, CountersOK
<1>4. IssuedInv'
  BY <1>1, <1>2 DEF IInv, IssuedInv
<1>5. UniqueInv'
  BY <1>1, <1>2 DEF IInv, UniqueInv
<1>6. HeldInv'
  BY <1>1 DEF IInv, HeldInv
<1> QED
  BY <1>3, <1>4, <1>5, <1>6 DEF IInv

LEMMA AskBindKeeps ==
  ASSUME IInv, NEW h \in Handler, NEW c \in Client, AskBind(h, c)
  PROVE  IInv'
<1> DEFINE j == [NoJob EXCEPT !.do = "bind", !.client = c, !.token = issued + 1]
<1>0. issued \in Nat /\ issued' = issued + 1
  BY DEF AskBind, IInv, Shape, CountersOK
<1>1. j \in Job /\ j.do = "bind" /\ j.client = c /\ j.token = issued + 1
  <2>1. issued + 1 \in Nat
    BY <1>0
  <2> QED
    BY <2>1, NoJobType DEF Job
<1> HIDE DEF j
<1>2. Ask(h, j)
  BY DEF AskBind, j
<1>3. /\ JobsOK' /\ pc'[h] = "received" /\ job'[h] = j
      /\ \A g \in Handler \ {h} : pc'[g] = pc[g] /\ job'[g] = job[g]
  BY <1>1, <1>2, AskJobs DEF IInv, Shape
<1>4. UNCHANGED <<devices, Bound, config, held, changes, unheard>>
  BY DEF AskBind, Bound
<1>5. HeardOK'
  BY DEF AskBind, IInv, Shape, HeardOK
<1>6. \A g \in Handler \ {h} : Pending(g)' = Pending(g) /\ job'[g] = job[g]
  BY <1>3 DEF Pending
<1>7. Shape'
  BY <1>0, <1>3, <1>4, <1>5 DEF IInv, Shape, TablesOK, CountersOK
<1>8. PlaceInv'
  BY <1>1, <1>3 DEF IInv, PlaceInv
<1>9. IssuedInv'
  <2>1. 1..issued \subseteq 1..issued' /\ 0..issued \subseteq 0..issued' /\ issued + 1 \in 1..issued'
    BY <1>0
  <2>2. \A d \in Bound' : devices'[d].token \in 1..issued'
    BY <1>4, <2>1 DEF IInv, IssuedInv
  <2>3. \A d \in Client : held'[d] \in 0..issued'
    BY <1>4, <2>1 DEF IInv, IssuedInv
  <2>4. \A g \in Handler : Pending(g)' => job'[g].token \in 1..issued'
    BY <1>1, <1>3, <1>6, <2>1 DEF IInv, IssuedInv
  <2> QED
    BY <2>2, <2>3, <2>4 DEF IssuedInv
<1>10. UniqueInv'
  <2>1. \A d \in Bound : devices[d].token # issued + 1
    BY <1>0 DEF IInv, IssuedInv
  <2>2. \A g \in Handler \ {h} : Pending(g) => job[g].token # issued + 1
    BY <1>0 DEF IInv, IssuedInv
  <2> QED
    BY <1>1, <1>3, <1>4, <1>6, <2>1, <2>2 DEF IInv, UniqueInv
<1>11. HeldInv'
  BY <1>4 DEF IInv, HeldInv
<1> QED
  BY <1>7, <1>8, <1>9, <1>10, <1>11 DEF IInv

-----------------------------------------------------------------------------
LEMMA Inductive == IInv /\ [Next]_vars => IInv'
<1> SUFFICES ASSUME IInv, [Next]_vars PROVE IInv'
  OBVIOUS
<1>1. ASSUME NEW h \in Handler, NEW c \in Client, AskBind(h, c) PROVE IInv'
  BY <1>1, AskBindKeeps
<1>2. ASSUME NEW h \in Handler, NEW c \in Client, AskSync(h, c) PROVE IInv'
  <2> DEFINE j == [NoJob EXCEPT !.do = "sync", !.client = c, !.token = held[c]]
  <2>1. j \in Job /\ j.do = "sync" /\ j.client = c
    <3>1. held[c] \in Nat
      BY DEF IInv, Shape, HeardOK
    <3> QED
      BY <3>1, NoJobType DEF Job
  <2> HIDE DEF j
  <2>2. Ask(h, j)
    BY <1>2 DEF AskSync, j
  <2>3. /\ JobsOK' /\ pc'[h] = "received" /\ job'[h] = j
        /\ \A g \in Handler \ {h} : pc'[g] = pc[g] /\ job'[g] = job[g]
    BY <2>1, <2>2, AskJobs DEF IInv, Shape
  <2>4. Works(h) /\ HeardOK'
    BY <1>2, <2>1, <2>3 DEF AskSync, Works, Pending, IInv, Shape, HeardOK
  <2>5. PlaceInv'
    BY <2>1, <2>3 DEF IInv, PlaceInv
  <2> QED
    BY <2>4, <2>5, WorksKeeps
<1>3. ASSUME NEW h \in Handler, NEW s \in Setting, NEW v \in Values, AskPatch(h, s, v) PROVE IInv'
  <2> DEFINE j == [NoJob EXCEPT !.do = "patch", !.setting = s, !.value = v]
  <2>1. j \in Job /\ j.do = "patch"
    BY NoJobType DEF Job
  <2> HIDE DEF j
  <2>2. Ask(h, j)
    BY <1>3 DEF AskPatch, j
  <2>3. /\ JobsOK' /\ pc'[h] = "received" /\ job'[h] = j
        /\ \A g \in Handler \ {h} : pc'[g] = pc[g] /\ job'[g] = job[g]
    BY <2>1, <2>2, AskJobs DEF IInv, Shape
  <2>4. Works(h) /\ HeardOK'
    BY <1>3, <2>1, <2>3 DEF AskPatch, client, Works, Pending, IInv, Shape, HeardOK
  <2>5. PlaceInv'
    BY <2>1, <2>3 DEF IInv, PlaceInv
  <2> QED
    BY <2>4, <2>5, WorksKeeps
<1>4. ASSUME NEW h \in Handler, Rebind(h) \/ Insert(h) PROVE IInv'
  <2>1. Pending(h) /\ job[h].client \in Client
    BY <1>4 DEF Rebind, Insert, Pending, IInv, PlaceInv
  <2>2. Binds(h) \/ Answers(h)
    BY <1>4, <2>1 DEF Rebind, Rebound, Insert, Binds, Answers
  <2> QED
    BY <2>2, BindsKeeps, AnswersKeeps
<1>5. ASSUME NEW h \in Handler, Unknown(h) \/ ReadQuota(h) \/ Load(h) PROVE IInv'
  <2>1. config \in [Setting -> Nat] /\ changes \in Nat
    BY DEF IInv, Shape, TablesOK, CountersOK
  <2>2. JobsOK'
    <3>1. job[h] \in Job
      BY DEF IInv, Shape, JobsOK
    <3>2. \A n \in Nat : [[job[h] EXCEPT !.doc = config] EXCEPT !.saw = n] \in Job
      BY <2>1, <3>1 DEF Job
    <3>3. [job[h] EXCEPT !.doc = config] \in Job
      BY <2>1, <3>1 DEF Job
    <3>4. CASE Unknown(h)
      BY <3>4 DEF Unknown, Goto, IInv, Shape, JobsOK
    <3>5. CASE ReadQuota(h)
      BY <2>1, <3>2, <3>5 DEF ReadQuota, Goto, IInv, Shape, JobsOK
    <3>6. CASE Load(h)
      BY <3>3, <3>6 DEF Load, Goto, IInv, Shape, JobsOK
    <3> QED
      BY <1>5, <3>4, <3>5, <3>6
  <2>3. /\ job'[h].do = job[h].do /\ job'[h].client = job[h].client /\ job'[h].token = job[h].token
        /\ \A g \in Handler \ {h} : pc'[g] = pc[g] /\ job'[g] = job[g]
    BY <1>5 DEF Unknown, ReadQuota, Load, Goto, IInv, Shape, JobsOK, Job
  <2>4. /\ pc[h] # "idle"
        /\ (pc'[h] \in {"quota", "count"} /\ job[h].do = "bind") \/ pc'[h] = "save"
    BY <1>5 DEF Unknown, ReadQuota, Load, Goto, IInv, Shape, JobsOK, PlaceInv
  <2>5. UNCHANGED <<devices, config, held, waiting, issued, changes, unheard>>
    BY <1>5 DEF Unknown, ReadQuota, Load, client
  <2>6. Works(h) /\ HeardOK'
    BY <2>2, <2>3, <2>4, <2>5 DEF Works, Pending, IInv, Shape, HeardOK
  <2>7. PlaceInv'
    BY <2>3, <2>4 DEF IInv, PlaceInv
  <2> QED
    BY <2>6, <2>7, WorksKeeps
<1>6. ASSUME NEW h \in Handler, Count(h) \/ Authenticate(h) PROVE IInv'
  <2>1. job[h].client \in Client /\ pc[h] # "idle"
    BY <1>6 DEF Count, Authenticate, IInv, PlaceInv
  <2>2. CASE End(h)
    <3>1. Answers(h)
      BY <1>6, <2>1, <2>2 DEF Count, Authenticate, Answers, End, Goto, IInv, Shape, JobsOK
    <3> QED
      BY <3>1, AnswersKeeps
  <2>3. CASE ~End(h)
    <3>1. /\ \/ Goto(h, "insert") /\ job[h].do = "bind"
             \/ Goto(h, "allowed") /\ job[h].do = "sync"
          /\ UNCHANGED <<devices, config, job, held, waiting, issued, changes, unheard>>
      <4>1. CASE Count(h)
        BY <2>3, <4>1 DEF Count, client, IInv, PlaceInv
      <4>2. CASE Authenticate(h)
        BY <2>3, <4>2 DEF Authenticate, client
      <4> QED
        BY <1>6, <4>1, <4>2
    <3>2. Works(h) /\ HeardOK'
      BY <2>1, <3>1 DEF Works, Goto, Pending, IInv, Shape, HeardOK, JobsOK
    <3>3. PlaceInv'
      BY <2>1, <3>1 DEF Goto, IInv, Shape, JobsOK, PlaceInv
    <3> QED
      BY <3>2, <3>3, WorksKeeps
  <2> QED
    BY <2>2, <2>3
<1>7. ASSUME NEW h \in Handler, Serve(h) PROVE IInv'
  <2>1. Answers(h)
    BY <1>7 DEF Serve, Answers, IInv, PlaceInv
  <2> QED
    BY <2>1, AnswersKeeps
<1>8. ASSUME NEW h \in Handler, Save(h) PROVE IInv'
  <2>1. /\ JobsOK' /\ pc'[h] = "idle" /\ \A g \in Handler \ {h} : pc'[g] = pc[g] /\ job'[g] = job[g]
    BY <1>8, EndJobs DEF Save, IInv, Shape
  <2>2. UNCHANGED <<devices, Bound, held, waiting, issued, unheard>>
    BY <1>8 DEF Save, client, Bound
  <2>3. config' \in [Setting -> Nat] /\ changes' \in Nat
    BY <1>8 DEF Save, IInv, Shape, JobsOK, Job, CountersOK
  <2>4. ~Pending(h)' /\ \A g \in Handler \ {h} : Pending(g)' = Pending(g)
    BY <2>1 DEF Pending
  <2>5. Shape' /\ PlaceInv'
    BY <2>1, <2>2, <2>3 DEF IInv, Shape, TablesOK, HeardOK, CountersOK, PlaceInv
  <2>6. IssuedInv' /\ UniqueInv' /\ HeldInv'
    BY <2>1, <2>2, <2>4 DEF IInv, IssuedInv, UniqueInv, HeldInv
  <2> QED
    BY <2>5, <2>6 DEF IInv
<1>9. ASSUME NEW h \in Handler, Fail(h) PROVE IInv'
  <2>1. CASE job[h].client # NoOne
    <3>1. Answers(h)
      BY <1>9, <2>1 DEF Fail, Answers, IInv, Shape, JobsOK, Job
    <3> QED
      BY <3>1, AnswersKeeps
  <2>2. CASE job[h].client = NoOne
    <3>1. /\ JobsOK' /\ pc'[h] = "idle" /\ \A g \in Handler \ {h} : pc'[g] = pc[g] /\ job'[g] = job[g]
      BY <1>9, EndJobs DEF Fail, IInv, Shape
    <3>2. Works(h) /\ HeardOK' /\ PlaceInv'
      BY <1>9, <2>2, <3>1 DEF Fail, client, Works, Pending, IInv, Shape, HeardOK, PlaceInv
    <3> QED
      BY <3>2, WorksKeeps
  <2> QED
    BY <2>1, <2>2
<1>10. ASSUME NEW c \in Client, Revoke(c) PROVE IInv'
  <2>1. c \in Bound /\ devices[c].token \in Nat /\ TRUE \in BOOLEAN
    BY <1>10 DEF Revoke, IInv, Shape, TablesOK
  <2>2. /\ Bound' = Bound \cup {c} /\ devices'[c] = [token |-> devices[c].token, revoked |-> TRUE]
        /\ \A d \in Bound \ {c} : devices'[d] = devices[d]
    BY <1>10, <2>1, WithDeviceType DEF Revoke, IInv, Shape
  <2>3. Bound' = Bound /\ \A d \in Bound : devices'[d].token = devices[d].token
    BY <2>1, <2>2
  <2>4. \A d \in Bound' : devices'[d] \in [token : Nat, revoked : BOOLEAN]
    <3>1. devices'[c] \in [token : Nat, revoked : BOOLEAN]
      BY <2>1, <2>2
    <3> QED
      BY <2>1, <2>2, <3>1 DEF IInv, Shape, TablesOK
  <2>5. UNCHANGED <<config, job, pc, held, waiting, issued, unheard>> /\ changes' = changes + 1
    BY <1>10 DEF Revoke, client
  <2>6. Shape' /\ PlaceInv'
    BY <2>3, <2>4, <2>5 DEF IInv, Shape, TablesOK, JobsOK, HeardOK, CountersOK, PlaceInv
  <2>7. IssuedInv' /\ UniqueInv' /\ HeldInv'
    BY <2>3, <2>5 DEF IInv, IssuedInv, UniqueInv, HeldInv, Pending
  <2> QED
    BY <2>6, <2>7 DEF IInv
<1>11. ASSUME UNCHANGED <<devices, config, job, pc, held, issued, changes, unheard>>, HeardOK' PROVE IInv'
  <2>1. Bound' = Bound
    BY <1>11 DEF Bound
  <2> QED
    BY <1>11, <2>1 DEF IInv, Shape, TablesOK, JobsOK, CountersOK, PlaceInv, IssuedInv, UniqueInv,
       HeldInv, Pending
<1>12. ASSUME NEW c \in Client, GiveUp(c) PROVE IInv'
  BY <1>11, <1>12 DEF GiveUp, IInv, Shape, HeardOK
<1>13. CASE UNCHANGED vars
  BY <1>11, <1>13 DEF vars, client, IInv, Shape, HeardOK
<1> QED
  BY <1>1, <1>2, <1>3, <1>4, <1>5, <1>6, <1>7, <1>8, <1>9, <1>10, <1>12, <1>13 DEF Next, HandlerStep

LEMMA Invariant == Spec => []IInv
BY Initial, Inductive, PTL DEF Spec

(* The tables keep their shape and two devices never share a token.         *)
THEOREM Typing == Spec => []TypeOK
<1>1. IInv => TypeOK
  <2> SUFFICES ASSUME IInv PROVE TypeOK
    OBVIOUS
  <2>1. \A c \in Bound : devices[c] \in [token : 1..issued, revoked : BOOLEAN]
    BY DEF IInv, Shape, TablesOK, IssuedInv
  <2>2. held \in [Client -> 0..issued]
    BY DEF IInv, Shape, HeardOK, IssuedInv
  <2> QED
    BY <2>1, <2>2 DEF TypeOK, IInv, Shape, TablesOK, HeardOK, UniqueInv
<1> QED
  BY <1>1, Invariant, PTL

(* An installation at rest holds a token that works, unless its device was  *)
(* bound again in a request whose answer it did not hear.                   *)
THEOREM HeldWorks == Spec => []HeldTokenWorks
<1>1. IInv => HeldTokenWorks
  BY DEF IInv, HeldInv, HeldTokenWorks
<1> QED
  BY <1>1, Invariant, PTL

-----------------------------------------------------------------------------
(* The quota: what a handler has read still holds if nothing has changed    *)
(* since.                                                                   *)
QuotaInv ==
  /\ IsFiniteSet(Bound)
  /\ \A h \in Handler : pc[h] \in {"count", "insert"} =>
       job[h].saw <= changes /\ (job[h].saw = changes => config = job[h].doc)
  /\ \A h \in Handler : pc[h] = "insert" /\ job[h].saw = changes =>
       Cardinality(Active) < job[h].doc["maxDevices"]

(* Devices and configuration change only in steps that are counted.         *)
LEMMA ChangesCounted ==
  ASSUME IInv, [Next]_vars, IsFiniteSet(Bound)
  PROVE  /\ UNCHANGED <<devices, config, changes>> \/ changes' = changes + 1
         /\ IsFiniteSet(Bound')
<1>1. ASSUME NEW c, NEW token, NEW revoked, devices' = WithDevice(c, token, revoked)
      PROVE  IsFiniteSet(Bound')
  <2>1. Bound' = Bound \cup {c}
    BY <1>1 DEF WithDevice, Bound
  <2> QED
    BY <2>1, FS_AddElement
<1>2. \/ UNCHANGED <<devices, config, changes>>
      \/ changes' = changes + 1 /\ UNCHANGED devices
      \/ changes' = changes + 1 /\ \E h \in Handler : devices' = WithDevice(job[h].client, job[h].token, FALSE)
      \/ changes' = changes + 1 /\ \E c \in Client : devices' = WithDevice(c, devices[c].token, TRUE)
  BY ZenonT(60) DEF Next, vars, HandlerStep, Rebind, Rebound, Unknown, ReadQuota, Count, Insert,
     Authenticate, Serve, Load, Save, Fail, AskBind, AskSync, AskPatch, GiveUp, Revoke
<1>3. UNCHANGED devices => Bound' = Bound
  BY DEF Bound
<1> QED
  BY <1>1, <1>2, <1>3, Zenon

(* How a handler comes to count or to insert.                               *)
LEMMA HowItComes ==
  ASSUME IInv, [Next]_vars, NEW g \in Handler, pc'[g] \in {"count", "insert"}
  PROVE  \/ pc'[g] = pc[g] /\ job'[g] = job[g]
         \/ ReadQuota(g)
         \/ Count(g) /\ Goto(g, "insert") /\ ~QuotaExceeded(job[g].doc["maxDevices"])
                     /\ UNCHANGED job
<1>1. ASSUME NEW h \in Handler, HandlerStep(h)
      PROVE  /\ h # g => pc'[g] = pc[g] /\ job'[g] = job[g]
             /\ pc'[h] \in {"count", "insert"} => ReadQuota(h) \/ Count(h)
  BY <1>1 DEF IInv, Shape, JobsOK, HandlerStep, Rebind, Unknown, ReadQuota, Count, Insert,
     Authenticate, Serve, Load, Save, Fail, AskBind, AskSync, AskPatch, Ask, End, Goto
<1>2. ASSUME NEW h \in Handler, Count(h), pc'[h] \in {"count", "insert"}
      PROVE  /\ Goto(h, "insert") /\ ~QuotaExceeded(job[h].doc["maxDevices"])
             /\ UNCHANGED job
  <2>1. ~End(h)
    BY <1>2 DEF End, Goto, IInv, Shape, JobsOK
  <2> QED
    BY <1>2, <2>1, Zenon DEF Count
<1>3. CASE UNCHANGED <<pc, job>>
  BY <1>3
<1>4. \/ \E h \in Handler : HandlerStep(h)
      \/ UNCHANGED <<pc, job>>
  BY Zenon DEF Next, vars, GiveUp, Revoke
<1> QED
  BY <1>1, <1>2, <1>3, <1>4

LEMMA QuotaKept == IInv /\ QuotaInv /\ [Next]_vars => QuotaInv'
<1> SUFFICES ASSUME IInv, QuotaInv, [Next]_vars PROVE QuotaInv'
  OBVIOUS
<1>1. /\ UNCHANGED <<devices, config, changes>> \/ changes' = changes + 1
      /\ IsFiniteSet(Bound')
  BY ChangesCounted DEF QuotaInv
<1>2. changes \in Nat /\ \A h \in Handler : job[h].saw \in Nat
  BY DEF IInv, Shape, CountersOK, JobsOK, Job
<1>3. UNCHANGED devices => Active' = Active
  BY DEF Active, Bound
<1>4. ASSUME NEW h \in Handler, pc'[h] \in {"count", "insert"}
      PROVE  /\ job'[h].saw <= changes' /\ (job'[h].saw = changes' => config' = job'[h].doc)
             /\ pc'[h] = "insert" /\ job'[h].saw = changes' =>
                  Cardinality(Active') < job'[h].doc["maxDevices"]
  <2>1. CASE pc'[h] = pc[h] /\ job'[h] = job[h]
    <3>1. job[h].saw <= changes
      BY <1>4, <2>1 DEF QuotaInv
    <3>2. CASE UNCHANGED <<devices, config, changes>>
      BY <1>3, <1>4, <2>1, <3>2 DEF QuotaInv
    <3>3. CASE changes' = changes + 1
      <4>1. job'[h].saw <= changes' /\ job'[h].saw # changes'
        BY <1>2, <2>1, <3>1, <3>3
      <4> QED
        BY <4>1
    <3> QED
      BY <1>1, <3>2, <3>3
  <2>2. CASE ReadQuota(h)
    <3>1. job'[h].saw = changes /\ job'[h].doc = config /\ pc'[h] = "count"
      BY <2>2 DEF ReadQuota, Goto, IInv, Shape, JobsOK, Job
    <3>2. UNCHANGED <<config, changes>>
      BY <2>2 DEF ReadQuota
    <3> QED
      BY <1>2, <3>1, <3>2
  <2>3. CASE /\ Count(h) /\ Goto(h, "insert") /\ ~QuotaExceeded(job[h].doc["maxDevices"])
             /\ UNCHANGED job
    <3>1. UNCHANGED <<devices, config, changes>> /\ pc[h] = "count"
      BY <2>3 DEF Count
    <3>2. job[h].saw <= changes /\ (job[h].saw = changes => config = job[h].doc)
      BY <3>1 DEF QuotaInv
    <3>3. Active \subseteq Bound
      BY DEF Active
    <3>4. Cardinality(Active) \in Nat
      BY <3>3, FS_Subset, FS_CardinalityType DEF QuotaInv
    <3>5. job[h].doc["maxDevices"] \in Nat
      BY DEF IInv, Shape, JobsOK, Job
    <3>6. Cardinality(Active) < job[h].doc["maxDevices"]
      BY <2>3, <3>4, <3>5 DEF QuotaExceeded
    <3> QED
      BY <1>3, <2>3, <3>1, <3>2, <3>6
  <2> QED
    BY <1>4, <2>1, <2>2, <2>3, HowItComes
<1> QED
  BY <1>1, <1>4 DEF QuotaInv

(* A device that comes into use over the quota was bound before, or         *)
(* something changed after its handler had read the quota.                  *)
THEOREM OverQuota == Spec => OverQuotaTwoWays
<1>1. Init => QuotaInv
  <2> SUFFICES ASSUME Init PROVE QuotaInv
    OBVIOUS
  <2>1. Bound = {}
    BY DEF Init, Bound
  <2> QED
    BY <2>1, FS_EmptySet DEF Init, QuotaInv
<1> DEFINE Admits ==
  \A c \in Active' \ Active :
    Cardinality(Active') > config["maxDevices"] =>
      \/ c \in Bound
      \/ \E h \in Handler : /\ pc[h] = "insert" /\ pc'[h] = "idle"
                          /\ job[h].client = c /\ changes # job[h].saw
<1>2. IInv /\ QuotaInv /\ [Next]_vars => [Admits]_vars
  <2> SUFFICES ASSUME IInv, QuotaInv, Next, NEW c \in Active', c \notin Active, c \notin Bound,
                      Cardinality(Active') > config["maxDevices"]
               PROVE  \E h \in Handler : /\ pc[h] = "insert" /\ pc'[h] = "idle"
                                      /\ job[h].client = c /\ changes # job[h].saw
    BY Zenon
  <2>1. PICK h \in Handler : /\ pc[h] = "insert" /\ pc'[h] = "idle" /\ job[h].client = c
                            /\ devices' = WithDevice(c, job[h].token, FALSE)
    <3>1. c \in Bound'
      BY DEF Active
    <3>2. ASSUME NEW k, NEW token, NEW revoked, devices' = WithDevice(k, token, revoked)
          PROVE  k = c
      <4>1. Bound' = Bound \cup {k}
        BY <3>2 DEF WithDevice, Bound
      <4> QED
        BY <3>1, <4>1
    <3>3. devices' # devices
      BY <3>1 DEF Bound
    <3>4. \A d \in Client : ~Revoke(d)
      BY <3>2 DEF Revoke
    <3>5. PICK h \in Handler : HandlerStep(h)
      BY <3>3, <3>4 DEF Next, GiveUp
    <3>6. ~Rebind(h)
      BY <3>2 DEF Rebind, Rebound
    <3>7. Insert(h)
      BY <3>3, <3>5, <3>6 DEF HandlerStep, Unknown, ReadQuota, Count, Authenticate, Serve,
         Load, Save, Fail, AskBind, AskSync, AskPatch
    <3>8. pc[h] = "insert" /\ devices' = WithDevice(job[h].client, job[h].token, FALSE)
      BY <3>3, <3>7 DEF Insert
    <3>9. pc'[h] = "idle"
      BY <3>7 DEF Insert, End, Goto, IInv, Shape, JobsOK
    <3> QED
      BY <3>2, <3>8, <3>9
  <2>2. SUFFICES ASSUME job[h].saw = changes PROVE Cardinality(Active') <= config["maxDevices"]
    <3>1. Cardinality(Active') \in Nat
      <4>1. IsFiniteSet(Bound')
        BY ChangesCounted DEF QuotaInv
      <4>2. Active' \subseteq Bound'
        BY DEF Active
      <4> QED
        BY <4>1, <4>2, FS_Subset, FS_CardinalityType
    <3>2. config["maxDevices"] \in Nat
      BY DEF IInv, Shape, TablesOK
    <3> QED
      BY <2>1, <2>2, <3>1, <3>2
  <2>4. Bound' = Bound \cup {c} /\ devices'[c] = [token |-> job[h].token, revoked |-> FALSE]
        /\ \A d \in Bound : devices'[d] = devices[d]
    BY <2>1 DEF WithDevice, Bound
  <2>5. Active' = Active \cup {c}
    <3>1. devices'[c].revoked = FALSE
      BY <2>4
    <3>2. \A d : d \in Active' <=> d \in Active \/ d = c
      BY <2>4, <3>1 DEF Active
    <3> QED
      BY <3>2
  <2>6. IsFiniteSet(Active)
    <3>1. Active \subseteq Bound
      BY DEF Active
    <3> QED
      BY <3>1, FS_Subset DEF QuotaInv
  <2>7. Cardinality(Active') = Cardinality(Active) + 1 /\ Cardinality(Active) \in Nat
    BY <2>5, <2>6, FS_AddElement, FS_CardinalityType
  <2>8. Cardinality(Active) < config["maxDevices"]
    BY <2>1, <2>2 DEF QuotaInv
  <2>9. config["maxDevices"] \in Nat
    BY DEF IInv, Shape, TablesOK
  <2> QED
    BY <2>7, <2>8, <2>9
<1>3. OverQuotaTwoWays <=> [][Admits]_vars
  BY DEF OverQuotaTwoWays
<1> HIDE DEF Admits
<1> QED
  BY <1>1, <1>2, <1>3, Initial, Inductive, QuotaKept, PTL DEF Spec
=============================================================================
