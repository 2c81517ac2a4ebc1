------------------------------ MODULE EmailAuth ------------------------------
(***************************************************************************)
(* How a person proves an email address and gets a session or an account,   *)
(* and how the administrator signs in with a password: the handlers of      *)
(* api/auth.rs over the tables of storage/postgres.rs, statement by         *)
(* statement where another handler can come in between.                     *)
(*                                                                         *)
(* Row locks are predicates of what the handlers are doing: a transaction   *)
(* that has selected a row "for update" keeps it until it ends.  A code is  *)
(* right or wrong; whoever verified a code knows the token.                 *)
(***************************************************************************)
EXTENDS Naturals, Sequences, FiniteSets

CONSTANTS
  Handler,      \* requests the server works on at a time
  Email,        \* addresses of people
  Admin,        \* the account that signs in with a password
  Registered,   \* addresses that have an account at the start
  MaxAttempts,  \* EMAIL_CODE_MAX_ATTEMPTS
  CodeLife,     \* EMAIL_CODE_TTL_MINUTES
  ResendAfter,  \* EMAIL_CODE_RESEND_SECONDS
  TokenLife,    \* ACCOUNT_SETUP_TOKEN_TTL_MINUTES
  SessionLife,  \* 30 days
  Do,           \* kinds of requests that are sent
  MaxChallenges, MaxPassword, MaxTime, MaxRequests \* bounds

ASSUME AuthAssumption ==
  /\ Admin \notin Email /\ Registered \subseteq Email
  /\ {MaxAttempts, CodeLife, ResendAfter, TokenLife, SessionLife} \subseteq Nat
  /\ {MaxTime, MaxRequests} \subseteq Nat /\ MaxPassword \in Nat \ {0}

VARIABLES
  now,          \* the server's clock
  open,         \* registration_enabled
  accounts,     \* accounts with their one identity each
  challenges,   \* email_challenges, by id
  tokens,       \* account_setup_tokens, by id
  sessions,     \* auth_sessions
  job,          \* what each handler works on and what it has read
  pc,
  requests,     \* requests received so far
  answers,      \* auxiliary: how often a guess at each code was answered
  grants        \* auxiliary: sessions and accounts each code has given

tables == <<open, accounts, challenges, tokens, sessions>>
auxiliary == <<answers, grants>>
vars == <<now, tables, job, pc, requests, auxiliary>>

Subject == Email \cup {Admin}
(* at is the handler's own "now", read the version of the password or the   *)
(* number of challenges it has seen.                                        *)
Job(do, subject, purpose, id, right) ==
  [do |-> do, subject |-> subject, purpose |-> purpose, id |-> id, right |-> right,
   at |-> now, read |-> 0]
NoJob == [do |-> "none", subject |-> Admin, purpose |-> "none", id |-> 0, right |-> TRUE,
          at |-> 0, read |-> 0]

-----------------------------------------------------------------------------
(* seen: how many challenges there were when its handler looked.            *)
Challenge(email, purpose, at, seen) ==
  [email |-> email, purpose |-> purpose, attempts |-> 0, expires |-> at + CodeLife,
   resend |-> at + ResendAfter, verified |-> FALSE, consumed |-> FALSE, at |-> at, seen |-> seen]

Token(c, at) == [challenge |-> c, expires |-> at + TokenLife, consumed |-> FALSE]

(* late: the password it was issued for had been changed in the meantime.   *)
Session(account, at, password, late) ==
  [account |-> account, password |-> password, expires |-> at + SessionLife, late |-> late]

Init ==
  /\ now = 0 /\ open = TRUE /\ requests = 0
  /\ accounts = [a \in Subject |->
       [exists |-> a \in Registered \cup {Admin}, disabled |-> FALSE, password |-> 1]]
  /\ challenges = <<>> /\ tokens = <<>> /\ sessions = {}
  /\ job = [h \in Handler |-> NoJob] /\ pc = [h \in Handler |-> "idle"]
  /\ answers = <<>> /\ grants = <<>>

ChallengeOf(h) == challenges[job[h].id]
TokenOf(h) == tokens[job[h].id]
EmailOf(t) == challenges[tokens[t].challenge].email

(* Seeded mistake: the row of a token is selected without "for update".     *)
Bug_TokenRead(h) == TRUE

(* Row locks: who else has selected the row for update.                     *)
ChallengeFree(h) ==
  \A g \in Handler \ {h} : pc[g] \in {"matched", "wrong"} => job[g].id # job[h].id
TokenFree(h) ==
  \A g \in Handler \ {h} : pc[g] \in {"token", "account", "created"} => job[g].id # job[h].id
AccountFree(h, a) ==
  \A g \in Handler \ {h} :
    /\ pc[g] = "account" => EmailOf(job[g].id) # a
    /\ pc[g] = "changing" => a # Admin

End(h) == pc' = [pc EXCEPT ![h] = "idle"] /\ job' = [job EXCEPT ![h] = NoJob]
Step(h, next) == pc' = [pc EXCEPT ![h] = next] /\ UNCHANGED job
Refuse(h) == End(h) /\ UNCHANGED tables

-----------------------------------------------------------------------------
(* A request arrives.  Only a session lets somebody change the password.    *)
SessionIsValid(s) == s.expires >= now /\ ~accounts[s.account].disabled

Ask(do, subject, purpose, id) == Job(do, subject, purpose, id, TRUE)
Starts == {Ask("start", a, p, 0) : a \in Email, p \in {"register", "login"}}
Guesses == {Job("verify", Admin, "none", c, right) : c \in DOMAIN challenges, right \in BOOLEAN}
Completions == {Ask(do, Admin, "none", t) : do \in {"login", "setup"}, t \in DOMAIN tokens}
Passwords == {Job("password", Admin, "none", 0, right) : right \in BOOLEAN}
Changes ==
  {Job("change", Admin, "none", 0, right) :
     right \in {b \in BOOLEAN : \E s \in sessions : s.account = Admin /\ SessionIsValid(s)}}
Request == Starts \cup Guesses \cup Completions \cup Passwords \cup Changes

Receive(h) ==
  /\ pc[h] = "idle" /\ requests < MaxRequests
  /\ requests' = requests + 1
  /\ \E r \in Request : r.do \in Do /\ job' = [job EXCEPT ![h] = r]
  /\ pc' = [pc EXCEPT ![h] = "received"]
  /\ UNCHANGED <<now, tables, auxiliary>>

(* start_email_challenge: the configuration and the identity are read.      *)
Eligible(email, purpose) ==
  /\ purpose = "register" => open
  /\ accounts[email].exists <=> purpose = "login"

Start(h) ==
  /\ pc[h] = "received" /\ job[h].do = "start"
  /\ IF Eligible(job[h].subject, job[h].purpose)
     THEN Step(h, "eligible") /\ UNCHANGED tables
     ELSE Refuse(h)
  /\ UNCHANGED <<now, requests, auxiliary>>

(* Seeded mistake: a code that was verified no longer counts.               *)
Bug_VerifiedIsOver(email, purpose) ==
  \E c \in DOMAIN challenges :
    /\ challenges[c].email = email /\ challenges[c].purpose = purpose
    /\ ~challenges[c].verified /\ challenges[c].resend > now

SentRecently(email, purpose) ==
  \E c \in DOMAIN challenges :
    /\ challenges[c].email = email /\ challenges[c].purpose = purpose
    /\ ~challenges[c].consumed /\ challenges[c].resend > now

CheckResend(h) ==
  /\ pc[h] = "eligible"
  /\ IF SentRecently(job[h].subject, job[h].purpose)
     THEN Refuse(h)
     ELSE /\ pc' = [pc EXCEPT ![h] = "insert"]
          /\ job' = [job EXCEPT ![h].at = now, ![h].read = Len(challenges)]
          /\ UNCHANGED tables
  /\ UNCHANGED <<now, requests, auxiliary>>

(* The challenge is there before the mail is sent, and stays if it is not.  *)
InsertChallenge(h) ==
  /\ pc[h] = "insert" /\ Len(challenges) < MaxChallenges
  /\ challenges' = Append(challenges,
       Challenge(job[h].subject, job[h].purpose, job[h].at, job[h].read))
  /\ answers' = Append(answers, 0) /\ grants' = Append(grants, 0)
  /\ End(h)
  /\ UNCHANGED <<now, open, accounts, tokens, sessions, requests>>

-----------------------------------------------------------------------------
(* verify_email_challenge                                                   *)
(* Seeded mistake: one guess too many.                                      *)
Bug_OneMoreGuess(c, at) ==
  ~c.consumed /\ ~c.verified /\ at < c.expires /\ c.attempts <= MaxAttempts

Guessable(c, at) ==
  ~c.consumed /\ ~c.verified /\ at < c.expires /\ c.attempts < MaxAttempts

Verify(h) ==
  /\ pc[h] = "received" /\ job[h].do = "verify" /\ ChallengeFree(h)
  /\ IF ~Guessable(ChallengeOf(h), job[h].at) THEN Refuse(h)
     ELSE Step(h, IF job[h].right THEN "matched" ELSE "wrong") /\ UNCHANGED tables
  /\ UNCHANGED <<now, requests, auxiliary>>

CountWrong(h) ==
  /\ pc[h] = "wrong"
  /\ challenges' = [challenges EXCEPT ![job[h].id].attempts = @ + 1]
  /\ answers' = [answers EXCEPT ![job[h].id] = @ + 1]
  /\ End(h)
  /\ UNCHANGED <<now, open, accounts, tokens, sessions, requests, grants>>

IssueToken(h) ==
  /\ pc[h] = "matched"
  /\ challenges' = [challenges EXCEPT ![job[h].id].verified = TRUE]
  /\ tokens' = Append(tokens, Token(job[h].id, job[h].at))
  /\ answers' = [answers EXCEPT ![job[h].id] = @ + 1]
  /\ End(h)
  /\ UNCHANGED <<now, open, accounts, sessions, requests, grants>>

-----------------------------------------------------------------------------
(* complete_email_login and complete_email_account_setup begin alike.       *)
Purpose(do) == IF do = "login" THEN "login" ELSE "register"

Usable(t, do, at) ==
  /\ challenges[t.challenge].purpose = Purpose(do)
  /\ ~t.consumed /\ at < t.expires

TakeToken(h) ==
  /\ pc[h] = "received" /\ job[h].do \in {"login", "setup"} /\ TokenFree(h)
  /\ IF Usable(TokenOf(h), job[h].do, job[h].at) THEN Step(h, "token") /\ UNCHANGED tables ELSE Refuse(h)
  /\ UNCHANGED <<now, requests, auxiliary>>

(* The account is selected for update; a disabled one is refused.           *)
Login(h) ==
  LET a == EmailOf(job[h].id)
  IN  /\ pc[h] = "token" /\ job[h].do = "login" /\ AccountFree(h, a)
      /\ IF accounts[a].exists /\ ~accounts[a].disabled
         THEN Step(h, "account") /\ UNCHANGED tables
         ELSE Refuse(h)
      /\ UNCHANGED <<now, requests, auxiliary>>

(* Both rows are marked in the transaction that grants something.           *)
SpendToken(t) ==
  /\ tokens' = [tokens EXCEPT ![t].consumed = TRUE]
  /\ challenges' = [challenges EXCEPT ![tokens[t].challenge].consumed = TRUE]
  /\ grants' = [grants EXCEPT ![tokens[t].challenge] = @ + 1]

CommitLogin(h) ==
  /\ pc[h] = "account"
  /\ SpendToken(job[h].id)
  /\ sessions' = sessions \cup {Session(EmailOf(job[h].id), job[h].at, 0, FALSE)}
  /\ End(h)
  /\ UNCHANGED <<now, open, accounts, requests, answers>>

Bug_NoUniqueIndex(h) == TRUE

(* An insert waits for another transaction inserting the same identity and  *)
(* fails if that one commits: unique (provider, provider_subject).          *)
IdentityFree(h) ==
  \A g \in Handler \ {h} : pc[g] = "created" => EmailOf(job[g].id) # EmailOf(job[h].id)

Create(h) ==
  LET a == EmailOf(job[h].id)
  IN  /\ pc[h] = "token" /\ job[h].do = "setup" /\ AccountFree(h, a) /\ IdentityFree(h)
      /\ IF accounts[a].exists THEN Refuse(h) ELSE Step(h, "created") /\ UNCHANGED tables
      /\ UNCHANGED <<now, requests, auxiliary>>

(* The device is bound after the commit, in Devices.                        *)
CommitSetup(h) ==
  /\ pc[h] = "created"
  /\ SpendToken(job[h].id)
  /\ accounts' = [accounts EXCEPT ![EmailOf(job[h].id)].exists = TRUE]
  /\ End(h)
  /\ UNCHANGED <<now, open, sessions, requests, answers>>

-----------------------------------------------------------------------------
(* login_admin_password reads the account without a lock and verifies; its  *)
(* insert takes a share lock on the account row (foreign key).              *)
ReadPassword(h) ==
  /\ pc[h] = "received" /\ job[h].do = "password"
  /\ IF job[h].right /\ ~accounts[Admin].disabled
     THEN /\ job' = [job EXCEPT ![h].read = accounts[Admin].password, ![h].at = now]
          /\ pc' = [pc EXCEPT ![h] = "proven"] /\ UNCHANGED tables
     ELSE Refuse(h)
  /\ UNCHANGED <<now, requests, auxiliary>>

PasswordSession(h) ==
  /\ pc[h] = "proven" /\ AccountFree(h, Admin)
  /\ sessions' = sessions \cup
       {Session(Admin, job[h].at, job[h].read, job[h].read # accounts[Admin].password)}
  /\ End(h)
  /\ UNCHANGED <<now, open, accounts, challenges, tokens, requests, auxiliary>>

(* admin_change_password: right says that the current password given is     *)
(* the one stored when the row is locked.                                   *)
LockPassword(h) ==
  /\ pc[h] = "received" /\ job[h].do = "change" /\ AccountFree(h, Admin)
  /\ IF job[h].right /\ accounts[Admin].password < MaxPassword
     THEN Step(h, "changing") /\ UNCHANGED tables
     ELSE Refuse(h)
  /\ UNCHANGED <<now, requests, auxiliary>>

(* Seeded mistake: the sessions of the old password stay.                   *)
Bug_SessionsStay == sessions

SessionsAfterChange == {s \in sessions : s.account # Admin}

ChangePassword(h) ==
  LET new == accounts[Admin].password + 1
  IN  /\ pc[h] = "changing"
      /\ accounts' = [accounts EXCEPT ![Admin].password = new]
      /\ sessions' = SessionsAfterChange \cup {Session(Admin, now, new, FALSE)}
      /\ End(h)
      /\ UNCHANGED <<now, open, challenges, tokens, requests, auxiliary>>

-----------------------------------------------------------------------------
(* One statement each: logout_bearer, the clean-up in authenticate_bearer,  *)
(* admin_patch_account on an account nobody has locked, admin_patch_config. *)
Logout(s) ==
  /\ "logout" \in Do
  /\ sessions' = sessions \ {s}
  /\ UNCHANGED <<now, open, accounts, challenges, tokens, job, pc, requests, auxiliary>>

DropExpired(s) ==
  /\ s.expires < now
  /\ sessions' = sessions \ {s}
  /\ UNCHANGED <<now, open, accounts, challenges, tokens, job, pc, requests, auxiliary>>

Bug_NotLocked(a) == TRUE

Unlocked(a) ==
  \A g \in Handler : (pc[g] = "account" => EmailOf(job[g].id) # a) /\ (pc[g] = "changing" => a # Admin)

PatchAccount(a) ==
  /\ "disable" \in Do /\ requests < MaxRequests /\ requests' = requests + 1
  /\ accounts[a].exists /\ Unlocked(a)
  /\ accounts' = [accounts EXCEPT ![a].disabled = ~@]
  /\ UNCHANGED <<now, open, challenges, tokens, sessions, job, pc, auxiliary>>

PatchConfig ==
  /\ "config" \in Do /\ requests < MaxRequests /\ requests' = requests + 1
  /\ open' = ~open
  /\ UNCHANGED <<now, accounts, challenges, tokens, sessions, job, pc, auxiliary>>

Tick ==
  /\ now < MaxTime
  /\ now' = now + 1
  /\ UNCHANGED <<tables, job, pc, requests, auxiliary>>

(* A statement fails or the process stops: PostgreSQL rolls back.           *)
Abort(h) ==
  /\ pc[h] # "idle"
  /\ End(h)
  /\ UNCHANGED <<now, tables, requests, auxiliary>>

HandlerStep(h) ==
  \/ Receive(h) \/ Start(h) \/ CheckResend(h) \/ InsertChallenge(h)
  \/ Verify(h) \/ CountWrong(h) \/ IssueToken(h)
  \/ TakeToken(h) \/ Login(h) \/ CommitLogin(h) \/ Create(h) \/ CommitSetup(h)
  \/ ReadPassword(h) \/ PasswordSession(h) \/ LockPassword(h) \/ ChangePassword(h)
  \/ Abort(h)

Next ==
  \/ \E h \in Handler : HandlerStep(h)
  \/ \E s \in sessions : Logout(s) \/ DropExpired(s)
  \/ \E a \in Subject : PatchAccount(a)
  \/ PatchConfig \/ Tick

Spec == Init /\ [][Next]_vars

-----------------------------------------------------------------------------
TypeOK ==
  /\ now \in 0..MaxTime /\ open \in BOOLEAN /\ requests \in 0..MaxRequests
  /\ accounts \in [Subject -> [exists : BOOLEAN, disabled : BOOLEAN, password : 1..MaxPassword]]
  /\ \A c \in DOMAIN challenges : challenges[c].email \in Email /\ challenges[c].attempts \in 0..MaxAttempts
  /\ \A t \in DOMAIN tokens : tokens[t].challenge \in DOMAIN challenges
  /\ \A s \in sessions : s.account \in Subject /\ accounts[s.account].exists
  /\ DOMAIN pc = Handler /\ DOMAIN job = Handler
  /\ DOMAIN answers = DOMAIN challenges /\ DOMAIN grants = DOMAIN challenges

(* However many requests guess at once, a code answers MaxAttempts guesses. *)
GuessesAreBounded == \A c \in DOMAIN challenges : answers[c] <= MaxAttempts

(* A code that was sent once gives one session or one account, whatever is  *)
(* repeated or happens at the same time, and nothing is spent for nothing.  *)
OneGrantPerCode ==
  /\ \A c \in DOMAIN challenges : grants[c] = IF challenges[c].consumed THEN 1 ELSE 0
  /\ \A t \in DOMAIN tokens : tokens[t].consumed <=> challenges[tokens[t].challenge].consumed

(* Two codes for one address do not both create its account.                *)
OneSetupPerEmail ==
  \A c, d \in DOMAIN challenges :
    /\ challenges[c].purpose = "register" /\ challenges[d].purpose = "register"
    /\ challenges[c].consumed /\ challenges[d].consumed /\ challenges[c].email = challenges[d].email
    => c = d

(* An account that has been disabled gets no session from a code verified   *)
(* before: a login that has looked at the account keeps it as it is.        *)
NoSessionWhenDisabled ==
  [][\A s \in sessions' \ sessions : s.account \in Email => ~accounts[s.account].disabled]_vars

(* Two codes for one purpose are alive within the resend time only if the   *)
(* second start looked before the first one had inserted.                   *)
ResendNeedsOverlap ==
  \A c, d \in DOMAIN challenges :
    /\ c < d /\ challenges[c].email = challenges[d].email
    /\ challenges[c].purpose = challenges[d].purpose /\ ~challenges[c].consumed
    /\ challenges[d].at < challenges[c].resend
    => challenges[d].seen < c

(* A session of an old password outlives the change only if its login had   *)
(* read the account before and inserted the session after it.               *)
OldPasswordNeedsOverlap ==
  \A s \in sessions : s.account = Admin /\ s.password # accounts[Admin].password => s.late
=============================================================================
