--------------------------- MODULE EmailAuthProofs ---------------------------
(***************************************************************************)
(* Invariants of EmailAuth for any number of requests at a time, codes,     *)
(* guesses and accounts.  The row locks make what a transaction has read of *)
(* a challenge, a token or an account true until it ends.                   *)
(***************************************************************************)
EXTENDS EmailAuth, SequenceTheorems, TLAPS

USE AuthAssumption DEF AuthAssumption, Subject

ChallengeType ==
  [email : Email, purpose : {"register", "login"}, attempts : Nat, expires : Nat, resend : Nat,
   verified : BOOLEAN, consumed : BOOLEAN, at : Nat, seen : Nat]
TokenType == [challenge : Nat, expires : Nat, consumed : BOOLEAN]
SessionType == [account : Subject, password : Nat, expires : Nat, late : BOOLEAN]
JobType ==
  [do : {"none", "start", "verify", "login", "setup", "password", "change"}, subject : Subject,
   purpose : {"none", "register", "login"}, id : Nat, right : BOOLEAN, at : Nat, read : Nat]
Place ==
  {"idle", "received", "eligible", "insert", "matched", "wrong", "token", "account", "created",
   "proven", "changing"}

CountersOK == now \in Nat /\ now <= MaxTime /\ requests \in Nat /\ requests <= MaxRequests
AccountsOK ==
  accounts \in [Subject -> [exists : BOOLEAN, disabled : BOOLEAN, password : 1..MaxPassword]]
SessionsOK == sessions \subseteq SessionType
CodesOK ==
  /\ challenges \in Seq(ChallengeType) /\ tokens \in Seq(TokenType)
  /\ answers \in Seq(Nat) /\ Len(answers) = Len(challenges)
  /\ grants \in Seq(Nat) /\ Len(grants) = Len(challenges)
JobsOK == job \in [Handler -> JobType] /\ pc \in [Handler -> Place]
Shape == CountersOK /\ open \in BOOLEAN /\ AccountsOK /\ SessionsOK /\ CodesOK /\ JobsOK

(* Where a handler is tells what its request is and which rows it names.    *)
Placed(where, j, codes, issued) ==
  /\ where \in {"eligible", "insert"} => j.do = "start"
  /\ where \in {"matched", "wrong"} => j.do = "verify"
  /\ where = "token" => j.do \in {"login", "setup"}
  /\ where = "account" => j.do = "login"
  /\ where = "created" => j.do = "setup"
  /\ where = "proven" => j.do = "password"
  /\ where = "changing" => j.do = "change"
  /\ where # "idle" /\ j.do = "start" => j.subject \in Email /\ j.purpose \in {"register", "login"}
  /\ where # "idle" /\ j.do = "verify" => j.id \in 1..codes
  /\ where # "idle" /\ j.do \in {"login", "setup"} => j.id \in 1..issued

PlaceInv == \A h \in Handler : Placed(pc[h], job[h], Len(challenges), Len(tokens))

TokensName == \A t \in 1..Len(tokens) : tokens[t].challenge \in 1..Len(challenges)

(* One transaction changes the password, and it has looked before.          *)
ChangeInv ==
  /\ \A g, h \in Handler : pc[g] = "changing" /\ pc[h] = "changing" => g = h
  /\ \A h \in Handler : pc[h] = "changing" => accounts[Admin].password < MaxPassword

Base == Shape /\ PlaceInv /\ TokensName /\ ChangeInv

LEMMA NoJobType == NoJob \in JobType
BY DEF NoJob, JobType

LEMMA CodesAre ==
  ASSUME CodesOK
  PROVE  /\ Len(challenges) \in Nat /\ Len(tokens) \in Nat
         /\ DOMAIN challenges = 1..Len(challenges) /\ DOMAIN tokens = 1..Len(tokens)
         /\ DOMAIN answers = 1..Len(challenges) /\ DOMAIN grants = 1..Len(challenges)
         /\ \A c \in 1..Len(challenges) :
              challenges[c] \in ChallengeType /\ answers[c] \in Nat /\ grants[c] \in Nat
         /\ \A t \in 1..Len(tokens) : tokens[t] \in TokenType
BY LenProperties, ElementOfSeq DEF CodesOK

LEMMA InitBase == Init => Base
<1> SUFFICES ASSUME Init PROVE Base
  OBVIOUS
<1>1. CodesOK
  BY EmptySeq DEF Init, CodesOK
<1>2. JobsOK
  BY NoJobType DEF Init, JobsOK, Place
<1>3. AccountsOK
  <2>1. 1 \in 1..MaxPassword
    OBVIOUS
  <2>2. \A a \in Subject : [exists |-> a \in Registered \cup {Admin}, disabled |-> FALSE, password |-> 1]
          \in [exists : BOOLEAN, disabled : BOOLEAN, password : 1..MaxPassword]
    BY <2>1
  <2> QED
    BY <2>2, Zenon DEF Init, AccountsOK
<1>4. CountersOK /\ SessionsOK /\ open \in BOOLEAN
  BY DEF Init, CountersOK, SessionsOK
<1>5. PlaceInv
  BY DEF Init, PlaceInv, Placed
<1>6. TokensName /\ ChangeInv
  BY EmptySeq DEF Init, TokensName, ChangeInv
<1> QED
  BY <1>1, <1>2, <1>3, <1>4, <1>5, <1>6 DEF Base, Shape

-----------------------------------------------------------------------------
(* What the steps do to the tables                                          *)
LEMMA Inserts ==
  ASSUME Base, NEW h \in Handler, InsertChallenge(h)
  PROVE  /\ CodesOK' /\ Len(challenges') = Len(challenges) + 1 /\ tokens' = tokens
         /\ \A c \in 1..Len(challenges) :
              /\ challenges'[c] = challenges[c] /\ answers'[c] = answers[c] /\ grants'[c] = grants[c]
         /\ challenges'[Len(challenges) + 1] = Challenge(job[h].subject, job[h].purpose, job[h].at, job[h].read)
         /\ answers'[Len(challenges) + 1] = 0 /\ grants'[Len(challenges) + 1] = 0
<1> DEFINE new == Challenge(job[h].subject, job[h].purpose, job[h].at, job[h].read)
<1>1. job[h].subject \in Email /\ job[h].purpose \in {"register", "login"}
  BY DEF InsertChallenge, Base, PlaceInv, Placed
<1>2. job[h].at \in Nat /\ job[h].read \in Nat
  BY DEF Base, Shape, JobsOK, JobType
<1>3. new \in ChallengeType
  <2>1. job[h].at + CodeLife \in Nat /\ job[h].at + ResendAfter \in Nat /\ 0 \in Nat
    BY <1>2
  <2> QED
    BY <1>1, <1>2, <2>1 DEF Challenge, ChallengeType
<1> HIDE DEF new
<1>4. /\ challenges' = Append(challenges, new) /\ answers' = Append(answers, 0)
      /\ grants' = Append(grants, 0) /\ tokens' = tokens
  BY DEF InsertChallenge, new
<1>5. CodesOK
  BY DEF Base, Shape
<1>6. /\ challenges' \in Seq(ChallengeType) /\ Len(challenges') = Len(challenges) + 1
      /\ \A c \in 1..Len(challenges) : challenges'[c] = challenges[c]
      /\ challenges'[Len(challenges) + 1] = new
  BY <1>3, <1>4, <1>5, AppendProperties DEF CodesOK
<1>7. /\ answers' \in Seq(Nat) /\ Len(answers') = Len(challenges) + 1
      /\ \A c \in 1..Len(challenges) : answers'[c] = answers[c]
      /\ answers'[Len(challenges) + 1] = 0
  BY <1>4, <1>5, AppendProperties DEF CodesOK
<1>8. /\ grants' \in Seq(Nat) /\ Len(grants') = Len(challenges) + 1
      /\ \A c \in 1..Len(challenges) : grants'[c] = grants[c]
      /\ grants'[Len(challenges) + 1] = 0
  BY <1>4, <1>5, AppendProperties DEF CodesOK
<1> QED
  BY <1>4, <1>5, <1>6, <1>7, <1>8 DEF CodesOK, new

(* A guess is answered: the row and its count change.                       *)
LEMMA Answered ==
  ASSUME Base, NEW h \in Handler, CountWrong(h) \/ IssueToken(h)
  PROVE  LET c == job[h].id
         IN  /\ c \in 1..Len(challenges) /\ Len(challenges') = Len(challenges)
             /\ challenges' \in Seq(ChallengeType) /\ answers' \in Seq(Nat) /\ Len(answers') = Len(answers)
             /\ \A d \in 1..Len(challenges) :
                  d # c => challenges'[d] = challenges[d] /\ answers'[d] = answers[d]
             /\ answers'[c] = answers[c] + 1
             /\ CountWrong(h) => challenges'[c] = [challenges[c] EXCEPT !.attempts = @ + 1]
             /\ IssueToken(h) => challenges'[c] = [challenges[c] EXCEPT !.verified = TRUE]
<1> DEFINE c == job[h].id
           one == [challenges[c] EXCEPT !.attempts = @ + 1]
           other == [challenges[c] EXCEPT !.verified = TRUE]
<1>1. c \in 1..Len(challenges) /\ CodesOK
  BY DEF CountWrong, IssueToken, Base, Shape, PlaceInv, Placed
<1>2. challenges[c] \in ChallengeType /\ answers[c] \in Nat /\ Len(answers) = Len(challenges)
  BY <1>1, CodesAre DEF CodesOK
<1>3. one \in ChallengeType /\ other \in ChallengeType /\ answers[c] + 1 \in Nat
  <2>1. challenges[c].attempts \in Nat
    BY <1>2 DEF ChallengeType
  <2>2. \A n \in Nat : [challenges[c] EXCEPT !.attempts = n] \in ChallengeType
    BY <1>2 DEF ChallengeType
  <2>3. \A b \in BOOLEAN : [challenges[c] EXCEPT !.verified = b] \in ChallengeType
    BY <1>2 DEF ChallengeType
  <2> HIDE DEF c
  <2>4. challenges[c].attempts + 1 \in Nat /\ answers[c] + 1 \in Nat
    <3>1. answers[c] \in Nat
      BY <1>2
    <3> QED
      BY <2>1, <3>1
  <2>5. one \in ChallengeType
    BY <2>2, <2>4
  <2>6. other \in ChallengeType
    BY <2>3
  <2> QED
    BY <2>4, <2>5, <2>6
<1>4. /\ CountWrong(h) => challenges' = [challenges EXCEPT ![c] = one]
      /\ IssueToken(h) => challenges' = [challenges EXCEPT ![c] = other]
      /\ answers' = [answers EXCEPT ![c] = answers[c] + 1]
  BY DEF CountWrong, IssueToken
<1>5. /\ challenges \in Seq(ChallengeType) /\ answers \in Seq(Nat) /\ Len(answers) = Len(challenges)
      /\ c \in 1..Len(answers) /\ DOMAIN answers = 1..Len(answers)
      /\ ~(CountWrong(h) /\ IssueToken(h)) /\ (CountWrong(h) \/ IssueToken(h))
  BY <1>1, LenProperties DEF CodesOK, CountWrong, IssueToken
<1> HIDE DEF one, other, c
<1>6. /\ [answers EXCEPT ![c] = answers[c] + 1] \in Seq(Nat)
      /\ Len([answers EXCEPT ![c] = answers[c] + 1]) = Len(answers)
      /\ \A d \in 1..Len(answers) :
           [answers EXCEPT ![c] = answers[c] + 1][d] = IF d = c THEN answers[c] + 1 ELSE answers[d]
  BY <1>3, <1>5, ExceptSeq
<1>7. ASSUME NEW e \in ChallengeType, challenges' = [challenges EXCEPT ![c] = e]
      PROVE  /\ challenges' \in Seq(ChallengeType) /\ Len(challenges') = Len(challenges)
             /\ \A d \in 1..Len(challenges) : challenges'[d] = IF d = c THEN e ELSE challenges[d]
  <2>1. /\ [challenges EXCEPT ![c] = e] \in Seq(ChallengeType)
        /\ Len([challenges EXCEPT ![c] = e]) = Len(challenges)
        /\ \A d \in 1..Len(challenges) :
             [challenges EXCEPT ![c] = e][d] = IF d = c THEN e ELSE challenges[d]
    BY <1>1, <1>5, ExceptSeq
  <2> QED
    BY <1>7, <2>1
<1>8. CASE CountWrong(h)
  <2>1. /\ challenges' \in Seq(ChallengeType) /\ Len(challenges') = Len(challenges)
        /\ \A d \in 1..Len(challenges) : challenges'[d] = IF d = c THEN one ELSE challenges[d]
    BY <1>3, <1>4, <1>7, <1>8
  <2> QED
    BY <1>1, <1>4, <1>5, <1>6, <1>8, <2>1 DEF one, c
<1>9. CASE IssueToken(h)
  <2>1. /\ challenges' \in Seq(ChallengeType) /\ Len(challenges') = Len(challenges)
        /\ \A d \in 1..Len(challenges) : challenges'[d] = IF d = c THEN other ELSE challenges[d]
    BY <1>3, <1>4, <1>7, <1>9
  <2> QED
    BY <1>1, <1>4, <1>5, <1>6, <1>9, <2>1 DEF other, c
<1> QED
  BY <1>5, <1>8, <1>9

LEMMA Issues ==
  ASSUME Base, NEW h \in Handler, IssueToken(h)
  PROVE  /\ tokens' \in Seq(TokenType) /\ Len(tokens') = Len(tokens) + 1
         /\ \A t \in 1..Len(tokens) : tokens'[t] = tokens[t]
         /\ tokens'[Len(tokens) + 1].challenge = job[h].id
         /\ tokens'[Len(tokens) + 1].consumed = FALSE
<1> DEFINE new == Token(job[h].id, job[h].at)
<1>1. job[h].id \in Nat /\ job[h].at \in Nat
  BY DEF Base, Shape, JobsOK, JobType
<1>2. job[h].at + TokenLife \in Nat
  BY <1>1
<1>3. new \in TokenType /\ new.challenge = job[h].id /\ new.consumed = FALSE
  BY <1>1, <1>2 DEF Token, TokenType
<1>4. tokens' = Append(tokens, new) /\ tokens \in Seq(TokenType)
  BY DEF IssueToken, Base, Shape, CodesOK
<1> HIDE DEF new
<1> QED
  BY <1>3, <1>4, AppendProperties

LEMMA Spends ==
  ASSUME CodesOK, NEW t \in 1..Len(tokens), tokens[t].challenge \in 1..Len(challenges), SpendToken(t)
  PROVE  LET c == tokens[t].challenge
         IN  /\ tokens' \in Seq(TokenType) /\ Len(tokens') = Len(tokens)
             /\ \A u \in 1..Len(tokens) : u # t => tokens'[u] = tokens[u]
             /\ tokens'[t] = [tokens[t] EXCEPT !.consumed = TRUE]
             /\ challenges' \in Seq(ChallengeType) /\ Len(challenges') = Len(challenges)
             /\ \A d \in 1..Len(challenges) :
                  d # c => challenges'[d] = challenges[d] /\ grants'[d] = grants[d]
             /\ challenges'[c] = [challenges[c] EXCEPT !.consumed = TRUE]
             /\ grants' \in Seq(Nat) /\ Len(grants') = Len(grants) /\ grants'[c] = grants[c] + 1
<1> DEFINE c == tokens[t].challenge
           spent == [tokens[t] EXCEPT !.consumed = TRUE]
           used == [challenges[c] EXCEPT !.consumed = TRUE]
<1>1. /\ tokens[t] \in TokenType /\ challenges[c] \in ChallengeType /\ grants[c] \in Nat
      /\ tokens \in Seq(TokenType) /\ challenges \in Seq(ChallengeType) /\ grants \in Seq(Nat)
      /\ Len(grants) = Len(challenges) /\ DOMAIN grants = 1..Len(grants)
  BY CodesAre DEF CodesOK
<1>2. spent \in TokenType
  BY <1>1 DEF TokenType
<1>3. used \in ChallengeType
  BY <1>1 DEF ChallengeType
<1>4. /\ tokens' = [tokens EXCEPT ![t] = spent]
      /\ challenges' = [challenges EXCEPT ![c] = used]
      /\ grants' = [grants EXCEPT ![c] = grants[c] + 1]
  BY DEF SpendToken
<1>5. c \in 1..Len(challenges)
  OBVIOUS
<1> HIDE DEF spent, used, c
<1>6. grants[c] + 1 \in Nat /\ c \in 1..Len(grants)
  BY <1>1, <1>5, SMTT(30)
<1>7. tokens \in Seq(TokenType) /\ challenges \in Seq(ChallengeType) /\ grants \in Seq(Nat)
  BY <1>1
<1>8. /\ [tokens EXCEPT ![t] = spent] \in Seq(TokenType)
      /\ Len([tokens EXCEPT ![t] = spent]) = Len(tokens)
      /\ \A u \in 1..Len(tokens) : [tokens EXCEPT ![t] = spent][u] = IF u = t THEN spent ELSE tokens[u]
  BY ONLY <1>2, <1>7, t \in 1..Len(tokens), ExceptSeq
<1>9. /\ [challenges EXCEPT ![c] = used] \in Seq(ChallengeType)
      /\ Len([challenges EXCEPT ![c] = used]) = Len(challenges)
      /\ \A d \in 1..Len(challenges) :
           [challenges EXCEPT ![c] = used][d] = IF d = c THEN used ELSE challenges[d]
  BY ONLY <1>3, <1>5, <1>7, ExceptSeq
<1>10. /\ [grants EXCEPT ![c] = grants[c] + 1] \in Seq(Nat)
      /\ Len([grants EXCEPT ![c] = grants[c] + 1]) = Len(grants)
      /\ \A d \in 1..Len(grants) :
           [grants EXCEPT ![c] = grants[c] + 1][d] = IF d = c THEN grants[c] + 1 ELSE grants[d]
  BY ONLY <1>6, <1>7, ExceptSeq
<1> QED
  BY <1>1, <1>4, <1>5, <1>8, <1>9, <1>10 DEF spent, used, c

-----------------------------------------------------------------------------
(* Jobs: a handler moves to a place that fits what it works on.             *)
Moves(h) ==
  \E next \in Place, j \in JobType :
    /\ pc' = [pc EXCEPT ![h] = next] /\ job' = [job EXCEPT ![h] = j]
    /\ Placed(next, j, Len(challenges), Len(tokens))

LEMMA MovesType ==
  ASSUME Base, NEW h \in Handler, Moves(h),
         Len(challenges') \in Nat, Len(tokens') \in Nat,
         Len(challenges) <= Len(challenges'), Len(tokens) <= Len(tokens')
  PROVE  /\ JobsOK' /\ PlaceInv'
         /\ \A g \in Handler \ {h} : pc'[g] = pc[g] /\ job'[g] = job[g]
<1>0. Len(challenges) \in Nat /\ Len(tokens) \in Nat
  BY CodesAre DEF Base, Shape
<1>1. \A where, j : Placed(where, j, Len(challenges), Len(tokens))
        => Placed(where, j, Len(challenges'), Len(tokens'))
  <2>1. 1..Len(challenges) \subseteq 1..Len(challenges') /\ 1..Len(tokens) \subseteq 1..Len(tokens')
    BY <1>0
  <2> QED
    BY <2>1 DEF Placed
<1>2. PICK next \in Place, j \in JobType :
        /\ pc' = [pc EXCEPT ![h] = next] /\ job' = [job EXCEPT ![h] = j]
        /\ Placed(next, j, Len(challenges), Len(tokens))
  BY DEF Moves
<1>3. JobsOK'
  BY <1>2 DEF Base, Shape, JobsOK
<1>4. /\ pc'[h] = next /\ job'[h] = j
      /\ \A g \in Handler \ {h} : pc'[g] = pc[g] /\ job'[g] = job[g]
  BY <1>2 DEF Base, Shape, JobsOK
<1>5. \A g \in Handler : Placed(pc[g], job[g], Len(challenges), Len(tokens))
  BY DEF Base, PlaceInv
<1>6. \A g \in Handler : Placed(pc'[g], job'[g], Len(challenges'), Len(tokens'))
  <2> SUFFICES ASSUME NEW g \in Handler PROVE Placed(pc'[g], job'[g], Len(challenges'), Len(tokens'))
    OBVIOUS
  <2>1. Placed(pc'[g], job'[g], Len(challenges), Len(tokens))
    BY <1>2, <1>4, <1>5, Zenon
  <2> QED
    BY <1>1, <2>1
<1> QED
  BY <1>3, <1>4, <1>6 DEF PlaceInv

LEMMA EndMoves == ASSUME NEW h \in Handler, End(h) PROVE Moves(h)
<1>1. Placed("idle", NoJob, Len(challenges), Len(tokens)) /\ "idle" \in Place
  BY DEF Placed, Place
<1> QED
  BY <1>1, NoJobType DEF End, Moves

LEMMA StepMoves ==
  ASSUME Base, NEW h \in Handler, NEW next \in Place, Step(h, next),
         Placed(next, job[h], Len(challenges), Len(tokens))
  PROVE  Moves(h)
<1>1. job' = [job EXCEPT ![h] = job[h]] /\ job[h] \in JobType
  BY DEF Base, Shape, JobsOK, Step
<1> QED
  BY <1>1 DEF Moves, Step

LEMMA StartsAre ==
  ASSUME NEW A, NEW P, NEW r \in {Ask("start", a, p, 0) : a \in A, p \in P}
  PROVE  \E a \in A, p \in P : r = Ask("start", a, p, 0)
OBVIOUS

LEMMA CompletionsAre ==
  ASSUME NEW D, NEW T, NEW r \in {Ask(do, Admin, "none", t) : do \in D, t \in T}
  PROVE  \E do \in D, t \in T : r = Ask(do, Admin, "none", t)
OBVIOUS

LEMMA ReceiveMoves == ASSUME Base, NEW h \in Handler, Receive(h) PROVE Moves(h)
<1>1. PICK r \in Request : job' = [job EXCEPT ![h] = r]
  BY DEF Receive
<1>2. \A do \in {"start", "verify", "login", "setup", "password", "change"}, a \in Subject,
        p \in {"none", "register", "login"}, i \in Nat, right \in BOOLEAN : Job(do, a, p, i, right) \in JobType
  BY DEF Job, JobType, Base, Shape, CountersOK
<1>3. /\ DOMAIN challenges = 1..Len(challenges) /\ DOMAIN tokens = 1..Len(tokens)
      /\ 1..Len(challenges) \subseteq Nat /\ 1..Len(tokens) \subseteq Nat
  BY CodesAre DEF Base, Shape
<1>4. r \in JobType /\ Placed("received", r, Len(challenges), Len(tokens))
  <2>1. ASSUME NEW a \in Email, NEW p \in {"register", "login"}, r = Ask("start", a, p, 0)
        PROVE  r \in JobType /\ r.do = "start" /\ r.subject = a /\ r.purpose = p
    <3>1. Job("start", a, p, 0, TRUE) \in JobType
      <4>1. a \in Subject /\ p \in {"none", "register", "login"}
        OBVIOUS
      <4> QED
        BY <1>2, <4>1
    <3>2. Job("start", a, p, 0, TRUE).do = "start" /\ Job("start", a, p, 0, TRUE).subject = a
            /\ Job("start", a, p, 0, TRUE).purpose = p
      BY DEF Job
    <3> QED
      BY <2>1, <3>1, <3>2 DEF Ask
  <2>2. ASSUME NEW c \in DOMAIN challenges, NEW right \in BOOLEAN, r = Job("verify", Admin, "none", c, right)
        PROVE  r \in JobType /\ r.do = "verify" /\ r.id = c
    <3>1. Job("verify", Admin, "none", c, right) \in JobType
      BY <1>2, <1>3
    <3>2. Job("verify", Admin, "none", c, right).do = "verify" /\ Job("verify", Admin, "none", c, right).id = c
      BY DEF Job
    <3> QED
      BY <2>2, <3>1, <3>2
  <2>3. ASSUME NEW do \in {"login", "setup"}, NEW t \in DOMAIN tokens, r = Ask(do, Admin, "none", t)
        PROVE  r \in JobType /\ r.do \in {"login", "setup"} /\ r.id = t
    <3>1. Job(do, Admin, "none", t, TRUE) \in JobType
      <4>1. t \in Nat /\ Admin \in Subject /\ do \in {"start", "verify", "login", "setup", "password", "change"}
        BY <1>3
      <4> QED
        BY <1>2, <4>1
    <3>2. Job(do, Admin, "none", t, TRUE).do = do /\ Job(do, Admin, "none", t, TRUE).id = t
      BY DEF Job
    <3> QED
      BY <2>3, <3>1, <3>2 DEF Ask
  <2>4. ASSUME NEW do \in {"password", "change"}, NEW a \in Subject, NEW right \in BOOLEAN,
               r = Job(do, a, "none", 0, right)
        PROVE  r \in JobType /\ r.do \in {"password", "change"}
    <3>1. Job(do, a, "none", 0, right) \in JobType
      BY <1>2
    <3>2. Job(do, a, "none", 0, right).do = do
      BY DEF Job
    <3> QED
      BY <2>4, <3>1, <3>2
  <2>5. r \in Starts => \E a \in Email, p \in {"register", "login"} : r = Ask("start", a, p, 0)
    BY StartsAre DEF Starts
  <2>6. r \in Guesses => \E c \in DOMAIN challenges, right \in BOOLEAN : r = Job("verify", Admin, "none", c, right)
    BY DEF Guesses
  <2>7. r \in Completions => \E do \in {"login", "setup"}, t \in DOMAIN tokens : r = Ask(do, Admin, "none", t)
    BY CompletionsAre DEF Completions
  <2>8. r \in Passwords => \E right \in BOOLEAN : r = Job("password", Admin, "none", 0, right)
    BY DEF Passwords
  <2>9. r \in Changes => \E right \in BOOLEAN : r = Job("change", Admin, "none", 0, right)
    BY DEF Changes
  <2>10. r \in Starts \/ r \in Guesses \/ r \in Completions \/ r \in Passwords \/ r \in Changes
    BY <1>1 DEF Request
  <2>11. r \in JobType /\ r.do \in {"start", "verify", "login", "setup", "password", "change"}
        /\ (r.do = "start" => r.subject \in Email /\ r.purpose \in {"register", "login"})
        /\ (r.do = "verify" => r.id \in DOMAIN challenges)
        /\ (r.do \in {"login", "setup"} => r.id \in DOMAIN tokens)
    <3>1. CASE r \in Starts
      BY <2>1, <2>5, <3>1
    <3>2. CASE r \in Guesses
      BY <2>2, <2>6, <3>2
    <3>3. CASE r \in Completions
      BY <2>3, <2>7, <3>3
    <3>4. CASE r \in Passwords
      BY <2>4, <2>8, <3>4
    <3>5. CASE r \in Changes
      BY <2>4, <2>9, <3>5
    <3> QED
      BY <2>10, <3>1, <3>2, <3>3, <3>4, <3>5
  <2> QED
    BY <1>3, <2>11 DEF Placed
<1>5. pc' = [pc EXCEPT ![h] = "received"] /\ "received" \in Place
  BY DEF Receive, Place
<1> QED
  BY <1>1, <1>4, <1>5 DEF Moves

(* at and read are all that a step changes of what a handler works on.      *)
LEMMA FieldMoves ==
  ASSUME Base, NEW h \in Handler, NEW next \in Place, NEW n \in Nat, NEW k \in Nat,
         pc' = [pc EXCEPT ![h] = next], job' = [job EXCEPT ![h].at = n, ![h].read = k],
         Placed(next, job[h], Len(challenges), Len(tokens))
  PROVE  Moves(h)
<1> DEFINE j == [job[h] EXCEPT !.at = n, !.read = k]
<1>1. job \in [Handler -> JobType] /\ job[h] \in JobType
  BY DEF Base, Shape, JobsOK
<1>2. j \in JobType
  BY <1>1 DEF JobType
<1>3. j.do = job[h].do /\ j.subject = job[h].subject /\ j.purpose = job[h].purpose /\ j.id = job[h].id
  BY <1>1 DEF JobType
<1>4. job' = [job EXCEPT ![h] = j]
  BY <1>1
<1> HIDE DEF j
<1>5. Placed(next, j, Len(challenges), Len(tokens))
  BY <1>3 DEF Placed
<1> QED
  BY <1>2, <1>4, <1>5 DEF Moves

LEMMA WorkMoves == ASSUME Base, NEW h \in Handler, HandlerStep(h) PROVE Moves(h)
<1>1. /\ now \in Nat /\ Len(challenges) \in Nat /\ accounts[Admin].password \in Nat
      /\ Placed(pc[h], job[h], Len(challenges), Len(tokens))
  <2>1. accounts[Admin].password \in Nat
    BY DEF Base, Shape, AccountsOK
  <2> QED
    BY <2>1, CodesAre DEF Base, Shape, CountersOK, PlaceInv
<1>2. ASSUME Start(h) PROVE Moves(h)
  <2>1. Placed("eligible", job[h], Len(challenges), Len(tokens)) /\ "eligible" \in Place
    BY <1>1, <1>2 DEF Start, Placed, Place
  <2> QED
    BY <1>2, <2>1, EndMoves, StepMoves DEF Start, Refuse
<1>3. ASSUME CheckResend(h) PROVE Moves(h)
  <2>1. Placed("insert", job[h], Len(challenges), Len(tokens)) /\ "insert" \in Place
    BY <1>1, <1>3 DEF CheckResend, Placed, Place
  <2> QED
    BY <1>1, <1>3, <2>1, EndMoves, FieldMoves DEF CheckResend, Refuse
<1>4. ASSUME Verify(h) PROVE Moves(h)
  <2>1. /\ Placed("matched", job[h], Len(challenges), Len(tokens)) /\ "matched" \in Place
        /\ Placed("wrong", job[h], Len(challenges), Len(tokens)) /\ "wrong" \in Place
    BY <1>1, <1>4 DEF Verify, Placed, Place
  <2> QED
    BY <1>4, <2>1, EndMoves, StepMoves DEF Verify, Refuse
<1>5. ASSUME TakeToken(h) PROVE Moves(h)
  <2>1. Placed("token", job[h], Len(challenges), Len(tokens)) /\ "token" \in Place
    BY <1>1, <1>5 DEF TakeToken, Placed, Place
  <2> QED
    BY <1>5, <2>1, EndMoves, StepMoves DEF TakeToken, Refuse
<1>6. ASSUME Login(h) PROVE Moves(h)
  <2>1. Placed("account", job[h], Len(challenges), Len(tokens)) /\ "account" \in Place
    BY <1>1, <1>6 DEF Login, Placed, Place
  <2> QED
    BY <1>6, <2>1, EndMoves, StepMoves DEF Login, Refuse
<1>7. ASSUME Create(h) PROVE Moves(h)
  <2>1. Placed("created", job[h], Len(challenges), Len(tokens)) /\ "created" \in Place
    BY <1>1, <1>7 DEF Create, Placed, Place
  <2> QED
    BY <1>7, <2>1, EndMoves, StepMoves DEF Create, Refuse
<1>8. ASSUME ReadPassword(h) PROVE Moves(h)
  <2>1. Placed("proven", job[h], Len(challenges), Len(tokens)) /\ "proven" \in Place
    BY <1>1, <1>8 DEF ReadPassword, Placed, Place
  <2>2. CASE End(h)
    BY <2>2, EndMoves
  <2>3. CASE job' = [job EXCEPT ![h].read = accounts[Admin].password, ![h].at = now]
             /\ pc' = [pc EXCEPT ![h] = "proven"]
    <3>1. job' = [job EXCEPT ![h].at = now, ![h].read = accounts[Admin].password]
      BY <2>3 DEF Base, Shape, JobsOK
    <3> QED
      BY <1>1, <2>1, <2>3, <3>1, FieldMoves
  <2> QED
    BY <1>8, <2>2, <2>3 DEF ReadPassword, Refuse
<1>9. ASSUME LockPassword(h) PROVE Moves(h)
  <2>1. Placed("changing", job[h], Len(challenges), Len(tokens)) /\ "changing" \in Place
    BY <1>1, <1>9 DEF LockPassword, Placed, Place
  <2> QED
    BY <1>9, <2>1, EndMoves, StepMoves DEF LockPassword, Refuse
<1>10. InsertChallenge(h) \/ CountWrong(h) \/ IssueToken(h) \/ CommitLogin(h) \/ CommitSetup(h)
         \/ PasswordSession(h) \/ ChangePassword(h) \/ Abort(h) => End(h)
  BY Zenon DEF InsertChallenge, CountWrong, IssueToken, CommitLogin, CommitSetup, PasswordSession,
     ChangePassword, Abort
<1> QED
  BY <1>2, <1>3, <1>4, <1>5, <1>6, <1>7, <1>8, <1>9, <1>10, EndMoves, ReceiveMoves, Zenon DEF HandlerStep

-----------------------------------------------------------------------------
(* Where a handler has come to, and what it has seen on the way             *)
LEMMA EndAt ==
  ASSUME JobsOK, NEW h \in Handler, End(h) PROVE pc'[h] = "idle"
BY DEF End, JobsOK

LEMMA StepAt ==
  ASSUME JobsOK, NEW h \in Handler, NEW next, Step(h, next) PROVE pc'[h] = next /\ job' = job
BY DEF Step, JobsOK

Came(h) ==
  \/ pc'[h] \in {"idle", "received", "eligible", "insert", "proven"}
  \/ Verify(h) /\ pc'[h] \in {"matched", "wrong"} /\ job' = job /\ Guessable(ChallengeOf(h), job[h].at)
  \/ TakeToken(h) /\ pc'[h] = "token" /\ job' = job /\ Usable(TokenOf(h), job[h].do, job[h].at)
  \/ Login(h) /\ pc'[h] = "account" /\ job' = job
       /\ accounts[EmailOf(job[h].id)].exists /\ ~accounts[EmailOf(job[h].id)].disabled
  \/ Create(h) /\ pc'[h] = "created" /\ job' = job /\ ~accounts[EmailOf(job[h].id)].exists
  \/ LockPassword(h) /\ pc'[h] = "changing" /\ job' = job /\ accounts[Admin].password < MaxPassword

LEMMA Comes == ASSUME Base, NEW h \in Handler, HandlerStep(h) PROVE Came(h)
<1>0. JobsOK
  BY DEF Base, Shape
<1>1. ASSUME End(h) PROVE Came(h)
  BY <1>0, <1>1, EndAt DEF Came
<1>2. ASSUME Receive(h) \/ CheckResend(h) \/ ReadPassword(h) PROVE Came(h)
  <2>1. CASE End(h)
    BY <1>1, <2>1
  <2>2. CASE ~End(h)
    <3>1. \E next \in {"received", "insert", "proven"} : pc' = [pc EXCEPT ![h] = next]
      BY <1>2, <2>2 DEF Receive, CheckResend, ReadPassword, Refuse
    <3> QED
      BY <1>0, <3>1 DEF Came, JobsOK
  <2> QED
    BY <2>1, <2>2
<1>3. ASSUME Start(h) PROVE Came(h)
  <2>1. End(h) \/ Step(h, "eligible")
    BY <1>3, Zenon DEF Start, Refuse
  <2> QED
    BY <1>0, <1>1, <2>1, StepAt DEF Came
<1>4. ASSUME Verify(h) PROVE Came(h)
  <2>1. \/ End(h)
        \/ Guessable(ChallengeOf(h), job[h].at) /\ Step(h, IF job[h].right THEN "matched" ELSE "wrong")
    BY <1>4, Zenon DEF Verify, Refuse
  <2>2. ASSUME Guessable(ChallengeOf(h), job[h].at), Step(h, IF job[h].right THEN "matched" ELSE "wrong")
        PROVE  Came(h)
    <3>1. pc'[h] = (IF job[h].right THEN "matched" ELSE "wrong") /\ job' = job
      BY <1>0, <2>2, StepAt
    <3> QED
      BY <1>4, <2>2, <3>1 DEF Came
  <2> QED
    BY <1>1, <2>1, <2>2
<1>5. ASSUME TakeToken(h) PROVE Came(h)
  <2>1. End(h) \/ (Usable(TokenOf(h), job[h].do, job[h].at) /\ Step(h, "token"))
    BY <1>5, Zenon DEF TakeToken, Refuse
  <2> QED
    BY <1>0, <1>1, <1>5, <2>1, StepAt DEF Came
<1>6. ASSUME Login(h) PROVE Came(h)
  <2> DEFINE a == EmailOf(job[h].id)
  <2>1. End(h) \/ (accounts[a].exists /\ ~accounts[a].disabled /\ Step(h, "account"))
    BY <1>6, Zenon DEF Login, Refuse
  <2> QED
    BY <1>0, <1>1, <1>6, <2>1, StepAt DEF Came
<1>7. ASSUME Create(h) PROVE Came(h)
  <2> DEFINE a == EmailOf(job[h].id)
  <2>1. End(h) \/ (~accounts[a].exists /\ Step(h, "created"))
    BY <1>7, Zenon DEF Create, Refuse
  <2> QED
    BY <1>0, <1>1, <1>7, <2>1, StepAt DEF Came
<1>8. ASSUME LockPassword(h) PROVE Came(h)
  <2>1. End(h) \/ (accounts[Admin].password < MaxPassword /\ Step(h, "changing"))
    BY <1>8, Zenon DEF LockPassword, Refuse
  <2> QED
    BY <1>0, <1>1, <1>8, <2>1, StepAt DEF Came
<1>9. InsertChallenge(h) \/ CountWrong(h) \/ IssueToken(h) \/ CommitLogin(h) \/ CommitSetup(h)
         \/ PasswordSession(h) \/ ChangePassword(h) \/ Abort(h) => End(h)
  BY Zenon DEF InsertChallenge, CountWrong, IssueToken, CommitLogin, CommitSetup, PasswordSession,
     ChangePassword, Abort
<1> QED
  BY <1>1, <1>2, <1>3, <1>4, <1>5, <1>6, <1>7, <1>8, <1>9, Zenon DEF HandlerStep

Reads(h) ==
  \/ Receive(h) \/ Start(h) \/ CheckResend(h) \/ Verify(h) \/ TakeToken(h) \/ Login(h) \/ Create(h)
  \/ ReadPassword(h) \/ LockPassword(h) \/ Abort(h)

LEMMA ReadsKeep == ASSUME NEW h \in Handler, Reads(h) PROVE UNCHANGED <<now, tables, auxiliary>>
<1>1. Receive(h) \/ Abort(h) => UNCHANGED <<now, tables, auxiliary>>
  BY Zenon DEF Receive, Abort
<1>2. Start(h) \/ CheckResend(h) => UNCHANGED <<now, tables, auxiliary>>
  BY Zenon DEF Start, CheckResend, Refuse
<1>3. Verify(h) \/ TakeToken(h) => UNCHANGED <<now, tables, auxiliary>>
  BY Zenon DEF Verify, TakeToken, Refuse
<1>4. Login(h) \/ Create(h) => UNCHANGED <<now, tables, auxiliary>>
  BY Zenon DEF Login, Create, Refuse
<1>5. ReadPassword(h) \/ LockPassword(h) => UNCHANGED <<now, tables, auxiliary>>
  BY Zenon DEF ReadPassword, LockPassword, Refuse
<1> QED
  BY <1>1, <1>2, <1>3, <1>4, <1>5, Zenon DEF Reads

-----------------------------------------------------------------------------
(* What the steps write                                                     *)
TablesOK ==
  /\ AccountsOK' /\ SessionsOK' /\ CodesOK' /\ TokensName'
  /\ Len(challenges) <= Len(challenges') /\ Len(tokens) <= Len(tokens')

LEMMA TokensAre ==
  ASSUME Base, NEW h \in Handler, pc[h] \in {"token", "account", "created"}
  PROVE  /\ job[h].id \in 1..Len(tokens) /\ tokens[job[h].id].challenge \in 1..Len(challenges)
         /\ EmailOf(job[h].id) \in Email /\ CodesOK
<1>1. job[h].id \in 1..Len(tokens) /\ CodesOK
  BY DEF Base, Shape, PlaceInv, Placed
<1>2. tokens[job[h].id].challenge \in 1..Len(challenges)
  BY <1>1 DEF Base, TokensName
<1>3. challenges[tokens[job[h].id].challenge] \in ChallengeType
  BY <1>1, <1>2, CodesAre
<1> QED
  BY <1>1, <1>2, <1>3 DEF EmailOf, ChallengeType

LEMMA SessionTyped ==
  ASSUME NEW a \in Subject, NEW at \in Nat, NEW p \in Nat, NEW late \in BOOLEAN
  PROVE  Session(a, at, p, late) \in SessionType
<1>1. at + SessionLife \in Nat
  OBVIOUS
<1> QED
  BY <1>1 DEF Session, SessionType

LEMMA InsertWrites == ASSUME Base, NEW h \in Handler, InsertChallenge(h) PROVE TablesOK
<1>1. AccountsOK' /\ SessionsOK'
  BY Zenon DEF InsertChallenge, Base, Shape, AccountsOK, SessionsOK
<1>2. /\ CodesOK' /\ Len(challenges') = Len(challenges) + 1 /\ tokens' = tokens
  BY Inserts
<1>3. Len(challenges) \in Nat /\ Len(tokens) \in Nat
  BY CodesAre DEF Base, Shape
<1>4. TokensName'
  BY <1>2, <1>3 DEF Base, TokensName
<1> QED
  BY <1>1, <1>2, <1>3, <1>4 DEF TablesOK

LEMMA AnswerWrites == ASSUME Base, NEW h \in Handler, CountWrong(h) \/ IssueToken(h) PROVE TablesOK
<1> DEFINE c == job[h].id
<1>1. AccountsOK' /\ SessionsOK' /\ grants' = grants
  BY Zenon DEF CountWrong, IssueToken, Base, Shape, AccountsOK, SessionsOK
<1>2. /\ c \in 1..Len(challenges) /\ Len(challenges') = Len(challenges)
      /\ challenges' \in Seq(ChallengeType) /\ answers' \in Seq(Nat) /\ Len(answers') = Len(answers)
  BY Answered
<1>3. Len(challenges) \in Nat /\ Len(tokens) \in Nat /\ CodesOK
  BY CodesAre DEF Base, Shape
<1> HIDE DEF c
<1>4. CASE CountWrong(h)
  <2>1. tokens' = tokens
    BY <1>4 DEF CountWrong
  <2>2. CodesOK'
    BY <1>1, <1>2, <1>3, <2>1 DEF CodesOK
  <2>3. TokensName'
    BY <1>2, <2>1 DEF Base, TokensName
  <2> QED
    BY <1>1, <1>2, <1>3, <2>1, <2>2, <2>3 DEF TablesOK
<1>5. CASE IssueToken(h)
  <2>1. /\ tokens' \in Seq(TokenType) /\ Len(tokens') = Len(tokens) + 1
        /\ \A t \in 1..Len(tokens) : tokens'[t] = tokens[t]
        /\ tokens'[Len(tokens) + 1].challenge = c
    BY <1>5, Issues DEF c
  <2>2. CodesOK'
    BY <1>1, <1>2, <1>3, <2>1 DEF CodesOK
  <2>3. TokensName'
    <3> SUFFICES ASSUME NEW t \in 1..Len(tokens') PROVE tokens'[t].challenge \in 1..Len(challenges')
      BY DEF TokensName
    <3>1. t \in 1..Len(tokens) \/ t = Len(tokens) + 1
      BY <1>3, <2>1
    <3> QED
      BY <1>2, <2>1, <3>1 DEF Base, TokensName
  <2> QED
    BY <1>1, <1>2, <1>3, <2>1, <2>2, <2>3 DEF TablesOK
<1> QED
  BY <1>4, <1>5

LEMMA SpendWrites ==
  ASSUME Base, NEW h \in Handler, pc[h] \in {"account", "created"}, SpendToken(job[h].id), answers' = answers
  PROVE  /\ CodesOK' /\ TokensName'
         /\ Len(challenges) <= Len(challenges') /\ Len(tokens) <= Len(tokens')
<1> DEFINE t == job[h].id
<1>1. t \in 1..Len(tokens) /\ tokens[t].challenge \in 1..Len(challenges) /\ CodesOK
  BY TokensAre
<1>2. /\ tokens' \in Seq(TokenType) /\ Len(tokens') = Len(tokens)
      /\ \A u \in 1..Len(tokens) : u # t => tokens'[u] = tokens[u]
      /\ tokens'[t] = [tokens[t] EXCEPT !.consumed = TRUE]
      /\ challenges' \in Seq(ChallengeType) /\ Len(challenges') = Len(challenges)
      /\ grants' \in Seq(Nat) /\ Len(grants') = Len(grants)
  BY <1>1, Spends
<1>3. Len(challenges) \in Nat /\ Len(tokens) \in Nat /\ tokens[t] \in TokenType
  BY <1>1, CodesAre
<1> HIDE DEF t
<1>4. CodesOK'
  BY <1>1, <1>2 DEF CodesOK
<1>5. tokens'[t].challenge = tokens[t].challenge
  BY <1>2, <1>3 DEF TokenType
<1>6. TokensName'
  BY <1>1, <1>2, <1>5 DEF Base, TokensName
<1> QED
  BY <1>2, <1>3, <1>4, <1>6

LEMMA LoginWrites == ASSUME Base, NEW h \in Handler, CommitLogin(h) PROVE TablesOK
<1> DEFINE s == Session(EmailOf(job[h].id), job[h].at, 0, FALSE)
<1>1. /\ pc[h] = "account" /\ SpendToken(job[h].id) /\ answers' = answers
      /\ accounts' = accounts /\ sessions' = sessions \cup {s}
  BY DEF CommitLogin
<1>2. EmailOf(job[h].id) \in Subject /\ job[h].at \in Nat
  BY <1>1, TokensAre DEF Base, Shape, JobsOK, JobType
<1>3. s \in SessionType
  BY <1>2, SessionTyped
<1> HIDE DEF s
<1>4. AccountsOK' /\ SessionsOK'
  BY <1>1, <1>3 DEF Base, Shape, AccountsOK, SessionsOK
<1> QED
  BY <1>1, <1>4, SpendWrites DEF TablesOK

LEMMA SetupWrites ==
  ASSUME Base, NEW h \in Handler, CommitSetup(h)
  PROVE  TablesOK /\ accounts'[Admin].password = accounts[Admin].password
<1> DEFINE a == EmailOf(job[h].id)
<1>1. /\ pc[h] = "created" /\ SpendToken(job[h].id) /\ answers' = answers
      /\ accounts' = [accounts EXCEPT ![a].exists = TRUE] /\ sessions' = sessions
  BY DEF CommitSetup
<1>2. a \in Email /\ a # Admin
  BY <1>1, TokensAre
<1> HIDE DEF a
<1>3. AccountsOK' /\ accounts'[Admin].password = accounts[Admin].password
  BY <1>1, <1>2 DEF Base, Shape, AccountsOK
<1>4. SessionsOK'
  BY <1>1 DEF Base, Shape, SessionsOK
<1> QED
  BY <1>1, <1>3, <1>4, SpendWrites DEF TablesOK

LEMMA PasswordWrites == ASSUME Base, NEW h \in Handler, PasswordSession(h) PROVE TablesOK
<1> DEFINE late == job[h].read # accounts[Admin].password
           s == Session(Admin, job[h].at, job[h].read, late)
<1>1. accounts' = accounts /\ sessions' = sessions \cup {s} /\ UNCHANGED <<challenges, tokens, auxiliary>>
  BY DEF PasswordSession
<1>2. job[h].at \in Nat /\ job[h].read \in Nat /\ late \in BOOLEAN
  BY DEF Base, Shape, JobsOK, JobType
<1> HIDE DEF late
<1>3. s \in SessionType
  BY <1>2, SessionTyped
<1> HIDE DEF s
<1>4. AccountsOK' /\ SessionsOK'
  BY <1>1, <1>3 DEF Base, Shape, AccountsOK, SessionsOK
<1>5. CodesOK' /\ TokensName'
  BY <1>1 DEF Base, Shape, CodesOK, TokensName, auxiliary
<1>6. Len(challenges) \in Nat /\ Len(tokens) \in Nat
  BY CodesAre DEF Base, Shape
<1> QED
  BY <1>1, <1>4, <1>5, <1>6 DEF TablesOK

LEMMA ChangeWrites == ASSUME Base, NEW h \in Handler, ChangePassword(h) PROVE TablesOK
<1> DEFINE new == accounts[Admin].password + 1
           s == Session(Admin, now, new, FALSE)
<1>1. /\ pc[h] = "changing" /\ accounts' = [accounts EXCEPT ![Admin].password = new]
      /\ sessions' = SessionsAfterChange \cup {s} /\ UNCHANGED <<challenges, tokens, auxiliary>>
  BY DEF ChangePassword
<1>2. accounts[Admin].password \in 1..MaxPassword /\ accounts[Admin].password < MaxPassword /\ now \in Nat
  BY <1>1 DEF Base, Shape, AccountsOK, CountersOK, ChangeInv
<1>3. new \in 1..MaxPassword /\ new \in Nat
  BY <1>2
<1>4. s \in SessionType
  BY <1>2, <1>3, SessionTyped
<1> HIDE DEF s, new
<1>5. AccountsOK'
  BY <1>1, <1>3 DEF Base, Shape, AccountsOK
<1>6. SessionsOK'
  BY <1>1, <1>4 DEF Base, Shape, SessionsOK, SessionsAfterChange
<1>7. CodesOK' /\ TokensName'
  BY <1>1 DEF Base, Shape, CodesOK, TokensName, auxiliary
<1>8. Len(challenges) \in Nat /\ Len(tokens) \in Nat
  BY CodesAre DEF Base, Shape
<1> QED
  BY <1>1, <1>5, <1>6, <1>7, <1>8 DEF TablesOK

LEMMA ReadsWrite == ASSUME Base, NEW h \in Handler, Reads(h) PROVE TablesOK
<1>1. UNCHANGED <<accounts, challenges, tokens, sessions, answers, grants>>
  BY ReadsKeep DEF tables, auxiliary
<1>2. Len(challenges) \in Nat /\ Len(tokens) \in Nat
  BY CodesAre DEF Base, Shape
<1> QED
  BY <1>1, <1>2 DEF TablesOK, Base, Shape, AccountsOK, SessionsOK, CodesOK, TokensName

LEMMA StepKinds ==
  ASSUME NEW h \in Handler, HandlerStep(h)
  PROVE  \/ Reads(h) \/ InsertChallenge(h) \/ CountWrong(h) \/ IssueToken(h) \/ CommitLogin(h)
         \/ CommitSetup(h) \/ PasswordSession(h) \/ ChangePassword(h)
BY Zenon DEF HandlerStep, Reads

LEMMA HandlerWrites == ASSUME Base, NEW h \in Handler, HandlerStep(h) PROVE TablesOK
BY StepKinds, ReadsWrite, InsertWrites, AnswerWrites, LoginWrites, SetupWrites, PasswordWrites,
   ChangeWrites, Zenon

(* What a step leaves alone                                                 *)
LEMMA Counters == ASSUME Base, NEW h \in Handler, HandlerStep(h) PROVE CountersOK' /\ open' = open /\ now' = now
<1>1. requests' = requests \/ (requests' = requests + 1 /\ requests < MaxRequests)
  BY Zenon DEF HandlerStep, Receive, Start, CheckResend, InsertChallenge, Verify, CountWrong,
     IssueToken, TakeToken, Login, CommitLogin, Create, CommitSetup, ReadPassword, PasswordSession,
     LockPassword, ChangePassword, Abort
<1>2. now' = now /\ open' = open
  <2>1. Reads(h) => now' = now /\ open' = open
    BY ReadsKeep DEF tables
  <2>2. ~Reads(h) => now' = now /\ open' = open
    BY StepKinds, Zenon DEF InsertChallenge, CountWrong, IssueToken, CommitLogin, CommitSetup,
       PasswordSession, ChangePassword
  <2> QED
    BY <2>1, <2>2
<1> QED
  BY <1>1, <1>2 DEF Base, Shape, CountersOK

LEMMA PasswordStays ==
  ASSUME Base, NEW h \in Handler, HandlerStep(h), ~ChangePassword(h)
  PROVE  accounts'[Admin].password = accounts[Admin].password
<1>1. CASE Reads(h)
  BY <1>1, ReadsKeep DEF tables
<1>2. CASE CommitSetup(h)
  BY <1>2, SetupWrites
<1>3. InsertChallenge(h) \/ CountWrong(h) \/ IssueToken(h) \/ CommitLogin(h) \/ PasswordSession(h)
        => accounts' = accounts
  BY Zenon DEF InsertChallenge, CountWrong, IssueToken, CommitLogin, PasswordSession
<1> QED
  BY <1>1, <1>2, <1>3, StepKinds

LEMMA HandlerBase == ASSUME Base, NEW h \in Handler, HandlerStep(h) PROVE Base'
<1>1. TablesOK /\ CountersOK' /\ open' = open
  BY HandlerWrites, Counters
<1>2. Len(challenges') \in Nat /\ Len(tokens') \in Nat
  BY <1>1, LenProperties DEF TablesOK, CodesOK
<1>3. /\ JobsOK' /\ PlaceInv'
      /\ \A g \in Handler \ {h} : pc'[g] = pc[g] /\ job'[g] = job[g]
  BY <1>1, <1>2, WorkMoves, MovesType DEF TablesOK
<1>4. Shape'
  BY <1>1, <1>3 DEF Base, Shape, TablesOK
<1>5. ChangeInv'
  <2>1. pc'[h] = "changing" => LockPassword(h) /\ accounts[Admin].password < MaxPassword
    BY Comes DEF Came
  <2>2. LockPassword(h) => \A g \in Handler \ {h} : pc[g] # "changing"
    BY DEF LockPassword, AccountFree
  <2>3. LockPassword(h) => ~ChangePassword(h)
    BY DEF LockPassword, ChangePassword
  <2>4. \A f, g \in Handler : pc'[f] = "changing" /\ pc'[g] = "changing" => f = g
    BY <1>3, <2>1, <2>2 DEF Base, ChangeInv
  <2>5. ASSUME NEW g \in Handler, pc'[g] = "changing"
        PROVE  accounts'[Admin].password < MaxPassword
    <3>1. CASE ChangePassword(h)
      <4>1. pc[h] = "changing"
        BY <3>1 DEF ChangePassword
      <4> QED
        BY <1>3, <2>1, <2>3, <2>5, <3>1, <4>1 DEF Base, ChangeInv
    <3>2. CASE ~ChangePassword(h)
      <4>1. accounts[Admin].password < MaxPassword
        BY <1>3, <2>1, <2>5 DEF Base, ChangeInv
      <4> QED
        BY <3>2, <4>1, PasswordStays
    <3> QED
      BY <3>1, <3>2
  <2> QED
    BY <2>4, <2>5, Zenon DEF ChangeInv
<1> QED
  BY <1>1, <1>3, <1>4, <1>5 DEF Base, TablesOK

(* The steps of no handler                                                  *)
Alone ==
  \/ \E s \in sessions : Logout(s) \/ DropExpired(s)
  \/ \E a \in Subject : PatchAccount(a)
  \/ PatchConfig \/ Tick \/ UNCHANGED vars

LEMMA AloneKeeps ==
  ASSUME Alone PROVE UNCHANGED <<challenges, tokens, job, pc, answers, grants>>
<1>1. \A s \in sessions : Logout(s) \/ DropExpired(s)
        => UNCHANGED <<challenges, tokens, job, pc, answers, grants>>
  BY DEF Logout, DropExpired, auxiliary
<1>2. \A a \in Subject : PatchAccount(a) => UNCHANGED <<challenges, tokens, job, pc, answers, grants>>
  BY DEF PatchAccount, auxiliary
<1>3. PatchConfig \/ Tick \/ UNCHANGED vars => UNCHANGED <<challenges, tokens, job, pc, answers, grants>>
  BY DEF PatchConfig, Tick, tables, auxiliary, vars
<1> QED
  BY <1>1, <1>2, <1>3, Zenon DEF Alone

LEMMA AloneBase == ASSUME Base, Alone PROVE Base'
<1>1. UNCHANGED <<challenges, tokens, job, pc, answers, grants>>
  BY AloneKeeps
<1>2. CodesOK' /\ JobsOK' /\ PlaceInv' /\ TokensName'
  BY <1>1 DEF Base, Shape, CodesOK, JobsOK, PlaceInv, TokensName
<1>3. ASSUME AccountsOK', accounts'[Admin].password = accounts[Admin].password, SessionsOK', CountersOK',
             open' \in BOOLEAN
      PROVE  Base'
  <2>1. ChangeInv'
    BY <1>1, <1>3 DEF Base, ChangeInv
  <2> QED
    BY <1>2, <1>3, <2>1 DEF Base, Shape
<1>4. ASSUME NEW s \in sessions, Logout(s) \/ DropExpired(s) PROVE Base'
  <2>1. accounts' = accounts /\ sessions' = sessions \ {s} /\ now' = now /\ requests' = requests /\ open' = open
    BY <1>4 DEF Logout, DropExpired
  <2> QED
    BY <1>3, <2>1 DEF Base, Shape, AccountsOK, SessionsOK, CountersOK
<1>5. ASSUME NEW a \in Subject, PatchAccount(a) PROVE Base'
  <2>1. /\ accounts' = [accounts EXCEPT ![a].disabled = ~accounts[a].disabled] /\ sessions' = sessions
        /\ now' = now /\ requests' = requests + 1 /\ requests < MaxRequests /\ open' = open
    BY <1>5 DEF PatchAccount
  <2>2. (~accounts[a].disabled) \in BOOLEAN
    BY Zenon
  <2> DEFINE b == ~accounts[a].disabled
  <2>3. accounts' = [accounts EXCEPT ![a].disabled = b] /\ b \in BOOLEAN
    BY <2>1, <2>2
  <2> HIDE DEF b
  <2>4. AccountsOK' /\ accounts'[Admin].password = accounts[Admin].password
    BY <2>3 DEF Base, Shape, AccountsOK
  <2>5. CountersOK'
    BY <2>1 DEF Base, Shape, CountersOK
  <2> QED
    BY <1>3, <2>1, <2>4, <2>5 DEF Base, Shape, SessionsOK
<1>6. ASSUME PatchConfig PROVE Base'
  <2>1. /\ open' = ~open /\ accounts' = accounts /\ sessions' = sessions /\ now' = now
        /\ requests' = requests + 1 /\ requests < MaxRequests
    BY <1>6 DEF PatchConfig
  <2>2. CountersOK' /\ open' \in BOOLEAN
    BY <2>1 DEF Base, Shape, CountersOK
  <2> QED
    BY <1>3, <2>1, <2>2 DEF Base, Shape, AccountsOK, SessionsOK
<1>7. ASSUME Tick \/ UNCHANGED vars PROVE Base'
  <2>1. /\ accounts' = accounts /\ sessions' = sessions /\ open' = open /\ requests' = requests
        /\ (now' = now \/ (now' = now + 1 /\ now < MaxTime))
    BY <1>7 DEF Tick, tables, vars
  <2>2. CountersOK'
    BY <2>1 DEF Base, Shape, CountersOK
  <2> QED
    BY <1>3, <2>1, <2>2 DEF Base, Shape, AccountsOK, SessionsOK
<1> QED
  BY <1>4, <1>5, <1>6, <1>7, Zenon DEF Alone

LEMMA NextKinds == [Next]_vars => (\E h \in Handler : HandlerStep(h)) \/ Alone
BY Zenon DEF Next, Alone

LEMMA NextBase == Base /\ [Next]_vars => Base'
BY NextKinds, HandlerBase, AloneBase, Zenon

-----------------------------------------------------------------------------
(* Codes: the row lock makes what a guess has seen of a code true until the *)
(* guess is answered, so that every answer is counted.                      *)
Guessing == {"matched", "wrong"}
CodeInv ==
  /\ \A c \in 1..Len(challenges) :
       /\ challenges[c].attempts <= MaxAttempts
       /\ challenges[c].verified => challenges[c].attempts < MaxAttempts
       /\ challenges[c].verified => answers[c] = challenges[c].attempts + 1
       /\ ~challenges[c].verified => answers[c] = challenges[c].attempts
  /\ \A h \in Handler : pc[h] \in Guessing =>
       ~challenges[job[h].id].verified /\ challenges[job[h].id].attempts < MaxAttempts
  /\ \A g, h \in Handler :
       pc[g] \in Guessing /\ pc[h] \in Guessing /\ job[g].id = job[h].id => g = h

LEMMA GuessesName ==
  ASSUME Base, NEW h \in Handler, pc[h] \in Guessing PROVE job[h].id \in 1..Len(challenges)
BY DEF Base, PlaceInv, Placed, Guessing

(* A step that answers no guess and sends no code                           *)
LEMMA CodesSame ==
  ASSUME Base, CodeInv, NEW h \in Handler,
         Len(challenges') = Len(challenges),
         \A c \in 1..Len(challenges) :
           /\ challenges'[c].attempts = challenges[c].attempts
           /\ challenges'[c].verified = challenges[c].verified
           /\ answers'[c] = answers[c],
         \A g \in Handler \ {h} : pc'[g] = pc[g] /\ job'[g] = job[g],
         pc'[h] \in Guessing => Verify(h) /\ job' = job /\ Guessable(ChallengeOf(h), job[h].at)
  PROVE  CodeInv'
<1>1. \A c \in 1..Len(challenges') :
        /\ challenges'[c].attempts <= MaxAttempts
        /\ challenges'[c].verified => challenges'[c].attempts < MaxAttempts
        /\ challenges'[c].verified => answers'[c] = challenges'[c].attempts + 1
        /\ ~challenges'[c].verified => answers'[c] = challenges'[c].attempts
  BY DEF CodeInv
<1>2. pc'[h] \in Guessing =>
        /\ job[h].id \in 1..Len(challenges) /\ job'[h] = job[h]
        /\ ~challenges[job[h].id].verified /\ challenges[job[h].id].attempts < MaxAttempts
        /\ \A g \in Handler \ {h} : pc[g] \in Guessing => job[g].id # job[h].id
  <2> SUFFICES ASSUME pc'[h] \in Guessing
               PROVE  /\ job[h].id \in 1..Len(challenges) /\ job'[h] = job[h]
                      /\ ~challenges[job[h].id].verified /\ challenges[job[h].id].attempts < MaxAttempts
                      /\ \A g \in Handler \ {h} : pc[g] \in Guessing => job[g].id # job[h].id
    OBVIOUS
  <2>1. Verify(h) /\ job' = job /\ Guessable(ChallengeOf(h), job[h].at)
    OBVIOUS
  <2>2. job[h].id \in 1..Len(challenges)
    BY <2>1 DEF Verify, Base, PlaceInv, Placed
  <2>3. ~challenges[job[h].id].verified /\ challenges[job[h].id].attempts < MaxAttempts
    BY <2>1, Zenon DEF Guessable, ChallengeOf
  <2>4. \A g \in Handler \ {h} : pc[g] \in Guessing => job[g].id # job[h].id
    BY <2>1, Zenon DEF Verify, ChallengeFree, Guessing
  <2> QED
    BY <2>1, <2>2, <2>3, <2>4
<1>3. \A g \in Handler \ {h} : pc[g] \in Guessing =>
        /\ job[g].id \in 1..Len(challenges)
        /\ ~challenges[job[g].id].verified /\ challenges[job[g].id].attempts < MaxAttempts
  BY GuessesName DEF CodeInv
<1>4. \A g \in Handler : pc'[g] \in Guessing =>
        ~challenges'[job'[g].id].verified /\ challenges'[job'[g].id].attempts < MaxAttempts
  <2> SUFFICES ASSUME NEW g \in Handler, pc'[g] \in Guessing
               PROVE  ~challenges'[job'[g].id].verified /\ challenges'[job'[g].id].attempts < MaxAttempts
    OBVIOUS
  <2>1. /\ job'[g] = job[g] /\ job[g].id \in 1..Len(challenges)
        /\ ~challenges[job[g].id].verified /\ challenges[job[g].id].attempts < MaxAttempts
    BY <1>2, <1>3
  <2>2. /\ challenges'[job[g].id].attempts = challenges[job[g].id].attempts
        /\ challenges'[job[g].id].verified = challenges[job[g].id].verified
    BY <2>1
  <2> QED
    BY <2>1, <2>2
<1>5. \A f, g \in Handler :
        pc'[f] \in Guessing /\ pc'[g] \in Guessing /\ job'[f].id = job'[g].id => f = g
  BY <1>2 DEF CodeInv
<1> QED
  BY <1>1, <1>4, <1>5 DEF CodeInv

LEMMA InsertCodes == ASSUME Base, CodeInv, NEW h \in Handler, InsertChallenge(h) PROVE CodeInv'
<1> DEFINE n == Len(challenges)
<1>1. /\ Len(challenges') = n + 1
      /\ \A c \in 1..n : challenges'[c] = challenges[c] /\ answers'[c] = answers[c]
      /\ challenges'[n + 1] = Challenge(job[h].subject, job[h].purpose, job[h].at, job[h].read)
      /\ answers'[n + 1] = 0
  BY Inserts
<1>2. challenges'[n + 1].attempts = 0 /\ challenges'[n + 1].verified = FALSE
  BY <1>1 DEF Challenge
<1>3. n \in Nat
  BY CodesAre DEF Base, Shape
<1>4. \A g \in Handler : pc'[g] \in Guessing => pc[g] \in Guessing /\ job'[g] = job[g]
  BY EndAt DEF Base, Shape, JobsOK, InsertChallenge, End, Guessing
<1> HIDE DEF n
<1>5. \A c \in 1..Len(challenges') : c \in 1..n \/ c = n + 1
  BY <1>1, <1>3
<1>6. \A c \in 1..n :
        /\ challenges[c].attempts <= MaxAttempts
        /\ challenges[c].verified => challenges[c].attempts < MaxAttempts
        /\ challenges[c].verified => answers[c] = challenges[c].attempts + 1
        /\ ~challenges[c].verified => answers[c] = challenges[c].attempts
  BY DEF CodeInv, n
<1>7. ASSUME NEW c \in 1..Len(challenges')
      PROVE
        /\ challenges'[c].attempts <= MaxAttempts
        /\ challenges'[c].verified => challenges'[c].attempts < MaxAttempts
        /\ challenges'[c].verified => answers'[c] = challenges'[c].attempts + 1
        /\ ~challenges'[c].verified => answers'[c] = challenges'[c].attempts
  <2>1. CASE c = n + 1
    BY <1>1, <1>2, <2>1 DEF AuthAssumption
  <2>2. CASE c \in 1..n
    BY <1>1, <1>6, <2>2
  <2> QED
    BY <1>5, <2>1, <2>2
<1>8. \A g \in Handler : pc[g] \in Guessing => job[g].id \in 1..n
  BY GuessesName DEF n
<1>9. ASSUME NEW g \in Handler, pc'[g] \in Guessing
      PROVE  ~challenges'[job'[g].id].verified /\ challenges'[job'[g].id].attempts < MaxAttempts
  <2>1. pc[g] \in Guessing /\ job'[g].id = job[g].id /\ job[g].id \in 1..n
    BY <1>4, <1>8, <1>9
  <2>2. challenges'[job[g].id] = challenges[job[g].id]
    BY <1>1, <2>1
  <2> QED
    BY <2>1, <2>2 DEF CodeInv
<1>10. \A f, g \in Handler :
        pc'[f] \in Guessing /\ pc'[g] \in Guessing /\ job'[f].id = job'[g].id => f = g
  BY <1>4 DEF CodeInv
<1> QED
  BY <1>7, <1>9, <1>10 DEF CodeInv

LEMMA AnswerCodes ==
  ASSUME Base, CodeInv, NEW h \in Handler, CountWrong(h) \/ IssueToken(h) PROVE CodeInv'
<1> DEFINE c == job[h].id
<1>1. /\ c \in 1..Len(challenges) /\ Len(challenges') = Len(challenges)
      /\ \A d \in 1..Len(challenges) : d # c => challenges'[d] = challenges[d] /\ answers'[d] = answers[d]
      /\ answers'[c] = answers[c] + 1
      /\ CountWrong(h) => challenges'[c] = [challenges[c] EXCEPT !.attempts = @ + 1]
      /\ IssueToken(h) => challenges'[c] = [challenges[c] EXCEPT !.verified = TRUE]
  BY Answered
<1>2. pc[h] \in Guessing
  BY DEF CountWrong, IssueToken, Guessing
<1>3. /\ ~challenges[c].verified /\ challenges[c].attempts < MaxAttempts
      /\ answers[c] = challenges[c].attempts /\ challenges[c] \in ChallengeType
  BY <1>1, <1>2, CodesAre DEF CodeInv, Base, Shape
<1>4. challenges[c].attempts \in Nat
  BY <1>3 DEF ChallengeType
<1>5. \A g \in Handler : pc'[g] \in Guessing => g # h /\ pc[g] \in Guessing /\ job'[g] = job[g]
  BY DEF Base, Shape, JobsOK, CountWrong, IssueToken, End, Guessing
<1>6. \A g \in Handler : pc'[g] \in Guessing => job[g].id \in 1..Len(challenges) /\ job[g].id # c
  BY <1>2, <1>5, GuessesName DEF CodeInv
<1>7. /\ CountWrong(h) => challenges'[c].attempts = challenges[c].attempts + 1
                            /\ challenges'[c].verified = challenges[c].verified
      /\ IssueToken(h) => challenges'[c].attempts = challenges[c].attempts /\ challenges'[c].verified = TRUE
  <2>1. CASE CountWrong(h)
    <3>1. ~IssueToken(h)
      BY <2>1 DEF CountWrong, IssueToken
    <3> QED
      BY <1>1, <1>3, <2>1, <3>1 DEF ChallengeType
  <2>2. CASE IssueToken(h)
    <3>1. ~CountWrong(h)
      BY <2>2 DEF CountWrong, IssueToken
    <3> QED
      BY <1>1, <1>3, <2>2, <3>1 DEF ChallengeType
  <2> QED
    BY <2>1, <2>2
<1> HIDE DEF c
<1>8. /\ challenges'[c].attempts <= MaxAttempts
      /\ challenges'[c].verified => challenges'[c].attempts < MaxAttempts
      /\ challenges'[c].verified => answers'[c] = challenges'[c].attempts + 1
      /\ ~challenges'[c].verified => answers'[c] = challenges'[c].attempts
  <2>1. CASE CountWrong(h)
    BY <1>1, <1>3, <1>4, <1>7, <2>1
  <2>2. CASE IssueToken(h)
    BY <1>1, <1>3, <1>4, <1>7, <2>2
  <2> QED
    BY <2>1, <2>2
<1>9. \A d \in 1..Len(challenges') :
        /\ challenges'[d].attempts <= MaxAttempts
        /\ challenges'[d].verified => challenges'[d].attempts < MaxAttempts
        /\ challenges'[d].verified => answers'[d] = challenges'[d].attempts + 1
        /\ ~challenges'[d].verified => answers'[d] = challenges'[d].attempts
  BY <1>1, <1>8 DEF CodeInv
<1>10. \A g \in Handler : pc'[g] \in Guessing =>
        ~challenges'[job'[g].id].verified /\ challenges'[job'[g].id].attempts < MaxAttempts
  <2> SUFFICES ASSUME NEW g \in Handler, pc'[g] \in Guessing
               PROVE  ~challenges'[job'[g].id].verified /\ challenges'[job'[g].id].attempts < MaxAttempts
    OBVIOUS
  <2>1. job'[g] = job[g] /\ pc[g] \in Guessing /\ challenges'[job[g].id] = challenges[job[g].id]
    BY <1>1, <1>5, <1>6
  <2> QED
    BY <2>1 DEF CodeInv
<1> QED
  BY <1>5, <1>9, <1>10 DEF CodeInv

Others(h) == \A g \in Handler \ {h} : pc'[g] = pc[g] /\ job'[g] = job[g]

LEMMA OthersStay == ASSUME Base, NEW h \in Handler, HandlerStep(h) PROVE Others(h)
<1>1. TablesOK
  BY HandlerWrites
<1>2. Len(challenges') \in Nat /\ Len(tokens') \in Nat
  BY <1>1, LenProperties DEF TablesOK, CodesOK
<1> QED
  BY <1>1, <1>2, WorkMoves, MovesType DEF TablesOK, Others

(* The steps that end a request after writing                               *)
Ends(h) ==
  \/ InsertChallenge(h) \/ CountWrong(h) \/ IssueToken(h) \/ CommitLogin(h) \/ CommitSetup(h)
  \/ PasswordSession(h) \/ ChangePassword(h)

LEMMA EndsEnd == ASSUME Base, NEW h \in Handler, Ends(h) PROVE pc'[h] = "idle"
<1>1. End(h)
  BY Zenon DEF Ends, InsertChallenge, CountWrong, IssueToken, CommitLogin, CommitSetup, PasswordSession,
     ChangePassword
<1> QED
  BY <1>1, EndAt DEF Base, Shape

(* Spending a token changes nothing but the marks.                          *)
LEMMA Spending ==
  ASSUME Base, NEW h \in Handler, CommitLogin(h) \/ CommitSetup(h)
  PROVE  LET t == job[h].id
             c == tokens[t].challenge
         IN  /\ t \in 1..Len(tokens) /\ c \in 1..Len(challenges)
             /\ Len(tokens') = Len(tokens) /\ Len(challenges') = Len(challenges)
             /\ \A u \in 1..Len(tokens) : tokens'[u].challenge = tokens[u].challenge
             /\ \A u \in 1..Len(tokens) : u # t => tokens'[u] = tokens[u]
             /\ tokens'[t].consumed = TRUE
             /\ \A d \in 1..Len(challenges) :
                  d # c => challenges'[d] = challenges[d] /\ grants'[d] = grants[d]
             /\ challenges'[c] = [challenges[c] EXCEPT !.consumed = TRUE]
             /\ challenges[c] \in ChallengeType
             /\ grants'[c] = grants[c] + 1 /\ answers' = answers
<1> DEFINE t == job[h].id
           c == tokens[t].challenge
<1>1. SpendToken(t) /\ answers' = answers /\ pc[h] \in {"token", "account", "created"}
  BY DEF CommitLogin, CommitSetup
<1>2. t \in 1..Len(tokens) /\ c \in 1..Len(challenges) /\ CodesOK
  BY <1>1, TokensAre
<1>3. /\ tokens' \in Seq(TokenType) /\ Len(tokens') = Len(tokens)
      /\ \A u \in 1..Len(tokens) : u # t => tokens'[u] = tokens[u]
      /\ tokens'[t] = [tokens[t] EXCEPT !.consumed = TRUE]
      /\ challenges' \in Seq(ChallengeType) /\ Len(challenges') = Len(challenges)
      /\ \A d \in 1..Len(challenges) :
           d # c => challenges'[d] = challenges[d] /\ grants'[d] = grants[d]
      /\ challenges'[c] = [challenges[c] EXCEPT !.consumed = TRUE]
      /\ grants'[c] = grants[c] + 1
  BY <1>1, <1>2, Spends
<1>4. tokens[t] \in TokenType /\ challenges[c] \in ChallengeType
  BY <1>2, CodesAre
<1>5. tokens'[t].challenge = tokens[t].challenge /\ tokens'[t].consumed = TRUE
  BY <1>3, <1>4 DEF TokenType
<1> QED
  BY <1>1, <1>2, <1>3, <1>4, <1>5

LEMMA HandlerCodes == ASSUME Base, CodeInv, NEW h \in Handler, HandlerStep(h) PROVE CodeInv'
<1>1. Others(h)
  BY OthersStay
<1>2. CASE InsertChallenge(h) \/ CountWrong(h) \/ IssueToken(h)
  BY <1>2, InsertCodes, AnswerCodes
<1>3. CASE Reads(h)
  <2>1. challenges' = challenges /\ answers' = answers
    BY <1>3, ReadsKeep DEF tables, auxiliary
  <2>2. pc'[h] \in Guessing => Verify(h) /\ job' = job /\ Guessable(ChallengeOf(h), job[h].at)
    BY Comes DEF Came, Guessing
  <2> QED
    BY <1>1, <2>1, <2>2, CodesSame DEF Others
<1>4. CASE PasswordSession(h) \/ ChangePassword(h)
  <2>1. challenges' = challenges /\ answers' = answers
    BY <1>4 DEF PasswordSession, ChangePassword, auxiliary
  <2>2. pc'[h] = "idle"
    BY <1>4, EndsEnd DEF Ends
  <2> QED
    BY <1>1, <2>1, <2>2, CodesSame DEF Others, Guessing
<1>5. CASE CommitLogin(h) \/ CommitSetup(h)
  <2> DEFINE c == tokens[job[h].id].challenge
  <2>1. /\ c \in 1..Len(challenges) /\ Len(challenges') = Len(challenges)
        /\ \A d \in 1..Len(challenges) : d # c => challenges'[d] = challenges[d]
        /\ challenges'[c] = [challenges[c] EXCEPT !.consumed = TRUE]
        /\ challenges[c] \in ChallengeType /\ answers' = answers
    BY <1>5, Spending
  <2>2. pc'[h] = "idle"
    BY <1>5, EndsEnd DEF Ends
  <2>3. challenges'[c].attempts = challenges[c].attempts /\ challenges'[c].verified = challenges[c].verified
    BY <2>1 DEF ChallengeType
  <2> HIDE DEF c
  <2>4. \A d \in 1..Len(challenges) :
           /\ challenges'[d].attempts = challenges[d].attempts
           /\ challenges'[d].verified = challenges[d].verified
           /\ answers'[d] = answers[d]
    BY <2>1, <2>3
  <2> QED
    BY <1>1, <2>1, <2>2, <2>4, CodesSame DEF Others, Guessing
<1> QED
  BY <1>2, <1>3, <1>4, <1>5, StepKinds

LEMMA NextCodes == Base /\ CodeInv /\ [Next]_vars => CodeInv'
<1>1. Base /\ CodeInv /\ Alone => CodeInv'
  BY AloneKeeps DEF CodeInv
<1> QED
  BY <1>1, NextKinds, HandlerCodes, Zenon

-----------------------------------------------------------------------------
(* Tokens: a code that was verified has one token, and the row lock keeps a *)
(* token that was taken unspent until its transaction ends.                 *)
Spender == {"token", "account", "created"}
TokenInv ==
  /\ \A t \in 1..Len(tokens) :
       /\ challenges[tokens[t].challenge].verified
       /\ tokens[t].consumed = challenges[tokens[t].challenge].consumed
  /\ \A t, u \in 1..Len(tokens) : tokens[t].challenge = tokens[u].challenge => t = u
  /\ \A c \in 1..Len(challenges) :
       /\ challenges[c].consumed => grants[c] = 1 /\ challenges[c].verified
       /\ ~challenges[c].consumed => grants[c] = 0
  /\ \A h \in Handler : pc[h] \in Spender => ~tokens[job[h].id].consumed
  /\ \A g, h \in Handler : pc[g] \in Spender /\ pc[h] \in Spender /\ job[g].id = job[h].id => g = h

LEMMA SpendersName ==
  ASSUME Base, NEW h \in Handler, pc[h] \in Spender PROVE job[h].id \in 1..Len(tokens)
BY TokensAre DEF Spender

(* A step that spends no token, makes none and sends no code                *)
LEMMA TokensSame ==
  ASSUME Base, TokenInv, NEW h \in Handler, HandlerStep(h),
         tokens' = tokens, Len(challenges') = Len(challenges),
         \A c \in 1..Len(challenges) :
           /\ challenges'[c].consumed = challenges[c].consumed
           /\ challenges[c].verified => challenges'[c].verified
           /\ grants'[c] = grants[c]
  PROVE  TokenInv'
<1>1. Others(h)
  BY OthersStay
<1>2. pc'[h] \in Spender =>
        /\ job[h].id \in 1..Len(tokens) /\ job'[h] = job[h]
        /\ ~tokens[job[h].id].consumed
        /\ \A g \in Handler \ {h} : pc[g] \in Spender => job[g].id # job[h].id
  <2>1. CASE TakeToken(h) /\ job' = job /\ Usable(TokenOf(h), job[h].do, job[h].at)
    <3>1. job[h].id \in 1..Len(tokens)
      BY <2>1 DEF TakeToken, Base, PlaceInv, Placed
    <3>2. ~tokens[job[h].id].consumed
      BY <2>1, Zenon DEF Usable, TokenOf
    <3>3. \A g \in Handler \ {h} : pc[g] \in Spender => job[g].id # job[h].id
      BY <2>1, Zenon DEF TakeToken, TokenFree, Spender
    <3> QED
      BY <2>1, <3>1, <3>2, <3>3
  <2>2. CASE (Login(h) \/ Create(h)) /\ job' = job
    <3>1. pc[h] \in Spender
      BY <2>2 DEF Login, Create, Spender
    <3> QED
      BY <2>2, <3>1, SpendersName DEF TokenInv
  <2>3. pc'[h] \in Spender => \/ TakeToken(h) /\ job' = job /\ Usable(TokenOf(h), job[h].do, job[h].at)
                              \/ (Login(h) \/ Create(h)) /\ job' = job
    BY Comes DEF Came, Spender
  <2> QED
    BY <2>1, <2>2, <2>3
<1>3. \A g \in Handler : pc'[g] \in Spender => ~tokens'[job'[g].id].consumed
  BY <1>1, <1>2 DEF Others, TokenInv
<1>4. \A f, g \in Handler :
        pc'[f] \in Spender /\ pc'[g] \in Spender /\ job'[f].id = job'[g].id => f = g
  BY <1>1, <1>2 DEF Others, TokenInv
<1>5. \A t \in 1..Len(tokens') :
        /\ challenges'[tokens'[t].challenge].verified
        /\ tokens'[t].consumed = challenges'[tokens'[t].challenge].consumed
  BY SMTT(30) DEF TokenInv, Base, TokensName
<1>6. \A c \in 1..Len(challenges') :
       /\ challenges'[c].consumed => grants'[c] = 1 /\ challenges'[c].verified
       /\ ~challenges'[c].consumed => grants'[c] = 0
  BY DEF TokenInv
<1>7. \A t, u \in 1..Len(tokens') : tokens'[t].challenge = tokens'[u].challenge => t = u
  BY DEF TokenInv
<1> QED
  BY <1>3, <1>4, <1>5, <1>6, <1>7 DEF TokenInv

(* The places of the others are what they were, and the one that ended has  *)
(* left its token.                                                          *)
LEMMA SpendersStay ==
  ASSUME Base, TokenInv, NEW h \in Handler, HandlerStep(h), Ends(h)
  PROVE  /\ \A g \in Handler : pc'[g] \in Spender =>
              g # h /\ pc[g] \in Spender /\ job'[g] = job[g] /\ job[g].id \in 1..Len(tokens)
         /\ \A f, g \in Handler :
              pc'[f] \in Spender /\ pc'[g] \in Spender /\ job'[f].id = job'[g].id => f = g
<1>1. Others(h) /\ pc'[h] = "idle"
  BY OthersStay, EndsEnd
<1>2. \A g \in Handler : pc'[g] \in Spender =>
              g # h /\ pc[g] \in Spender /\ job'[g] = job[g] /\ job[g].id \in 1..Len(tokens)
  BY <1>1, SpendersName DEF Others, Spender
<1> QED
  BY <1>2 DEF TokenInv

LEMMA InsertTokens ==
  ASSUME Base, TokenInv, NEW h \in Handler, HandlerStep(h), InsertChallenge(h) PROVE TokenInv'
<1> DEFINE n == Len(challenges)
<1>1. /\ Len(challenges') = n + 1 /\ tokens' = tokens
      /\ \A c \in 1..n : challenges'[c] = challenges[c] /\ grants'[c] = grants[c]
      /\ challenges'[n + 1] = Challenge(job[h].subject, job[h].purpose, job[h].at, job[h].read)
      /\ grants'[n + 1] = 0
  BY Inserts
<1>2. challenges'[n + 1].consumed = FALSE
  BY <1>1 DEF Challenge
<1>3. n \in Nat
  BY CodesAre DEF Base, Shape
<1>4. \A t \in 1..Len(tokens) : tokens[t].challenge \in 1..n
  BY DEF Base, TokensName
<1>5. Ends(h)
  BY DEF Ends
<1> HIDE DEF n
<1>6. \A c \in 1..Len(challenges') :
       /\ challenges'[c].consumed => grants'[c] = 1 /\ challenges'[c].verified
       /\ ~challenges'[c].consumed => grants'[c] = 0
  <2>1. \A c \in 1..Len(challenges') : c \in 1..n \/ c = n + 1
    BY <1>1, <1>3
  <2>2. \A c \in 1..n :
         /\ challenges[c].consumed => grants[c] = 1 /\ challenges[c].verified
         /\ ~challenges[c].consumed => grants[c] = 0
    BY DEF TokenInv, n
  <2> QED
    BY <1>1, <1>2, <2>1, <2>2
<1>7. \A t \in 1..Len(tokens') :
        /\ challenges'[tokens'[t].challenge].verified
        /\ tokens'[t].consumed = challenges'[tokens'[t].challenge].consumed
  BY <1>1, <1>4 DEF TokenInv
<1>8. \A t, u \in 1..Len(tokens') : tokens'[t].challenge = tokens'[u].challenge => t = u
  BY <1>1 DEF TokenInv
<1>9. /\ \A g \in Handler : pc'[g] \in Spender =>
             pc[g] \in Spender /\ job'[g] = job[g] /\ job[g].id \in 1..Len(tokens)
      /\ \A f, g \in Handler :
           pc'[f] \in Spender /\ pc'[g] \in Spender /\ job'[f].id = job'[g].id => f = g
  BY <1>5, SpendersStay
<1>10. \A g \in Handler : pc'[g] \in Spender => ~tokens'[job'[g].id].consumed
  BY <1>1, <1>9 DEF TokenInv
<1> QED
  BY <1>6, <1>7, <1>8, <1>9, <1>10 DEF TokenInv

LEMMA IssueTokens ==
  ASSUME Base, CodeInv, TokenInv, NEW h \in Handler, HandlerStep(h), IssueToken(h) PROVE TokenInv'
<1> DEFINE c == job[h].id
           n == Len(tokens)
<1>1. /\ c \in 1..Len(challenges) /\ Len(challenges') = Len(challenges)
      /\ \A d \in 1..Len(challenges) : d # c => challenges'[d] = challenges[d]
      /\ challenges'[c] = [challenges[c] EXCEPT !.verified = TRUE]
  BY Answered
<1>2. /\ Len(tokens') = n + 1 /\ \A t \in 1..n : tokens'[t] = tokens[t]
      /\ tokens'[n + 1].challenge = c /\ tokens'[n + 1].consumed = FALSE
  BY Issues
<1>3. pc[h] \in Guessing /\ grants' = grants /\ Ends(h)
  BY DEF IssueToken, Guessing, Ends
<1>4. ~challenges[c].verified
  BY <1>3 DEF CodeInv
<1>5. n \in Nat /\ challenges[c] \in ChallengeType
  BY <1>1, CodesAre DEF Base, Shape
<1>6. challenges'[c].verified = TRUE /\ challenges'[c].consumed = challenges[c].consumed
  BY <1>1, <1>5 DEF ChallengeType
<1>7. \A t \in 1..n : tokens[t].challenge \in 1..Len(challenges) /\ tokens[t].challenge # c
  BY <1>4 DEF Base, TokensName, TokenInv
<1>8. ~challenges[c].consumed
  BY <1>1, <1>4 DEF TokenInv
<1>9. /\ \A g \in Handler : pc'[g] \in Spender =>
             pc[g] \in Spender /\ job'[g] = job[g] /\ job[g].id \in 1..n
      /\ \A f, g \in Handler :
           pc'[f] \in Spender /\ pc'[g] \in Spender /\ job'[f].id = job'[g].id => f = g
  BY <1>3, SpendersStay
<1>10. /\ \A t \in 1..n :
            /\ challenges[tokens[t].challenge].verified
            /\ tokens[t].consumed = challenges[tokens[t].challenge].consumed
       /\ \A t, u \in 1..n : tokens[t].challenge = tokens[u].challenge => t = u
       /\ \A g \in Handler : pc[g] \in Spender => ~tokens[job[g].id].consumed
  BY DEF TokenInv
<1> HIDE DEF c, n
<1>11. \A t \in 1..Len(tokens') : t \in 1..n \/ t = n + 1
  BY <1>2, <1>5
<1>12. \A t \in 1..Len(tokens') :
         /\ challenges'[tokens'[t].challenge].verified
         /\ tokens'[t].consumed = challenges'[tokens'[t].challenge].consumed
  <2> SUFFICES ASSUME NEW t \in 1..Len(tokens')
               PROVE  /\ challenges'[tokens'[t].challenge].verified
                      /\ tokens'[t].consumed = challenges'[tokens'[t].challenge].consumed
    OBVIOUS
  <2>1. CASE t \in 1..n
    <3>1. tokens[t].challenge \in 1..Len(challenges) /\ tokens[t].challenge # c
      BY <1>7, <2>1
    <3>2. tokens'[t] = tokens[t] /\ challenges'[tokens[t].challenge] = challenges[tokens[t].challenge]
      BY <1>1, <1>2, <2>1, <3>1
    <3>3. /\ challenges[tokens[t].challenge].verified
          /\ tokens[t].consumed = challenges[tokens[t].challenge].consumed
      BY <1>10, <2>1
    <3> QED
      BY <3>2, <3>3, Zenon
  <2>2. CASE t = n + 1
    <3>1. challenges'[tokens'[t].challenge].verified
      BY <1>2, <1>6, <2>2, Zenon
    <3>2. challenges'[c].consumed = FALSE
      <4>1. challenges[c].consumed \in BOOLEAN
        BY <1>5 DEF ChallengeType
      <4> QED
        BY <1>6, <1>8, <4>1
    <3> QED
      BY <1>2, <2>2, <3>1, <3>2
  <2> QED
    BY <1>11, <2>1, <2>2
<1>13. \A t, u \in 1..Len(tokens') : tokens'[t].challenge = tokens'[u].challenge => t = u
  BY <1>2, <1>7, <1>10, <1>11
<1>14. \A d \in 1..Len(challenges') :
         /\ challenges'[d].consumed => grants'[d] = 1 /\ challenges'[d].verified
         /\ ~challenges'[d].consumed => grants'[d] = 0
  BY <1>1, <1>3, <1>6 DEF TokenInv
<1>15. \A g \in Handler : pc'[g] \in Spender => ~tokens'[job'[g].id].consumed
  BY <1>2, <1>9, <1>10
<1> QED
  BY <1>9, <1>12, <1>13, <1>14, <1>15 DEF TokenInv

LEMMA SpendTokens ==
  ASSUME Base, TokenInv, NEW h \in Handler, HandlerStep(h), CommitLogin(h) \/ CommitSetup(h)
  PROVE  TokenInv'
<1> DEFINE t == job[h].id
           c == tokens[t].challenge
<1>1. /\ t \in 1..Len(tokens) /\ c \in 1..Len(challenges)
      /\ Len(tokens') = Len(tokens) /\ Len(challenges') = Len(challenges)
      /\ \A u \in 1..Len(tokens) : tokens'[u].challenge = tokens[u].challenge
      /\ \A u \in 1..Len(tokens) : u # t => tokens'[u] = tokens[u]
      /\ tokens'[t].consumed = TRUE
      /\ \A d \in 1..Len(challenges) :
           d # c => challenges'[d] = challenges[d] /\ grants'[d] = grants[d]
      /\ challenges'[c] = [challenges[c] EXCEPT !.consumed = TRUE]
      /\ challenges[c] \in ChallengeType
      /\ grants'[c] = grants[c] + 1
  BY Spending
<1>2. challenges'[c].consumed = TRUE /\ challenges'[c].verified = challenges[c].verified
  BY <1>1 DEF ChallengeType
<1>3. pc[h] \in Spender /\ Ends(h)
  BY DEF CommitLogin, CommitSetup, Spender, Ends
<1>4. ~tokens[t].consumed /\ challenges[c].verified
  BY <1>1, <1>3 DEF TokenInv
<1>5. ~challenges[c].consumed
  BY <1>1, <1>4 DEF TokenInv
<1>6. grants'[c] = 1
  <2>1. grants[c] = 0
    BY <1>1, <1>5 DEF TokenInv
  <2>2. grants'[c] = grants[c] + 1
    BY <1>1
  <2> QED
    BY <2>1, <2>2
<1>7. \A u \in 1..Len(tokens) :
        /\ tokens[u].challenge \in 1..Len(challenges)
        /\ u # t => tokens[u].challenge # c
  BY <1>1 DEF Base, TokensName, TokenInv
<1>8. /\ \A g \in Handler : pc'[g] \in Spender =>
             g # h /\ pc[g] \in Spender /\ job'[g] = job[g] /\ job[g].id \in 1..Len(tokens)
      /\ \A f, g \in Handler :
           pc'[f] \in Spender /\ pc'[g] \in Spender /\ job'[f].id = job'[g].id => f = g
  BY <1>3, SpendersStay
<1>9. \A g \in Handler : pc'[g] \in Spender => job[g].id # t /\ ~tokens[job[g].id].consumed
  BY <1>3, <1>8 DEF TokenInv
<1>10. /\ \A u \in 1..Len(tokens) :
            /\ challenges[tokens[u].challenge].verified
            /\ tokens[u].consumed = challenges[tokens[u].challenge].consumed
       /\ \A u, v \in 1..Len(tokens) : tokens[u].challenge = tokens[v].challenge => u = v
  BY DEF TokenInv
<1>11. \A d \in 1..Len(challenges) : d # c =>
          /\ challenges'[d].consumed => grants'[d] = 1 /\ challenges'[d].verified
          /\ ~challenges'[d].consumed => grants'[d] = 0
  BY <1>1 DEF TokenInv
<1>12. tokens'[t].challenge = c
  BY <1>1
<1> HIDE DEF c, t
<1>13. \A u \in 1..Len(tokens') :
         /\ challenges'[tokens'[u].challenge].verified
         /\ tokens'[u].consumed = challenges'[tokens'[u].challenge].consumed
  <2> SUFFICES ASSUME NEW u \in 1..Len(tokens')
               PROVE  /\ challenges'[tokens'[u].challenge].verified
                      /\ tokens'[u].consumed = challenges'[tokens'[u].challenge].consumed
    OBVIOUS
  <2>1. CASE u = t
    <3>1. challenges'[c].verified
      BY <1>2, <1>4
    <3> QED
      BY <1>1, <1>2, <1>12, <2>1, <3>1, Zenon
  <2>2. CASE u # t
    <3>1. u \in 1..Len(tokens)
      BY <1>1
    <3>2. tokens[u].challenge \in 1..Len(challenges) /\ tokens[u].challenge # c
      BY <1>7, <2>2, <3>1
    <3>3. tokens'[u] = tokens[u] /\ challenges'[tokens[u].challenge] = challenges[tokens[u].challenge]
      <4>1. tokens'[u] = tokens[u]
        BY <1>1, <2>2, <3>1, Zenon
      <4>2. \A d \in 1..Len(challenges) : d # c => challenges'[d] = challenges[d]
        BY <1>1, Zenon
      <4> QED
        BY <3>2, <4>1, <4>2, Zenon
    <3>4. /\ challenges[tokens[u].challenge].verified
          /\ tokens[u].consumed = challenges[tokens[u].challenge].consumed
      BY <1>10, <3>1
    <3> QED
      BY <3>3, <3>4, Zenon
  <2> QED
    BY <2>1, <2>2
<1>14. \A u, v \in 1..Len(tokens') : tokens'[u].challenge = tokens'[v].challenge => u = v
  BY <1>1, <1>10
<1>15. \A d \in 1..Len(challenges') :
         /\ challenges'[d].consumed => grants'[d] = 1 /\ challenges'[d].verified
         /\ ~challenges'[d].consumed => grants'[d] = 0
  <2>1. challenges'[c].verified
    BY <1>2, <1>4
  <2> QED
    BY <1>1, <1>2, <1>6, <1>11, <2>1
<1>16. \A g \in Handler : pc'[g] \in Spender => ~tokens'[job'[g].id].consumed
  <2> SUFFICES ASSUME NEW g \in Handler, pc'[g] \in Spender PROVE ~tokens'[job'[g].id].consumed
    OBVIOUS
  <2>1. job'[g] = job[g] /\ job[g].id \in 1..Len(tokens) /\ job[g].id # t
    BY <1>8, <1>9
  <2>2. tokens'[job[g].id] = tokens[job[g].id] /\ ~tokens[job[g].id].consumed
    BY <1>1, <1>9, <2>1
  <2> QED
    BY <2>1, <2>2
<1> QED
  BY <1>8, <1>13, <1>14, <1>15, <1>16 DEF TokenInv

LEMMA HandlerTokens ==
  ASSUME Base, CodeInv, TokenInv, NEW h \in Handler, HandlerStep(h) PROVE TokenInv'
<1>1. CASE InsertChallenge(h) \/ IssueToken(h) \/ CommitLogin(h) \/ CommitSetup(h)
  BY <1>1, InsertTokens, IssueTokens, SpendTokens
<1>2. CASE Reads(h) \/ PasswordSession(h) \/ ChangePassword(h)
  <2>1. challenges' = challenges /\ tokens' = tokens /\ grants' = grants
    BY <1>2, ReadsKeep DEF PasswordSession, ChangePassword, tables, auxiliary
  <2> QED
    BY <2>1, TokensSame
<1>3. CASE CountWrong(h)
  <2> DEFINE c == job[h].id
  <2>1. /\ c \in 1..Len(challenges) /\ Len(challenges') = Len(challenges)
        /\ \A d \in 1..Len(challenges) : d # c => challenges'[d] = challenges[d]
        /\ challenges'[c] = [challenges[c] EXCEPT !.attempts = @ + 1]
        /\ challenges[c] \in ChallengeType
    BY <1>3, Answered, CodesAre DEF Base, Shape
  <2>2. tokens' = tokens /\ grants' = grants
    BY <1>3 DEF CountWrong
  <2>3. challenges'[c].consumed = challenges[c].consumed /\ challenges'[c].verified = challenges[c].verified
    BY <2>1 DEF ChallengeType
  <2> HIDE DEF c
  <2>4. \A d \in 1..Len(challenges) :
           /\ challenges'[d].consumed = challenges[d].consumed
           /\ challenges[d].verified => challenges'[d].verified
           /\ grants'[d] = grants[d]
    BY <2>1, <2>2, <2>3
  <2> QED
    BY <2>1, <2>2, <2>4, TokensSame
<1> QED
  BY <1>1, <1>2, <1>3, StepKinds

LEMMA NextTokens == Base /\ CodeInv /\ TokenInv /\ [Next]_vars => TokenInv'
<1>1. TokenInv /\ Alone => TokenInv'
  BY AloneKeeps DEF TokenInv
<1> QED
  BY <1>1, NextKinds, HandlerTokens, Zenon

-----------------------------------------------------------------------------
(* Rows keep what they were written with.                                   *)
LEMMA RowsStay ==
  ASSUME Base, NEW h \in Handler, HandlerStep(h)
  PROVE  /\ \A c \in 1..Len(challenges) :
              /\ challenges'[c].email = challenges[c].email /\ challenges'[c].purpose = challenges[c].purpose
              /\ challenges'[c].at = challenges[c].at /\ challenges'[c].seen = challenges[c].seen
              /\ challenges'[c].resend = challenges[c].resend
              /\ \/ challenges'[c].consumed = challenges[c].consumed
                 \/ /\ CommitLogin(h) \/ CommitSetup(h)
                    /\ c = tokens[job[h].id].challenge /\ challenges'[c].consumed = TRUE
         /\ \A t \in 1..Len(tokens) : tokens'[t].challenge = tokens[t].challenge
<1>1. CASE Reads(h) \/ PasswordSession(h) \/ ChangePassword(h)
  <2>1. challenges' = challenges /\ tokens' = tokens
    BY <1>1, ReadsKeep DEF PasswordSession, ChangePassword, tables
  <2> QED
    BY <2>1
<1>2. CASE InsertChallenge(h)
  BY <1>2, Inserts
<1>3. CASE CountWrong(h) \/ IssueToken(h)
  <2> DEFINE c == job[h].id
  <2>1. /\ c \in 1..Len(challenges)
        /\ \A d \in 1..Len(challenges) : d # c => challenges'[d] = challenges[d]
        /\ \/ challenges'[c] = [challenges[c] EXCEPT !.attempts = @ + 1]
           \/ challenges'[c] = [challenges[c] EXCEPT !.verified = TRUE]
        /\ challenges[c] \in ChallengeType
    BY <1>3, Answered, CodesAre DEF Base, Shape
  <2>2. /\ challenges'[c].email = challenges[c].email /\ challenges'[c].purpose = challenges[c].purpose
        /\ challenges'[c].at = challenges[c].at /\ challenges'[c].seen = challenges[c].seen
        /\ challenges'[c].resend = challenges[c].resend /\ challenges'[c].consumed = challenges[c].consumed
    <3>1. CASE challenges'[c] = [challenges[c] EXCEPT !.attempts = @ + 1]
      BY <2>1, <3>1 DEF ChallengeType
    <3>2. CASE challenges'[c] = [challenges[c] EXCEPT !.verified = TRUE]
      BY <2>1, <3>2 DEF ChallengeType
    <3> QED
      BY <2>1, <3>1, <3>2
  <2>3. CountWrong(h) => tokens' = tokens
    BY DEF CountWrong
  <2> HIDE DEF c
  <2>4. \A t \in 1..Len(tokens) : tokens'[t].challenge = tokens[t].challenge
    BY <1>3, <2>3, Issues
  <2> QED
    BY <2>1, <2>2, <2>4
<1>4. CASE CommitLogin(h) \/ CommitSetup(h)
  <2> DEFINE c == tokens[job[h].id].challenge
  <2>1. /\ c \in 1..Len(challenges)
        /\ \A u \in 1..Len(tokens) : tokens'[u].challenge = tokens[u].challenge
        /\ \A d \in 1..Len(challenges) : d # c => challenges'[d] = challenges[d]
        /\ challenges'[c] = [challenges[c] EXCEPT !.consumed = TRUE]
        /\ challenges[c] \in ChallengeType
    BY <1>4, Spending
  <2>2. /\ challenges'[c].email = challenges[c].email /\ challenges'[c].purpose = challenges[c].purpose
        /\ challenges'[c].at = challenges[c].at /\ challenges'[c].seen = challenges[c].seen
        /\ challenges'[c].resend = challenges[c].resend /\ challenges'[c].consumed = TRUE
    BY <2>1 DEF ChallengeType
  <2>3. c = tokens[job[h].id].challenge
    OBVIOUS
  <2> HIDE DEF c
  <2> QED
    BY <1>4, <2>1, <2>2, <2>3
<1> QED
  BY <1>1, <1>2, <1>3, <1>4, StepKinds

LEMMA NewRows ==
  ASSUME Base, NEW h \in Handler, HandlerStep(h), NEW c \in 1..Len(challenges'), c \notin 1..Len(challenges)
  PROVE  /\ InsertChallenge(h) /\ c = Len(challenges) + 1
         /\ challenges'[c] = Challenge(job[h].subject, job[h].purpose, job[h].at, job[h].read)
<1>0. Len(challenges) \in Nat
  BY CodesAre DEF Base, Shape
<1>1. CASE InsertChallenge(h)
  BY <1>0, <1>1, Inserts
<1>2. CASE ~InsertChallenge(h)
  <2>1. Reads(h) \/ PasswordSession(h) \/ ChangePassword(h) => challenges' = challenges
    BY ReadsKeep DEF PasswordSession, ChangePassword, tables
  <2>2. CountWrong(h) \/ IssueToken(h) => Len(challenges') = Len(challenges)
    BY Answered
  <2>3. CommitLogin(h) \/ CommitSetup(h) => Len(challenges') = Len(challenges)
    BY Spending
  <2>4. Len(challenges') = Len(challenges)
    BY <1>2, <2>1, <2>2, <2>3, StepKinds
  <2> QED
    BY <2>4
<1> QED
  BY <1>1, <1>2

(* An account that exists stays, and only a set-up makes one.               *)
LEMMA AccountsStay ==
  ASSUME Base, NEW h \in Handler, HandlerStep(h), NEW a \in Subject
  PROVE  /\ accounts'[a].disabled = accounts[a].disabled
         /\ accounts[a].exists => accounts'[a].exists
         /\ accounts'[a].exists => accounts[a].exists \/ (CommitSetup(h) /\ a = EmailOf(job[h].id))
<1>0. accounts \in [Subject -> [exists : BOOLEAN, disabled : BOOLEAN, password : 1..MaxPassword]]
  BY DEF Base, Shape, AccountsOK
<1>1. CASE CommitSetup(h)
  <2> DEFINE e == EmailOf(job[h].id)
  <2>1. accounts' = [accounts EXCEPT ![e].exists = TRUE]
    BY <1>1 DEF CommitSetup
  <2>2. e = EmailOf(job[h].id)
    OBVIOUS
  <2> HIDE DEF e
  <2> QED
    BY <1>0, <1>1, <2>1, <2>2
<1>2. CASE ChangePassword(h)
  <2> DEFINE new == accounts[Admin].password + 1
  <2>1. accounts' = [accounts EXCEPT ![Admin].password = new]
    BY <1>2 DEF ChangePassword
  <2> HIDE DEF new
  <2> QED
    BY <1>0, <2>1
<1>3. CASE Reads(h) \/ InsertChallenge(h) \/ CountWrong(h) \/ IssueToken(h) \/ CommitLogin(h) \/ PasswordSession(h)
  <2>1. accounts' = accounts
    BY <1>3, ReadsKeep DEF InsertChallenge, CountWrong, IssueToken, CommitLogin, PasswordSession, tables
  <2> QED
    BY <2>1
<1> QED
  BY <1>1, <1>2, <1>3, StepKinds

-----------------------------------------------------------------------------
(* Set-ups: the account is not there while its set-up is under way, because *)
(* the unique index lets one transaction at a time insert the identity.     *)
CodeOf(h) == challenges[tokens[job[h].id].challenge]
Spent(c) == challenges[c].purpose = "register" /\ challenges[c].consumed
SetupInv ==
  /\ \A h \in Handler : pc[h] \in Spender => CodeOf(h).purpose = Purpose(job[h].do)
  /\ \A h \in Handler : pc[h] = "created" => ~accounts[CodeOf(h).email].exists
  /\ \A g, h \in Handler : pc[g] = "created" /\ pc[h] = "created" /\ CodeOf(g).email = CodeOf(h).email => g = h
  /\ \A c \in 1..Len(challenges) : Spent(c) => accounts[challenges[c].email].exists
  /\ \A c, d \in 1..Len(challenges) :
       Spent(c) /\ Spent(d) /\ challenges[c].email = challenges[d].email => c = d

LEMMA CodeStays ==
  ASSUME Base, NEW h \in Handler, HandlerStep(h), NEW g \in Handler, pc'[g] \in Spender, job'[g] = job[g],
         job[g].id \in 1..Len(tokens)
  PROVE  /\ CodeOf(g)'.email = CodeOf(g).email /\ CodeOf(g)'.purpose = CodeOf(g).purpose
         /\ CodeOf(g).email \in Email /\ CodeOf(g).email = EmailOf(job[g].id)
<1>1. tokens[job[g].id].challenge \in 1..Len(challenges)
  BY DEF Base, TokensName
<1>2. tokens'[job[g].id].challenge = tokens[job[g].id].challenge
  BY RowsStay
<1>3. challenges[tokens[job[g].id].challenge] \in ChallengeType
  BY <1>1, CodesAre DEF Base, Shape
<1> QED
  BY <1>1, <1>2, <1>3, RowsStay, ZenonT(60) DEF CodeOf, EmailOf, ChallengeType

(* The places of the token, after a step                                    *)
LEMMA SpendersAfter ==
  ASSUME Base, SetupInv, NEW h \in Handler, HandlerStep(h), NEW g \in Handler, pc'[g] \in Spender
  PROVE  /\ job'[g] = job[g] /\ job[g].id \in 1..Len(tokens)
         /\ CodeOf(g).purpose = Purpose(job[g].do)
         /\ g # h => pc'[g] = pc[g]
         /\ g = h => \/ TakeToken(h) /\ pc'[h] = "token"
                     \/ Login(h) /\ pc'[h] = "account"
                     \/ Create(h) /\ pc'[h] = "created" /\ ~accounts[EmailOf(job[h].id)].exists
<1>1. CASE g # h
  <2>1. pc'[g] = pc[g] /\ job'[g] = job[g]
    BY <1>1, OthersStay DEF Others
  <2> QED
    BY <1>1, <2>1, SpendersName DEF SetupInv
<1>2. CASE g = h
  <2>1. /\ job' = job
        /\ \/ TakeToken(h) /\ pc'[h] = "token" /\ Usable(TokenOf(h), job[h].do, job[h].at)
           \/ Login(h) /\ pc'[h] = "account"
           \/ Create(h) /\ pc'[h] = "created" /\ ~accounts[EmailOf(job[h].id)].exists
    BY <1>2, Comes DEF Came, Spender
  <2>2. CASE TakeToken(h) /\ Usable(TokenOf(h), job[h].do, job[h].at)
    <3>1. job[h].id \in 1..Len(tokens)
      BY <2>2 DEF TakeToken, Base, PlaceInv, Placed
    <3>2. CodeOf(h).purpose = Purpose(job[h].do)
      BY <2>2, Zenon DEF Usable, TokenOf, CodeOf
    <3> QED
      BY <1>2, <2>1, <3>1, <3>2
  <2>3. CASE Login(h) \/ Create(h)
    <3>1. pc[h] \in Spender
      BY <2>3 DEF Login, Create, Spender
    <3> QED
      BY <1>2, <2>1, <3>1, SpendersName DEF SetupInv
  <2> QED
    BY <2>1, <2>2, <2>3
<1> QED
  BY <1>1, <1>2

LEMMA HandlerSetups == ASSUME Base, SetupInv, NEW h \in Handler, HandlerStep(h) PROVE SetupInv'
<1>1. \A g \in Handler : pc'[g] \in Spender => CodeOf(g)'.purpose = Purpose(job'[g].do)
  BY SpendersAfter, CodeStays
<1>2. ASSUME NEW g \in Handler, pc'[g] = "created"
      PROVE  ~accounts'[CodeOf(g)'.email].exists
  <2>0. pc'[g] \in Spender
    BY <1>2 DEF Spender
  <2>1. /\ job'[g] = job[g] /\ job[g].id \in 1..Len(tokens)
        /\ CodeOf(g)'.email = CodeOf(g).email /\ CodeOf(g).email \in Email
        /\ CodeOf(g).email = EmailOf(job[g].id)
    BY <2>0, SpendersAfter, CodeStays
  <2>2. CASE g = h
    <3>1. Create(h) /\ ~accounts[EmailOf(job[h].id)].exists
      BY <1>2, <2>0, <2>2, SpendersAfter
    <3>2. accounts' = accounts
      BY <3>1, ReadsKeep DEF Reads, tables
    <3> QED
      BY <2>1, <2>2, <3>1, <3>2
  <2>3. CASE g # h
    <3>1. pc[g] = "created" /\ ~accounts[CodeOf(g).email].exists
      BY <1>2, <2>0, <2>3, SpendersAfter DEF SetupInv
    <3>2. CommitSetup(h) => CodeOf(g).email # EmailOf(job[h].id)
      <4> SUFFICES ASSUME CommitSetup(h) PROVE CodeOf(g).email # EmailOf(job[h].id)
        OBVIOUS
      <4>1. pc[h] = "created"
        BY DEF CommitSetup
      <4>2. CodeOf(h).email = EmailOf(job[h].id)
        BY DEF CodeOf, EmailOf
      <4> QED
        BY <2>3, <3>1, <4>1, <4>2 DEF SetupInv
    <3> QED
      BY <2>1, <3>1, <3>2, AccountsStay
  <2> QED
    BY <2>2, <2>3
<1>3. ASSUME NEW f \in Handler, NEW g \in Handler, pc'[f] = "created", pc'[g] = "created",
             CodeOf(f)'.email = CodeOf(g)'.email, f # g
      PROVE  FALSE
  <2>1. \A k \in {f, g} :
          /\ pc'[k] \in Spender /\ CodeOf(k)'.email = CodeOf(k).email
          /\ CodeOf(k).email = EmailOf(job[k].id)
          /\ k # h => pc[k] = "created"
          /\ k = h => Create(h)
    <3>1. \A k \in {f, g} : pc'[k] \in Spender
      BY <1>3 DEF Spender
    <3> QED
      BY <1>3, <3>1, SpendersAfter, CodeStays
  <2>2. CASE f # h /\ g # h
    BY <1>3, <2>1, <2>2 DEF SetupInv
  <2>3. CASE f = h \/ g = h
    <3>1. PICK k \in {f, g} : k # h
      BY <1>3
    <3>2. Create(h) /\ k \in Handler \ {h} /\ pc[k] = "created" /\ EmailOf(job[k].id) = EmailOf(job[h].id)
      BY <1>3, <2>1, <2>3, <3>1
    <3> QED
      BY <3>2, Zenon DEF Create, IdentityFree
  <2> QED
    BY <2>2, <2>3
<1>4. ASSUME NEW c \in 1..Len(challenges'), Spent(c)'
      PROVE  /\ c \in 1..Len(challenges) /\ challenges[c].purpose = "register"
             /\ challenges'[c].email = challenges[c].email /\ challenges[c].email \in Email
             /\ ~Spent(c) => CommitSetup(h) /\ c = tokens[job[h].id].challenge
  <2>1. c \in 1..Len(challenges)
    <3>1. CASE c \notin 1..Len(challenges)
      <4>1. challenges'[c] = Challenge(job[h].subject, job[h].purpose, job[h].at, job[h].read)
        BY <1>4, <3>1, NewRows, Zenon
      <4>2. challenges'[c].consumed = FALSE
        BY <4>1 DEF Challenge
      <4> QED
        BY <1>4, <4>2 DEF Spent
    <3> QED
      BY <3>1
  <2>2. /\ challenges'[c].purpose = "register" /\ challenges'[c].consumed
        /\ challenges[c].purpose = "register" /\ challenges'[c].email = challenges[c].email
    BY <1>4, <2>1, RowsStay DEF Spent
  <2>3. challenges[c].email \in Email
    <3>1. challenges[c] \in ChallengeType
      BY <2>1, CodesAre DEF Base, Shape
    <3> QED
      BY <3>1 DEF ChallengeType
  <2>4. ~Spent(c) => (CommitLogin(h) \/ CommitSetup(h)) /\ c = tokens[job[h].id].challenge
    BY <2>1, <2>2, RowsStay DEF Spent
  <2>5. CommitLogin(h) => CodeOf(h).purpose = "login"
    <3> SUFFICES ASSUME CommitLogin(h) PROVE CodeOf(h).purpose = "login"
      OBVIOUS
    <3>1. pc[h] = "account"
      BY DEF CommitLogin
    <3>2. job[h].do = "login" /\ pc[h] \in Spender
      BY <3>1 DEF Base, PlaceInv, Placed, Spender
    <3> QED
      BY <3>2 DEF SetupInv, Purpose
  <2>6. ~Spent(c) => ~CommitLogin(h)
    BY <2>2, <2>4, <2>5 DEF CodeOf
  <2> QED
    BY <2>1, <2>2, <2>3, <2>4, <2>6
<1>5. \A c \in 1..Len(challenges') : Spent(c)' => accounts'[challenges'[c].email].exists
  <2> SUFFICES ASSUME NEW c \in 1..Len(challenges'), Spent(c)' PROVE accounts'[challenges'[c].email].exists
    OBVIOUS
  <2>1. CASE Spent(c)
    <3>1. accounts[challenges[c].email].exists /\ challenges[c].email \in Subject
      BY <1>4, <2>1 DEF SetupInv
    <3> QED
      BY <1>4, <3>1, AccountsStay
  <2>2. CASE ~Spent(c)
    <3>1. CommitSetup(h) /\ challenges'[c].email = EmailOf(job[h].id) /\ EmailOf(job[h].id) \in Email
      BY <1>4, <2>2 DEF EmailOf
    <3>2. accounts' = [accounts EXCEPT ![EmailOf(job[h].id)].exists = TRUE]
      BY <3>1 DEF CommitSetup
    <3>3. accounts \in [Subject -> [exists : BOOLEAN, disabled : BOOLEAN, password : 1..MaxPassword]]
      BY DEF Base, Shape, AccountsOK
    <3> DEFINE e == EmailOf(job[h].id)
    <3>4. accounts' = [accounts EXCEPT ![e].exists = TRUE] /\ e \in Subject /\ challenges'[c].email = e
      BY <3>1, <3>2
    <3> HIDE DEF e
    <3> QED
      BY <3>3, <3>4
  <2> QED
    BY <2>1, <2>2
<1>6. \A c, d \in 1..Len(challenges') :
        Spent(c)' /\ Spent(d)' /\ challenges'[c].email = challenges'[d].email => c = d
  <2> SUFFICES ASSUME NEW c \in 1..Len(challenges'), NEW d \in 1..Len(challenges'),
                      Spent(c)', Spent(d)', challenges'[c].email = challenges'[d].email
               PROVE  c = d
    OBVIOUS
  <2>1. challenges[c].email = challenges[d].email /\ c \in 1..Len(challenges) /\ d \in 1..Len(challenges)
    BY <1>4
  <2>2. CASE Spent(c) /\ Spent(d)
    BY <2>1, <2>2 DEF SetupInv
  <2>3. CASE ~Spent(c) /\ ~Spent(d)
    BY <1>4, <2>3
  <2>4. ASSUME NEW x \in {c, d}, NEW y \in {c, d}, Spent(x), ~Spent(y) PROVE FALSE
    <3>1. accounts[challenges[x].email].exists /\ challenges[x].email = challenges[y].email
      BY <2>1, <2>4 DEF SetupInv
    <3>2. CommitSetup(h) /\ y = tokens[job[h].id].challenge
      BY <1>4, <2>4
    <3>3. pc[h] = "created" /\ CodeOf(h).email = challenges[y].email
      BY <3>2 DEF CommitSetup, CodeOf
    <3> QED
      BY <3>1, <3>3 DEF SetupInv
  <2> QED
    BY <2>2, <2>3, <2>4
<1> QED
  BY <1>1, <1>2, <1>3, <1>5, <1>6 DEF SetupInv

LEMMA AloneAccounts ==
  ASSUME Base, Alone
  PROVE  /\ \A a \in Subject :
              /\ accounts'[a].exists = accounts[a].exists
              /\ accounts'[a].password = accounts[a].password
              /\ accounts'[a].disabled # accounts[a].disabled => Unlocked(a)
         /\ sessions' \subseteq sessions
<1>0. accounts \in [Subject -> [exists : BOOLEAN, disabled : BOOLEAN, password : 1..MaxPassword]]
  BY DEF Base, Shape, AccountsOK
<1>1. CASE \E a \in Subject : PatchAccount(a)
  <2>1. PICK a \in Subject : PatchAccount(a)
    BY <1>1
  <2> DEFINE b == ~accounts[a].disabled
  <2>2. accounts' = [accounts EXCEPT ![a].disabled = b] /\ sessions' = sessions /\ Unlocked(a)
    BY <2>1 DEF PatchAccount
  <2> HIDE DEF b
  <2> QED
    BY <1>0, <2>2
<1>2. CASE \E s \in sessions : Logout(s) \/ DropExpired(s)
  <2>1. PICK s \in sessions : Logout(s) \/ DropExpired(s)
    BY <1>2
  <2>2. accounts' = accounts /\ sessions' = sessions \ {s}
    BY <2>1 DEF Logout, DropExpired
  <2> QED
    BY <2>2
<1>3. CASE PatchConfig \/ Tick \/ UNCHANGED vars
  <2>1. accounts' = accounts /\ sessions' = sessions
    BY <1>3 DEF PatchConfig, Tick, tables, vars
  <2> QED
    BY <2>1
<1> QED
  BY <1>1, <1>2, <1>3, Zenon DEF Alone

LEMMA EmailsAre ==
  ASSUME Base, NEW h \in Handler, pc[h] \in Spender
  PROVE  CodeOf(h).email \in Email /\ CodeOf(h).email = EmailOf(job[h].id)
BY TokensAre DEF Spender, CodeOf, EmailOf

LEMMA NextSetups == Base /\ SetupInv /\ [Next]_vars => SetupInv'
<1>1. ASSUME Base, SetupInv, Alone PROVE SetupInv'
  <2>1. UNCHANGED <<challenges, tokens, job, pc>>
    BY <1>1, AloneKeeps
  <2>2. \A a \in Subject : accounts'[a].exists = accounts[a].exists
    BY <1>1, AloneAccounts
  <2>3. \A h \in Handler : pc[h] = "created" => CodeOf(h).email \in Subject
    BY <1>1, EmailsAre DEF Spender
  <2>4. \A c \in 1..Len(challenges) : challenges[c].email \in Subject
    BY <1>1, CodesAre DEF Base, Shape, ChallengeType
  <2>5. \A h \in Handler : CodeOf(h)' = CodeOf(h)
    BY <2>1 DEF CodeOf
  <2>6. \A c : Spent(c)' = Spent(c)
    BY <2>1 DEF Spent
  <2>7. \A h \in Handler : pc'[h] = "created" => ~accounts'[CodeOf(h)'.email].exists
    BY <1>1, <2>1, <2>2, <2>3, <2>5 DEF SetupInv
  <2>8. \A c \in 1..Len(challenges') : Spent(c)' => accounts'[challenges'[c].email].exists
    BY <1>1, <2>1, <2>2, <2>4, <2>6 DEF SetupInv
  <2> QED
    BY <1>1, <2>1, <2>5, <2>6, <2>7, <2>8, SMTT(30) DEF SetupInv
<1> QED
  BY <1>1, NextKinds, HandlerSetups, Zenon

-----------------------------------------------------------------------------
(* Accounts: what a login has seen of an account stays true until it ends.  *)
AccountInv ==
  /\ \A h \in Handler : pc[h] = "account" =>
       accounts[CodeOf(h).email].exists /\ ~accounts[CodeOf(h).email].disabled
  /\ accounts[Admin].exists
  /\ \A s \in sessions : accounts[s.account].exists

LEMMA NewSessions ==
  ASSUME Base, NEW h \in Handler, HandlerStep(h), NEW s \in sessions', s \notin sessions
  PROVE  \/ CommitLogin(h) /\ s.account = EmailOf(job[h].id)
         \/ s.account = Admin
<1>1. Reads(h) => sessions' = sessions
  BY ReadsKeep DEF tables
<1>2. InsertChallenge(h) \/ CountWrong(h) \/ IssueToken(h) \/ CommitSetup(h) => sessions' = sessions
  BY Zenon DEF InsertChallenge, CountWrong, IssueToken, CommitSetup
<1>3. CASE CommitLogin(h)
  <2>1. s = Session(EmailOf(job[h].id), job[h].at, 0, FALSE)
    BY <1>3 DEF CommitLogin
  <2> QED
    BY <1>3, <2>1 DEF Session
<1>4. CASE PasswordSession(h)
  <2> DEFINE late == job[h].read # accounts[Admin].password
  <2>1. s = Session(Admin, job[h].at, job[h].read, late)
    BY <1>4 DEF PasswordSession
  <2> HIDE DEF late
  <2> QED
    BY <2>1 DEF Session
<1>5. CASE ChangePassword(h)
  <2>1. s = Session(Admin, now, accounts[Admin].password + 1, FALSE)
    BY <1>5 DEF ChangePassword, SessionsAfterChange
  <2> QED
    BY <2>1 DEF Session
<1> QED
  BY <1>1, <1>2, <1>3, <1>4, <1>5, StepKinds

LEMMA HandlerAccounts == ASSUME Base, SetupInv, AccountInv, NEW h \in Handler, HandlerStep(h) PROVE AccountInv'
<1>1. ASSUME NEW g \in Handler, pc'[g] = "account"
      PROVE  accounts'[CodeOf(g)'.email].exists /\ ~accounts'[CodeOf(g)'.email].disabled
  <2>0. pc'[g] \in Spender
    BY <1>1 DEF Spender
  <2>1. /\ CodeOf(g)'.email = CodeOf(g).email /\ CodeOf(g).email \in Subject
        /\ CodeOf(g).email = EmailOf(job[g].id)
    BY <2>0, SpendersAfter, CodeStays
  <2>2. accounts[CodeOf(g).email].exists /\ ~accounts[CodeOf(g).email].disabled
    <3>1. CASE g = h
      <4>1. accounts[EmailOf(job[h].id)].exists /\ ~accounts[EmailOf(job[h].id)].disabled
        BY <1>1, <3>1, Comes DEF Came
      <4> QED
        BY <2>1, <3>1, <4>1
    <3>2. CASE g # h
      BY <1>1, <2>0, <3>2, SpendersAfter DEF AccountInv
    <3> QED
      BY <3>1, <3>2
  <2> QED
    BY <2>1, <2>2, AccountsStay
<1>2. accounts'[Admin].exists
  BY AccountsStay DEF AccountInv
<1>3. ASSUME NEW s \in sessions' PROVE accounts'[s.account].exists
  <2>1. accounts[s.account].exists /\ s.account \in Subject
    <3>1. CASE s \in sessions
      BY <3>1 DEF AccountInv, Base, Shape, SessionsOK, SessionType
    <3>2. CASE s \notin sessions
      <4>1. CASE s.account = Admin
        BY <4>1 DEF AccountInv
      <4>2. CASE CommitLogin(h) /\ s.account = EmailOf(job[h].id)
        <5>1. pc[h] = "account" /\ pc[h] \in Spender
          BY <4>2 DEF CommitLogin, Spender
        <5> QED
          BY <4>2, <5>1, EmailsAre DEF AccountInv
      <4> QED
        BY <3>2, <4>1, <4>2, NewSessions
    <3> QED
      BY <3>1, <3>2
  <2> QED
    BY <2>1, AccountsStay
<1> QED
  BY <1>1, <1>2, <1>3 DEF AccountInv

LEMMA NextAccounts == Base /\ SetupInv /\ AccountInv /\ [Next]_vars => AccountInv'
<1>1. ASSUME Base, AccountInv, Alone PROVE AccountInv'
  <2>1. UNCHANGED <<challenges, tokens, job, pc>>
    BY <1>1, AloneKeeps
  <2>2. \A h \in Handler : CodeOf(h)' = CodeOf(h)
    BY <2>1 DEF CodeOf
  <2>3. ASSUME NEW h \in Handler, pc'[h] = "account"
        PROVE  accounts'[CodeOf(h)'.email].exists /\ ~accounts'[CodeOf(h)'.email].disabled
    <3>1. pc[h] = "account" /\ pc[h] \in Spender
      BY <2>1, <2>3 DEF Spender
    <3>2. CodeOf(h).email \in Subject /\ CodeOf(h).email = EmailOf(job[h].id)
      BY <1>1, <3>1, EmailsAre
    <3>3. ~Unlocked(CodeOf(h).email)
      BY <3>1, <3>2, Zenon DEF Unlocked
    <3>4. accounts'[CodeOf(h).email].disabled = accounts[CodeOf(h).email].disabled
      BY <1>1, <3>2, <3>3, AloneAccounts
    <3>5. accounts'[CodeOf(h).email].exists = accounts[CodeOf(h).email].exists
      BY <1>1, <3>2, AloneAccounts
    <3> QED
      BY <1>1, <2>2, <3>1, <3>4, <3>5 DEF AccountInv
  <2>4. accounts'[Admin].exists
    BY <1>1, AloneAccounts DEF AccountInv
  <2>5. \A s \in sessions' : accounts'[s.account].exists
    BY <1>1, AloneAccounts DEF AccountInv, Base, Shape, SessionsOK, SessionType
  <2> QED
    BY <2>3, <2>4, <2>5 DEF AccountInv
<1> QED
  BY <1>1, NextKinds, HandlerAccounts, Zenon

-----------------------------------------------------------------------------
(* Codes that are sent again                                                *)
Same(c, d) == challenges[c].email = challenges[d].email /\ challenges[c].purpose = challenges[d].purpose
ResendInv ==
  /\ \A h \in Handler : pc[h] = "insert" =>
       /\ job[h].read <= Len(challenges)
       /\ \A c \in 1..Len(challenges) :
            /\ challenges[c].email = job[h].subject /\ challenges[c].purpose = job[h].purpose
            /\ ~challenges[c].consumed /\ job[h].at < challenges[c].resend
            => job[h].read < c
  /\ \A c, d \in 1..Len(challenges) :
       c < d /\ Same(c, d) /\ ~challenges[c].consumed /\ challenges[d].at < challenges[c].resend
       => challenges[d].seen < c

LEMMA Checked ==
  ASSUME Base, NEW h \in Handler, HandlerStep(h), pc'[h] = "insert"
  PROVE  /\ challenges' = challenges /\ job'[h].at = now /\ job'[h].read = Len(challenges)
         /\ job'[h].subject = job[h].subject /\ job'[h].purpose = job[h].purpose
         /\ ~SentRecently(job[h].subject, job[h].purpose)
<1>0. JobsOK
  BY DEF Base, Shape
<1>1. ~End(h)
  BY <1>0, EndAt
<1>2. \A next : next # "insert" => ~Step(h, next)
  BY <1>0, StepAt
<1>3. CheckResend(h)
  <2>1. ~Receive(h)
    BY <1>0 DEF Receive, JobsOK
  <2>2. ~ReadPassword(h)
    BY <1>0, <1>1 DEF ReadPassword, Refuse, JobsOK
  <2>3. ~Start(h) /\ ~TakeToken(h) /\ ~LockPassword(h)
    BY <1>1, <1>2 DEF Start, TakeToken, LockPassword, Refuse
  <2>4. ~Login(h) /\ ~Create(h)
    BY <1>1, <1>2 DEF Login, Create, Refuse
  <2>5. ~Verify(h)
    <3>1. (IF job[h].right THEN "matched" ELSE "wrong") # "insert"
      OBVIOUS
    <3> QED
      BY <1>1, <1>2, <3>1 DEF Verify, Refuse
  <2>6. ~(InsertChallenge(h) \/ CountWrong(h) \/ IssueToken(h) \/ CommitLogin(h) \/ CommitSetup(h)
           \/ PasswordSession(h) \/ ChangePassword(h) \/ Abort(h))
    BY <1>1, Zenon DEF InsertChallenge, CountWrong, IssueToken, CommitLogin, CommitSetup, PasswordSession,
       ChangePassword, Abort
  <2> QED
    BY <2>1, <2>2, <2>3, <2>4, <2>5, <2>6, Zenon DEF HandlerStep
<1>4. /\ ~SentRecently(job[h].subject, job[h].purpose) /\ challenges' = challenges
      /\ job' = [job EXCEPT ![h].at = now, ![h].read = Len(challenges)]
  BY <1>1, <1>3 DEF CheckResend, Refuse, tables
<1>5. job[h] \in JobType /\ job \in [Handler -> JobType]
  BY <1>0 DEF JobsOK
<1> DEFINE n == Len(challenges)
<1>6. job' = [job EXCEPT ![h].at = now, ![h].read = n]
  BY <1>4
<1> HIDE DEF n
<1>7. /\ job'[h].at = now /\ job'[h].read = n
      /\ job'[h].subject = job[h].subject /\ job'[h].purpose = job[h].purpose
  BY <1>5, <1>6 DEF JobType
<1> QED
  BY <1>4, <1>7 DEF n

LEMMA HandlerResends == ASSUME Base, ResendInv, NEW h \in Handler, HandlerStep(h) PROVE ResendInv'
<1> DEFINE n == Len(challenges)
<1>1. n \in Nat /\ Len(challenges') \in Nat /\ n <= Len(challenges')
  BY HandlerWrites, CodesAre, LenProperties DEF TablesOK, CodesOK, Base, Shape
<1>2. \A c \in 1..n :
        /\ challenges'[c].email = challenges[c].email /\ challenges'[c].purpose = challenges[c].purpose
        /\ challenges'[c].at = challenges[c].at /\ challenges'[c].seen = challenges[c].seen
        /\ challenges'[c].resend = challenges[c].resend
        /\ ~challenges'[c].consumed => ~challenges[c].consumed
  BY RowsStay
<1>3. \A c \in 1..Len(challenges') : c \in 1..n \/
        /\ InsertChallenge(h) /\ c = n + 1
        /\ challenges'[c] = Challenge(job[h].subject, job[h].purpose, job[h].at, job[h].read)
  BY NewRows
<1>4. ASSUME NEW g \in Handler, pc'[g] = "insert"
      PROVE  /\ job'[g].read <= Len(challenges')
             /\ \A c \in 1..Len(challenges') :
                  /\ challenges'[c].email = job'[g].subject /\ challenges'[c].purpose = job'[g].purpose
                  /\ ~challenges'[c].consumed /\ job'[g].at < challenges'[c].resend
                  => job'[g].read < c
  <2>1. CASE g # h
    <3>1. pc[g] = "insert" /\ job'[g] = job[g] /\ job[g].read \in Nat
      BY <1>4, <2>1, OthersStay DEF Others, Base, Shape, JobsOK, JobType
    <3>2. job[g].read <= n
      BY <3>1 DEF ResendInv
    <3>3. ASSUME NEW c \in 1..Len(challenges'),
                 challenges'[c].email = job[g].subject, challenges'[c].purpose = job[g].purpose,
                 ~challenges'[c].consumed, job[g].at < challenges'[c].resend
          PROVE  job[g].read < c
      <4>1. CASE c \in 1..n
        BY <1>2, <3>1, <3>3, <4>1 DEF ResendInv
      <4>2. CASE c \notin 1..n
        <5> HIDE DEF n
        <5>1. c = n + 1
          BY <1>3, <4>2
        <5> QED
          BY <1>1, <3>1, <3>2, <5>1
      <4> QED
        BY <4>1, <4>2
    <3>4. job[g].read <= Len(challenges')
      <4> HIDE DEF n
      <4> QED
        BY <1>1, <3>1, <3>2
    <3> QED
      BY <3>1, <3>3, <3>4
  <2>2. CASE g = h
    <3>1. /\ challenges' = challenges /\ job'[h].at = now /\ job'[h].read = n
          /\ job'[h].subject = job[h].subject /\ job'[h].purpose = job[h].purpose
          /\ ~SentRecently(job[h].subject, job[h].purpose)
      BY <1>4, <2>2, Checked
    <3>2. DOMAIN challenges = 1..n
      BY CodesAre DEF Base, Shape
    <3>3. \A c \in 1..n :
            challenges[c].email = job[h].subject /\ challenges[c].purpose = job[h].purpose
              /\ ~challenges[c].consumed => ~(challenges[c].resend > now)
      <4>1. \A c \in DOMAIN challenges :
             ~(/\ challenges[c].email = job[h].subject /\ challenges[c].purpose = job[h].purpose
               /\ ~challenges[c].consumed /\ challenges[c].resend > now)
        BY <3>1, Zenon DEF SentRecently
      <4> QED
        BY <3>2, <4>1, Zenon
    <3>4. \A c \in 1..n : challenges[c].resend \in Nat
      BY CodesAre DEF Base, Shape, ChallengeType
    <3>5. now \in Nat
      BY DEF Base, Shape, CountersOK
    <3>6. \A c \in 1..n : now < challenges[c].resend => challenges[c].resend > now
      BY <3>4, <3>5
    <3>7. job'[h].read <= Len(challenges')
      BY <1>1, <3>1
    <3> HIDE DEF n
    <3>8. Len(challenges') = n
      BY <3>1 DEF n
    <3> QED
      BY <2>2, <3>1, <3>3, <3>6, <3>7, <3>8
  <2> QED
    BY <2>1, <2>2
<1>5. ASSUME NEW c \in 1..Len(challenges'), NEW d \in 1..Len(challenges'), c < d, Same(c, d)',
             ~challenges'[c].consumed, challenges'[d].at < challenges'[c].resend
      PROVE  challenges'[d].seen < c
  <2>1. CASE d \in 1..n
    <3>1. c \in 1..n
      BY <1>1, <1>5, <2>1
    <3>2. Same(c, d)
      BY <1>2, <1>5, <2>1, <3>1 DEF Same
    <3> QED
      BY <1>2, <1>5, <2>1, <3>1, <3>2 DEF ResendInv
  <2>2. CASE d \notin 1..n
    <3>1. /\ InsertChallenge(h) /\ d = n + 1
          /\ challenges'[d] = Challenge(job[h].subject, job[h].purpose, job[h].at, job[h].read)
      BY <1>3, <2>2
    <3>2. c \in 1..n
      <4> HIDE DEF n
      <4> QED
        BY <1>1, <1>5, <3>1
    <3>3. /\ challenges'[d].email = job[h].subject /\ challenges'[d].purpose = job[h].purpose
          /\ challenges'[d].at = job[h].at /\ challenges'[d].seen = job[h].read
      BY <3>1 DEF Challenge
    <3>4. pc[h] = "insert"
      BY <3>1 DEF InsertChallenge
    <3>5. /\ challenges[c].email = job[h].subject /\ challenges[c].purpose = job[h].purpose
          /\ ~challenges[c].consumed /\ job[h].at < challenges[c].resend
      BY <1>2, <1>5, <3>2, <3>3 DEF Same
    <3> QED
      BY <3>2, <3>3, <3>4, <3>5 DEF ResendInv
  <2> QED
    BY <2>1, <2>2
<1> QED
  BY <1>4, <1>5 DEF ResendInv

LEMMA NextResends == Base /\ ResendInv /\ [Next]_vars => ResendInv'
<1>1. ResendInv /\ Alone => ResendInv'
  BY AloneKeeps DEF ResendInv, Same
<1> QED
  BY <1>1, NextKinds, HandlerResends, Zenon

LEMMA NextPasswords == Base /\ OldPasswordNeedsOverlap /\ [Next]_vars => OldPasswordNeedsOverlap'
<1>1. ASSUME Base, OldPasswordNeedsOverlap, Alone PROVE OldPasswordNeedsOverlap'
  BY <1>1, AloneAccounts DEF OldPasswordNeedsOverlap
<1>2. ASSUME Base, OldPasswordNeedsOverlap, NEW h \in Handler, HandlerStep(h)
      PROVE  OldPasswordNeedsOverlap'
  <2> SUFFICES ASSUME NEW s \in sessions', s.account = Admin, s.password # accounts'[Admin].password PROVE s.late
    BY DEF OldPasswordNeedsOverlap
  <2>1. CASE ChangePassword(h)
    <3> DEFINE new == accounts[Admin].password + 1
    <3>1. accounts' = [accounts EXCEPT ![Admin].password = new] /\ sessions' = SessionsAfterChange \cup {Session(Admin, now, new, FALSE)}
      BY <2>1 DEF ChangePassword
    <3> HIDE DEF new
    <3>2. accounts'[Admin].password = new
      BY <1>2, <3>1 DEF Base, Shape, AccountsOK
    <3>3. s = Session(Admin, now, new, FALSE)
      BY <3>1 DEF SessionsAfterChange
    <3>4. s.password = new
      BY <3>3 DEF Session
    <3> QED
      BY <3>2, <3>4
  <2>2. CASE ~ChangePassword(h) /\ s \in sessions
    BY <1>2, <2>2, PasswordStays DEF OldPasswordNeedsOverlap
  <2>3. CASE ~ChangePassword(h) /\ s \notin sessions
    <3>1. CASE PasswordSession(h)
      <4> DEFINE late == job[h].read # accounts[Admin].password
      <4>1. s = Session(Admin, job[h].at, job[h].read, late) /\ accounts' = accounts
        BY <2>3, <3>1 DEF PasswordSession
      <4> HIDE DEF late
      <4>2. s.password = job[h].read /\ s.late = late
        BY <4>1 DEF Session
      <4>3. late
        BY <4>1, <4>2 DEF late
      <4> QED
        BY <4>2, <4>3, Zenon
    <3>2. CASE CommitLogin(h)
      <4>1. s = Session(EmailOf(job[h].id), job[h].at, 0, FALSE) /\ pc[h] \in Spender
        BY <2>3, <3>2 DEF CommitLogin, Spender
      <4>2. EmailOf(job[h].id) \in Email
        BY <1>2, <4>1, TokensAre DEF Spender
      <4> QED
        BY <4>1, <4>2 DEF Session
    <3>3. Reads(h) => sessions' = sessions
      BY ReadsKeep DEF tables
    <3>4. InsertChallenge(h) \/ CountWrong(h) \/ IssueToken(h) \/ CommitSetup(h) => sessions' = sessions
      BY Zenon DEF InsertChallenge, CountWrong, IssueToken, CommitSetup
    <3> QED
      BY <1>2, <2>3, <3>1, <3>2, <3>3, <3>4, StepKinds
  <2> QED
    BY <2>1, <2>2, <2>3
<1> QED
  BY <1>1, <1>2, NextKinds, Zenon

-----------------------------------------------------------------------------
Inv ==
  Base /\ CodeInv /\ TokenInv /\ SetupInv /\ AccountInv /\ ResendInv /\ OldPasswordNeedsOverlap

LEMMA InitInv == Init => Inv
<1> SUFFICES ASSUME Init PROVE Inv
  OBVIOUS
<1>1. Base
  BY InitBase
<1>2. /\ challenges = <<>> /\ tokens = <<>> /\ sessions = {} /\ pc = [h \in Handler |-> "idle"]
      /\ accounts = [a \in Subject |->
           [exists |-> a \in Registered \cup {Admin}, disabled |-> FALSE, password |-> 1]]
  BY DEF Init
<1>3. \A h \in Handler : pc[h] = "idle"
  BY <1>2
<1>4. 1..Len(challenges) = {} /\ 1..Len(tokens) = {}
  BY <1>2
<1>5. CodeInv /\ TokenInv /\ ResendInv
  BY <1>3, <1>4 DEF CodeInv, TokenInv, ResendInv, Guessing, Spender
<1>6. SetupInv
  BY <1>3, <1>4 DEF SetupInv, Spender
<1>7. accounts[Admin].exists
  BY <1>2
<1>8. AccountInv /\ OldPasswordNeedsOverlap
  BY <1>2, <1>3, <1>7 DEF AccountInv, OldPasswordNeedsOverlap
<1> QED
  BY <1>1, <1>5, <1>6, <1>8 DEF Inv

LEMMA NextInv == Inv /\ [Next]_vars => Inv'
BY NextBase, NextCodes, NextTokens, NextSetups, NextAccounts, NextResends, NextPasswords, Zenon DEF Inv

LEMMA Invariant == Spec => []Inv
BY InitInv, NextInv, PTL DEF Spec

LEMMA InvDomains ==
  ASSUME Base
  PROVE  /\ DOMAIN challenges = 1..Len(challenges) /\ DOMAIN tokens = 1..Len(tokens)
         /\ DOMAIN answers = DOMAIN challenges /\ DOMAIN grants = DOMAIN challenges
BY CodesAre DEF Base, Shape

(* Every state is of its type, for any number of requests.                  *)
THEOREM Typing == Spec => []TypeOK
<1>1. ASSUME Inv PROVE TypeOK
  <2>1. Base /\ CodeInv /\ AccountInv
    BY <1>1 DEF Inv
  <2>2. now \in 0..MaxTime /\ open \in BOOLEAN /\ requests \in 0..MaxRequests
    BY <2>1 DEF Base, Shape, CountersOK
  <2>3. \A c \in DOMAIN challenges : challenges[c].email \in Email /\ challenges[c].attempts \in 0..MaxAttempts
    <3>1. \A c \in 1..Len(challenges) : challenges[c].email \in Email /\ challenges[c].attempts \in Nat
      BY <2>1, CodesAre DEF Base, Shape, ChallengeType
    <3>2. \A c \in 1..Len(challenges) : challenges[c].attempts <= MaxAttempts
      BY <2>1 DEF CodeInv
    <3> QED
      BY <2>1, <3>1, <3>2, InvDomains
  <2>4. \A t \in DOMAIN tokens : tokens[t].challenge \in DOMAIN challenges
    BY <2>1, InvDomains DEF Base, TokensName
  <2>5. \A s \in sessions : s.account \in Subject /\ accounts[s.account].exists
    BY <2>1 DEF Base, Shape, SessionsOK, SessionType, AccountInv
  <2>6. DOMAIN pc = Handler /\ DOMAIN job = Handler
    BY <2>1 DEF Base, Shape, JobsOK
  <2>7. AccountsOK
    BY <2>1 DEF Base, Shape
  <2> QED
    BY <2>1, <2>2, <2>3, <2>4, <2>5, <2>6, <2>7, InvDomains DEF TypeOK, AccountsOK
<1> QED
  BY <1>1, Invariant, PTL

(* However many guesses run at once, a code answers MaxAttempts of them.    *)
THEOREM Bounded == Spec => []GuessesAreBounded
<1>1. ASSUME Inv PROVE GuessesAreBounded
  <2>1. Base /\ CodeInv
    BY <1>1 DEF Inv
  <2>2. ASSUME NEW c \in 1..Len(challenges) PROVE answers[c] <= MaxAttempts
    <3>1. /\ challenges[c].attempts \in Nat /\ challenges[c].attempts <= MaxAttempts
          /\ \/ challenges[c].attempts < MaxAttempts /\ answers[c] = challenges[c].attempts + 1
             \/ answers[c] = challenges[c].attempts
      BY <2>1, CodesAre DEF CodeInv, Base, Shape, ChallengeType
    <3> QED
      BY <3>1
  <2> QED
    BY <2>1, <2>2, InvDomains DEF GuessesAreBounded
<1> QED
  BY <1>1, Invariant, PTL

(* A code gives one session or one account, and is then marked as spent.    *)
THEOREM OneGrant == Spec => []OneGrantPerCode
<1>1. ASSUME Inv PROVE OneGrantPerCode
  <2>1. Base /\ TokenInv
    BY <1>1 DEF Inv
  <2>2. \A c \in 1..Len(challenges) : grants[c] = IF challenges[c].consumed THEN 1 ELSE 0
    BY <2>1 DEF TokenInv
  <2>3. \A t \in 1..Len(tokens) : tokens[t].consumed <=> challenges[tokens[t].challenge].consumed
    BY <2>1 DEF TokenInv
  <2> QED
    BY <2>1, <2>2, <2>3, InvDomains DEF OneGrantPerCode
<1> QED
  BY <1>1, Invariant, PTL

(* Two codes for one address do not both create its account.                *)
THEOREM OneSetup == Spec => []OneSetupPerEmail
<1>1. ASSUME Inv PROVE OneSetupPerEmail
  <2>1. Base /\ SetupInv
    BY <1>1 DEF Inv
  <2>2. \A c, d \in 1..Len(challenges) :
          Spent(c) /\ Spent(d) /\ challenges[c].email = challenges[d].email => c = d
    BY <2>1 DEF SetupInv
  <2>3. DOMAIN challenges = 1..Len(challenges)
    BY <2>1, InvDomains
  <2> QED
    BY <2>2, <2>3, Zenon DEF OneSetupPerEmail, Spent
<1> QED
  BY <1>1, Invariant, PTL

(* Codes sent within the resend time need two starts that overlap.          *)
THEOREM ResendOverlap == Spec => []ResendNeedsOverlap
<1>1. ASSUME Inv PROVE ResendNeedsOverlap
  <2>1. Base /\ ResendInv
    BY <1>1 DEF Inv
  <2>2. \A c, d \in 1..Len(challenges) :
          c < d /\ Same(c, d) /\ ~challenges[c].consumed /\ challenges[d].at < challenges[c].resend
          => challenges[d].seen < c
    BY <2>1 DEF ResendInv
  <2>3. DOMAIN challenges = 1..Len(challenges)
    BY <2>1, InvDomains
  <2> QED
    BY <2>2, <2>3, Zenon DEF ResendNeedsOverlap, Same
<1> QED
  BY <1>1, Invariant, PTL

(* A session of an old password needs a login that overlapped the change.   *)
THEOREM OldPasswordOverlap == Spec => []OldPasswordNeedsOverlap
<1>1. Inv => OldPasswordNeedsOverlap
  BY DEF Inv
<1> QED
  BY <1>1, Invariant, PTL

(* A disabled account gets no session: the login that looked keeps the row. *)
THEOREM NoneWhenDisabled == Spec => NoSessionWhenDisabled
<1>1. Inv /\ [Next]_vars
        => [\A s \in sessions' \ sessions : s.account \in Email => ~accounts[s.account].disabled]_vars
  <2> SUFFICES ASSUME Inv, [Next]_vars, NEW s \in sessions' \ sessions, s.account \in Email
               PROVE  ~accounts[s.account].disabled
    OBVIOUS
  <2>1. Base /\ AccountInv
    BY DEF Inv
  <2>2. PICK h \in Handler : HandlerStep(h)
    BY <2>1, NextKinds, AloneAccounts
  <2>3. CommitLogin(h) /\ s.account = EmailOf(job[h].id)
    BY <2>1, <2>2, NewSessions
  <2>4. pc[h] = "account" /\ pc[h] \in Spender
    BY <2>3 DEF CommitLogin, Spender
  <2> QED
    BY <2>1, <2>3, <2>4, EmailsAre DEF AccountInv
<1> QED
  BY <1>1, Invariant, PTL DEF Spec, NoSessionWhenDisabled
=============================================================================
