------------------------------ MODULE WebProofs ------------------------------
(***************************************************************************)
(* What the web application answers, proved for any number of browsers,    *)
(* requests under way and processes: users, wallets and sessions           *)
(* (Accounts), the balances it answers with (B), the list of trades (T),   *)
(* the rate limits (L), and who runs the jobs (S).                         *)
(***************************************************************************)
EXTENDS Application, Sequences, FiniteSetTheorems, NaturalsInduction, WellFoundedInduction, TLAPS

\* Application is its parts, as none of them changes the variables of another.
LEMMA EachPart == AppSpec => Spec /\ B!Spec /\ T!Spec /\ L!Spec /\ S!Spec
<1>1. AppInit => Init /\ B!Init /\ T!Init /\ L!Init /\ S!Init
  BY DEF AppInit
<1>2. [AppNext]_all => [Next]_vars
  BY DEF AppNext, all, AccountStep, WalletStep, ListStep, LimitStep, JobStep
<1>3. [AppNext]_all => [B!Next]_(B!vars)
  BY DEF AppNext, all, AccountStep, WalletStep, ListStep, LimitStep, JobStep, B!vars, cash
<1>4. [AppNext]_all => [T!Next]_(T!vars)
  BY DEF AppNext, all, AccountStep, WalletStep, ListStep, LimitStep, JobStep, T!vars, list
<1>5. [AppNext]_all => [L!Next]_(L!vars)
  BY DEF AppNext, all, AccountStep, WalletStep, ListStep, LimitStep, JobStep, L!vars, limits
<1>6. [AppNext]_all => [S!Next]_(S!vars)
  BY DEF AppNext, all, AccountStep, WalletStep, ListStep, LimitStep, JobStep, S!vars, jobs
<1> QED BY <1>1, <1>2, <1>3, <1>4, <1>5, <1>6, PTL DEF AppSpec, Spec, B!Spec, T!Spec, L!Spec, S!Spec

-----------------------------------------------------------------------------
(* Users, wallets and sessions *)

Sent == [kind : Kinds, data : User, cookie : Session \cup {None}, status : {0, 200, 201, 401, 409},
         set : Session \cup {None, Keep}, balance : Nat]

Types ==
  /\ users \in [Ids -> User \cup {None}] /\ wallets \in [Ids -> Nat \cup {None}]
  /\ next_id \in Nat \ {0} /\ cookie \in [Browsers -> Session \cup {None}]
  /\ request \in [Slots -> Sent \cup {Nothing}]

\* The sequence of users.user_id is ahead of the table.
UnusedIds == \A i \in Ids : i >= next_id => users[i] = None

Inv == Types /\ UnusedIds /\ OneOfEach /\ WelcomedCanLogin

\* The tables as they are after a step, which has left the browsers to themselves.
Tables == <<users, wallets, next_id, welcomed>>

LEMMA Constants ==
  /\ None # Keep /\ None \notin Nat /\ None \notin User /\ None \notin Session /\ Keep \notin Session
  /\ Opening \in Nat /\ Amount \in Nat \ {0} /\ InFlight \in Nat \ {0}
BY AccountAssumption, NoneAssumption DEF AccountAssumption, NoneAssumption

LEMMA NothingIsNotSent == \A r \in Sent : r # Nothing /\ r.kind # "none"
BY DEF Sent, Nothing, Kinds

LEMMA AnyUserType == AnyUser \in User
<1>1. Letters # {} /\ Passwords # {}
  BY AccountAssumption DEF AccountAssumption
<1>3. PICK l \in Letters, p \in Passwords : TRUE
  BY ONLY <1>1
<1>2. [username |-> <<l, "lower">>, email |-> <<l, "lower">>, password |-> p] \in User
  BY DEF User, Names
<1> QED BY <1>2 DEF AnyUser

LEMMA InitInv == Init => Inv
<1> SUFFICES ASSUME Init PROVE Inv
  OBVIOUS
<1>1. Types
  BY DEF Init, Types
<1>2. UnusedIds /\ OneOfEach /\ WelcomedCanLogin
  BY DEF Init, UnusedIds, OneOfEach, WelcomedCanLogin, Known
<1> QED BY <1>1, <1>2 DEF Inv

LEMMA SameTables ==
  ASSUME Inv, UNCHANGED Tables, cookie' \in [Browsers -> Session \cup {None}],
         request' \in [Slots -> Sent \cup {Nothing}]
  PROVE  Inv'
BY DEF Inv, Types, UnusedIds, OneOfEach, WelcomedCanLogin, Known, Tables

-----------------------------------------------------------------------------
(* What a step does to the requests *)

LEMMA SendType ==
  ASSUME Inv, NEW b \in Browsers, NEW k \in 1 .. InFlight, NEW kind \in Kinds, NEW data \in User,
         Send(b, k, kind, data)
  PROVE  request' \in [Slots -> Sent \cup {Nothing}]
<1> DEFINE new == [kind |-> kind, data |-> data, cookie |-> cookie[b],
                   status |-> 0, set |-> Keep, balance |-> 0]
<1>1. cookie[b] \in Session \cup {None}
  BY DEF Inv, Types
<1>2. new \in Sent
  BY <1>1 DEF Sent
<1>3. request' = [request EXCEPT ![<<b, k>>] = new]
  BY DEF Send
<1> HIDE DEF new
<1> QED BY <1>2, <1>3 DEF Inv, Types

LEMMA ReceiveType ==
  ASSUME Inv, NEW b \in Browsers, NEW k \in 1 .. InFlight, Receive(b, k)
  PROVE  /\ request' \in [Slots -> Sent \cup {Nothing}]
         /\ cookie' \in [Browsers -> Session \cup {None}]
<1>1. <<b, k>> \in Slots /\ request[<<b, k>>] \in Sent
  BY DEF Inv, Types, Receive, Slots
<1>2. request[<<b, k>>].set \in Session \cup {None, Keep}
  BY <1>1 DEF Sent
<1>3. request' = [request EXCEPT ![<<b, k>>] = Nothing]
  BY DEF Receive
<1>4. cookie' = IF request[<<b, k>>].set = Keep THEN cookie
                ELSE [cookie EXCEPT ![b] = request[<<b, k>>].set]
  BY DEF Receive
<1> QED BY <1>2, <1>3, <1>4 DEF Inv, Types

LEMMA AnswerType ==
  ASSUME Inv, NEW r \in Slots, request[r] # Nothing, NEW status \in {200, 201, 401, 409},
         NEW set \in Session \cup {None, Keep}, NEW money \in Nat, Answer(r, status, set, money)
  PROVE  /\ request' \in [Slots -> Sent \cup {Nothing}]
         /\ \A s \in Slots \ {r} : request'[s] = request[s]
         /\ request[r] \in Sent /\ request'[r] \in Sent
         /\ request'[r].kind = request[r].kind /\ request'[r].cookie = request[r].cookie
         /\ request'[r].data = request[r].data
         /\ request'[r].status = status /\ request'[r].set = set /\ request'[r].balance = money
<1> DEFINE a == [request[r] EXCEPT !.status = status]
           b == [a EXCEPT !.set = set]
           c == [b EXCEPT !.balance = money]
<1>1. request[r] \in Sent /\ request \in [Slots -> Sent \cup {Nothing}]
  BY DEF Inv, Types
<1>2. /\ a \in Sent /\ a.kind = request[r].kind /\ a.cookie = request[r].cookie
      /\ a.data = request[r].data /\ a.status = status
  BY <1>1 DEF Sent
<1>3. request' = [request EXCEPT ![r] = c]
  BY <1>1 DEF Answer
<1> HIDE DEF a
<1>4. /\ b \in Sent /\ b.kind = a.kind /\ b.cookie = a.cookie
      /\ b.data = a.data /\ b.status = status /\ b.set = set
  BY <1>2 DEF Sent
<1> HIDE DEF b
<1>5. /\ c \in Sent /\ c.kind = b.kind /\ c.cookie = b.cookie
      /\ c.data = b.data /\ c.status = status /\ c.set = set /\ c.balance = money
  BY <1>4 DEF Sent
<1> HIDE DEF c
<1> QED BY <1>1, <1>2, <1>3, <1>4, <1>5

LEMMA SentFields ==
  ASSUME Inv, NEW r \in Slots, request[r] # Nothing
  PROVE  /\ request[r] \in Sent /\ request[r].data \in User
         /\ request[r].cookie \in Session \cup {None}
         /\ Refresh(request[r].cookie) \in Session \cup {None, Keep}
         /\ Refresh(request[r].cookie) \in {Keep, request[r].cookie}
         /\ request[r].cookie # None =>
              request[r].cookie \in Session /\ request[r].cookie.user_id \in Ids
<1>1. request[r] \in Sent
  BY DEF Inv, Types
<1>2. request[r].data \in User /\ request[r].cookie \in Session \cup {None}
  BY <1>1 DEF Sent
<1> QED BY <1>1, <1>2 DEF Refresh, Session

LEMMA MoneyType ==
  ASSUME NEW v \in Nat \cup {None}
  PROVE  Money(v) \in Nat /\ (v # None => Money(v) = v)
BY DEF Money

-----------------------------------------------------------------------------
(* The handlers *)

\* What every answer has in common.
Answered(r) ==
  /\ request' \in [Slots -> Sent \cup {Nothing}]
  /\ \A s \in Slots \ {r} : request'[s] = request[s]
  /\ request'[r] \in Sent /\ request'[r].kind = request[r].kind
  /\ request'[r].cookie = request[r].cookie

LEMMA RefuseStep ==
  ASSUME Inv, NEW r \in Slots, request[r] # Nothing, Refuse(r)
  PROVE  /\ Answered(r) /\ UNCHANGED Tables
         /\ request'[r].set \in {Keep, request[r].cookie} /\ request'[r].status = 401
<1>1. Answer(r, 401, Refresh(request[r].cookie), 0) /\ UNCHANGED Tables
  BY DEF Refuse, Tables
<1>2. 401 \in {200, 201, 401, 409} /\ 0 \in Nat
  OBVIOUS
<1> QED BY <1>1, <1>2, SentFields, AnswerType DEF Answered

LEMMA RegisterStep ==
  ASSUME Inv, NEW r \in Slots, request[r] # Nothing, Register(r)
  PROVE  /\ Answered(r) /\ next_id \in Ids /\ next_id' = next_id + 1
         /\ request'[r].set \in {Keep, request[r].cookie} /\ request'[r].status \in {201, 409}
         /\ \/ UNCHANGED <<users, wallets, welcomed>>
            \/ /\ ~Taken(request[r].data)
               /\ users' = [users EXCEPT ![next_id] = request[r].data]
               /\ wallets' = [wallets EXCEPT ![next_id] = Opening]
               /\ welcomed' = welcomed \cup {request[r].data}
<1>1. 201 \in {200, 201, 401, 409} /\ 409 \in {200, 201, 401, 409} /\ 0 \in Nat
  OBVIOUS
<1>2. CASE Taken(request[r].data)
  <2>1. Answer(r, 409, Refresh(request[r].cookie), 0)
    BY <1>2 DEF Register
  <2>2. next_id \in Ids /\ next_id' = next_id + 1 /\ UNCHANGED <<users, wallets, welcomed>>
    BY <1>2 DEF Register
  <2> QED BY <1>1, <2>1, <2>2, SentFields, AnswerType DEF Answered
<1>3. CASE ~Taken(request[r].data)
  <2>1. Answer(r, 201, Refresh(request[r].cookie), 0)
    BY <1>3 DEF Register
  <2>2. /\ next_id \in Ids /\ next_id' = next_id + 1
        /\ users' = [users EXCEPT ![next_id] = request[r].data]
        /\ wallets' = [wallets EXCEPT ![next_id] = Opening]
        /\ welcomed' = welcomed \cup {request[r].data}
    BY <1>3 DEF Register, NewWallet
  <2> QED BY <1>1, <1>3, <2>1, <2>2, SentFields, AnswerType DEF Answered
<1> QED BY <1>2, <1>3

LEMMA LoginStep ==
  ASSUME Inv, NEW r \in Slots, request[r] # Nothing, Login(r)
  PROVE  /\ Answered(r) /\ UNCHANGED Tables /\ request'[r].status = 200
         /\ \E i \in Known : request'[r].set = [user_id |-> i, username |-> users[i].username]
<1>1. PICK i \in Known :
        Answer(r, 200, [user_id |-> i, username |-> users[i].username], 0)
  BY DEF Login
<1>2. i \in Ids /\ users[i] \in User
  BY DEF Known, Inv, Types
<1>3. [user_id |-> i, username |-> users[i].username] \in Session
  BY <1>2 DEF User, Session
<1>4. 200 \in {200, 201, 401, 409} /\ 0 \in Nat /\ UNCHANGED Tables
  BY DEF Login, Tables
<1> DEFINE c == [user_id |-> i, username |-> users[i].username]
<1>5. c \in Session \cup {None, Keep} /\ Answer(r, 200, c, 0)
  BY <1>1, <1>3
<1> HIDE DEF c
<1>6. Answered(r) /\ request'[r].set = c /\ request'[r].status = 200
  BY <1>4, <1>5, AnswerType DEF Answered
<1> QED BY <1>4, <1>6 DEF c

LEMMA LogoutStep ==
  ASSUME Inv, NEW r \in Slots, request[r] # Nothing, Logout(r)
  PROVE  /\ Answered(r) /\ UNCHANGED Tables
         /\ request'[r].set = None /\ request'[r].status = 200
<1>1. Answer(r, 200, None, 0) /\ UNCHANGED Tables
  BY DEF Logout, Tables
<1>2. 200 \in {200, 201, 401, 409} /\ 0 \in Nat
  OBVIOUS
<1> QED BY <1>1, <1>2, AnswerType DEF Answered

LEMMA GetWalletStep ==
  ASSUME Inv, NEW r \in Slots, request[r] # Nothing, GetWallet(r)
  PROVE  /\ Answered(r) /\ UNCHANGED Tables /\ request'[r].set = request[r].cookie
         /\ request[r].cookie # None
<1> DEFINE v == Money(wallets[request[r].cookie.user_id])
<1>1. request[r].cookie # None /\ Answer(r, 200, request[r].cookie, v) /\ UNCHANGED Tables
  BY DEF GetWallet, Tables
<1>2. request[r].cookie.user_id \in Ids
  BY <1>1, SentFields
<1>3. v \in Nat
  BY <1>2, MoneyType DEF Inv, Types
<1>4. 200 \in {200, 201, 401, 409} /\ request[r].cookie \in Session \cup {None, Keep}
  BY SentFields
<1> HIDE DEF v
<1> QED BY <1>1, <1>3, <1>4, AnswerType DEF Answered

LEMMA DepositStep ==
  ASSUME Inv, NEW r \in Slots, request[r] # Nothing, Deposit(r)
  PROVE  /\ Answered(r) /\ UNCHANGED <<users, next_id, welcomed>>
         /\ request[r].cookie # None /\ request[r].cookie.user_id \in Ids
         /\ request'[r].set = request[r].cookie /\ request'[r].status = 200
         /\ wallets' \in [Ids -> Nat \cup {None}]
         /\ \A i \in Ids : wallets'[i] = None <=> wallets[i] = None
         /\ wallets[request[r].cookie.user_id] # None => request'[r].balance >= Amount
<1> DEFINE i == request[r].cookie.user_id
<1>1. /\ request[r].cookie # None
      /\ wallets' = IF wallets[i] = None THEN wallets ELSE [wallets EXCEPT ![i] = @ + Amount]
      /\ Answer(r, 200, request[r].cookie, Money(wallets'[i]))
      /\ UNCHANGED <<users, next_id, welcomed>>
  BY DEF Deposit
<1>2. i \in Ids /\ request[r].cookie \in Session \cup {None, Keep}
  BY <1>1, SentFields
<1> HIDE DEF i
<1>3. wallets \in [Ids -> Nat \cup {None}]
  BY DEF Inv, Types
<1>4. wallets[i] # None => wallets[i] + Amount \in Nat /\ wallets[i] + Amount # None
                           /\ wallets[i] + Amount >= Amount
  BY <1>2, <1>3, Constants
<1>5. /\ wallets' \in [Ids -> Nat \cup {None}]
      /\ \A j \in Ids : wallets'[j] = None <=> wallets[j] = None
      /\ wallets[i] # None => wallets'[i] = wallets[i] + Amount
  BY <1>1, <1>2, <1>3, <1>4
<1>6. Money(wallets'[i]) \in Nat /\ (wallets[i] # None => Money(wallets'[i]) >= Amount)
  BY <1>2, <1>4, <1>5, MoneyType
<1> DEFINE v == Money(wallets'[i])
<1>7. v \in Nat /\ (wallets[i] # None => v >= Amount) /\ Answer(r, 200, request[r].cookie, v)
  BY <1>1, <1>6
<1> HIDE DEF v
<1>8. 200 \in {200, 201, 401, 409}
  OBVIOUS
<1>9. Answered(r) /\ request'[r].set = request[r].cookie /\ request'[r].status = 200 /\ request'[r].balance = v
  BY <1>2, <1>7, <1>8, AnswerType DEF Answered
<1> QED BY <1>1, <1>2, <1>5, <1>7, <1>9 DEF i

LEMMA HandleInv == ASSUME Inv, NEW r \in Slots, Handle(r) PROVE Inv'
<1>1. request[r] # Nothing /\ UNCHANGED cookie
  BY DEF Handle
<1>2. cookie' \in [Browsers -> Session \cup {None}]
  BY <1>1 DEF Inv, Types
<1>3. ASSUME Answered(r), UNCHANGED Tables PROVE Inv'
  BY <1>2, <1>3, SameTables DEF Answered
<1>4. CASE Register(r)
  <2>1. Answered(r) /\ next_id \in Ids /\ next_id' = next_id + 1
    BY <1>1, <1>4, RegisterStep
  <2>2. CASE UNCHANGED <<users, wallets, welcomed>>
    BY <1>2, <2>1, <2>2 DEF Answered, Inv, Types, UnusedIds, OneOfEach, WelcomedCanLogin, Known
  <2>3. CASE /\ ~Taken(request[r].data)
             /\ users' = [users EXCEPT ![next_id] = request[r].data]
             /\ wallets' = [wallets EXCEPT ![next_id] = Opening]
             /\ welcomed' = welcomed \cup {request[r].data}
    <3> DEFINE u == request[r].data
    <3>1. u \in User /\ u # None /\ Opening # None
      BY <1>1, SentFields, Constants
    <3> HIDE DEF u
    <3>2. /\ \A i \in Ids : users'[i] = IF i = next_id THEN u ELSE users[i]
          /\ \A i \in Ids : wallets'[i] = IF i = next_id THEN Opening ELSE wallets[i]
      BY <2>3 DEF u, Inv, Types
    <3>3. users[next_id] = None /\ next_id \in Nat /\ \A i \in Ids : i \in Nat
      BY <2>1 DEF Inv, Types, UnusedIds, Ids
    <3>4. Types'
      BY <1>2, <2>1, <2>3, <3>1, Constants DEF u, Answered, Inv, Types
    <3>5. UnusedIds'
      BY <2>1, <3>2, <3>3 DEF Inv, UnusedIds, Types
    <3>6. \A i \in Known : users[i].username[1] # u.username[1] /\ users[i].email[1] # u.email[1]
      BY <2>3 DEF Taken, Same, u
    <3>7. OneOfEach'
      BY <3>1, <3>2, <3>3, <3>6, <2>1 DEF Inv, OneOfEach, Known
    <3>8. WelcomedCanLogin'
      <4>1. ASSUME NEW w \in welcomed' PROVE \E i \in Ids : users'[i] # None /\ users'[i] = w
        <5>1. CASE w = u
          BY <2>1, <3>1, <3>2, <5>1
        <5>2. CASE w \in welcomed
          <6>1. PICK i \in Known : users[i] = w
            BY <5>2 DEF Inv, WelcomedCanLogin
          <6> QED BY <6>1, <3>2, <3>3 DEF Known
        <5> QED BY <2>3, <5>1, <5>2 DEF u
      <4> QED BY <4>1 DEF WelcomedCanLogin, Known
    <3> QED BY <3>4, <3>5, <3>7, <3>8 DEF Inv
  <2> QED BY <1>1, <1>4, <2>2, <2>3, RegisterStep
<1>5. CASE Deposit(r)
  <2>1. /\ Answered(r) /\ UNCHANGED <<users, next_id, welcomed>>
        /\ wallets' \in [Ids -> Nat \cup {None}]
        /\ \A i \in Ids : wallets'[i] = None <=> wallets[i] = None
    BY <1>1, <1>5, DepositStep
  <2>2. Types'
    BY <1>2, <2>1 DEF Answered, Inv, Types
  <2>3. UnusedIds' /\ WelcomedCanLogin'
    BY <2>1 DEF Inv, UnusedIds, WelcomedCanLogin, Known
  <2>4. OneOfEach'
    BY <2>1 DEF Inv, OneOfEach, Known
  <2> QED BY <2>2, <2>3, <2>4 DEF Inv
<1> QED BY <1>1, <1>3, <1>4, <1>5, RefuseStep, LoginStep, LogoutStep, GetWalletStep DEF Handle

LEMMA StepInv == Inv /\ [Next]_vars => Inv'
<1> SUFFICES ASSUME Inv, [Next]_vars PROVE Inv'
  OBVIOUS
<1>1. request \in [Slots -> Sent \cup {Nothing}] /\ cookie \in [Browsers -> Session \cup {None}]
  BY DEF Inv, Types
<1>2. ASSUME NEW b \in Browsers, NEW k \in 1 .. InFlight, NEW kind \in Kinds, NEW data \in User,
             Send(b, k, kind, data)
      PROVE  Inv'
  <2>1. UNCHANGED Tables /\ UNCHANGED cookie
    BY <1>2 DEF Send, Tables
  <2> QED BY <1>1, <1>2, <2>1, SendType, SameTables
<1>3. ASSUME NEW b \in Browsers, NEW k \in 1 .. InFlight, Receive(b, k) PROVE Inv'
  <2>1. UNCHANGED Tables
    BY <1>3 DEF Receive, Tables
  <2> QED BY <1>3, <2>1, ReceiveType, SameTables
<1>4. ASSUME NEW b \in Browsers, NEW k \in 1 .. InFlight, Handle(<<b, k>>) PROVE Inv'
  BY <1>4, HandleInv DEF Slots
<1>5. ASSUME NEW b \in Browsers, Expire(b) PROVE Inv'
  <2>1. UNCHANGED Tables /\ UNCHANGED request /\ cookie' \in [Browsers -> Session \cup {None}]
    BY <1>1, <1>5 DEF Expire, Tables
  <2> QED BY <1>1, <2>1, SameTables
<1>6. CASE Reset
  <2>1. /\ users' = [i \in Ids |-> None] /\ wallets' = [i \in Ids |-> None] /\ next_id' = 1
        /\ welcomed' = {} /\ UNCHANGED <<cookie, request>>
    BY <1>6 DEF Reset
  <2>2. Types'
    BY <1>1, <2>1 DEF Types
  <2>3. UnusedIds' /\ OneOfEach' /\ WelcomedCanLogin'
    BY <2>1 DEF UnusedIds, OneOfEach, WelcomedCanLogin, Known
  <2> QED BY <2>2, <2>3 DEF Inv
<1>7. CASE UNCHANGED vars
  <2>1. UNCHANGED Tables /\ UNCHANGED request /\ UNCHANGED cookie
    BY <1>7 DEF vars, Tables
  <2> QED BY <1>1, <2>1, SameTables
<1>8. {"register", "login", "logout", "wallet", "deposit"} \subseteq Kinds
  BY DEF Kinds
<1> QED BY <1>2, <1>3, <1>4, <1>5, <1>6, <1>7, <1>8, AnyUserType DEF Next

-----------------------------------------------------------------------------
(* Sessions, until somebody resets the database *)

\* Session c stands for a user of us.
TrueIn(c, us) == c \in {None, Keep} \/ (us[c.user_id] # None /\ us[c.user_id].username = c.username)

Live ==
  /\ \A b \in Browsers : TrueIn(cookie[b], users)
  /\ \A r \in Slots : request[r] # Nothing => TrueIn(request[r].cookie, users) /\ TrueIn(request[r].set, users)

\* "Deposit successful" comes with a balance that has the deposit in it.
Paid ==
  \A r \in Slots : request[r].kind = "deposit" /\ request[r].status = 200 =>
    request[r].balance >= Amount

SInv == Inv /\ Live /\ Paid

LEMMA LiveIsTrue == Live => SessionTrue
BY DEF Live, SessionTrue, TrueIn

LEMMA SInit == Init => SInv
<1> SUFFICES ASSUME Init PROVE SInv
  OBVIOUS
<1>1. Live
  BY DEF Init, Live, TrueIn
<1>2. Paid
  BY DEF Init, Paid, Nothing
<1> QED BY <1>1, <1>2, InitInv DEF SInv

\* A user who is there stays as he is.
LEMMA UsersStay ==
  ASSUME SInv, NEW r \in Slots, Handle(r)
  PROVE  \A i \in Ids : users[i] # None => users'[i] = users[i]
<1>1. Inv /\ request[r] # Nothing
  BY DEF SInv, Handle
<1>2. CASE Register(r)
  <2>1. next_id \in Ids /\ users[next_id] = None
    BY <1>1, <1>2, RegisterStep DEF Inv, UnusedIds, Types
  <2> QED BY <1>1, <1>2, <2>1, RegisterStep DEF Inv, Types
<1>3. CASE Deposit(r)
  BY <1>3 DEF Deposit
<1> QED BY <1>1, <1>2, <1>3, RefuseStep, LoginStep, LogoutStep, GetWalletStep DEF Handle, Tables

LEMMA StillTrue ==
  ASSUME SInv, NEW c \in Session \cup {None, Keep}, TrueIn(c, users), NEW us,
         \A i \in Ids : users[i] # None => us[i] = users[i]
  PROVE  TrueIn(c, us)
<1>1. CASE c \in {None, Keep}
  BY <1>1 DEF TrueIn
<1>2. CASE c \in Session
  BY <1>2 DEF TrueIn, Session
<1> QED BY <1>1, <1>2

LEMMA HandleSInv == ASSUME SInv, NEW r \in Slots, Handle(r) PROVE SInv'
<1>1. Inv /\ Live /\ request[r] # Nothing /\ UNCHANGED <<cookie, resets>>
  BY DEF SInv, Handle
<1>2. Inv'
  BY <1>1, HandleInv
<1>3. \A i \in Ids : users[i] # None => users'[i] = users[i]
  BY UsersStay
<1>4. Answered(r)
  BY <1>1, RefuseStep, RegisterStep, LoginStep, LogoutStep, GetWalletStep, DepositStep DEF Handle
<1>5. request'[r].set \in {None, Keep, request[r].cookie}
      \/ \E i \in Known : users'[i] = users[i]
                          /\ request'[r].set = [user_id |-> i, username |-> users[i].username]
  <2>1. CASE Login(r)
    BY <1>1, <1>3, <2>1, LoginStep DEF Known
  <2> QED BY <1>1, <2>1, RefuseStep, RegisterStep, LogoutStep, GetWalletStep, DepositStep DEF Handle
<1>6. /\ \A b \in Browsers : TrueIn(cookie[b], users) /\ cookie[b] \in Session \cup {None, Keep}
      /\ \A s \in Slots : request[s] # Nothing =>
           /\ TrueIn(request[s].cookie, users) /\ TrueIn(request[s].set, users)
           /\ request[s].cookie \in Session \cup {None, Keep}
           /\ request[s].set \in Session \cup {None, Keep}
  BY <1>1 DEF Inv, Types, Live, Sent
<1>7. \A b \in Browsers : TrueIn(cookie'[b], users')
  BY <1>1, <1>3, <1>6, StillTrue
<1>8. ASSUME NEW s \in Slots \ {r}, request'[s] # Nothing
      PROVE  TrueIn(request'[s].cookie, users') /\ TrueIn(request'[s].set, users')
  <2>1. request'[s] = request[s]
    BY <1>4 DEF Answered
  <2> QED BY <1>3, <1>6, <1>8, <2>1, StillTrue
<1>9. TrueIn(request[r].cookie, users')
  BY <1>1, <1>3, <1>6, StillTrue
<1>10. TrueIn(request'[r].cookie, users') /\ TrueIn(request'[r].set, users')
  <2>1. request'[r].cookie = request[r].cookie
    BY <1>4 DEF Answered
  <2>2. TrueIn(None, users') /\ TrueIn(Keep, users')
    BY DEF TrueIn
  <2>3. \A i \in Known : users'[i] = users[i] => TrueIn([user_id |-> i, username |-> users[i].username], users')
    BY DEF TrueIn, Known
  <2> QED BY <1>5, <1>9, <2>1, <2>2, <2>3
<1>11. Live'
  BY <1>7, <1>8, <1>10 DEF Live
<1>12. request'[r].kind = "deposit" /\ request'[r].status = 200 => request'[r].balance >= Amount
  <2>1. SUFFICES ASSUME request[r].kind = "deposit", request'[r].status = 200
                 PROVE  request'[r].balance >= Amount
    BY <1>4 DEF Answered
  <2>2. Deposit(r)
    BY <1>1, <2>1, RefuseStep DEF Handle
  <2>3. request[r].cookie # None /\ request[r].cookie.user_id \in Ids
    BY <1>1, <2>2, DepositStep
  <2>4. request[r].cookie \in Session
    BY <1>1, <2>3, SentFields
  <2>5. users[request[r].cookie.user_id] # None
    BY <1>1, <1>6, <2>4, Constants DEF TrueIn
  <2>6. wallets[request[r].cookie.user_id] # None
    BY <1>1, <2>3, <2>5 DEF Inv, OneOfEach
  <2> QED BY <1>1, <2>2, <2>6, DepositStep
<1>13. Paid'
  BY <1>4, <1>12 DEF SInv, Paid, Answered
<1> QED BY <1>1, <1>2, <1>11, <1>13 DEF SInv

LEMMA SStep == ASSUME SInv, [Next]_vars, ~Reset PROVE SInv'
<1>1. Inv /\ Inv' /\ request \in [Slots -> Sent \cup {Nothing}]
      /\ cookie \in [Browsers -> Session \cup {None}]
  BY StepInv DEF SInv, Inv, Types
<1>2. ASSUME NEW b \in Browsers, NEW k \in 1 .. InFlight, NEW kind \in Kinds, NEW data \in User,
             Send(b, k, kind, data)
      PROVE  SInv'
  <2> DEFINE new == [kind |-> kind, data |-> data, cookie |-> cookie[b],
                     status |-> 0, set |-> Keep, balance |-> 0]
  <2>1. <<b, k>> \in Slots
    BY DEF Slots
  <2>2. new.cookie = cookie[b] /\ new.set = Keep /\ new.status = 0
    OBVIOUS
  <2>3. request' = [request EXCEPT ![<<b, k>>] = new] /\ UNCHANGED Tables /\ UNCHANGED <<cookie, resets>>
    BY <1>2 DEF Send, Tables
  <2> HIDE DEF new
  <2>4. \A s \in Slots : request'[s] = IF s = <<b, k>> THEN new ELSE request[s]
    BY <1>1, <2>1, <2>3
  <2>5. Live'
    BY <2>2, <2>3, <2>4 DEF SInv, Live, Tables, TrueIn
  <2>6. Paid'
    BY <2>2, <2>3, <2>4 DEF SInv, Paid
  <2> QED BY <1>1, <2>3, <2>5, <2>6 DEF SInv
<1>3. ASSUME NEW b \in Browsers, NEW k \in 1 .. InFlight, Receive(b, k) PROVE SInv'
  <2>1. <<b, k>> \in Slots
    BY DEF Slots
  <2>2. /\ request[<<b, k>>] # Nothing /\ request' = [request EXCEPT ![<<b, k>>] = Nothing]
        /\ cookie' = IF request[<<b, k>>].set = Keep THEN cookie
                     ELSE [cookie EXCEPT ![b] = request[<<b, k>>].set]
        /\ UNCHANGED Tables /\ UNCHANGED resets
    BY <1>3 DEF Receive, Tables
  <2>3. \A s \in Slots : request'[s] = IF s = <<b, k>> THEN Nothing ELSE request[s]
    BY <1>1, <2>1, <2>2
  <2>4. \A u \in Browsers : cookie'[u] \in {cookie[u], request[<<b, k>>].set}
    BY <1>1, <2>2
  <2>5. TrueIn(request[<<b, k>>].set, users)
    BY <2>1, <2>2 DEF SInv, Live
  <2>6. Live'
    BY <2>2, <2>3, <2>4, <2>5 DEF SInv, Live, Tables
  <2>7. Paid'
    BY <2>3 DEF SInv, Paid, Nothing
  <2> QED BY <1>1, <2>2, <2>6, <2>7 DEF SInv
<1>4. ASSUME NEW b \in Browsers, NEW k \in 1 .. InFlight, Handle(<<b, k>>) PROVE SInv'
  BY <1>4, HandleSInv DEF Slots
<1>5. ASSUME NEW b \in Browsers, Expire(b) PROVE SInv'
  <2>1. UNCHANGED <<users, wallets, request, resets>> /\ cookie' = [cookie EXCEPT ![b] = None]
    BY <1>5 DEF Expire
  <2>2. Live'
    BY <1>1, <2>1 DEF SInv, Live, TrueIn
  <2> QED BY <1>1, <2>1, <2>2 DEF SInv, Paid
<1>7. CASE UNCHANGED vars
  BY <1>1, <1>7 DEF vars, SInv, Live, Paid
<1>8. {"register", "login", "logout", "wallet", "deposit"} \subseteq Kinds
  BY DEF Kinds
<1> QED BY <1>2, <1>3, <1>4, <1>5, <1>7, <1>8, AnyUserType DEF Next

\* Until the first reset.
Since == resets \in Nat /\ Inv /\ (resets = 0 => SInv)

LEMMA SinceStep == Since /\ [Next]_vars => Since'
<1> SUFFICES ASSUME Since, [Next]_vars PROVE Since'
  OBVIOUS
<1>1. Inv'
  BY StepInv DEF Since
<1>2. CASE Reset
  <2>1. resets' = resets + 1
    BY <1>2 DEF Reset
  <2> QED BY <1>1, <2>1 DEF Since
<1>3. CASE ~Reset
  <2>1. resets' = resets
    <3>1. ASSUME NEW b \in Browsers, NEW k \in 1 .. InFlight, NEW kind, NEW data,
                 Send(b, k, kind, data)
          PROVE  resets' = resets
      BY <3>1 DEF Send
    <3>2. ASSUME NEW b \in Browsers, NEW k \in 1 .. InFlight, Handle(<<b, k>>) \/ Receive(b, k)
          PROVE  resets' = resets
      BY <3>2 DEF Handle, Receive
    <3>3. ASSUME NEW b \in Browsers, Expire(b) PROVE resets' = resets
      BY <3>3 DEF Expire
    <3>4. CASE UNCHANGED vars
      BY <3>4 DEF vars
    <3> QED BY <1>3, <3>1, <3>2, <3>3, <3>4 DEF Next
  <2> QED BY <1>1, <1>3, <2>1, SStep DEF Since
<1> QED BY <1>2, <1>3

LEMMA SinceAlways == Spec => []Since
<1>1. Init => Since
  <2>1. Init => resets = 0
    BY DEF Init
  <2> QED BY <2>1, InitInv, SInit DEF Since
<1> QED BY <1>1, SinceStep, PTL DEF Spec

-----------------------------------------------------------------------------
(* Logging out *)

\* What a browser that has left may still have on the way.
Harmless(q) == q # Nothing => q.kind # "login" /\ q.cookie = None

\* An answer that says goodbye takes the cookie with it, and none but that of a login
\* brings a session to a request that had none.
Polite(q) ==
  q # Nothing =>
    /\ q.kind = "logout" /\ q.status = 200 => q.set = None
    /\ q.kind # "login" /\ q.cookie = None => q.set \in {Keep, None}

Left(b) == cookie[b] = None /\ \A k \in 1 .. InFlight : Harmless(request[<<b, k>>])

LInv ==
  /\ Inv /\ left \in [Browsers -> {"in", "out", "late"}]
  /\ \A b \in Browsers : left[b] = "out" => Left(b)
  /\ \A r \in Slots : Polite(request[r])

LEMMA LHandle ==
  ASSUME LInv, NEW r \in Slots, Handle(r)
  PROVE  LInv'
<1>1. Inv /\ request[r] # Nothing /\ UNCHANGED <<cookie, left>>
  BY DEF LInv, Handle
<1>2. Inv'
  BY <1>1, HandleInv
<1>3. Answered(r)
  BY <1>1, RefuseStep, RegisterStep, LoginStep, LogoutStep, GetWalletStep, DepositStep DEF Handle
<1>4. request'[r] # Nothing /\ request'[r].kind = request[r].kind /\ request'[r].cookie = request[r].cookie
  BY <1>3, NothingIsNotSent DEF Answered
<1>5. request[r].kind = "logout" /\ request'[r].status = 200 => request'[r].set = None
  BY <1>1, RefuseStep, LogoutStep DEF Handle
<1>6. request[r].kind # "login" /\ request[r].cookie = None => request'[r].set \in {Keep, None}
  BY <1>1, RefuseStep, RegisterStep, LogoutStep, GetWalletStep, DepositStep DEF Handle
<1>7. Polite(request'[r])
  BY <1>4, <1>5, <1>6 DEF Polite
<1>8. \A s \in Slots \ {r} : request'[s] = request[s]
  BY <1>3 DEF Answered
<1>9. \A s \in Slots : Polite(request'[s])
  BY <1>7, <1>8 DEF LInv
<1>10. \A s \in Slots : Harmless(request[s]) => Harmless(request'[s])
  BY <1>1, <1>4, <1>8 DEF Harmless
<1>11. ASSUME NEW b \in Browsers, left'[b] = "out" PROVE Left(b)'
  <2>1. Left(b) /\ cookie'[b] = cookie[b]
    BY <1>1, <1>11 DEF LInv
  <2>2. \A k \in 1 .. InFlight : <<b, k>> \in Slots
    BY DEF Slots
  <2> QED BY <1>10, <2>1, <2>2 DEF Left
<1> QED BY <1>1, <1>2, <1>9, <1>11 DEF LInv

LEMMA LSend ==
  ASSUME LInv, Inv', NEW b \in Browsers, NEW k \in 1 .. InFlight, NEW kind \in Kinds, NEW data \in User,
         Send(b, k, kind, data)
  PROVE  LInv'
<1>1. request \in [Slots -> Sent \cup {Nothing}] /\ <<b, k>> \in Slots
  BY DEF LInv, Inv, Types, Slots
<1> DEFINE new == [kind |-> kind, data |-> data, cookie |-> cookie[b],
                   status |-> 0, set |-> Keep, balance |-> 0]
<1>2. new.kind = kind /\ new.cookie = cookie[b] /\ new.set = Keep /\ new.status = 0
  OBVIOUS
<1>3. /\ request' = [request EXCEPT ![<<b, k>>] = new] /\ UNCHANGED cookie
      /\ left' = IF kind = "login" THEN [left EXCEPT ![b] = "in"] ELSE left
  BY DEF Send
<1> HIDE DEF new
<1>4. \A s \in Slots : request'[s] = IF s = <<b, k>> THEN new ELSE request[s]
  BY <1>1, <1>3
<1>5. Polite(new)
  BY <1>2 DEF Polite
<1>6. left' \in [Browsers -> {"in", "out", "late"}] /\ \A s \in Slots : Polite(request'[s])
  BY <1>3, <1>4, <1>5 DEF LInv
<1>7. ASSUME NEW a \in Browsers, left'[a] = "out" PROVE Left(a)'
  <2>1. left[a] = "out" /\ (a = b => kind # "login")
    BY <1>3, <1>7 DEF LInv
  <2>2. Left(a)
    BY <2>1 DEF LInv
  <2>3. cookie'[a] = None
    BY <1>3, <2>2 DEF Left
  <2>4. ASSUME NEW j \in 1 .. InFlight PROVE Harmless(request'[<<a, j>>])
    <3>1. <<a, j>> \in Slots
      BY DEF Slots
    <3>2. CASE <<a, j>> = <<b, k>>
      <4>1. a = b
        BY <3>2
      <4>2. Harmless(new)
        BY <1>2, <1>3, <2>1, <2>3, <4>1 DEF Harmless
      <4> QED BY <1>4, <3>1, <3>2, <4>2
    <3>3. CASE <<a, j>> # <<b, k>>
      <4>1. request'[<<a, j>>] = request[<<a, j>>]
        BY <1>4, <3>1, <3>3
      <4> QED BY <2>2, <4>1 DEF Left
    <3> QED BY <3>2, <3>3
  <2> QED BY <2>3, <2>4 DEF Left
<1> QED BY <1>6, <1>7 DEF LInv

LEMMA LReceive ==
  ASSUME LInv, Inv', NEW b \in Browsers, NEW k \in 1 .. InFlight, Receive(b, k)
  PROVE  LInv'
<1>1. /\ request \in [Slots -> Sent \cup {Nothing}] /\ <<b, k>> \in Slots
      /\ cookie \in [Browsers -> Session \cup {None}]
  BY DEF LInv, Inv, Types, Slots
<1> DEFINE q == request[<<b, k>>]
           gone == q.kind = "logout" /\ q.status = 200 /\ ~LoggingIn(b)
<1>2. /\ q # Nothing /\ request' = [request EXCEPT ![<<b, k>>] = Nothing]
      /\ cookie' = IF q.set = Keep THEN cookie ELSE [cookie EXCEPT ![b] = q.set]
      /\ left' = IF gone THEN [left EXCEPT ![b] = IF Behind(b, <<b, k>>) THEN "late" ELSE "out"] ELSE left
  BY DEF Receive
<1>3. Polite(q)
  BY <1>1 DEF LInv
<1>4. gone => q.kind = "logout" /\ q.status = 200 /\ ~LoggingIn(b)
  OBVIOUS
<1>5. q = request[<<b, k>>]
  OBVIOUS
<1> HIDE DEF q, gone
<1>6. \A s \in Slots : request'[s] = IF s = <<b, k>> THEN Nothing ELSE request[s]
  BY <1>1, <1>2
<1>7. Harmless(Nothing) /\ Polite(Nothing)
  BY DEF Harmless, Polite
<1>8. left' \in [Browsers -> {"in", "out", "late"}] /\ \A s \in Slots : Polite(request'[s])
  <2>1. left' \in [Browsers -> {"in", "out", "late"}]
    BY <1>2 DEF LInv
  <2> QED BY <1>6, <1>7, <2>1 DEF LInv
<1>9. \A s \in Slots : Harmless(request[s]) => Harmless(request'[s])
  BY <1>6, <1>7
<1>10. ASSUME NEW a \in Browsers, a # b, left'[a] = "out" PROVE Left(a)'
  <2>1. left[a] = "out" /\ cookie'[a] = cookie[a]
    BY <1>1, <1>2, <1>10 DEF LInv
  <2>2. Left(a) /\ \A j \in 1 .. InFlight : <<a, j>> \in Slots
    BY <2>1 DEF LInv, Slots
  <2> QED BY <1>9, <2>1, <2>2 DEF Left
<1>11. ASSUME left'[b] = "out" PROVE Left(b)'
  <2>1. \A j \in 1 .. InFlight : <<b, j>> \in Slots
    BY DEF Slots
  <2>2. CASE gone
    <3>1. q.set = None /\ cookie'[b] = None
      BY <1>1, <1>2, <1>3, <1>4, <2>2, Constants DEF Polite
    <3>2. ~Behind(b, <<b, k>>) /\ ~LoggingIn(b)
      BY <1>2, <1>4, <1>11, <2>2 DEF LInv
    <3>3. ASSUME NEW j \in 1 .. InFlight PROVE Harmless(request'[<<b, j>>])
      <4>1. CASE <<b, j>> = <<b, k>>
        BY <1>1, <1>6, <1>7, <4>1
      <4>2. CASE <<b, j>> # <<b, k>>
        <5>1. Harmless(request[<<b, j>>])
          BY <3>2, <4>2 DEF Harmless, Behind, LoggingIn
        <5> QED BY <1>9, <2>1, <5>1
      <4> QED BY <4>1, <4>2
    <3> QED BY <3>1, <3>3 DEF Left
  <2>3. CASE ~gone
    <3>1. Left(b) /\ Harmless(q)
      BY <1>2, <1>5, <1>11, <2>3 DEF LInv, Left
    <3>2. q.set \in {Keep, None}
      BY <1>2, <1>3, <3>1 DEF Harmless, Polite
    <3>3. cookie'[b] = None
      BY <1>1, <1>2, <3>1, <3>2 DEF Left
    <3> QED BY <1>9, <2>1, <3>1, <3>3 DEF Left
  <2> QED BY <2>2, <2>3
<1> QED BY <1>8, <1>10, <1>11 DEF LInv

LEMMA LStep == LInv /\ [Next]_vars => LInv'
<1> SUFFICES ASSUME LInv, [Next]_vars PROVE LInv'
  OBVIOUS
<1>1. Inv /\ Inv' /\ cookie \in [Browsers -> Session \cup {None}]
  BY StepInv DEF LInv, Inv, Types
<1>2. {"register", "login", "logout", "wallet", "deposit"} \subseteq Kinds
  BY DEF Kinds
<1>3. ASSUME NEW b \in Browsers, NEW k \in 1 .. InFlight, NEW kind \in Kinds, NEW data \in User,
             Send(b, k, kind, data)
      PROVE  LInv'
  BY <1>1, <1>3, LSend
<1>4. ASSUME NEW b \in Browsers, NEW k \in 1 .. InFlight, Receive(b, k) PROVE LInv'
  BY <1>1, <1>4, LReceive
<1>5. ASSUME NEW b \in Browsers, Expire(b) PROVE LInv'
  <2>1. cookie' = [cookie EXCEPT ![b] = None] /\ UNCHANGED <<request, left>>
    BY <1>5 DEF Expire
  <2>2. \A a \in Browsers : Left(a) => Left(a)'
    BY <1>1, <2>1 DEF Left
  <2> QED BY <1>1, <2>1, <2>2 DEF LInv
<1>6. CASE Reset
  BY <1>1, <1>6 DEF Reset, LInv, Left
<1>7. CASE UNCHANGED vars
  BY <1>1, <1>7 DEF vars, LInv, Left
<1>8. ASSUME NEW r \in Slots, Handle(r) PROVE LInv'
  BY <1>8, LHandle
<1>9. \A b \in Browsers, k \in 1 .. InFlight : <<b, k>> \in Slots
  BY DEF Slots
<1> QED BY <1>2, <1>3, <1>4, <1>5, <1>6, <1>7, <1>8, <1>9, AnyUserType DEF Next

-----------------------------------------------------------------------------
(* Theorems *)

\* The UNIQUE constraints on CITEXT columns and trg_create_wallet: no two users share a
\* name or an address, and every user has a wallet, over resets too.
THEOREM UsersAreDistinct == Spec => []OneOfEach
<1>1. Inv => OneOfEach
  BY DEF Inv
<1> QED BY <1>1, InitInv, StepInv, PTL DEF Spec

\* register answers 201 only to those who are users with that password from then on.
THEOREM WelcomeIsTrue == Spec => []WelcomedCanLogin
<1>1. Inv => WelcomedCanLogin
  BY DEF Inv
<1> QED BY <1>1, InitInv, StepInv, PTL DEF Spec

\* Until schema.sql is run again, a session, in a browser or on the way, is that of a
\* user, with his name, whatever the order in which answers arrive.
THEOREM SessionsAreTrue == Spec => []SessionTrue
<1>1. Since => SessionTrue
  BY LiveIsTrue DEF Since, SInv, SessionTrue
<1> QED BY <1>1, SinceAlways, PTL

\* Until schema.sql is run again, deposit_wallet answers with a balance that has the
\* deposit in it: deposit_money never misses its row.
THEOREM DepositsCount == Spec => []DepositCounts
<1>1. Since => DepositCounts
  BY DEF Since, SInv, Paid, DepositCounts
<1> QED BY <1>1, SinceAlways, PTL

\* The cookie after a logout, for a browser with any number of requests on the way: told
\* that it is logged out with nothing sent before under a session still to come back, it
\* has no session until it logs in again, as no other answer brings one.
THEOREM LogoutIsFinal == Spec => []LogoutEnds
<1>1. Init => LInv
  <2> SUFFICES ASSUME Init PROVE LInv
    OBVIOUS
  <2>1. left = [b \in Browsers |-> "in"] /\ \A r \in Slots : request[r] = Nothing
    BY DEF Init
  <2> QED BY <2>1, InitInv DEF LInv, Polite
<1>2. LInv => LogoutEnds
  BY DEF LInv, Left, LogoutEnds
<1> QED BY <1>1, <1>2, LStep, PTL DEF Spec

-----------------------------------------------------------------------------
(* The rest of the types *)

\* What is no data of a user or a session: bounds and what browsers have been told.
Counts ==
  /\ next_id <= MaxSent + 1 /\ welcomed \subseteq User /\ left \in [Browsers -> {"in", "out", "late"}]
  /\ sent \in 0 .. MaxSent /\ resets \in 0 .. MaxResets
Waiting == \A r \in Slots : request[r] # Nothing /\ request[r].status = 0 => request[r].set = Keep

LEMMA NextCounts ==
  ASSUME Inv, Counts, [Next]_vars PROVE Counts'
<1>0. MaxSent \in Nat /\ MaxResets \in Nat /\ next_id \in Nat
  BY AccountAssumption DEF AccountAssumption, Inv, Types
<1>1. ASSUME NEW b \in Browsers, NEW k \in 1 .. InFlight, NEW kind, NEW data, Send(b, k, kind, data)
      PROVE  Counts'
  BY <1>0, <1>1 DEF Counts, Send
<1>2. ASSUME NEW b \in Browsers, NEW k \in 1 .. InFlight, Receive(b, k) PROVE Counts'
  BY <1>0, <1>2 DEF Counts, Receive
<1>3. ASSUME NEW r \in Slots, Handle(r) PROVE Counts'
  <2>0. UNCHANGED <<left, sent, resets>> /\ request[r] # Nothing
    BY <1>3 DEF Handle
  <2>1. CASE Register(r)
    <3>1. next_id' = next_id + 1 /\ next_id \in 1 .. MaxSent
      BY <2>1 DEF Register, Ids
    <3>2. welcomed' = welcomed \/ welcomed' = welcomed \cup {request[r].data}
      BY <2>1 DEF Register
    <3>3. request[r].data \in User
      BY <2>0, SentFields
    <3> QED BY <1>0, <2>0, <3>1, <3>2, <3>3 DEF Counts
  <2>2. CASE ~Register(r)
    <3>1. UNCHANGED <<next_id, welcomed>>
      BY <1>3, <2>2 DEF Handle, Refuse, Login, Logout, GetWallet, Deposit
    <3> QED BY <2>0, <3>1 DEF Counts
  <2> QED BY <2>1, <2>2
<1>4. ASSUME NEW b \in Browsers, Expire(b) PROVE Counts'
  BY <1>4 DEF Counts, Expire
<1>5. CASE Reset
  BY <1>0, <1>5 DEF Counts, Reset
<1>6. CASE UNCHANGED vars
  BY <1>6 DEF Counts, vars
<1> QED BY <1>1, <1>2, <1>3, <1>4, <1>5, <1>6 DEF Next, Slots

LEMMA NextWaiting ==
  ASSUME Inv, Waiting, [Next]_vars PROVE Waiting'
<1>0. request \in [Slots -> Sent \cup {Nothing}]
  BY DEF Inv, Types
<1>1. ASSUME NEW b \in Browsers, NEW k \in 1 .. InFlight, NEW kind, NEW data, Send(b, k, kind, data)
      PROVE  Waiting'
  <2>1. \A r \in Slots : request'[r] = request[r] \/ request'[r].set = Keep
    BY <1>0, <1>1 DEF Send
  <2> QED BY <2>1 DEF Waiting
<1>2. ASSUME NEW b \in Browsers, NEW k \in 1 .. InFlight, Receive(b, k) PROVE Waiting'
  <2>1. \A r \in Slots : request'[r] = request[r] \/ request'[r] = Nothing
    BY <1>0, <1>2 DEF Receive
  <2> QED BY <2>1 DEF Waiting
<1>3. ASSUME NEW r \in Slots, Handle(r) PROVE Waiting'
  <2>0. PICK status \in {200, 201, 401, 409} : \E set, money : Answer(r, status, set, money)
    <3>1. CASE Refuse(r)
      BY <3>1 DEF Refuse
    <3>2. CASE Register(r)
      BY <3>2 DEF Register
    <3>3. CASE Login(r)
      BY <3>3 DEF Login
    <3>4. CASE Logout(r)
      BY <3>4 DEF Logout
    <3>5. CASE GetWallet(r)
      BY <3>5 DEF GetWallet
    <3>6. CASE Deposit(r)
      BY <3>6 DEF Deposit
    <3> QED BY <1>3, <3>1, <3>2, <3>3, <3>4, <3>5, <3>6 DEF Handle
  <2>1. PICK set, money : Answer(r, status, set, money)
    BY <2>0
  <2>2. \A s \in Slots : request'[s] = request[s] \/ request'[s].status = status
    <3>1. request[r] \in Sent
      BY <1>0, <1>3 DEF Handle
    <3>2. PICK a : a = [request[r] EXCEPT !.status = status, !.set = set, !.balance = money]
      OBVIOUS
    <3>3. a.status = status
      BY <3>1, <3>2 DEF Sent
    <3>4. request' = [request EXCEPT ![r] = a]
      BY <2>1, <3>2 DEF Answer
    <3> QED BY <1>0, <3>3, <3>4
  <2>3. status # 0
    OBVIOUS
  <2> QED BY <2>2, <2>3 DEF Waiting
<1>4. ASSUME NEW b \in Browsers, Expire(b) PROVE Waiting'
  BY <1>4 DEF Waiting, Expire
<1>5. CASE Reset
  BY <1>5 DEF Waiting, Reset
<1>6. CASE UNCHANGED vars
  BY <1>6 DEF Waiting, vars
<1> QED BY <1>1, <1>2, <1>3, <1>4, <1>5, <1>6 DEF Next, Slots

LEMMA AccountTypes == Spec => []TypeOK
<1>1. Init => Inv /\ Counts /\ Waiting
  BY InitInv, AccountAssumption DEF Init, Counts, Waiting, AccountAssumption, Inv
<1>2. Inv /\ Counts /\ Waiting => TypeOK
  <2> SUFFICES ASSUME Inv, Counts, Waiting PROVE TypeOK
    OBVIOUS
  <2>1. ASSUME NEW r \in Slots, request[r].kind # "none"
        PROVE  /\ request[r].kind \in Kinds /\ request[r].status \in {0, 200, 201, 401, 409}
               /\ request[r].status = 0 => request[r].set = Keep
    <3>1. request[r] # Nothing /\ request[r] \in Sent
      BY <2>1 DEF Inv, Types, Nothing
    <3> QED BY <3>1 DEF Waiting, Sent
  <2> QED BY <2>1, AccountAssumption DEF Inv, Types, Counts, TypeOK, AccountAssumption
<1>3. Inv /\ Counts /\ [Next]_vars => Counts'
  BY NextCounts
<1>4. Inv /\ Waiting /\ [Next]_vars => Waiting'
  BY NextWaiting
<1>5. Spec => []Inv
  BY InitInv, StepInv, PTL DEF Spec
<1> QED BY <1>1, <1>2, <1>3, <1>4, <1>5, PTL DEF Spec

-----------------------------------------------------------------------------
(* Balances *)

Holds(k) == k.pc \in {"select", "commit"}

\* What is true of a request k on an account with balance b.
Kept(k, b) ==
  /\ Holds(k) => k.row = b + k.amount
  /\ k.pc \in {"update", "select"} => k.answer = None
  /\ k.pc = "commit" => k.answer = k.row
  /\ k.pc = "done" /\ k.answer # None => k.answer \in k.existed

\* The row is locked by the request that has updated it and not committed, and by no other.
Locks == \A u \in Users, c \in Calls : lock[u] = c <=> Holds(call[c]) /\ call[c].user = u

WalletInv ==
  /\ B!TypeOK /\ due = balance /\ Locks
  /\ \A c \in Calls : call[c].pc # "idle" => Kept(call[c], balance[call[c].user])

LEMMA IdleCall == B!WalletAssumption => B!Idle \in B!Call /\ B!Idle.pc = "idle"
BY DEF B!WalletAssumption, B!Idle, B!Call

LEMMA WalletInit == B!WalletAssumption /\ B!Init => WalletInv
<1> SUFFICES ASSUME B!WalletAssumption, B!Init PROVE WalletInv
  OBVIOUS
<1>1. B!TypeOK
  BY IdleCall DEF B!Init, B!TypeOK, B!WalletAssumption
<1>2. \A c \in Calls : call[c].pc = "idle" /\ \A u \in Users : lock[u] # c
  BY IdleCall DEF B!Init, B!WalletAssumption
<1> QED BY <1>1, <1>2 DEF WalletInv, Locks, Holds, B!Init

\* k is the request j, with more balances that existed.
Later(k, j) ==
  /\ k.pc = j.pc /\ k.user = j.user /\ k.amount = j.amount /\ k.row = j.row /\ k.answer = j.answer
  /\ j.existed \subseteq k.existed

\* The amount d is on the account of u, for everybody who has an answer.
Arrived(u, d, calls) ==
  /\ due' \in [Users -> Int] /\ due' = [due EXCEPT ![u] = @ + d]
  /\ call' \in [Calls -> B!Call]
  /\ \A c \in Calls :
       /\ Later(call'[c], calls[c])
       /\ calls[c].pc = "done" /\ calls[c].user = u => due'[u] \in call'[c].existed

LEMMA Arrival ==
  ASSUME NEW calls \in [Calls -> B!Call], NEW u \in Users, NEW d \in Int,
         due \in [Users -> Int], B!Arrives(u, d, calls)
  PROVE  Arrived(u, d, calls)
<1>1. due' \in [Users -> Int] /\ due' = [due EXCEPT ![u] = @ + d] /\ due'[u] \in Int
  BY DEF B!Arrives
<1>2. call' = [c \in Calls |-> IF calls[c].pc = "done" /\ calls[c].user = u
                               THEN [calls[c] EXCEPT !.existed = @ \cup {due'[u]}] ELSE calls[c]]
  BY DEF B!Arrives
<1>3. ASSUME NEW c \in Calls
      PROVE  /\ call'[c] \in B!Call /\ Later(call'[c], calls[c])
             /\ calls[c].pc = "done" /\ calls[c].user = u => due'[u] \in call'[c].existed
  <2>1. calls[c] \in B!Call
    OBVIOUS
  <2>2. CASE calls[c].pc = "done" /\ calls[c].user = u
    <3>1. call'[c] = [calls[c] EXCEPT !.existed = @ \cup {due'[u]}]
      BY <1>2, <2>2
    <3> QED BY <1>1, <2>1, <3>1 DEF B!Call, Later
  <2>3. CASE ~(calls[c].pc = "done" /\ calls[c].user = u)
    <3>1. call'[c] = calls[c]
      BY <1>2, <2>3
    <3> QED BY <2>1, <2>3, <3>1 DEF Later
  <2> QED BY <2>2, <2>3
<1> QED BY <1>1, <1>2, <1>3 DEF Arrived

LEMMA LaterKept ==
  ASSUME NEW k, NEW j, NEW b, Later(k, j), Kept(j, b) PROVE Kept(k, b)
BY DEF Later, Kept, Holds

LEMMA WalletTrade ==
  ASSUME B!WalletAssumption, WalletInv, NEW u \in Users, NEW d \in Changes, B!Trade(u, d)
  PROVE  WalletInv'
<1>1. /\ lock[u] = None /\ balance[u] + d >= 0 /\ lock' = lock
      /\ balance' = [balance EXCEPT ![u] = @ + d] /\ B!Arrives(u, d, call)
      /\ writes' = writes + 1 /\ writes < MaxWrites
  BY DEF B!Trade, B!Write
<1>2. /\ d \in Int /\ balance \in [Users -> Nat] /\ due = balance /\ due \in [Users -> Int]
      /\ call \in [Calls -> B!Call] /\ None \notin Calls /\ writes \in 0 .. MaxWrites
      /\ lock \in [Users -> Calls \cup {None}] /\ MaxWrites \in Nat
  BY DEF WalletInv, B!TypeOK, B!WalletAssumption
<1>3. /\ due' \in [Users -> Int] /\ due' = [due EXCEPT ![u] = @ + d]
      /\ call' \in [Calls -> B!Call] /\ \A c \in Calls : Later(call'[c], call[c])
  <2>1. Arrived(u, d, call)
    BY <1>1, <1>2, Arrival
  <2> QED BY <2>1 DEF Arrived
<1>4. balance' \in [Users -> Nat] /\ due' = balance' /\ writes' \in 0 .. MaxWrites
  BY <1>1, <1>2, <1>3
<1>5. B!TypeOK'
  <2>1. \A c \in Calls : call'[c].pc # "idle" => call'[c].user \in Users
    BY <1>3 DEF WalletInv, B!TypeOK, Later
  <2> QED BY <1>1, <1>2, <1>3, <1>4, <2>1 DEF B!TypeOK
<1>6. Locks'
  BY <1>1, <1>3 DEF WalletInv, Locks, Holds, Later
<1>7. ASSUME NEW c \in Calls, call'[c].pc # "idle"
      PROVE  Kept(call'[c], balance'[call'[c].user])
  <2>1. Later(call'[c], call[c]) /\ call[c].pc # "idle" /\ call'[c].user = call[c].user
    BY <1>3, <1>7 DEF Later
  <2>2. Kept(call[c], balance[call[c].user]) /\ call[c].user \in Users
    BY <2>1 DEF WalletInv, B!TypeOK
  <2>3. CASE call[c].user = u
    <3>1. ~Holds(call[c])
      BY <1>1, <1>2, <2>3 DEF WalletInv, Locks
    <3>2. Kept(call[c], balance'[call'[c].user])
      BY <2>2, <3>1 DEF Kept
    <3> QED BY <2>1, <3>2, LaterKept
  <2>4. CASE call[c].user # u
    <3>1. balance'[call'[c].user] = balance[call[c].user]
      BY <1>1, <1>2, <2>1, <2>2, <2>4
    <3> QED BY <2>1, <2>2, <3>1, LaterKept
  <2> QED BY <2>3, <2>4
<1> QED BY <1>4, <1>5, <1>6, <1>7 DEF WalletInv

\* A step of request c that leaves the balances alone, to k, which has the lock of its user
\* or has not.
LEMMA WalletMove ==
  ASSUME B!WalletAssumption, WalletInv, NEW c \in Calls, NEW k \in B!Call,
         call' = [call EXCEPT ![c] = k], UNCHANGED <<balance, due>>,
         k.pc # "idle" => k.user \in Users /\ Kept(k, balance[k.user]),
         lock' \in [Users -> Calls \cup {None}], writes' \in 0 .. MaxWrites,
         \A u \in Users : lock'[u] = c <=> Holds(k) /\ k.user = u,
         \A u \in Users, d \in Calls \ {c} : lock'[u] = d <=> lock[u] = d
  PROVE  WalletInv'
<1>1. call \in [Calls -> B!Call]
  BY DEF WalletInv, B!TypeOK
<1>2. call' \in [Calls -> B!Call] /\ call'[c] = k /\ \A d \in Calls \ {c} : call'[d] = call[d]
  BY <1>1
<1>3. B!TypeOK'
  BY <1>2 DEF WalletInv, B!TypeOK
<1>4. Locks'
  BY <1>2 DEF WalletInv, Locks
<1>5. \A d \in Calls : call'[d].pc # "idle" => Kept(call'[d], balance'[call'[d].user])
  BY <1>2 DEF WalletInv
<1> QED BY <1>3, <1>4, <1>5 DEF WalletInv

LEMMA WalletStart ==
  ASSUME B!WalletAssumption, WalletInv, NEW c \in Calls, NEW u \in Users, NEW a \in Amounts,
         B!Start(c, u, a)
  PROVE  WalletInv'
<1>1. PICK k : k = [B!Idle EXCEPT !.pc = "update", !.user = u, !.amount = a]
  OBVIOUS
<1>2. /\ call[c] = B!Idle /\ call' = [call EXCEPT ![c] = k]
      /\ UNCHANGED <<balance, lock, due>> /\ writes' = writes + 1 /\ writes < MaxWrites
  BY <1>1 DEF B!Start, B!Write
<1>3. k \in B!Call /\ k.pc = "update" /\ k.user = u /\ k.answer = None
  BY <1>1 DEF B!Idle, B!Call, B!WalletAssumption
<1>4. Kept(k, balance[u]) /\ ~Holds(k)
  BY <1>3 DEF Kept, Holds
<1>5. \A v \in Users : lock[v] # c
  BY <1>2, IdleCall DEF WalletInv, Locks, Holds
<1>6. lock' \in [Users -> Calls \cup {None}] /\ writes' \in 0 .. MaxWrites
  BY <1>2 DEF WalletInv, B!TypeOK, B!WalletAssumption
<1> QED BY <1>2, <1>3, <1>4, <1>5, <1>6, WalletMove

LEMMA WalletUpdate ==
  ASSUME B!WalletAssumption, WalletInv, NEW c \in Calls, B!Update(c) PROVE WalletInv'
<1>1. PICK u, b : u = call[c].user /\ b = balance[u] + call[c].amount
  OBVIOUS
<1>2. call[c].pc = "update" /\ lock[u] = None /\ UNCHANGED <<balance, due, writes>>
  BY <1>1 DEF B!Update
<1>3. /\ call[c] \in B!Call /\ u \in Users /\ call[c].answer = None /\ b \in Int
      /\ lock \in [Users -> Calls \cup {None}] /\ writes \in 0 .. MaxWrites
  BY <1>1, <1>2 DEF WalletInv, B!TypeOK, Kept, B!Call
<1>4. \A v \in Users : lock[v] # c
  BY <1>2 DEF WalletInv, Locks, Holds
<1>5. CASE b >= 0
  <2>1. PICK k : k = [call[c] EXCEPT !.pc = "select", !.row = b]
    OBVIOUS
  <2>2. k \in B!Call /\ k.pc = "select" /\ k.user = u /\ k.row = b /\ k.answer = None
        /\ k.amount = call[c].amount
    <3>1. b \in Nat
      BY <1>3, <1>5
    <3>2. PICK j : j = [call[c] EXCEPT !.pc = "select"]
      OBVIOUS
    <3>3. k = [j EXCEPT !.row = b]
      BY <2>1, <3>2
    <3>4. /\ j \in B!Call /\ j.pc = "select" /\ j.user = u /\ j.answer = None
          /\ j.amount = call[c].amount
      BY <1>1, <1>3, <3>2 DEF B!Call
    <3> QED BY <3>1, <3>3, <3>4 DEF B!Call
  <2>3. call' = [call EXCEPT ![c] = k] /\ lock' = [lock EXCEPT ![u] = c]
    BY <1>1, <1>5, <2>1 DEF B!Update
  <2>4. Kept(k, balance[u]) /\ Holds(k)
    BY <1>1, <2>2 DEF Kept, Holds
  <2>5. /\ lock' \in [Users -> Calls \cup {None}]
        /\ \A v \in Users : lock'[v] = c <=> v = u
        /\ \A v \in Users, d \in Calls \ {c} : lock'[v] = d <=> lock[v] = d
    BY <1>2, <1>3, <1>4, <2>3 DEF B!WalletAssumption
  <2>6. k.pc # "idle" => k.user \in Users /\ Kept(k, balance[k.user])
    BY <1>3, <2>2, <2>4
  <2>7. \A v \in Users : lock'[v] = c <=> Holds(k) /\ k.user = v
    BY <2>2, <2>4, <2>5
  <2>8. UNCHANGED <<balance, due>> /\ writes' \in 0 .. MaxWrites
    BY <1>2, <1>3
  <2> QED BY <2>2, <2>3, <2>5, <2>6, <2>7, <2>8, WalletMove
<1>6. CASE ~(b >= 0)
  <2>1. PICK k : k = [call[c] EXCEPT !.pc = "done"]
    OBVIOUS
  <2>2. k \in B!Call /\ k.pc = "done" /\ k.user = u /\ k.answer = None
    BY <1>1, <1>3, <2>1 DEF B!Call
  <2>3. call' = [call EXCEPT ![c] = k] /\ lock' = lock
    BY <1>1, <1>6, <2>1 DEF B!Update
  <2>4. Kept(k, balance[u]) /\ ~Holds(k)
    BY <2>2 DEF Kept, Holds
  <2> QED BY <1>2, <1>3, <1>4, <2>2, <2>3, <2>4, WalletMove
<1> QED BY <1>5, <1>6

LEMMA WalletSelect ==
  ASSUME B!WalletAssumption, WalletInv, NEW c \in Calls, B!Select(c) PROVE WalletInv'
<1>1. PICK k : k = [call[c] EXCEPT !.pc = "commit", !.answer = call[c].row]
  OBVIOUS
<1>2. call[c].pc = "select" /\ call' = [call EXCEPT ![c] = k] /\ UNCHANGED <<balance, lock, due, writes>>
  BY <1>1 DEF B!Select
<1>3. /\ call[c] \in B!Call /\ call[c].user \in Users /\ Kept(call[c], balance[call[c].user])
      /\ lock \in [Users -> Calls \cup {None}] /\ writes \in 0 .. MaxWrites
  BY <1>2 DEF WalletInv, B!TypeOK
<1>4. /\ k \in B!Call /\ k.pc = "commit" /\ k.user = call[c].user /\ k.answer = k.row
      /\ k.row = call[c].row /\ k.amount = call[c].amount
  BY <1>1, <1>3 DEF B!Call
<1>5. Kept(k, balance[k.user]) /\ Holds(k)
  BY <1>2, <1>3, <1>4 DEF Kept, Holds
<1>6. \A u \in Users : lock'[u] = c <=> Holds(k) /\ k.user = u
  <2>1. Holds(call[c])
    BY <1>2 DEF Holds
  <2> QED BY <1>2, <1>4, <1>5, <2>1 DEF WalletInv, Locks
<1>7. k.pc # "idle" => k.user \in Users /\ Kept(k, balance[k.user])
  BY <1>3, <1>4, <1>5
<1>8. UNCHANGED <<balance, due>> /\ lock' \in [Users -> Calls \cup {None}] /\ writes' \in 0 .. MaxWrites
  BY <1>2, <1>3
<1>9. \A u \in Users, d \in Calls \ {c} : lock'[u] = d <=> lock[u] = d
  BY <1>2
<1>10. call' = [call EXCEPT ![c] = k] /\ k \in B!Call
  BY <1>2, <1>4
<1> QED BY <1>6, <1>7, <1>8, <1>9, <1>10, WalletMove

LEMMA WalletFail ==
  ASSUME B!WalletAssumption, WalletInv, NEW c \in Calls, B!Fail(c) PROVE WalletInv'
<1>1. PICK k : k = [call[c] EXCEPT !.pc = "done", !.answer = None]
  OBVIOUS
<1>2. /\ Holds(call[c]) /\ call[c].pc # "idle" /\ call' = [call EXCEPT ![c] = k]
      /\ lock' = [lock EXCEPT ![call[c].user] = None] /\ UNCHANGED <<balance, due, writes>>
  BY <1>1 DEF B!Fail, Holds
<1>3. /\ call[c] \in B!Call /\ call[c].user \in Users
      /\ lock \in [Users -> Calls \cup {None}] /\ writes \in 0 .. MaxWrites
  BY <1>2 DEF WalletInv, B!TypeOK
<1>4. k \in B!Call /\ k.pc = "done" /\ k.user = call[c].user /\ k.answer = None
  BY <1>1, <1>3 DEF B!Call
<1>5. Kept(k, balance[k.user]) /\ ~Holds(k)
  BY <1>4 DEF Kept, Holds
<1>6. \A u \in Users : lock[u] = c <=> call[c].user = u
  BY <1>2 DEF WalletInv, Locks
<1>7. /\ lock' \in [Users -> Calls \cup {None}]
      /\ \A u \in Users : lock'[u] # c
      /\ \A u \in Users, d \in Calls \ {c} : lock'[u] = d <=> lock[u] = d
  BY <1>2, <1>3, <1>6 DEF B!WalletAssumption
<1> QED BY <1>2, <1>3, <1>4, <1>5, <1>7, WalletMove

LEMMA WalletReturn ==
  ASSUME B!WalletAssumption, WalletInv, NEW c \in Calls, B!Return(c) PROVE WalletInv'
<1>1. call[c].pc = "done" /\ call' = [call EXCEPT ![c] = B!Idle] /\ UNCHANGED <<balance, lock, due, writes>>
  BY DEF B!Return
<1>2. ~Holds(B!Idle) /\ \A u \in Users : lock[u] # c
  BY <1>1, IdleCall DEF WalletInv, Locks, Holds
<1>3. lock \in [Users -> Calls \cup {None}] /\ writes \in 0 .. MaxWrites
  BY DEF WalletInv, B!TypeOK
<1> QED BY <1>1, <1>2, <1>3, IdleCall, WalletMove

\* The commit, which everybody who has an answer sees.
LEMMA WalletCommit ==
  ASSUME B!WalletAssumption, WalletInv, NEW c \in Calls, B!Commit(c) PROVE WalletInv'
<1>1. PICK u, a, k : u = call[c].user /\ a = call[c].amount /\ k = [call[c] EXCEPT !.pc = "done"]
  OBVIOUS
<1>2. /\ call[c].pc = "commit" /\ balance' = [balance EXCEPT ![u] = call[c].row]
      /\ lock' = [lock EXCEPT ![u] = None] /\ writes' = writes
      /\ B!Arrives(u, a, [call EXCEPT ![c] = k])
  BY <1>1 DEF B!Commit
<1>3. /\ call[c] \in B!Call /\ call \in [Calls -> B!Call] /\ u \in Users /\ a \in Int
      /\ Kept(call[c], balance[u]) /\ balance \in [Users -> Nat] /\ due = balance
      /\ due \in [Users -> Int] /\ lock \in [Users -> Calls \cup {None}] /\ writes \in 0 .. MaxWrites
  BY <1>1, <1>2 DEF WalletInv, B!TypeOK, B!Call
<1>4. call[c].row = balance[u] + a /\ call[c].answer = call[c].row /\ call[c].row \in Nat
  BY <1>1, <1>2, <1>3 DEF Kept, Holds, B!Call
<1>5. PICK calls : calls = [call EXCEPT ![c] = k]
  OBVIOUS
<1>6. /\ k \in B!Call /\ k.pc = "done" /\ k.user = u /\ k.answer = call[c].row
      /\ calls \in [Calls -> B!Call] /\ calls[c] = k /\ \A d \in Calls \ {c} : calls[d] = call[d]
  BY <1>1, <1>3, <1>4, <1>5 DEF B!Call
<1>7. /\ due' \in [Users -> Int] /\ due' = [due EXCEPT ![u] = @ + a]
      /\ call' \in [Calls -> B!Call]
      /\ \A d \in Calls :
           /\ Later(call'[d], calls[d])
           /\ calls[d].pc = "done" /\ calls[d].user = u => due'[u] \in call'[d].existed
  <2>1. B!Arrives(u, a, calls)
    BY <1>2, <1>5
  <2>2. Arrived(u, a, calls)
    BY <1>3, <1>6, <2>1, Arrival
  <2> QED BY <2>2 DEF Arrived
<1>8. balance' \in [Users -> Nat] /\ due' = balance' /\ due'[u] = call[c].row
  <2>1. balance' \in [Users -> Nat]
    BY <1>2, <1>3, <1>4
  <2>2. due' = [balance EXCEPT ![u] = balance[u] + a]
    BY <1>3, <1>7
  <2>3. due' = balance'
    BY <1>2, <1>4, <2>2
  <2>4. balance'[u] = call[c].row
    BY <1>2, <1>3
  <2> QED BY <2>1, <2>3, <2>4
<1>9. \A v \in Users : lock[v] = c <=> v = u
  BY <1>1, <1>2 DEF WalletInv, Locks, Holds
<1>10. /\ lock' \in [Users -> Calls \cup {None}]
       /\ \A v \in Users : lock'[v] # c
       /\ \A v \in Users, d \in Calls \ {c} : lock'[v] = d <=> lock[v] = d
  BY <1>2, <1>3, <1>9 DEF B!WalletAssumption
<1>11. B!TypeOK'
  <2>1. \A d \in Calls : call'[d].pc # "idle" => call'[d].user \in Users
    BY <1>3, <1>6, <1>7 DEF WalletInv, B!TypeOK, Later
  <2>2. writes' \in 0 .. MaxWrites
    BY <1>2, <1>3
  <2> QED BY <1>7, <1>8, <1>10, <2>1, <2>2 DEF B!TypeOK
<1>12. Locks'
  <2>1. ASSUME NEW v \in Users, NEW d \in Calls
        PROVE  lock'[v] = d <=> Holds(call'[d]) /\ call'[d].user = v
    <3>1. CASE d = c
      BY <1>6, <1>7, <1>10, <3>1 DEF Holds, Later
    <3>2. CASE d # c
      <4>1. Holds(call'[d]) = Holds(call[d]) /\ call'[d].user = call[d].user
        BY <1>6, <1>7, <3>2 DEF Holds, Later
      <4> QED BY <1>10, <3>2, <4>1 DEF WalletInv, Locks
    <3> QED BY <3>1, <3>2
  <2> QED BY <2>1 DEF Locks
<1>13. ASSUME NEW d \in Calls, call'[d].pc # "idle"
       PROVE  Kept(call'[d], balance'[call'[d].user])
  <2>1. CASE d = c
    <3>1. call'[c].pc = "done" /\ call'[c].answer = due'[u] /\ due'[u] \in call'[c].existed
      BY <1>6, <1>7, <1>8 DEF Later
    <3> QED BY <2>1, <3>1 DEF Kept, Holds
  <2>2. CASE d # c
    <3>1. /\ Later(call'[d], call[d]) /\ call[d].pc # "idle" /\ call'[d].user = call[d].user
          /\ call[d].user \in Users /\ Kept(call[d], balance[call[d].user])
      BY <1>6, <1>7, <1>13, <2>2 DEF Later, WalletInv, B!TypeOK
    <3>2. CASE call[d].user = u
      <4>1. ~Holds(call[d])
        BY <1>3, <1>9, <2>2, <3>2 DEF WalletInv, Locks
      <4>2. Kept(call[d], balance'[call'[d].user])
        BY <3>1, <4>1 DEF Kept
      <4> QED BY <3>1, <4>2, LaterKept
    <3>3. CASE call[d].user # u
      <4>1. balance'[call[d].user] = balance[call[d].user]
        BY ONLY <1>2, <1>3, <3>1, <3>3
      <4>2. balance'[call'[d].user] = balance[call[d].user]
        BY ONLY <3>1, <4>1
      <4> QED BY <3>1, <4>2, LaterKept
    <3> QED BY <3>2, <3>3
  <2> QED BY <2>1, <2>2
<1> QED BY <1>8, <1>11, <1>12, <1>13 DEF WalletInv

LEMMA WalletNext ==
  ASSUME B!WalletAssumption PROVE WalletInv /\ [B!Next]_B!vars => WalletInv'
<1> SUFFICES ASSUME WalletInv, [B!Next]_B!vars PROVE WalletInv'
  OBVIOUS
<1>1. CASE UNCHANGED B!vars
  BY <1>1 DEF B!vars, WalletInv, B!TypeOK, Locks
<1> QED BY <1>1, WalletTrade, WalletStart, WalletUpdate, WalletSelect, WalletCommit, WalletFail,
           WalletReturn DEF B!Next

LEMMA WalletInvariant == ASSUME B!WalletAssumption PROVE B!Spec => []WalletInv
BY WalletInit, WalletNext, PTL DEF B!Spec

LEMMA WalletTypes == ASSUME B!WalletAssumption PROVE B!Spec => []B!TypeOK
<1>1. WalletInv => B!TypeOK
  BY DEF WalletInv
<1> QED BY <1>1, WalletInvariant, PTL

LEMMA WalletAnswers == ASSUME B!WalletAssumption PROVE B!Spec => []B!BalanceExisted
<1>1. WalletInv => B!BalanceExisted
  BY DEF WalletInv, Kept, B!BalanceExisted
<1> QED BY <1>1, WalletInvariant, PTL

-----------------------------------------------------------------------------
(* Rate limits *)

\* x is at most f[1] + ... + f[n].
Within(f, n, x) ==
  \E p \in [0 .. n -> Int] :
    /\ p[0] = 0 /\ x <= p[n]
    /\ \A j \in 1 .. n : p[j] <= p[j - 1] + f[j]

LEMMA WithinZero ==
  ASSUME NEW n \in Nat, NEW f, \A j \in 1 .. n : f[j] \in Nat, NEW x \in Int, x <= 0
  PROVE  Within(f, n, x)
<1> DEFINE p == [j \in 0 .. n |-> 0]
<1>1. p \in [0 .. n -> Int] /\ p[0] = 0 /\ x <= p[n] /\ \A j \in 1 .. n : p[j] <= p[j - 1] + f[j]
  OBVIOUS
<1> QED BY <1>1 DEF Within

LEMMA WithinMore ==
  ASSUME NEW n \in Nat, NEW f, NEW g, \A j \in 1 .. n : f[j] \in Int /\ g[j] \in Int /\ f[j] <= g[j],
         NEW x, Within(f, n, x)
  PROVE  Within(g, n, x)
<1>1. PICK p \in [0 .. n -> Int] : p[0] = 0 /\ x <= p[n] /\ \A j \in 1 .. n : p[j] <= p[j - 1] + f[j]
  BY DEF Within
<1>2. ASSUME NEW j \in 1 .. n PROVE p[j] <= p[j - 1] + g[j]
  <2>1. /\ p[j] \in Int /\ p[j - 1] \in Int /\ p[j] <= p[j - 1] + f[j]
        /\ f[j] \in Int /\ g[j] \in Int /\ f[j] <= g[j]
    BY <1>1
  <2> QED BY <2>1
<1> QED BY <1>1, <1>2 DEF Within

LEMMA WithinChanged ==
  ASSUME NEW n \in Nat, NEW f, NEW g, NEW m \in 1 .. n, NEW d \in Int,
         \A j \in 1 .. n : f[j] \in Int /\ g[j] \in Int,
         \A j \in 1 .. n : j # m => f[j] <= g[j],
         f[m] + d <= g[m], NEW x \in Int, Within(f, n, x)
  PROVE  Within(g, n, x + d)
<1>1. PICK p \in [0 .. n -> Int] : p[0] = 0 /\ x <= p[n] /\ \A j \in 1 .. n : p[j] <= p[j - 1] + f[j]
  BY DEF Within
<1> DEFINE q == [j \in 0 .. n |-> IF j < m THEN p[j] ELSE p[j] + d]
<1>2. q \in [0 .. n -> Int] /\ q[0] = 0 /\ x + d <= q[n]
  BY <1>1
<1>3. ASSUME NEW j \in 1 .. n PROVE q[j] <= q[j - 1] + g[j]
  <2>1. p[j] \in Int /\ p[j - 1] \in Int /\ p[j] <= p[j - 1] + f[j] /\ f[j] \in Int /\ g[j] \in Int
    BY <1>1
  <2>2. j - 1 \in 0 .. n /\ j \in 0 .. n
    OBVIOUS
  <2>3. CASE j < m
    BY <2>1, <2>2, <2>3
  <2>4. CASE j = m
    BY <2>1, <2>2, <2>4
  <2>5. CASE j > m
    BY <2>1, <2>2, <2>5
  <2> QED BY <2>3, <2>4, <2>5
<1> HIDE DEF q
<1> QED BY <1>2, <1>3 DEF Within

\* Induction over the natural numbers, for the set of those a fact holds of.
LEMMA AllNaturals ==
  ASSUME NEW M, 0 \in M, \A i \in Nat : i \in M => i + 1 \in M
  PROVE  \A i \in Nat : i \in M
<1> SUFFICES ASSUME Nat \ M # {} PROVE FALSE
  OBVIOUS
<1> DEFINE Smaller == {ss \in Nat \X Nat : ss[1] < ss[2]}
<1>1. IsWellFoundedOn(Smaller, Nat)
  BY NatLessThanWellFounded DEF OpToRel
<1> HIDE DEF Smaller
<1>2. PICK x \in Nat \ M : \A y \in Nat \ M : ~(<<y, x>> \in Smaller)
  BY <1>1, WFMin
<1>3. x # 0 /\ x - 1 \in Nat /\ x - 1 + 1 = x
  OBVIOUS
<1>4. x - 1 \notin M
  BY <1>3
<1>5. <<x - 1, x>> \in Smaller
  BY <1>3 DEF Smaller
<1> QED BY <1>2, <1>3, <1>4, <1>5

LEMMA WithinBound ==
  ASSUME NEW n \in Nat, NEW f, NEW b \in Nat, \A j \in 1 .. n : f[j] \in Int /\ f[j] <= b,
         NEW x \in Int, Within(f, n, x)
  PROVE  x <= n * b
<1>1. PICK p \in [0 .. n -> Int] : p[0] = 0 /\ x <= p[n] /\ \A j \in 1 .. n : p[j] <= p[j - 1] + f[j]
  BY DEF Within
<1> DEFINE M == {j \in Nat : j \in 0 .. n => p[j] <= j * b}
<1>2. 0 \in M
  BY <1>1
<1>3. ASSUME NEW j \in Nat, j \in M PROVE j + 1 \in M
  <2>1. SUFFICES ASSUME j + 1 \in 0 .. n PROVE p[j + 1] <= (j + 1) * b
    OBVIOUS
  <2>2. /\ j \in 0 .. n /\ j + 1 \in 1 .. n /\ (j + 1) - 1 = j /\ p[j] \in Int /\ p[j + 1] \in Int
        /\ p[j] <= j * b
    BY <1>3, <2>1
  <2>3. p[j + 1] <= p[j] + f[j + 1] /\ f[j + 1] \in Int /\ f[j + 1] <= b
    BY <1>1, <2>2
  <2>4. (j + 1) * b = j * b + b /\ j * b \in Int
    OBVIOUS
  <2> QED BY <2>2, <2>3, <2>4
<1> HIDE DEF M
<1>4. n \in M
  BY <1>2, <1>3, AllNaturals
<1>5. p[n] <= n * b
  BY <1>4 DEF M
<1> QED BY <1>1, <1>5

\* How many of the last k units' requests a store may have served, of those that the
\* limit has let through: those of its window, and of windows before it as many as one
\* window admits, since in what is left of the span no two can meet.
Room(n, k, limit) ==
  LET hits == IF n.hits <= limit.amount THEN n.hits ELSE limit.amount IN
  IF n.left = 0 THEN IF k = 1 THEN 0 ELSE limit.amount
  ELSE IF k <= limit.span - n.left + 1 THEN hits ELSE hits + limit.amount

Count(n, limit) ==
  /\ n \in [hits : Nat, left : Nat] /\ n.left <= limit.span /\ (n.hits = 0 <=> n.left = 0)

LEMMA RoomType ==
  ASSUME NEW limit \in L!Limit, NEW n, Count(n, limit), NEW k \in 1 .. limit.span
  PROVE  Room(n, k, limit) \in Nat /\ Room(n, k, limit) <= 2 * limit.amount
BY DEF Room, Count, L!Limit

LEMMA RoomCounted ==
  ASSUME NEW limit \in L!Limit, NEW n, Count(n, limit)
  PROVE  /\ Count(L!Counted(n, limit), limit)
         /\ \A k \in 1 .. limit.span :
              /\ Room(n, k, limit) <= Room(L!Counted(n, limit), k, limit)
              /\ L!Within(n, limit) => Room(n, k, limit) + 1 <= Room(L!Counted(n, limit), k, limit)
<1>0. /\ limit.amount \in Nat \ {0} /\ limit.span \in Nat \ {0} /\ n.hits \in Nat /\ n.left \in Nat
      /\ n.left <= limit.span /\ (n.hits = 0 <=> n.left = 0)
  BY DEF Count, L!Limit
<1>1. CASE n.left = 0
  <2>1. L!Counted(n, limit) = [hits |-> 1, left |-> limit.span]
    BY <1>1 DEF L!Counted
  <2> QED BY <1>0, <1>1, <2>1 DEF Count, Room, L!Within
<1>2. CASE n.left # 0
  <2>1. L!Counted(n, limit) = [hits |-> n.hits + 1, left |-> n.left]
    BY <1>2 DEF L!Counted, Count
  <2> QED BY <1>0, <1>2, <2>1 DEF Count, Room, L!Within
<1> QED BY <1>1, <1>2

\* A counter after a unit of time.
Aged(n) == IF n.left <= 1 THEN L!Zero ELSE [n EXCEPT !.left = @ - 1]

LEMMA RoomAged ==
  ASSUME NEW limit \in L!Limit, NEW n, Count(n, limit)
  PROVE  /\ Count(Aged(n), limit)
         /\ \A k \in 2 .. limit.span : Room(n, k - 1, limit) <= Room(Aged(n), k, limit)
<1>0. /\ limit.amount \in Nat \ {0} /\ limit.span \in Nat \ {0} /\ n.hits \in Nat /\ n.left \in Nat
      /\ n.left <= limit.span /\ (n.hits = 0 <=> n.left = 0)
  BY DEF Count, L!Limit
<1>1. CASE n.left <= 1
  <2>1. Aged(n) = [hits |-> 0, left |-> 0]
    BY <1>1 DEF Aged, L!Zero
  <2> QED BY <1>0, <1>1, <2>1 DEF Count, Room
<1>2. CASE ~(n.left <= 1)
  <2>1. Aged(n) = [hits |-> n.hits, left |-> n.left - 1]
    BY <1>2 DEF Aged, Count
  <2> QED BY <1>0, <1>2, <2>1 DEF Count, Room
<1> QED BY <1>1, <1>2

LEMMA RoomFresh ==
  ASSUME NEW limit \in L!Limit, NEW n, Count(n, limit)
  PROVE  /\ Count(L!Zero, limit)
         /\ \A k \in 1 .. limit.span : Room(n, k, limit) - limit.amount <= Room(L!Zero, k, limit)
<1>0. /\ limit.amount \in Nat \ {0} /\ limit.span \in Nat \ {0} /\ n.hits \in Nat /\ n.left \in Nat
      /\ n.left <= limit.span /\ (n.hits = 0 <=> n.left = 0)
  BY DEF Count, L!Limit
<1>1. L!Zero = [hits |-> 0, left |-> 0]
  BY DEF L!Zero
<1> QED BY <1>0, <1>1 DEF Count, Room

Tally == [hits : Nat, left : Nat]

\* How many there were in the last k units of time, for each k.
History(h) ==
  /\ h \in [Clients -> [Endpoints -> Seq(Nat)]]
  /\ \A c \in Clients, e \in Endpoints : DOMAIN h[c][e] = 1 .. L!Longest(e)

LimitTypes ==
  /\ counter \in [Stores -> [L!Addresses -> [Endpoints -> Seq(Tally)]]]
  /\ \A s \in Stores, a \in L!Addresses, e \in Endpoints :
       /\ DOMAIN counter[s][a][e] = DOMAIN Allowances[e]
       /\ \A i \in DOMAIN Allowances[e] : Count(counter[s][a][e][i], Allowances[e][i])
  /\ History(asked) /\ History(served)
  /\ \A c \in Clients, e \in Endpoints : asked[c][e][1] \in served[c][e][1] .. Pace[e]
  /\ restarts \in 0 .. MaxRestarts

\* What is served in the last k units fits into the room of the stores, which are numbered.
Fits(store, n, c, e, i, k) ==
  Within([j \in 1 .. n |-> Room(counter[store[j]][Address(c)][e][i], k, Allowances[e][i])],
         n, served[c][e][k] - restarts * Allowances[e][i].amount)

LimitInv(store, n) ==
  /\ LimitTypes
  /\ \A c \in Clients, e \in Endpoints : \A i \in DOMAIN Allowances[e] :
       \A k \in 1 .. Allowances[e][i].span : Fits(store, n, c, e, i, k)

LEMMA Spans ==
  ASSUME L!LimitAssumption, NEW e \in Endpoints
  PROVE  /\ Allowances[e] \in Seq(L!Limit) /\ L!Longest(e) \in Nat \ {0}
         /\ \A i \in DOMAIN Allowances[e] : Allowances[e][i] \in L!Limit /\ Allowances[e][i].span <= L!Longest(e)
<1>1. /\ Allowances[e] \in Seq(L!Limit) /\ Allowances[e] # <<>>
      /\ \A i, j \in DOMAIN Allowances[e] : i < j => Allowances[e][i].span < Allowances[e][j].span
  BY DEF L!LimitAssumption
<1> DEFINE m == Len(Allowances[e])
<1>2. m \in DOMAIN Allowances[e] /\ \A i \in DOMAIN Allowances[e] : i <= m /\ i \in Nat
  BY <1>1
<1>3. \A i \in DOMAIN Allowances[e] : Allowances[e][i] \in L!Limit /\ Allowances[e][i].span \in Nat \ {0}
  <2>1. \A i \in DOMAIN Allowances[e] : Allowances[e][i] \in L!Limit
    BY <1>1
  <2> QED BY <2>1 DEF L!Limit
<1>4. L!Longest(e) = Allowances[e][m].span
  BY DEF L!Longest
<1> HIDE DEF m
<1>5. \A i \in DOMAIN Allowances[e] : i = m \/ i < m
  BY <1>2, <1>1
<1> QED BY <1>1, <1>2, <1>3, <1>4, <1>5

LEMMA SeqEntry == \A row \in Seq(Nat) : \A k \in DOMAIN row : row[k] \in Nat
OBVIOUS

LEMMA HistoryEntry ==
  ASSUME L!LimitAssumption, NEW h, History(h), NEW c \in Clients, NEW e \in Endpoints
  PROVE  /\ L!Longest(e) \in Nat /\ 1 \in 1 .. L!Longest(e)
         /\ \A k \in 1 .. L!Longest(e) : h[c][e][k] \in Nat
<1>1. PICK row : row = h[c][e]
  OBVIOUS
<1>2. row \in Seq(Nat) /\ DOMAIN row = 1 .. L!Longest(e)
  BY <1>1 DEF History
<1>3. \A k \in DOMAIN row : row[k] \in Nat
  BY <1>2, SeqEntry
<1>4. \A k \in 1 .. L!Longest(e) : h[c][e][k] \in Nat
  BY <1>1, <1>2, <1>3
<1>5. L!Longest(e) \in Nat /\ 1 \in 1 .. L!Longest(e)
  BY Spans
<1> QED BY <1>4, <1>5

LEMMA HistoryZero ==
  ASSUME L!LimitAssumption, NEW h,
         h = [c \in Clients |-> [e \in Endpoints |-> [k \in 1 .. L!Longest(e) |-> 0]]]
  PROVE  /\ History(h)
         /\ \A c \in Clients, e \in Endpoints : \A k \in 1 .. L!Longest(e) : h[c][e][k] = 0
<1>1. ASSUME NEW e \in Endpoints, NEW row, row = [k \in 1 .. L!Longest(e) |-> 0]
      PROVE  row \in Seq(Nat) /\ DOMAIN row = 1 .. L!Longest(e)
  <2>1. L!Longest(e) \in Nat
    BY Spans
  <2> QED BY <1>1, <2>1
<1>2. \A c \in Clients, e \in Endpoints : h[c][e] = [k \in 1 .. L!Longest(e) |-> 0]
  OBVIOUS
<1>3. \A c \in Clients, e \in Endpoints : h[c][e] \in Seq(Nat) /\ DOMAIN h[c][e] = 1 .. L!Longest(e)
  BY <1>1, <1>2
<1>4. h \in [Clients -> [Endpoints -> Seq(Nat)]]
  BY <1>1
<1> QED BY <1>2, <1>3, <1>4 DEF History

\* One more request of c to e in every count of a history h, which becomes g.
Risen(g, h, c, e) ==
  \A b \in Clients, d \in Endpoints : \A k \in 1 .. L!Longest(d) :
    g[b][d][k] = IF b = c /\ d = e THEN h[b][d][k] + 1 ELSE h[b][d][k]

\* A history h one unit of time later, g.
Older(g, h) ==
  \A c \in Clients, e \in Endpoints : \A k \in 1 .. L!Longest(e) :
    g[c][e][k] = IF k = 1 THEN 0 ELSE h[c][e][k - 1]

LEMMA HistoryMore ==
  ASSUME L!LimitAssumption, NEW h, History(h), NEW c \in Clients, NEW e \in Endpoints,
         NEW g, g = [h EXCEPT ![c][e] = [k \in 1 .. L!Longest(e) |-> @[k] + 1]]
  PROVE  History(g) /\ Risen(g, h, c, e)
<1>1. PICK new : new = [k \in 1 .. L!Longest(e) |-> h[c][e][k] + 1]
  OBVIOUS
<1>2. g = [h EXCEPT ![c][e] = new]
  BY <1>1
<1>3. \A k \in 1 .. L!Longest(e) : h[c][e][k] \in Nat
  BY HistoryEntry
<1>4. L!Longest(e) \in Nat
  BY Spans
<1>5. new \in Seq(Nat) /\ DOMAIN new = 1 .. L!Longest(e)
  BY <1>1, <1>3, <1>4
<1>6. h \in [Clients -> [Endpoints -> Seq(Nat)]]
  BY DEF History
<1>7. /\ g \in [Clients -> [Endpoints -> Seq(Nat)]] /\ g[c][e] = new
      /\ \A b \in Clients, d \in Endpoints : ~(b = c /\ d = e) => g[b][d] = h[b][d]
  <2>1. new \in Seq(Nat)
    BY <1>5
  <2>2. PICK rows : rows = Seq(Nat)
    OBVIOUS
  <2>3. g \in [Clients -> [Endpoints -> rows]]
    BY ONLY <1>2, <1>6, <2>1, <2>2, c \in Clients, e \in Endpoints
  <2>4. g[c][e] = new
    BY ONLY <1>2, <1>6, c \in Clients, e \in Endpoints
  <2>5. \A b \in Clients, d \in Endpoints : ~(b = c /\ d = e) => g[b][d] = h[b][d]
    BY ONLY <1>2, <1>6, c \in Clients, e \in Endpoints
  <2> QED BY <2>2, <2>3, <2>4, <2>5
<1>8. ASSUME NEW b \in Clients, NEW d \in Endpoints
      PROVE  /\ DOMAIN g[b][d] = 1 .. L!Longest(d)
             /\ \A k \in 1 .. L!Longest(d) :
                  g[b][d][k] = IF b = c /\ d = e THEN h[b][d][k] + 1 ELSE h[b][d][k]
  <2>1. CASE b = c /\ d = e
    BY <1>1, <1>5, <1>7, <2>1
  <2>2. CASE ~(b = c /\ d = e)
    BY <1>7, <2>2 DEF History
  <2> QED BY <2>1, <2>2
<1> QED BY <1>7, <1>8 DEF History, Risen

LEMMA HistoryOlder ==
  ASSUME L!LimitAssumption, NEW h, History(h),
         NEW g, g = [c \in Clients |-> [e \in Endpoints |-> L!Older(h[c][e], e)]]
  PROVE  History(g) /\ Older(g, h)
<1>1. ASSUME NEW c \in Clients, NEW e \in Endpoints
      PROVE  /\ g[c][e] \in Seq(Nat) /\ DOMAIN g[c][e] = 1 .. L!Longest(e)
             /\ \A k \in 1 .. L!Longest(e) : g[c][e][k] = IF k = 1 THEN 0 ELSE h[c][e][k - 1]
  <2>1. PICK row : row = h[c][e]
    OBVIOUS
  <2>2. PICK new : new = [k \in 1 .. L!Longest(e) |-> IF k = 1 THEN 0 ELSE row[k - 1]]
    OBVIOUS
  <2>3. g[c][e] = new
    BY <2>1, <2>2 DEF L!Older
  <2>4. L!Longest(e) \in Nat /\ \A k \in 1 .. L!Longest(e) : row[k] \in Nat
    BY <2>1, HistoryEntry
  <2>5. \A k \in 1 .. L!Longest(e) : k # 1 => k - 1 \in 1 .. L!Longest(e)
    BY <2>4
  <2>6. \A k \in 1 .. L!Longest(e) : (IF k = 1 THEN 0 ELSE row[k - 1]) \in Nat
    BY <2>4, <2>5
  <2>7. new \in Seq(Nat) /\ DOMAIN new = 1 .. L!Longest(e)
    BY <2>2, <2>4, <2>6
  <2> QED BY <2>1, <2>2, <2>3, <2>7
<1>2. g = [c \in Clients |-> [e \in Endpoints |-> g[c][e]]]
  OBVIOUS
<1>3. g \in [Clients -> [Endpoints -> Seq(Nat)]]
  BY <1>1, <1>2
<1> QED BY <1>1, <1>3 DEF History, Older

LEMMA ClockHistories ==
  ASSUME L!LimitAssumption, LimitTypes, L!Clock
  PROVE  History(served') /\ History(asked') /\ Older(served', served) /\ Older(asked', asked)
<1>1. History(asked) /\ History(served)
  BY DEF LimitTypes
<1>2. /\ asked' = [c \in Clients |-> [e \in Endpoints |-> L!Older(asked[c][e], e)]]
      /\ served' = [c \in Clients |-> [e \in Endpoints |-> L!Older(served[c][e], e)]]
  BY DEF L!Clock
<1>3. History(asked') /\ Older(asked', asked)
  BY <1>1, <1>2, HistoryOlder
<1>4. History(served') /\ Older(served', served)
  BY <1>1, <1>2, HistoryOlder
<1> QED BY <1>3, <1>4

LEMMA LimitsInit ==
  ASSUME L!LimitAssumption, L!Init, NEW n \in Nat, NEW store \in [1 .. n -> Stores]
  PROVE  LimitInv(store, n)
<1>1. \A s \in Stores, a \in L!Addresses, e \in Endpoints :
        counter[s][a][e] = [i \in DOMAIN Allowances[e] |-> L!Zero]
  BY DEF L!Init, L!Fresh
<1>2. L!Zero \in Tally /\ L!Zero.hits = 0 /\ L!Zero.left = 0
  BY DEF L!Zero, Tally
<1>3. \A e \in Endpoints : [i \in DOMAIN Allowances[e] |-> L!Zero] \in Seq(Tally)
  BY <1>2, Spans
<1>4. counter \in [Stores -> [L!Addresses -> [Endpoints -> Seq(Tally)]]]
  BY <1>3 DEF L!Init, L!Fresh
<1>5. \A s \in Stores, a \in L!Addresses, e \in Endpoints : \A i \in DOMAIN Allowances[e] :
        Count(counter[s][a][e][i], Allowances[e][i])
  <2>1. ASSUME NEW s \in Stores, NEW a \in L!Addresses, NEW e \in Endpoints, NEW i \in DOMAIN Allowances[e]
        PROVE  Count(counter[s][a][e][i], Allowances[e][i])
    <3>1. counter[s][a][e][i] = L!Zero
      <4>1. counter[s][a][e] = [j \in DOMAIN Allowances[e] |-> L!Zero]
        BY <1>1
      <4> QED BY <4>1
    <3>2. Allowances[e][i].span \in Nat
      BY Spans DEF L!Limit
    <3> QED BY <1>2, <3>1, <3>2 DEF Count, Tally
  <2> QED BY <2>1
<1>6. /\ History(served) /\ History(asked)
      /\ \A c \in Clients, e \in Endpoints : \A k \in 1 .. L!Longest(e) :
           served[c][e][k] = 0 /\ asked[c][e][k] = 0
  BY HistoryZero DEF L!Init
<1>8. LimitTypes
  <2>2. restarts \in 0 .. MaxRestarts /\ Pace \in [Endpoints -> Nat]
    BY DEF L!Init, L!LimitAssumption
  <2>3. ASSUME NEW c \in Clients, NEW e \in Endpoints PROVE asked[c][e][1] \in served[c][e][1] .. Pace[e]
    <3>1. 1 \in 1 .. L!Longest(e) /\ Pace[e] \in Nat
      BY <1>6, <2>2, HistoryEntry
    <3> QED BY <1>6, <3>1
  <2>4. \A s \in Stores, a \in L!Addresses, e \in Endpoints : DOMAIN counter[s][a][e] = DOMAIN Allowances[e]
    <3>1. ASSUME NEW s \in Stores, NEW a \in L!Addresses, NEW e \in Endpoints
          PROVE  DOMAIN counter[s][a][e] = DOMAIN Allowances[e]
      <4>1. counter[s][a][e] = [j \in DOMAIN Allowances[e] |-> L!Zero]
        BY <1>1
      <4> QED BY <4>1
    <3> QED BY <3>1
  <2> QED BY <1>4, <1>5, <1>6, <2>2, <2>3, <2>4 DEF LimitTypes
<1>9. ASSUME NEW c \in Clients, NEW e \in Endpoints, NEW i \in DOMAIN Allowances[e],
             NEW k \in 1 .. Allowances[e][i].span
      PROVE  Fits(store, n, c, e, i, k)
  <2> DEFINE limit == Allowances[e][i]
             f == [j \in 1 .. n |-> Room(counter[store[j]][Address(c)][e][i], k, limit)]
             x == served[c][e][k] - restarts * limit.amount
  <2>1. limit \in L!Limit /\ k \in 1 .. L!Longest(e) /\ Address(c) \in L!Addresses
    BY Spans DEF L!Limit, L!Addresses
  <2>2. x = 0
    BY <1>6, <2>1 DEF L!Init, L!Limit
  <2>3. \A j \in 1 .. n : f[j] \in Nat
    BY <1>5, <2>1, RoomType
  <2> HIDE DEF f, x
  <2>4. Within(f, n, x)
    BY <2>2, <2>3, WithinZero
  <2> QED BY <2>4 DEF Fits, f, x
<1> QED BY <1>8, <1>9 DEF LimitInv

-----------------------------------------------------------------------------
\* The room of the stores for what client c is served under a limit, store by store.
Rooms(store, n, c, e, i, k) ==
  [j \in 1 .. n |-> Room(counter[store[j]][Address(c)][e][i], k, Allowances[e][i])]

LEMMA RoomsType ==
  ASSUME L!LimitAssumption, LimitTypes, NEW n \in Nat, NEW store \in [1 .. n -> Stores],
         NEW c \in Clients, NEW e \in Endpoints, NEW i \in DOMAIN Allowances[e],
         NEW k \in 1 .. Allowances[e][i].span
  PROVE  /\ \A j \in 1 .. n :
              /\ Count(counter[store[j]][Address(c)][e][i], Allowances[e][i])
              /\ Rooms(store, n, c, e, i, k)[j] \in Nat
              /\ Rooms(store, n, c, e, i, k)[j] <= 2 * Allowances[e][i].amount
         /\ Allowances[e][i] \in L!Limit /\ Allowances[e][i].amount \in Nat /\ Allowances[e][i].span \in Nat
         /\ k \in 1 .. L!Longest(e) /\ served[c][e][k] \in Nat /\ restarts \in Nat
<1>1. /\ Allowances[e][i] \in L!Limit /\ Allowances[e][i].amount \in Nat /\ Allowances[e][i].span \in Nat
      /\ k \in 1 .. L!Longest(e) /\ Address(c) \in L!Addresses
  BY Spans DEF L!Limit, L!Addresses
<1>2. served[c][e][k] \in Nat /\ restarts \in Nat
  <2>1. served[c][e][k] \in Nat
    BY <1>1, HistoryEntry DEF LimitTypes
  <2> QED BY <2>1 DEF LimitTypes, L!LimitAssumption
<1>3. ASSUME NEW j \in 1 .. n
      PROVE  /\ Count(counter[store[j]][Address(c)][e][i], Allowances[e][i])
             /\ Rooms(store, n, c, e, i, k)[j] \in Nat
             /\ Rooms(store, n, c, e, i, k)[j] <= 2 * Allowances[e][i].amount
  <2>1. Count(counter[store[j]][Address(c)][e][i], Allowances[e][i])
    BY <1>1 DEF LimitTypes
  <2> QED BY <1>1, <2>1, RoomType DEF Rooms
<1> QED BY <1>1, <1>2, <1>3

\* One hit.
LEMMA AskCounters ==
  ASSUME L!LimitAssumption, LimitTypes, NEW c \in Clients, NEW e \in Endpoints, NEW s \in Stores, L!Ask(c, e, s)
  PROVE  /\ counter' \in [Stores -> [L!Addresses -> [Endpoints -> Seq(Tally)]]]
         /\ \A t \in Stores, a \in L!Addresses, d \in Endpoints :
              /\ DOMAIN counter'[t][a][d] = DOMAIN Allowances[d]
              /\ \A i \in DOMAIN Allowances[d] :
                   LET old == counter[t][a][d][i]
                       new == L!Counted(old, Allowances[d][i])
                   IN /\ counter'[t][a][d][i] \in {old, new}
                      /\ t = s /\ a = Address(c) /\ d = e /\ L!Allowed(s, a, e) =>
                           counter'[t][a][d][i] = new /\ L!Within(old, Allowances[d][i])
<1> DEFINE b == Address(c)
           row == counter[s][b][e]
           new == [i \in DOMAIN Allowances[e] |->
                     IF i \in L!Reached(s, b, e) THEN L!Counted(row[i], Allowances[e][i]) ELSE row[i]]
<1>1. b \in L!Addresses /\ counter' = [counter EXCEPT ![s][b][e] = new]
  BY DEF L!Addresses, L!Ask, L!Hit
<1>2. \A i \in DOMAIN Allowances[e] : row[i] \in Tally /\ L!Counted(row[i], Allowances[e][i]) \in Tally
  <2>1. ASSUME NEW i \in DOMAIN Allowances[e]
        PROVE  row[i] \in Tally /\ L!Counted(row[i], Allowances[e][i]) \in Tally
    <3>1. Count(row[i], Allowances[e][i]) /\ Allowances[e][i] \in L!Limit
      BY <1>1, Spans DEF LimitTypes
    <3> QED BY <3>1, RoomCounted DEF Count, Tally
  <2> QED BY <2>1
<1>3. new \in Seq(Tally) /\ DOMAIN new = DOMAIN Allowances[e]
  BY <1>2, Spans
<1>4. /\ \A i \in DOMAIN Allowances[e] : new[i] \in {row[i], L!Counted(row[i], Allowances[e][i])}
      /\ L!Allowed(s, b, e) =>
           \A i \in DOMAIN Allowances[e] :
             new[i] = L!Counted(row[i], Allowances[e][i]) /\ L!Within(row[i], Allowances[e][i])
  <2>1. ASSUME L!Allowed(s, b, e), NEW i \in DOMAIN Allowances[e] PROVE i \in L!Reached(s, b, e)
    <3>1. \A j \in 1 .. i - 1 : j \in DOMAIN Allowances[e]
      BY Spans
    <3> QED BY <2>1, <3>1 DEF L!Reached, L!Allowed
  <2> QED BY <2>1 DEF L!Allowed
<1> HIDE DEF new, b
<1>5. counter \in [Stores -> [L!Addresses -> [Endpoints -> Seq(Tally)]]]
  BY DEF LimitTypes
<1>6. /\ counter' \in [Stores -> [L!Addresses -> [Endpoints -> Seq(Tally)]]]
      /\ counter'[s][b][e] = new
      /\ \A t \in Stores, a \in L!Addresses, d \in Endpoints :
           ~(t = s /\ a = b /\ d = e) => counter'[t][a][d] = counter[t][a][d]
  BY <1>1, <1>3, <1>5
<1>7. ASSUME NEW t \in Stores, NEW a \in L!Addresses, NEW d \in Endpoints
      PROVE  /\ DOMAIN counter'[t][a][d] = DOMAIN Allowances[d]
             /\ \A i \in DOMAIN Allowances[d] :
                  /\ counter'[t][a][d][i] \in
                       {counter[t][a][d][i], L!Counted(counter[t][a][d][i], Allowances[d][i])}
                  /\ t = s /\ a = b /\ d = e /\ L!Allowed(s, a, e) =>
                       /\ counter'[t][a][d][i] = L!Counted(counter[t][a][d][i], Allowances[d][i])
                       /\ L!Within(counter[t][a][d][i], Allowances[d][i])
  <2>1. CASE t = s /\ a = b /\ d = e
    BY <1>3, <1>4, <1>6, <2>1
  <2>2. CASE ~(t = s /\ a = b /\ d = e)
    <3>1. counter'[t][a][d] = counter[t][a][d]
      BY <1>6, <2>2
    <3> QED BY <2>2, <3>1 DEF LimitTypes
  <2> QED BY <2>1, <2>2
<1> QED BY <1>6, <1>7 DEF b

\* An Ask is counted for its client when it is served, and for no other.
ServesOne(c, e, s) ==
  \A b \in Clients, d \in Endpoints : \A k \in 1 .. L!Longest(d) :
    served'[b][d][k] = IF b = c /\ d = e /\ L!Allowed(s, Address(c), e)
                       THEN served[b][d][k] + 1 ELSE served[b][d][k]

LEMMA AskServed ==
  ASSUME L!LimitAssumption, LimitTypes, NEW c \in Clients, NEW e \in Endpoints, NEW s \in Stores, L!Ask(c, e, s)
  PROVE  /\ History(served') /\ ServesOne(c, e, s)
         /\ History(asked') /\ Risen(asked', asked, c, e)
<1>1. History(served) /\ History(asked)
  BY DEF LimitTypes
<1>2. History(asked') /\ Risen(asked', asked, c, e)
  <2>1. asked' = [asked EXCEPT ![c][e] = [k \in 1 .. L!Longest(e) |-> @[k] + 1]]
    BY DEF L!Ask
  <2> QED BY <1>1, <2>1, HistoryMore
<1>3. CASE ~L!Allowed(s, Address(c), e)
  <2>1. served' = served
    BY <1>3 DEF L!Ask
  <2> QED BY <1>1, <1>2, <1>3, <2>1 DEF ServesOne
<1>4. CASE L!Allowed(s, Address(c), e)
  <2>1. served' = [served EXCEPT ![c][e] = [k \in 1 .. L!Longest(e) |-> @[k] + 1]]
    BY <1>4 DEF L!Ask
  <2>2. History(served') /\ Risen(served', served, c, e)
    BY <1>1, <2>1, HistoryMore
  <2> QED BY <1>2, <1>4, <2>2 DEF ServesOne, Risen
<1> QED BY <1>3, <1>4

LEMMA LimitsAsk ==
  ASSUME L!LimitAssumption, NEW n \in Nat, NEW store \in [1 .. n -> Stores],
         \A t \in Stores : \E j \in 1 .. n : store[j] = t,
         \A j, m \in 1 .. n : store[j] = store[m] => j = m,
         LimitInv(store, n), NEW c \in Clients, NEW e \in Endpoints, NEW s \in Stores, L!Ask(c, e, s)
  PROVE  LimitInv(store, n)'
<1>0. LimitTypes
  BY DEF LimitInv
<1>3. ServesOne(c, e, s)
  BY <1>0, AskServed
<1>1. LimitTypes'
  <2>1. ASSUME NEW t \in Stores, NEW a \in L!Addresses, NEW d \in Endpoints, NEW i \in DOMAIN Allowances[d]
        PROVE  Count(counter'[t][a][d][i], Allowances[d][i])
    <3>1. /\ Count(counter[t][a][d][i], Allowances[d][i]) /\ Allowances[d][i] \in L!Limit
          /\ counter'[t][a][d][i] \in {counter[t][a][d][i], L!Counted(counter[t][a][d][i], Allowances[d][i])}
      BY <1>0, AskCounters, Spans DEF LimitTypes
    <3> QED BY <3>1, RoomCounted
  <2>2. restarts' \in 0 .. MaxRestarts
    BY <1>0 DEF L!Ask, LimitTypes
  <2>3. ASSUME NEW b \in Clients, NEW d \in Endpoints PROVE asked'[b][d][1] \in served'[b][d][1] .. Pace[d]
    <3>1. /\ asked[b][d][1] \in served[b][d][1] .. Pace[d] /\ served[b][d][1] \in Nat /\ asked[b][d][1] \in Nat
          /\ Pace[d] \in Nat /\ 1 \in 1 .. L!Longest(d)
      BY <1>0, HistoryEntry DEF LimitTypes, L!LimitAssumption
    <3>2. served'[b][d][1] = IF b = c /\ d = e /\ L!Allowed(s, Address(c), e)
                             THEN served[b][d][1] + 1 ELSE served[b][d][1]
      BY <1>3, <3>1 DEF ServesOne
    <3>3. asked'[b][d][1] = IF b = c /\ d = e THEN asked[b][d][1] + 1 ELSE asked[b][d][1]
      BY <1>0, <3>1, AskServed DEF Risen
    <3>4. b = c /\ d = e => asked[b][d][1] < Pace[d]
      BY DEF L!Ask
    <3> QED BY <3>1, <3>2, <3>3, <3>4
  <2>4. counter' \in [Stores -> [L!Addresses -> [Endpoints -> Seq(Tally)]]]
        /\ \A t \in Stores, a \in L!Addresses, d \in Endpoints : DOMAIN counter'[t][a][d] = DOMAIN Allowances[d]
    BY <1>0, AskCounters
  <2>5. History(served') /\ History(asked')
    BY <1>0, AskServed
  <2> QED BY <2>1, <2>2, <2>3, <2>4, <2>5 DEF LimitTypes
<1>2. ASSUME NEW b \in Clients, NEW d \in Endpoints, NEW i \in DOMAIN Allowances[d],
             NEW k \in 1 .. Allowances[d][i].span
      PROVE  Fits(store, n, b, d, i, k)'
  <2> DEFINE f == Rooms(store, n, b, d, i, k)
             amount == Allowances[d][i].amount
             x == served[b][d][k] - restarts * amount
  <2>1. PICK g : g = [j \in 1 .. n |-> Room(counter'[store[j]][Address(b)][d][i], k, Allowances[d][i])]
    OBVIOUS
  <2>2. /\ Allowances[d][i] \in L!Limit /\ amount \in Nat /\ served[b][d][k] \in Nat /\ restarts \in Nat
        /\ k \in 1 .. L!Longest(d) /\ Address(b) \in L!Addresses /\ restarts' = restarts
        /\ restarts * amount \in Int /\ x \in Int
    <3>1. /\ Allowances[d][i] \in L!Limit /\ amount \in Nat /\ served[b][d][k] \in Nat /\ restarts \in Nat
          /\ k \in 1 .. L!Longest(d)
      BY <1>0, RoomsType
    <3>2. Address(b) \in L!Addresses /\ restarts' = restarts
      BY DEF L!Ask, L!Addresses
    <3> HIDE DEF amount
    <3>3. restarts * amount \in Int
      BY <3>1
    <3> QED BY <3>1, <3>2, <3>3
  <2>3. ASSUME NEW j \in 1 .. n
        PROVE  /\ f[j] \in Int /\ g[j] \in Int /\ f[j] <= g[j]
               /\ store[j] = s /\ b = c /\ d = e /\ L!Allowed(s, Address(c), e) => f[j] + 1 <= g[j]
    <3> DEFINE old == counter[store[j]][Address(b)][d][i]
               new == L!Counted(old, Allowances[d][i])
    <3>1. /\ Count(old, Allowances[d][i]) /\ f[j] \in Nat /\ f[j] = Room(old, k, Allowances[d][i])
      BY <1>0, RoomsType DEF Rooms
    <3>2. /\ counter'[store[j]][Address(b)][d][i] \in {old, new}
          /\ store[j] = s /\ b = c /\ d = e /\ L!Allowed(s, Address(c), e) =>
               counter'[store[j]][Address(b)][d][i] = new /\ L!Within(old, Allowances[d][i])
      BY <1>0, <2>2, AskCounters
    <3>3. g[j] = Room(counter'[store[j]][Address(b)][d][i], k, Allowances[d][i])
      BY <2>1
    <3> HIDE DEF old, new, f
    <3>4. /\ Room(old, k, Allowances[d][i]) <= Room(new, k, Allowances[d][i])
          /\ L!Within(old, Allowances[d][i]) =>
               Room(old, k, Allowances[d][i]) + 1 <= Room(new, k, Allowances[d][i])
          /\ Room(new, k, Allowances[d][i]) \in Nat
      BY <2>2, <3>1, RoomCounted, RoomType DEF new
    <3> QED BY <3>1, <3>2, <3>3, <3>4
  <2>4. Within(f, n, x)
    BY DEF LimitInv, Fits, Rooms
  <2> HIDE DEF f, x
  <2>5. CASE b = c /\ d = e /\ L!Allowed(s, Address(c), e)
    <3>1. PICK m \in 1 .. n : store[m] = s
      OBVIOUS
    <3>2. Within(g, n, x + 1)
      <4>1. f[m] + 1 <= g[m]
        BY <2>3, <2>5, <3>1
      <4>2. \A j \in 1 .. n : f[j] \in Int /\ g[j] \in Int /\ f[j] <= g[j]
        BY <2>3
      <4>3. PICK one \in Int : one = 1
        OBVIOUS
      <4>4. f[m] + one <= g[m] /\ \A j \in 1 .. n : j # m => f[j] <= g[j]
        BY <4>1, <4>2, <4>3
      <4>5. x \in Int
        BY <2>2
      <4>6. Within(g, n, x + one)
        BY <2>4, <4>2, <4>4, <4>5, WithinChanged
      <4> QED BY <4>3, <4>6
    <3>3. served'[b][d][k] = served[b][d][k] + 1
      BY <1>3, <2>2, <2>5 DEF ServesOne
    <3>4. served'[b][d][k] - restarts' * amount = x + 1
      <4>1. PICK y \in Int : y = restarts * amount
        BY <2>2
      <4>2. x = served[b][d][k] - y /\ restarts' * amount = y
        BY <2>2, <4>1 DEF x
      <4>3. served[b][d][k] \in Nat /\ served'[b][d][k] - y = x + 1
        <5>1. served[b][d][k] \in Nat
          BY <2>2
        <5> QED BY <3>3, <4>2, <5>1
      <4> QED BY <4>2, <4>3
    <3> QED BY <2>1, <3>2, <3>4 DEF Fits
  <2>6. CASE ~(b = c /\ d = e /\ L!Allowed(s, Address(c), e))
    <3>1. Within(g, n, x)
      BY <2>2, <2>3, <2>4, WithinMore
    <3>2. served'[b][d][k] = served[b][d][k]
      BY <1>3, <2>2, <2>6 DEF ServesOne
    <3>3. served'[b][d][k] - restarts' * amount = x
      BY <2>2, <3>2 DEF x
    <3> QED BY <2>1, <3>1, <3>3 DEF Fits
  <2> QED BY <2>5, <2>6
<1> QED BY <1>1, <1>2 DEF LimitInv

LEMMA LimitsClock ==
  ASSUME L!LimitAssumption, NEW n \in Nat, NEW store \in [1 .. n -> Stores], LimitInv(store, n), L!Clock
  PROVE  LimitInv(store, n)'
<1>0. LimitTypes
  BY DEF LimitInv
<1>1. ASSUME NEW t \in Stores, NEW a \in L!Addresses, NEW e \in Endpoints
      PROVE  /\ counter'[t][a][e] \in Seq(Tally) /\ DOMAIN counter'[t][a][e] = DOMAIN Allowances[e]
             /\ \A i \in DOMAIN Allowances[e] :
                  /\ counter'[t][a][e][i] = Aged(counter[t][a][e][i])
                  /\ Count(counter'[t][a][e][i], Allowances[e][i])
  <2> DEFINE new == [i \in DOMAIN Allowances[e] |-> Aged(counter[t][a][e][i])]
  <2>1. counter'[t][a][e] = new
    BY DEF L!Clock, Aged
  <2>2. ASSUME NEW i \in DOMAIN Allowances[e]
        PROVE  Count(Aged(counter[t][a][e][i]), Allowances[e][i])
    <3>1. Count(counter[t][a][e][i], Allowances[e][i]) /\ Allowances[e][i] \in L!Limit
      BY <1>0, Spans DEF LimitTypes
    <3> QED BY <3>1, RoomAged
  <2>3. \A i \in DOMAIN Allowances[e] : Aged(counter[t][a][e][i]) \in Tally
    BY <2>2 DEF Count, Tally
  <2>4. new \in Seq(Tally) /\ DOMAIN new = DOMAIN Allowances[e]
        /\ \A i \in DOMAIN Allowances[e] : new[i] = Aged(counter[t][a][e][i])
    BY <2>3, Spans
  <2> HIDE DEF new
  <2> QED BY <2>1, <2>2, <2>4
<1>2. /\ History(served') /\ History(asked')
      /\ \A c \in Clients, e \in Endpoints : \A k \in 1 .. L!Longest(e) :
           /\ served'[c][e][k] = IF k = 1 THEN 0 ELSE served[c][e][k - 1]
           /\ asked'[c][e][k] = IF k = 1 THEN 0 ELSE asked[c][e][k - 1]
  BY <1>0, ClockHistories DEF Older
<1>3. LimitTypes'
  <2>1. counter' \in [Stores -> [L!Addresses -> [Endpoints -> Seq(Tally)]]]
    <3>1. counter' = [s \in Stores |-> [a \in L!Addresses |-> [e \in Endpoints |-> counter'[s][a][e]]]]
      BY DEF L!Clock
    <3> QED BY <1>1, <3>1
  <2>2. restarts' \in 0 .. MaxRestarts
    BY <1>0 DEF LimitTypes, L!Clock
  <2>3. ASSUME NEW c \in Clients, NEW e \in Endpoints PROVE asked'[c][e][1] \in served'[c][e][1] .. Pace[e]
    <3>1. 1 \in 1 .. L!Longest(e) /\ Pace[e] \in Nat
      BY Spans DEF L!LimitAssumption
    <3>2. asked'[c][e][1] = 0 /\ served'[c][e][1] = 0
      BY <1>2, <3>1
    <3> QED BY <3>1, <3>2
  <2> QED BY <1>1, <1>2, <2>1, <2>2, <2>3 DEF LimitTypes
<1>4. ASSUME NEW c \in Clients, NEW e \in Endpoints, NEW i \in DOMAIN Allowances[e],
             NEW k \in 1 .. Allowances[e][i].span
      PROVE  Fits(store, n, c, e, i, k)'
  <2> DEFINE limit == Allowances[e][i]
  <2>1. PICK g : g = [j \in 1 .. n |-> Room(counter'[store[j]][Address(c)][e][i], k, limit)]
    OBVIOUS
  <2>2. /\ limit \in L!Limit /\ limit.amount \in Nat /\ limit.span \in Nat /\ restarts \in Nat
        /\ k \in 1 .. L!Longest(e) /\ Address(c) \in L!Addresses /\ restarts' = restarts
    BY <1>0, RoomsType DEF L!Clock, L!Addresses
  <2>3. restarts * limit.amount \in Nat
    <3>1. PICK amount \in Nat : amount = limit.amount
      BY <2>2
    <3>2. restarts * amount \in Nat
      BY <2>2
    <3> QED BY <3>1, <3>2
  <2>4. \A j \in 1 .. n : /\ g[j] \in Nat
                          /\ Count(counter[store[j]][Address(c)][e][i], limit)
                          /\ g[j] = Room(Aged(counter[store[j]][Address(c)][e][i]), k, limit)
    <3> SUFFICES ASSUME NEW j \in 1 .. n
                 PROVE  /\ g[j] \in Nat
                        /\ Count(counter[store[j]][Address(c)][e][i], limit)
                        /\ g[j] = Room(Aged(counter[store[j]][Address(c)][e][i]), k, limit)
      OBVIOUS
    <3>1. Count(counter[store[j]][Address(c)][e][i], limit)
      BY <1>0, <2>2 DEF LimitTypes
    <3>2. /\ counter'[store[j]][Address(c)][e][i] = Aged(counter[store[j]][Address(c)][e][i])
          /\ Count(counter'[store[j]][Address(c)][e][i], limit)
      BY <1>1, <2>2
    <3>3. g[j] = Room(counter'[store[j]][Address(c)][e][i], k, limit)
      BY <2>1
    <3> QED BY <2>2, <3>1, <3>2, <3>3, RoomType
  <2>5. CASE k = 1
    <3>1. served'[c][e][k] = 0
      BY <1>2, <2>2, <2>5
    <3>2. PICK y \in Nat : y = restarts * limit.amount
      BY <2>3
    <3>3. 0 - y \in Int /\ 0 - y <= 0
      OBVIOUS
    <3>4. Within(g, n, 0 - y)
      BY <2>4, <3>3, WithinZero
    <3>5. served'[c][e][k] - restarts' * limit.amount = 0 - y
      BY <2>2, <3>1, <3>2
    <3> QED BY <2>1, <3>4, <3>5 DEF Fits
  <2>6. CASE k # 1
    <3>1. k - 1 \in 1 .. limit.span /\ k \in 2 .. limit.span
      BY <2>2, <2>6
    <3> DEFINE f == Rooms(store, n, c, e, i, k - 1)
               x == served[c][e][k - 1] - restarts * limit.amount
    <3>2. Within(f, n, x)
      BY <3>1 DEF LimitInv, Fits, Rooms
    <3>3. ASSUME NEW j \in 1 .. n PROVE f[j] \in Int /\ g[j] \in Int /\ f[j] <= g[j]
      <4>1. f[j] \in Nat /\ f[j] = Room(counter[store[j]][Address(c)][e][i], k - 1, limit)
        BY <1>0, <3>1, RoomsType DEF Rooms
      <4> HIDE DEF f
      <4> QED BY <2>2, <2>4, <3>1, <4>1, RoomAged
    <3>4. served'[c][e][k] - restarts' * limit.amount = x
      BY <1>2, <2>2, <2>6
    <3> HIDE DEF f, x
    <3>5. Within(g, n, x)
      BY <3>2, <3>3, WithinMore
    <3> QED BY <2>1, <3>4, <3>5 DEF Fits
  <2> QED BY <2>5, <2>6
<1> QED BY <1>3, <1>4 DEF LimitInv

LEMMA LimitsRestart ==
  ASSUME L!LimitAssumption, NEW n \in Nat, NEW store \in [1 .. n -> Stores],
         \A t \in Stores : \E j \in 1 .. n : store[j] = t,
         \A j, m \in 1 .. n : store[j] = store[m] => j = m,
         LimitInv(store, n), NEW s \in Stores, L!Restart(s)
  PROVE  LimitInv(store, n)'
<1>0. LimitTypes /\ counter \in [Stores -> [L!Addresses -> [Endpoints -> Seq(Tally)]]]
  BY DEF LimitInv, LimitTypes
<1>1. counter' = [counter EXCEPT ![s] = L!Fresh] /\ UNCHANGED <<asked, served>>
      /\ restarts' = restarts + 1 /\ restarts' \in 0 .. MaxRestarts /\ restarts \in Nat
  BY <1>0 DEF L!Restart, LimitTypes, L!LimitAssumption
<1>2. L!Fresh \in [L!Addresses -> [Endpoints -> Seq(Tally)]]
      /\ \A a \in L!Addresses, e \in Endpoints :
           /\ DOMAIN L!Fresh[a][e] = DOMAIN Allowances[e]
           /\ \A i \in DOMAIN Allowances[e] : L!Fresh[a][e][i] = L!Zero
  <2>1. L!Zero \in Tally
    BY DEF L!Zero, Tally
  <2>2. ASSUME NEW e \in Endpoints, NEW new, new = [i \in DOMAIN Allowances[e] |-> L!Zero]
        PROVE  /\ new \in Seq(Tally) /\ DOMAIN new = DOMAIN Allowances[e]
               /\ \A i \in DOMAIN Allowances[e] : new[i] = L!Zero
    BY <2>1, <2>2, Spans
  <2>3. ASSUME NEW a \in L!Addresses, NEW e \in Endpoints
        PROVE  L!Fresh[a][e] = [i \in DOMAIN Allowances[e] |-> L!Zero]
    BY DEF L!Fresh
  <2>4. L!Fresh = [a \in L!Addresses |-> [e \in Endpoints |-> L!Fresh[a][e]]]
    BY DEF L!Fresh
  <2>5. ASSUME NEW a \in L!Addresses, NEW e \in Endpoints
        PROVE  /\ L!Fresh[a][e] \in Seq(Tally) /\ DOMAIN L!Fresh[a][e] = DOMAIN Allowances[e]
               /\ \A i \in DOMAIN Allowances[e] : L!Fresh[a][e][i] = L!Zero
    BY <2>2, <2>3
  <2>6. L!Fresh \in [L!Addresses -> [Endpoints -> Seq(Tally)]]
    BY <2>4, <2>5
  <2> QED BY <2>5, <2>6
<1>3. /\ counter' \in [Stores -> [L!Addresses -> [Endpoints -> Seq(Tally)]]]
      /\ \A t \in Stores : counter'[t] = IF t = s THEN L!Fresh ELSE counter[t]
  BY <1>0, <1>1, <1>2
<1>4. LimitTypes'
  <2>1. ASSUME NEW t \in Stores, NEW a \in L!Addresses, NEW e \in Endpoints
        PROVE  /\ DOMAIN counter'[t][a][e] = DOMAIN Allowances[e]
               /\ \A i \in DOMAIN Allowances[e] : Count(counter'[t][a][e][i], Allowances[e][i])
    <3>1. CASE t = s
      <4>1. counter'[t] = L!Fresh
        BY <1>3, <3>1
      <4>2. \A i \in DOMAIN Allowances[e] : Count(L!Zero, Allowances[e][i])
        <5>1. ASSUME NEW i \in DOMAIN Allowances[e] PROVE Count(L!Zero, Allowances[e][i])
          <6>1. Allowances[e][i] \in L!Limit /\ Count(counter[t][a][e][i], Allowances[e][i])
            BY <1>0, Spans DEF LimitTypes
          <6> QED BY <6>1, RoomFresh
        <5> QED BY <5>1
      <4> QED BY <1>2, <4>1, <4>2
    <3>2. CASE t # s
      <4>1. counter'[t] = counter[t]
        BY <1>3, <3>2
      <4> QED BY <1>0, <4>1 DEF LimitTypes
    <3> QED BY <3>1, <3>2
  <2> QED BY <1>0, <1>1, <1>3, <2>1 DEF LimitTypes
<1>5. ASSUME NEW c \in Clients, NEW e \in Endpoints, NEW i \in DOMAIN Allowances[e],
             NEW k \in 1 .. Allowances[e][i].span
      PROVE  Fits(store, n, c, e, i, k)'
  <2> DEFINE limit == Allowances[e][i]
             f == Rooms(store, n, c, e, i, k)
             x == served[c][e][k] - restarts * limit.amount
  <2>1. PICK g : g = [j \in 1 .. n |-> Room(counter'[store[j]][Address(c)][e][i], k, limit)]
    OBVIOUS
  <2>2. /\ limit \in L!Limit /\ limit.amount \in Nat /\ limit.span \in Nat
        /\ Address(c) \in L!Addresses /\ served[c][e][k] \in Nat
    BY <1>0, RoomsType DEF L!Addresses
  <2>3. PICK m \in 1 .. n : store[m] = s
    OBVIOUS
  <2>4. PICK d \in Int : d = 0 - limit.amount
    BY <2>2
  <2>5. ASSUME NEW j \in 1 .. n
        PROVE  /\ f[j] \in Int /\ g[j] \in Int /\ (j # m => f[j] <= g[j]) /\ (j = m => f[j] + d <= g[j])
    <3>1. /\ f[j] \in Nat /\ f[j] = Room(counter[store[j]][Address(c)][e][i], k, limit)
          /\ Count(counter[store[j]][Address(c)][e][i], limit)
      BY <1>0, RoomsType DEF Rooms
    <3>2. g[j] = Room(counter'[store[j]][Address(c)][e][i], k, limit)
      BY <2>1
    <3> HIDE DEF f
    <3>3. CASE j = m
      <4>1. counter'[store[j]][Address(c)][e][i] = L!Zero
        BY <1>2, <1>3, <2>2, <2>3, <3>3
      <4>2. Room(L!Zero, k, limit) \in Nat
        BY <2>2, <3>1, RoomFresh, RoomType
      <4> QED BY <2>2, <2>4, <3>1, <3>2, <3>3, <4>1, <4>2, RoomFresh
    <3>4. CASE j # m
      <4>1. store[j] # s
        BY <2>3, <3>4
      <4>2. counter'[store[j]] = counter[store[j]]
        BY <1>3, <4>1
      <4> QED BY <3>1, <3>2, <3>4, <4>2
    <3> QED BY <3>3, <3>4
  <2>6. Within(f, n, x)
    BY DEF LimitInv, Fits, Rooms
  <2>7. x \in Int /\ served'[c][e][k] - restarts' * limit.amount = x + d
    <3>1. PICK a \in Nat : a = limit.amount
      BY <2>2
    <3>2. (restarts + 1) * a = restarts * a + a /\ restarts * a \in Nat
      BY <1>1
    <3>3. PICK b \in Nat : b = restarts * a
      BY <3>2
    <3>4. PICK v \in Nat : v = served[c][e][k]
      BY <2>2
    <3>5. served'[c][e][k] = v /\ restarts' * limit.amount = b + a /\ restarts * limit.amount = b
      BY <1>1, <3>1, <3>2, <3>3, <3>4
    <3>6. x = v - b
      BY <3>4, <3>5
    <3>7. d = 0 - a
      BY <2>4, <3>1
    <3> HIDE DEF x
    <3> QED BY <3>5, <3>6, <3>7
  <2> HIDE DEF f, x
  <2>8. Within(g, n, x + d)
    <3>1. \A j \in 1 .. n : f[j] \in Int /\ g[j] \in Int
      BY <2>5
    <3>2. f[m] + d <= g[m] /\ \A j \in 1 .. n : j # m => f[j] <= g[j]
      BY <2>5
    <3>3. x \in Int
      BY <2>7
    <3> QED BY <2>6, <3>1, <3>2, <3>3, WithinChanged
  <2> QED BY <2>1, <2>7, <2>8 DEF Fits
<1> QED BY <1>4, <1>5 DEF LimitInv

LEMMA LimitsNext ==
  ASSUME L!LimitAssumption, NEW n \in Nat, NEW store \in [1 .. n -> Stores],
         \A t \in Stores : \E j \in 1 .. n : store[j] = t,
         \A j, m \in 1 .. n : store[j] = store[m] => j = m
  PROVE  LimitInv(store, n) /\ [L!Next]_L!vars => LimitInv(store, n)'
<1> SUFFICES ASSUME LimitInv(store, n), [L!Next]_L!vars PROVE LimitInv(store, n)'
  OBVIOUS
<1>1. CASE UNCHANGED L!vars
  BY <1>1 DEF L!vars, LimitInv, LimitTypes, Fits
<1> QED BY <1>1, LimitsAsk, LimitsClock, LimitsRestart DEF L!Next

LEMMA StoresFinite ==
  L!Cardinality(Stores) = Cardinality(Stores) /\ (L!IsFiniteSet(Stores) => IsFiniteSet(Stores))
BY DEF L!Cardinality, Cardinality, L!IsFiniteSet, IsFiniteSet

\* Each of the stores has one number.
Numbers(store, n) ==
  /\ \A t \in Stores : \E j \in 1 .. n : store[j] = t
  /\ \A j, m \in 1 .. n : store[j] = store[m] => j = m

LEMMA StoresNumbered ==
  ASSUME L!LimitAssumption, NEW n \in Nat, n = Cardinality(Stores)
  PROVE  \E store \in [1 .. n -> Stores] : Numbers(store, n)
<1>1. ExistsBijection(1 .. n, Stores)
  BY StoresFinite, FS_CardinalityType DEF L!LimitAssumption
<1>2. PICK store : store \in Bijection(1 .. n, Stores)
  BY <1>1 DEF ExistsBijection
<1> QED BY <1>2 DEF Bijection, Injection, Surjection, IsInjective, Numbers

LEMMA LimitsInvariant ==
  ASSUME L!LimitAssumption, NEW n \in Nat, NEW store \in [1 .. n -> Stores], Numbers(store, n)
  PROVE  L!Spec => []LimitInv(store, n)
<1>1. L!Init => LimitInv(store, n)
  BY LimitsInit DEF Numbers
<1>2. LimitInv(store, n) /\ [L!Next]_L!vars => LimitInv(store, n)'
  BY LimitsNext DEF Numbers
<1> QED BY <1>1, <1>2, PTL DEF L!Spec

\* The types of RateLimit: a counter has hits while its window lasts and none after it, and
\* a client is served no more than it has asked for.
LEMMA LimitsTypes == ASSUME L!LimitAssumption PROVE L!Spec => []L!TypeOK
<1>1. PICK n \in Nat : n = Cardinality(Stores)
  BY StoresFinite, FS_CardinalityType DEF L!LimitAssumption
<1>2. PICK store \in [1 .. n -> Stores] : Numbers(store, n)
  BY <1>1, StoresNumbered
<1>3. L!Spec => []LimitInv(store, n)
  BY <1>2, LimitsInvariant
<1>4. LimitInv(store, n) => L!TypeOK
  <2> SUFFICES ASSUME LimitTypes PROVE L!TypeOK
    BY DEF LimitInv
  <2>1. ASSUME NEW s \in Stores, NEW a \in L!Addresses, NEW e \in Endpoints,
               NEW i \in DOMAIN Allowances[e]
        PROVE  /\ counter[s][a][e][i].hits \in Nat
               /\ counter[s][a][e][i].left \in 0 .. Allowances[e][i].span
               /\ counter[s][a][e][i].hits = 0 <=> counter[s][a][e][i].left = 0
    <3>1. Count(counter[s][a][e][i], Allowances[e][i]) /\ Allowances[e][i] \in L!Limit
      BY Spans DEF LimitTypes
    <3> QED BY <3>1 DEF Count, L!Limit
  <2>2. ASSUME NEW c \in Clients, NEW e \in Endpoints
        PROVE  /\ served[c][e] \in [1 .. L!Longest(e) -> Nat] /\ asked[c][e] \in [1 .. L!Longest(e) -> Nat]
               /\ asked[c][e][1] \in served[c][e][1] .. Pace[e]
    <3>1. ASSUME NEW h, History(h) PROVE h[c][e] \in [1 .. L!Longest(e) -> Nat]
      <4>1. PICK row : row = h[c][e]
        OBVIOUS
      <4>2. row \in Seq(Nat) /\ DOMAIN row = 1 .. L!Longest(e)
        BY <3>1, <4>1 DEF History
      <4>3. row \in [1 .. Len(row) -> Nat]
        BY <4>2
      <4> QED BY <4>1, <4>2, <4>3
    <3> QED BY <3>1 DEF LimitTypes
  <2> QED BY <2>1, <2>2 DEF LimitTypes, L!TypeOK
<1> QED BY <1>3, <1>4, PTL

LEMMA LimitsHold == ASSUME L!LimitAssumption PROVE L!Spec => []L!AllowanceHolds
<1>1. PICK n \in Nat : n = Cardinality(Stores)
  BY StoresFinite, FS_CardinalityType DEF L!LimitAssumption
<1>2. PICK store \in [1 .. n -> Stores] : Numbers(store, n)
  BY <1>1, StoresNumbered
<1>3. L!Spec => []LimitInv(store, n)
  BY <1>2, LimitsInvariant
<1>4. LimitInv(store, n) => L!AllowanceHolds
  <2> SUFFICES ASSUME LimitInv(store, n), NEW c \in Clients, NEW e \in Endpoints,
                      NEW i \in DOMAIN Allowances[e]
               PROVE  served[c][e][Allowances[e][i].span]
                        <= Allowances[e][i].amount * (2 * n + restarts)
    BY <1>1, StoresFinite DEF L!AllowanceHolds
  <2> DEFINE limit == Allowances[e][i]
             k == limit.span
             f == Rooms(store, n, c, e, i, k)
             x == served[c][e][k] - restarts * limit.amount
  <2>1. LimitTypes /\ k \in 1 .. limit.span
    BY Spans DEF LimitInv, L!Limit
  <2>2. /\ \A j \in 1 .. n : f[j] \in Int /\ f[j] <= 2 * limit.amount
        /\ limit.amount \in Nat /\ served[c][e][k] \in Nat /\ restarts \in Nat
    BY <1>1, <1>2, <2>1, RoomsType
  <2>3. Within(f, n, x)
    BY <2>1 DEF LimitInv, Fits, Rooms
  <2>4. PICK a \in Nat : a = limit.amount
    BY <2>2
  <2>5. x \in Int /\ restarts * a \in Nat
    BY <2>2, <2>4
  <2> HIDE DEF f, x
  <2>6. PICK b \in Nat : b = 2 * a
    OBVIOUS
  <2>7. x <= n * b
    BY <1>1, <2>2, <2>3, <2>4, <2>5, <2>6, WithinBound
  <2>8. n * b = a * (2 * n) /\ a * (2 * n + restarts) = a * (2 * n) + restarts * a
    BY <1>1, <2>2, <2>6
  <2>9. PICK v \in Nat : v = served[c][e][k]
    BY <2>2
  <2>10. PICK y \in Nat : y = restarts * a
    BY <2>5
  <2>11. x = v - y
    BY <2>4, <2>9, <2>10 DEF x
  <2>12. PICK z \in Int : z = a * (2 * n)
    BY <1>1, <2>4
  <2>13. v <= z + y
    <3>1. x <= z
      BY <2>7, <2>8, <2>12
    <3>2. x \in Int
      BY <2>9, <2>10, <2>11
    <3> QED BY <2>11, <3>1, <3>2
  <2>14. a * (2 * n + restarts) = z + y
    BY <2>8, <2>10, <2>12
  <2> QED BY <2>4, <2>9, <2>13, <2>14
<1> QED BY <1>3, <1>4, PTL

\* No window of the address of c, which nobody shares, has more hits than c has asked for
\* in as many units of time as the window is old.
Own(c, e) ==
  \A s \in Stores : \A i \in DOMAIN Allowances[e] :
    LET n == counter[s][Address(c)][e][i] IN
    \A k \in 1 .. Allowances[e][i].span :
      k > Allowances[e][i].span - n.left => n.hits <= asked[c][e][k]

Paced(c, e) ==
  \A i \in DOMAIN Allowances[e] : asked[c][e][Allowances[e][i].span] <= Allowances[e][i].amount

PacedInv(c, e) == LimitTypes /\ Own(c, e) /\ (Paced(c, e) => served[c][e][1] = asked[c][e][1])

LEMMA OwnCounters ==
  ASSUME L!LimitAssumption, LimitTypes, NEW c \in Clients, NEW e \in Endpoints, NEW s \in Stores,
         NEW i \in DOMAIN Allowances[e]
  PROVE  /\ Address(c) \in L!Addresses /\ Allowances[e][i] \in L!Limit
         /\ Allowances[e][i].amount \in Nat /\ Allowances[e][i].span \in Nat \ {0}
         /\ Count(counter[s][Address(c)][e][i], Allowances[e][i])
         /\ counter[s][Address(c)][e][i].hits \in Nat /\ counter[s][Address(c)][e][i].left \in Nat
         /\ \A k \in 1 .. Allowances[e][i].span : k \in 1 .. L!Longest(e) /\ asked[c][e][k] \in Nat
<1>1. Address(c) \in L!Addresses /\ Allowances[e][i] \in L!Limit
  BY Spans DEF L!Addresses
<1>2. /\ Allowances[e][i].amount \in Nat /\ Allowances[e][i].span \in Nat \ {0}
      /\ Allowances[e][i].span <= L!Longest(e) /\ L!Longest(e) \in Nat
  BY <1>1, Spans DEF L!Limit
<1>3. Count(counter[s][Address(c)][e][i], Allowances[e][i])
  BY <1>1 DEF LimitTypes
<1>4. counter[s][Address(c)][e][i].hits \in Nat /\ counter[s][Address(c)][e][i].left \in Nat
  BY <1>3 DEF Count
<1>5. \A k \in 1 .. L!Longest(e) : asked[c][e][k] \in Nat
  BY HistoryEntry DEF LimitTypes
<1> QED BY <1>1, <1>2, <1>3, <1>4, <1>5

\* A hit more.
LEMMA OwnAsk ==
  ASSUME L!LimitAssumption, LimitTypes, NEW c \in Clients, NEW e \in Endpoints, L!Alone(c), Own(c, e),
         NEW b \in Clients, NEW d \in Endpoints, NEW s \in Stores, L!Ask(b, d, s)
  PROVE  Own(c, e)'
<1> SUFFICES ASSUME NEW t \in Stores, NEW i \in DOMAIN Allowances[e], NEW k \in 1 .. Allowances[e][i].span,
                    k > Allowances[e][i].span - counter'[t][Address(c)][e][i].left
             PROVE  counter'[t][Address(c)][e][i].hits <= asked'[c][e][k]
  BY DEF Own
<1>1. PICK n : n = counter[t][Address(c)][e][i]
  OBVIOUS
<1>2. PICK limit : limit = Allowances[e][i]
  OBVIOUS
<1>3. /\ n.hits \in Nat /\ n.left \in Nat /\ n \in [hits : Nat, left : Nat]
      /\ limit.span \in Nat \ {0} /\ k \in 1 .. L!Longest(e) /\ asked[c][e][k] \in Nat
      /\ n.left <= limit.span /\ (n.hits = 0 <=> n.left = 0) /\ Address(c) \in L!Addresses
  BY <1>1, <1>2, OwnCounters DEF Count
<1>4. k > limit.span - n.left => n.hits <= asked[c][e][k]
  BY <1>1, <1>2 DEF Own
<1>5. counter'[t][Address(c)][e][i] \in {n, L!Counted(n, limit)}
  BY <1>1, <1>2, <1>3, AskCounters
<1>6. asked'[c][e][k] = IF c = b /\ e = d THEN asked[c][e][k] + 1 ELSE asked[c][e][k]
  BY <1>3, AskServed DEF Risen
<1>7. CASE c = b /\ e = d
  <2>1. CASE counter'[t][Address(c)][e][i] = n
    BY <1>2, <1>3, <1>4, <1>6, <1>7, <2>1
  <2>2. CASE counter'[t][Address(c)][e][i] = L!Counted(n, limit)
    <3>1. CASE n.left = 0
      <4>1. L!Counted(n, limit).hits = 1
        BY <3>1 DEF L!Counted
      <4> QED BY <1>3, <1>6, <1>7, <2>2, <4>1
    <3>2. CASE n.left # 0
      <4>1. L!Counted(n, limit).hits = n.hits + 1 /\ L!Counted(n, limit).left = n.left
        BY <1>3, <3>2 DEF L!Counted
      <4> QED BY <1>2, <1>3, <1>4, <1>6, <1>7, <2>2, <4>1
    <3> QED BY <3>1, <3>2
  <2> QED BY <1>5, <2>1, <2>2
<1>8. CASE ~(c = b /\ e = d)
  <2>1. ~(Address(c) = Address(b) /\ e = d)
    BY <1>8 DEF L!Alone
  <2>2. counter'[t][Address(c)][e] = counter[t][Address(c)][e]
    <3>1. counter \in [Stores -> [L!Addresses -> [Endpoints -> Seq(Tally)]]]
      BY DEF LimitTypes
    <3>2. PICK new : counter' = [counter EXCEPT ![s][Address(b)][d] = new]
      BY DEF L!Ask, L!Hit
    <3>3. Address(b) \in L!Addresses
      BY DEF L!Addresses
    <3>4. PICK x, y : x = Address(b) /\ y = Address(c)
      OBVIOUS
    <3>5. x \in L!Addresses /\ y \in L!Addresses /\ ~(y = x /\ e = d)
      BY <1>3, <2>1, <3>3, <3>4
    <3>6. counter' = [counter EXCEPT ![s][x][d] = new]
      BY <3>2, <3>4
    <3>7. counter'[t][y][e] = counter[t][y][e]
      BY <3>1, <3>5, <3>6
    <3> QED BY <3>4, <3>7
  <2>3. counter'[t][Address(c)][e][i] = n
    BY <1>1, <2>2
  <2> QED BY <1>2, <1>4, <1>6, <1>8, <2>3
<1> QED BY <1>7, <1>8

\* As long as c keeps to its pace, it exceeds no limit.
LEMMA PacedAllowed ==
  ASSUME L!LimitAssumption, LimitTypes, NEW c \in Clients, NEW e \in Endpoints, Own(c, e),
         NEW s \in Stores, L!Ask(c, e, s), Paced(c, e)'
  PROVE  L!Allowed(s, Address(c), e) /\ Paced(c, e)
<1>1. ASSUME NEW i \in DOMAIN Allowances[e]
      PROVE  /\ L!Within(counter[s][Address(c)][e][i], Allowances[e][i])
             /\ asked[c][e][Allowances[e][i].span] <= Allowances[e][i].amount
  <2>1. PICK n : n = counter[s][Address(c)][e][i]
    OBVIOUS
  <2>2. PICK limit : limit = Allowances[e][i]
    OBVIOUS
  <2>3. /\ n.hits \in Nat /\ n.left \in Nat /\ n \in [hits : Nat, left : Nat]
        /\ limit.span \in Nat \ {0} /\ limit.amount \in Nat
        /\ limit.span \in 1 .. L!Longest(e) /\ asked[c][e][limit.span] \in Nat
    BY <2>1, <2>2, OwnCounters DEF Count
  <2>4. asked'[c][e][limit.span] = asked[c][e][limit.span] + 1
    BY <2>3, AskServed DEF Risen
  <2>5. asked'[c][e][limit.span] <= limit.amount
    BY <2>2 DEF Paced
  <2>6. n.left # 0 => n.hits <= asked[c][e][limit.span]
    <3>1. limit.span \in 1 .. limit.span /\ (n.left # 0 => limit.span > limit.span - n.left)
      BY <2>3
    <3> QED BY <2>1, <2>2, <3>1 DEF Own
  <2>7. L!Counted(n, limit).hits = IF n.left = 0 THEN 1 ELSE n.hits + 1
    BY <2>3 DEF L!Counted
  <2>8. L!Counted(n, limit).hits <= limit.amount /\ asked[c][e][limit.span] <= limit.amount
    BY <2>3, <2>4, <2>5, <2>6, <2>7
  <2> QED BY <2>1, <2>2, <2>8 DEF L!Within
<1> QED BY <1>1 DEF L!Allowed, Paced

LEMMA PacedAsk ==
  ASSUME L!LimitAssumption, NEW c \in Clients, NEW e \in Endpoints, L!Alone(c), PacedInv(c, e), LimitTypes',
         NEW b \in Clients, NEW d \in Endpoints, NEW s \in Stores, L!Ask(b, d, s)
  PROVE  PacedInv(c, e)'
<1>1. LimitTypes /\ Own(c, e) /\ (Paced(c, e) => served[c][e][1] = asked[c][e][1])
  BY DEF PacedInv
<1>2. Own(c, e)'
  BY <1>1, OwnAsk
<1>3. 1 \in 1 .. L!Longest(e) /\ asked[c][e][1] \in Nat
  BY <1>1, HistoryEntry DEF LimitTypes
<1>4. /\ served'[c][e][1] = IF c = b /\ e = d /\ L!Allowed(s, Address(b), d)
                            THEN served[c][e][1] + 1 ELSE served[c][e][1]
      /\ asked'[c][e][1] = IF c = b /\ e = d THEN asked[c][e][1] + 1 ELSE asked[c][e][1]
  BY <1>1, <1>3, AskServed DEF ServesOne, Risen
<1>5. ASSUME Paced(c, e)' PROVE served'[c][e][1] = asked'[c][e][1]
  <2>1. CASE c = b /\ e = d
    <3>1. L!Ask(c, e, s)
      BY <2>1
    <3>2. L!Allowed(s, Address(c), e) /\ Paced(c, e)
      BY <1>1, <1>5, <3>1, PacedAllowed
    <3> QED BY <1>1, <1>4, <2>1, <3>2
  <2>2. CASE ~(c = b /\ e = d)
    <3>1. ASSUME NEW i \in DOMAIN Allowances[e]
          PROVE  asked[c][e][Allowances[e][i].span] <= Allowances[e][i].amount
      <4>1. PICK k : k = Allowances[e][i].span
        OBVIOUS
      <4>2. k \in 1 .. L!Longest(e)
        BY <1>1, <4>1, Spans DEF L!Limit
      <4>3. asked'[c][e][k] = asked[c][e][k]
        BY <1>1, <2>2, <4>2, AskServed DEF Risen
      <4>4. asked'[c][e][k] <= Allowances[e][i].amount
        BY <1>5, <4>1 DEF Paced
      <4> QED BY <4>1, <4>3, <4>4
    <3>2. Paced(c, e)
      BY <3>1 DEF Paced
    <3> QED BY <1>1, <1>4, <2>2, <3>2
  <2> QED BY <2>1, <2>2
<1> QED BY <1>2, <1>5 DEF PacedInv

LEMMA PacedClock ==
  ASSUME L!LimitAssumption, NEW c \in Clients, NEW e \in Endpoints, PacedInv(c, e), LimitTypes', L!Clock
  PROVE  PacedInv(c, e)'
<1>0. LimitTypes /\ Own(c, e)
  BY DEF PacedInv
<1>1. \A k \in 1 .. L!Longest(e) :
        /\ served'[c][e][k] = IF k = 1 THEN 0 ELSE served[c][e][k - 1]
        /\ asked'[c][e][k] = IF k = 1 THEN 0 ELSE asked[c][e][k - 1]
  BY <1>0, ClockHistories DEF Older
<1>2. served'[c][e][1] = asked'[c][e][1]
  <2>1. 1 \in 1 .. L!Longest(e)
    BY Spans
  <2> QED BY <1>1, <2>1
<1>3. Own(c, e)'
  <2> SUFFICES ASSUME NEW t \in Stores, NEW i \in DOMAIN Allowances[e], NEW k \in 1 .. Allowances[e][i].span,
                      k > Allowances[e][i].span - counter'[t][Address(c)][e][i].left
               PROVE  counter'[t][Address(c)][e][i].hits <= asked'[c][e][k]
    BY DEF Own
  <2>1. PICK n : n = counter[t][Address(c)][e][i]
    OBVIOUS
  <2>2. PICK limit : limit = Allowances[e][i]
    OBVIOUS
  <2>3. /\ n.hits \in Nat /\ n.left \in Nat /\ n \in [hits : Nat, left : Nat] /\ n.left <= limit.span
        /\ limit.span \in Nat \ {0} /\ k \in 1 .. L!Longest(e) /\ k \in 1 .. limit.span
        /\ Address(c) \in L!Addresses
    BY <1>0, <2>1, <2>2, OwnCounters DEF Count
  <2>4. counter'[t][Address(c)][e][i] = Aged(n)
    <3>1. counter'[t][Address(c)][e] = [j \in DOMAIN Allowances[e] |-> Aged(counter[t][Address(c)][e][j])]
      BY <2>3 DEF L!Clock, Aged
    <3> QED BY <2>1, <3>1
  <2>5. CASE n.left <= 1
    <3>1. Aged(n).left = 0
      BY <2>5 DEF Aged, L!Zero
    <3> QED BY <2>2, <2>3, <2>4, <3>1
  <2>6. CASE ~(n.left <= 1)
    <3>1. Aged(n).hits = n.hits /\ Aged(n).left = n.left - 1
      BY <2>3, <2>6 DEF Aged
    <3>2. k > limit.span - (n.left - 1)
      BY <2>2, <2>4, <3>1
    <3>3. k - 1 \in 1 .. limit.span /\ k - 1 > limit.span - n.left /\ k # 1
      BY <2>3, <3>2
    <3>4. n.hits <= asked[c][e][k - 1]
      BY <1>0, <2>1, <2>2, <3>3 DEF Own
    <3>5. asked'[c][e][k] = asked[c][e][k - 1]
      BY <1>1, <2>3, <3>3
    <3> QED BY <2>4, <3>1, <3>4, <3>5
  <2> QED BY <2>5, <2>6
<1> QED BY <1>2, <1>3 DEF PacedInv

LEMMA PacedRestart ==
  ASSUME L!LimitAssumption, NEW c \in Clients, NEW e \in Endpoints, PacedInv(c, e), LimitTypes',
         NEW s \in Stores, L!Restart(s)
  PROVE  PacedInv(c, e)'
<1>0. LimitTypes /\ Own(c, e) /\ (Paced(c, e) => served[c][e][1] = asked[c][e][1])
  BY DEF PacedInv
<1>1. counter' = [counter EXCEPT ![s] = L!Fresh] /\ UNCHANGED <<asked, served>>
  BY DEF L!Restart
<1>2. counter \in [Stores -> [L!Addresses -> [Endpoints -> Seq(Tally)]]]
  BY <1>0 DEF LimitTypes
<1>3. Own(c, e)'
  <2> SUFFICES ASSUME NEW t \in Stores, NEW i \in DOMAIN Allowances[e], NEW k \in 1 .. Allowances[e][i].span,
                      k > Allowances[e][i].span - counter'[t][Address(c)][e][i].left
               PROVE  counter'[t][Address(c)][e][i].hits <= asked[c][e][k]
    BY <1>1 DEF Own
  <2>1. CASE t = s
    <3>1. counter'[t] = L!Fresh
      BY <1>1, <1>2, <2>1
    <3>2. Address(c) \in L!Addresses /\ Allowances[e][i].span \in Nat
      BY <1>0, OwnCounters
    <3>3. L!Fresh[Address(c)][e] = [j \in DOMAIN Allowances[e] |-> L!Zero]
      BY <3>2 DEF L!Fresh
    <3>4. counter'[t][Address(c)][e][i].left = 0
      BY <3>1, <3>3 DEF L!Zero
    <3> QED BY <3>2, <3>4
  <2>2. CASE t # s
    <3>1. counter'[t] = counter[t]
      BY <1>1, <1>2, <2>2
    <3> QED BY <1>0, <3>1 DEF Own
  <2> QED BY <2>1, <2>2
<1>4. Paced(c, e)' => served'[c][e][1] = asked'[c][e][1]
  BY <1>0, <1>1 DEF Paced
<1> QED BY <1>3, <1>4 DEF PacedInv

LEMMA LimitsPace == ASSUME L!LimitAssumption PROVE L!Spec => []L!PacedIsServed
<1>1. PICK n \in Nat : n = Cardinality(Stores)
  BY StoresFinite, FS_CardinalityType DEF L!LimitAssumption
<1>2. PICK store \in [1 .. n -> Stores] : Numbers(store, n)
  BY <1>1, StoresNumbered
<1>3. L!Spec => []LimitInv(store, n)
  BY <1>2, LimitsInvariant
<1>4. LimitInv(store, n) => LimitTypes
  BY DEF LimitInv
<1> DEFINE All == \A c \in Clients, e \in Endpoints : L!Alone(c) => PacedInv(c, e)
<1>5. L!Init /\ LimitTypes => All
  <2> SUFFICES ASSUME L!Init, LimitTypes, NEW c \in Clients, NEW e \in Endpoints PROVE PacedInv(c, e)
    OBVIOUS
  <2>1. 1 \in 1 .. L!Longest(e) /\ served[c][e][1] = 0 /\ asked[c][e][1] = 0
    <3>1. 1 \in 1 .. L!Longest(e)
      BY Spans
    <3> QED BY <3>1, HistoryZero DEF L!Init
  <2>2. ASSUME NEW s \in Stores, NEW i \in DOMAIN Allowances[e]
        PROVE  counter[s][Address(c)][e][i].left = 0 /\ Allowances[e][i].span \in Nat
    <3>1. Address(c) \in L!Addresses /\ Allowances[e][i].span \in Nat
      BY OwnCounters
    <3>2. counter[s][Address(c)][e] = [j \in DOMAIN Allowances[e] |-> L!Zero]
      BY <3>1 DEF L!Init, L!Fresh
    <3> QED BY <3>1, <3>2 DEF L!Zero
  <2>3. Own(c, e)
    BY <2>2 DEF Own
  <2> QED BY <2>1, <2>3 DEF PacedInv
<1>6. All /\ LimitTypes' /\ [L!Next]_L!vars => All'
  <2> SUFFICES ASSUME All, LimitTypes', [L!Next]_L!vars, NEW c \in Clients, NEW e \in Endpoints, L!Alone(c)
               PROVE  PacedInv(c, e)'
    OBVIOUS
  <2>1. PacedInv(c, e)
    OBVIOUS
  <2> HIDE DEF All
  <2>2. CASE UNCHANGED L!vars
    BY <2>1, <2>2 DEF L!vars, PacedInv, Own, Paced
  <2> QED BY <2>1, <2>2, PacedAsk, PacedClock, PacedRestart DEF L!Next
<1>7. All => L!PacedIsServed
  <2> SUFFICES ASSUME All, NEW c \in Clients, NEW e \in Endpoints, L!Alone(c), Paced(c, e)
               PROVE  served[c][e][1] = asked[c][e][1]
    BY DEF L!PacedIsServed, Paced
  <2> QED BY DEF PacedInv
<1> HIDE DEF All
<1> QED BY <1>3, <1>4, <1>5, <1>6, <1>7, PTL DEF L!Spec

-----------------------------------------------------------------------------
(* The list of trades *)

Lone(t) == \A u \in committed \ {t} : stamp[u] # stamp[t]

\* A trade still to be shown, that shares its stamp with none, is not before the next page.
ListInv ==
  /\ T!TypeOK /\ IsFiniteSet(committed)
  /\ \A t \in reader.wanted \ reader.seen :
       Lone(t) => ~reader.done /\ reader.offset <= Cardinality(T!Newer(t))

LEMMA ListCardinality == \A M : T!Cardinality(M) = Cardinality(M)
BY DEF T!Cardinality, Cardinality

LEMMA LeastOfTwo ==
  ASSUME NEW a \in Int, NEW b \in Int
  PROVE  T!Min({a, b}) = IF a <= b THEN a ELSE b
<1>1. PICK m \in {a, b} : m = IF a <= b THEN a ELSE b
  OBVIOUS
<1>2. \A y \in {a, b} : m <= y
  BY <1>1
<1>3. \A x \in {a, b} : (\A y \in {a, b} : x <= y) => x = m
  BY <1>1
<1> QED BY <1>1, <1>2, <1>3 DEF T!Min

LEMMA GreatestOfTwo ==
  ASSUME NEW a \in Int, NEW b \in Int
  PROVE  T!Max({a, b}) = IF a <= b THEN b ELSE a
<1>1. PICK m \in {a, b} : m = IF a <= b THEN b ELSE a
  OBVIOUS
<1>2. \A y \in {a, b} : y <= m
  BY <1>1
<1>3. \A x \in {a, b} : (\A y \in {a, b} : y <= x) => x = m
  BY <1>1
<1> QED BY <1>1, <1>2, <1>3 DEF T!Max

LEMMA GrantedType ==
  ASSUME T!ListAssumption, NEW asks \in PageSizes PROVE T!Granted(asks) \in Nat \ {0}
<1>1. asks \in Nat \ {0} /\ MaxLimit \in Nat \ {0}
  BY DEF T!ListAssumption
<1> QED BY <1>1, LeastOfTwo DEF T!Granted

\* A page has at most the rows asked for, and is empty only behind the last row.
LEMMA PageSize ==
  ASSUME NEW limit \in Nat \ {0}, NEW offset \in Nat, NEW page \in T!Pages(limit, offset),
         IsFiniteSet(committed)
  PROVE  /\ page \subseteq committed /\ IsFiniteSet(page) /\ Cardinality(page) \in Nat
         /\ Cardinality(page) <= limit
         /\ page = {} => Cardinality(committed) <= offset
<1>1. page \subseteq committed
  BY DEF T!Pages
<1>2. PICK n \in Nat : n = Cardinality(committed)
  BY FS_CardinalityType
<1>3. Cardinality(page) = T!Min({limit, T!Max({n - offset, 0})})
  BY <1>2, ListCardinality DEF T!Pages
<1>4. PICK d \in Nat : d = T!Max({n - offset, 0}) /\ (d = 0 => n <= offset)
  BY GreatestOfTwo
<1>5. Cardinality(page) = IF limit <= d THEN limit ELSE d
  BY <1>3, <1>4, LeastOfTwo
<1>6. page = {} => Cardinality(page) = 0
  BY FS_EmptySet
<1>7. IsFiniteSet(page) /\ Cardinality(page) \in Nat
  BY <1>1, FS_Subset, FS_CardinalityType
<1> QED BY <1>1, <1>2, <1>4, <1>5, <1>6, <1>7

\* A row alone with its stamp is on the page that holds its place.
LEMMA PageHolds ==
  ASSUME NEW limit \in Nat \ {0}, NEW offset \in Nat, NEW page \in T!Pages(limit, offset),
         IsFiniteSet(committed), NEW t \in committed, Lone(t), t \notin page,
         offset <= Cardinality(T!Newer(t))
  PROVE  offset + limit <= Cardinality(T!Newer(t))
<1>1. T!AsNew(t) = {t}
  BY DEF T!AsNew, Lone
<1>2. Cardinality(T!AsNew(t)) = 1
  BY <1>1, FS_Singleton
<1>3. T!Newer(t) \subseteq committed
  BY DEF T!Newer
<1>4. PICK b \in Nat : b = Cardinality(T!Newer(t))
  BY <1>3, FS_Subset, FS_CardinalityType
<1>5. b >= offset /\ b + 1 <= offset + limit => t \in page
  BY <1>2, <1>4, ListCardinality DEF T!Pages
<1> QED BY <1>4, <1>5

\* The rows before one of them are fewer than all.
LEMMA BeforeAll ==
  ASSUME T!TypeOK, IsFiniteSet(committed), NEW t \in committed
  PROVE  Cardinality(T!Newer(t)) \in Nat /\ Cardinality(T!Newer(t)) < Cardinality(committed)
<1>1. T!Newer(t) \subseteq committed /\ t \notin T!Newer(t)
  BY DEF T!Newer, T!TypeOK
<1> QED BY <1>1, FS_Subset, FS_CardinalityType

LEMMA ListInit == T!ListAssumption /\ T!Init => ListInv
<1> SUFFICES ASSUME T!ListAssumption, T!Init PROVE ListInv
  OBVIOUS
<1>1. DOMAIN stamp = {} /\ committed = {} /\ now = 0
  BY DEF T!Init
<1>2. PICK l \in PageSizes :
        reader = [asks |-> l, offset |-> 0, seen |-> {}, wanted |-> {}, done |-> FALSE]
  BY DEF T!Init
<1>3. /\ reader \in T!Reader /\ reader.seen = {} /\ reader.wanted = {}
  BY <1>2 DEF T!Reader
<1> QED BY <1>1, <1>3, FS_EmptySet DEF ListInv, T!TypeOK, T!ListAssumption

LEMMA ListBegin ==
  ASSUME T!ListAssumption, ListInv, NEW t \in Trades, T!Begin(t) PROVE ListInv'
<1>1. UNCHANGED <<now, committed, reader>>
  BY DEF T!Begin
<1>2. /\ DOMAIN stamp' = DOMAIN stamp \cup {t} /\ t \notin DOMAIN stamp /\ stamp'[t] = now
      /\ \A u \in DOMAIN stamp : stamp'[u] = stamp[u]
  BY DEF T!Begin
<1>3. committed \subseteq DOMAIN stamp /\ reader.wanted \subseteq committed
  BY DEF ListInv, T!TypeOK
<1>4. \A u \in committed : stamp'[u] = stamp[u]
  BY <1>2, <1>3
<1>5. T!TypeOK'
  BY <1>1, <1>2 DEF ListInv, T!TypeOK
<1>6. ASSUME NEW u \in committed PROVE T!Newer(u)' = T!Newer(u) /\ (Lone(u)' => Lone(u))
  BY <1>1, <1>4 DEF T!Newer, Lone
<1> QED BY <1>1, <1>3, <1>5, <1>6 DEF ListInv

LEMMA ListCommit ==
  ASSUME T!ListAssumption, ListInv, NEW t \in Trades, T!Commit(t) PROVE ListInv'
<1>1. /\ t \in DOMAIN stamp /\ committed' = committed \cup {t}
      /\ UNCHANGED <<now, stamp, reader>>
  BY DEF T!Commit
<1>2. T!TypeOK' /\ IsFiniteSet(committed')
  BY <1>1, FS_AddElement DEF ListInv, T!TypeOK
<1>3. reader.wanted \subseteq committed
  BY DEF ListInv, T!TypeOK
<1>4. ASSUME NEW u \in committed, Lone(u)'
      PROVE  Lone(u) /\ T!Newer(u) \subseteq T!Newer(u)' /\ T!Newer(u)' \subseteq committed'
  BY <1>1, <1>4 DEF T!Newer, Lone
<1>5. ASSUME NEW u \in reader'.wanted \ reader'.seen, Lone(u)'
      PROVE  ~reader'.done /\ reader'.offset <= Cardinality(T!Newer(u)')
  <2>1. u \in committed /\ Lone(u) /\ ~reader.done /\ reader.offset <= Cardinality(T!Newer(u))
    BY <1>1, <1>3, <1>4, <1>5 DEF ListInv
  <2>2. IsFiniteSet(T!Newer(u)')
    BY <1>2, <1>4, <1>5, <2>1, FS_Subset
  <2>3. Cardinality(T!Newer(u)) <= Cardinality(T!Newer(u)') /\ Cardinality(T!Newer(u)') \in Nat
        /\ Cardinality(T!Newer(u)) \in Nat
    BY <1>4, <1>5, <2>1, <2>2, FS_Subset, FS_CardinalityType
  <2>4. reader.offset \in Nat
    BY DEF ListInv, T!TypeOK, T!Reader
  <2> QED BY <1>1, <2>1, <2>3, <2>4
<1> QED BY <1>2, <1>5 DEF ListInv

LEMMA ListClock ==
  ASSUME T!ListAssumption, ListInv, T!Clock PROVE ListInv'
<1>1. /\ now' = now + 1 /\ now < MaxNow /\ UNCHANGED <<stamp, committed, reader>>
  BY DEF T!Clock
<1>2. T!TypeOK'
  BY <1>1 DEF ListInv, T!TypeOK, T!ListAssumption
<1>3. \A u : T!Newer(u)' = T!Newer(u) /\ (Lone(u)' <=> Lone(u))
  BY <1>1 DEF T!Newer, Lone
<1> QED BY <1>1, <1>2, <1>3 DEF ListInv

LEMMA ListGet ==
  ASSUME T!ListAssumption, ListInv, T!GetTransactions PROVE ListInv'
<1>1. PICK page \in T!Pages(T!Granted(reader.asks), reader.offset) :
        reader' = [reader EXCEPT !.offset = @ + T!Cardinality(page), !.seen = @ \cup page,
                                 !.done = page = {}]
  BY DEF T!GetTransactions
<1>2. UNCHANGED <<now, stamp, committed>>
  BY DEF T!GetTransactions
<1>3. /\ reader \in T!Reader /\ reader.offset \in Nat /\ reader.asks \in PageSizes
      /\ T!TypeOK /\ IsFiniteSet(committed) /\ reader.seen \cup reader.wanted \subseteq committed
      /\ committed \subseteq Trades
  BY DEF ListInv, T!TypeOK, T!Reader
<1>4. PICK limit \in Nat \ {0} : limit = T!Granted(reader.asks)
  BY <1>3, GrantedType
<1>5. /\ page \subseteq committed /\ Cardinality(page) \in Nat /\ Cardinality(page) <= limit
      /\ page = {} => Cardinality(committed) <= reader.offset
  BY <1>1, <1>3, <1>4, PageSize
<1>6. /\ reader' \in T!Reader /\ reader'.offset = reader.offset + Cardinality(page)
      /\ reader'.seen = reader.seen \cup page /\ reader'.wanted = reader.wanted
      /\ reader'.done = (page = {})
  <2>1. PICK n \in Nat : n = Cardinality(page)
    BY <1>5
  <2>2. PICK o \in Nat : o = reader.offset + n
    BY <1>3
  <2>3. PICK seen \in SUBSET Trades : seen = reader.seen \cup page
    BY <1>3, <1>5
  <2>4. PICK done \in BOOLEAN : done = (page = {})
    OBVIOUS
  <2>5. reader' = [reader EXCEPT !.offset = o, !.seen = seen, !.done = done]
    BY <1>1, <2>1, <2>2, <2>3, <2>4, ListCardinality
  <2> QED BY <1>3, <2>1, <2>2, <2>3, <2>4, <2>5 DEF T!Reader
<1>7. T!TypeOK'
  BY <1>2, <1>3, <1>5, <1>6 DEF T!TypeOK
<1>8. ASSUME NEW t \in reader'.wanted \ reader'.seen, Lone(t)'
      PROVE  ~reader'.done /\ reader'.offset <= Cardinality(T!Newer(t)')
  <2>1. /\ t \in reader.wanted \ reader.seen /\ t \in committed /\ t \notin page
        /\ Lone(t) /\ T!Newer(t)' = T!Newer(t)
    BY <1>2, <1>3, <1>6, <1>8 DEF Lone, T!Newer
  <2>2. reader.offset <= Cardinality(T!Newer(t))
    BY <2>1 DEF ListInv
  <2>3. reader.offset + limit <= Cardinality(T!Newer(t))
    BY <1>1, <1>3, <1>4, <2>1, <2>2, PageHolds
  <2>4. Cardinality(T!Newer(t)) \in Nat /\ Cardinality(T!Newer(t)) < Cardinality(committed)
    BY <1>3, <2>1, BeforeAll
  <2>5. Cardinality(committed) \in Nat
    BY <1>3, FS_CardinalityType
  <2>6. page # {}
    BY <1>3, <1>5, <2>2, <2>4, <2>5
  <2>7. PICK b \in Nat : b = Cardinality(T!Newer(t))
    BY <2>4
  <2>8. PICK n \in Nat : n = Cardinality(page)
    BY <1>5
  <2>9. reader.offset + n <= b
    BY <1>3, <1>5, <2>3, <2>7, <2>8
  <2> QED BY <1>6, <2>1, <2>6, <2>7, <2>8, <2>9
<1> QED BY <1>2, <1>3, <1>7, <1>8 DEF ListInv

LEMMA ListReload ==
  ASSUME T!ListAssumption, ListInv, NEW l \in PageSizes, T!Reload(l) PROVE ListInv'
<1>1. reader' = T!NewReader(l) /\ UNCHANGED <<now, stamp, committed>>
  BY DEF T!Reload
<1>2. committed \subseteq Trades /\ IsFiniteSet(committed)
  BY DEF ListInv, T!TypeOK
<1>3. reader' \in T!Reader /\ reader'.offset = 0 /\ reader'.seen = {}
      /\ reader'.wanted = committed /\ reader'.done = FALSE
  BY <1>1, <1>2 DEF T!NewReader, T!Reader
<1>4. T!TypeOK'
  BY <1>1, <1>3 DEF ListInv, T!TypeOK
<1>5. ASSUME NEW t \in committed PROVE Cardinality(T!Newer(t)) \in Nat
  BY <1>2, BeforeAll DEF ListInv
<1>6. \A t : T!Newer(t)' = T!Newer(t)
  BY <1>1 DEF T!Newer
<1> QED BY <1>1, <1>2, <1>3, <1>4, <1>5, <1>6 DEF ListInv

LEMMA ListNext ==
  ASSUME T!ListAssumption PROVE ListInv /\ [T!Next]_T!vars => ListInv'
<1> SUFFICES ASSUME ListInv, [T!Next]_T!vars PROVE ListInv'
  OBVIOUS
<1>1. CASE UNCHANGED T!vars
  <2>1. \A u : T!Newer(u)' = T!Newer(u) /\ (Lone(u)' <=> Lone(u))
    BY <1>1 DEF T!vars, T!Newer, Lone
  <2> QED BY <1>1, <2>1 DEF T!vars, ListInv, T!TypeOK
<1> QED BY <1>1, ListBegin, ListCommit, ListClock, ListGet, ListReload DEF T!Next

LEMMA ListInvariant == ASSUME T!ListAssumption PROVE T!Spec => []ListInv
BY ListInit, ListNext, PTL DEF T!Spec

\* The types of TradeList: a client has seen, and waits for, only trades that committed.
LEMMA ListTypes == ASSUME T!ListAssumption PROVE T!Spec => []T!TypeOK
<1>1. ListInv => T!TypeOK
  BY DEF ListInv
<1> QED BY <1>1, ListInvariant, PTL

LEMMA ListShown == ASSUME T!ListAssumption PROVE T!Spec => []T!NoTradeSkipped
<1>1. ListInv => T!NoTradeSkipped
  BY DEF ListInv, T!NoTradeSkipped, Lone
<1> QED BY <1>1, ListInvariant, PTL

-----------------------------------------------------------------------------
(* Who runs the jobs *)

\* The processes that run jobs schedule them, one run of each at a time, and one that
\* has stopped runs none.
Runs ==
  \A p \in S!Processes :
    /\ \A j \in Jobs : running[p][j] <= 1 /\ (running[p][j] > 0 => S!Schedules(p))
    /\ state[p] = "stopped" => running[p] = S!Idle

SchedulerInv == S!TypeOK /\ Runs

LEMMA InitRuns == ASSUME S!SchedulerAssumption, S!Init PROVE SchedulerInv
<1>1. S!Idle \in [Jobs -> Nat] /\ \A j \in Jobs : S!Idle[j] = 0
  BY DEF S!SchedulerAssumption, S!Idle
<1>2. Interval \in [Jobs -> Nat]
  BY DEF S!SchedulerAssumption
<1> QED BY <1>1, <1>2 DEF S!SchedulerAssumption, S!Init, SchedulerInv, S!TypeOK, Runs

LEMMA NextRuns == ASSUME S!SchedulerAssumption, SchedulerInv, [S!Next]_S!vars PROVE SchedulerInv'
<1>0. S!Idle \in [Jobs -> Nat] /\ (\A j \in Jobs : S!Idle[j] = 0) /\ Interval \in [Jobs -> Nat]
  BY DEF S!SchedulerAssumption, S!Idle
<1>1. ASSUME NEW p \in S!Processes, S!StartProcess(p) PROVE SchedulerInv'
  BY <1>0, <1>1 DEF S!SchedulerAssumption, SchedulerInv, S!TypeOK, Runs, S!StartProcess
<1>2. ASSUME NEW p \in S!Processes, S!HandleSignal(p) PROVE SchedulerInv'
  BY <1>2 DEF S!SchedulerAssumption, SchedulerInv, S!TypeOK, Runs, S!HandleSignal
<1>3. ASSUME NEW p \in S!Processes, S!Shutdown(p) PROVE SchedulerInv'
  BY <1>3 DEF S!SchedulerAssumption, SchedulerInv, S!TypeOK, Runs, S!Shutdown
<1>4. ASSUME NEW p \in S!Processes, S!Kill(p) PROVE SchedulerInv'
  BY <1>0, <1>4 DEF S!SchedulerAssumption, SchedulerInv, S!TypeOK, Runs, S!Kill
<1>5. ASSUME NEW p \in S!Processes, NEW j \in Jobs, S!Fire(p, j) PROVE SchedulerInv'
  <2>1. wait' = [wait EXCEPT ![p][j] = Interval[j]] /\ state' = state /\ state[p] = "up"
        /\ S!Schedules(p)
    BY <1>5 DEF S!SchedulerAssumption, S!Fire
  <2>2. /\ running' \in [S!Processes -> [Jobs -> Nat]]
        /\ \A q \in S!Processes, i \in Jobs :
             running'[q][i] = IF q = p /\ i = j /\ running[p][j] = 0 THEN 1 ELSE running[q][i]
    BY <1>5 DEF S!SchedulerAssumption, S!Fire, SchedulerInv, S!TypeOK
  <2>3. /\ wait' \in [S!Processes -> [Jobs -> Nat]]
        /\ \A q \in S!Processes, i \in Jobs : wait'[q][i] <= Interval[i]
    BY <1>0, <2>1 DEF S!SchedulerAssumption, SchedulerInv, S!TypeOK
  <2>4. \A q \in S!Processes : q # p => running'[q] = running[q]
    BY <1>5 DEF S!SchedulerAssumption, S!Fire, SchedulerInv, S!TypeOK
  <2> QED BY <2>1, <2>2, <2>3, <2>4 DEF S!SchedulerAssumption, SchedulerInv, S!TypeOK, Runs
<1>6. ASSUME NEW p \in S!Processes, NEW j \in Jobs, S!End(p, j) PROVE SchedulerInv'
  <2>1. /\ running' \in [S!Processes -> [Jobs -> Nat]]
        /\ \A q \in S!Processes, i \in Jobs :
             running'[q][i] = IF q = p /\ i = j THEN running[p][j] - 1 ELSE running[q][i]
        /\ \A q \in S!Processes : q # p => running'[q] = running[q]
    BY <1>6 DEF S!SchedulerAssumption, S!End, SchedulerInv, S!TypeOK
  <2>2. state[p] # "stopped"
    BY <1>0, <1>6 DEF S!SchedulerAssumption, S!End, SchedulerInv, Runs
  <2>3. UNCHANGED <<state, wait>>
    BY <1>6 DEF S!SchedulerAssumption, S!End
  <2>4. \A q \in S!Processes, i \in Jobs : running'[q][i] <= running[q][i]
    <3>1. \A q \in S!Processes, i \in Jobs : running[q][i] \in Nat
      BY DEF SchedulerInv, S!TypeOK
    <3> QED BY <2>1, <3>1
  <2>5. \A q \in S!Processes, i \in Jobs : running'[q][i] \in Nat /\ running[q][i] \in Nat
    BY <2>1 DEF SchedulerInv, S!TypeOK
  <2>6. ASSUME NEW q \in S!Processes PROVE state'[q] = "stopped" => running'[q] = S!Idle
    BY <2>1, <2>2, <2>3 DEF SchedulerInv, Runs
  <2>7. ASSUME NEW q \in S!Processes, NEW i \in Jobs
        PROVE  running'[q][i] <= 1 /\ (running'[q][i] > 0 => S!Schedules(q))
    BY <2>4, <2>5 DEF SchedulerInv, Runs
  <2>8. S!TypeOK'
    BY <2>1, <2>3 DEF SchedulerInv, S!TypeOK
  <2> QED BY <2>6, <2>7, <2>8 DEF SchedulerInv, Runs
<1>7. CASE S!Clock
  <2>1. \A p \in S!Processes, j \in Jobs :
          (IF state[p] = "up" /\ S!Schedules(p) THEN wait[p][j] - 1 ELSE wait[p][j]) \in 0 .. Interval[j]
    BY <1>0, <1>7 DEF S!SchedulerAssumption, S!Clock, SchedulerInv, S!TypeOK
  <2>2. /\ wait' \in [S!Processes -> [Jobs -> Nat]]
        /\ \A p \in S!Processes, j \in Jobs : wait'[p][j] <= Interval[j]
    BY <1>0, <1>7, <2>1 DEF S!SchedulerAssumption, S!Clock
  <2>3. UNCHANGED <<state, running>>
    BY <1>7 DEF S!SchedulerAssumption, S!Clock
  <2> QED BY <2>2, <2>3 DEF S!SchedulerAssumption, SchedulerInv, S!TypeOK, Runs
<1>8. CASE UNCHANGED S!vars
  BY <1>8 DEF S!SchedulerAssumption, SchedulerInv, S!TypeOK, Runs, S!vars
<1> QED BY <1>1, <1>2, <1>3, <1>4, <1>5, <1>6, <1>7, <1>8 DEF S!SchedulerAssumption, S!Next

LEMMA SchedulerHolds == ASSUME S!SchedulerAssumption PROVE S!Spec => []SchedulerInv
<1>1. S!Init => SchedulerInv
  BY InitRuns
<1>2. SchedulerInv /\ [S!Next]_S!vars => SchedulerInv'
  BY NextRuns
<1> QED BY <1>1, <1>2, PTL DEF S!SchedulerAssumption, S!Spec

-----------------------------------------------------------------------------
(* The application *)

\* Every variable of the application has the type its module gives it: a window that is
\* counted has hits, no list has a trade that is not committed, no browser a user that is
\* none.
THEOREM TypesHold == AppSpec => []TypesOK
<1>1. B!Spec => []B!TypeOK
  BY ApplicationAssumption, WalletTypes
<1>2. T!Spec => []T!TypeOK
  BY ApplicationAssumption, ListTypes
<1>3. L!Spec => []L!TypeOK
  BY ApplicationAssumption, LimitsTypes
<1>4. S!Spec => []S!TypeOK
  <2>1. S!Spec => []SchedulerInv
    BY ApplicationAssumption, SchedulerHolds
  <2>2. SchedulerInv => S!TypeOK
    BY DEF SchedulerInv
  <2> QED BY <2>1, <2>2, PTL
<1>5. TypeOK /\ B!TypeOK /\ T!TypeOK /\ L!TypeOK /\ S!TypeOK => TypesOK
  BY DEF TypesOK
<1> QED BY <1>1, <1>2, <1>3, <1>4, <1>5, EachPart, AccountTypes, PTL

\* _wallet_operation reads the balance in the transaction of its UPDATE: however many other
\* payments and trades are under way, the answer is a balance the account has had by all
\* that was committed, with the money of the request in it.
THEOREM BalancesExisted == AppSpec => []BalanceExisted
<1>1. B!Spec => []B!BalanceExisted
  BY ApplicationAssumption, WalletAnswers
<1>2. B!BalanceExisted => BalanceExisted
  BY DEF BalanceExisted
<1> QED BY <1>1, <1>2, EachPart, PTL

\* Clients page with the number of trades received as the offset of get_transactions: for
\* any page size, any number of trades and any order of their commits, a trade that shares
\* its stamp with none is not left out.
THEOREM TradesShown == AppSpec => []NoTradeSkipped
<1>1. T!Spec => []T!NoTradeSkipped
  BY ApplicationAssumption, ListShown
<1>2. T!NoTradeSkipped => NoTradeSkipped
  BY DEF NoTradeSkipped
<1> QED BY <1>1, <1>2, EachPart, PTL

\* Fixed windows, for any number of processes, clients, endpoints and limits: in a span of
\* time a client is served no more than two windows' worth by each process that counts, and
\* one more for each restart.
THEOREM AllowancesHold == AppSpec => []AllowanceHolds
<1>1. L!Spec => []L!AllowanceHolds
  BY ApplicationAssumption, LimitsHold
<1>2. L!AllowanceHolds => AllowanceHolds
  BY DEF AllowanceHolds
<1> QED BY <1>1, <1>2, EachPart, PTL

\* A client with an address of its own that asks no more than each limit allows in its
\* span is never refused: for any limits, any number of processes and restarts, and however
\* its requests are spread over them.
THEOREM PacedAreServed == AppSpec => []PacedIsServed
<1>1. L!Spec => []L!PacedIsServed
  BY ApplicationAssumption, LimitsPace
<1>2. L!PacedIsServed => PacedIsServed
  BY DEF PacedIsServed
<1> QED BY <1>1, <1>2, EachPart, PTL

\* A worker that reports that it has stopped has let its last runs end.
THEOREM WorkersStopClean == AppSpec => []StopsClean
<1>1. S!Spec => []SchedulerInv
  BY ApplicationAssumption, SchedulerHolds
<1>2. SchedulerInv => StopsClean
  BY DEF SchedulerInv, Runs, S!StopsClean, StopsClean
<1> QED BY <1>1, <1>2, EachPart, PTL

\* Where the deployment has one process at most that schedules, as docker-compose.yml
\* has and as the reloader keeps it, a job never runs twice at a time, through every
\* start, signal, kill and skipped run.
THEOREM OneSchedulerOneRun ==
  ASSUME \A p, q \in S!Processes : S!Schedules(p) /\ S!Schedules(q) => p = q
  PROVE  AppSpec => []OneRunAtATime
<1>1. S!Spec => []SchedulerInv
  BY ApplicationAssumption, SchedulerHolds
<1>2. SchedulerInv => OneRunAtATime
  BY DEF SchedulerInv, S!TypeOK, Runs, S!OneRunAtATime, OneRunAtATime
<1> QED BY <1>1, <1>2, EachPart, PTL
=============================================================================
