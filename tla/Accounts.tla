------------------------------ MODULE Accounts ------------------------------
(***************************************************************************)
(* Users, their wallets and their sessions: the handlers for register,     *)
(* login, logout and, for all that need a session, reading the wallet and  *)
(* paying in, under browsers that may have several requests on the way.    *)
(*                                                                         *)
(* The server keeps no session.  It is in a cookie that every request      *)
(* carries as it was when the request was sent, and that every answer to   *)
(* a request with a session sets again (a permanent Flask session is       *)
(* refreshed each time); answers may come in any order.                    *)
(***************************************************************************)
EXTENDS Integers

CONSTANTS
  None, Keep,
  Browsers,
  Letters,      \* names and addresses, but for upper and lower case
  Passwords,
  Opening, Amount,
  InFlight,     \* requests a browser has on the way at a time
  MaxSent,      \* bound: requests
  MaxResets     \* bound: runs of schema.sql

ASSUME AccountAssumption ==
  /\ Letters # {} /\ Passwords # {}
  /\ InFlight \in Nat \ {0} /\ MaxSent \in Nat /\ MaxResets \in Nat
  /\ Opening \in Nat /\ Amount \in Nat \ {0}

Names == Letters \X {"lower", "upper"}
Ids   == 1 .. MaxSent
Slots == Browsers \X (1 .. InFlight)

VARIABLES
  users,     \* users
  wallets,   \* wallets.balance by user_id, None when there is no row
  next_id,   \* the sequence of users.user_id
  cookie,    \* the session in each browser
  request,   \* what each slot of a browser has on the way, until it is received
  welcomed,  \* history: registrations that were answered with 201
  left,      \* history: whether a browser has been told that it is logged out, see Receive
  sent, resets

vars == <<users, wallets, next_id, cookie, request, welcomed, left, sent, resets>>

User    == [username : Names, email : Names, password : Passwords]
Session == [user_id : Ids, username : Names]
Kinds   == {"register", "login", "logout", "wallet", "deposit"}

\* cookie: as sent.  set: what the answer does to the cookie, Keep for nothing.
Request == [kind : Kinds, data : User, cookie : Session \cup {None}, status : {0, 200, 201, 401, 409},
            set : Session \cup {None, Keep}, balance : Nat]
Nothing == [kind |-> "none"]

ASSUME NoneAssumption ==
  /\ None # Keep /\ None \notin Nat /\ None \notin User
  /\ None \notin Session /\ Keep \notin Session

TypeOK ==
  /\ \A i \in Ids : users[i] = None \/ users[i] \in User
  /\ \A i \in Ids : wallets[i] = None \/ wallets[i] \in Nat
  /\ next_id \in 1 .. MaxSent + 1
  /\ \A b \in Browsers : cookie[b] = None \/ cookie[b] \in Session
  /\ \A r \in Slots : request[r].kind # "none" =>
       /\ request[r].kind \in Kinds /\ request[r].status \in {0, 200, 201, 401, 409}
       /\ request[r].status = 0 => request[r].set = Keep
  /\ welcomed \subseteq User /\ left \in [Browsers -> {"in", "out", "late"}]
  /\ sent \in 0 .. MaxSent /\ resets \in 0 .. MaxResets

Init ==
  /\ users = [i \in Ids |-> None]
  /\ wallets = [i \in Ids |-> None]
  /\ next_id = 1
  /\ cookie = [b \in Browsers |-> None]
  /\ request = [r \in Slots |-> Nothing]
  /\ welcomed = {} /\ left = [b \in Browsers |-> "in"] /\ sent = 0 /\ resets = 0

-----------------------------------------------------------------------------
(* Tables *)

Known == {i \in Ids : users[i] # None}

\* Mutant: TEXT in place of CITEXT.
SameText(n, m) == n = m

\* CITEXT: equal but for case.
Same(n, m) == n[1] = m[1]

\* The UNIQUE constraints of users; a concurrent INSERT of the same name waits for
\* this one, so they come one after the other.
Taken(u) == \E i \in Known : Same(users[i].username, u.username) \/ Same(users[i].email, u.email)

\* The wallet trg_create_wallet makes in the same transaction.
NewWallet == Opening

-----------------------------------------------------------------------------
(* Browsers *)

Send(b, k, kind, data) ==
  /\ request[<<b, k>>] = Nothing /\ sent < MaxSent
  /\ sent' = sent + 1
  /\ request' = [request EXCEPT ![<<b, k>>] =
       [kind |-> kind, data |-> data, cookie |-> cookie[b],
        status |-> 0, set |-> Keep, balance |-> 0]]
  /\ left' = IF kind = "login" THEN [left EXCEPT ![b] = "in"] ELSE left
  /\ UNCHANGED <<users, wallets, next_id, cookie, welcomed, resets>>

LoggingIn(b) == \E k \in 1 .. InFlight : request[<<b, k>>].kind = "login"

\* Something that b has sent with a session, other than r, has not come back.
Behind(b, r) ==
  \E k \in 1 .. InFlight :
    <<b, k>> # r /\ request[<<b, k>>] # Nothing /\ request[<<b, k>>].cookie # None

Receive(b, k) ==
  LET r == request[<<b, k>>] IN
  /\ r # Nothing /\ r.status # 0
  /\ cookie' = IF r.set = Keep THEN cookie ELSE [cookie EXCEPT ![b] = r.set]
  /\ left' = IF r.kind = "logout" /\ r.status = 200 /\ ~LoggingIn(b)
             THEN [left EXCEPT ![b] = IF Behind(b, <<b, k>>) THEN "late" ELSE "out"] ELSE left
  /\ request' = [request EXCEPT ![<<b, k>>] = Nothing]
  /\ UNCHANGED <<users, wallets, next_id, welcomed, sent, resets>>

\* PERMANENT_SESSION_LIFETIME has passed.
Expire(b) ==
  /\ cookie[b] # None
  /\ cookie' = [cookie EXCEPT ![b] = None]
  /\ UNCHANGED <<users, wallets, next_id, request, welcomed, left, sent, resets>>

-----------------------------------------------------------------------------
(* Handlers *)

\* What an answer that leaves the session alone does to the cookie.
Refresh(c) == IF c = None THEN Keep ELSE c

Answer(r, status, set, balance) ==
  request' = [request EXCEPT ![r] = [@ EXCEPT !.status = status, !.set = set, !.balance = balance]]

\* What the request carries is not acceptable, or it fails: CSRF, rate limit, input rules,
\* no session.  (401 stands for all of them.)
Refuse(r) ==
  /\ Answer(r, 401, Refresh(request[r].cookie), 0)
  /\ UNCHANGED <<users, wallets, next_id, welcomed>>

\* Mutant: an INSERT that fails is tried once more, and then taken for done.
RegisterTwice(r) ==
  LET u == request[r].data IN
  /\ next_id' = next_id + 2
  /\ Answer(r, 409, Refresh(request[r].cookie), 0)
  /\ UNCHANGED <<users, wallets, welcomed>>

\* register.  The sequence has moved on also when the INSERT fails; Ids has a number for
\* every request that may be sent.
Register(r) ==
  LET u == request[r].data IN
  /\ next_id \in Ids
  /\ next_id' = next_id + 1
  /\ IF Taken(u)
     THEN /\ Answer(r, 409, Refresh(request[r].cookie), 0)
          /\ UNCHANGED <<users, wallets, welcomed>>
     ELSE /\ users' = [users EXCEPT ![next_id] = u]
          /\ wallets' = [wallets EXCEPT ![next_id] = NewWallet]
          /\ welcomed' = welcomed \cup {u}
          /\ Answer(r, 201, Refresh(request[r].cookie), 0)

\* Mutant: the session has the name as it was typed.
LoginTyped(r) ==
  \E i \in Known :
    /\ Same(users[i].username, request[r].data.username)
    /\ users[i].password = request[r].data.password
    /\ Answer(r, 200, [user_id |-> i, username |-> request[r].data.username], 0)
    /\ UNCHANGED <<users, wallets, next_id, welcomed>>

\* login, of a user that is found and has this password; otherwise Refuse.
Login(r) ==
  \E i \in Known :
    /\ Same(users[i].username, request[r].data.username)
    /\ users[i].password = request[r].data.password
    /\ Answer(r, 200, [user_id |-> i, username |-> users[i].username], 0)
    /\ UNCHANGED <<users, wallets, next_id, welcomed>>

\* Mutant: the session is left as it is.
LogoutNothing(r) ==
  /\ Answer(r, 200, Refresh(request[r].cookie), 0)
  /\ UNCHANGED <<users, wallets, next_id, welcomed>>

\* logout: a session that was cleared deletes the cookie.
Logout(r) ==
  /\ Answer(r, 200, None, 0)
  /\ UNCHANGED <<users, wallets, next_id, welcomed>>

\* money.money: 0 for a row that is not there.
Money(v) == IF v = None THEN 0 ELSE v

\* get_wallet, and every other handler that only reads.
GetWallet(r) ==
  /\ request[r].cookie # None
  /\ Answer(r, 200, request[r].cookie, Money(wallets[request[r].cookie.user_id]))
  /\ UNCHANGED <<users, wallets, next_id, welcomed>>

\* Mutant: the balance is read before the UPDATE.
DepositReadsFirst(r) ==
  LET i == request[r].cookie.user_id IN
  /\ request[r].cookie # None
  /\ wallets' = IF wallets[i] = None THEN wallets ELSE [wallets EXCEPT ![i] = @ + Amount]
  /\ Answer(r, 200, request[r].cookie, Money(wallets[i]))
  /\ UNCHANGED <<users, next_id, welcomed>>

\* deposit_wallet: _wallet_operation, with an UPDATE that may find no row.
Deposit(r) ==
  LET i == request[r].cookie.user_id IN
  /\ request[r].cookie # None
  /\ wallets' = IF wallets[i] = None THEN wallets ELSE [wallets EXCEPT ![i] = @ + Amount]
  /\ Answer(r, 200, request[r].cookie, Money(wallets'[i]))
  /\ UNCHANGED <<users, next_id, welcomed>>

Handle(r) ==
  /\ request[r] # Nothing /\ request[r].status = 0
  /\ \/ Refuse(r)
     \/ request[r].kind = "register" /\ Register(r)
     \/ request[r].kind = "login" /\ Login(r)
     \/ request[r].kind = "logout" /\ Logout(r)
     \/ request[r].kind = "wallet" /\ GetWallet(r)
     \/ request[r].kind = "deposit" /\ Deposit(r)
  /\ UNCHANGED <<cookie, left, sent, resets>>

\* init_db, and schema.sql on a schedule (docs/DEPLOY.md): tables and sequences start anew.
Reset ==
  /\ resets < MaxResets /\ resets' = resets + 1
  /\ users' = [i \in Ids |-> None]
  /\ wallets' = [i \in Ids |-> None]
  /\ next_id' = 1
  /\ welcomed' = {}
  /\ UNCHANGED <<cookie, request, left, sent>>

\* Data that a request does not carry is anything.
AnyUser == CHOOSE u \in User : TRUE

Next ==
  \/ \E b \in Browsers, k \in 1 .. InFlight :
       \/ \E kind \in {"register", "login"}, data \in User : Send(b, k, kind, data)
       \/ \E kind \in {"logout", "wallet", "deposit"} : Send(b, k, kind, AnyUser)
       \/ Handle(<<b, k>>) \/ Receive(b, k)
  \/ \E b \in Browsers : Expire(b)
  \/ Reset

Spec == Init /\ [][Next]_vars

-----------------------------------------------------------------------------
(* Properties *)

\* No two users share a name or an address, whatever their case and however the
\* registrations interleave, and a user always has a wallet.
OneOfEach ==
  /\ \A i, j \in Known : i # j =>
       users[i].username[1] # users[j].username[1] /\ users[i].email[1] # users[j].email[1]
  /\ \A i \in Ids : (users[i] = None) = (wallets[i] = None)

\* As long as nobody resets the database, a session, in a browser or on the way, stands
\* for a user that exists and has the name the pages show.
SessionTrue ==
  LET true(c) == \/ c \in {None, Keep}
                 \/ users[c.user_id] # None /\ users[c.user_id].username = c.username
  IN resets = 0 =>
       /\ \A b \in Browsers : true(cookie[b])
       /\ \A r \in Slots : request[r] # Nothing => true(request[r].cookie) /\ true(request[r].set)

\* Whoever was told "User registered successfully" is a user, with that password.
WelcomedCanLogin == \A u \in welcomed : \E i \in Known : users[i] = u

\* A browser that was told it is logged out, when nothing it had sent with a session was
\* still to come back, has no session, until it logs in again: whatever it sends and
\* receives in the meantime, and however many requests it has on the way at a time.
LogoutEnds == \A b \in Browsers : left[b] = "out" => cookie[b] = None

\* test_logout_ends_the_session: a browser that was told it is logged out has no
\* session, until it logs in again.
LogoutAtOnce == \A b \in Browsers : left[b] # "in" => cookie[b] = None

\* "Deposit successful", with a balance that has the deposit in it; after a reset it may be
\* that of a wallet that is not there.
DepositCounts ==
  resets = 0 =>
    \A r \in Slots : request[r].kind = "deposit" /\ request[r].status = 200 =>
      request[r].balance >= Amount
=============================================================================
