------------------------------ MODULE Accounts ------------------------------
(***************************************************************************)
(* POST /auth/register and /auth/login with the middleware in front of     *)
(* them, the User table, and the tokens clients hold.                      *)
(*                                                                         *)
(* A registration hashes the password, inserts and signs a token; a login  *)
(* looks the user up, compares and signs.  Each is an await.  Tokens are   *)
(* state of the clients only: the server checks the signature and the      *)
(* expiry, and believes what the token says.                               *)
(***************************************************************************)
EXTENDS RateLimiter, FiniteSets, Functions

CONSTANTS
  AuthRequests,       \* requests to /auth in flight
  AuthCalls,          \* bound: what they ask (a subset of AuthCall)
  Emails, Passwords,  \* as validate leaves them: trimmed, lower-cased
  HashOf,             \* bcrypt: which passwords compare equal (their 72 bytes)
  Null,
  InitialUsers,       \* the users a seeded database holds
  TokenLife,          \* JWT_EXPIRES_IN
  MaxUsers, MaxFaults, MaxRestarts   \* bounds: user ids, failing calls, restarts

VARIABLES
  users, nextUserId,   \* the table, by id, and AUTO_INCREMENT
  tokens,              \* the tokens clients hold
  apc, acall, areply,  \* where each request is, its call, the status it got
  row,                 \* the user its statement returned
  faults, restarts,
  admitted             \* ghost: when authLimiter let requests of a client through

accountVars == <<users, nextUserId, tokens>>
authVars == <<apc, acall, areply, row>>
mishaps == <<faults, restarts>>
allAccounts == <<limiterVars, accountVars, authVars, mishaps, admitted>>
-----------------------------------------------------------------------------
Roles == {"customer", "agent", "admin"}
UserRow == [email : Emails, hash : Range(HashOf), role : Roles]
UserIds == 1..MaxUsers
Selected == [id : UserIds, user : UserRow]

\* A signed token; `email` is no claim of it but remembers who it was given to.
Token == [sub : UserIds, role : Roles, expires : 0..(MaxClock + TokenLife),
          email : Emails]

\* `valid`: the body passes its schema; `fits`: the e-mail, which the schema does
\* not bound, fits its VARCHAR(191).
AuthCall == [op : {"register", "login"}, client : Clients, email : Emails,
             password : Passwords, valid : BOOLEAN, fits : BOOLEAN]

ASSUME AccountsAssumption ==
  /\ AuthCalls \subseteq AuthCall /\ HashOf \in [Passwords -> Range(HashOf)]
  /\ \E n \in 0..MaxUsers : InitialUsers \in [1..n -> UserRow]
  /\ \A x, y \in DOMAIN InitialUsers : InitialUsers[x].email = InitialUsers[y].email => x = y
  /\ TokenLife \in Nat \ {0} /\ Null \notin AuthCall \cup Selected \cup Nat
  /\ MaxUsers \in Nat /\ MaxFaults \in Nat /\ MaxRestarts \in Nat
  /\ IsFiniteSet(AuthRequests)

\* One request that authLimiter let through: when, and the how many-th lately.
Admission == [at : 0..MaxClock, nth : Nat \ {0}]

AccountsTypeOK ==
  /\ LimiterTypeOK
  /\ DOMAIN users \subseteq UserIds /\ \A id \in DOMAIN users : users[id] \in UserRow
  /\ nextUserId \in 1..(MaxUsers + 1)
  /\ tokens \subseteq Token
  /\ apc \in [AuthRequests -> {"idle", "create", "sign", "find", "compare"}]
  /\ acall \in [AuthRequests -> AuthCall \cup {Null}]
  /\ areply \in [AuthRequests -> {200, 201, 400, 401, 409, 429, 500, Null}]
  /\ row \in [AuthRequests -> Selected \cup {Null}]
  /\ faults \in 0..MaxFaults /\ restarts \in 0..MaxRestarts
  /\ admitted \in [Clients -> SUBSET Admission]

Nobody == [r \in AuthRequests |-> Null]

AccountsInit ==
  /\ LimiterInit
  /\ users = InitialUsers /\ nextUserId = Cardinality(DOMAIN InitialUsers) + 1
  /\ tokens = {}
  /\ apc = [r \in AuthRequests |-> "idle"]
  /\ acall = Nobody /\ areply = Nobody /\ row = Nobody
  /\ faults = 0 /\ restarts = 0
  /\ admitted = [c \in Clients |-> {}]
-----------------------------------------------------------------------------
\* Mutant: the handler before it knew Prisma's errors.
StatusOfUnknown(err) == 500

\* The status of an error, as in Store; P2000 and lost connections are unknown.
StatusOf(err) == CASE err \in {"P2002", "P2003"} -> 409
                   [] err = "P2025" -> 404
                   [] OTHER -> 500

ARespond(r, status) ==
  /\ apc' = [apc EXCEPT ![r] = "idle"]
  /\ areply' = [areply EXCEPT ![r] = status]
  /\ acall' = [acall EXCEPT ![r] = Null]
  /\ row' = [row EXCEPT ![r] = Null]

\* The request goes on to another await, holding the row it was given.
ContinueWith(r, place, id, user) ==
  /\ apc' = [apc EXCEPT ![r] = place]
  /\ row' = [row EXCEPT ![r] = [id |-> id, user |-> user]]
  /\ UNCHANGED <<acall, areply>>

\* Bound: every row an insert in flight may add will find an id.
RoomForUsers(n) ==
  nextUserId + n + Cardinality({r \in AuthRequests : apc[r] = "create"}) <= MaxUsers + 1

\* The requests of a client that authLimiter let through in the last window's
\* length; earlier ones are forgotten when the next is let through.
Recent(c) == {a \in admitted[c] : a.at > now - Window}
Admit(c) == admitted' = [admitted EXCEPT ![c] =
  Recent(c) \cup {[at |-> now, nth |-> Cardinality(Recent(c)) + 1]}]

\* A request to /auth meets both limiters, then validate, then its controller.
AReceive(r) == \E c \in AuthCalls :
  /\ apc[r] = "idle"
  /\ c.op = "register" => RoomForUsers(1)
  /\ CountGeneral(c.client)
  /\ \/ /\ ~PassesGeneral(c.client)
        /\ ARespond(r, 429)
        /\ UNCHANGED <<authHits, admitted>>
     \/ /\ PassesGeneral(c.client) /\ ~PassesAuth(c.client)
        /\ CountAuth(c.client)
        /\ ARespond(r, 429)
        /\ UNCHANGED admitted
     \/ /\ PassesGeneral(c.client) /\ PassesAuth(c.client)
        /\ CountAuth(c.client)
        /\ Admit(c.client)
        /\ \/ ~c.valid /\ ARespond(r, 400)
           \/ /\ c.valid
              /\ apc' = [apc EXCEPT ![r] = IF c.op = "login" THEN "find" ELSE "create"]
              /\ acall' = [acall EXCEPT ![r] = c]
              /\ areply' = [areply EXCEPT ![r] = Null]
              /\ UNCHANGED row
  /\ UNCHANGED <<now, accountVars, mishaps>>

\* The unique index on User.email refuses a second row.
EmailTaken(email) == \E id \in DOMAIN users : users[id].email = email

\* INSERT INTO User, under the next id.
InsertUser(user) ==
  /\ ~EmailTaken(user.email)
  /\ users' = [id \in DOMAIN users \cup {nextUserId} |->
                 IF id = nextUserId THEN user ELSE users[id]]
  /\ nextUserId' = nextUserId + 1

\* Mutants: the password is stored as it came; the role comes from the body.
NewPlain(c) == [email |-> c.email, hash |-> c.password, role |-> "customer"]
NewStaff(c) == [email |-> c.email, hash |-> HashOf[c.password], role |-> "agent"]

\* The row a registration inserts: nobody registers as anything but a customer.
NewUser(c) == [email |-> c.email, hash |-> HashOf[c.password], role |-> "customer"]

\* hashPassword, then prisma.user.create: the row is committed, or the e-mail
\* does not fit its column or is somebody's already.
createCustomer(r) ==
  /\ apc[r] = "create"
  /\ LET c == acall[r] IN
     \/ ~c.fits /\ ARespond(r, StatusOf("P2000")) /\ UNCHANGED accountVars
     \/ c.fits /\ EmailTaken(c.email) /\ ARespond(r, StatusOf("P2002"))
        /\ UNCHANGED accountVars
     \/ c.fits /\ InsertUser(NewUser(c))
        /\ ContinueWith(r, "sign", nextUserId, NewUser(c))
        /\ UNCHANGED tokens
  /\ UNCHANGED <<limiterVars, mishaps, admitted>>

\* findUserByEmail answers.
findUserByEmail(r) ==
  /\ apc[r] = "find"
  /\ \/ ~EmailTaken(acall[r].email) /\ ARespond(r, 401)
     \/ \E id \in DOMAIN users :
          users[id].email = acall[r].email /\ ContinueWith(r, "compare", id, users[id])
  /\ UNCHANGED <<limiterVars, accountVars, mishaps, admitted>>

\* Mutant: the promise of a comparison is truthy, whatever it will resolve to.
NotAwaited(password, hash) == TRUE

verifyPassword(password, hash) == HashOf[password] = hash

\* A token for the row the request holds, which may have changed since.  Bound:
\* clients keep the last token of an account, the one that expires last.
signToken(selected) ==
  tokens' = {t \in tokens : t.sub # selected.id} \cup
            {[sub |-> selected.id, role |-> selected.user.role,
              email |-> selected.user.email, expires |-> now + TokenLife]}

\* register, or login after bcrypt.compare, resumes: the token is signed and goes
\* out, or the password was wrong.
SignOrRefuse(r) ==
  /\ \/ apc[r] = "sign" /\ signToken(row[r]) /\ ARespond(r, 201)
     \/ /\ apc[r] = "compare"
        /\ IF verifyPassword(acall[r].password, row[r].user.hash)
           THEN signToken(row[r]) /\ ARespond(r, 200)
           ELSE UNCHANGED tokens /\ ARespond(r, 401)
  /\ UNCHANGED <<limiterVars, users, nextUserId, mishaps, admitted>>

DatabaseFails == faults < MaxFaults /\ faults' = faults + 1

\* A statement fails, or commits and its answer is lost (a registration at
\* "sign"): the account exists and its owner is told 500.
AuthQueryFails(r) ==
  /\ apc[r] \in {"create", "sign", "find"}
  /\ DatabaseFails
  /\ ARespond(r, 500)
  /\ UNCHANGED <<limiterVars, accountVars, restarts, admitted>>

\* What dies with the API process: its requests and its counters, but neither
\* the tables nor the tokens.
AuthRestart ==
  /\ restarts < MaxRestarts /\ restarts' = restarts + 1
  /\ ForgetHits
  /\ apc' = [r \in AuthRequests |-> "idle"]
  /\ acall' = Nobody /\ areply' = Nobody /\ row' = Nobody
  /\ UNCHANGED <<now, accountVars, faults, admitted>>

AuthTick == Tick /\ UNCHANGED <<generalHits, authHits, accountVars, authVars,
                                mishaps, admitted>>

AuthStep(r) == createCustomer(r) \/ findUserByEmail(r) \/ SignOrRefuse(r)
-----------------------------------------------------------------------------
(* Properties *)

\* A token is only signed for an account that a request knew the e-mail and the
\* password of, or has just made as a customer, and it claims that account's id
\* and role, whatever happened to the table between the awaits (register and
\* login).
TokensAreEarned ==
  [][\A t \in tokens' \ tokens : \E r \in AuthRequests :
       /\ apc[r] \in {"sign", "compare"} /\ apc'[r] = "idle"
       /\ acall[r].email = t.email
       /\ t.sub \in DOMAIN users =>
            /\ users[t.sub].email = t.email /\ users[t.sub].role = t.role
            /\ users[t.sub].hash = HashOf[acall[r].password]
       /\ acall[r].op = "register" => t.role = "customer"]_allAccounts

\* A client tries passwords or registers less than twice the limit in any span
\* of one window, wherever the span begins, and once more the limit for every
\* restart: register and login share a counter, and a window is opened by its
\* first request (authLimiter).
AuthAttemptsBounded == \A c \in Clients :
  Cardinality(Recent(c)) <= (restarts + 2) * AuthLimit - 1

\* Nobody is locked out who has not used up the limit within the last window's
\* length, however often they were refused meanwhile (the fixed window of
\* authLimiter).
LockedOutOnlyWhenSpent == \A c \in Clients :
  Cardinality(Recent(c)) < AuthLimit => PassesAuth(c)
=============================================================================
