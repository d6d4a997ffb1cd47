---------------------------- MODULE AccessProofs ----------------------------
(***************************************************************************)
(* Proofs about Accounts and Tags, for any number of requests, accounts    *)
(* and tags: tokens that say whom they were signed for, tags changed by    *)
(* staff only, no 500 without a failure or an input no column has room     *)
(* for, and what the limiter of /auth lets through and what not.           *)
(***************************************************************************)
EXTENDS Tags, FiniteSetTheorems, TLAPS

(* The inductive invariant of the accounts, in parts *)

\* What a request to /auth carries at each place: its call, the row it was given
\* under an id that was handed out, and that row as it still is, if it is there.
ACarried(r) ==
  LET c == acall[r] IN
  /\ apc[r] # "idle" => c \in AuthCall
  /\ apc[r] \in {"create", "sign"} => c.op = "register"
  /\ apc[r] \in {"find", "compare"} => c.op = "login"
  /\ apc[r] \in {"sign", "compare"} =>
       /\ row[r] \in Selected /\ row[r].id < nextUserId
       /\ row[r].user.email = c.email
       /\ row[r].id \in DOMAIN users => users[row[r].id] = row[r].user
  /\ apc[r] = "sign" => row[r].user = NewUser(c)

AllACarried == \A r \in AuthRequests : ACarried(r)

\* No id is above the counter: none is ever given twice.
UsersFresh == \A id \in DOMAIN users : id < nextUserId

\* A token names the account it was given for, or nobody.
TokensHeld == \A t \in tokens :
  /\ t.sub < nextUserId
  /\ t.sub \in DOMAIN users => users[t.sub].email = t.email /\ users[t.sub].role = t.role

\* The bound on ids: every registration in flight has one left to take.
Registering == {r \in AuthRequests : apc[r] = "create"}
ARoomLeft == nextUserId + Cardinality(Registering) <= MaxUsers + 1

\* What the ghost of the limiter remembers can be counted.
AdmissionsFinite == \A c \in Clients : IsFiniteSet(admitted[c])

\* No two accounts share an e-mail (the unique index).
OneAccountPerEmail == \A x, y \in DOMAIN users : users[x].email = users[y].email => x = y

AccInv == AccountsTypeOK /\ AllACarried /\ UsersFresh /\ TokensHeld /\ ARoomLeft
            /\ OneAccountPerEmail /\ AdmissionsFinite
-----------------------------------------------------------------------------
APlaces == {"idle", "create", "sign", "find", "compare"}
AReplies == {200, 201, 400, 401, 409, 429, 500, Null}

\* Seeded accounts and idle requests satisfy every part of AccInv.
LEMMA AccountsInitInv == AccountsInit => AccInv
<1> SUFFICES ASSUME AccountsInit PROVE AccInv
  OBVIOUS
<1>1. PICK n \in 0..MaxUsers : InitialUsers \in [1..n -> UserRow]
  BY AccountsAssumption
<1>2. nextUserId = n + 1
  <2>1. n \in Nat
    BY AccountsAssumption
  <2>2. Cardinality(1..n) = n
    BY <2>1, FS_Interval
  <2> QED BY <1>1, <2>2 DEF AccountsInit
<1>3. LimiterTypeOK
  BY LimiterAssumption DEF AccountsInit, LimiterInit, LimiterTypeOK, NoHits, Counter
<1>4. AdmissionsFinite
  BY FS_EmptySet DEF AccountsInit, AdmissionsFinite
<1>5. AccountsTypeOK
  BY <1>1, <1>2, <1>3, AccountsAssumption, LimiterAssumption
  DEF AccountsInit, AccountsTypeOK, UserIds, Nobody
<1>6. AllACarried /\ UsersFresh /\ TokensHeld /\ OneAccountPerEmail
  BY <1>1, <1>2, AccountsAssumption
  DEF AccountsInit, AllACarried, ACarried, UsersFresh, TokensHeld, OneAccountPerEmail
<1>7. ARoomLeft
  <2>1. Registering = {}
    BY DEF AccountsInit, Registering
  <2> QED BY <1>2, <2>1, FS_EmptySet, AccountsAssumption DEF ARoomLeft
<1> QED BY <1>4, <1>5, <1>6, <1>7 DEF AccInv

\* Counting a request keeps a counter within its bounds (rateLimiter.js).
LEMMA CountedType ==
  ASSUME NEW limit \in Nat, NEW counter \in Counter(limit), now \in 0..MaxClock
  PROVE  Counted(counter, limit) \in Counter(limit)
<1>1. /\ counter.hits \in 0..(limit + 1) /\ counter.resetAt \in 0..(MaxClock + Window)
      /\ counter = [hits |-> counter.hits, resetAt |-> counter.resetAt]
      /\ Window \in Nat /\ MaxClock \in Nat
  BY LimiterAssumption DEF Counter
<1>2. CASE counter.resetAt <= now
  BY <1>1, <1>2 DEF Counted, Counter
<1>3. CASE ~(counter.resetAt <= now)
  BY <1>1, <1>3 DEF Counted, Counter
<1> QED BY <1>2, <1>3

LEMMA CountingType ==
  ASSUME LimiterTypeOK, NEW c \in Clients
  PROVE  /\ CountGeneral(c) => generalHits' \in [Clients -> Counter(GeneralLimit)]
         /\ CountAuth(c) => authHits' \in [Clients -> Counter(AuthLimit)]
<1>1. /\ Counted(generalHits[c], GeneralLimit) \in Counter(GeneralLimit)
      /\ Counted(authHits[c], AuthLimit) \in Counter(AuthLimit)
  BY LimiterAssumption, CountedType DEF LimiterTypeOK
<1> QED BY <1>1 DEF LimiterTypeOK, CountGeneral, CountAuth

\* What a response does to the request it answers and leaves of the others
\* (ARespond).
LEMMA ARespondEffect ==
  ASSUME AccountsTypeOK, NEW r \in AuthRequests, NEW status \in AReplies, ARespond(r, status)
  PROVE  /\ apc' \in [AuthRequests -> APlaces]
         /\ acall' \in [AuthRequests -> AuthCall \cup {Null}]
         /\ areply' \in [AuthRequests -> AReplies]
         /\ row' \in [AuthRequests -> Selected \cup {Null}]
         /\ apc'[r] = "idle" /\ areply'[r] = status
         /\ \A q \in AuthRequests \ {r} :
              apc'[q] = apc[q] /\ acall'[q] = acall[q] /\ row'[q] = row[q]
              /\ areply'[q] = areply[q]
BY DEF AccountsTypeOK, ARespond, APlaces, AReplies

\* No row of the table changes under its id, and no id is used again: what the
\* steps of the API, and of the seed script, have in common.
UsersKept ==
  /\ nextUserId' \in UserIds \cup {MaxUsers + 1} /\ nextUserId <= nextUserId'
  /\ \A id \in DOMAIN users' :
       \/ id \in DOMAIN users /\ users'[id] = users[id]
       \/ id = nextUserId /\ id < nextUserId' /\ users'[id] \in UserRow

\* With them, what requests carry stays true ...
LEMMA ACarriedFrame ==
  ASSUME AccInv, UsersKept, NEW q \in AuthRequests,
         apc'[q] = apc[q], acall'[q] = acall[q], row'[q] = row[q]
  PROVE  ACarried(q)'
<1>1. /\ ACarried(q) /\ nextUserId \in Int /\ nextUserId' \in Int
  BY AccountsAssumption DEF AccInv, AllACarried, AccountsTypeOK, UsersKept, UserIds
<1>2. ASSUME apc[q] \in {"sign", "compare"}
      PROVE  /\ row[q] \in Selected /\ row[q].id < nextUserId'
             /\ row[q].user.email = acall[q].email
             /\ row[q].id \in DOMAIN users' => users'[row[q].id] = row[q].user
  <2>1. row[q] \in Selected /\ row[q].id < nextUserId
    BY <1>1, <1>2 DEF ACarried
  <2>2. row[q].id \in Int
    BY <2>1 DEF Selected, UserIds
  <2> QED BY <1>1, <1>2, <2>1, <2>2 DEF ACarried, UsersKept
<1> QED BY <1>1, <1>2 DEF ACarried, NewUser

\* ... and so do tokens and ids.
LEMMA TokensFrame ==
  ASSUME AccInv, UsersKept
  PROVE  /\ UsersFresh' /\ DOMAIN users' \subseteq UserIds
         /\ \A id \in DOMAIN users' : users'[id] \in UserRow
         /\ nextUserId' \in 1..(MaxUsers + 1)
         /\ UNCHANGED tokens => TokensHeld'
<1>1. /\ AccountsTypeOK /\ UsersFresh /\ TokensHeld /\ MaxUsers \in Nat
      /\ nextUserId \in Int /\ nextUserId' \in Int
      /\ \A id \in DOMAIN users : id \in UserIds /\ users[id] \in UserRow
  BY AccountsAssumption DEF AccInv, AccountsTypeOK, UsersKept, UserIds
<1>2. nextUserId' \in 1..(MaxUsers + 1)
  BY <1>1 DEF UsersKept, UserIds
<1>3. \A id \in DOMAIN users' : id \in UserIds /\ users'[id] \in UserRow /\ id < nextUserId'
  BY <1>1, <1>2 DEF UsersKept, UsersFresh, UserIds, AccountsTypeOK
<1>4. UNCHANGED tokens => TokensHeld'
  <2>1. \A t \in tokens : t.sub \in Int
    BY <1>1 DEF AccountsTypeOK, Token, UserIds
  <2> QED BY <1>1, <2>1 DEF TokensHeld, UsersKept
<1> QED BY <1>2, <1>3, <1>4 DEF UsersFresh

\* The room for new ids stays when no more registrations are in flight, or when
\* one of them takes its id (RoomForUsers).
LEMMA ARoomFrame ==
  ASSUME AccInv,
         \/ UNCHANGED nextUserId /\ Registering' \subseteq Registering
         \/ /\ nextUserId' = nextUserId + 1
            /\ \E r \in Registering : Registering' = Registering \ {r}
  PROVE  ARoomLeft'
<1>1. IsFiniteSet(Registering) /\ Cardinality(Registering) \in Nat
  BY FS_Subset, FS_CardinalityType, AccountsAssumption DEF Registering
<1>2. nextUserId \in Int /\ MaxUsers \in Nat
  BY AccountsAssumption DEF AccInv, AccountsTypeOK
<1>3. CASE UNCHANGED nextUserId /\ Registering' \subseteq Registering
  <2>1. Cardinality(Registering') <= Cardinality(Registering) /\ Cardinality(Registering') \in Nat
    BY <1>1, <1>3, FS_Subset, FS_CardinalityType
  <2> QED BY <1>1, <1>2, <1>3, <2>1 DEF AccInv, ARoomLeft
<1>4. ASSUME NEW r \in Registering, Registering' = Registering \ {r},
             nextUserId' = nextUserId + 1
      PROVE  ARoomLeft'
  <2>1. Cardinality(Registering') = Cardinality(Registering) - 1
    BY <1>1, <1>4, FS_RemoveElement
  <2> QED BY <1>1, <1>2, <1>4, <2>1 DEF AccInv, ARoomLeft
<1> QED BY <1>3, <1>4

\* The counters, the clock, the bounds and the ghost keep to their types.
AroundTypeOK ==
  /\ LimiterTypeOK
  /\ faults \in 0..MaxFaults /\ restarts \in 0..MaxRestarts
  /\ admitted \in [Clients -> SUBSET Admission] /\ AdmissionsFinite

\* Whatever else happens, accounts stay right when requests to /auth and tokens
\* are as they were.
LEMMA AccountsFrame ==
  ASSUME AccInv, AroundTypeOK', UNCHANGED <<accountVars, authVars>>
  PROVE  AccInv'
<1>1. UNCHANGED <<users, nextUserId, tokens, apc, acall, areply, row>>
  BY DEF accountVars, authVars
<1>2. AccountsTypeOK' /\ AdmissionsFinite'
  BY <1>1 DEF AccInv, AccountsTypeOK, AroundTypeOK
<1> QED BY <1>1, <1>2 DEF AccInv, AllACarried, ACarried, NewUser, UsersFresh, TokensHeld,
           ARoomLeft, Registering, OneAccountPerEmail

\* Answering request r with the table as it was keeps the invariant (ARespond).
LEMMA AAnswerStep ==
  ASSUME AccInv, NEW r \in AuthRequests, NEW status \in AReplies, ARespond(r, status),
         AroundTypeOK', UNCHANGED <<users, nextUserId>>, tokens' \subseteq Token, TokensHeld'
  PROVE  AccInv'
<1>1. AccountsTypeOK /\ AllACarried
  BY DEF AccInv
<1>2. /\ apc' \in [AuthRequests -> APlaces]
      /\ acall' \in [AuthRequests -> AuthCall \cup {Null}]
      /\ areply' \in [AuthRequests -> AReplies]
      /\ row' \in [AuthRequests -> Selected \cup {Null}]
      /\ apc'[r] = "idle"
      /\ \A q \in AuthRequests \ {r} :
           apc'[q] = apc[q] /\ acall'[q] = acall[q] /\ row'[q] = row[q]
  BY <1>1, ARespondEffect
<1>3. AccountsTypeOK' /\ AdmissionsFinite'
  BY <1>1, <1>2 DEF AccountsTypeOK, AroundTypeOK, APlaces, AReplies
<1>4. AllACarried'
  <2>1. UsersKept
    BY <1>1, AccountsAssumption DEF UsersKept, AccountsTypeOK, UserIds
  <2>2. ACarried(r)'
    BY <1>2 DEF ACarried
  <2>3. \A q \in AuthRequests \ {r} : ACarried(q)'
    BY <1>2, <2>1, ACarriedFrame
  <2> QED BY <2>2, <2>3 DEF AllACarried
<1>5. ARoomLeft'
  <2>1. Registering' \subseteq Registering
    BY <1>2 DEF Registering
  <2> QED BY <2>1, ARoomFrame
<1>6. UsersFresh' /\ OneAccountPerEmail'
  BY DEF AccInv, UsersFresh, OneAccountPerEmail
<1> QED BY <1>3, <1>4, <1>5, <1>6 DEF AccInv

\* A request that goes on to another await, holding what its place asks for.
LEMMA AMoveStep ==
  ASSUME AccInv, NEW r \in AuthRequests, AroundTypeOK', UsersKept, UNCHANGED tokens,
         apc' \in [AuthRequests -> APlaces],
         acall' \in [AuthRequests -> AuthCall \cup {Null}],
         areply' \in [AuthRequests -> AReplies],
         row' \in [AuthRequests -> Selected \cup {Null}],
         \A q \in AuthRequests \ {r} :
           apc'[q] = apc[q] /\ acall'[q] = acall[q] /\ row'[q] = row[q],
         ACarried(r)', ARoomLeft', OneAccountPerEmail'
  PROVE  AccInv'
<1>1. AccountsTypeOK /\ tokens' \subseteq Token
  BY DEF AccInv, AccountsTypeOK
<1>2. AccountsTypeOK' /\ AdmissionsFinite'
  BY <1>1, TokensFrame DEF AccountsTypeOK, AroundTypeOK, APlaces, AReplies
<1>3. AllACarried'
  BY ACarriedFrame DEF AllACarried
<1> QED BY <1>2, <1>3, TokensFrame DEF AccInv

\* A client's recent admissions can be counted (Recent).
LEMMA RecentCounts ==
  ASSUME AdmissionsFinite, NEW c \in Clients
  PROVE  IsFiniteSet(Recent(c)) /\ Cardinality(Recent(c)) \in Nat
<1>1. IsFiniteSet(admitted[c]) /\ Recent(c) \in SUBSET admitted[c]
  BY DEF AdmissionsFinite, Recent
<1> QED BY <1>1, FS_Subset, FS_CardinalityType

\* A request meets the limiters, then validate, then its controller (AReceive).
LEMMA AReceiveStep ==
  ASSUME AccInv, NEW r \in AuthRequests, AReceive(r) PROVE AccInv'
<1>1. PICK c \in AuthCalls :
        /\ apc[r] = "idle"
        /\ c.op = "register" => RoomForUsers(1)
        /\ CountGeneral(c.client)
        /\ \/ /\ ARespond(r, 429)
              /\ UNCHANGED <<authHits, admitted>>
           \/ /\ CountAuth(c.client)
              /\ ARespond(r, 429)
              /\ UNCHANGED admitted
           \/ /\ CountAuth(c.client)
              /\ Admit(c.client)
              /\ \/ ARespond(r, 400)
                 \/ /\ apc' = [apc EXCEPT ![r] = IF c.op = "login" THEN "find" ELSE "create"]
                    /\ acall' = [acall EXCEPT ![r] = c]
                    /\ areply' = [areply EXCEPT ![r] = Null]
                    /\ UNCHANGED row
        /\ UNCHANGED <<now, accountVars, mishaps>>
  BY DEF AReceive
<1>2. /\ AccountsTypeOK /\ LimiterTypeOK /\ c \in AuthCall /\ c.client \in Clients
      /\ c.op \in {"register", "login"} /\ now \in 0..MaxClock
      /\ {429, 400} \subseteq AReplies
      /\ UNCHANGED <<now, users, nextUserId, tokens, faults, restarts>>
  BY <1>1, AccountsAssumption
  DEF AccInv, AccountsTypeOK, AuthCall, AReplies, LimiterTypeOK, accountVars, mishaps
<1>3. IsFiniteSet(Recent(c.client)) /\ Cardinality(Recent(c.client)) \in Nat
  BY <1>2, RecentCounts DEF AccInv
<1>4. admitted' \in [Clients -> SUBSET Admission] /\ AdmissionsFinite'
  <2>1. CASE UNCHANGED admitted
    BY <1>2, <2>1 DEF AccInv, AccountsTypeOK, AdmissionsFinite
  <2>2. CASE Admit(c.client)
    <3>1. PICK a : a = [at |-> now, nth |-> Cardinality(Recent(c.client)) + 1]
      OBVIOUS
    <3>2. a \in Admission
      BY <1>2, <1>3, <3>1 DEF Admission
    <3>3. Recent(c.client) \subseteq Admission
      BY <1>2 DEF Recent, AccountsTypeOK
    <3>4. IsFiniteSet(Recent(c.client) \cup {a})
      BY <1>3, FS_AddElement
    <3>5. admitted' = [admitted EXCEPT ![c.client] = Recent(c.client) \cup {a}]
      BY <2>2, <3>1 DEF Admit
    <3> QED BY <1>2, <3>2, <3>3, <3>4, <3>5 DEF AccInv, AccountsTypeOK, AdmissionsFinite
  <2> QED BY <1>1, <2>1, <2>2
<1>5. AroundTypeOK'
  <2>1. /\ generalHits' \in [Clients -> Counter(GeneralLimit)]
        /\ authHits' \in [Clients -> Counter(AuthLimit)]
    BY <1>1, <1>2, CountingType DEF LimiterTypeOK
  <2> QED BY <1>2, <1>4, <2>1 DEF AroundTypeOK, AccountsTypeOK, LimiterTypeOK
<1>6. CASE \E status \in {429, 400} : ARespond(r, status)
  <2>1. tokens' \subseteq Token /\ TokensHeld'
    BY <1>2 DEF AccInv, AccountsTypeOK, TokensHeld
  <2> QED BY <1>2, <1>5, <1>6, <2>1, AAnswerStep
<1>7. CASE /\ apc' = [apc EXCEPT ![r] = IF c.op = "login" THEN "find" ELSE "create"]
           /\ acall' = [acall EXCEPT ![r] = c]
           /\ areply' = [areply EXCEPT ![r] = Null]
           /\ UNCHANGED row
  <2>1. /\ apc' \in [AuthRequests -> APlaces]
        /\ acall' \in [AuthRequests -> AuthCall \cup {Null}]
        /\ areply' \in [AuthRequests -> AReplies]
        /\ row' \in [AuthRequests -> Selected \cup {Null}]
    BY <1>2, <1>7 DEF AccountsTypeOK, APlaces, AReplies
  <2>2. /\ apc'[r] = IF c.op = "login" THEN "find" ELSE "create"
        /\ acall'[r] = c
        /\ \A q \in AuthRequests \ {r} :
             apc'[q] = apc[q] /\ acall'[q] = acall[q] /\ row'[q] = row[q]
    BY <1>2, <1>7 DEF AccountsTypeOK
  <2>3. ACarried(r)'
    BY <1>2, <2>2 DEF ACarried
  <2>4. UsersKept /\ OneAccountPerEmail'
    BY <1>2, AccountsAssumption DEF UsersKept, AccInv, AccountsTypeOK, UserIds, OneAccountPerEmail
  <2>5. ARoomLeft'
    <3>1. CASE c.op = "login"
      <4>1. Registering' \subseteq Registering
        BY <2>2, <3>1 DEF Registering
      <4> QED BY <1>2, <4>1, ARoomFrame
    <3>2. CASE c.op = "register"
      <4>1. r \notin Registering /\ Registering' = Registering \cup {r}
        BY <1>1, <2>2, <3>2 DEF Registering
      <4>2. IsFiniteSet(Registering)
        BY FS_Subset, AccountsAssumption DEF Registering
      <4>3. Cardinality(Registering') = Cardinality(Registering) + 1
            /\ Cardinality(Registering) \in Nat
        BY <4>1, <4>2, FS_AddElement, FS_CardinalityType
      <4>4. nextUserId + 1 + Cardinality(Registering) <= MaxUsers + 1
        BY <1>1, <3>2 DEF RoomForUsers, Registering
      <4> QED BY <1>2, <4>3, <4>4, AccountsAssumption DEF ARoomLeft, AccountsTypeOK
    <3> QED BY <1>2, <3>1, <3>2
  <2> QED BY <1>2, <1>5, <2>1, <2>2, <2>3, <2>4, <2>5, AMoveStep
<1> QED BY <1>1, <1>6, <1>7

\* With the limiters, the clock and the ghost as they were, their types hold.
LEMMA AroundFrame ==
  ASSUME AccInv, UNCHANGED <<limiterVars, admitted>>,
         faults' \in 0..MaxFaults, restarts' \in 0..MaxRestarts
  PROVE  AroundTypeOK'
BY DEF AccInv, AccountsTypeOK, AroundTypeOK, LimiterTypeOK, limiterVars, AdmissionsFinite

\* The statement that adds a row gives it an id nobody had, and an e-mail nobody
\* has (the unique index on User.email).
LEMMA InsertUserEffect ==
  ASSUME AccInv, NEW user \in UserRow, InsertUser(user), nextUserId \in UserIds
  PROVE  /\ UsersKept /\ OneAccountPerEmail' /\ nextUserId' = nextUserId + 1
         /\ nextUserId \notin DOMAIN users
         /\ DOMAIN users' = DOMAIN users \cup {nextUserId} /\ users'[nextUserId] = user
<1>1. PICK n : n = nextUserId
  OBVIOUS
<1>2. /\ users' = [id \in DOMAIN users \cup {n} |-> IF id = n THEN user ELSE users[id]]
      /\ nextUserId' = n + 1 /\ n \in UserIds /\ n \in Int
      /\ \A id \in DOMAIN users : users[id].email # user.email
  BY <1>1 DEF InsertUser, EmailTaken, UserIds
<1>3. n \notin DOMAIN users
  BY <1>1, <1>2 DEF AccInv, UsersFresh, AccountsTypeOK, UserIds
<1>4. nextUserId' \in UserIds \cup {MaxUsers + 1}
  BY <1>2, AccountsAssumption DEF UserIds
<1>5. UsersKept
  BY <1>1, <1>2, <1>4 DEF UsersKept
<1>6. OneAccountPerEmail'
  BY <1>2 DEF AccInv, OneAccountPerEmail
<1> QED BY <1>1, <1>2, <1>3, <1>5, <1>6

\* A registration inserts its customer, or is refused (createCustomer).
LEMMA CreateCustomerStep ==
  ASSUME AccInv, NEW r \in AuthRequests, createCustomer(r) PROVE AccInv'
<1>1. /\ AccountsTypeOK /\ apc[r] = "create" /\ acall[r] \in AuthCall
      /\ acall[r].op = "register" /\ r \in Registering
      /\ UNCHANGED <<limiterVars, mishaps, admitted>>
  BY DEF AccInv, AllACarried, ACarried, createCustomer, Registering
<1>2. AroundTypeOK'
  BY <1>1, AroundFrame DEF AccountsTypeOK, mishaps
<1>3. CASE /\ UNCHANGED accountVars
           /\ ARespond(r, StatusOf("P2000")) \/ ARespond(r, StatusOf("P2002"))
  <2>1. StatusOf("P2000") \in AReplies /\ StatusOf("P2002") \in AReplies
    BY DEF StatusOf, AReplies
  <2>2. UNCHANGED <<users, nextUserId>> /\ tokens' \subseteq Token /\ TokensHeld'
    BY <1>1, <1>3 DEF AccInv, AccountsTypeOK, TokensHeld, accountVars
  <2> QED BY <1>2, <1>3, <2>1, <2>2, AAnswerStep
<1>4. CASE /\ InsertUser(NewUser(acall[r])) /\ UNCHANGED tokens
           /\ ContinueWith(r, "sign", nextUserId, NewUser(acall[r]))
  <2>1. PICK n, user : n = nextUserId /\ user = NewUser(acall[r])
    OBVIOUS
  <2>2. user \in UserRow /\ user.email = acall[r].email
    <3>1. HashOf[acall[r].password] \in Range(HashOf)
      BY <1>1, AccountsAssumption DEF AuthCall
    <3> QED BY <1>1, <2>1, <3>1 DEF NewUser, UserRow, AuthCall, Roles
  <2>3. n \in UserIds
    <3>1. IsFiniteSet(Registering)
      BY FS_Subset, AccountsAssumption DEF Registering
    <3>2. Cardinality(Registering) \in Nat /\ Cardinality(Registering) # 0
      BY <1>1, <3>1, FS_CardinalityType, FS_EmptySet
    <3> QED BY <1>1, <2>1, <3>2, AccountsAssumption
        DEF AccInv, ARoomLeft, AccountsTypeOK, UserIds
  <2>4. /\ UsersKept /\ OneAccountPerEmail' /\ nextUserId' = n + 1
        /\ n \in DOMAIN users' /\ users'[n] = user
    BY <1>4, <2>1, <2>2, <2>3, InsertUserEffect
  <2>5. [id |-> n, user |-> user] \in Selected
    BY <2>2, <2>3 DEF Selected
  <2>6. /\ apc' = [apc EXCEPT ![r] = "sign"]
        /\ row' = [row EXCEPT ![r] = [id |-> n, user |-> user]]
        /\ UNCHANGED <<acall, areply>>
    BY <1>4, <2>1 DEF ContinueWith
  <2>7. /\ apc' \in [AuthRequests -> APlaces]
        /\ acall' \in [AuthRequests -> AuthCall \cup {Null}]
        /\ areply' \in [AuthRequests -> AReplies]
        /\ row' \in [AuthRequests -> Selected \cup {Null}]
    BY <1>1, <2>5, <2>6 DEF AccountsTypeOK, APlaces, AReplies
  <2>8. /\ apc'[r] = "sign" /\ row'[r] = [id |-> n, user |-> user] /\ acall'[r] = acall[r]
        /\ \A q \in AuthRequests \ {r} :
             apc'[q] = apc[q] /\ acall'[q] = acall[q] /\ row'[q] = row[q]
    BY <1>1, <2>6 DEF AccountsTypeOK
  <2>9. ACarried(r)'
    <3>1. row'[r] \in Selected /\ row'[r].id = n /\ row'[r].user = user
      BY <2>5, <2>8
    <3>2. n < nextUserId'
      BY <2>3, <2>4 DEF UserIds
    <3>3. user = NewUser(acall[r])'
      BY <2>1, <2>8 DEF NewUser
    <3> QED BY <1>1, <2>2, <2>4, <2>8, <3>1, <3>2, <3>3 DEF ACarried
  <2>10. ARoomLeft'
    <3>1. Registering' = Registering \ {r}
      BY <2>8 DEF Registering
    <3> QED BY <1>1, <2>1, <2>4, <3>1, ARoomFrame
  <2> QED BY <1>1, <1>2, <1>4, <2>4, <2>7, <2>8, <2>9, <2>10, AMoveStep
<1> QED BY <1>3, <1>4 DEF createCustomer

\* A login is given the row of its e-mail (findUserByEmail).
LEMMA FindUserStep ==
  ASSUME AccInv, NEW r \in AuthRequests, findUserByEmail(r) PROVE AccInv'
<1>1. /\ AccountsTypeOK /\ apc[r] = "find" /\ acall[r] \in AuthCall /\ acall[r].op = "login"
      /\ UNCHANGED <<limiterVars, admitted, users, nextUserId, tokens, faults, restarts>>
      /\ tokens' \subseteq Token /\ TokensHeld' /\ 401 \in AReplies
  BY DEF AccInv, AccountsTypeOK, AllACarried, ACarried, findUserByEmail, accountVars, mishaps,
         TokensHeld, AReplies
<1>2. AroundTypeOK'
  BY <1>1, AroundFrame DEF AccountsTypeOK, mishaps
<1>3. CASE ARespond(r, 401)
  BY <1>1, <1>2, <1>3, AAnswerStep
<1>4. ASSUME NEW id \in DOMAIN users, users[id].email = acall[r].email,
             ContinueWith(r, "compare", id, users[id])
      PROVE  AccInv'
  <2>1. [id |-> id, user |-> users[id]] \in Selected
    BY <1>1 DEF AccountsTypeOK, Selected
  <2>2. /\ apc' \in [AuthRequests -> APlaces]
        /\ acall' \in [AuthRequests -> AuthCall \cup {Null}]
        /\ areply' \in [AuthRequests -> AReplies]
        /\ row' \in [AuthRequests -> Selected \cup {Null}]
    BY <1>1, <1>4, <2>1 DEF AccountsTypeOK, APlaces, AReplies, ContinueWith
  <2>3. /\ apc'[r] = "compare" /\ row'[r] = [id |-> id, user |-> users[id]]
        /\ acall'[r] = acall[r]
        /\ \A q \in AuthRequests \ {r} :
             apc'[q] = apc[q] /\ acall'[q] = acall[q] /\ row'[q] = row[q]
    BY <1>1, <1>4 DEF AccountsTypeOK, ContinueWith
  <2>4. ACarried(r)'
    BY <1>1, <1>4, <2>1, <2>3 DEF ACarried, AccInv, UsersFresh
  <2>5. UsersKept /\ OneAccountPerEmail'
    BY <1>1, AccountsAssumption DEF UsersKept, AccInv, AccountsTypeOK, UserIds, OneAccountPerEmail
  <2>6. ARoomLeft'
    <3>1. Registering' \subseteq Registering
      BY <2>3 DEF Registering
    <3> QED BY <1>1, <3>1, ARoomFrame
  <2> QED BY <1>1, <1>2, <2>2, <2>3, <2>4, <2>5, <2>6, AMoveStep
<1> QED BY <1>3, <1>4 DEF findUserByEmail

\* A token is signed for the row a request holds: it says what the account says
\* (signToken).
LEMMA SignStep ==
  ASSUME AccInv, NEW r \in AuthRequests, SignOrRefuse(r) PROVE AccInv'
<1>1. /\ AccountsTypeOK /\ ACarried(r) /\ UNCHANGED <<users, nextUserId, faults, restarts>>
      /\ UNCHANGED <<limiterVars, admitted>> /\ apc[r] \in {"sign", "compare"}
      /\ {200, 201, 401} \subseteq AReplies
  BY DEF AccInv, AllACarried, SignOrRefuse, mishaps, AReplies
<1>2. AroundTypeOK'
  BY <1>1, AroundFrame DEF AccountsTypeOK
<1>3. tokens' \subseteq Token /\ TokensHeld'
  <2>1. CASE UNCHANGED tokens
    BY <1>1, <2>1 DEF AccInv, AccountsTypeOK, TokensHeld
  <2>2. CASE signToken(row[r])
    <3>1. PICK s : s = row[r] /\ s \in Selected
      BY <1>1 DEF ACarried
    <3>2. PICK t : t = [sub |-> s.id, role |-> s.user.role, email |-> s.user.email,
                        expires |-> now + TokenLife]
      OBVIOUS
    <3>3. tokens' \subseteq tokens \cup {t}
      BY <2>2, <3>1, <3>2 DEF signToken
    <3>4. t \in Token
      <4>1. now + TokenLife \in 0..(MaxClock + TokenLife)
        BY <1>1, LimiterAssumption, AccountsAssumption DEF AccountsTypeOK, LimiterTypeOK
      <4> QED BY <3>1, <3>2, <4>1 DEF Token, Selected, UserRow
    <3>5. /\ t.sub < nextUserId
          /\ t.sub \in DOMAIN users =>
               users[t.sub].email = t.email /\ users[t.sub].role = t.role
      BY <1>1, <3>1, <3>2 DEF ACarried
    <3> QED BY <1>1, <3>3, <3>4, <3>5 DEF AccInv, AccountsTypeOK, TokensHeld
  <2> QED BY <2>1, <2>2 DEF SignOrRefuse
<1>4. \E status \in {200, 201, 401} : ARespond(r, status)
  BY DEF SignOrRefuse
<1> QED BY <1>1, <1>2, <1>3, <1>4, AAnswerStep

\* A statement fails (AuthQueryFails).
LEMMA AuthFailStep ==
  ASSUME AccInv, NEW r \in AuthRequests, AuthQueryFails(r) PROVE AccInv'
<1>1. /\ AccountsTypeOK /\ ARespond(r, 500) /\ 500 \in AReplies
      /\ UNCHANGED <<limiterVars, users, nextUserId, tokens, restarts, admitted>>
      /\ faults' \in 0..MaxFaults /\ restarts' \in 0..MaxRestarts
      /\ tokens' \subseteq Token /\ TokensHeld'
  BY AccountsAssumption
  DEF AccInv, AccountsTypeOK, AuthQueryFails, DatabaseFails, accountVars, TokensHeld, AReplies
<1> QED BY <1>1, AroundFrame, AAnswerStep

\* Time passes, or the process restarts (AuthTick, AuthRestart).
LEMMA ClockAndRestartStep == ASSUME AccInv, AuthTick \/ AuthRestart PROVE AccInv'
<1>1. /\ AccountsTypeOK /\ LimiterTypeOK /\ MaxClock \in Nat
      /\ GeneralLimit \in Nat /\ AuthLimit \in Nat /\ Window \in Nat
      /\ MaxRestarts \in Nat
  BY LimiterAssumption, AccountsAssumption DEF AccInv, AccountsTypeOK
<1>2. CASE AuthTick
  <2>1. now' \in 0..MaxClock /\ UNCHANGED <<generalHits, authHits, admitted, faults, restarts>>
        /\ UNCHANGED <<accountVars, authVars>>
    BY <1>1, <1>2 DEF AuthTick, Tick, LimiterTypeOK, mishaps
  <2>2. AroundTypeOK'
    BY <1>1, <2>1 DEF AccInv, AroundTypeOK, LimiterTypeOK, AccountsTypeOK, AdmissionsFinite
  <2> QED BY <2>1, <2>2, AccountsFrame
<1>3. CASE AuthRestart
  <2>1. /\ UNCHANGED <<now, users, nextUserId, tokens, faults, admitted>>
        /\ restarts' \in 0..MaxRestarts /\ ForgetHits
        /\ apc' = [r \in AuthRequests |-> "idle"]
        /\ acall' = Nobody /\ areply' = Nobody /\ row' = Nobody
    BY <1>1, <1>3 DEF AuthRestart, accountVars, AccountsTypeOK
  <2>2. NoHits \in [Clients -> Counter(GeneralLimit)] /\ NoHits \in [Clients -> Counter(AuthLimit)]
    BY <1>1 DEF NoHits, Counter
  <2>3. AroundTypeOK'
    BY <1>1, <2>1, <2>2
    DEF AccInv, AroundTypeOK, LimiterTypeOK, AccountsTypeOK, ForgetHits, AdmissionsFinite
  <2>4. AccountsTypeOK'
    BY <1>1, <2>1, <2>3 DEF AccountsTypeOK, AroundTypeOK, Nobody
  <2>5. AllACarried'
    BY <2>1 DEF AllACarried, ACarried
  <2>6. ARoomLeft'
    <3>1. Registering' \subseteq Registering
      BY <2>1 DEF Registering
    <3> QED BY <2>1, <3>1, ARoomFrame
  <2>7. UsersFresh' /\ TokensHeld' /\ OneAccountPerEmail' /\ AdmissionsFinite'
    BY <2>1 DEF AccInv, UsersFresh, TokensHeld, OneAccountPerEmail, AdmissionsFinite
  <2> QED BY <2>4, <2>5, <2>6, <2>7 DEF AccInv
<1> QED BY <1>2, <1>3

\* Whatever requests to /auth, the clock and restarts do keeps the invariant.
LEMMA AccountsStep ==
  ASSUME AccInv,
         \/ \E r \in AuthRequests : AReceive(r) \/ AuthStep(r) \/ AuthQueryFails(r)
         \/ AuthTick \/ AuthRestart
  PROVE  AccInv'
BY AReceiveStep, CreateCustomerStep, FindUserStep, SignStep, AuthFailStep,
   ClockAndRestartStep DEF AuthStep
-----------------------------------------------------------------------------
(* The inductive invariant of the tags, in parts *)

\* What a request to /tags carries at each place: a call its token allows.
TCarried(r) ==
  LET c == tcall[r] IN
  /\ tpc[r] = "idle" => c = Null
  /\ tpc[r] # "idle" =>
       /\ c \in TagCall /\ bearer[r] \in Token /\ bearer[r].role \in authorize(c.op)
       /\ c.op \in {"create", "patch"} => c.name \in Names
       /\ IF tpc[r] = "find" THEN c.op \in {"get", "patch", "delete"} ELSE c.op = tpc[r]

AllTCarried == \A r \in TagRequests : TCarried(r)

\* The bound on ids: every create in flight has one left to take.
Tagging == {r \in TagRequests : tcall[r] # Null /\ tcall[r].op = "create"}
TRoomLeft == nextTagId + Cardinality(Tagging) <= MaxTags + 1

\* No tag has an id the counter has not passed.
TagsFresh == \A id \in DOMAIN tags : id < nextTagId

\* No two tags share a name (the unique index).
TagNamesUnique == \A x, y \in DOMAIN tags : tags[x] = tags[y] => x = y

AccessInv == AccInv /\ AccessTypeOK /\ AllTCarried /\ TRoomLeft /\ TagsFresh
               /\ TagNamesUnique

TPlaces == {"idle", "list", "find", "create", "patch", "delete"}
TReplies == {200, 201, 204, 400, 401, 403, 404, 409, 429, 500, Null}

\* The tag tables keep to their types and names to one tag each.
TagTablesOK ==
  /\ DOMAIN tags \subseteq TagIds /\ \A id \in DOMAIN tags : tags[id] \in Names
  /\ nextTagId \in 1..(MaxTags + 1)
  /\ \A link \in ticketTags : link[2] \in DOMAIN tags
  /\ TagsFresh /\ TagNamesUnique
-----------------------------------------------------------------------------
LEMMA AccessInitInv == AccessInit => AccessInv
<1> SUFFICES ASSUME AccessInit PROVE AccessInv
  OBVIOUS
<1>1. AccInv
  BY AccountsInitInv DEF AccessInit
<1>2. PICK n \in 0..MaxTags : InitialTags \in [1..n -> Names]
  BY TagsAssumption
<1>3. nextTagId = n + 1
  <2>1. n \in Nat
    BY TagsAssumption
  <2>2. Cardinality(1..n) = n
    BY <2>1, FS_Interval
  <2> QED BY <1>2, <2>2 DEF AccessInit, TagsInit
<1>4. AccessTypeOK /\ TagsFresh /\ TagNamesUnique
  BY <1>1, <1>2, <1>3, TagsAssumption
  DEF AccInv, AccessInit, TagsInit, AccessTypeOK, TagIds, NoTagCalls, TagsFresh, TagNamesUnique
<1>5. AllTCarried
  BY DEF AccessInit, TagsInit, AllTCarried, TCarried, NoTagCalls
<1>6. TRoomLeft
  <2>1. Tagging = {}
    BY DEF AccessInit, TagsInit, Tagging, NoTagCalls
  <2> QED BY <1>3, <2>1, FS_EmptySet, TagsAssumption DEF TRoomLeft
<1> QED BY <1>1, <1>4, <1>5, <1>6 DEF AccessInv

\* What a response does to the request it answers and leaves of the others
\* (TRespond).
LEMMA TRespondEffect ==
  ASSUME AccessTypeOK, NEW r \in TagRequests, NEW status \in TReplies, TRespond(r, status)
  PROVE  /\ tpc' \in [TagRequests -> TPlaces]
         /\ tcall' \in [TagRequests -> TagCall \cup {Null}]
         /\ treply' \in [TagRequests -> TReplies]
         /\ bearer' \in [TagRequests -> Token \cup {Null}]
         /\ tpc'[r] = "idle" /\ tcall'[r] = Null /\ treply'[r] = status
         /\ \A q \in TagRequests \ {r} :
              tpc'[q] = tpc[q] /\ tcall'[q] = tcall[q] /\ bearer'[q] = bearer[q]
              /\ treply'[q] = treply[q]
BY DEF AccessTypeOK, TRespond, TPlaces, TReplies

\* The room for new ids stays when no more creates are in flight, or when one of
\* them takes its id (RoomForTags).
LEMMA TRoomFrame ==
  ASSUME AccessInv,
         \/ UNCHANGED nextTagId /\ Tagging' \subseteq Tagging
         \/ /\ nextTagId' = nextTagId + 1
            /\ \E r \in Tagging : Tagging' = Tagging \ {r}
  PROVE  TRoomLeft'
<1>1. IsFiniteSet(Tagging) /\ Cardinality(Tagging) \in Nat
  BY FS_Subset, FS_CardinalityType, TagsAssumption DEF Tagging
<1>2. nextTagId \in Int /\ MaxTags \in Nat
  BY TagsAssumption DEF AccessInv, AccessTypeOK
<1>3. CASE UNCHANGED nextTagId /\ Tagging' \subseteq Tagging
  <2>1. Cardinality(Tagging') <= Cardinality(Tagging) /\ Cardinality(Tagging') \in Nat
    BY <1>1, <1>3, FS_Subset, FS_CardinalityType
  <2> QED BY <1>1, <1>2, <1>3, <2>1 DEF AccessInv, TRoomLeft
<1>4. ASSUME NEW r \in Tagging, Tagging' = Tagging \ {r}, nextTagId' = nextTagId + 1
      PROVE  TRoomLeft'
  <2>1. Cardinality(Tagging') = Cardinality(Tagging) - 1
    BY <1>1, <1>4, FS_RemoveElement
  <2> QED BY <1>1, <1>2, <1>4, <2>1 DEF AccessInv, TRoomLeft
<1> QED BY <1>3, <1>4

\* Steps that leave the tags and their requests alone keep the invariant if they
\* keep that of the accounts.
LEMMA TagsFrame ==
  ASSUME AccessInv, AccInv', UNCHANGED <<tagVars, tagRequestVars>>
  PROVE  AccessInv'
<1>1. UNCHANGED <<tags, nextTagId, ticketTags, tpc, tcall, treply, bearer>>
  BY DEF tagVars, tagRequestVars
<1>2. AccessTypeOK'
  BY <1>1 DEF AccessInv, AccessTypeOK, AccInv
<1> QED BY <1>1, <1>2 DEF AccessInv, AllTCarried, TCarried, TRoomLeft, Tagging, TagsFresh,
                          TagNamesUnique

\* Answering request r keeps the invariant, if its statement left the tables in
\* order (TRespond).
LEMMA TAnswerStep ==
  ASSUME AccessInv, NEW r \in TagRequests, NEW status \in TReplies, TRespond(r, status),
         AccInv', TagTablesOK',
         UNCHANGED nextTagId \/ (nextTagId' = nextTagId + 1 /\ r \in Tagging)
  PROVE  AccessInv'
<1>1. /\ tpc' \in [TagRequests -> TPlaces]
      /\ tcall' \in [TagRequests -> TagCall \cup {Null}]
      /\ treply' \in [TagRequests -> TReplies]
      /\ bearer' \in [TagRequests -> Token \cup {Null}]
      /\ tpc'[r] = "idle" /\ tcall'[r] = Null
      /\ \A q \in TagRequests \ {r} :
           tpc'[q] = tpc[q] /\ tcall'[q] = tcall[q] /\ bearer'[q] = bearer[q]
  BY TRespondEffect DEF AccessInv
<1>2. AccessTypeOK'
  BY <1>1 DEF AccessTypeOK, AccInv, TagTablesOK, TPlaces, TReplies
<1>3. AllTCarried'
  BY <1>1 DEF AccessInv, AllTCarried, TCarried
<1>4. TRoomLeft'
  <2>1. Tagging' = Tagging \ {r}
    BY <1>1 DEF Tagging
  <2> QED BY <2>1, TRoomFrame
<1> QED BY <1>2, <1>3, <1>4 DEF AccessInv, TagTablesOK

\* A request meets the limiter, authenticate, authorize and validate (TReceive).
LEMMA TReceiveStep ==
  ASSUME AccessInv, NEW r \in TagRequests, TReceive(r) PROVE AccessInv'
<1>1. PICK c \in TagCalls, token \in tokens \cup {Null} :
        /\ tpc[r] = "idle"
        /\ c.op = "create" => RoomForTags(1)
        /\ CountGeneral(c.client)
        /\ \/ \E status \in {429, 401, 403, 400} : TRespond(r, status)
           \/ /\ Authenticated(token) /\ token.role \in authorize(c.op) /\ c.valid
              /\ tpc' = [tpc EXCEPT ![r] = FirstAwait(c.op)]
              /\ tcall' = [tcall EXCEPT ![r] = c]
              /\ bearer' = [bearer EXCEPT ![r] = token]
              /\ treply' = [treply EXCEPT ![r] = Null]
        /\ UNCHANGED <<now, authHits, accountVars, authVars, mishaps, admitted, tagVars>>
  BY DEF TReceive
<1>2. /\ AccInv /\ AccessTypeOK /\ AccountsTypeOK /\ LimiterTypeOK
      /\ c \in TagCall /\ c.client \in Clients
      /\ c.valid /\ c.op \in {"create", "patch"} => c.name \in Names
      /\ UNCHANGED <<tags, nextTagId, ticketTags, faults, restarts>>
      /\ {429, 401, 403, 400} \subseteq TReplies
      /\ tokens \subseteq Token
  BY <1>1, TagsAssumption
  DEF AccessInv, AccessTypeOK, AccountsTypeOK, TagCall, tagVars, mishaps, TReplies
<1>3. AccInv'
  <2>1. AroundTypeOK'
    BY <1>1, <1>2, CountingType
    DEF AccInv, AroundTypeOK, AccountsTypeOK, LimiterTypeOK, AdmissionsFinite
  <2> QED BY <1>1, <1>2, <2>1, AccountsFrame
<1>4. TagTablesOK'
  BY <1>2 DEF AccessInv, AccessTypeOK, TagTablesOK, TagsFresh, TagNamesUnique
<1>5. CASE \E status \in {429, 401, 403, 400} : TRespond(r, status)
  BY <1>2, <1>3, <1>4, <1>5, TAnswerStep
<1>6. CASE /\ Authenticated(token) /\ token.role \in authorize(c.op) /\ c.valid
           /\ tpc' = [tpc EXCEPT ![r] = FirstAwait(c.op)]
           /\ tcall' = [tcall EXCEPT ![r] = c]
           /\ bearer' = [bearer EXCEPT ![r] = token]
           /\ treply' = [treply EXCEPT ![r] = Null]
  <2>1. /\ token \in Token /\ c.op \in {"list", "get", "create", "patch", "delete"}
        /\ FirstAwait(c.op) \in TPlaces \ {"idle"}
        /\ IF FirstAwait(c.op) = "find" THEN c.op \in {"get", "patch", "delete"}
                                        ELSE c.op = FirstAwait(c.op)
    BY <1>2, <1>6 DEF Authenticated, FirstAwait, TagCall, TPlaces
  <2>2. /\ tpc'[r] = FirstAwait(c.op) /\ tcall'[r] = c /\ bearer'[r] = token
        /\ \A q \in TagRequests \ {r} :
             tpc'[q] = tpc[q] /\ tcall'[q] = tcall[q] /\ bearer'[q] = bearer[q]
    BY <1>2, <1>6 DEF AccessTypeOK
  <2>3. AccessTypeOK'
    BY <1>2, <1>3, <1>4, <1>6, <2>1 DEF AccessTypeOK, AccInv, TagTablesOK, TPlaces
  <2>4. AllTCarried'
    BY <1>2, <1>6, <2>1, <2>2 DEF AccessInv, AllTCarried, TCarried
  <2>5. TRoomLeft'
    <3>1. tcall[r] = Null
      BY <1>1 DEF AccessInv, AllTCarried, TCarried
    <3>2. CASE c.op # "create"
      <4>1. Tagging' \subseteq Tagging
        BY <2>2, <3>2 DEF Tagging
      <4> QED BY <1>2, <4>1, TRoomFrame
    <3>3. CASE c.op = "create"
      <4>1. r \notin Tagging /\ Tagging' = Tagging \cup {r}
        BY <1>2, <2>2, <3>1, <3>3, TagsAssumption DEF Tagging
      <4>2. IsFiniteSet(Tagging)
        BY FS_Subset, TagsAssumption DEF Tagging
      <4>3. Cardinality(Tagging') = Cardinality(Tagging) + 1 /\ Cardinality(Tagging) \in Nat
        BY <4>1, <4>2, FS_AddElement, FS_CardinalityType
      <4>4. nextTagId + 1 + Cardinality(Tagging) <= MaxTags + 1
        BY <1>1, <3>3 DEF RoomForTags, Tagging
      <4> QED BY <1>2, <4>3, <4>4, TagsAssumption DEF TRoomLeft, AccessTypeOK
    <3> QED BY <3>2, <3>3
  <2> QED BY <1>3, <1>4, <2>3, <2>4, <2>5 DEF AccessInv, TagTablesOK
<1> QED BY <1>1, <1>5, <1>6

\* The statement of a create, PATCH or DELETE keeps the tables in order, and a
\* create takes one id (InsertTag, UpdateTag, DeleteTag).
LEMMA TagCommitsEffect ==
  ASSUME AccessInv, NEW r \in TagRequests, TagCommits(r)
  PROVE  /\ TagTablesOK' /\ tpc[r] \in {"create", "patch", "delete"}
         /\ UNCHANGED nextTagId \/ (nextTagId' = nextTagId + 1 /\ r \in Tagging)
<1>1. /\ AccessTypeOK /\ TCarried(r) /\ TagsFresh /\ TagNamesUnique
      /\ nextTagId \in Int /\ MaxTags \in Nat /\ tpc[r] \in {"create", "patch", "delete"}
  BY TagsAssumption DEF AccessInv, AccessTypeOK, AllTCarried, TagCommits
<1>2. tcall[r] \in TagCall /\ tcall[r].op = tpc[r]
      /\ (tpc[r] \in {"create", "patch"} => tcall[r].name \in Names)
  BY <1>1 DEF TCarried
<1>3. ASSUME tpc[r] = "create", InsertTag(tcall[r].name)
      PROVE  TagTablesOK' /\ nextTagId' = nextTagId + 1 /\ r \in Tagging
  <2>1. PICK n, name : n = nextTagId /\ name = tcall[r].name
    OBVIOUS
  <2>2. r \in Tagging
    BY <1>2, <1>3, TagsAssumption DEF Tagging
  <2>3. n \in 1..MaxTags
    <3>1. IsFiniteSet(Tagging)
      BY FS_Subset, TagsAssumption DEF Tagging
    <3>2. Cardinality(Tagging) \in Nat /\ Cardinality(Tagging) # 0
      BY <2>2, <3>1, FS_CardinalityType, FS_EmptySet
    <3> QED BY <1>1, <2>1, <3>2 DEF AccessInv, TRoomLeft, AccessTypeOK
  <2>4. /\ tags' = [x \in DOMAIN tags \cup {n} |-> IF x = n THEN name ELSE tags[x]]
        /\ nextTagId' = n + 1 /\ UNCHANGED ticketTags
        /\ \A x \in DOMAIN tags : x # n => tags[x] # name
    BY <1>3, <2>1 DEF InsertTag, NameTaken
  <2>5. name \in Names
    BY <1>2, <1>3, <2>1
  <2> QED BY <1>1, <2>1, <2>2, <2>3, <2>4, <2>5
      DEF TagTablesOK, TagsFresh, TagNamesUnique, AccessTypeOK, TagIds
<1>4. ASSUME tpc[r] = "patch", UpdateTag(tcall[r].id, tcall[r].name)
      PROVE  TagTablesOK' /\ UNCHANGED nextTagId
  <2>1. PICK n, name : n = tcall[r].id /\ name = tcall[r].name
    OBVIOUS
  <2>2. /\ n \in DOMAIN tags /\ tags' = [tags EXCEPT ![n] = name]
        /\ UNCHANGED <<nextTagId, ticketTags>> /\ name \in Names
        /\ \A x \in DOMAIN tags : x # n => tags[x] # name
    BY <1>2, <1>4, <2>1 DEF UpdateTag, NameTaken
  <2>3. /\ DOMAIN tags' = DOMAIN tags
        /\ \A x \in DOMAIN tags : tags'[x] = IF x = n THEN name ELSE tags[x]
    BY <2>2
  <2> QED BY <1>1, <2>2, <2>3 DEF TagTablesOK, TagsFresh, TagNamesUnique, AccessTypeOK
<1>5. ASSUME tpc[r] = "delete", DeleteTag(tcall[r].id)
      PROVE  TagTablesOK' /\ UNCHANGED nextTagId
  <2>1. PICK n : n = tcall[r].id
    OBVIOUS
  <2>2. /\ tags' = [x \in DOMAIN tags \cap (DOMAIN tags \ {n}) |-> tags[x]]
        /\ UNCHANGED <<nextTagId, ticketTags>>
        /\ \A link \in ticketTags : link[2] # n
    BY <1>5, <2>1 DEF DeleteTag, Linked, Restrict
  <2> QED BY <1>1, <2>2 DEF TagTablesOK, TagsFresh, TagNamesUnique, AccessTypeOK
<1> QED BY <1>1, <1>3, <1>4, <1>5 DEF TagCommits

\* What requests to /tags have done when nothing is written (tagVars).
LEMMA TagTablesFrame ==
  ASSUME AccessInv, UNCHANGED tagVars
  PROVE  TagTablesOK' /\ UNCHANGED <<tags, nextTagId, ticketTags>>
BY DEF AccessInv, AccessTypeOK, TagTablesOK, TagsFresh, TagNamesUnique, tagVars

LEMMA AccountsUntouched == ASSUME AccInv, UNCHANGED allAccounts PROVE AccInv'
<1>1. /\ AccountsTypeOK
      /\ UNCHANGED <<limiterVars, accountVars, authVars, admitted, faults, restarts>>
  BY DEF AccInv, allAccounts, mishaps
<1>2. AroundTypeOK'
  BY <1>1, AroundFrame DEF AccountsTypeOK
<1> QED BY <1>1, <1>2, AccountsFrame

\* A lookup answers, or its request goes on to the write (getAllTags,
\* getTagById).
LEMMA TagLookupStep ==
  ASSUME AccessInv, NEW r \in TagRequests, getAllTags(r) \/ getTagById(r)
  PROVE  AccessInv'
<1>1. /\ AccInv' /\ TagTablesOK' /\ UNCHANGED <<tags, nextTagId, ticketTags>>
      /\ {200, 404, 500} \subseteq TReplies
  BY AccountsUntouched, TagTablesFrame DEF AccessInv, getAllTags, getTagById, TReplies
<1>2. CASE \E status \in {200, 404, 500} : TRespond(r, status)
  BY <1>1, <1>2, TAnswerStep
<1>3. CASE /\ tpc[r] = "find" /\ tcall[r].op # "get"
           /\ tpc' = [tpc EXCEPT ![r] = tcall[r].op]
           /\ UNCHANGED <<tcall, treply, bearer>>
  <2>1. AccessTypeOK /\ TCarried(r) /\ tcall[r].op \in {"patch", "delete"}
    BY <1>3 DEF AccessInv, AllTCarried, TCarried
  <2>2. /\ tpc' \in [TagRequests -> TPlaces] /\ tpc'[r] = tcall[r].op
        /\ \A q \in TagRequests \ {r} : tpc'[q] = tpc[q]
    BY <1>3, <2>1 DEF AccessTypeOK, TPlaces
  <2>3. AccessTypeOK'
    BY <1>1, <1>3, <2>1, <2>2 DEF AccessTypeOK, AccInv, TagTablesOK, TPlaces
  <2>4. AllTCarried'
    BY <1>3, <2>1, <2>2 DEF AccessInv, AllTCarried, TCarried
  <2>5. TRoomLeft'
    BY <1>1, <1>3 DEF AccessInv, TRoomLeft, Tagging
  <2> QED BY <1>1, <2>3, <2>4, <2>5 DEF AccessInv, TagTablesOK
<1>4. StatusOf("OutOfRange") = 500
  BY DEF StatusOf
<1> QED BY <1>2, <1>3, <1>4 DEF getAllTags, getTagById

\* What is refused is a client error (TagRefused, PRISMA_ERROR_STATUS).
LEMMA RefusalStatus ==
  ASSUME NEW r \in TagRequests, TagRefused(r) # "none"
  PROVE  StatusOf(TagRefused(r)) \in {404, 409}
<1>1. TagRefused(r) \in {"P2025", "P2003", "P2002", "none"}
  BY DEF TagRefused
<1> QED BY <1>1 DEF StatusOf

\* A write commits or is refused, and the request is answered (WriteTag).
LEMMA WriteTagStep ==
  ASSUME AccessInv, NEW r \in TagRequests, WriteTag(r) PROVE AccessInv'
<1>1. AccInv'
  BY AccountsUntouched DEF AccessInv, WriteTag
<1>2. CASE /\ TagRefused(r) # "none" /\ TRespond(r, StatusOf(TagRefused(r)))
           /\ UNCHANGED tagVars
  <2>1. StatusOf(TagRefused(r)) \in TReplies
    BY <1>2, RefusalStatus DEF TReplies
  <2> QED BY <1>1, <1>2, <2>1, TagTablesFrame, TAnswerStep
<1>3. CASE TagCommits(r) /\ TRespond(r, Success(tcall[r].op))
  <2>1. Success(tcall[r].op) \in TReplies
    BY DEF Success, TReplies
  <2> QED BY <1>1, <1>3, <2>1, TagCommitsEffect, TAnswerStep
<1> QED BY <1>2, <1>3 DEF WriteTag

\* A statement fails, before or after it commits (TagQueryFails).
LEMMA TagFailStep ==
  ASSUME AccessInv, NEW r \in TagRequests, TagQueryFails(r) PROVE AccessInv'
<1>1. AccInv'
  <2>1. /\ AccInv /\ AccountsTypeOK /\ faults' \in 0..MaxFaults /\ restarts' \in 0..MaxRestarts
        /\ UNCHANGED <<limiterVars, admitted, accountVars, authVars>>
    BY AccountsAssumption
    DEF AccessInv, AccInv, AccountsTypeOK, TagQueryFails, DatabaseFails
  <2> QED BY <2>1, AroundFrame, AccountsFrame
<1>2. TRespond(r, 500) /\ 500 \in TReplies
  BY DEF TagQueryFails, TReplies
<1>3. CASE UNCHANGED tagVars
  BY <1>1, <1>2, <1>3, TagTablesFrame, TAnswerStep
<1>4. CASE TagCommits(r)
  BY <1>1, <1>2, <1>4, TagCommitsEffect, TAnswerStep
<1> QED BY <1>3, <1>4 DEF TagQueryFails

\* The API process restarts: no request is left (AccessRestart).
LEMMA TagsRestartStep == ASSUME AccessInv, AccessRestart PROVE AccessInv'
<1>1. AccInv'
  BY AccountsStep DEF AccessInv, AccessRestart
<1>2. /\ TagTablesOK' /\ UNCHANGED <<tags, nextTagId, ticketTags>> /\ AccessTypeOK
      /\ tpc' = [r \in TagRequests |-> "idle"]
      /\ tcall' = NoTagCalls /\ treply' = NoTagCalls /\ bearer' = NoTagCalls
  BY TagTablesFrame DEF AccessInv, AccessRestart
<1>3. AccessTypeOK'
  BY <1>1, <1>2 DEF AccessTypeOK, AccInv, TagTablesOK, NoTagCalls
<1>4. AllTCarried'
  BY <1>2 DEF AllTCarried, TCarried, NoTagCalls
<1>5. TRoomLeft'
  <2>1. Tagging' \subseteq Tagging
    BY <1>2 DEF Tagging, NoTagCalls
  <2> QED BY <1>2, <2>1, TRoomFrame
<1> QED BY <1>1, <1>2, <1>3, <1>4, <1>5 DEF AccessInv, TagTablesOK

LEMMA AccessNextInv == ASSUME AccessInv, [AccessNext]_accessVars PROVE AccessInv'
<1>1. CASE AccountsNext
  BY <1>1, AccountsStep, TagsFrame DEF AccountsNext, AccessInv
<1>2. ASSUME NEW r \in TagRequests, TReceive(r) \/ TagStep(r) \/ TagQueryFails(r)
      PROVE  AccessInv'
  BY <1>2, TReceiveStep, TagLookupStep, WriteTagStep, TagFailStep DEF TagStep
<1>3. CASE AccessRestart
  BY <1>3, TagsRestartStep
<1>4. CASE UNCHANGED accessVars
  <2>1. UNCHANGED allAccounts /\ UNCHANGED <<tagVars, tagRequestVars>>
    BY <1>4 DEF accessVars
  <2>2. AccInv'
    BY <2>1, AccountsUntouched DEF AccessInv
  <2> QED BY <2>1, <2>2, TagsFrame
<1> QED BY <1>1, <1>2, <1>3, <1>4 DEF AccessNext

LEMMA AccessInvariance == AccessSpec => []AccessInv
<1>1. AccessInv /\ [AccessNext]_accessVars => AccessInv'
  BY AccessNextInv
<1> QED BY <1>1, AccessInitInv, PTL DEF AccessSpec
-----------------------------------------------------------------------------
(* Who is staff *)

Staffed(holder) == holder.role # "customer" => holder.email \in StaffEmails

\* Every row, held or in the table, and every token of staff goes back to an
\* account that was staff from the start.
StaffInv ==
  /\ \A id \in DOMAIN users : Staffed(users[id])
  /\ \A r \in AuthRequests : apc[r] \in {"sign", "compare"} => Staffed(row[r].user)
  /\ \A t \in tokens : Staffed(t)
  /\ \A r \in TagRequests : tpc[r] # "idle" => Staffed(bearer[r])

LEMMA StaffInitInv == AccessInit => StaffInv
BY DEF AccessInit, AccountsInit, TagsInit, StaffInv, Staffed, StaffEmails

\* Registrations make customers, logins and tokens copy what the table says
\* (createCustomer, findUserByEmail, signToken).
LEMMA StaffAuthStep ==
  ASSUME AccessInv, StaffInv, NEW r \in AuthRequests, AuthStep(r),
         UNCHANGED <<tpc, bearer>>
  PROVE  StaffInv'
<1>1. /\ AccInv /\ AccountsTypeOK /\ ACarried(r)
  BY DEF AccessInv, AccInv, AllACarried
<1>2. \A r2 \in TagRequests : tpc'[r2] # "idle" => Staffed(bearer[r2])'
  BY DEF StaffInv, Staffed
<1>3. ASSUME NEW status, ARespond(r, status), UNCHANGED users,
             \A t \in tokens' : Staffed(t)
      PROVE  StaffInv'
  <2>1. /\ apc'[r] = "idle"
        /\ \A q \in AuthRequests \ {r} : apc'[q] = apc[q] /\ row'[q] = row[q]
    BY <1>1, <1>3 DEF ARespond, AccountsTypeOK
  <2> QED BY <1>2, <1>3, <2>1 DEF StaffInv, Staffed
<1>4. ASSUME NEW place, NEW id, NEW user, Staffed(user), ContinueWith(r, place, id, user),
             \A x \in DOMAIN users' : Staffed(users'[x]), UNCHANGED tokens
      PROVE  StaffInv'
  <2>1. /\ row'[r] = [id |-> id, user |-> user]
        /\ \A q \in AuthRequests \ {r} : apc'[q] = apc[q] /\ row'[q] = row[q]
    BY <1>1, <1>4 DEF ContinueWith, AccountsTypeOK
  <2>2. row'[r].user = user
    BY <2>1
  <2> QED BY <1>2, <1>4, <2>1, <2>2 DEF StaffInv, Staffed
<1>5. CASE createCustomer(r)
  <2>1. CASE UNCHANGED accountVars /\ \E status \in {StatusOf("P2000"), StatusOf("P2002")} : ARespond(r, status)
    BY <1>3, <2>1 DEF accountVars, StaffInv
  <2>2. CASE /\ InsertUser(NewUser(acall[r])) /\ UNCHANGED tokens
             /\ ContinueWith(r, "sign", nextUserId, NewUser(acall[r]))
    <3>1. Staffed(NewUser(acall[r]))
      BY DEF Staffed, NewUser
    <3>2. \A x \in DOMAIN users' : Staffed(users'[x])
      BY <2>2, <3>1 DEF InsertUser, StaffInv
    <3> QED BY <1>4, <2>2, <3>1, <3>2
  <2> QED BY <1>5, <2>1, <2>2 DEF createCustomer
<1>6. CASE findUserByEmail(r)
  <2>1. UNCHANGED <<users, tokens>>
    BY <1>6 DEF findUserByEmail, accountVars
  <2>2. CASE ARespond(r, 401)
    BY <1>3, <2>1, <2>2 DEF StaffInv
  <2>3. ASSUME NEW id \in DOMAIN users, ContinueWith(r, "compare", id, users[id])
        PROVE  StaffInv'
    BY <1>4, <2>1, <2>3 DEF StaffInv
  <2> QED BY <1>6, <2>2, <2>3 DEF findUserByEmail
<1>7. CASE SignOrRefuse(r)
  <2>1. UNCHANGED users /\ Staffed(row[r].user) /\ \E status : ARespond(r, status)
    BY <1>7 DEF SignOrRefuse, StaffInv
  <2>2. \A t \in tokens' : Staffed(t)
    <3>1. CASE UNCHANGED tokens
      BY <3>1 DEF StaffInv
    <3>2. CASE signToken(row[r])
      <4>1. PICK s : s = row[r]
        OBVIOUS
      <4>2. Staffed([sub |-> s.id, role |-> s.user.role, email |-> s.user.email,
                     expires |-> now + TokenLife])
        BY <2>1, <4>1 DEF Staffed
      <4> QED BY <3>2, <4>1, <4>2 DEF signToken, StaffInv
    <3> QED BY <1>7, <3>1, <3>2 DEF SignOrRefuse
  <2> QED BY <1>3, <2>1, <2>2
<1> QED BY <1>5, <1>6, <1>7 DEF AuthStep

\* What else happens copies tokens that were signed (TReceive), or drops
\* requests.
LEMMA StaffStep ==
  ASSUME AccessInv, StaffInv, [AccessNext]_accessVars PROVE StaffInv'
<1>1. AccountsTypeOK /\ AccessTypeOK
  BY DEF AccessInv, AccInv
<1>2. ASSUME UNCHANGED <<users, tokens, tpc, bearer>>,
             \A q \in AuthRequests : \/ apc'[q] \notin {"sign", "compare"}
                                     \/ apc'[q] = apc[q] /\ row'[q] = row[q]
      PROVE  StaffInv'
  BY <1>2 DEF StaffInv, Staffed
<1>3. ASSUME UNCHANGED <<users, tokens, apc, row>>,
             \A q \in TagRequests : \/ tpc'[q] = "idle"
                                    \/ tpc[q] # "idle" /\ bearer'[q] = bearer[q]
                                    \/ bearer'[q] \in tokens
      PROVE  StaffInv'
  BY <1>3 DEF StaffInv, Staffed
<1>4. CASE AccountsNext
  <2>1. UNCHANGED <<tpc, bearer>>
    BY <1>4 DEF AccountsNext, tagRequestVars
  <2>2. ASSUME NEW r \in AuthRequests, AReceive(r)
        PROVE  StaffInv'
    <3>1. /\ UNCHANGED <<users, tokens>>
          /\ \/ \E status : ARespond(r, status)
             \/ /\ \E place \in {"find", "create"} : apc' = [apc EXCEPT ![r] = place]
                /\ UNCHANGED row
      BY <2>2 DEF AReceive, accountVars
    <3> QED BY <1>1, <1>2, <2>1, <3>1 DEF ARespond, AccountsTypeOK
  <2>3. ASSUME NEW r \in AuthRequests, AuthQueryFails(r)
        PROVE  StaffInv'
    <3>1. UNCHANGED <<users, tokens>> /\ ARespond(r, 500)
      BY <2>3 DEF AuthQueryFails, accountVars
    <3> QED BY <1>1, <1>2, <2>1, <3>1 DEF ARespond, AccountsTypeOK
  <2>4. CASE AuthTick
    BY <1>2, <2>1, <2>4 DEF AuthTick, accountVars, authVars
  <2> QED BY <1>4, <2>1, <2>2, <2>3, <2>4, StaffAuthStep DEF AccountsNext
<1>5. ASSUME NEW r \in TagRequests, TReceive(r) \/ TagStep(r) \/ TagQueryFails(r)
      PROVE  StaffInv'
  <2>1. UNCHANGED <<users, tokens, apc, row>>
    BY <1>5 DEF TReceive, TagStep, getAllTags, getTagById, WriteTag, TagQueryFails,
                allAccounts, accountVars, authVars
  <2>2. ASSUME NEW status, TRespond(r, status)
        PROVE  StaffInv'
    BY <1>1, <1>3, <2>1, <2>2 DEF TRespond, AccessTypeOK
  <2>3. CASE TReceive(r)
    <3>1. \/ \E status : TRespond(r, status)
          \/ \E c \in TagCalls, token \in tokens :
               /\ tpc' = [tpc EXCEPT ![r] = FirstAwait(c.op)]
               /\ bearer' = [bearer EXCEPT ![r] = token]
      BY <2>3 DEF TReceive, Authenticated
    <3>2. ASSUME NEW token \in tokens, NEW place, tpc' = [tpc EXCEPT ![r] = place],
                 bearer' = [bearer EXCEPT ![r] = token]
          PROVE  StaffInv'
      BY <1>1, <1>3, <2>1, <3>2 DEF AccessTypeOK
    <3> QED BY <2>2, <3>1, <3>2
  <2>4. CASE getTagById(r)
    <3>1. CASE /\ tpc[r] = "find" /\ tpc' = [tpc EXCEPT ![r] = tcall[r].op]
               /\ UNCHANGED bearer
      BY <1>1, <1>3, <2>1, <3>1 DEF AccessTypeOK
    <3> QED BY <2>2, <2>4, <3>1 DEF getTagById
  <2>5. CASE getAllTags(r) \/ WriteTag(r) \/ TagQueryFails(r)
    BY <2>2, <2>5 DEF getAllTags, WriteTag, TagQueryFails
  <2> QED BY <1>5, <2>3, <2>4, <2>5 DEF TagStep
<1>6. CASE AccessRestart
  <2>1. /\ UNCHANGED <<users, tokens>> /\ \A q \in AuthRequests : apc'[q] = "idle"
        /\ \A q \in TagRequests : tpc'[q] = "idle"
    BY <1>6 DEF AccessRestart, AuthRestart, accountVars
  <2> QED BY <2>1 DEF StaffInv, Staffed
<1>7. CASE UNCHANGED accessVars
  <2>1. UNCHANGED <<users, tokens, tpc, bearer, apc, row>>
    BY <1>7 DEF accessVars, allAccounts, accountVars, authVars, tagRequestVars
  <2> QED BY <1>2, <2>1
<1> QED BY <1>4, <1>5, <1>6, <1>7 DEF AccessNext

LEMMA StaffInvariance == AccessSpec => []StaffInv
<1>1. AccessInv /\ StaffInv /\ [AccessNext]_accessVars => StaffInv'
  BY StaffStep
<1> QED BY <1>1, StaffInitInv, AccessInvariance, PTL DEF AccessSpec
-----------------------------------------------------------------------------
(* The theorems *)

\* Every variable keeps to its type: in particular no row of TicketTag outlives
\* its tag, and no id is given above its bound (AccessTypeOK).
THEOREM AccessTypeCorrect == AccessSpec => []AccessTypeOK
<1>1. AccessInv => AccessTypeOK
  BY DEF AccessInv
<1> QED BY <1>1, AccessInvariance, PTL

\* A token that is new was signed for the row its request holds (signToken).
LEMMA TokenEarned ==
  ASSUME AccInv, NEW r \in AuthRequests, SignOrRefuse(r), NEW t \in tokens' \ tokens
  PROVE  /\ apc[r] \in {"sign", "compare"} /\ apc'[r] = "idle"
         /\ acall[r].email = t.email
         /\ t.sub \in DOMAIN users =>
              /\ users[t.sub].email = t.email /\ users[t.sub].role = t.role
              /\ users[t.sub].hash = HashOf[acall[r].password]
         /\ acall[r].op = "register" => t.role = "customer"
<1>1. /\ AccountsTypeOK /\ ACarried(r) /\ apc[r] \in {"sign", "compare"}
      /\ signToken(row[r]) /\ (\E status : ARespond(r, status))
      /\ apc[r] = "compare" => verifyPassword(acall[r].password, row[r].user.hash)
  BY DEF AccInv, AllACarried, SignOrRefuse
<1>2. PICK c, s : c = acall[r] /\ s = row[r]
  OBVIOUS
<1>3. apc'[r] = "idle"
  BY <1>1 DEF ARespond, AccountsTypeOK
<1>4. t = [sub |-> s.id, role |-> s.user.role, email |-> s.user.email,
           expires |-> now + TokenLife]
  BY <1>1, <1>2 DEF signToken
<1>5. t.sub = s.id /\ t.role = s.user.role /\ t.email = s.user.email
  BY <1>4
<1>6. /\ s.user.email = c.email
      /\ s.id \in DOMAIN users => users[s.id] = s.user
      /\ s.user.hash = HashOf[c.password]
      /\ c.op = "register" => s.user.role = "customer"
  <2>1. CASE apc[r] = "sign"
    BY <1>1, <1>2, <2>1 DEF ACarried, NewUser
  <2>2. CASE apc[r] = "compare"
    BY <1>1, <1>2, <2>2 DEF ACarried, verifyPassword
  <2> QED BY <1>1, <2>1, <2>2
<1> QED BY <1>1, <1>2, <1>3, <1>5, <1>6

\* Nothing else makes a token (createCustomer, findUserByEmail, AuthQueryFails
\* and what surrounds them).
LEMMA TokensElsewhere ==
  ASSUME \/ \E r \in AuthRequests : \/ AReceive(r) \/ createCustomer(r)
                                    \/ findUserByEmail(r) \/ AuthQueryFails(r)
         \/ AuthTick \/ AuthRestart
  PROVE  UNCHANGED tokens
<1>1. ASSUME NEW r \in AuthRequests, \/ AReceive(r) \/ createCustomer(r)
                                     \/ findUserByEmail(r) \/ AuthQueryFails(r)
      PROVE  UNCHANGED tokens
  BY <1>1 DEF AReceive, createCustomer, findUserByEmail, AuthQueryFails, accountVars
<1> QED BY <1>1 DEF AuthTick, AuthRestart, accountVars

LEMMA TokensSigned ==
  ASSUME [AccessNext]_accessVars, tokens' \ tokens # {}
  PROVE  \E r \in AuthRequests : SignOrRefuse(r)
<1>1. CASE AccountsNext
  BY <1>1, TokensElsewhere DEF AccountsNext, AuthStep
<1>2. ASSUME NEW r \in TagRequests, TReceive(r) \/ TagStep(r) \/ TagQueryFails(r)
      PROVE  UNCHANGED tokens
  BY <1>2 DEF TReceive, TagStep, getAllTags, getTagById, WriteTag, TagQueryFails,
              allAccounts, accountVars
<1>3. CASE AccessRestart
  BY <1>3, TokensElsewhere DEF AccessRestart
<1>4. CASE UNCHANGED accessVars
  BY <1>4 DEF accessVars, allAccounts, accountVars
<1> QED BY <1>1, <1>2, <1>3, <1>4 DEF AccessNext

\* A token only goes out to who knew the password of its account, or has just
\* made it as a customer, and claims what the account says (register, login,
\* signToken).
THEOREM TokensEarned == AccessSpec => TokensAreEarned
<1>1. AccessInv /\ [AccessNext]_accessVars
        => [\A t \in tokens' \ tokens : \E r \in AuthRequests :
              /\ apc[r] \in {"sign", "compare"} /\ apc'[r] = "idle"
              /\ acall[r].email = t.email
              /\ t.sub \in DOMAIN users =>
                   /\ users[t.sub].email = t.email /\ users[t.sub].role = t.role
                   /\ users[t.sub].hash = HashOf[acall[r].password]
              /\ acall[r].op = "register" => t.role = "customer"]_allAccounts
  BY TokensSigned, TokenEarned DEF AccessInv
<1> QED BY <1>1, AccessInvariance, PTL DEF AccessSpec, TokensAreEarned

\* A step that changes the tags is a statement of a request to /tags, which ends
\* with it.
LEMMA TagsWritten ==
  ASSUME AccessInv, [AccessNext]_accessVars, tags' # tags
  PROVE  \E r \in TagRequests : TagCommits(r) /\ \E status : TRespond(r, status)
<1>1. CASE AccountsNext
  BY <1>1 DEF AccountsNext, tagVars
<1>2. ASSUME NEW r \in TagRequests, TReceive(r) \/ TagStep(r) \/ TagQueryFails(r)
      PROVE  TagCommits(r) /\ \E status : TRespond(r, status)
  <2>1. CASE TReceive(r) \/ getAllTags(r) \/ getTagById(r)
    BY <2>1 DEF TReceive, getAllTags, getTagById, tagVars
  <2>2. CASE WriteTag(r)
    BY <2>2 DEF WriteTag, tagVars
  <2>3. CASE TagQueryFails(r)
    BY <2>3 DEF TagQueryFails, tagVars
  <2> QED BY <1>2, <2>1, <2>2, <2>3 DEF TagStep
<1>3. CASE AccessRestart
  BY <1>3 DEF AccessRestart, tagVars
<1>4. CASE UNCHANGED accessVars
  BY <1>4 DEF accessVars, tagVars
<1> QED BY <1>1, <1>2, <1>3, <1>4 DEF AccessNext

\* No chain of registrations, logins and tokens lets anybody change a tag who
\* has not been staff from the start (authenticate and authorize on /tags).
THEOREM TagsByStaff == AccessSpec => TagsChangedByStaff
<1>1. AccessInv /\ StaffInv /\ [AccessNext]_accessVars
        => [tags' # tags => \E r \in TagRequests :
              tpc[r] # "idle" /\ tpc'[r] = "idle" /\ bearer[r].email \in StaffEmails]_accessVars
  <2> SUFFICES ASSUME AccessInv, StaffInv, [AccessNext]_accessVars, tags' # tags
               PROVE  \E r \in TagRequests :
                        tpc[r] # "idle" /\ tpc'[r] = "idle" /\ bearer[r].email \in StaffEmails
    OBVIOUS
  <2>1. PICK r \in TagRequests : TagCommits(r) /\ \E status : TRespond(r, status)
    BY TagsWritten
  <2>2. tpc[r] \in {"create", "patch", "delete"}
    BY <2>1, TagCommitsEffect
  <2>3. tpc'[r] = "idle"
    BY <2>1 DEF TRespond, AccessInv, AccessTypeOK
  <2>4. bearer[r].role \in {"agent", "admin"}
    BY <2>2 DEF AccessInv, AllTCarried, TCarried, authorize
  <2> QED BY <2>2, <2>3, <2>4 DEF StaffInv, Staffed
<1> QED BY <1>1, AccessInvariance, StaffInvariance, PTL DEF AccessSpec, TagsChangedByStaff

\* A request to /auth is only answered 500 when a call failed or its e-mail is
\* longer than its column (createCustomer, AuthQueryFails).
LEMMA AuthErrors ==
  ASSUME AccInv, \/ \E r \in AuthRequests : AReceive(r) \/ AuthStep(r) \/ AuthQueryFails(r)
                 \/ AuthTick \/ AuthRestart,
         NEW q \in AuthRequests, areply'[q] = 500
  PROVE  areply[q] = 500 \/ faults' > faults \/ ~acall[q].fits
<1>1. AccountsTypeOK /\ Null # 500 /\ faults \in Int
  BY AccountsAssumption DEF AccInv, AccountsTypeOK
<1>2. ASSUME NEW r \in AuthRequests, NEW status, ARespond(r, status), status # 500
      PROVE  areply[q] = 500
  BY <1>1, <1>2 DEF ARespond, AccountsTypeOK
<1>3. ASSUME UNCHANGED areply
      PROVE  areply[q] = 500
  BY <1>3
<1>4. ASSUME NEW r \in AuthRequests, AReceive(r)
      PROVE  areply[q] = 500
  <2>1. (\E status \in {429, 400} : ARespond(r, status)) \/ areply' = [areply EXCEPT ![r] = Null]
    BY <1>4 DEF AReceive
  <2>2. CASE areply' = [areply EXCEPT ![r] = Null]
    BY <1>1, <2>2 DEF AccountsTypeOK
  <2> QED BY <1>2, <2>1, <2>2
<1>5. ASSUME NEW r \in AuthRequests, createCustomer(r)
      PROVE  areply[q] = 500 \/ ~acall[q].fits
  <2>1. \/ ~acall[r].fits /\ ARespond(r, StatusOf("P2000"))
        \/ ARespond(r, StatusOf("P2002"))
        \/ UNCHANGED areply
    BY <1>5 DEF createCustomer, ContinueWith
  <2>2. CASE ~acall[r].fits /\ ARespond(r, StatusOf("P2000"))
    <3>1. CASE q = r
      BY <2>2, <3>1
    <3>2. CASE q # r
      BY <1>1, <2>2, <3>2 DEF ARespond, AccountsTypeOK
    <3> QED BY <3>1, <3>2
  <2>3. CASE ARespond(r, StatusOf("P2002"))
    <3>1. StatusOf("P2002") # 500
      BY DEF StatusOf
    <3> QED BY <1>2, <2>3, <3>1
  <2> QED BY <1>3, <2>1, <2>2, <2>3
<1>6. ASSUME NEW r \in AuthRequests, findUserByEmail(r) \/ SignOrRefuse(r)
      PROVE  areply[q] = 500
  <2>1. (\E status \in {200, 201, 401} : ARespond(r, status)) \/ UNCHANGED areply
    BY <1>6 DEF findUserByEmail, SignOrRefuse, ContinueWith
  <2> QED BY <1>2, <1>3, <2>1
<1>7. ASSUME NEW r \in AuthRequests, AuthQueryFails(r)
      PROVE  faults' > faults
  BY <1>1, <1>7 DEF AuthQueryFails, DatabaseFails
<1>8. CASE AuthTick
  BY <1>3, <1>8 DEF AuthTick, authVars
<1>9. CASE AuthRestart
  BY <1>1, <1>9 DEF AuthRestart, Nobody
<1> QED BY <1>4, <1>5, <1>6, <1>7, <1>8, <1>9 DEF AuthStep

\* A request to /tags is only answered 500 when a call failed or its id is beyond
\* any column: what the tables refuse is a client error (RefusalStatus).
LEMMA TagErrors ==
  ASSUME AccessInv, NEW r \in TagRequests, TReceive(r) \/ TagStep(r) \/ TagQueryFails(r),
         NEW q \in TagRequests, treply'[q] = 500
  PROVE  treply[q] = 500 \/ faults' > faults \/ tcall[q].id = TooBig
<1>1. AccessTypeOK /\ Null # 500 /\ faults \in Int
  BY AccountsAssumption DEF AccessInv, AccessTypeOK, AccountsTypeOK
<1>2. ASSUME NEW status, TRespond(r, status), status # 500
      PROVE  treply[q] = 500
  BY <1>1, <1>2 DEF TRespond, AccessTypeOK
<1>3. CASE TReceive(r)
  <2>1. (\E status \in {429, 401, 403, 400} : TRespond(r, status))
        \/ treply' = [treply EXCEPT ![r] = Null]
    BY <1>3 DEF TReceive
  <2>2. CASE treply' = [treply EXCEPT ![r] = Null]
    BY <1>1, <2>2 DEF AccessTypeOK
  <2> QED BY <1>2, <2>1, <2>2
<1>4. CASE getAllTags(r) \/ getTagById(r)
  <2>1. \/ \E status \in {200, 404} : TRespond(r, status)
        \/ UNCHANGED treply
        \/ tcall[r].id = TooBig /\ TRespond(r, StatusOf("OutOfRange"))
    BY <1>4 DEF getAllTags, getTagById
  <2>2. CASE tcall[r].id = TooBig /\ TRespond(r, StatusOf("OutOfRange"))
    BY <1>1, <2>2 DEF TRespond, AccessTypeOK
  <2> QED BY <1>2, <2>1, <2>2
<1>5. CASE WriteTag(r)
  <2>1. \/ TagRefused(r) # "none" /\ TRespond(r, StatusOf(TagRefused(r)))
        \/ TRespond(r, Success(tcall[r].op))
    BY <1>5 DEF WriteTag
  <2>2. Success(tcall[r].op) # 500
    BY DEF Success
  <2> QED BY <1>2, <2>1, <2>2, RefusalStatus
<1>6. CASE TagQueryFails(r)
  BY <1>1, <1>6 DEF TagQueryFails, DatabaseFails
<1> QED BY <1>3, <1>4, <1>5, <1>6 DEF TagStep

\* A 500 tells of a failing call, or of an e-mail or an id that fits no column
\* (PRISMA_ERROR_STATUS): never of a race that was lost.
THEOREM AccessErrors == AccessSpec => AccessErrorsExplained
<1>1. AccessInv /\ [AccessNext]_accessVars
        => [/\ \A r \in AuthRequests :
                 areply'[r] = 500 => areply[r] = 500 \/ faults' > faults \/ ~acall[r].fits
            /\ \A r \in TagRequests :
                 treply'[r] = 500 => \/ treply[r] = 500 \/ faults' > faults
                                     \/ tcall[r].id = TooBig]_accessVars
  <2> SUFFICES ASSUME AccessInv, AccessNext
               PROVE  /\ \A r \in AuthRequests : areply'[r] = 500 =>
                           areply[r] = 500 \/ faults' > faults \/ ~acall[r].fits
                      /\ \A r \in TagRequests : treply'[r] = 500 =>
                           \/ treply[r] = 500 \/ faults' > faults
                           \/ tcall[r].id = TooBig
    OBVIOUS
  <2>1. CASE AccountsNext
    <3>1. AccInv /\ UNCHANGED treply
      BY <2>1 DEF AccessInv, AccountsNext, tagRequestVars
    <3> QED BY <2>1, <3>1, AuthErrors DEF AccountsNext
  <2>2. ASSUME NEW r \in TagRequests, TReceive(r) \/ TagStep(r) \/ TagQueryFails(r)
        PROVE  /\ UNCHANGED areply
               /\ \A q \in TagRequests : treply'[q] = 500 =>
                    \/ treply[q] = 500 \/ faults' > faults
                    \/ tcall[q].id = TooBig
    <3>1. UNCHANGED areply
      BY <2>2 DEF TReceive, TagStep, getAllTags, getTagById, WriteTag, TagQueryFails,
                  allAccounts, authVars
    <3> QED BY <2>2, <3>1, TagErrors
  <2>3. CASE AccessRestart
    <3>1. AccInv /\ Null # 500 /\ AuthRestart /\ treply' = [q \in TagRequests |-> Null]
      BY <2>3, AccountsAssumption DEF AccessInv, AccessRestart, NoTagCalls
    <3> QED BY <3>1, AuthErrors
  <2> QED BY <2>1, <2>2, <2>3 DEF AccessNext
<1> QED BY <1>1, AccessInvariance, PTL DEF AccessSpec, AccessErrorsExplained
-----------------------------------------------------------------------------
(* What the counter of a client says of the requests it let through *)

\* When the window of a client opened, whether it still is open, and how much of
\* the limit was spent in it: what was refused is counted, but spends nothing.
After(c, t) == {a \in admitted[c] : a.at > t}
Opened(c) == authHits[c].resetAt - Window
IsOpen(c) == authHits[c].resetAt > now
Spent(c) == IF authHits[c].hits < AuthLimit THEN authHits[c].hits ELSE AuthLimit

\* Limits of the processes up to this one: a restart forgets what was spent.
Budget == (restarts + 1) * AuthLimit

\* Two requests let through at the same time have different numbers.
Numbered(c) == \A a \in admitted[c] :
  /\ a.at <= now
  /\ a \in Recent(c) /\ a.at = now => a.nth <= Cardinality(Recent(c))

\* An open window was opened by a request, at most its length ago.
OpenedByHit(c) ==
  /\ authHits[c].resetAt <= now + Window
  /\ IsOpen(c) => authHits[c].hits > 0

\* In a window, and after it, the limit holds; the request that opened it came
\* at its very beginning.
FewSince(c) ==
  authHits[c].hits > 0 => Cardinality(After(c, Opened(c))) <= Spent(c) - 1

\* The last span of a window's length reaches into the window before, and into
\* those of the processes before.
FewRecent(c) ==
  /\ IsOpen(c) => Cardinality(Recent(c)) <= Budget - 1 + Spent(c)
  /\ authHits[c].hits = 0 => Cardinality(Recent(c)) <= Budget - 1

\* Whatever an open window has counted was let through, up to the limit.
AllSpent(c) == IsOpen(c) => Cardinality(After(c, Opened(c) - 1)) >= Spent(c)

LimiterOK(c) == Numbered(c) /\ OpenedByHit(c) /\ FewSince(c) /\ FewRecent(c) /\ AllSpent(c)
LimiterInv == \A c \in Clients : LimiterOK(c)

\* The numbers a client's counter is made of (Counter).
LEMMA CounterNumbers ==
  ASSUME AccInv, NEW c \in Clients
  PROVE  /\ now \in Nat /\ Window \in Nat /\ AuthLimit \in Nat /\ AuthLimit > 0
         /\ authHits[c].hits \in 0..(AuthLimit + 1) /\ authHits[c].resetAt \in Nat
         /\ Opened(c) \in Int /\ Spent(c) \in 0..AuthLimit
         /\ admitted[c] \subseteq Admission /\ (\A a \in admitted[c] : a.at \in Nat)
<1>1. /\ LimiterTypeOK /\ admitted \in [Clients -> SUBSET Admission]
      /\ Window \in Nat /\ MaxClock \in Nat /\ AuthLimit \in Nat /\ AuthLimit > 0
  BY LimiterAssumption DEF AccInv, AccountsTypeOK
<1>2. now \in Nat
  BY <1>1 DEF LimiterTypeOK
<1>3. authHits[c] \in Counter(AuthLimit)
  BY <1>1 DEF LimiterTypeOK
<1>4. authHits[c].hits \in 0..(AuthLimit + 1) /\ authHits[c].resetAt \in Nat
  BY <1>1, <1>3 DEF Counter
<1>5. admitted[c] \subseteq Admission
  BY <1>1
<1>6. \A a \in admitted[c] : a.at \in Nat
  BY <1>1, <1>5 DEF Admission
<1> QED BY <1>1, <1>2, <1>4, <1>5, <1>6 DEF Opened, Spent

\* The restarts so far and what they allow for.
LEMMA BudgetNumbers ==
  ASSUME AccInv
  PROVE  /\ restarts \in Nat /\ Budget \in Nat /\ Budget >= AuthLimit
         /\ (restarts + 2) * AuthLimit = Budget + AuthLimit
<1>1. restarts \in Nat /\ AuthLimit \in Nat
  BY AccountsAssumption, LimiterAssumption DEF AccInv, AccountsTypeOK
<1>2. PICK k : k = restarts * AuthLimit
  OBVIOUS
<1>3. k \in Nat
  BY <1>1, <1>2
<1>4. Budget = k + AuthLimit
  BY <1>1, <1>2 DEF Budget
<1>5. (restarts + 2) * AuthLimit = k + AuthLimit + AuthLimit
  BY <1>1, <1>2
<1> QED BY <1>1, <1>3, <1>4, <1>5

\* A part of what a client is remembered for can be counted.
LEMMA AfterCounts ==
  ASSUME AdmissionsFinite, NEW c \in Clients, NEW t
  PROVE  IsFiniteSet(After(c, t)) /\ Cardinality(After(c, t)) \in Nat
<1>1. IsFiniteSet(admitted[c]) /\ After(c, t) \in SUBSET admitted[c]
  BY DEF AdmissionsFinite, After
<1> QED BY <1>1, FS_Subset, FS_CardinalityType

LEMMA FewerCount ==
  ASSUME NEW S, IsFiniteSet(S), NEW T, T \subseteq S
  PROVE  /\ IsFiniteSet(T) /\ Cardinality(T) \in Nat /\ Cardinality(S) \in Nat
         /\ Cardinality(T) <= Cardinality(S)
<1>1. T \in SUBSET S
  OBVIOUS
<1> QED BY <1>1, FS_Subset, FS_CardinalityType

\* The next request let through is counted as one more (Admit).
LEMMA OneMoreCounts ==
  ASSUME NEW S, IsFiniteSet(S), NEW x, NEW T, T \subseteq S \cup {x}
  PROVE  /\ Cardinality(T) \in Nat /\ Cardinality(S) \in Nat
         /\ Cardinality(T) <= Cardinality(S) + 1
<1>1. /\ IsFiniteSet(S \cup {x}) /\ Cardinality(S) \in Nat
      /\ Cardinality(S \cup {x}) = IF x \in S THEN Cardinality(S) ELSE Cardinality(S) + 1
  BY FS_AddElement, FS_CardinalityType
<1>2. /\ Cardinality(T) \in Nat /\ Cardinality(S \cup {x}) \in Nat
      /\ Cardinality(T) <= Cardinality(S \cup {x})
  BY <1>1, FewerCount
<1> QED BY <1>1, <1>2

\* With the limit's window closed, the last span of its length holds less than
\* the limit if a window was open, and no more than the restarts explain if none
\* was.
LEMMA FewWhenClosed ==
  ASSUME AccInv, NEW c \in Clients, LimiterOK(c), ~IsOpen(c)
  PROVE  Cardinality(Recent(c)) <= Budget - 1
<1>1. /\ IsFiniteSet(After(c, Opened(c))) /\ Cardinality(Recent(c)) \in Nat
      /\ Cardinality(After(c, Opened(c))) \in Nat
  BY AfterCounts, RecentCounts DEF AccInv
<1>2. CASE authHits[c].hits = 0
  BY <1>2 DEF LimiterOK, FewRecent
<1>3. CASE authHits[c].hits > 0
  <2>1. Recent(c) \subseteq After(c, Opened(c))
    BY CounterNumbers DEF Recent, After, Opened, IsOpen
  <2>2. Cardinality(Recent(c)) <= Cardinality(After(c, Opened(c)))
    BY <1>1, <2>1, FewerCount
  <2>3. Cardinality(After(c, Opened(c))) <= Spent(c) - 1
    BY <1>3 DEF LimiterOK, FewSince
  <2> QED BY <1>1, <2>2, <2>3, CounterNumbers, BudgetNumbers
<1> QED BY <1>2, <1>3, CounterNumbers

\* One span never holds more than the restarts and one more limit explain.
LEMMA FewAtAnyTime ==
  ASSUME AccInv, NEW c \in Clients, LimiterOK(c)
  PROVE  Cardinality(Recent(c)) <= Budget + AuthLimit - 1
<1>1. Cardinality(Recent(c)) \in Nat
  BY RecentCounts DEF AccInv
<1>2. CASE IsOpen(c)
  <2>1. Cardinality(Recent(c)) <= Budget - 1 + Spent(c)
    BY <1>2 DEF LimiterOK, FewRecent
  <2> QED BY <1>1, <2>1, CounterNumbers, BudgetNumbers
<1>3. CASE ~IsOpen(c)
  BY <1>1, <1>3, FewWhenClosed, CounterNumbers, BudgetNumbers
<1> QED BY <1>2, <1>3

\* The counter and the memory of a client whose time, restarts and requests let
\* through have not changed.
LEMMA LimiterFrame ==
  ASSUME NEW c \in Clients, LimiterOK(c), UNCHANGED <<now, restarts>>,
         authHits'[c] = authHits[c], admitted'[c] = admitted[c]
  PROVE  LimiterOK(c)'
BY DEF LimiterOK, Numbered, OpenedByHit, FewSince, FewRecent, AllSpent, Recent, After, Opened,
       IsOpen, Spent, Budget

\* A refused request is counted, and spends nothing (Counted).
LEMMA CountRefusedStep ==
  ASSUME AccInv, NEW c \in Clients, LimiterOK(c), ~PassesAuth(c), CountAuth(c),
         UNCHANGED <<now, restarts, admitted>>
  PROVE  LimiterOK(c)'
<1>1. PICK h : h = authHits[c]
  OBVIOUS
<1>2. /\ authHits'[c] = Counted(h, AuthLimit) /\ Counted(h, AuthLimit).hits > AuthLimit
      /\ h \in Counter(AuthLimit) /\ now \in Nat /\ AuthLimit \in Nat /\ AuthLimit > 0
  <2>1. /\ authHits \in [Clients -> Counter(AuthLimit)]
        /\ AuthLimit \in Nat /\ AuthLimit > 0 /\ now \in Nat
    BY CounterNumbers DEF AccInv, AccountsTypeOK, LimiterTypeOK
  <2>2. authHits'[c] = Counted(h, AuthLimit)
    BY <1>1, <2>1 DEF CountAuth
  <2>3. h \in Counter(AuthLimit)
    BY <1>1, <2>1
  <2>4. Counted(h, AuthLimit) \in Counter(AuthLimit)
    BY <2>1, <2>3, CountedType DEF AccInv, AccountsTypeOK, LimiterTypeOK
  <2>5. Counted(h, AuthLimit).hits \in Int
    BY <2>1, <2>4 DEF Counter
  <2> QED BY <1>1, <2>1, <2>2, <2>3, <2>5 DEF PassesAuth, LetsThrough
<1>3. h.hits \in 0..(AuthLimit + 1) /\ h.resetAt \in Int
  BY <1>1, CounterNumbers
<1>4. ~(h.resetAt <= now)
  BY <1>2 DEF Counted
<1>5. /\ authHits'[c].resetAt = h.resetAt
      /\ authHits'[c].hits = IF h.hits > AuthLimit THEN h.hits ELSE h.hits + 1
  <2>1. authHits'[c] = [h EXCEPT !.hits = IF @ > AuthLimit THEN @ ELSE @ + 1]
    BY <1>2, <1>4 DEF Counted
  <2> QED BY <1>2, <2>1 DEF Counter
<1>6. authHits'[c].hits > AuthLimit
  BY <1>2
<1>7. h.hits >= AuthLimit /\ authHits'[c].hits > 0 /\ h.hits > 0
  BY <1>2, <1>3, <1>5, <1>6
<1>8. UNCHANGED <<Spent(c), Opened(c), IsOpen(c), Recent(c), Budget>>
  <2>1. Spent(c) = AuthLimit
    BY <1>1, <1>2, <1>3, <1>7 DEF Spent
  <2>2. authHits'[c].hits \in Int /\ ~(authHits'[c].hits < AuthLimit)
    BY <1>2, <1>3, <1>5, <1>6
  <2>3. Spent(c)' = AuthLimit
    BY <2>2 DEF Spent
  <2> QED BY <1>1, <1>5, <2>1, <2>3 DEF Opened, IsOpen, Recent, Budget
<1>9. UNCHANGED <<After(c, Opened(c)), After(c, Opened(c) - 1)>>
  BY <1>8 DEF After
<1> QED BY <1>1, <1>5, <1>7, <1>8, <1>9
   DEF LimiterOK, Numbered, OpenedByHit, FewSince, FewRecent, AllSpent

\* Time passes, and may close a window: FewSince keeps what it let through.
LEMMA TimeStep ==
  ASSUME AccInv, NEW c \in Clients, LimiterOK(c), now' = now + 1,
         UNCHANGED <<authHits, restarts, admitted>>
  PROVE  LimiterOK(c)'
<1>1. /\ now \in Nat /\ Window \in Nat /\ authHits[c].resetAt \in Nat
      /\ \A a \in admitted[c] : a.at \in Nat
  BY CounterNumbers
<1>2. UNCHANGED <<Spent(c), Opened(c), Budget>>
  BY DEF Spent, Opened, Budget
<1>3. UNCHANGED <<After(c, Opened(c)), After(c, Opened(c) - 1)>>
  BY <1>2 DEF After
<1>4. IsOpen(c)' => IsOpen(c)
  BY <1>1 DEF IsOpen
<1>5. /\ Cardinality(Recent(c)') \in Nat /\ Cardinality(Recent(c)) \in Nat
      /\ Cardinality(Recent(c)') <= Cardinality(Recent(c))
  <2>1. Recent(c)' \subseteq Recent(c)
    BY <1>1 DEF Recent
  <2>2. IsFiniteSet(Recent(c))
    BY RecentCounts DEF AccInv
  <2> QED BY <2>1, <2>2, FewerCount
<1>6. Numbered(c)'
  BY <1>1 DEF LimiterOK, Numbered
<1>7. OpenedByHit(c)' /\ FewSince(c)' /\ AllSpent(c)'
  BY <1>1, <1>2, <1>3, <1>4 DEF LimiterOK, OpenedByHit, FewSince, AllSpent
<1>8. FewRecent(c)'
  <2>1. Budget \in Int /\ Spent(c) \in Int
    BY CounterNumbers, BudgetNumbers
  <2> QED BY <1>2, <1>4, <1>5, <2>1 DEF LimiterOK, FewRecent
<1> QED BY <1>6, <1>7, <1>8 DEF LimiterOK

\* A restart forgets what was spent, and the requests it let through stay let
\* through (ForgetHits).
LEMMA ForgetStep ==
  ASSUME AccInv, NEW c \in Clients, LimiterOK(c), AuthRestart
  PROVE  LimiterOK(c)'
<1>1. /\ authHits'[c].hits = 0 /\ authHits'[c].resetAt = 0
      /\ restarts' = restarts + 1 /\ UNCHANGED <<now, admitted>>
  BY DEF AuthRestart, ForgetHits, NoHits
<1>2. now \in Nat /\ Window \in Nat /\ AuthLimit \in Nat
  BY CounterNumbers
<1>3. ~IsOpen(c)'
  BY <1>1, <1>2 DEF IsOpen
<1>4. UNCHANGED Recent(c)
  BY <1>1 DEF Recent
<1>5. Cardinality(Recent(c)) <= Budget + AuthLimit - 1
  BY FewAtAnyTime
<1>6. Budget' = Budget + AuthLimit
  <2>1. Budget' = (restarts + 2) * AuthLimit
    BY <1>1, BudgetNumbers DEF Budget
  <2> QED BY <2>1, BudgetNumbers
<1>7. Numbered(c)'
  BY <1>1, <1>4 DEF LimiterOK, Numbered
<1>8. OpenedByHit(c)' /\ FewSince(c)' /\ AllSpent(c)'
  BY <1>1, <1>2, <1>3 DEF OpenedByHit, FewSince, AllSpent
<1>9. FewRecent(c)'
  <2>1. Budget \in Int /\ Cardinality(Recent(c)) \in Int
    BY BudgetNumbers, RecentCounts DEF AccInv
  <2>2. Cardinality(Recent(c)) <= Budget' - 1
    BY <1>2, <1>5, <1>6, <2>1
  <2> QED BY <1>3, <1>4, <2>2 DEF FewRecent
<1> QED BY <1>7, <1>8, <1>9 DEF LimiterOK

\* What a request let through adds to the memory of its client: one that is not
\* in it yet (Admit).
LEMMA AdmitEffect ==
  ASSUME AccInv, NEW c \in Clients, LimiterOK(c), Admit(c), UNCHANGED now,
         NEW a, a = [at |-> now, nth |-> Cardinality(Recent(c)) + 1]
  PROVE  /\ admitted'[c] = Recent(c) \cup {a} /\ a.at = now
         /\ Recent(c)' \subseteq Recent(c) \cup {a}
         /\ Window > 0 => /\ Recent(c)' = Recent(c) \cup {a} /\ a \notin Recent(c)
                          /\ Cardinality(Recent(c)') = Cardinality(Recent(c)) + 1
         /\ Numbered(c)'
<1>1. /\ now \in Nat /\ Window \in Nat /\ (\A b \in admitted[c] : b.at \in Nat)
      /\ IsFiniteSet(Recent(c)) /\ Cardinality(Recent(c)) \in Nat
      /\ \A b \in Recent(c) : b \in admitted[c] /\ b.at > now - Window
  BY CounterNumbers, RecentCounts DEF AccInv, Recent
<1>2. /\ a.at = now /\ a.nth = Cardinality(Recent(c)) + 1
  OBVIOUS
<1>3. admitted'[c] = Recent(c) \cup {a}
  BY DEF Admit, AccInv, AccountsTypeOK
<1>4. Recent(c)' = {b \in Recent(c) \cup {a} : b.at > now - Window}
  BY <1>3 DEF Recent
<1>5. a \notin Recent(c)
  <2> SUFFICES ASSUME a \in Recent(c) PROVE FALSE
    OBVIOUS
  <2>1. a.nth <= Cardinality(Recent(c))
    BY <1>1, <1>2 DEF LimiterOK, Numbered
  <2> QED BY <1>1, <1>2, <2>1
<1>6. Window > 0 => Recent(c)' = Recent(c) \cup {a}
  BY <1>1, <1>2, <1>4
<1>7. Window > 0 => Cardinality(Recent(c)') = Cardinality(Recent(c)) + 1
  BY <1>1, <1>5, <1>6, FS_AddElement
<1>8. Numbered(c)'
  <2> SUFFICES ASSUME NEW b \in Recent(c) \cup {a}
               PROVE  /\ b.at <= now
                      /\ b \in Recent(c)' /\ b.at = now => b.nth <= Cardinality(Recent(c)')
    BY <1>3 DEF Numbered
  <2>1. b.at <= now
    BY <1>1, <1>2 DEF LimiterOK, Numbered
  <2>2. ASSUME b \in Recent(c)', b.at = now
        PROVE  b.nth <= Cardinality(Recent(c)')
    <3>1. Cardinality(Recent(c)') = Cardinality(Recent(c)) + 1
      BY <1>1, <1>4, <1>7, <2>2
    <3>2. CASE b = a
      BY <1>1, <1>2, <3>1, <3>2
    <3>3. CASE b \in Recent(c)
      <4>1. b.nth <= Cardinality(Recent(c))
        BY <1>1, <2>2, <3>3 DEF LimiterOK, Numbered
      <4>2. b.nth \in Int
        BY <1>1, <3>3, CounterNumbers DEF Admission
      <4> QED BY <1>1, <3>1, <4>1, <4>2
    <3> QED BY <3>2, <3>3
  <2> QED BY <2>1, <2>2
<1> QED BY <1>2, <1>3, <1>4, <1>5, <1>6, <1>7, <1>8

\* The first request of a window opens it, and is all that is spent (Counted).
LEMMA OpeningStep ==
  ASSUME AccInv, NEW c \in Clients, LimiterOK(c), ~IsOpen(c), CountAuth(c), Admit(c),
         UNCHANGED <<now, restarts>>
  PROVE  LimiterOK(c)'
<1>1. PICK a : a = [at |-> now, nth |-> Cardinality(Recent(c)) + 1]
  OBVIOUS
<1>2. /\ now \in Nat /\ Window \in Nat /\ AuthLimit \in Nat /\ AuthLimit > 0
      /\ authHits[c].resetAt \in Nat
  BY CounterNumbers
<1>3. authHits'[c].hits = 1 /\ authHits'[c].resetAt = now + Window
  <2>1. authHits'[c] = Counted(authHits[c], AuthLimit)
    BY DEF CountAuth, AccInv, AccountsTypeOK, LimiterTypeOK
  <2> QED BY <1>2, <2>1 DEF Counted, IsOpen
<1>4. /\ admitted'[c] = Recent(c) \cup {a} /\ a.at = now
      /\ Recent(c)' \subseteq Recent(c) \cup {a} /\ Numbered(c)'
  BY <1>1, AdmitEffect
<1>5. /\ IsFiniteSet(Recent(c)) /\ Cardinality(Recent(c)) \in Nat
      /\ IsFiniteSet(admitted'[c])
  <2>1. IsFiniteSet(Recent(c)) /\ Cardinality(Recent(c)) \in Nat
    BY RecentCounts DEF AccInv
  <2> QED BY <1>4, <2>1, FS_AddElement
<1>6. Spent(c)' = 1 /\ Opened(c)' = now
  BY <1>2, <1>3 DEF Spent, Opened
<1>7. OpenedByHit(c)'
  BY <1>2, <1>3 DEF OpenedByHit
<1>8. FewSince(c)'
  <2>1. \A b \in admitted'[c] : b.at <= now
    BY <1>4 DEF Numbered
  <2>2. \A b \in admitted'[c] : b.at \in Int
    BY <1>2, <1>4, CounterNumbers DEF Recent
  <2>3. After(c, Opened(c))' = {}
    BY <1>2, <1>6, <2>1, <2>2 DEF After
  <2> QED BY <1>6, <2>3, FS_EmptySet DEF FewSince
<1>9. FewRecent(c)'
  <2>1. Cardinality(Recent(c)) <= Budget - 1 /\ Budget \in Int
    BY FewWhenClosed, BudgetNumbers
  <2>2. /\ Cardinality(Recent(c)') \in Nat
        /\ Cardinality(Recent(c)') <= Cardinality(Recent(c)) + 1
    BY <1>4, <1>5, OneMoreCounts
  <2>3. UNCHANGED Budget
    BY DEF Budget
  <2>4. Cardinality(Recent(c)') <= Budget' - 1 + Spent(c)'
    BY <1>5, <1>6, <2>1, <2>2, <2>3
  <2> QED BY <1>3, <2>4 DEF FewRecent
<1>10. AllSpent(c)'
  <2>1. {a} \subseteq After(c, Opened(c) - 1)'
    BY <1>2, <1>4, <1>6 DEF After
  <2>2. After(c, Opened(c) - 1)' \subseteq admitted'[c]
    BY DEF After
  <2>3. IsFiniteSet(After(c, Opened(c) - 1)')
    BY <1>5, <2>2, FewerCount
  <2>4. /\ Cardinality(After(c, Opened(c) - 1)') \in Nat /\ Cardinality({a}) \in Nat
        /\ Cardinality({a}) <= Cardinality(After(c, Opened(c) - 1)')
    BY <2>1, <2>3, FewerCount
  <2>5. Cardinality({a}) = 1
    BY FS_Singleton
  <2> QED BY <1>6, <2>4, <2>5 DEF AllSpent
<1> QED BY <1>4, <1>7, <1>8, <1>9, <1>10 DEF LimiterOK

\* A further request let through spends one more of the limit (Counted).
LEMMA SpendingStep ==
  ASSUME AccInv, NEW c \in Clients, LimiterOK(c), IsOpen(c), PassesAuth(c), CountAuth(c),
         Admit(c), UNCHANGED <<now, restarts>>
  PROVE  LimiterOK(c)'
<1>1. PICK a : a = [at |-> now, nth |-> Cardinality(Recent(c)) + 1]
  OBVIOUS
<1>2. PICK h : h = authHits[c]
  OBVIOUS
<1>3. /\ now \in Nat /\ Window \in Nat /\ AuthLimit \in Nat /\ AuthLimit > 0
      /\ h.resetAt \in Nat /\ h.hits \in 0..(AuthLimit + 1) /\ h \in Counter(AuthLimit)
      /\ h.resetAt > now /\ h.resetAt <= now + Window /\ h.hits > 0
      /\ \A b \in admitted[c] : b.at \in Nat
  BY <1>2, CounterNumbers
  DEF AccInv, AccountsTypeOK, LimiterTypeOK, LimiterOK, OpenedByHit, IsOpen
<1>4. /\ authHits'[c].resetAt = h.resetAt /\ authHits'[c].hits = h.hits + 1
      /\ h.hits + 1 <= AuthLimit
  <2>1. authHits'[c] = Counted(h, AuthLimit) /\ Counted(h, AuthLimit).hits <= AuthLimit
    BY <1>2 DEF CountAuth, AccInv, AccountsTypeOK, LimiterTypeOK, PassesAuth, LetsThrough
  <2>2. Counted(h, AuthLimit) = [h EXCEPT !.hits = IF @ > AuthLimit THEN @ ELSE @ + 1]
    BY <1>3 DEF Counted
  <2>3. /\ Counted(h, AuthLimit).resetAt = h.resetAt
        /\ Counted(h, AuthLimit).hits = IF h.hits > AuthLimit THEN h.hits ELSE h.hits + 1
    BY <1>3, <2>2 DEF Counter
  <2> QED BY <1>3, <2>1, <2>3
<1>5. /\ Opened(c)' = Opened(c) /\ Spent(c) = h.hits /\ Spent(c)' = h.hits + 1
      /\ Opened(c) \in Int /\ Opened(c) <= now /\ Opened(c) - 1 >= now - Window /\ Window > 0
  BY <1>2, <1>3, <1>4 DEF Opened, Spent
<1>6. /\ admitted'[c] = Recent(c) \cup {a} /\ a.at = now /\ a \notin Recent(c)
      /\ Recent(c)' = Recent(c) \cup {a} /\ Numbered(c)'
      /\ Cardinality(Recent(c)') = Cardinality(Recent(c)) + 1
  BY <1>1, <1>5, AdmitEffect
<1>7. /\ IsFiniteSet(Recent(c)) /\ Cardinality(Recent(c)) \in Nat
      /\ IsFiniteSet(After(c, Opened(c))) /\ IsFiniteSet(After(c, Opened(c) - 1))
      /\ Cardinality(After(c, Opened(c))) \in Nat
      /\ Cardinality(After(c, Opened(c) - 1)) \in Nat
  BY RecentCounts, AfterCounts DEF AccInv
<1>8. OpenedByHit(c)'
  BY <1>3, <1>4 DEF OpenedByHit
<1>9. FewSince(c)'
  <2>1. After(c, Opened(c))' \subseteq After(c, Opened(c)) \cup {a}
    BY <1>5, <1>6 DEF After, Recent
  <2>2. /\ Cardinality(After(c, Opened(c))') \in Nat
        /\ Cardinality(After(c, Opened(c))') <= Cardinality(After(c, Opened(c))) + 1
    BY <1>7, <2>1, OneMoreCounts
  <2>3. Cardinality(After(c, Opened(c))) <= Spent(c) - 1
    BY <1>2, <1>3 DEF LimiterOK, FewSince
  <2> QED BY <1>3, <1>5, <1>7, <2>2, <2>3 DEF FewSince
<1>10. FewRecent(c)'
  <2>1. Cardinality(Recent(c)) <= Budget - 1 + Spent(c) /\ Budget \in Int
    BY BudgetNumbers DEF LimiterOK, FewRecent
  <2>2. UNCHANGED Budget
    BY DEF Budget
  <2>3. Cardinality(Recent(c)') <= Budget' - 1 + Spent(c)'
    BY <1>3, <1>5, <1>6, <1>7, <2>1, <2>2
  <2>4. authHits'[c].hits # 0
    BY <1>3, <1>4
  <2> QED BY <2>3, <2>4 DEF FewRecent
<1>11. AllSpent(c)'
  <2>1. After(c, Opened(c) - 1) \subseteq Recent(c)
    BY <1>3, <1>5 DEF After, Recent
  <2>2. After(c, Opened(c) - 1)' = After(c, Opened(c) - 1) \cup {a}
    <3>1. After(c, Opened(c) - 1)' = {b \in Recent(c) \cup {a} : b.at > Opened(c) - 1}
      BY <1>5, <1>6 DEF After
    <3>2. a.at > Opened(c) - 1
      BY <1>3, <1>5, <1>6
    <3>3. {b \in Recent(c) : b.at > Opened(c) - 1} = After(c, Opened(c) - 1)
      BY <2>1 DEF After, Recent
    <3> QED BY <3>1, <3>2, <3>3
  <2>3. Cardinality(After(c, Opened(c) - 1)') = Cardinality(After(c, Opened(c) - 1)) + 1
    BY <1>6, <1>7, <2>1, <2>2, FS_AddElement
  <2>4. Cardinality(After(c, Opened(c) - 1)) >= Spent(c)
    BY DEF LimiterOK, AllSpent
  <2>5. Cardinality(After(c, Opened(c) - 1)') >= Spent(c)'
    BY <1>3, <1>5, <1>7, <2>3, <2>4
  <2> QED BY <2>5 DEF AllSpent
<1> QED BY <1>6, <1>8, <1>9, <1>10, <1>11 DEF LimiterOK

LEMMA LimiterInitInv == AccessInit => LimiterInv
<1> SUFFICES ASSUME AccessInit, NEW c \in Clients PROVE LimiterOK(c)
  BY DEF LimiterInv
<1>1. AccInv /\ AccountsInit
  BY AccountsInitInv DEF AccessInit
<1>2. /\ authHits[c].hits = 0 /\ authHits[c].resetAt = 0 /\ now = 0 /\ admitted[c] = {}
  BY <1>1 DEF AccountsInit, LimiterInit, NoHits
<1>3. Window \in Nat /\ AuthLimit \in Nat /\ AuthLimit > 0 /\ Budget \in Nat /\ Budget >= AuthLimit
  BY <1>1, CounterNumbers, BudgetNumbers
<1>4. ~IsOpen(c) /\ Recent(c) = {}
  BY <1>2 DEF IsOpen, Recent
<1>5. Numbered(c) /\ OpenedByHit(c) /\ FewSince(c) /\ AllSpent(c)
  BY <1>2, <1>3, <1>4 DEF Numbered, OpenedByHit, FewSince, AllSpent
<1>6. FewRecent(c)
  BY <1>3, <1>4, FS_EmptySet DEF FewRecent
<1> QED BY <1>5, <1>6 DEF LimiterOK

\* A request to /auth meets its own client's counter only (AReceive).
LEMMA LimiterReceiveStep ==
  ASSUME AccInv, LimiterInv, NEW r \in AuthRequests, AReceive(r) PROVE LimiterInv'
<1> SUFFICES ASSUME NEW c \in Clients PROVE LimiterOK(c)'
  BY DEF LimiterInv
<1>1. PICK k \in AuthCalls :
        /\ \/ UNCHANGED <<authHits, admitted>>
           \/ ~PassesAuth(k.client) /\ CountAuth(k.client) /\ UNCHANGED admitted
           \/ PassesAuth(k.client) /\ CountAuth(k.client) /\ Admit(k.client)
        /\ UNCHANGED <<now, restarts>>
  BY DEF AReceive, mishaps
<1>2. /\ LimiterOK(c) /\ k.client \in Clients
      /\ authHits \in [Clients -> Counter(AuthLimit)]
      /\ admitted \in [Clients -> SUBSET Admission]
  BY AccountsAssumption
  DEF LimiterInv, AuthCall, AccInv, AccountsTypeOK, LimiterTypeOK
<1>3. CASE UNCHANGED <<authHits, admitted>>
  BY <1>1, <1>2, <1>3, LimiterFrame
<1>4. CASE /\ ~PassesAuth(k.client) /\ CountAuth(k.client) /\ UNCHANGED admitted
  <2>1. CASE c = k.client
    BY <1>1, <1>2, <1>4, <2>1, CountRefusedStep
  <2>2. CASE c # k.client
    <3>1. authHits'[c] = authHits[c]
      BY <1>2, <1>4, <2>2 DEF CountAuth
    <3> QED BY <1>1, <1>2, <1>4, <3>1, LimiterFrame
  <2> QED BY <2>1, <2>2
<1>5. CASE PassesAuth(k.client) /\ CountAuth(k.client) /\ Admit(k.client)
  <2>1. CASE c = k.client
    BY <1>1, <1>2, <1>5, <2>1, OpeningStep, SpendingStep
  <2>2. CASE c # k.client
    <3>1. authHits'[c] = authHits[c]
      BY <1>2, <1>5, <2>2 DEF CountAuth
    <3>2. admitted'[c] = admitted[c]
      BY <1>2, <1>5, <2>2 DEF Admit
    <3> QED BY <1>1, <1>2, <3>1, <3>2, LimiterFrame
  <2> QED BY <2>1, <2>2
<1> QED BY <1>1, <1>3, <1>4, <1>5

LEMMA LimiterNextInv ==
  ASSUME AccessInv, LimiterInv, [AccessNext]_accessVars PROVE LimiterInv'
<1>1. AccInv
  BY DEF AccessInv
<1>2. ASSUME UNCHANGED <<now, authHits, restarts, admitted>> PROVE LimiterInv'
  BY <1>2, LimiterFrame DEF LimiterInv
<1>3. CASE AccountsNext
  <2>1. ASSUME NEW r \in AuthRequests, AReceive(r) PROVE LimiterInv'
    BY <1>1, <2>1, LimiterReceiveStep
  <2>2. ASSUME NEW r \in AuthRequests, AuthStep(r) \/ AuthQueryFails(r) PROVE LimiterInv'
    BY <1>2, <2>2 DEF AuthStep, createCustomer, findUserByEmail, SignOrRefuse, AuthQueryFails,
                      limiterVars, mishaps
  <2>3. CASE AuthTick
    <3>1. now' = now + 1 /\ UNCHANGED <<authHits, restarts, admitted>>
      BY <2>3 DEF AuthTick, Tick, mishaps
    <3> QED BY <1>1, <3>1, TimeStep DEF LimiterInv
  <2> QED BY <1>3, <2>1, <2>2, <2>3 DEF AccountsNext
<1>4. ASSUME NEW r \in TagRequests, TReceive(r) \/ TagStep(r) \/ TagQueryFails(r)
      PROVE  LimiterInv'
  BY <1>2, <1>4 DEF TReceive, TagStep, getAllTags, getTagById, WriteTag, TagQueryFails,
                    allAccounts, limiterVars, mishaps
<1>5. CASE AccessRestart
  BY <1>1, <1>5, ForgetStep DEF AccessRestart, LimiterInv
<1>6. CASE UNCHANGED accessVars
  BY <1>2, <1>6 DEF accessVars, allAccounts, limiterVars, mishaps
<1> QED BY <1>3, <1>4, <1>5, <1>6 DEF AccessNext

LEMMA LimiterInvariance == AccessSpec => []LimiterInv
<1>1. AccessInit => LimiterInv
  BY LimiterInitInv
<1>2. AccessInv /\ LimiterInv /\ [AccessNext]_accessVars => LimiterInv'
  BY LimiterNextInv
<1> QED BY <1>1, <1>2, AccessInvariance, PTL DEF AccessSpec

\* However its requests fall into windows, less than twice the limit of a client
\* is let through to register and login in any span of one window, and one limit
\* more for every restart (authLimiter).
THEOREM AttemptsBounded == AccessSpec => []AuthAttemptsBounded
<1>1. AccessInv /\ LimiterInv => AuthAttemptsBounded
  <2> SUFFICES ASSUME AccessInv, LimiterInv, NEW c \in Clients
               PROVE  Cardinality(Recent(c)) <= (restarts + 2) * AuthLimit - 1
    BY DEF AuthAttemptsBounded
  <2>1. AccInv /\ LimiterOK(c)
    BY DEF AccessInv, LimiterInv
  <2>2. Cardinality(Recent(c)) <= Budget + AuthLimit - 1
    BY <2>1, FewAtAnyTime
  <2>3. (restarts + 2) * AuthLimit = Budget + AuthLimit
    BY <2>1, BudgetNumbers
  <2>4. Budget \in Int /\ AuthLimit \in Int /\ Cardinality(Recent(c)) \in Int
    BY <2>1, BudgetNumbers, CounterNumbers, RecentCounts DEF AccInv
  <2> QED BY <2>2, <2>3, <2>4
<1> QED BY <1>1, AccessInvariance, LimiterInvariance, PTL

\* A client that has not used up the limit within the last window's length is let
\* through, whatever was refused to it meanwhile (authLimiter).
THEOREM LockedOutWhenSpent == AccessSpec => []LockedOutOnlyWhenSpent
<1>1. AccessInv /\ LimiterInv => LockedOutOnlyWhenSpent
  <2> SUFFICES ASSUME AccessInv, LimiterInv, NEW c \in Clients,
                      Cardinality(Recent(c)) < AuthLimit
               PROVE  PassesAuth(c)
    BY DEF LockedOutOnlyWhenSpent
  <2>1. AccInv /\ LimiterOK(c)
    BY DEF AccessInv, LimiterInv
  <2>2. PICK h : h = authHits[c]
    OBVIOUS
  <2>3. /\ now \in Nat /\ Window \in Nat /\ AuthLimit \in Nat /\ AuthLimit > 0
        /\ h \in Counter(AuthLimit) /\ h.hits \in 0..(AuthLimit + 1) /\ h.resetAt \in Nat
        /\ \A a \in admitted[c] : a.at \in Nat
    BY <2>1, <2>2, CounterNumbers DEF AccInv, AccountsTypeOK, LimiterTypeOK
  <2>4. CASE ~IsOpen(c)
    BY <2>2, <2>3, <2>4 DEF IsOpen, PassesAuth, LetsThrough, Counted
  <2>5. CASE IsOpen(c)
    <3>1. After(c, Opened(c) - 1) \subseteq Recent(c)
      BY <2>2, <2>3, <2>5 DEF After, Recent, Opened, IsOpen
    <3>2. IsFiniteSet(Recent(c)) /\ Cardinality(Recent(c)) \in Nat
      BY <2>1, RecentCounts DEF AccInv
    <3>3. /\ Cardinality(After(c, Opened(c) - 1)) \in Nat
          /\ Cardinality(After(c, Opened(c) - 1)) <= Cardinality(Recent(c))
      BY <3>1, <3>2, FewerCount
    <3>4. Spent(c) <= Cardinality(After(c, Opened(c) - 1))
      BY <2>1, <2>5, <3>3, CounterNumbers DEF LimiterOK, AllSpent
    <3>5. h.hits < AuthLimit
      BY <2>1, <2>2, <2>3, <3>2, <3>3, <3>4, CounterNumbers DEF Spent
    <3>6. Counted(h, AuthLimit) = [h EXCEPT !.hits = h.hits + 1]
      BY <2>2, <2>3, <2>5, <3>5 DEF Counted, IsOpen
    <3>7. Counted(h, AuthLimit).hits = h.hits + 1
      BY <2>3, <3>6 DEF Counter
    <3> QED BY <2>2, <2>3, <3>5, <3>7 DEF PassesAuth, LetsThrough
  <2> QED BY <2>4, <2>5
<1> QED BY <1>1, AccessInvariance, LimiterInvariance, PTL
=============================================================================
