--------------------------- MODULE CommentsProofs ---------------------------
(***************************************************************************)
(* Proofs about Comments, for any number of requests, tickets, comments    *)
(* and users: type correctness, no comment without its ticket, no comment  *)
(* left unannounced without a failure, and who may change one.             *)
(***************************************************************************)
EXTENDS Comments, TicketsProofs

\* The inductive invariant, in parts.

\* A comment a request is about to change, if it is still there, is on the
\* ticket of the URL and the viewer's to change.
Granted(r) ==
  ccall[r].id \in DOMAIN comments =>
    OnTicket(ccall[r].ticketId, ccall[r].id) /\ CanModify(ccall[r].id, ccall[r].viewer)

\* What a comment request carries at each place: its call, the permission it was
\* given, the comment it has written.
CCarried(r) ==
  LET c == ccall[r] IN
  /\ cpc[r] # "idle" => c \in CommentCall /\ (c.id = Null <=> c.op \in {"list", "create"})
  /\ cpc[r] \in {"list", "create", "patch", "delete"} => c.op = cpc[r]
  /\ cpc[r] = "comment" => c.op \in {"get", "patch", "delete"}
  /\ cpc[r] \in {"patch", "delete"} =>
       Granted(r) /\ c.id \in CommentIds /\ c.id < nextCommentId
  /\ written[r] # Null <=> cpc[r] \in {"watchers", "users"}
  /\ written[r] # Null =>
       /\ written[r] < nextCommentId
       /\ written[r] \in DOMAIN comments => OnTicket(c.ticketId, written[r])

AllCCarried == \A r \in CommentRequests : CCarried(r)

\* The bound on ids: every create in flight has one left to take.
Writing == {r \in CommentRequests :
              cpc[r] \in {"ticket", "create"} /\ ccall[r].op = "create"}
CRoomLeft == nextCommentId + Cardinality(Writing) <= MaxComments + 1

CInv == IInv /\ CommentTypeOK /\ AllCCarried /\ CRoomLeft /\ NoOrphanComments
          /\ EveryCommentTold
-----------------------------------------------------------------------------
CPlaces == {"idle", "ticket", "list", "comment", "create", "patch", "delete",
            "watchers", "users"}

\* A failure counted or a crash is what excuses an unannounced comment.
Mishap == crashes + faults # 0

LEMMA CInitInv == CommentInit => CInv
<1> SUFFICES ASSUME CommentInit PROVE CInv
  OBVIOUS
<1>1. Init /\ IInv /\ TypeOK
  BY InitInv DEF CommentInit, IInv
<1>2. CommentTypeOK
  BY <1>1 DEF CommentInit, CommentTypeOK, AllNull
<1>3. AllCCarried
  BY DEF CommentInit, AllCCarried, CCarried, AllNull
<1>4. CRoomLeft
  <2>1. Writing = {}
    BY DEF CommentInit, Writing
  <2>2. nextCommentId \in 1..(MaxComments + 1)
    BY <1>1 DEF TypeOK, StoreTypeOK
  <2> QED BY <2>1, <2>2, FS_EmptySet, SeedAssumption DEF CRoomLeft
<1>5. NoOrphanComments /\ EveryCommentTold
  BY <1>1, SeedAssumption DEF Init, StoreInit, NoOrphanComments, EveryCommentTold
<1> QED BY <1>1, <1>2, <1>3, <1>4, <1>5 DEF CInv

\* What a response does to the comment request it answers and leaves of the
\* others (CRespond).
LEMMA CRespondEffect ==
  ASSUME CommentTypeOK, NEW r \in CommentRequests, NEW status \in Replies,
         CRespond(r, status)
  PROVE  /\ cpc' \in [CommentRequests -> CPlaces]
         /\ ccall' \in [CommentRequests -> CommentCall \cup {Null}]
         /\ written' \in [CommentRequests -> CommentIds \cup {Null}]
         /\ recipients' \in [CommentRequests -> SUBSET User]
         /\ creply' \in [CommentRequests -> Replies]
         /\ cpc'[r] = "idle" /\ written'[r] = Null /\ creply'[r] = status
         /\ \A q \in CommentRequests \ {r} :
              /\ cpc'[q] = cpc[q] /\ ccall'[q] = ccall[q]
              /\ written'[q] = written[q] /\ creply'[q] = creply[q]
BY DEF CommentTypeOK, CRespond, CPlaces, Replies

\* A comment handler that fails responds (asyncHandler).
LEMMA CFailEffect ==
  ASSUME NEW r \in CommentRequests,
         NEW err \in {"Forbidden", "NotFound", "P2025", "P2000", "P2003", "OutOfRange",
                      "Unreachable"},
         CFail(r, err)
  PROVE  \E status \in Replies : CRespond(r, status)
BY ErrorStatus DEF CFail

\* No statement moves a comment to another ticket or author, or gives it an id
\* that was handed out (UpdateCommits, DeleteRowCommits, InsertCommits).
CommentsKept ==
  /\ nextCommentId' \in {nextCommentId, nextCommentId + 1}
  /\ \A id \in DOMAIN comments' :
       \/ /\ id \in DOMAIN comments
          /\ comments'[id].ticketId = comments[id].ticketId
          /\ comments'[id].authorId = comments[id].authorId
       \/ id = nextCommentId

\* A request none of whose state changes keeps what it carries (CCarried).
LEMMA CCarriedFrame ==
  ASSUME NEW q \in CommentRequests, CCarried(q), CommentTypeOK, CommentsKept,
         cpc'[q] = cpc[q], ccall'[q] = ccall[q], written'[q] = written[q]
  PROVE  CCarried(q)'
<1>1. nextCommentId \in Int /\ Null \notin CommentIds
  BY CommentCallAssumption DEF CommentTypeOK, TypeOK, StoreTypeOK
<1>2. ASSUME NEW id \in CommentIds, id < nextCommentId, id \in DOMAIN comments'
      PROVE  /\ id \in DOMAIN comments
             /\ comments'[id].ticketId = comments[id].ticketId
             /\ comments'[id].authorId = comments[id].authorId
  BY <1>1, <1>2 DEF CommentsKept, CommentIds
<1>3. cpc[q] \in {"patch", "delete"} =>
        ccall[q].id \in CommentIds /\ ccall[q].id < nextCommentId
  BY DEF CCarried
<1>4. written[q] # Null => written[q] \in CommentIds /\ written[q] < nextCommentId
  BY DEF CCarried, CommentTypeOK
<1>5. cpc[q] \in {"patch", "delete"} => Granted(q)' /\ ccall[q].id < nextCommentId'
  BY <1>1, <1>2, <1>3 DEF CCarried, Granted, OnTicket, CanModify, CommentsKept, CommentIds
<1>6. written[q] # Null =>
        /\ written[q] < nextCommentId'
        /\ written[q] \in DOMAIN comments' => OnTicket(ccall[q].ticketId, written[q])'
  BY <1>1, <1>2, <1>4 DEF CCarried, OnTicket, CommentsKept, CommentIds
<1> QED BY <1>5, <1>6 DEF CCarried

\* The room for new ids stays when no more creates are in flight (RoomForComment).
LEMMA CRoomFrame ==
  ASSUME CInv, Writing' \subseteq Writing, UNCHANGED nextCommentId
  PROVE  CRoomLeft'
<1>1. IsFiniteSet(Writing)
  BY FS_Subset, CommentCallAssumption DEF Writing
<1>2. /\ Cardinality(Writing') <= Cardinality(Writing)
      /\ IsFiniteSet(Writing')
  BY <1>1, FS_Subset
<1>3. Cardinality(Writing) \in Nat /\ Cardinality(Writing') \in Nat
  BY <1>1, <1>2, FS_CardinalityType
<1> QED BY <1>2, <1>3, SeedAssumption DEF CInv, CRoomLeft, CommentTypeOK, TypeOK, StoreTypeOK

\* The id an insert takes is the one that was kept free for it.
LEMMA CRoomTaken ==
  ASSUME CInv, NEW r \in CommentRequests, r \in Writing, Writing' = Writing \ {r},
         nextCommentId' = nextCommentId + 1
  PROVE  CRoomLeft' /\ nextCommentId \in CommentIds
<1>1. IsFiniteSet(Writing)
  BY FS_Subset, CommentCallAssumption DEF Writing
<1>2. /\ Cardinality(Writing') = Cardinality(Writing) - 1
      /\ Cardinality(Writing) \in Nat /\ Cardinality(Writing) # 0
  BY <1>1, FS_RemoveElement, FS_CardinalityType, FS_EmptySet
<1> QED BY <1>2, SeedAssumption
    DEF CInv, CRoomLeft, CommentTypeOK, TypeOK, StoreTypeOK, CommentIds
-----------------------------------------------------------------------------
\* What a comment step does to the tables: rows stay where they are, on tickets
\* that exist, and the ticket endpoints notice nothing.
StatementKeeps ==
  /\ IInv' /\ StoreTypeOK' /\ CommentsKept /\ NoOrphanComments'
  /\ crashes <= crashes' /\ faults <= faults'

\* A comment is announced by the time its author stops waiting, unless something
\* failed.
Announced == \A c \in DOMAIN comments' \ DOMAIN SeedComments :
  \/ c \in DOMAIN comments /\ \A r \in CommentRequests : written[r] = c => written'[r] = c
  \/ (\E r \in CommentRequests : written'[r] = c) \/ c \in told' \/ Mishap'

LEMMA AnnouncedStep ==
  ASSUME CInv, StoreTypeOK', crashes' \in Nat, crashes <= crashes', faults <= faults', told \subseteq told', Announced
  PROVE  EveryCommentTold'
<1>1. /\ crashes \in Nat /\ faults \in Nat /\ faults' \in Nat
  BY CallAssumption, SeedAssumption DEF CInv, CommentTypeOK, TypeOK, StoreTypeOK
<1>2. crashes' + faults' = 0 => crashes + faults = 0
  <2>1. \A i, j, k, l \in Nat : i <= j /\ k <= l /\ j + l = 0 => i + k = 0
    OBVIOUS
  <2> QED BY <1>1, <2>1
<1> SUFFICES ASSUME NEW c \in DOMAIN comments' \ DOMAIN SeedComments,
                    \A r \in CommentRequests : written'[r] # c, ~Mishap'
             PROVE  c \in told'
  BY DEF EveryCommentTold, Mishap
<1>3. CASE c \in DOMAIN comments /\ \A r \in CommentRequests : written[r] = c => written'[r] = c
  BY <1>2, <1>3 DEF CInv, EveryCommentTold, Mishap
<1> QED BY <1>3 DEF Announced

\* Answering comment request r keeps the invariant (CRespond).
LEMMA CAnswerStep ==
  ASSUME CInv, NEW r \in CommentRequests, NEW status \in Replies, CRespond(r, status),
         StatementKeeps, crashes' \in 0..MaxCrashes,
         told \subseteq told', told' \subseteq CommentIds,
         \/ UNCHANGED nextCommentId
         \/ nextCommentId' = nextCommentId + 1 /\ cpc[r] = "create",
         written[r] \in DOMAIN comments' => written[r] \in told' \/ Mishap',
         \A c \in DOMAIN comments' \ DOMAIN comments : Mishap'
  PROVE  CInv'
<1>1. /\ CommentTypeOK /\ AllCCarried
      /\ crashes' \in Nat
  BY CallAssumption DEF CInv
<1>2. /\ cpc' \in [CommentRequests -> CPlaces]
      /\ ccall' \in [CommentRequests -> CommentCall \cup {Null}]
      /\ written' \in [CommentRequests -> CommentIds \cup {Null}]
      /\ recipients' \in [CommentRequests -> SUBSET User]
      /\ creply' \in [CommentRequests -> Replies]
      /\ cpc'[r] = "idle" /\ written'[r] = Null
      /\ \A q \in CommentRequests \ {r} :
           cpc'[q] = cpc[q] /\ ccall'[q] = ccall[q] /\ written'[q] = written[q]
  BY <1>1, CRespondEffect
<1>3. CommentTypeOK'
  BY <1>2 DEF CommentTypeOK, StatementKeeps, IInv, CPlaces, Replies
<1>4. AllCCarried'
  <2> SUFFICES ASSUME NEW q \in CommentRequests PROVE CCarried(q)'
    BY DEF AllCCarried
  <2>1. CASE q = r
    BY <1>2, <2>1 DEF CCarried
  <2>2. CASE q # r
    BY <1>1, <1>2, <2>2, CCarriedFrame DEF AllCCarried, StatementKeeps
  <2> QED BY <2>1, <2>2
<1>5. CRoomLeft'
  <2>1. CASE UNCHANGED nextCommentId
    <3>1. Writing' \subseteq Writing
      BY <1>2 DEF Writing
    <3> QED BY <2>1, <3>1, CRoomFrame
  <2>2. CASE nextCommentId' = nextCommentId + 1 /\ cpc[r] = "create"
    <3>1. r \in Writing
      BY <1>1, <2>2 DEF Writing, AllCCarried, CCarried
    <3>2. Writing' = Writing \ {r}
      BY <1>2 DEF Writing
    <3> QED BY <2>2, <3>1, <3>2, CRoomTaken
  <2> QED BY <2>1, <2>2
<1>6. EveryCommentTold'
  <2>1. Announced
    BY <1>2 DEF Announced
  <2> QED BY <1>1, <2>1, AnnouncedStep DEF StatementKeeps
<1> QED BY <1>3, <1>4, <1>5, <1>6 DEF CInv, StatementKeeps

\* A comment request that moves to its next await with nothing written keeps the
\* invariant.
LEMMA CMoveStep ==
  ASSUME CInv, NEW r \in CommentRequests, UNCHANGED <<vars, told, written>>, CommentTypeOK',
         CCarried(r)', CRoomLeft',
         \A q \in CommentRequests \ {r} :
           cpc'[q] = cpc[q] /\ ccall'[q] = ccall[q] /\ written'[q] = written[q]
  PROVE  CInv'
<1>1. IInv' /\ UNCHANGED <<tickets, comments, nextCommentId, crashes, faults>>
  BY StutterStep DEF CInv, vars, tables, mishaps
<1>2. CommentsKept
  BY <1>1 DEF CommentsKept
<1>3. AllCCarried'
  BY <1>2, CCarriedFrame DEF CInv, AllCCarried
<1>4. NoOrphanComments' /\ EveryCommentTold'
  BY <1>1 DEF CInv, NoOrphanComments, EveryCommentTold
<1> QED BY <1>1, <1>3, <1>4 DEF CInv

\* With the tables as they were, a statement keeps them in order.
LEMMA NoStatement ==
  ASSUME CInv, UNCHANGED <<tables, requestVars, crashes, ghosts>>,
         faults' \in 0..MaxFaults, faults <= faults'
  PROVE  StatementKeeps /\ DOMAIN comments' = DOMAIN comments
<1>1. UNCHANGED <<tickets, nextTicketId, comments, nextCommentId>>
  BY DEF tables
<1>2. /\ StoreTypeOK /\ crashes \in Int
  BY CallAssumption DEF CInv, CommentTypeOK, TypeOK
<1>3. StoreTypeOK'
  BY <1>1, <1>2 DEF StoreTypeOK, IsTable
<1>4. IInv'
  BY <1>1, <1>3, OthersStep DEF CInv
<1> QED BY <1>1, <1>2, <1>3, <1>4 DEF StatementKeeps, CommentsKept, CInv, NoOrphanComments

\* The three statements that go through (UpdateCommits, DeleteRowCommits,
\* InsertCommits).
LEMMA Statement ==
  ASSUME CInv, NEW r \in CommentRequests,
         UpdateCommits(r) \/ DeleteRowCommits(r) \/ InsertCommits(r),
         UNCHANGED <<tickets, nextTicketId, requestVars, crashes, ghosts>>,
         faults' \in 0..MaxFaults, faults <= faults'
  PROVE  /\ StatementKeeps
         /\ \/ ~InsertCommits(r) /\ UNCHANGED nextCommentId /\ DOMAIN comments' \subseteq DOMAIN comments
            \/ /\ InsertCommits(r)
               /\ nextCommentId' = nextCommentId + 1 /\ nextCommentId \in CommentIds
               /\ nextCommentId \notin DOMAIN comments
               /\ DOMAIN comments' = DOMAIN comments \cup {nextCommentId}
               /\ comments'[nextCommentId].ticketId = ccall[r].ticketId
<1> DEFINE c == ccall[r]
<1>1. /\ StoreTypeOK /\ CCarried(r) /\ AllCCarried /\ NoOrphanComments
      /\ crashes \in Int /\ nextCommentId \in Int
      /\ \A id \in DOMAIN comments :
           id \in CommentIds /\ comments[id] \in Comment /\ id < nextCommentId
  BY CallAssumption DEF CInv, CommentTypeOK, TypeOK, AllCCarried, StoreTypeOK, IsTable
<1>2. SUFFICES /\ IsTable(comments', CommentIds, Comment, nextCommentId')
               /\ nextCommentId' \in 1..(MaxComments + 1)
               /\ CommentsKept /\ NoOrphanComments'
               /\ \/ ~InsertCommits(r) /\ UNCHANGED nextCommentId /\ DOMAIN comments' \subseteq DOMAIN comments
                  \/ /\ InsertCommits(r)
                     /\ nextCommentId' = nextCommentId + 1 /\ nextCommentId \in CommentIds
                     /\ nextCommentId \notin DOMAIN comments
                     /\ DOMAIN comments' = DOMAIN comments \cup {nextCommentId}
                     /\ comments'[nextCommentId].ticketId = ccall[r].ticketId
  <2>1. StoreTypeOK'
    BY <1>1, <1>2 DEF StoreTypeOK, IsTable
  <2>2. IInv'
    BY <2>1, OthersStep DEF CInv
  <2> QED BY <1>1, <1>2, <2>1, <2>2 DEF StatementKeeps
<1>3. CASE UpdateCommits(r)
  <2>1. ~InsertCommits(r) /\ UNCHANGED <<nextCommentId, tickets>>
    BY <1>3 DEF UpdateCommits, InsertCommits
  <2>2. /\ DOMAIN comments' = DOMAIN comments
        /\ \A id \in DOMAIN comments :
             /\ comments'[id] \in Comment
             /\ comments'[id].ticketId = comments[id].ticketId
             /\ comments'[id].authorId = comments[id].authorId
    BY <1>1, <1>3 DEF UpdateCommits, Comment
  <2> QED BY <1>1, <2>1, <2>2 DEF CommentsKept, NoOrphanComments, IsTable, StoreTypeOK
<1>4. CASE DeleteRowCommits(r)
  <2>1. ~InsertCommits(r) /\ UNCHANGED <<nextCommentId, tickets>>
    BY <1>4 DEF DeleteRowCommits, InsertCommits
  <2>2. /\ DOMAIN comments' \subseteq DOMAIN comments
        /\ \A id \in DOMAIN comments' : comments'[id] = comments[id]
    BY <1>4 DEF DeleteRowCommits, Delete, Restrict
  <2> QED BY <1>1, <2>1, <2>2 DEF CommentsKept, NoOrphanComments, IsTable, StoreTypeOK
<1>5. CASE InsertCommits(r)
  <2>0. PICK n, row : n = nextCommentId /\
          row = [ticketId |-> c.ticketId, authorId |-> c.viewer, edited |-> FALSE]
    OBVIOUS
  <2>1. /\ cpc[r] = "create" /\ c.ticketId \in DOMAIN tickets
        /\ comments' = Insert(comments, n, row) /\ nextCommentId' = n + 1
    BY <1>5, <2>0 DEF InsertCommits
  <2>2. c \in CommentCall /\ c.op = "create" /\ row \in Comment
    <3>1. c.ticketId \in TicketIds
      BY <1>1, <2>1 DEF StoreTypeOK, IsTable
    <3> QED BY <1>1, <2>0, <2>1, <3>1 DEF CCarried, Comment, CommentCall
  <2>3. n \in CommentIds
    <3>1. r \in Writing
      BY <2>1, <2>2 DEF Writing
    <3>2. IsFiniteSet(Writing)
      BY FS_Subset, CommentCallAssumption DEF Writing
    <3>3. Cardinality(Writing) \in Nat /\ Cardinality(Writing) # 0
      BY <3>1, <3>2, FS_CardinalityType, FS_EmptySet
    <3> QED BY <1>1, <2>0, <3>3, SeedAssumption DEF CInv, CRoomLeft, StoreTypeOK, CommentIds
  <2>4. /\ DOMAIN comments' = DOMAIN comments \cup {n} /\ comments'[n] = row
        /\ \A id \in DOMAIN comments : comments'[id] = comments[id]
        /\ n \notin DOMAIN comments
    BY <1>1, <2>0, <2>1 DEF Insert
  <2>5. row.ticketId = c.ticketId
    BY <2>0
  <2>6. NoOrphanComments'
    BY <1>1, <2>1, <2>4, <2>5 DEF NoOrphanComments
  <2>7. CommentsKept
    BY <2>0, <2>1, <2>4 DEF CommentsKept
  <2>8. IsTable(comments', CommentIds, Comment, nextCommentId')
    <3>1. n \in Int /\ DOMAIN comments' \subseteq CommentIds
      BY <1>1, <2>0, <2>3, <2>4
    <3>2. \A id \in DOMAIN comments : id \in Int /\ id < nextCommentId'
      BY <1>1, <2>0, <2>1 DEF CommentIds
    <3>3. \A id \in DOMAIN comments' : comments'[id] \in Comment /\ id < nextCommentId'
      BY <1>1, <2>1, <2>2, <2>4, <3>1, <3>2
    <3> QED BY <3>1, <3>3 DEF IsTable
  <2>9. nextCommentId' \in 1..(MaxComments + 1)
    BY <2>1, <2>3, SeedAssumption DEF CommentIds
  <2> QED BY <1>5, <2>0, <2>1, <2>3, <2>4, <2>5, <2>6, <2>7, <2>8, <2>9
<1> QED BY <1>3, <1>4, <1>5
-----------------------------------------------------------------------------
\* An answer that goes with no statement: what a create had written, if
\* anything, is announced by then.
LEMMA CQuietAnswer ==
  ASSUME CInv, NEW r \in CommentRequests, NEW status \in Replies, CRespond(r, status),
         UNCHANGED vars, told \subseteq told', told' \subseteq CommentIds,
         written[r] # Null /\ written[r] \in DOMAIN comments => written[r] \in told'
  PROVE  CInv'
<1>1. /\ UNCHANGED <<tables, requestVars, crashes, ghosts, faults, comments, nextCommentId>>
      /\ faults \in 0..MaxFaults /\ faults \in Int /\ crashes \in 0..MaxCrashes
      /\ Null \notin DOMAIN comments
  BY CommentCallAssumption
  DEF vars, tables, mishaps, CInv, CommentTypeOK, TypeOK, StoreTypeOK, IsTable
<1>2. StatementKeeps
  BY <1>1, NoStatement
<1> QED BY <1>1, <1>2, CAnswerStep

\* A request arrives (CReceive).
LEMMA CReceiveStep == ASSUME CInv, NEW r \in CommentRequests, CReceive(r) PROVE CInv'
<1>1. PICK c \in CommentCalls :
        /\ cpc[r] = "idle"
        /\ c.op = "create" => RoomForComment
        /\ cpc' = [cpc EXCEPT ![r] = "ticket"]
        /\ ccall' = [ccall EXCEPT ![r] = c]
        /\ creply' = [creply EXCEPT ![r] = Null]
        /\ UNCHANGED <<vars, written, recipients, told>>
  BY DEF CReceive
<1>2. /\ CommentTypeOK /\ CCarried(r) /\ c \in CommentCall
      /\ c.id = Null <=> c.op \in {"list", "create"}
      /\ UNCHANGED nextCommentId /\ nextCommentId \in Int /\ MaxComments \in Nat
  BY <1>1, CommentCallAssumption, SeedAssumption
  DEF CInv, AllCCarried, vars, tables, CommentTypeOK, TypeOK, StoreTypeOK
<1>3. CommentTypeOK'
  <2>1. TypeOK'
    BY <1>1, StutterStep DEF CInv, IInv
  <2> QED BY <1>1, <1>2, <2>1 DEF CommentTypeOK
<1>4. /\ cpc'[r] = "ticket" /\ ccall'[r] = c
      /\ \A q \in CommentRequests \ {r} : cpc'[q] = cpc[q] /\ ccall'[q] = ccall[q]
  BY <1>1, <1>2 DEF CommentTypeOK
<1>5. CCarried(r)'
  BY <1>1, <1>2, <1>4 DEF CCarried
<1>6. CRoomLeft'
  <2>1. CASE c.op # "create"
    <3>1. Writing' \subseteq Writing
      BY <1>4, <2>1 DEF Writing
    <3> QED BY <1>2, <3>1, CRoomFrame
  <2>2. CASE c.op = "create"
    <3>1. r \notin Writing /\ Writing' = Writing \cup {r}
      BY <1>1, <1>4, <2>2 DEF Writing
    <3>2. IsFiniteSet(Writing)
      BY FS_Subset, CommentCallAssumption DEF Writing
    <3>3. Cardinality(Writing') = Cardinality(Writing) + 1 /\ Cardinality(Writing) \in Nat
      BY <3>1, <3>2, FS_AddElement, FS_CardinalityType
    <3>4. nextCommentId + Cardinality(Writing) <= MaxComments
      BY <1>1, <2>2 DEF RoomForComment, Writing
    <3> QED BY <1>2, <3>3, <3>4 DEF CRoomLeft
  <2> QED BY <2>1, <2>2
<1> QED BY <1>1, <1>3, <1>4, <1>5, <1>6, CMoveStep

\* A request that moves on without an answer, its call as it was (CGoto).
LEMMA CGotoStep ==
  ASSUME CInv, NEW r \in CommentRequests, NEW place \in CPlaces, CGoto(r, place),
         UNCHANGED <<vars, told>>, cpc[r] \in {"ticket", "comment"},
         place \in {"list", "create", "patch", "delete"} => place = ccall[r].op,
         place = "comment" => ccall[r].op \in {"get", "patch", "delete"},
         place \notin {"ticket", "watchers", "users"}, place # "create" \/ cpc[r] = "ticket",
         place \in {"patch", "delete"} =>
           Granted(r) /\ ccall[r].id \in CommentIds /\ ccall[r].id < nextCommentId
  PROVE  CInv'
<1>1. /\ CommentTypeOK /\ CCarried(r)
      /\ UNCHANGED <<tickets, comments, nextCommentId>> /\ UNCHANGED <<ccall, written>>
  BY DEF CInv, AllCCarried, vars, tables, CGoto
<1>2. CommentTypeOK'
  <2>1. TypeOK'
    BY StutterStep DEF CInv, IInv
  <2> QED BY <1>1, <2>1 DEF CommentTypeOK, CGoto, CPlaces
<1>3. cpc'[r] = place /\ \A q \in CommentRequests \ {r} : cpc'[q] = cpc[q]
  BY <1>1 DEF CommentTypeOK, CGoto
<1>4. CCarried(r)'
  BY <1>1, <1>3 DEF CCarried, Granted, OnTicket, CanModify
<1>5. CRoomLeft'
  <2>1. Writing' \subseteq Writing
    BY <1>1, <1>3 DEF Writing
  <2> QED BY <1>1, <2>1, CRoomFrame
<1> QED BY <1>1, <1>2, <1>3, <1>4, <1>5, CMoveStep

\* The ticket is looked up (findTicketOr404).
LEMMA FindTicketStep ==
  ASSUME CInv, NEW r \in CommentRequests, findTicketOr404(r) PROVE CInv'
<1>1. /\ cpc[r] = "ticket" /\ written[r] = Null /\ ccall[r] \in CommentCall
      /\ UNCHANGED <<vars, told>> /\ told \subseteq CommentIds
  BY DEF CInv, AllCCarried, CCarried, findTicketOr404, CommentTypeOK
<1>2. CASE CFail(r, "OutOfRange") \/ CFail(r, "NotFound")
  <2>1. PICK status \in Replies : CRespond(r, status)
    BY <1>2, CFailEffect
  <2> QED BY <1>1, <2>1, CQuietAnswer
<1>3. CASE CGoto(r, IF ccall[r].op \in {"list", "create"} THEN ccall[r].op ELSE "comment")
  <2>1. CASE ccall[r].op \in {"list", "create"}
    BY <1>1, <1>3, <2>1, CGotoStep DEF CPlaces
  <2>2. CASE ccall[r].op \notin {"list", "create"}
    <3>1. ccall[r].op \in {"get", "patch", "delete"}
      BY <1>1, <2>2 DEF CommentCall
    <3> QED BY <1>1, <1>3, <2>2, <3>1, CGotoStep DEF CPlaces
  <2> QED BY <2>1, <2>2
<1> QED BY <1>2, <1>3 DEF findTicketOr404

\* The comments of the ticket are listed (getCommentsByTicketId).
LEMMA ListStep ==
  ASSUME CInv, NEW r \in CommentRequests, getCommentsByTicketId(r) PROVE CInv'
<1>1. /\ cpc[r] = "list" /\ written[r] = Null /\ CRespond(r, 200)
      /\ UNCHANGED <<vars, told>> /\ told \subseteq CommentIds /\ 200 \in Replies
  BY DEF CInv, AllCCarried, CCarried, getCommentsByTicketId, CommentTypeOK, Replies
<1> QED BY <1>1, CQuietAnswer

\* The comment is found on its ticket and may be modified (findCommentOr404).
LEMMA FindCommentStep ==
  ASSUME CInv, NEW r \in CommentRequests, findCommentOr404(r) PROVE CInv'
<1>1. /\ cpc[r] = "comment" /\ written[r] = Null /\ ccall[r].op \in {"get", "patch", "delete"}
      /\ UNCHANGED <<vars, told>> /\ told \subseteq CommentIds /\ 200 \in Replies
      /\ \A id \in DOMAIN comments : id \in CommentIds /\ id < nextCommentId
  BY DEF CInv, AllCCarried, CCarried, findCommentOr404, CommentTypeOK, Replies,
         TypeOK, StoreTypeOK, IsTable
<1>2. CASE \E status \in Replies : CRespond(r, status)
  BY <1>1, <1>2, CQuietAnswer
<1>3. CASE /\ OnTicket(ccall[r].ticketId, ccall[r].id) /\ ccall[r].op # "get"
           /\ CanModify(ccall[r].id, ccall[r].viewer) /\ CGoto(r, ccall[r].op)
  BY <1>1, <1>3, CGotoStep DEF CPlaces, Granted, OnTicket
<1> QED BY <1>1, <1>2, <1>3, CFailEffect DEF findCommentOr404

\* An update or delete answered, done or refused (EditRow, RemoveRow).
LEMMA ChangeStep ==
  ASSUME CInv, NEW r \in CommentRequests, EditRow(r) \/ RemoveRow(r) PROVE CInv'
<1>1. /\ cpc[r] \in {"patch", "delete"} /\ written[r] = Null
      /\ UNCHANGED <<tickets, nextTicketId, requestVars, crashes, faults, ghosts, told>>
      /\ told \subseteq CommentIds /\ {200, 204} \subseteq Replies
      /\ faults \in 0..MaxFaults /\ faults \in Int /\ crashes \in 0..MaxCrashes
      /\ Null \notin DOMAIN comments
  BY CommentCallAssumption
  DEF CInv, AllCCarried, CCarried, EditRow, RemoveRow, CommentTypeOK, Replies, mishaps,
      TypeOK, StoreTypeOK, IsTable
<1>2. \E status \in Replies : CRespond(r, status)
  BY <1>1, CFailEffect DEF EditRow, RemoveRow, Refused
<1>3. CASE UNCHANGED <<comments, nextCommentId>>
  <2>1. StatementKeeps /\ DOMAIN comments' = DOMAIN comments
    BY <1>1, <1>3, NoStatement DEF tables
  <2> QED BY <1>1, <1>2, <1>3, <2>1, CAnswerStep
<1>4. CASE UpdateCommits(r) \/ DeleteRowCommits(r)
  <2>1. ~InsertCommits(r)
    BY <1>1 DEF InsertCommits
  <2>2. /\ StatementKeeps /\ UNCHANGED nextCommentId
        /\ DOMAIN comments' \subseteq DOMAIN comments
    BY <1>1, <1>4, <2>1, Statement
  <2> QED BY <1>1, <1>2, <2>2, CAnswerStep
<1> QED BY <1>3, <1>4 DEF EditRow, RemoveRow, Refused

\* A comment is inserted, or its insert is refused (InsertComment).
LEMMA InsertStep ==
  ASSUME CInv, NEW r \in CommentRequests, InsertComment(r) PROVE CInv'
<1>1. /\ cpc[r] = "create" /\ written[r] = Null /\ ccall[r].op = "create"
      /\ UNCHANGED <<tickets, nextTicketId, requestVars, crashes, faults, ghosts, told>>
      /\ told \subseteq CommentIds /\ CommentTypeOK
      /\ faults \in 0..MaxFaults /\ faults \in Int /\ crashes \in 0..MaxCrashes
      /\ Null \notin DOMAIN comments
  BY CommentCallAssumption
  DEF CInv, AllCCarried, CCarried, InsertComment, CommentTypeOK, mishaps,
      TypeOK, StoreTypeOK, IsTable
<1>2. CASE \E err \in {"P2000", "P2003"} : Refused(r, err)
  <2>1. UNCHANGED <<comments, nextCommentId>> /\ \E status \in Replies : CRespond(r, status)
    BY <1>2, CFailEffect DEF Refused
  <2>2. StatementKeeps /\ DOMAIN comments' = DOMAIN comments
    BY <1>1, <2>1, NoStatement DEF tables
  <2> QED BY <1>1, <2>1, <2>2, CAnswerStep
<1>3. CASE /\ InsertCommits(r)
           /\ written' = [written EXCEPT ![r] = nextCommentId]
           /\ cpc' = [cpc EXCEPT ![r] = "watchers"]
           /\ UNCHANGED <<ccall, recipients, creply>>
  <2>1. /\ StatementKeeps /\ nextCommentId' = nextCommentId + 1
        /\ nextCommentId \in CommentIds
        /\ DOMAIN comments' = DOMAIN comments \cup {nextCommentId}
        /\ comments'[nextCommentId].ticketId = ccall[r].ticketId
    <3>1. faults' \in 0..MaxFaults /\ faults <= faults'
      BY <1>1
    <3>2. InsertCommits(r)
      BY <1>3
    <3> QED BY <1>1, <3>1, <3>2, Statement
  <2>2. /\ cpc'[r] = "watchers" /\ written'[r] = nextCommentId
        /\ \A q \in CommentRequests \ {r} : cpc'[q] = cpc[q] /\ written'[q] = written[q]
    BY <1>1, <1>3 DEF CommentTypeOK
  <2>3. CommentTypeOK'
    BY <1>1, <1>3, <2>1 DEF CommentTypeOK, StatementKeeps, IInv
  <2>4. AllCCarried'
    <3> SUFFICES ASSUME NEW q \in CommentRequests PROVE CCarried(q)'
      BY DEF AllCCarried
    <3>1. CASE q = r
      <4>1. nextCommentId < nextCommentId'
        BY <2>1 DEF CommentIds
      <4>2. nextCommentId # Null
        BY <2>1, CommentCallAssumption
      <4>3. /\ ccall'[r] = ccall[r] /\ ccall[r] \in CommentCall
            /\ ccall[r].id = Null <=> ccall[r].op \in {"list", "create"}
        BY <1>1, <1>3 DEF CInv, AllCCarried, CCarried
      <4>4. OnTicket(ccall[r].ticketId, written[r])'
        BY <2>1, <2>2, <4>3 DEF OnTicket
      <4> QED BY <1>1, <2>2, <3>1, <4>1, <4>2, <4>3, <4>4 DEF CCarried
    <3>2. CASE q # r
      BY <1>1, <1>3, <2>1, <2>2, <3>2, CCarriedFrame DEF CInv, AllCCarried, StatementKeeps
    <3> QED BY <3>1, <3>2
  <2>5. CRoomLeft'
    <3>1. r \in Writing /\ Writing' = Writing \ {r}
      BY <1>1, <1>3, <2>2 DEF Writing
    <3> QED BY <2>1, <3>1, CRoomTaken
  <2>6. EveryCommentTold'
    <3>1. Announced
      BY <1>1, <2>1, <2>2 DEF Announced
    <3>2. crashes' \in Nat
      BY <1>1, CallAssumption
    <3> QED BY <1>1, <2>1, <3>1, <3>2, AnnouncedStep DEF StatementKeeps
  <2> QED BY <2>1, <2>3, <2>4, <2>5, <2>6 DEF CInv, StatementKeeps
<1> QED BY <1>2, <1>3 DEF InsertComment

\* The ticket of a comment just written is read again for its watchers: if it
\* is gone, so is the comment (ResolveWatchers).
LEMMA WatchersStep ==
  ASSUME CInv, NEW r \in CommentRequests, ResolveWatchers(r) PROVE CInv'
<1>1. /\ cpc[r] = "watchers" /\ written[r] \in CommentIds /\ UNCHANGED vars
      /\ CommentTypeOK /\ CCarried(r)
      /\ told \subseteq CommentIds /\ 201 \in Replies
  BY DEF CInv, AllCCarried, CCarried, ResolveWatchers, CommentTypeOK, Replies
<1>2. CASE ccall[r].ticketId \notin DOMAIN tickets /\ CRespond(r, 201) /\ UNCHANGED told
  <2>1. written[r] \notin DOMAIN comments
    BY <1>1, <1>2, CommentCallAssumption DEF CInv, CCarried, NoOrphanComments, OnTicket
  <2> QED BY <1>1, <1>2, <2>1, CQuietAnswer
<1>3. CASE told' = told \cup {written[r]} /\ CRespond(r, 201)
  BY <1>1, <1>3, CQuietAnswer
<1>4. CASE /\ recipients' = [recipients EXCEPT ![r] = Recipients(ccall[r].ticketId, ccall[r].viewer)]
           /\ cpc' = [cpc EXCEPT ![r] = "users"] /\ ccall[r].ticketId \in DOMAIN tickets
           /\ UNCHANGED <<ccall, written, creply, told>>
  <2>1. Recipients(ccall[r].ticketId, ccall[r].viewer) \subseteq User
    BY <1>1, <1>4 DEF Recipients, CommentTypeOK, TypeOK, StoreTypeOK, IsTable, Ticket
  <2>2. TypeOK'
    BY <1>1, StutterStep DEF CInv, IInv
  <2>3. CommentTypeOK'
    BY <1>1, <1>4, <2>1, <2>2 DEF CommentTypeOK
  <2>4. cpc'[r] = "users" /\ \A q \in CommentRequests \ {r} : cpc'[q] = cpc[q]
    BY <1>1, <1>4 DEF CommentTypeOK
  <2>5. CCarried(r)'
    BY <1>1, <1>4, <2>4 DEF CCarried, OnTicket, vars, tables
  <2>6. CRoomLeft'
    <3>1. Writing' \subseteq Writing /\ UNCHANGED nextCommentId
      BY <1>1, <1>4, <2>4 DEF Writing, vars, tables
    <3> QED BY <3>1, CRoomFrame
  <2> QED BY <1>1, <1>4, <2>3, <2>4, <2>5, <2>6, CMoveStep
<1> QED BY <1>2, <1>3, <1>4 DEF ResolveWatchers, Caught

\* The event goes out (EmitCommented).
LEMMA EmitCommentedStep ==
  ASSUME CInv, NEW r \in CommentRequests, EmitCommented(r) PROVE CInv'
<1>1. /\ written[r] \in CommentIds /\ UNCHANGED vars /\ told \subseteq CommentIds
      /\ 201 \in Replies /\ CRespond(r, 201) /\ told' = told \cup {written[r]}
  BY DEF CInv, AllCCarried, CCarried, EmitCommented, CommentTypeOK, Replies
<1> QED BY <1>1, CQuietAnswer

\* A call fails, its write done or not (CQueryFails).
LEMMA CQueryFailsStep ==
  ASSUME CInv, NEW r \in CommentRequests, CQueryFails(r) PROVE CInv'
<1>1. /\ UNCHANGED <<tickets, nextTicketId, requestVars, crashes, ghosts, told>>
      /\ told \subseteq CommentIds /\ 201 \in Replies
      /\ faults' \in 0..MaxFaults /\ faults <= faults' /\ crashes \in 0..MaxCrashes
      /\ Mishap'
  BY CallAssumption, SeedAssumption
  DEF CInv, CQueryFails, DatabaseFails, CommentTypeOK, Replies, TypeOK, StoreTypeOK, Mishap
<1>2. \E status \in Replies : CRespond(r, status)
  BY <1>1, CFailEffect DEF CQueryFails, Caught
<1>3. CASE UNCHANGED <<comments, nextCommentId>>
  <2>1. StatementKeeps
    BY <1>1, <1>3, NoStatement DEF tables
  <2> QED BY <1>1, <1>2, <1>3, <2>1, CAnswerStep
<1>4. CASE UpdateCommits(r) \/ DeleteRowCommits(r) \/ InsertCommits(r)
  <2>1. /\ StatementKeeps
        /\ \/ UNCHANGED nextCommentId
           \/ InsertCommits(r) /\ nextCommentId' = nextCommentId + 1
    BY <1>1, <1>4, Statement
  <2>2. \/ UNCHANGED nextCommentId
        \/ nextCommentId' = nextCommentId + 1 /\ cpc[r] = "create"
    BY <2>1 DEF InsertCommits
  <2> QED BY <1>1, <1>2, <2>1, <2>2, CAnswerStep
<1> QED BY <1>3, <1>4 DEF CQueryFails

\* Crashes and failures are never forgotten (Crash, QueryFails).
LEMMA MishapsGrow ==
  ASSUME TypeOK, [Next]_vars
  PROVE  crashes <= crashes' /\ faults <= faults' /\ (Crash => crashes' = crashes + 1)
<1>1. crashes \in Int /\ faults \in Int
  BY CallAssumption DEF TypeOK, StoreTypeOK
<1>2. ASSUME NEW r \in Requests, Receive(r) \/ Step(r) \/ QueryFails(r) \/ UNCHANGED vars
      PROVE  UNCHANGED crashes /\ faults' \in {faults, faults + 1}
  BY <1>2 DEF Receive, Step, Lookup, CreateRow, PatchRow, Emit, DeleteRow, QueryFails,
              DatabaseFails, mishaps, vars
<1>3. CASE Crash
  BY <1>1, <1>3 DEF Crash
<1>4. CASE ~Crash
  BY <1>1, <1>2, <1>4 DEF Next, mishaps, vars
<1> QED BY <1>3, <1>4

\* A step of the ticket endpoints leaves comments alone, and takes no ticket
\* from under one.
LEMMA TicketSide ==
  ASSUME CInv, [Next]_vars
  PROVE  /\ IInv' /\ TypeOK' /\ UNCHANGED <<comments, nextCommentId>>
         /\ CommentsKept /\ NoOrphanComments'
         /\ crashes <= crashes' /\ faults <= faults'
<1>1. IInv /\ TypeOK /\ IInv'
  BY NextInv DEF CInv, IInv
<1>2. /\ UNCHANGED <<comments, nextCommentId>>
      /\ \A id \in DOMAIN tickets \ DOMAIN tickets' : ~HasDependents(id)
  BY <1>1, TableStep
<1>3. NoOrphanComments'
  BY <1>2 DEF CInv, NoOrphanComments, HasDependents
<1> QED BY <1>1, <1>2, <1>3, MishapsGrow DEF IInv, CommentsKept

LEMMA TicketRequestStep ==
  ASSUME CInv, [Next]_vars, UNCHANGED <<commentVars, told>>
  PROVE  CInv'
<1>1. UNCHANGED <<cpc, ccall, written, recipients, creply, told, comments, nextCommentId>>
  BY TicketSide DEF commentVars
<1>2. CommentTypeOK'
  BY <1>1, TicketSide DEF CInv, CommentTypeOK
<1>3. AllCCarried'
  BY <1>1, TicketSide, CCarriedFrame DEF CInv, AllCCarried
<1>4. CRoomLeft'
  BY <1>1 DEF CInv, CRoomLeft, Writing
<1>5. EveryCommentTold'
  <2>1. Announced
    BY <1>1 DEF Announced
  <2>2. crashes' \in Nat /\ StoreTypeOK'
    BY TicketSide, CallAssumption DEF TypeOK
  <2> QED BY <1>1, <2>1, <2>2, TicketSide, AnnouncedStep
<1> QED BY <1>2, <1>3, <1>4, <1>5, TicketSide DEF CInv

\* The process dies: no request is left, and comments may go unannounced.
LEMMA CrashAllStep == ASSUME CInv, CrashAll PROVE CInv'
<1>1. [Next]_vars /\ UNCHANGED told /\ Crash
  BY DEF CrashAll, Next
<1>2. CommentTypeOK'
  BY <1>1, TicketSide DEF CInv, CommentTypeOK, CrashAll, AllNull
<1>3. AllCCarried'
  BY DEF AllCCarried, CCarried, CrashAll, AllNull
<1>4. CRoomLeft'
  <2>1. Writing' \subseteq Writing
    BY DEF CrashAll, Writing
  <2> QED BY <1>1, <2>1, TicketSide, CRoomFrame
<1>5. EveryCommentTold'
  <2>1. crashes \in Nat /\ faults' \in Nat /\ crashes' = crashes + 1
    <3>1. TypeOK /\ TypeOK'
      BY <1>1, TicketSide DEF CInv, IInv
    <3> QED BY <1>1, <3>1, CallAssumption, SeedAssumption DEF TypeOK, StoreTypeOK, Crash
  <2>2. crashes' + faults' # 0
    <3>1. \A i, j \in Nat : (i + 1) + j # 0
      OBVIOUS
    <3> QED BY <2>1, <3>1
  <2> QED BY <2>2 DEF EveryCommentTold
<1> QED BY <1>1, <1>2, <1>3, <1>4, <1>5, TicketSide DEF CInv

\* Every step of the API process preserves the inductive invariant.
LEMMA CNextInv == ASSUME CInv, [CommentNext]_allVars PROVE CInv'
<1>1. ASSUME NEW r \in CommentRequests, CReceive(r) \/ CStep(r) \/ CQueryFails(r)
      PROVE  CInv'
  BY <1>1, CReceiveStep, FindTicketStep, ListStep, FindCommentStep, ChangeStep, InsertStep,
     WatchersStep, EmitCommentedStep, CQueryFailsStep DEF CStep
<1>2. ASSUME NEW r \in Requests, TicketRequest(r) PROVE CInv'
  <2>1. [Next]_vars /\ UNCHANGED <<commentVars, told>>
    BY <1>2 DEF TicketRequest, Next
  <2> QED BY <2>1, TicketRequestStep
<1>3. CASE CrashAll
  BY <1>3, CrashAllStep
<1>4. CASE UNCHANGED allVars
  BY <1>4, TicketRequestStep DEF allVars
<1> QED BY <1>1, <1>2, <1>3, <1>4 DEF CommentNext

LEMMA CInvariance == CommentSpec => []CInv
BY CInitInv, CNextInv, PTL DEF CommentSpec

\* Every variable of the comment endpoints keeps to its type: a create has an
\* id left to take, a request in flight carries a call (comment.routes.js).
THEOREM CommentTypeCorrect == CommentSpec => []CommentTypeOK
<1>1. CInv => CommentTypeOK
  BY DEF CInv
<1> QED BY <1>1, CInvariance, PTL

\* No interleaving of comments and ticket deletes leaves a comment without its
\* ticket (the RESTRICT foreign key of Comment).
THEOREM NoOrphans == CommentSpec => []NoOrphanComments
<1>1. CInv => NoOrphanComments
  BY DEF CInv
<1> QED BY <1>1, CInvariance, PTL

\* Without a failure or a crash, no comment goes unannounced: not even when its
\* ticket is deleted while the recipients are looked up (createComment).
THEOREM CommentsTold == CommentSpec => []EveryCommentTold
<1>1. CInv => EveryCommentTold
  BY DEF CInv
<1> QED BY <1>1, CInvariance, PTL
-----------------------------------------------------------------------------
\* How a comment may change, as CommentChangesAuthorized demands.
CommentKept(id) == id \in DOMAIN comments' /\ comments'[id] = comments[id]
CommentChanged(id) ==
  /\ id \in DOMAIN comments' => comments'[id] = [comments[id] EXCEPT !.edited = TRUE]
  /\ \E r \in CommentRequests :
       /\ ccall[r] # Null /\ ccall[r].id = id
       /\ ccall[r].ticketId = comments[id].ticketId
       /\ ccall[r].viewer \in Admins \cup {comments[id].authorId}

\* A statement changes the comment of its call only, and the permission given
\* at the lookup still holds when it runs (assertCanModify).
LEMMA StatementAuthorized ==
  ASSUME CInv, NEW r \in CommentRequests,
         \/ UNCHANGED <<comments, nextCommentId>>
         \/ UpdateCommits(r) \/ DeleteRowCommits(r) \/ InsertCommits(r),
         NEW id \in DOMAIN comments
  PROVE  CommentKept(id) \/ CommentChanged(id)
<1>1. /\ CCarried(r) /\ CommentTypeOK /\ Null \notin CommentCall
      /\ id # nextCommentId
  BY CommentCallAssumption
  DEF CInv, AllCCarried, CommentTypeOK, TypeOK, StoreTypeOK, IsTable, CommentIds
<1>2. CASE UpdateCommits(r) \/ DeleteRowCommits(r)
  <2>1. CASE ccall[r].id = id
    <3>1. Granted(r) /\ cpc[r] \in {"patch", "delete"} /\ ccall[r] # Null
      BY <1>1, <1>2 DEF UpdateCommits, DeleteRowCommits, CCarried
    <3>2. /\ ccall[r].ticketId = comments[id].ticketId
          /\ ccall[r].viewer \in Admins \cup {comments[id].authorId}
      BY <2>1, <3>1 DEF Granted, OnTicket, CanModify
    <3>3. id \in DOMAIN comments' => comments'[id] = [comments[id] EXCEPT !.edited = TRUE]
      BY <1>2, <2>1 DEF UpdateCommits, DeleteRowCommits, Delete, Restrict
    <3> QED BY <2>1, <3>1, <3>2, <3>3 DEF CommentChanged
  <2>2. CASE ccall[r].id # id
    BY <1>2, <2>2 DEF UpdateCommits, DeleteRowCommits, Delete, Restrict, CommentKept
  <2> QED BY <2>1, <2>2
<1>3. CASE InsertCommits(r)
  BY <1>1, <1>3 DEF InsertCommits, Insert, CommentKept
<1>4. CASE UNCHANGED <<comments, nextCommentId>>
  BY <1>4 DEF CommentKept
<1> QED BY <1>2, <1>3, <1>4

\* What any step does to comments and to a create that has written one.
LEMMA CommentStepEffects ==
  ASSUME CInv, [CommentNext]_allVars
  PROVE  /\ \/ UNCHANGED comments
            \/ \E r \in CommentRequests :
                 UpdateCommits(r) \/ DeleteRowCommits(r) \/ InsertCommits(r)
         /\ \A r \in CommentRequests : written[r] # Null /\ written'[r] = Null =>
              creply'[r] \in {201, Null}
<1>1. CASE [Next]_vars /\ (UNCHANGED <<commentVars, told>> \/ CrashAll)
  BY <1>1, TicketSide DEF commentVars, CrashAll, AllNull
<1>2. ASSUME NEW r \in CommentRequests, CReceive(r) \/ CStep(r) \/ CQueryFails(r)
      PROVE  \/ UNCHANGED comments
             \/ UpdateCommits(r) \/ DeleteRowCommits(r) \/ InsertCommits(r)
  BY <1>2 DEF CReceive, CStep, findTicketOr404, getCommentsByTicketId, findCommentOr404,
              EditRow, RemoveRow, InsertComment, ResolveWatchers, EmitCommented,
              CQueryFails, Refused, vars, tables
<1>3. ASSUME NEW r \in CommentRequests, CReceive(r) \/ CStep(r) \/ CQueryFails(r),
             NEW q \in CommentRequests, written[q] # Null, written'[q] = Null
      PROVE  creply'[q] = 201
  <2>1. /\ written \in [CommentRequests -> CommentIds \cup {Null}]
        /\ creply \in [CommentRequests -> Replies]
        /\ \A p \in CommentRequests : written[p] # Null <=> cpc[p] \in {"watchers", "users"}
        /\ nextCommentId \in Int /\ Null \notin Nat
    BY CallAssumption
    DEF CInv, CommentTypeOK, AllCCarried, CCarried, Replies, TypeOK, StoreTypeOK
  <2>2. CASE CReceive(r)
    BY <1>3, <2>2 DEF CReceive
  <2>3. CASE ResolveWatchers(r) \/ EmitCommented(r)
    BY <1>3, <2>1, <2>3 DEF ResolveWatchers, EmitCommented, Caught, CRespond
  <2>4. CASE CQueryFails(r)
    BY <1>3, <2>1, <2>4 DEF CQueryFails, Caught, CFail, CRespond
  <2>5. CASE InsertComment(r)
    BY <1>3, <2>1, <2>5 DEF InsertComment, Refused, CFail, CRespond
  <2>6. CASE \/ findTicketOr404(r) \/ getCommentsByTicketId(r) \/ findCommentOr404(r)
             \/ EditRow(r) \/ RemoveRow(r)
    BY <1>3, <2>1, <2>6 DEF findTicketOr404, getCommentsByTicketId, findCommentOr404,
       EditRow, RemoveRow, Refused, CFail, CRespond, CGoto
  <2> QED BY <1>3, <2>2, <2>3, <2>4, <2>5, <2>6 DEF CStep
<1> QED BY <1>1, <1>2, <1>3
    DEF CommentNext, TicketRequest, CrashAll, Next, allVars

\* Only its author or an admin ever changes a comment, through its own ticket,
\* however long ago the request was let through (assertCanModify).
THEOREM CommentsAuthorized == CommentSpec => CommentChangesAuthorized
<1>1. ASSUME CInv, [CommentNext]_allVars
      PROVE  \A id \in DOMAIN comments : CommentKept(id) \/ CommentChanged(id)
  BY <1>1, CommentStepEffects, StatementAuthorized DEF CommentKept
<1>2. ASSUME CInv, [CommentNext]_allVars
      PROVE  \A id \in DOMAIN comments :
               \/ id \in DOMAIN comments' /\ comments'[id] = comments[id]
               \/ /\ id \in DOMAIN comments' =>
                       comments'[id] = [comments[id] EXCEPT !.edited = TRUE]
                  /\ \E r \in CommentRequests :
                       /\ ccall[r] # Null /\ ccall[r].id = id
                       /\ ccall[r].ticketId = comments[id].ticketId
                       /\ ccall[r].viewer \in Admins \cup {comments[id].authorId}
  BY <1>1, <1>2 DEF CommentKept, CommentChanged
<1> QED BY <1>2, CInvariance, PTL DEF CommentSpec, CommentChangesAuthorized

\* A create whose comment is committed is answered with a 201, whatever fails
\* afterwards (the try/catch of createComment).
THEOREM CreatedAnswered == CommentSpec => CommittedMeansCreated
<1>1. ASSUME CInv, [CommentNext]_allVars
      PROVE  \A r \in CommentRequests : written[r] # Null /\ written'[r] = Null =>
               creply'[r] \in {201, Null}
  BY <1>1, CommentStepEffects
<1> QED BY <1>1, CInvariance, PTL DEF CommentSpec, CommittedMeansCreated
=============================================================================
