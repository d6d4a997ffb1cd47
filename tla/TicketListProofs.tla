-------------------------- MODULE TicketListProofs --------------------------
(***************************************************************************)
(* Theorems about TicketList, for any number of clients, tickets, queries  *)
(* and requests: that a page and its total agree, and that a walk sorted   *)
(* by createdAt neither misses nor repeats a ticket, whatever is written   *)
(* between its pages that the list's own properties allow for.             *)
(***************************************************************************)
EXTENDS TicketList, TicketsProofs, SequenceTheorems

\* Where a ticket stands, or would stand, in the list a query asks for: the
\* number of wanted tickets that come before it.
Ahead(q, x) == {y \in Matching(q) : Before(q, y, x)}
Rank(q, x) == Cardinality(Ahead(q, x))

\* How many rows of the list the pages answered so far have taken.
Pages(c) == IF walk[c].at = "queries" /\ walk[c].found = Null
            THEN walk[c].page - 1 ELSE walk[c].page
Taken(c) == Pages(c) * walk[c].query.pageSize

\* The inductive invariant, in parts, each about one client.

\* What a client holds fits where it is.
Held(c) == walk[c].at # "idle" =>
  /\ walk[c].query \in ListQuery /\ walk[c].page >= 1
  /\ walk[c].at \in {"next", "done"} => BothAnswered(c)

\* As long as the wanted set is still, the half that is answered speaks of the
\* set the other half is going to see.
HalvesAgree(c) == walk[c].at = "queries" /\ history[c].still =>
  LET count == Cardinality(Matching(walk[c].query))
  IN /\ (walk[c].found # Null /\ walk[c].total = Null) =>
          (history[c].more <=> count > Taken(c))
     /\ (walk[c].found = Null /\ walk[c].total # Null) => walk[c].total = count
     /\ BothAnswered(c) => (history[c].more <=> walk[c].total > Taken(c))

SteadyIsStill(c) == Walking(c) /\ history[c].steady => history[c].still

\* The tickets a list can hold are those the walk began with or met since.
Met(c) == Walking(c) =>
  Matching(walk[c].query) \subseteq history[c].started \cup history[c].joined

Shown(c) == Range(history[c].shown)
OnceIn(s, x) == \A i, j \in DOMAIN s : s[i] = x /\ s[j] = x => i = j

\* A ticket that nothing moved down the list.
Settled(c, x) == Alone(c, x) /\ ~SomeBefore(c, history[c].joined, x)

\* A ticket shown, and not moved down, was shown once and stands among the rows
\* taken.
ShownFirst(c) == ByCreation(c) => \A x \in Shown(c) : Settled(c, x) =>
  /\ OnceIn(history[c].shown, x)
  /\ Walking(c) => Rank(walk[c].query, x) < Taken(c)

\* A ticket of the start, not moved up and not shown, is still wanted and stands
\* behind the rows taken; if no row followed the page, it was shown.
RestComes(c) == Walking(c) /\ ByCreation(c) =>
  \A x \in history[c].started : Stayed(c, x) =>
    /\ x \in Matching(walk[c].query)
    /\ x \in Shown(c) \/ Rank(walk[c].query, x) >= Taken(c)
    /\ (walk[c].found # Null /\ ~history[c].more) => x \in Shown(c)

\* A finished walk that was steady showed them all.
NoneMissed(c) ==
  (walk[c].at = "done" /\ ByCreation(c) /\ history[c].steady) =>
    \A x \in history[c].started : Stayed(c, x) => x \in Shown(c)

ClientOK(c) == /\ Held(c) /\ HalvesAgree(c) /\ SteadyIsStill(c) /\ Met(c)
               /\ ShownFirst(c) /\ RestComes(c) /\ NoneMissed(c)

LInv == IInv /\ ListTypeOK /\ \A c \in Readers : ClientOK(c)
-----------------------------------------------------------------------------
\* What rounding down leaves.
LEMMA Quotient ==
  ASSUME NEW x \in Int, NEW size \in Int, size > 0
  PROVE  (x \div size) * size <= x /\ x < (x \div size) * size + size
<1>1. (x \div size) * size <= x
  OBVIOUS
<1>2. x < (x \div size) * size + size
  OBVIOUS
<1> QED BY <1>1, <1>2

\* The meta's Math.ceil says that there is a next page exactly when rows are
\* left behind this one (totalPages).
LEMMA CeilOfPages ==
  ASSUME NEW q \in ListQuery, NEW page \in Nat, NEW total \in Nat
  PROVE  page >= totalPages(q, total) <=> ~(total > page * q.pageSize)
<1>1. PICK size \in 1..50 : size = q.pageSize
  BY DEF ListQuery
<1>2. PICK x \in Int : x = total + size - 1
  OBVIOUS
<1>3. PICK d \in Int : d = x \div size
  OBVIOUS
<1>4. d * size <= x /\ x < d * size + size
  <2>1. (x \div size) * size <= x /\ x < (x \div size) * size + size
    BY <1>1, Quotient
  <2> QED BY <2>1, <1>3
<1>5. page >= d => page * size >= d * size
  OBVIOUS
<1>6. page + 1 <= d => (page + 1) * size <= d * size
  OBVIOUS
<1>7. (page + 1) * size = page * size + size
  OBVIOUS
<1>8. PICK a \in Int, b \in Int : a = page * size /\ b = d * size
  OBVIOUS
<1>9. page >= d <=> ~(total > page * size)
  BY <1>2, <1>5, <1>6, <1>7, <1>8, <1>4
<1> QED BY <1>1, <1>2, <1>3, <1>9 DEF totalPages

\* A listing is the wanted tickets, each once (Listings).
LEMMA Listed ==
  ASSUME StoreTypeOK, NEW q, NEW listing \in Listings(q)
  PROVE  /\ IsFiniteSet(Matching(q)) /\ Matching(q) \subseteq TicketIds
         /\ Cardinality(Matching(q)) \in Nat
         /\ listing \in [1..Cardinality(Matching(q)) -> Matching(q)]
         /\ \A i, j \in 1..Cardinality(Matching(q)) : i # j => listing[i] # listing[j]
         /\ \A i, j \in 1..Cardinality(Matching(q)) :
              i < j => ~Before(q, listing[j], listing[i])
         /\ Len(listing) = Cardinality(Matching(q))
         /\ \A x \in Matching(q) : \E i \in 1..Cardinality(Matching(q)) : x = listing[i]
<1> DEFINE M == Matching(q)
           n == Cardinality(M)
<1>1. M \subseteq TicketIds
  BY DEF StoreTypeOK, IsTable, Matching
<1>2. IsFiniteSet(TicketIds)
  BY FS_Interval, SeedAssumption DEF TicketIds
<1>3. IsFiniteSet(M) /\ n \in Nat
  BY <1>1, <1>2, FS_Subset, FS_CardinalityType
<1>4. /\ listing \in [1..n -> M]
      /\ \A i, j \in 1..n : i # j => listing[i] # listing[j]
      /\ \A i, j \in 1..n : i < j => ~Before(q, listing[j], listing[i])
  BY DEF Listings, SetToSeqs
<1> HIDE DEF M, n
<1>5. Len(listing) = n
  BY <1>3, <1>4
<1>6. \A x \in M : \E i \in 1..n : x = listing[i]
  <2>1. listing \in Injection(1..n, M)
    BY <1>4, <1>3 DEF Injection, IsInjective
  <2>2. Cardinality(1..n) = n
    BY <1>3, FS_Interval
  <2>3. listing \in Surjection(1..n, M)
    BY <2>1, <2>2, <1>3, FS_Injection DEF n
  <2> QED BY <2>3 DEF Surjection
<1> QED BY <1>1, <1>3, <1>4, <1>5, <1>6 DEF M, n

\* Sorted by createdAt, tickets of two moments have one order (SortKey, Before).
LEMMA ByCreatedAt ==
  ASSUME createdAt \in [TicketIds -> Int], NEW q \in ListQuery, q.sortBy = "createdAt",
         NEW x \in TicketIds, NEW y \in TicketIds
  PROVE  /\ ~Before(q, x, x)
         /\ createdAt[x] # createdAt[y] => (Before(q, x, y) <=> ~Before(q, y, x))
<1>1. PICK a \in Int, b \in Int : a = createdAt[x] /\ b = createdAt[y]
  OBVIOUS
<1> QED BY <1>1 DEF Before, SortKey

\* Only tickets of the table stand before another (Matching).
LEMMA RankCounts ==
  ASSUME StoreTypeOK, NEW q, NEW x
  PROVE  IsFiniteSet(Ahead(q, x)) /\ Rank(q, x) \in Nat
<1>1. IsFiniteSet(TicketIds)
  BY FS_Interval, SeedAssumption DEF TicketIds
<1>2. Ahead(q, x) \in SUBSET TicketIds
  BY DEF StoreTypeOK, IsTable, Ahead, Matching
<1>3. IsFiniteSet(Ahead(q, x))
  BY <1>1, <1>2, FS_Subset
<1> QED BY <1>3, FS_CardinalityType DEF Rank

\* Whether no other wanted ticket was created in the same millisecond.
AloneIn(S, x) == \A y \in S : y # x => createdAt[y] # createdAt[x]

\* Sorted by createdAt, i - 1 rows stand before the i-th of a listing, if its
\* createdAt is its own.
LEMMA SortedRank ==
  ASSUME StoreTypeOK, createdAt \in [TicketIds -> Int],
         NEW q \in ListQuery, q.sortBy = "createdAt",
         NEW listing \in Listings(q), NEW i \in 1..Cardinality(Matching(q)),
         AloneIn(Matching(q), listing[i])
  PROVE  Rank(q, listing[i]) = i - 1
<1> DEFINE M == Matching(q)
           n == Cardinality(M)
           first == [j \in 1..(i - 1) |-> listing[j]]
<1>1. /\ IsFiniteSet(M) /\ M \subseteq TicketIds /\ n \in Nat
      /\ listing \in [1..n -> M]
      /\ \A k, j \in 1..n : k # j => listing[k] # listing[j]
      /\ \A k, j \in 1..n : k < j => ~Before(q, listing[j], listing[k])
      /\ \A x \in M : \E k \in 1..n : x = listing[k]
  BY Listed
<1> HIDE DEF n
<1>2. \A j \in 1..n : listing[j] \in Ahead(q, listing[i]) <=> j < i
  <2> SUFFICES ASSUME NEW j \in 1..n
               PROVE  listing[j] \in Ahead(q, listing[i]) <=> j < i
    OBVIOUS
  <2>1. listing[j] \in M /\ listing[j] \in TicketIds /\ listing[i] \in TicketIds /\ i \in 1..n
    BY <1>1 DEF n
  <2>2. listing[j] \in Ahead(q, listing[i]) <=> Before(q, listing[j], listing[i])
    BY <2>1 DEF Ahead
  <2>3. CASE j < i
    <3>1. ~Before(q, listing[i], listing[j]) /\ listing[i] # listing[j]
      BY <2>1, <2>3, <1>1
    <3>2. createdAt[listing[j]] # createdAt[listing[i]]
      BY <2>1, <3>1 DEF AloneIn
    <3> QED BY <2>1, <2>2, <2>3, <3>1, <3>2, ByCreatedAt
  <2>4. CASE j = i
    <3>1. ~Before(q, listing[i], listing[i])
      BY <2>1, ByCreatedAt
    <3> QED BY <2>2, <2>4, <3>1
  <2>5. CASE j > i
    <3>1. ~Before(q, listing[j], listing[i])
      BY <2>1, <2>5, <1>1
    <3> QED BY <2>2, <2>5, <3>1
  <2> QED BY <2>1, <2>3, <2>4, <2>5, <1>1
<1>3. i \in Int /\ i >= 1 /\ i <= n /\ n \in Nat
  BY <1>1 DEF n
<1>4. first \in Injection(1..(i - 1), Ahead(q, listing[i]))
  <2>1. \A j \in 1..(i - 1) : j \in 1..n /\ j < i
    BY <1>3
  <2>2. first \in [1..(i - 1) -> Ahead(q, listing[i])]
    BY <1>2, <2>1
  <2>3. \A a, b \in 1..(i - 1) : first[a] = first[b] => a = b
    BY <1>1, <2>1
  <2> QED BY <2>2, <2>3 DEF Injection, IsInjective
<1>5. first \in Surjection(1..(i - 1), Ahead(q, listing[i]))
  <2>1. \A y \in Ahead(q, listing[i]) : \E j \in 1..(i - 1) : first[j] = y
    <3> SUFFICES ASSUME NEW y \in Ahead(q, listing[i])
                 PROVE  \E j \in 1..(i - 1) : first[j] = y
      OBVIOUS
    <3>1. PICK k \in 1..n : y = listing[k]
      BY <1>1 DEF Ahead
    <3>2. k \in 1..(i - 1)
      BY <1>2, <1>3, <3>1
    <3> QED BY <3>1, <3>2
  <2> QED BY <1>4, <2>1 DEF Injection, Surjection
<1>6. Cardinality(1..(i - 1)) = i - 1 /\ IsFiniteSet(1..(i - 1))
  BY FS_Interval, <1>3
<1>7. Cardinality(Ahead(q, listing[i])) = Cardinality(1..(i - 1))
  BY <1>4, <1>5, <1>6, FS_Surjection
<1> QED BY <1>6, <1>7 DEF Rank

\* What skip and take cut out: the rows of the listing behind those skipped, a
\* page of them at most (PageOf).
LEMMA PageRows ==
  ASSUME StoreTypeOK, NEW q \in ListQuery, NEW page \in Nat, page >= 1,
         NEW listing \in Listings(q)
  PROVE  LET n == Cardinality(Matching(q))
             rows == PageOf(q, page, listing)
             skip == (page - 1) * q.pageSize
         IN /\ rows \in Seq(TicketIds) /\ DOMAIN rows = 1..Len(rows)
            /\ skip \in Nat /\ Len(rows) \in Nat
            /\ skip + q.pageSize = page * q.pageSize
            /\ \A i \in 1..Len(rows) :
                 /\ skip + i \in 1..n /\ skip + i <= skip + q.pageSize
                 /\ rows[i] = listing[skip + i]
            /\ \A i \in 1..n : skip < i /\ i <= skip + q.pageSize =>
                 i - skip \in 1..Len(rows)
<1> DEFINE n == Cardinality(Matching(q))
           rows == PageOf(q, page, listing)
<1>1. PICK size \in 1..50 : size = q.pageSize
  BY DEF ListQuery
<1>2. (page - 1) * size \in Int /\ (page - 1) * size >= 0
  OBVIOUS
<1>3. (page - 1) * size + size = page * size
  OBVIOUS
<1>4. PICK skip \in Nat : skip = (page - 1) * size
  BY <1>2
<1>5. /\ n \in Nat /\ listing \in [1..n -> TicketIds] /\ Len(listing) = n
  BY Listed
<1> HIDE DEF n
<1>6. PICK end \in Nat : end = IF skip + size < n THEN skip + size ELSE n
  BY <1>5
<1>7. rows = SubSeq(listing, skip + 1, end)
  BY <1>1, <1>4, <1>5, <1>6 DEF PageOf, Skip
<1>8. \A i \in (skip + 1)..end : listing[i] \in TicketIds
  BY <1>5, <1>6
<1> HIDE DEF rows
<1>9. /\ rows \in Seq(TicketIds)
      /\ Len(rows) = IF skip + 1 <= end THEN end - skip ELSE 0
      /\ \A i \in 1..(end - skip) : rows[i] = listing[skip + i]
  <2>1. /\ rows \in Seq(TicketIds)
        /\ Len(rows) = IF skip + 1 <= end THEN end - (skip + 1) + 1 ELSE 0
        /\ \A i \in 1..(end - (skip + 1) + 1) : rows[i] = listing[(skip + 1) + i - 1]
    BY <1>7, <1>8, SubSeqProperties
  <2>2. end - (skip + 1) + 1 = end - skip /\ \A i \in Int : (skip + 1) + i - 1 = skip + i
    OBVIOUS
  <2> QED BY <2>1, <2>2
<1>10. DOMAIN rows = 1..Len(rows) /\ Len(rows) \in Nat
  BY <1>9
<1>11. \A i \in 1..Len(rows) : /\ skip + i \in 1..n /\ skip + i <= skip + size
                               /\ rows[i] = listing[skip + i]
  BY <1>5, <1>6, <1>9
<1>12. \A i \in 1..n : skip < i /\ i <= skip + size => i - skip \in 1..Len(rows)
  BY <1>5, <1>6, <1>9
<1> QED BY <1>1, <1>3, <1>4, <1>9, <1>10, <1>11, <1>12 DEF n, rows

\* Sorted by createdAt, a page shows different tickets; one whose createdAt is
\* its own is shown exactly if the rows before it reach into the page.
LEMMA PageRanks ==
  ASSUME StoreTypeOK, createdAt \in [TicketIds -> Int],
         NEW q \in ListQuery, q.sortBy = "createdAt",
         NEW page \in Nat, page >= 1, NEW listing \in Listings(q)
  PROVE  LET rows == PageOf(q, page, listing)
             skip == (page - 1) * q.pageSize
         IN /\ \A x : OnceIn(rows, x)
            /\ \A x \in Matching(q) : AloneIn(Matching(q), x) =>
                 /\ x \in Range(rows) => skip <= Rank(q, x) /\ Rank(q, x) < page * q.pageSize
                 /\ \/ Rank(q, x) < skip \/ x \in Range(rows)
                    \/ Rank(q, x) >= page * q.pageSize
                 /\ Rank(q, x) \in Nat /\ Rank(q, x) < Len(listing)
<1> DEFINE n == Cardinality(Matching(q))
           rows == PageOf(q, page, listing)
           skip == (page - 1) * q.pageSize
<1>1. /\ DOMAIN rows = 1..Len(rows) /\ skip \in Nat /\ Len(rows) \in Nat
      /\ skip + q.pageSize = page * q.pageSize
      /\ \A i \in 1..Len(rows) : /\ skip + i \in 1..n /\ skip + i <= skip + q.pageSize
                                 /\ rows[i] = listing[skip + i]
      /\ \A i \in 1..n : skip < i /\ i <= skip + q.pageSize => i - skip \in 1..Len(rows)
  BY PageRows
<1>2. /\ n \in Nat /\ Len(listing) = n
      /\ \A i, j \in 1..n : i # j => listing[i] # listing[j]
      /\ \A x \in Matching(q) : \E i \in 1..n : x = listing[i]
  BY Listed
<1>3. \A i \in 1..n : AloneIn(Matching(q), listing[i]) => Rank(q, listing[i]) = i - 1
  BY SortedRank
<1>4. q.pageSize \in 1..50
  BY DEF ListQuery
<1>5. PICK size \in 1..50, k \in Nat, total \in Nat :
        size = q.pageSize /\ k = skip /\ total = page * q.pageSize
  <2> HIDE DEF skip
  <2>1. skip \in Nat /\ skip + q.pageSize = page * q.pageSize
    BY <1>1
  <2>2. skip + q.pageSize \in Nat
    BY <2>1, <1>4
  <2> QED BY <2>1, <2>2, <1>4
<1> HIDE DEF n, rows, skip
<1>6. \A i \in 1..Len(rows) : k + i \in 1..n /\ k + i <= total /\ rows[i] = listing[k + i]
  BY <1>1, <1>5
<1>7. \A i \in 1..n : k < i /\ i <= total => i - k \in 1..Len(rows)
  BY <1>1, <1>5
<1>8. \A x : OnceIn(rows, x)
  <2> SUFFICES ASSUME NEW a \in 1..Len(rows), NEW b \in 1..Len(rows), rows[a] = rows[b]
               PROVE  a = b
    BY <1>1 DEF OnceIn
  <2>1. k + a = k + b
    BY <1>2, <1>6
  <2> QED BY <2>1
<1>9. ASSUME NEW x \in Matching(q), AloneIn(Matching(q), x)
      PROVE  /\ x \in Range(rows) => k <= Rank(q, x) /\ Rank(q, x) < total
             /\ Rank(q, x) < k \/ x \in Range(rows) \/ Rank(q, x) >= total
             /\ Rank(q, x) \in Nat /\ Rank(q, x) < Len(listing)
  <2>1. PICK i \in 1..n : x = listing[i]
    BY <1>2
  <2>2. Rank(q, x) = i - 1 /\ i \in Int /\ i >= 1 /\ i <= n
    BY <1>2, <1>3, <1>9, <2>1
  <2>3. ASSUME x \in Range(rows) PROVE k < i /\ i <= total
    <3>1. PICK a \in 1..Len(rows) : x = rows[a]
      BY <1>1, <2>3 DEF Range
    <3>2. x = listing[k + a] /\ k + a \in 1..n /\ k + a <= total
      BY <1>6, <3>1
    <3>3. i = k + a
      BY <1>2, <2>1, <3>2
    <3> QED BY <3>2, <3>3
  <2>4. ASSUME k < i, i <= total PROVE x \in Range(rows)
    <3>1. i - k \in 1..Len(rows) /\ k + (i - k) = i
      BY <1>7, <2>4
    <3>2. rows[i - k] = listing[i]
      BY <3>1, <1>6
    <3> QED BY <2>1, <3>1, <3>2, <1>1 DEF Range
  <2>5. x \in Range(rows) => k <= Rank(q, x) /\ Rank(q, x) < total
    BY <2>2, <2>3
  <2>6. Rank(q, x) < k \/ x \in Range(rows) \/ Rank(q, x) >= total
    BY <2>2, <2>4
  <2> QED BY <1>2, <2>2, <2>5, <2>6
<1> QED BY <1>5, <1>8, <1>9 DEF rows, skip
-----------------------------------------------------------------------------
\* What the types say of one client.
LEMMA Fields ==
  ASSUME ListTypeOK, NEW c \in Readers
  PROVE  /\ walk[c] \in Walk /\ history[c] \in History
         /\ createdAt \in [TicketIds -> Int]
         /\ walk[c].page \in Nat /\ walk[c].total \in Nat \cup {Null}
         /\ walk[c].found \in Seq(TicketIds) \cup {Null}
         /\ history[c].shown \in Seq(TicketIds) /\ history[c].started \subseteq TicketIds
BY DEF ListTypeOK, Walk, History

\* What a client is shown are ids of tickets.
LEMMA ShownIds == ASSUME NEW s \in Seq(TicketIds) PROVE Range(s) \subseteq TicketIds
<1>1. DOMAIN s = 1..Len(s) /\ \A i \in 1..Len(s) : s[i] \in TicketIds
  BY ElementOfSeq, LenProperties
<1> QED BY <1>1 DEF Range

\* How far a walk has come is a number.
LEMMA TakenCounts ==
  ASSUME ListTypeOK, NEW c \in Readers, walk[c].query \in ListQuery
  PROVE  Taken(c) \in Int
<1>1. walk[c].page \in Nat
  BY Fields
<1>2. Pages(c) \in Int
  BY <1>1 DEF Pages
<1>3. walk[c].query.pageSize \in Int
  BY DEF ListQuery
<1> QED BY <1>2, <1>3 DEF Taken

\* The tickets of two runs of pages.
LEMMA ConcatRange ==
  ASSUME NEW s \in Seq(TicketIds), NEW t \in Seq(TicketIds)
  PROVE  /\ Range(s \o t) = Range(s) \cup Range(t)
         /\ \A x : (OnceIn(s, x) /\ x \notin Range(t)) => OnceIn(s \o t, x)
         /\ \A x : (x \notin Range(s) /\ OnceIn(t, x)) => OnceIn(s \o t, x)
<1>1. /\ s \o t \in Seq(TicketIds) /\ Len(s) \in Nat /\ Len(t) \in Nat
      /\ Len(s \o t) = Len(s) + Len(t)
      /\ DOMAIN s = 1..Len(s) /\ DOMAIN t = 1..Len(t)
      /\ DOMAIN (s \o t) = 1..(Len(s) + Len(t))
  BY ConcatProperties, LenProperties
<1>2. \A i \in 1..(Len(s) + Len(t)) :
        (s \o t)[i] = IF i <= Len(s) THEN s[i] ELSE t[i - Len(s)]
  BY ConcatProperties
<1>3. PICK u : u = s \o t
  OBVIOUS
<1>4. PICK m \in Nat, n \in Nat : m = Len(s) /\ n = Len(t)
  BY <1>1
<1>5. /\ DOMAIN u = 1..(m + n) /\ DOMAIN s = 1..m /\ DOMAIN t = 1..n
      /\ \A i \in 1..m : u[i] = s[i]
      /\ \A i \in 1..n : u[m + i] = t[i]
      /\ \A i \in (m + 1)..(m + n) : i - m \in 1..n /\ u[i] = t[i - m]
  <2>1. \A i \in 1..n : m + i \in 1..(m + n) /\ ~(m + i <= m) /\ (m + i) - m = i
    OBVIOUS
  <2> QED BY <2>1, <1>1, <1>2, <1>3, <1>4
<1>6. Range(u) = Range(s) \cup Range(t)
  <2>1. ASSUME NEW x \in Range(u) PROVE x \in Range(s) \cup Range(t)
    <3>1. PICK i \in 1..(m + n) : x = u[i]
      BY <2>1, <1>5 DEF Range
    <3>2. CASE i <= m
      BY <3>1, <3>2, <1>5 DEF Range
    <3>3. CASE i > m
      <4>1. i - m \in 1..n /\ x = t[i - m]
        BY <3>1, <3>3, <1>5
      <4> QED BY <4>1, <1>5 DEF Range
    <3> QED BY <3>2, <3>3
  <2>2. ASSUME NEW x \in Range(s) PROVE x \in Range(u)
    <3>1. PICK i \in 1..m : x = s[i]
      BY <1>5 DEF Range
    <3>2. i \in 1..(m + n) /\ u[i] = x
      BY <3>1, <1>5
    <3> QED BY <3>2, <1>5 DEF Range
  <2>3. ASSUME NEW x \in Range(t) PROVE x \in Range(u)
    <3>1. PICK i \in 1..n : x = t[i]
      BY <1>5 DEF Range
    <3>2. m + i \in 1..(m + n) /\ u[m + i] = x
      BY <3>1, <1>5
    <3> QED BY <3>2, <1>5 DEF Range
  <2> QED BY <2>1, <2>2, <2>3
<1>7. ASSUME NEW x,
             (OnceIn(s, x) /\ x \notin Range(t)) \/ (x \notin Range(s) /\ OnceIn(t, x))
      PROVE  OnceIn(u, x)
  <2>1. \A i \in 1..(m + n) : i \in 1..m \/ i \in (m + 1)..(m + n)
    OBVIOUS
  <2>2. CASE OnceIn(s, x) /\ x \notin Range(t)
    <3>1. \A i \in (m + 1)..(m + n) : u[i] # x
      BY <1>5, <2>2 DEF Range
    <3>2. \A i, j \in 1..m : u[i] = x /\ u[j] = x => i = j
      BY <1>5, <2>2 DEF OnceIn
    <3> QED BY <1>5, <2>1, <3>1, <3>2 DEF OnceIn
  <2>3. CASE x \notin Range(s) /\ OnceIn(t, x)
    <3>1. \A i \in 1..m : u[i] # x
      BY <1>5, <2>3 DEF Range
    <3>2. ASSUME NEW i \in (m + 1)..(m + n), NEW j \in (m + 1)..(m + n),
                 u[i] = x, u[j] = x
          PROVE  i = j
      <4>1. i - m \in 1..n /\ j - m \in 1..n /\ t[i - m] = x /\ t[j - m] = x
        BY <1>5, <3>2
      <4>2. i - m = j - m
        BY <4>1, <1>5, <2>3 DEF OnceIn
      <4> QED BY <4>2
    <3> QED BY <1>5, <2>1, <3>1, <3>2 DEF OnceIn
  <2> QED BY <1>7, <2>2, <2>3
<1>8. /\ \A x : (OnceIn(s, x) /\ x \notin Range(t)) => OnceIn(u, x)
      /\ \A x : (x \notin Range(s) /\ OnceIn(t, x)) => OnceIn(u, x)
  BY <1>7
<1> QED BY <1>3, <1>6, <1>8

\* A step that leaves the tickets alone leaves the lists alone.
LEMMA SameList ==
  ASSUME UNCHANGED <<tickets, createdAt>>, NEW q
  PROVE  Matching(q)' = Matching(q) /\ \A x : Rank(q, x)' = Rank(q, x)
BY DEF Matching, Wanted, Rank, Ahead, Before, SortKey

\* What moved a ticket up or down the list stays the same as long as nothing
\* more is noted in the client's history (Stayed, Alone, SomeBefore).
LEMMA SameMoves ==
  ASSUME UNCHANGED <<tickets, createdAt>>, NEW c \in Readers,
         walk'[c].query = walk[c].query,
         history'[c].started = history[c].started,
         history'[c].left = history[c].left, history'[c].joined = history[c].joined
  PROVE  /\ \A x : Settled(c, x) <=> Settled(c, x)'
         /\ \A x : Stayed(c, x) <=> Stayed(c, x)'
<1>1. \A q, x, y : Before(q, x, y)' <=> Before(q, x, y)
  BY DEF Before, SortKey
<1>2. \A x : Alone(c, x)' <=> Alone(c, x)
  BY DEF Alone
<1>3. \A x : SomeBefore(c, history[c].joined, x)' <=> SomeBefore(c, history[c].joined, x)
  BY <1>1 DEF SomeBefore
<1>4. \A x : SomeBefore(c, history[c].left, x)' <=> SomeBefore(c, history[c].left, x)
  BY <1>1 DEF SomeBefore
<1>5. \A x : Settled(c, x)' <=> Settled(c, x)
  BY <1>2, <1>3 DEF Settled
<1>6. \A x : Stayed(c, x)' <=> Stayed(c, x)
  BY <1>2, <1>4 DEF Stayed
<1> QED BY <1>5, <1>6

\* A client nothing happens to.
LEMMA ClientFrame ==
  ASSUME UNCHANGED <<tickets, createdAt>>, NEW c \in Readers, ClientOK(c),
         walk'[c] = walk[c], history'[c] = history[c]
  PROVE  ClientOK(c)'
<1>1. PICK q : q = walk[c].query
  OBVIOUS
<1>2. Matching(q)' = Matching(q) /\ \A x : Rank(q, x)' = Rank(q, x)
  BY SameList
<1>3. /\ \A x : Settled(c, x) <=> Settled(c, x)'
      /\ \A x : Stayed(c, x) <=> Stayed(c, x)'
  BY SameMoves
<1>4. Taken(c)' = Taken(c)
  BY DEF Taken, Pages
<1>5. Held(c)' /\ SteadyIsStill(c)'
  BY DEF ClientOK, Held, SteadyIsStill, Walking, BothAnswered
<1>6. HalvesAgree(c)'
  BY <1>1, <1>2, <1>4 DEF ClientOK, HalvesAgree, BothAnswered
<1>7. Met(c)'
  BY <1>1, <1>2 DEF ClientOK, Met, Walking
<1>8. ShownFirst(c)'
  BY <1>1, <1>2, <1>3, <1>4 DEF ClientOK, ShownFirst, ByCreation, Walking, Shown, OnceIn
<1>9. RestComes(c)'
  BY <1>1, <1>2, <1>3, <1>4 DEF ClientOK, RestComes, ByCreation, Walking, Shown
<1>10. NoneMissed(c)'
  BY <1>3 DEF ClientOK, NoneMissed, ByCreation, Shown
<1> QED BY <1>5, <1>6, <1>7, <1>8, <1>9, <1>10 DEF ClientOK

\* A client that gave up, or has not begun.
LEMMA ClientIdle ==
  ASSUME NEW c \in Readers, walk[c] = NoWalk, history[c] = NoHistory
  PROVE  ClientOK(c)
<1>1. walk[c].at = "idle" /\ walk[c].query = Null
  BY DEF NoWalk
<1> QED BY <1>1 DEF ClientOK, Held, HalvesAgree, SteadyIsStill, Met, ShownFirst, RestComes,
      NoneMissed, Walking, ByCreation
-----------------------------------------------------------------------------
\* A walk begins: nothing is taken and every wanted ticket is still to come
\* (getAllTickets, page 1).
LEMMA FirstPageStep ==
  ASSUME LInv, NEW c \in Readers, FirstPage(c)
  PROVE  ClientOK(c)' /\ ListTypeOK'
<1>1. PICK q \in ListQueries :
        /\ Ask(c, q, 1) /\ UNCHANGED <<vars, createdAt>>
        /\ history' = [history EXCEPT ![c] = [NoHistory EXCEPT !.started = Matching(q)]]
  BY DEF FirstPage
<1>2. q \in ListQuery /\ q # Null
  BY ListAssumption
<1>3. /\ ListTypeOK /\ TypeOK' /\ StoreTypeOK
      /\ UNCHANGED <<tickets, createdAt>>
  BY <1>1, StutterStep DEF LInv, IInv, TypeOK, vars, tables
<1>4. /\ walk'[c] = [at |-> "queries", query |-> q, page |-> 1,
                     found |-> Null, total |-> Null]
      /\ history'[c] = [started |-> Matching(q), shown |-> <<>>,
                        left |-> {}, joined |-> {}, more |-> FALSE, still |-> TRUE, steady |-> TRUE]
  BY <1>1, <1>3 DEF Ask, ListTypeOK, NoHistory
<1>5. Matching(q) \subseteq TicketIds
  BY <1>3 DEF StoreTypeOK, IsTable, Matching
<1>6. ListTypeOK'
  <2>1. walk'[c] \in Walk /\ history'[c] \in History
    <3>1. <<>> \in Seq(TicketIds)
      OBVIOUS
    <3> QED BY <1>2, <1>4, <1>5, <3>1 DEF Walk, History
  <2> QED BY <1>1, <1>3, <2>1 DEF ListTypeOK, Ask
<1>7. Range(<<>>) = {}
  BY DEF Range
<1>8. Taken(c)' = 0
  <2>1. Pages(c)' = 0
    BY <1>4 DEF Pages
  <2>2. walk'[c].query.pageSize \in 1..50
    BY <1>2, <1>4 DEF ListQuery
  <2> QED BY <2>1, <2>2 DEF Taken
<1>9. Held(c)' /\ SteadyIsStill(c)' /\ NoneMissed(c)'
  BY <1>2, <1>4 DEF Held, SteadyIsStill, NoneMissed, Walking
<1>10. HalvesAgree(c)'
  BY <1>4 DEF HalvesAgree, BothAnswered
<1>11. ShownFirst(c)'
  BY <1>4, <1>7 DEF ShownFirst, Shown
<1>12. Met(c)' /\ RestComes(c)'
  <2>1. Matching(q)' = Matching(q) /\ \A x : Rank(q, x)' = Rank(q, x)
    BY <1>3, SameList
  <2>2. \A x : Rank(q, x) \in Nat
    BY <1>3, RankCounts
  <2>3. \A x : Rank(q, x) >= 0
    BY <2>2
  <2> QED BY <1>4, <1>8, <2>1, <2>3 DEF Met, RestComes
<1> QED BY <1>6, <1>9, <1>10, <1>11, <1>12 DEF ClientOK

\* The next page is asked for: it takes up where the last one ended.
LEMMA NextPageStep ==
  ASSUME LInv, NEW c \in Readers, NextPage(c)
  PROVE  ClientOK(c)' /\ ListTypeOK'
<1>1. PICK q, p : q = walk[c].query /\ p = walk[c].page
  OBVIOUS
<1>2. /\ ListTypeOK /\ TypeOK' /\ ClientOK(c) /\ walk[c].at = "next"
      /\ UNCHANGED <<tickets, createdAt>>
  BY StutterStep DEF NextPage, LInv, IInv, TypeOK, vars, tables
<1>3. q \in ListQuery /\ p \in Nat /\ p >= 1 /\ walk[c].found # Null
  BY <1>1, <1>2, Fields DEF ClientOK, Held, BothAnswered
<1>4. /\ walk' = [walk EXCEPT ![c] = [at |-> "queries", query |-> q, page |-> p + 1,
                                      found |-> Null, total |-> Null]]
      /\ history' = [history EXCEPT ![c].still = TRUE]
  BY <1>1 DEF NextPage, Ask
<1>5. /\ walk'[c] = [at |-> "queries", query |-> q, page |-> p + 1,
                     found |-> Null, total |-> Null]
      /\ history'[c] = [history[c] EXCEPT !.still = TRUE]
  BY <1>2, <1>4 DEF ListTypeOK
<1>6. /\ history'[c].started = history[c].started /\ history'[c].shown = history[c].shown
      /\ history'[c].left = history[c].left /\ history'[c].joined = history[c].joined
      /\ history'[c].more = history[c].more /\ history'[c].still = TRUE
      /\ history'[c].steady = history[c].steady
  BY <1>2, <1>5, Fields DEF History
<1>7. ListTypeOK'
  <2>1. walk'[c] \in Walk
    BY <1>3, <1>5 DEF Walk
  <2>2. history'[c] \in History
    BY <1>2, <1>5, Fields DEF History
  <2> QED BY <1>2, <1>4, <2>1, <2>2 DEF ListTypeOK
<1>8. Taken(c)' = Taken(c)
  <2>1. Pages(c)' = p /\ Pages(c) = p
    BY <1>1, <1>2, <1>3, <1>5 DEF Pages
  <2>2. walk'[c].query = q
    BY <1>5
  <2> QED BY <1>1, <2>1, <2>2 DEF Taken
<1>9. Held(c)' /\ SteadyIsStill(c)' /\ NoneMissed(c)' /\ HalvesAgree(c)'
  BY <1>2, <1>3, <1>5, <1>6
  DEF ClientOK, Held, SteadyIsStill, NoneMissed, HalvesAgree, BothAnswered
<1>10. Matching(q)' = Matching(q) /\ \A x : Rank(q, x)' = Rank(q, x)
  BY <1>2, SameList
<1>11. walk'[c].query = q /\ walk'[c].found = Null
  BY <1>5
<1>12. /\ \A x : Settled(c, x) <=> Settled(c, x)'
       /\ \A x : Stayed(c, x) <=> Stayed(c, x)'
  BY <1>1, <1>2, <1>6, <1>11, SameMoves
<1>13. Met(c)'
  BY <1>1, <1>2, <1>6, <1>10, <1>11 DEF ClientOK, Met, Walking
<1>14. ShownFirst(c)'
  BY <1>1, <1>2, <1>6, <1>8, <1>10, <1>11, <1>12
  DEF ClientOK, ShownFirst, ByCreation, Walking, Shown, OnceIn
<1>15. RestComes(c)'
  BY <1>1, <1>2, <1>6, <1>8, <1>10, <1>11, <1>12
  DEF ClientOK, RestComes, ByCreation, Walking, Shown
<1> QED BY <1>7, <1>9, <1>13, <1>14, <1>15 DEF ClientOK

\* findMany answers: the rows are those ranked behind the pages taken, a page of
\* them, and whether any follow is counted at this moment (skip, take).
LEMMA FindPageStep ==
  ASSUME LInv, NEW c \in Readers, FindPage(c)
  PROVE  ClientOK(c)' /\ ListTypeOK'
<1>1. PICK q, p, total :
        q = walk[c].query /\ p = walk[c].page /\ total = walk[c].total
  OBVIOUS
<1>2. PICK listing \in Listings(walk[c].query) :
        LET rows == PageOf(walk[c].query, walk[c].page, listing)
        IN /\ walk' = [walk EXCEPT ![c].found = rows]
           /\ history' = [history EXCEPT
                ![c].shown = @ \o rows,
                ![c].more = Len(listing) > walk[c].page * walk[c].query.pageSize]
  BY DEF FindPage
<1>3. PICK rows : rows = PageOf(q, p, listing)
  OBVIOUS
<1>4. /\ ListTypeOK /\ TypeOK' /\ StoreTypeOK /\ ClientOK(c)
      /\ walk[c].at = "queries" /\ walk[c].found = Null
      /\ UNCHANGED <<tickets, createdAt>>
  BY StutterStep DEF FindPage, LInv, IInv, TypeOK, vars, tables
<1>5. q \in ListQuery /\ p \in Nat /\ p >= 1 /\ total \in Nat \cup {Null}
  BY <1>1, <1>4, Fields DEF ClientOK, Held
<1>6. /\ rows \in Seq(TicketIds) /\ rows # Null
      /\ \A x \in Range(rows) : x \in Matching(q)
      /\ Len(listing) = Cardinality(Matching(q)) /\ Len(listing) \in Nat
      /\ listing \in Listings(q)
  <2>1. /\ Len(listing) = Cardinality(Matching(q)) /\ Len(listing) \in Nat
        /\ listing \in [1..Cardinality(Matching(q)) -> Matching(q)]
    BY <1>1, <1>2, <1>4, Listed
  <2>2. /\ rows \in Seq(TicketIds) /\ DOMAIN rows = 1..Len(rows)
        /\ \A i \in 1..Len(rows) : \E j \in 1..Cardinality(Matching(q)) :
             rows[i] = listing[j]
    <3>1. PICK skip : skip = (p - 1) * q.pageSize
      OBVIOUS
    <3>2. /\ rows \in Seq(TicketIds) /\ DOMAIN rows = 1..Len(rows)
          /\ \A i \in 1..Len(rows) : /\ skip + i \in 1..Cardinality(Matching(q))
                                     /\ rows[i] = listing[skip + i]
      BY <1>1, <1>2, <1>3, <1>4, <1>5, <3>1, PageRows
    <3> QED BY <3>2
  <2> QED BY <1>1, <1>2, <2>1, <2>2, ListAssumption DEF Range
<1>7. /\ walk' = [walk EXCEPT ![c].found = rows]
      /\ history' = [history EXCEPT ![c].shown = @ \o rows,
                                    ![c].more = Len(listing) > p * q.pageSize]
  BY <1>1, <1>2, <1>3
<1>8. PICK s \in Seq(TicketIds) : s = history[c].shown
  BY <1>4, Fields
<1>9. s \o rows \in Seq(TicketIds) /\ Range(s \o rows) = Range(s) \cup Range(rows)
  BY <1>6, <1>8, ConcatRange, ConcatProperties
<1>10. /\ walk'[c] \in Walk /\ walk'[c].at = "queries" /\ walk'[c].query = q
      /\ walk'[c].page = p /\ walk'[c].found = rows /\ walk'[c].total = total
  <2>1. walk'[c] = [walk[c] EXCEPT !.found = rows]
    BY <1>4, <1>7 DEF ListTypeOK
  <2> QED BY <1>1, <1>4, <1>6, <2>1, Fields DEF Walk
<1>11. /\ history'[c] \in History /\ history'[c].shown = s \o rows
       /\ history'[c].more = (Len(listing) > p * q.pageSize)
       /\ history'[c].started = history[c].started
       /\ history'[c].left = history[c].left /\ history'[c].joined = history[c].joined
       /\ history'[c].still = history[c].still /\ history'[c].steady = history[c].steady
  <2>1. history'[c] = [history[c] EXCEPT !.shown = s \o rows,
                                         !.more = Len(listing) > p * q.pageSize]
    BY <1>4, <1>7, <1>8 DEF ListTypeOK
  <2>2. PICK more \in BOOLEAN : more = (Len(listing) > p * q.pageSize)
    <3>1. (Len(listing) > p * q.pageSize) \in BOOLEAN
      OBVIOUS
    <3> QED BY <3>1
  <2>3. history'[c] = [history[c] EXCEPT !.shown = s \o rows, !.more = more]
    BY <2>1, <2>2
  <2>4. history'[c] \in History
    BY <1>4, <1>9, <2>3, Fields DEF History
  <2> QED BY <1>4, <2>2, <2>3, <2>4, Fields DEF History
<1>12. ListTypeOK'
  BY <1>4, <1>7, <1>10, <1>11 DEF ListTypeOK
<1>13. Taken(c) = (p - 1) * q.pageSize /\ Taken(c)' = p * q.pageSize
  <2>1. Pages(c) = p - 1 /\ Pages(c)' = p
    BY <1>1, <1>4, <1>6, <1>10 DEF Pages
  <2> QED BY <1>1, <1>10, <2>1 DEF Taken
<1>14. Matching(q)' = Matching(q) /\ \A x : Rank(q, x)' = Rank(q, x)
  BY <1>4, SameList
<1>15. Held(c)'
  BY <1>4, <1>5, <1>6, <1>10 DEF Held
<1>16. HalvesAgree(c)'
  <2>1. (history[c].still /\ total # Null) => total = Cardinality(Matching(q))
    BY <1>1, <1>4 DEF ClientOK, HalvesAgree
  <2> QED BY <1>6, <1>10, <1>11, <1>13, <1>14, <2>1 DEF HalvesAgree, BothAnswered
<1>17. SteadyIsStill(c)' /\ NoneMissed(c)'
  BY <1>4, <1>10, <1>11 DEF ClientOK, SteadyIsStill, NoneMissed, Walking
<1>18. ASSUME q.sortBy = "createdAt"
       PROVE  /\ \A x : OnceIn(rows, x)
              /\ \A x \in Matching(q) : AloneIn(Matching(q), x) =>
                   /\ x \in Range(rows) =>
                        (p - 1) * q.pageSize <= Rank(q, x) /\ Rank(q, x) < p * q.pageSize
                   /\ \/ Rank(q, x) < (p - 1) * q.pageSize \/ x \in Range(rows)
                      \/ Rank(q, x) >= p * q.pageSize
                   /\ Rank(q, x) \in Nat /\ Rank(q, x) < Len(listing)
  BY <1>3, <1>4, <1>5, <1>6, <1>18, PageRanks, Fields
<1>19. PICK low \in Int, high \in Int :
         low = (p - 1) * q.pageSize /\ high = p * q.pageSize /\ low <= high
  <2>1. PICK size \in 1..50 : size = q.pageSize
    BY <1>5 DEF ListQuery
  <2>2. (p - 1) * size + size = p * size
    BY <1>5
  <2>3. PICK low \in Int, high \in Int : low = (p - 1) * size /\ high = p * size
    BY <1>5
  <2>4. low <= high
    BY <2>2, <2>3
  <2> QED BY <2>1, <2>3, <2>4
<1>20. /\ \A x : Settled(c, x) <=> Settled(c, x)'
       /\ \A x : Stayed(c, x) <=> Stayed(c, x)'
  BY <1>1, <1>4, <1>10, <1>11, SameMoves
<1>21. Matching(q) \subseteq history[c].started \cup history[c].joined
  BY <1>1, <1>4 DEF ClientOK, Met, Walking
<1>22. \A x : Alone(c, x) => AloneIn(Matching(q), x)
  BY <1>21 DEF Alone, AloneIn
<1>23. \A x : Rank(q, x) \in Nat
  BY <1>4, RankCounts
<1>24. Met(c)'
  BY <1>10, <1>11, <1>14, <1>21 DEF Met
<1>25. ShownFirst(c)'
  <2> SUFFICES ASSUME q.sortBy = "createdAt", NEW x \in Range(s) \cup Range(rows),
                      Settled(c, x)
               PROVE  OnceIn(s \o rows, x) /\ Rank(q, x) < high
    BY <1>9, <1>10, <1>11, <1>13, <1>14, <1>19, <1>20 DEF ShownFirst, ByCreation, Shown
  <2>1. x \in Range(s) => OnceIn(s, x) /\ Rank(q, x) < low
    <3>1. ByCreation(c) /\ Walking(c) /\ Shown(c) = Range(s)
      BY <1>1, <1>4, <1>5, <1>8, ListAssumption
      DEF ByCreation, Walking, Shown
    <3> QED BY <1>1, <1>4, <1>8, <1>13, <1>19, <3>1 DEF ClientOK, ShownFirst
  <2>2. AloneIn(Matching(q), x)
    BY <1>22 DEF Settled
  <2>3. OnceIn(rows, x)
    BY <1>18
  <2>4. x \in Range(rows) => low <= Rank(q, x) /\ Rank(q, x) < high
    BY <1>6, <1>18, <1>19, <2>2
  <2>5. /\ \A y : (OnceIn(s, y) /\ y \notin Range(rows)) => OnceIn(s \o rows, y)
        /\ \A y : (y \notin Range(s) /\ OnceIn(rows, y)) => OnceIn(s \o rows, y)
    <3>1. rows \in Seq(TicketIds) /\ s \in Seq(TicketIds)
      BY <1>6, <1>8
    <3> QED BY <3>1, ConcatRange
  <2>6. CASE x \in Range(s)
    <3>1. OnceIn(s, x) /\ Rank(q, x) < low
      BY <2>1, <2>6
    <3>2. x \notin Range(rows)
      BY <1>19, <1>23, <2>4, <3>1
    <3>3. OnceIn(s \o rows, x)
      BY <3>1, <3>2, <2>5
    <3> QED BY <1>19, <1>23, <3>1, <3>3
  <2>7. CASE x \notin Range(s)
    <3>1. OnceIn(s \o rows, x)
      BY <2>3, <2>5, <2>7
    <3> QED BY <2>4, <2>7, <3>1
  <2> QED BY <2>6, <2>7
<1>26. RestComes(c)'
  <2> SUFFICES ASSUME q.sortBy = "createdAt", NEW x \in history[c].started, Stayed(c, x)
               PROVE  /\ x \in Matching(q)
                      /\ x \in Range(s) \cup Range(rows) \/ Rank(q, x) >= high
                      /\ ~(Len(listing) > high) => x \in Range(s) \cup Range(rows)
    BY <1>9, <1>10, <1>11, <1>13, <1>14, <1>19, <1>20 DEF RestComes, ByCreation, Shown
  <2>1. x \in Matching(q) /\ (x \in Range(s) \/ Rank(q, x) >= low)
    <3>1. ByCreation(c) /\ Walking(c) /\ Shown(c) = Range(s)
      BY <1>1, <1>4, <1>5, <1>8, ListAssumption
      DEF ByCreation, Walking, Shown
    <3> QED BY <1>1, <1>4, <1>13, <1>19, <3>1 DEF ClientOK, RestComes
  <2>2. AloneIn(Matching(q), x)
    BY <1>22 DEF Stayed
  <2>3. /\ Rank(q, x) < low \/ x \in Range(rows) \/ Rank(q, x) >= high
        /\ Rank(q, x) < Len(listing)
    BY <1>18, <1>19, <2>1, <2>2
  <2>4. x \in Range(s) \cup Range(rows) \/ Rank(q, x) >= high
    BY <1>19, <1>23, <2>1, <2>3
  <2>5. ASSUME ~(Len(listing) > high) PROVE x \in Range(s) \cup Range(rows)
    BY <1>6, <1>19, <1>23, <2>3, <2>4, <2>5
  <2> QED BY <2>1, <2>4, <2>5
<1> QED BY <1>12, <1>15, <1>16, <1>17, <1>24, <1>25, <1>26 DEF ClientOK

\* count answers: it counts the set whose page is, or will be, cut.
LEMMA CountAllStep ==
  ASSUME LInv, NEW c \in Readers, CountAll(c)
  PROVE  ClientOK(c)' /\ ListTypeOK'
<1>1. PICK q, p, rows : q = walk[c].query /\ p = walk[c].page /\ rows = walk[c].found
  OBVIOUS
<1>2. /\ ListTypeOK /\ TypeOK' /\ StoreTypeOK /\ ClientOK(c)
      /\ walk[c].at = "queries" /\ walk[c].total = Null
      /\ UNCHANGED <<tickets, createdAt, history>>
  BY StutterStep DEF CountAll, LInv, IInv, TypeOK, vars, tables
<1>3. /\ q \in ListQuery /\ p \in Nat /\ p >= 1
      /\ rows \in Seq(TicketIds) \cup {Null}
  BY <1>1, <1>2, Fields DEF ClientOK, Held
<1>4. PICK n \in Nat : n = Cardinality(Matching(q)) /\ n # Null
  <2>1. IsFiniteSet(TicketIds)
    BY FS_Interval, SeedAssumption DEF TicketIds
  <2>2. Matching(q) \in SUBSET TicketIds
    BY <1>2 DEF StoreTypeOK, IsTable, Matching
  <2>3. Cardinality(Matching(q)) \in Nat
    BY <2>1, <2>2, FS_Subset, FS_CardinalityType
  <2> QED BY <2>3, CallAssumption
<1>5. walk' = [walk EXCEPT ![c].total = n]
  BY <1>1, <1>4 DEF CountAll, Count
<1>6. /\ walk'[c] \in Walk /\ walk'[c].at = "queries" /\ walk'[c].query = q
      /\ walk'[c].page = p /\ walk'[c].found = rows /\ walk'[c].total = n
  <2>1. walk'[c] = [walk[c] EXCEPT !.total = n]
    BY <1>2, <1>5 DEF ListTypeOK
  <2> QED BY <1>1, <1>2, <2>1, Fields DEF Walk
<1>7. ListTypeOK'
  BY <1>2, <1>5, <1>6 DEF ListTypeOK
<1>8. Taken(c)' = Taken(c)
  <2>1. Pages(c)' = Pages(c)
    BY <1>1, <1>2, <1>6 DEF Pages
  <2> QED BY <1>1, <1>6, <2>1 DEF Taken
<1>9. Matching(q)' = Matching(q) /\ \A x : Rank(q, x)' = Rank(q, x)
  BY <1>2, SameList
<1>10. Held(c)' /\ SteadyIsStill(c)' /\ NoneMissed(c)'
  BY <1>1, <1>2, <1>3, <1>6
  DEF ClientOK, Held, SteadyIsStill, NoneMissed, Walking
<1>11. HalvesAgree(c)'
  BY <1>1, <1>2, <1>4, <1>6, <1>8, <1>9 DEF ClientOK, HalvesAgree, BothAnswered
<1>12. /\ \A x : Settled(c, x) <=> Settled(c, x)'
       /\ \A x : Stayed(c, x) <=> Stayed(c, x)'
  BY <1>1, <1>2, <1>6, SameMoves
<1>13. Met(c)'
  BY <1>1, <1>2, <1>6, <1>9 DEF ClientOK, Met, Walking
<1>14. ShownFirst(c)'
  BY <1>1, <1>2, <1>6, <1>8, <1>9, <1>12
  DEF ClientOK, ShownFirst, ByCreation, Walking, Shown, OnceIn
<1>15. RestComes(c)'
  BY <1>1, <1>2, <1>6, <1>8, <1>9, <1>12
  DEF ClientOK, RestComes, ByCreation, Walking, Shown
<1> QED BY <1>7, <1>10, <1>11, <1>13, <1>14, <1>15 DEF ClientOK

\* The page goes out; a client that is told to stop has seen the rows to the
\* last, if its page and its total were read of one set.
LEMMA RespondPageStep ==
  ASSUME LInv, NEW c \in Readers, RespondPage(c)
  PROVE  ClientOK(c)' /\ ListTypeOK'
<1>1. PICK q, p, rows, total :
        q = walk[c].query /\ p = walk[c].page /\ rows = walk[c].found /\ total = walk[c].total
  OBVIOUS
<1>2. /\ ListTypeOK /\ TypeOK' /\ ClientOK(c)
      /\ walk[c].at = "queries" /\ rows # Null /\ total # Null
      /\ UNCHANGED <<tickets, createdAt, history>>
  BY <1>1, StutterStep DEF RespondPage, BothAnswered, LInv, IInv, TypeOK, vars, tables
<1>3. q \in ListQuery /\ p \in Nat /\ p >= 1 /\ total \in Nat
  BY <1>1, <1>2, Fields DEF ClientOK, Held
<1>4. PICK next \in {"done", "next"} :
        /\ next = "done" <=> p >= totalPages(q, total)
        /\ walk' = [walk EXCEPT ![c].at = next]
  <2>1. CASE LastPage(c)
    BY <1>1, <2>1 DEF RespondPage, LastPage
  <2>2. CASE ~LastPage(c)
    BY <1>1, <2>2 DEF RespondPage, LastPage
  <2> QED BY <2>1, <2>2
<1>5. next = "done" <=> ~(total > p * q.pageSize)
  BY <1>3, <1>4, CeilOfPages
<1>6. /\ walk'[c] \in Walk /\ walk'[c].at = next /\ walk'[c].query = q
      /\ walk'[c].page = p /\ walk'[c].found = rows /\ walk'[c].total = total
  <2>1. walk'[c] = [walk[c] EXCEPT !.at = next]
    BY <1>2, <1>4 DEF ListTypeOK
  <2> QED BY <1>1, <1>2, <2>1, Fields DEF Walk
<1>7. ListTypeOK'
  BY <1>2, <1>4, <1>6 DEF ListTypeOK
<1>8. Taken(c)' = Taken(c) /\ Taken(c) = p * q.pageSize
  <2>1. Pages(c)' = p /\ Pages(c) = p
    BY <1>1, <1>2, <1>6 DEF Pages
  <2> QED BY <1>1, <1>6, <2>1 DEF Taken
<1>9. Matching(q)' = Matching(q) /\ \A x : Rank(q, x)' = Rank(q, x)
  BY <1>2, SameList
<1>10. Held(c)' /\ SteadyIsStill(c)' /\ HalvesAgree(c)'
  BY <1>1, <1>2, <1>3, <1>6
  DEF ClientOK, Held, SteadyIsStill, HalvesAgree, Walking, BothAnswered
<1>12. /\ \A x : Settled(c, x) <=> Settled(c, x)'
       /\ \A x : Stayed(c, x) <=> Stayed(c, x)'
  BY <1>1, <1>2, <1>6, SameMoves
<1>13. Met(c)'
  BY <1>1, <1>2, <1>6, <1>9 DEF ClientOK, Met, Walking
<1>14. ShownFirst(c)'
  BY <1>1, <1>2, <1>6, <1>8, <1>9, <1>12
  DEF ClientOK, ShownFirst, ByCreation, Walking, Shown, OnceIn
<1>15. RestComes(c)'
  BY <1>1, <1>2, <1>6, <1>8, <1>9, <1>12
  DEF ClientOK, RestComes, ByCreation, Walking, Shown
<1>16. NoneMissed(c)'
  <2> SUFFICES ASSUME next = "done", ByCreation(c), history[c].steady,
                      NEW x \in history[c].started, Stayed(c, x)
               PROVE  x \in Shown(c)
    BY <1>1, <1>2, <1>6, <1>12 DEF NoneMissed, Shown, ByCreation
  <2>1. Walking(c)
    BY <1>2 DEF Walking
  <2>2. history[c].still
    BY <1>2, <2>1 DEF ClientOK, SteadyIsStill
  <2>3. history[c].more <=> total > p * q.pageSize
    BY <1>1, <1>2, <1>8, <2>2 DEF ClientOK, HalvesAgree, BothAnswered
  <2> QED BY <1>1, <1>2, <1>5, <2>1, <2>3 DEF ClientOK, RestComes
<1> QED BY <1>7, <1>10, <1>13, <1>14, <1>15, <1>16 DEF ClientOK
-----------------------------------------------------------------------------
\* What a write of the ticket endpoints does to the tickets client c wants is
\* noted in its history (Observed).
LEMMA WriteEffect ==
  ASSUME LInv, [Next]_vars, StoreTypeOK', UNCHANGED walk, NEW c \in Readers, Walking(c),
         history'[c] = Observed(c), NEW q, q = walk[c].query
  PROVE  /\ history'[c] \in History
         /\ history'[c].started = history[c].started
         /\ history'[c].shown = history[c].shown
         /\ history'[c].more = history[c].more
         /\ history'[c].left = history[c].left \cup (Matching(q) \ Matching(q)')
         /\ history'[c].joined = history[c].joined \cup (Matching(q)' \ Matching(q))
         /\ history'[c].still =>
              history[c].still /\ (Matching(q)' = Matching(q) \/ ~HalfAnswered(c))
         /\ history'[c].steady =>
              history[c].steady /\ (history'[c].still <=> history[c].still)
<1>1. history[c] \in History /\ StoreTypeOK
  BY Fields DEF LInv, ListTypeOK, TypeOK
<1>2. PICK before, after : before = Matching(q) /\ after = Matching(q)'
  OBVIOUS
<1>3. before \subseteq TicketIds /\ after \subseteq TicketIds
  BY <1>1, <1>2 DEF Matching, StoreTypeOK, IsTable
<1>4. Matching(walk[c].query) = before /\ Matching(walk[c].query)' = after
  BY <1>2
<1>5. CASE before = after
  <2>1. history'[c] = history[c]
    BY <1>4, <1>5 DEF Observed
  <2> QED BY <1>1, <1>2, <1>5, <2>1
<1>6. CASE before # after
  <2>1. history'[c] = [history[c] EXCEPT
          !.left = history[c].left \cup (before \ after),
          !.joined = history[c].joined \cup (after \ before),
          !.still = history[c].still /\ ~HalfAnswered(c),
          !.steady = history[c].steady /\ ~HalfAnswered(c)]
    BY <1>4, <1>6 DEF Observed
  <2>2. PICK still \in BOOLEAN, steady \in BOOLEAN :
          /\ still = (history[c].still /\ ~HalfAnswered(c))
          /\ steady = (history[c].steady /\ ~HalfAnswered(c))
    <3>1. /\ (history[c].still /\ ~HalfAnswered(c)) \in BOOLEAN
          /\ (history[c].steady /\ ~HalfAnswered(c)) \in BOOLEAN
      BY Zenon
    <3> QED BY <3>1, Zenon
  <2>3. PICK left, joined : /\ left = history[c].left \cup (before \ after)
                            /\ joined = history[c].joined \cup (after \ before)
    OBVIOUS
  <2>4. history'[c] = [history[c] EXCEPT !.left = left, !.joined = joined,
                                         !.still = still, !.steady = steady]
    BY <2>1, <2>2, <2>3, Zenon
  <2>5. left \subseteq TicketIds /\ joined \subseteq TicketIds
    BY <1>1, <1>3, <2>3 DEF History
  <2>6. /\ history'[c] \in History
        /\ history'[c].started = history[c].started
        /\ history'[c].shown = history[c].shown
        /\ history'[c].more = history[c].more
        /\ history'[c].left = left /\ history'[c].joined = joined
        /\ history'[c].still = still /\ history'[c].steady = steady
    BY <1>1, <2>4, <2>5 DEF History
  <2>7. /\ still => history[c].still /\ ~HalfAnswered(c)
        /\ steady => history[c].steady /\ (still <=> history[c].still)
    BY <2>2, Zenon
  <2> QED BY <1>2, <2>3, <2>6, <2>7
<1> QED BY <1>5, <1>6

\* A client between two of its requests, or waiting for an answer, while the
\* ticket endpoints write: a row is overtaken only by tickets that join before
\* it, and moves up only when some before it leave.
LEMMA MeanwhileClient ==
  ASSUME LInv, [Next]_vars, UNCHANGED <<createdAt, walk>>, NEW c \in Readers,
         history'[c] = Observed(c)
  PROVE  ClientOK(c)' /\ history'[c] \in History
<1>1. /\ ListTypeOK /\ StoreTypeOK /\ StoreTypeOK' /\ ClientOK(c) /\ walk'[c] = walk[c]
      /\ history[c] \in History
  BY NextInv, Fields DEF LInv, IInv, TypeOK
<1>2. PICK q : q = walk[c].query
  OBVIOUS
<1>3. \A x, y : q.sortBy = "createdAt" => (Before(q, x, y)' <=> Before(q, x, y))
  BY DEF Before, SortKey
<1>4. Taken(c)' = Taken(c)
  BY <1>1 DEF Taken, Pages
<1>5. CASE ~Walking(c)
  <2>1. history'[c] = history[c] /\ walk[c].at \notin {"queries", "next"}
    BY <1>5 DEF Observed, Walking
  <2>2. ~Walking(c)'
    BY <1>1, <2>1 DEF Walking
  <2>3. Held(c)'
    BY <1>1, <2>1 DEF ClientOK, Held, BothAnswered
  <2>4. HalvesAgree(c)' /\ SteadyIsStill(c)' /\ RestComes(c)' /\ Met(c)'
    BY <1>1, <2>1, <2>2 DEF HalvesAgree, SteadyIsStill, RestComes, Met
  <2>5. ASSUME ByCreation(c)
        PROVE  /\ \A x : Settled(c, x) <=> Settled(c, x)'
               /\ \A x : Stayed(c, x) <=> Stayed(c, x)'
    <3>1. \A x, y : Before(q, x, y)' <=> Before(q, x, y)
      BY <1>2, <1>3, <2>5 DEF ByCreation
    <3>2. \A x : Alone(c, x)' <=> Alone(c, x)
      BY <2>1 DEF Alone
    <3> QED BY <1>1, <1>2, <2>1, <3>1, <3>2 DEF Settled, Stayed, SomeBefore
  <2>6. ShownFirst(c)'
    BY <1>1, <2>1, <2>2, <2>5 DEF ClientOK, ShownFirst, ByCreation, Shown, OnceIn
  <2>7. NoneMissed(c)'
    BY <1>1, <2>1, <2>5 DEF ClientOK, NoneMissed, ByCreation, Shown
  <2> QED BY <1>1, <2>1, <2>3, <2>4, <2>6, <2>7 DEF ClientOK
<1>6. CASE Walking(c)
  <2>1. PICK before, after : before = Matching(q) /\ after = Matching(q)'
    OBVIOUS
  <2>2. /\ history'[c] \in History
        /\ history'[c].started = history[c].started
        /\ history'[c].shown = history[c].shown
        /\ history'[c].more = history[c].more
        /\ history'[c].left = history[c].left \cup (before \ after)
        /\ history'[c].joined = history[c].joined \cup (after \ before)
        /\ history'[c].still => history[c].still /\ (after = before \/ ~HalfAnswered(c))
        /\ history'[c].steady => history[c].steady /\ (history'[c].still <=> history[c].still)
    BY <1>1, <1>2, <1>6, <2>1, WriteEffect
  <2>3. q \in ListQuery /\ walk[c].at \in {"queries", "next"} /\ ~(walk[c].at = "done")
    BY <1>1, <1>2, <1>6 DEF ClientOK, Held, Walking
  <2>4. ASSUME q.sortBy = "createdAt"
        PROVE  \A x : /\ Ahead(q, x) = {y \in before : Before(q, y, x)}
                      /\ Ahead(q, x)' = {y \in after : Before(q, y, x)}
    <3>1. \A x, y : Before(q, x, y)' <=> Before(q, x, y)
      BY <1>3, <2>4
    <3> QED BY <2>1, <3>1 DEF Ahead
  <2>5. \A x : /\ IsFiniteSet(Ahead(q, x)) /\ Rank(q, x) \in Nat
               /\ IsFiniteSet(Ahead(q, x)') /\ Rank(q, x)' \in Nat
    <3>1. ASSUME StoreTypeOK, NEW x PROVE IsFiniteSet(Ahead(q, x)) /\ Rank(q, x) \in Nat
      BY <3>1, RankCounts
    <3>2. ASSUME StoreTypeOK', NEW x PROVE IsFiniteSet(Ahead(q, x)') /\ Rank(q, x)' \in Nat
      <4>1. IsFiniteSet(TicketIds)
        BY FS_Interval, SeedAssumption DEF TicketIds
      <4>2. Ahead(q, x)' \in SUBSET TicketIds
        BY <3>2 DEF StoreTypeOK, IsTable, Ahead, Matching
      <4>3. IsFiniteSet(Ahead(q, x)')
        BY <4>1, <4>2, FS_Subset
      <4> QED BY <4>3, FS_CardinalityType DEF Rank
    <3> QED BY <1>1, <3>1, <3>2
  <2>6. ASSUME q.sortBy = "createdAt", NEW x, Settled(c, x)'
        PROVE  Settled(c, x) /\ Ahead(q, x)' \subseteq Ahead(q, x)
    <3>1. Alone(c, x)
      <4>1. Alone(c, x)'
        BY <2>6 DEF Settled
      <4> QED BY <2>2, <4>1 DEF Alone
    <3>2. \A y \in history[c].joined \cup (after \ before) : ~Before(q, y, x)
      <4>1. \A y \in history'[c].joined : ~Before(q, y, x)'
        BY <1>1, <1>2, <2>6 DEF Settled, SomeBefore
      <4> QED BY <1>3, <2>2, <2>6, <4>1
    <3>3. Settled(c, x)
      BY <1>2, <3>1, <3>2 DEF Settled, SomeBefore
    <3> QED BY <2>4, <2>6, <3>2, <3>3
  <2>7. ASSUME q.sortBy = "createdAt", NEW x, Stayed(c, x)'
        PROVE  Stayed(c, x) /\ x \notin before \ after /\ Ahead(q, x) \subseteq Ahead(q, x)'
    <3>1. Alone(c, x) /\ x \in history[c].started \ history[c].left /\ x \notin before \ after
      <4>1. Alone(c, x)' /\ x \in history'[c].started \ history'[c].left
        BY <2>7 DEF Stayed
      <4> QED BY <2>2, <4>1 DEF Alone
    <3>2. \A y \in history[c].left \cup (before \ after) : ~Before(q, y, x)
      <4>1. \A y \in history'[c].left : ~Before(q, y, x)'
        BY <1>1, <1>2, <2>7 DEF Stayed, SomeBefore
      <4> QED BY <1>3, <2>2, <2>7, <4>1
    <3>3. Stayed(c, x)
      BY <1>2, <3>1, <3>2 DEF Stayed, SomeBefore
    <3> QED BY <2>4, <2>7, <3>1, <3>2, <3>3
  <2>8. Taken(c) \in Int
    BY <1>1, <1>2, <2>3, TakenCounts
  <2>9. Held(c)'
    BY <1>1, <2>3 DEF ClientOK, Held, BothAnswered
  <2>10. HalvesAgree(c)'
    <3> SUFFICES ASSUME walk[c].at = "queries", history'[c].still PROVE HalvesAgree(c)'
      BY <1>1 DEF HalvesAgree
    <3>1. history[c].still /\ (after = before \/ ~HalfAnswered(c))
      BY <2>2
    <3> QED BY <1>1, <1>2, <1>4, <2>1, <2>2, <3>1
        DEF ClientOK, HalvesAgree, BothAnswered, HalfAnswered
  <2>11. SteadyIsStill(c)' /\ NoneMissed(c)'
    BY <1>1, <1>6, <2>2, <2>3 DEF ClientOK, SteadyIsStill, NoneMissed, Walking
  <2>12. Met(c)'
    <3>1. before \subseteq history[c].started \cup history[c].joined
      BY <1>1, <1>2, <1>6, <2>1 DEF ClientOK, Met
    <3> QED BY <1>1, <1>2, <2>1, <2>2, <3>1 DEF Met
  <2>13. ShownFirst(c)'
    <3> SUFFICES ASSUME q.sortBy = "createdAt", NEW x \in Shown(c), Settled(c, x)'
                 PROVE  OnceIn(history[c].shown, x) /\ Rank(q, x)' < Taken(c)
      BY <1>1, <1>2, <1>4, <2>2 DEF ShownFirst, ByCreation, Shown
    <3>1. Settled(c, x) /\ Ahead(q, x)' \subseteq Ahead(q, x)
      BY <2>6
    <3>2. OnceIn(history[c].shown, x) /\ Rank(q, x) < Taken(c)
      <4>1. ByCreation(c)
        BY <1>2, <2>3, ListAssumption DEF ByCreation
      <4> QED BY <1>1, <1>2, <1>6, <3>1, <4>1 DEF ClientOK, ShownFirst
    <3>3. PICK old, new : old = Ahead(q, x) /\ new = Ahead(q, x)'
      OBVIOUS
    <3>4. Cardinality(new) <= Cardinality(old)
      <4>1. new \in SUBSET old /\ IsFiniteSet(old)
        BY <2>5, <3>1, <3>3
      <4> QED BY <4>1, FS_Subset
    <3>5. Rank(q, x)' <= Rank(q, x)
      BY <3>3, <3>4 DEF Rank
    <3> QED BY <2>5, <2>8, <3>2, <3>5
  <2>14. RestComes(c)'
    <3> SUFFICES ASSUME q.sortBy = "createdAt", NEW x \in history[c].started, Stayed(c, x)'
                 PROVE  /\ x \in after
                        /\ x \in Shown(c) \/ Rank(q, x)' >= Taken(c)
                        /\ (walk[c].found # Null /\ ~history[c].more) => x \in Shown(c)
      BY <1>1, <1>2, <1>4, <2>1, <2>2 DEF RestComes, ByCreation, Shown
    <3>1. Stayed(c, x) /\ x \notin before \ after /\ Ahead(q, x) \subseteq Ahead(q, x)'
      BY <2>7
    <3>2. /\ x \in before
          /\ x \in Shown(c) \/ Rank(q, x) >= Taken(c)
          /\ (walk[c].found # Null /\ ~history[c].more) => x \in Shown(c)
      <4>1. ByCreation(c)
        BY <1>2, <2>3, ListAssumption DEF ByCreation
      <4> QED BY <1>1, <1>2, <1>6, <2>1, <3>1, <4>1 DEF ClientOK, RestComes
    <3>3. PICK old, new : old = Ahead(q, x) /\ new = Ahead(q, x)'
      OBVIOUS
    <3>4. Cardinality(old) <= Cardinality(new)
      <4>1. old \in SUBSET new /\ IsFiniteSet(new)
        BY <2>5, <3>1, <3>3
      <4> QED BY <4>1, FS_Subset
    <3>5. Rank(q, x) <= Rank(q, x)'
      BY <3>3, <3>4 DEF Rank
    <3>6. x \in Shown(c) \/ Rank(q, x)' >= Taken(c)
      BY <2>5, <2>8, <3>2, <3>5
    <3> QED BY <3>1, <3>2, <3>6
  <2> QED BY <2>2, <2>9, <2>10, <2>11, <2>12, <2>13, <2>14 DEF ClientOK
<1> QED BY <1>5, <1>6

\* What becomes of every client when only client c is served.
LEMMA OneClient ==
  ASSUME LInv, IInv', NEW c \in Readers, UNCHANGED <<tickets, createdAt>>,
         \A d \in Readers \ {c} : walk'[d] = walk[d] /\ history'[d] = history[d],
         ClientOK(c)', ListTypeOK'
  PROVE  LInv'
<1>1. ASSUME NEW d \in Readers \ {c} PROVE ClientOK(d)'
  BY <1>1, ClientFrame DEF LInv
<1> QED BY <1>1 DEF LInv

\* A client that is served (FirstPage, ReadStep, ListQueryFails).
LEMMA ReaderStep ==
  ASSUME LInv, NEW c \in Readers, FirstPage(c) \/ ReadStep(c) \/ ListQueryFails(c)
  PROVE  LInv'
<1>1. ListTypeOK /\ IInv
  BY DEF LInv
<1>2. CASE ListQueryFails(c)
  <2>1. /\ walk' = [walk EXCEPT ![c] = NoWalk]
        /\ history' = [history EXCEPT ![c] = NoHistory]
        /\ DatabaseFails /\ UNCHANGED <<tables, requestVars, crashes, ghosts, createdAt>>
    BY <1>2 DEF ListQueryFails
  <2>2. /\ walk'[c] = NoWalk /\ history'[c] = NoHistory
        /\ \A d \in Readers \ {c} : walk'[d] = walk[d] /\ history'[d] = history[d]
    BY <1>1, <2>1 DEF ListTypeOK
  <2>3. UNCHANGED <<tickets, nextTicketId, comments, nextCommentId, createdAt>>
    BY <2>1 DEF tables
  <2>4. StoreTypeOK'
    BY <1>1, <2>1, <2>3, SeedAssumption
    DEF ListTypeOK, TypeOK, StoreTypeOK, IsTable, DatabaseFails
  <2>5. IInv'
    BY <1>1, <2>1, <2>3, <2>4, OthersStep
  <2>6. NoWalk \in Walk /\ NoHistory \in History
    <3>1. <<>> \in Seq(TicketIds)
      OBVIOUS
    <3> QED BY <3>1 DEF Walk, NoWalk, History, NoHistory
  <2>7. ListTypeOK'
    BY <1>1, <2>1, <2>5, <2>6 DEF ListTypeOK, IInv
  <2>8. ClientOK(c)'
    <3>1. walk'[c].at = "idle" /\ walk'[c].query = Null
      BY <2>2 DEF NoWalk
    <3> QED BY <3>1 DEF ClientOK, Held, HalvesAgree, SteadyIsStill, Met, ShownFirst,
          RestComes, NoneMissed, Walking, ByCreation
  <2> QED BY <2>2, <2>3, <2>5, <2>7, <2>8, OneClient
<1>3. CASE FirstPage(c) \/ ReadStep(c)
  <2>1. ClientOK(c)' /\ ListTypeOK'
    BY <1>3, FirstPageStep, NextPageStep, FindPageStep, CountAllStep, RespondPageStep
    DEF ReadStep
  <2>2. UNCHANGED <<vars, createdAt>>
    BY <1>3 DEF FirstPage, ReadStep, NextPage, FindPage, CountAll, RespondPage, vars
  <2>3. IInv' /\ UNCHANGED <<tickets, createdAt>>
    BY <1>1, <2>2, StutterStep DEF vars, tables
  <2>4. \A d \in Readers \ {c} : walk'[d] = walk[d] /\ history'[d] = history[d]
    BY <1>1, <1>3
    DEF FirstPage, ReadStep, NextPage, FindPage, CountAll, RespondPage, Ask, ListTypeOK
  <2> QED BY <2>1, <2>3, <2>4, OneClient
<1> QED BY <1>2, <1>3

\* The ticket endpoints take a step (Meanwhile).
LEMMA MeanwhileStep == ASSUME LInv, Meanwhile PROVE LInv'
<1>1. [Next]_vars /\ UNCHANGED <<createdAt, walk>> /\ history' = [c \in Readers |-> Observed(c)]
  BY DEF Meanwhile, Next
<1>2. IInv' /\ ListTypeOK
  BY <1>1, NextInv DEF LInv
<1>3. ASSUME NEW c \in Readers PROVE ClientOK(c)' /\ history'[c] \in History
  BY <1>1, <1>3, MeanwhileClient
<1>4. ListTypeOK'
  BY <1>1, <1>2, <1>3 DEF ListTypeOK, IInv
<1> QED BY <1>2, <1>3, <1>4 DEF LInv

\* The process dies (ListCrash).
LEMMA ListCrashStep == ASSUME LInv, ListCrash PROVE LInv'
<1>1. /\ Crash /\ UNCHANGED <<tables, createdAt>>
      /\ walk' = [c \in Readers |-> IF walk[c].at = "queries" THEN NoWalk ELSE walk[c]]
      /\ history' = [c \in Readers |->
           IF walk[c].at = "queries" THEN NoHistory ELSE history[c]]
  BY DEF ListCrash, Crash
<1>2. IInv' /\ ListTypeOK /\ UNCHANGED <<tickets, createdAt>>
  BY <1>1, CrashStep DEF LInv, tables
<1>3. NoWalk \in Walk /\ NoHistory \in History
  <2>1. <<>> \in Seq(TicketIds)
    OBVIOUS
  <2> QED BY <2>1 DEF Walk, NoWalk, History, NoHistory
<1>4. ListTypeOK'
  BY <1>1, <1>2, <1>3 DEF ListTypeOK, IInv
<1>5. ASSUME NEW c \in Readers PROVE ClientOK(c)'
  <2>1. CASE walk[c].at = "queries"
    <3>1. walk'[c].at = "idle" /\ walk'[c].query = Null
      BY <1>1, <2>1 DEF NoWalk
    <3> QED BY <3>1 DEF ClientOK, Held, HalvesAgree, SteadyIsStill, Met, ShownFirst,
          RestComes, NoneMissed, Walking, ByCreation
  <2>2. CASE walk[c].at # "queries"
    BY <1>1, <1>2, <2>2, ClientFrame DEF LInv
  <2> QED BY <2>1, <2>2
<1> QED BY <1>2, <1>4, <1>5 DEF LInv

\* Nobody has asked for a list yet.
LEMMA ListInitInv == ListInit => LInv
<1> SUFFICES ASSUME ListInit PROVE LInv
  OBVIOUS
<1>1. IInv
  BY InitInv DEF ListInit
<1>2. NoWalk \in Walk /\ NoHistory \in History
  <2>1. <<>> \in Seq(TicketIds)
    OBVIOUS
  <2> QED BY <2>1 DEF Walk, NoWalk, History, NoHistory
<1>3. ListTypeOK
  BY <1>1, <1>2, ListAssumption DEF ListInit, ListTypeOK, IInv
<1>4. \A c \in Readers : ClientOK(c)
  BY ClientIdle DEF ListInit
<1> QED BY <1>1, <1>3, <1>4 DEF LInv

\* Every step of the list's clients and of the ticket endpoints preserves the
\* inductive invariant.
LEMMA ListNextInv == ASSUME LInv, [ListNext]_listAllVars PROVE LInv'
<1>1. ASSUME NEW c \in Readers, FirstPage(c) \/ ReadStep(c) \/ ListQueryFails(c)
      PROVE  LInv'
  BY <1>1, ReaderStep
<1>2. CASE Meanwhile
  BY <1>2, MeanwhileStep
<1>3. CASE ListCrash
  BY <1>3, ListCrashStep
<1>4. CASE UNCHANGED listAllVars
  <2>1. UNCHANGED <<vars, createdAt>> /\ walk' = walk /\ history' = history
    BY <1>4 DEF listAllVars, listVars
  <2>2. IInv' /\ ListTypeOK' /\ UNCHANGED <<tickets, createdAt>>
    BY <2>1, StutterStep DEF LInv, IInv, ListTypeOK, vars, tables
  <2>3. ASSUME NEW c \in Readers PROVE ClientOK(c)'
    BY <2>1, <2>2, ClientFrame DEF LInv
  <2> QED BY <2>2, <2>3 DEF LInv
<1> QED BY <1>1, <1>2, <1>3, <1>4 DEF ListNext

LEMMA ListInvariance == ListSpec => []LInv
BY ListInitInv, ListNextInv, PTL DEF ListSpec

\* The clients' and the endpoints' state keeps its types, under every
\* interleaving of pages, totals, writes, failures and crashes.
THEOREM ListTypeCorrect == ListSpec => []ListTypeOK
<1>1. LInv => ListTypeOK
  BY DEF LInv
<1> QED BY <1>1, ListInvariance, PTL

\* For every filter, scope, order and page size, a page and a total read of one
\* set agree on whether there is a next page (getAllTickets, totalPages).
THEOREM PageMeetsTotal == ListSpec => []PageAndTotalAgree
<1>1. ASSUME LInv PROVE PageAndTotalAgree
  <2> SUFFICES ASSUME NEW c \in Readers, walk[c].at = "queries", BothAnswered(c),
                      history[c].still
               PROVE  history[c].more <=> ~LastPage(c)
    BY DEF PageAndTotalAgree
  <2>1. ListTypeOK /\ ClientOK(c)
    BY <1>1 DEF LInv
  <2>2. PICK q, p, total : q = walk[c].query /\ p = walk[c].page /\ total = walk[c].total
    OBVIOUS
  <2>3. q \in ListQuery /\ p \in Nat /\ total \in Nat
    BY <2>1, <2>2, Fields DEF ClientOK, Held, BothAnswered
  <2>4. Taken(c) = p * q.pageSize
    BY <2>2 DEF Taken, Pages, BothAnswered
  <2>5. history[c].more <=> total > p * q.pageSize
    BY <2>1, <2>2, <2>4 DEF ClientOK, HalvesAgree
  <2>6. p >= totalPages(q, total) <=> ~(total > p * q.pageSize)
    BY <2>3, CeilOfPages
  <2> QED BY <2>2, <2>5, <2>6 DEF LastPage
<1> QED BY <1>1, ListInvariance, PTL

\* Sorted by createdAt, no walk shows a ticket twice unless another joined the
\* list before it or shares its createdAt (skip in getAllTickets).
THEOREM NothingRepeated == ListSpec => []WalkRepeatsNothing
<1>1. LInv => WalkRepeatsNothing
  <2> SUFFICES ASSUME LInv, NEW c \in Readers, ByCreation(c),
                      NEW i \in DOMAIN history[c].shown, NEW j \in DOMAIN history[c].shown,
                      i # j, history[c].shown[i] = history[c].shown[j],
                      Settled(c, history[c].shown[i])
               PROVE  FALSE
    BY DEF WalkRepeatsNothing, Settled
  <2>1. ShownFirst(c) /\ history[c].shown[i] \in Shown(c)
    BY DEF LInv, ClientOK, Shown, Range
  <2>2. OnceIn(history[c].shown, history[c].shown[i])
    BY <2>1 DEF ShownFirst
  <2> QED BY <2>2 DEF OnceIn
<1> QED BY <1>1, ListInvariance, PTL

\* Sorted by createdAt, a client that stops where the meta tells it to has seen
\* every ticket of the start that stayed, that no ticket before it left behind
\* and whose createdAt is its own, unless a write came between a page and its
\* total (skip, take and totalPages).
THEOREM NothingMissed == ListSpec => []WalkMissesNothing
<1>1. LInv => WalkMissesNothing
  BY DEF LInv, ClientOK, NoneMissed, Shown, WalkMissesNothing
<1> QED BY <1>1, ListInvariance, PTL
=============================================================================
