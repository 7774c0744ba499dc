------------------------------ MODULE QueryProofs ------------------------------
(***************************************************************************)
(* What the query endpoint promises, for every table, every limit, every   *)
(* number of pages and any number of inserts and archivers meanwhile.      *)
(*                                                                         *)
(* A row's rank is the number of rows newer than it: a page is the rows of *)
(* the ranks from its OFFSET on.  An insert moves rows to higher ranks and *)
(* never to lower ones (RankGrows), so that what the client has not been   *)
(* shown stays behind the pages it has read (WalkRanks): that is why a     *)
(* walk is complete though rows are inserted at the head.                  *)
(***************************************************************************)
EXTENDS Query, FiniteSetTheorems, WellFoundedInduction, TLAPS

------------------------------------------------------------------------------
(* Ranks: the order of the rows of a finite table.                          *)

\* Newer and the number of newer rows, for rows r.
NewerIn(r, i, j) ==
  r[i].captured > r[j].captured \/ (r[i].captured = r[j].captured /\ i > j)
Rank(r, S, id) == Cardinality({j \in S : NewerIn(r, j, id)})

\* A finite table of rows with a time.
Table(r, S) == S \subseteq Nat /\ IsFiniteSet(S) /\ \A id \in S : r[id].captured \in Nat

(* A set of numbers has a least one.                                        *)
LEMMA Least ==
  ASSUME NEW N \in SUBSET Nat, N # {}
  PROVE  \E x \in N : \A y \in N : x <= y
<1> DEFINE R == {p \in Nat \X Nat : p[1] < p[2]}
<1>1. IsWellFoundedOn(R, Nat)
  BY NatLessThanWellFounded DEF OpToRel
<1>2. \E x \in N : \A y \in N : <<y, x>> \notin R
  <2> HIDE DEF R
  <2> QED BY <1>1, WFMin
<1>3. \A x, y \in Nat : <<y, x>> \notin R => x <= y
  OBVIOUS
<1> QED
  BY <1>2, <1>3

(* A rank is a number below the size of the table.                          *)
LEMMA RankType ==
  ASSUME NEW r, NEW S, Table(r, S), NEW id \in S
  PROVE  /\ IsFiniteSet({j \in S : NewerIn(r, j, id)})
         /\ Rank(r, S, id) \in Nat
         /\ Cardinality(S) \in Nat
         /\ Rank(r, S, id) < Cardinality(S)
<1> DEFINE N == {j \in S : NewerIn(r, j, id)}
<1>1. N \subseteq S /\ id \notin N
  <2>1. ~NewerIn(r, id, id)
    BY DEF NewerIn, Table
  <2> QED
    BY <2>1
<1> HIDE DEF N
<1>2. /\ IsFiniteSet(N) /\ Cardinality(N) <= Cardinality(S)
      /\ Cardinality(N) = Cardinality(S) => N = S
  BY <1>1, FS_Subset DEF Table
<1>3. Cardinality(N) \in Nat /\ Cardinality(S) \in Nat
  BY <1>2, FS_CardinalityType DEF Table
<1>4. Cardinality(N) # Cardinality(S)
  BY <1>1, <1>2
<1>5. Cardinality(N) < Cardinality(S)
  BY <1>2, <1>3, <1>4
<1> QED
  BY <1>2, <1>3, <1>5 DEF N, Rank

(* A newer row has a smaller rank.                                          *)
LEMMA RankOrder ==
  ASSUME NEW r, NEW S, Table(r, S), NEW i \in S, NEW k \in S, NewerIn(r, i, k)
  PROVE  Rank(r, S, i) < Rank(r, S, k)
<1> DEFINE I == {j \in S : NewerIn(r, j, i)}
           K == {j \in S : NewerIn(r, j, k)}
<1>1. i \notin I /\ i \in K
  BY DEF NewerIn, Table
<1>2. I \subseteq K
  <2>1. ASSUME NEW j \in S, NewerIn(r, j, i) PROVE NewerIn(r, j, k)
    <3>1. /\ r[i].captured \in Nat /\ r[j].captured \in Nat /\ r[k].captured \in Nat
          /\ i \in Nat /\ j \in Nat /\ k \in Nat
      BY <2>1 DEF Table
    <3> QED
      BY <2>1, <3>1 DEF NewerIn
  <2> QED
    BY <2>1
<1>3. IsFiniteSet(I) /\ IsFiniteSet(K)
  BY RankType
<1> HIDE DEF I, K
<1>4. Cardinality(I) <= Cardinality(K) /\ (Cardinality(I) = Cardinality(K) => I = K)
  BY <1>2, <1>3, FS_Subset
<1>5. Cardinality(I) \in Nat /\ Cardinality(K) \in Nat
  BY <1>3, FS_CardinalityType
<1>6. Cardinality(I) < Cardinality(K)
  BY <1>1, <1>4, <1>5
<1> QED
  BY <1>6 DEF Rank, I, K

(* No two rows have one rank.                                               *)
LEMMA RankUnique ==
  ASSUME NEW r, NEW S, Table(r, S), NEW i \in S, NEW k \in S, i # k
  PROVE  Rank(r, S, i) # Rank(r, S, k)
<1>1. NewerIn(r, i, k) \/ NewerIn(r, k, i)
  BY DEF NewerIn, Table
<1>2. Rank(r, S, i) \in Nat /\ Rank(r, S, k) \in Nat
  BY RankType
<1>3. Rank(r, S, i) < Rank(r, S, k) \/ Rank(r, S, k) < Rank(r, S, i)
  BY <1>1, RankOrder
<1> QED
  BY <1>2, <1>3

\* The rows of ranks from a up to b.
Between(r, S, a, b) == {id \in S : a <= Rank(r, S, id) /\ Rank(r, S, id) < b}

(* There are no more rows than ranks.                                       *)
LEMMA BetweenSize ==
  ASSUME NEW r, NEW S, Table(r, S), NEW a \in Nat, NEW b \in Nat, a <= b
  PROVE  /\ IsFiniteSet(Between(r, S, a, b))
         /\ Cardinality(Between(r, S, a, b)) \in Nat
         /\ Cardinality(Between(r, S, a, b)) <= b - a
<1> DEFINE B == Between(r, S, a, b)
           T == a .. (b - 1)
           f == [id \in B |-> Rank(r, S, id)]
<1>1. IsFiniteSet(B) /\ Cardinality(B) \in Nat
  <2>1. B \subseteq S
    BY DEF Between
  <2>2. IsFiniteSet(B)
    BY <2>1, FS_Subset DEF Table
  <2> QED
    BY <2>2, FS_CardinalityType
<1>2. IsFiniteSet(T) /\ Cardinality(T) = b - a
  <2>1. a \in Int /\ b - 1 \in Int /\ (a > b - 1 <=> a = b)
    OBVIOUS
  <2> DEFINE c == b - 1
  <2>2. c \in Int /\ c - a + 1 = b - a /\ (a > c => b - a = 0)
    OBVIOUS
  <2> HIDE DEF c
  <2>3. IsFiniteSet(a .. c) /\ Cardinality(a .. c) = IF a > c THEN 0 ELSE c - a + 1
    BY <2>1, <2>2, FS_Interval
  <2>4. IsFiniteSet(a .. c) /\ Cardinality(a .. c) = b - a
    BY <2>2, <2>3
  <2> QED
    BY <2>4 DEF c
<1>3. f \in [B -> T]
  <2>1. ASSUME NEW id \in B PROVE Rank(r, S, id) \in T
    <3>1. id \in S /\ a <= Rank(r, S, id) /\ Rank(r, S, id) < b
      BY DEF Between
    <3>2. Rank(r, S, id) \in Nat
      BY <3>1, RankType
    <3> QED
      BY <3>1, <3>2
  <2> QED
    BY <2>1
<1>4. \A x, y \in B : x # y => f[x] # f[y]
  <2>1. ASSUME NEW x \in B, NEW y \in B, x # y PROVE Rank(r, S, x) # Rank(r, S, y)
    <3>1. x \in S /\ y \in S
      BY DEF Between
    <3> QED
      BY <2>1, <3>1, RankUnique
  <2> QED
    BY <2>1
<1> HIDE DEF B, T, f
<1>5. ~(Cardinality(T) < Cardinality(B))
  BY <1>1, <1>2, <1>3, <1>4, FS_PigeonHole
<1>6. Cardinality(B) <= b - a
  BY <1>1, <1>2, <1>5
<1> QED
  BY <1>1, <1>6 DEF B

(* If there is a row of rank n or more, there are n rows of smaller ranks.  *)
LEMMA BelowSize ==
  ASSUME NEW r, NEW S, Table(r, S), NEW n \in Nat, NEW x \in S, n <= Rank(r, S, x)
  PROVE  n <= Cardinality(Between(r, S, 0, n))
<1> DEFINE N == {Rank(r, S, id) : id \in {y \in S : n <= Rank(r, S, y)}}
<1>1. N \subseteq Nat /\ N # {}
  <2>1. \A y \in S : Rank(r, S, y) \in Nat
    BY RankType
  <2>2. Rank(r, S, x) \in N
    OBVIOUS
  <2>3. N \subseteq Nat
    BY <2>1
  <2> QED
    BY <2>2, <2>3
<1>2. PICK m \in N : \A k \in N : m <= k
  BY <1>1, Least
<1>3. PICK y \in S : Rank(r, S, y) = m /\ n <= m
  BY <1>2
<1> DEFINE Y == {j \in S : NewerIn(r, j, y)}
<1>4. Y \subseteq Between(r, S, 0, n)
  <2>1. ASSUME NEW j \in S, NewerIn(r, j, y) PROVE Rank(r, S, j) < n /\ 0 <= Rank(r, S, j)
    <3>1. Rank(r, S, j) < Rank(r, S, y) /\ Rank(r, S, j) \in Nat /\ Rank(r, S, y) \in Nat
      BY <2>1, RankOrder, RankType
    <3>2. n <= Rank(r, S, j) => m <= Rank(r, S, j)
      BY <1>2
    <3> QED
      BY <1>3, <3>1, <3>2
  <2> QED
    BY <2>1 DEF Between
<1>5. IsFiniteSet(Between(r, S, 0, n)) /\ Cardinality(Between(r, S, 0, n)) \in Nat
  BY BetweenSize
<1>6. IsFiniteSet(Y) /\ Cardinality(Y) = m /\ Cardinality(Y) \in Nat
  BY <1>3, RankType DEF Rank
<1> HIDE DEF Y
<1>7. Cardinality(Y) <= Cardinality(Between(r, S, 0, n))
  BY <1>4, <1>5, FS_Subset
<1> QED
  BY <1>3, <1>5, <1>6, <1>7

(* A page that is not full is the last: no row has a rank beyond it.        *)
LEMMA ShortPage ==
  ASSUME NEW r, NEW S, Table(r, S), NEW a \in Nat, NEW n \in Nat,
         Cardinality(Between(r, S, a, a + n)) < n
  PROVE  \A x \in S : Rank(r, S, x) < a + n
<1> SUFFICES ASSUME NEW x \in S, ~(Rank(r, S, x) < a + n) PROVE FALSE
  OBVIOUS
<1> DEFINE P == Between(r, S, a, a + n)
           Q == Between(r, S, 0, a)
           All == Between(r, S, 0, a + n)
<1>1. a + n \in Nat /\ a + n <= Rank(r, S, x)
  <2>1. Rank(r, S, x) \in Nat
    BY RankType
  <2> QED
    BY <2>1
<1>2. a + n <= Cardinality(All)
  BY <1>1, BelowSize
<1>3. IsFiniteSet(P) /\ Cardinality(P) \in Nat
  BY <1>1, BetweenSize
<1>4. IsFiniteSet(Q) /\ Cardinality(Q) \in Nat /\ Cardinality(Q) <= a
  <2>1. Cardinality(Q) <= a - 0
    BY BetweenSize
  <2> QED
    BY <2>1, BetweenSize
<1>5. All = P \cup Q
  <2>1. \A id \in S : Rank(r, S, id) \in Nat
    BY RankType
  <2> QED
    BY <2>1 DEF Between
<1> HIDE DEF P, Q, All
<1>6. Cardinality(P \cap Q) \in Nat
  <2>1. IsFiniteSet(P \cap Q)
    BY <1>3, FS_Intersection
  <2> QED
    BY <2>1, FS_CardinalityType
<1>7. Cardinality(All) = Cardinality(P) + Cardinality(Q) - Cardinality(P \cap Q)
  <2>1. Cardinality(P \cup Q) = Cardinality(P) + Cardinality(Q) - Cardinality(P \cap Q)
    BY <1>3, <1>4, FS_Union
  <2> QED
    BY <1>5, <2>1
<1>8. Cardinality(P) < n
  BY DEF P
<1> DEFINE p == Cardinality(P)  q == Cardinality(Q)  both == Cardinality(P \cap Q)
           all == Cardinality(All)
<1>9. /\ p \in Nat /\ q \in Nat /\ both \in Nat
      /\ q <= a /\ p < n /\ all = p + q - both /\ a + n <= all
  BY <1>2, <1>3, <1>4, <1>6, <1>7, <1>8
<1> HIDE DEF p, q, both, all
<1> QED
  BY <1>9

(* A full page shows that the table reaches to its end.                     *)
LEMMA FullPage ==
  ASSUME NEW r, NEW S, Table(r, S), NEW a \in Nat, NEW n \in Nat \ {0},
         n <= Cardinality(Between(r, S, a, a + n))
  PROVE  a + n <= Cardinality(S)
<1> DEFINE P == Between(r, S, a, a + n)
           Less == Between(r, S, a, a + n - 1)
<1>1. Cardinality(P) \in Nat /\ n <= Cardinality(P)
  BY BetweenSize
<1>2. Cardinality(Less) \in Nat /\ Cardinality(Less) <= n - 1
  <2>1. a + n - 1 \in Nat /\ a <= a + n - 1 /\ (a + n - 1) - a = n - 1
    OBVIOUS
  <2> QED
    BY <2>1, BetweenSize
<1>3. P # Less
  <2> HIDE DEF P, Less
  <2> QED BY <1>1, <1>2
<1>4. PICK x \in S : Rank(r, S, x) >= a + n - 1
  <2>1. \A id \in S : Rank(r, S, id) \in Nat
    BY RankType
  <2> QED
    BY <1>3, <2>1 DEF Between
<1>5. Rank(r, S, x) < Cardinality(S) /\ Cardinality(S) \in Nat /\ Rank(r, S, x) \in Nat
  BY RankType
<1> QED
  BY <1>4, <1>5

(* A row that comes in pushes no other one forward.                         *)
LEMMA RankGrows ==
  ASSUME NEW r, NEW q, NEW S, NEW T, Table(r, S), Table(q, T), S \subseteq T,
         \A id \in S : q[id] = r[id], NEW x \in S
  PROVE  Rank(r, S, x) <= Rank(q, T, x)
<1> DEFINE X == {j \in S : NewerIn(r, j, x)}
           Y == {j \in T : NewerIn(q, j, x)}
<1>1. X \subseteq Y
  BY DEF NewerIn
<1>2. IsFiniteSet(Y)
  BY RankType
<1> HIDE DEF X, Y
<1>3. Cardinality(X) <= Cardinality(Y)
  BY <1>1, <1>2, FS_Subset
<1> QED
  BY <1>3 DEF Rank, X, Y

------------------------------------------------------------------------------
(* The store under the queries.                                             *)

StoreFacts == INSTANCE HotStoreProofs

(* What the queries rely on: types, no row lost but in the race, and no     *)
(* archive file written twice.                                              *)
StoreOK ==
  /\ Store!TypeOK
  /\ Store!LossOnlyInRace
  /\ \A g \in Store!Goroutines : archiver[g] = "vacuum" => g \notin DOMAIN archives

(* Queries read: the store takes its own steps or none.                     *)
LEMMA NextIsStoreStep == [Next]_vars => [Store!Next]_(Store!storeVars)
<1>1. ServeHTTP => UNCHANGED storeVars
  BY DEF ServeHTTP, RawCount, RawCountNext, RawPage, serveRange, NoteArchives, serveArchive,
         serveLatest, GiveUp
<1>2. Insert => Store!Insert
  BY DEF Insert, Store!Insert
<1>3. \A g \in Store!Goroutines : ArchiverStep(g) => Store!Next
  BY DEF ArchiverStep, Store!Next, Store!Archive
<1>4. Crash => Store!Next
  BY DEF Crash, Store!Next
<1>5. UNCHANGED vars => UNCHANGED storeVars
  BY DEF vars
<1>6. Store!Insert => Store!Next
  BY DEF Store!Next
<1>7. UNCHANGED storeVars => UNCHANGED Store!storeVars
  BY DEF storeVars, Store!storeVars
<1> QED
  BY <1>1, <1>2, <1>3, <1>4, <1>5, <1>6, <1>7 DEF Next

(* Store and StoreFacts are one instance of HotStore.                       *)
LEMMA SameStore == Store!Spec => StoreFacts!Spec
<1>1. Store!Init => StoreFacts!Init
  BY DEF Store!Init, StoreFacts!Init
<1>2. [Store!Next]_(Store!storeVars) => [StoreFacts!Next]_(StoreFacts!storeVars)
  <2>1. \A row \in Row : Store!InsertBatch(row) => StoreFacts!InsertBatch(row)
    BY DEF Store!InsertBatch, StoreFacts!InsertBatch, Store!NextId, StoreFacts!NextId,
           Store!Put, StoreFacts!Put, Store!Clearing, StoreFacts!Clearing,
           Store!Goroutines, StoreFacts!Goroutines
  <2>2. Store!Insert => StoreFacts!Insert
    BY <2>1 DEF Store!Insert, StoreFacts!Insert
  <2>3. Store!TableFull <=> StoreFacts!TableFull
    BY DEF Store!TableFull, StoreFacts!TableFull, Store!Cardinality,
           StoreFacts!Cardinality
  <2>4. \A g : Store!Archive(g) => StoreFacts!Archive(g)
    BY <2>3 DEF Store!Archive, StoreFacts!Archive, Store!ArchiveCount, StoreFacts!ArchiveCount,
           Store!ArchiveVacuum, StoreFacts!ArchiveVacuum, Store!ArchiveClear,
           StoreFacts!ArchiveClear,
           Store!Put, StoreFacts!Put
  <2>5. \A g : Store!ArchiveFails(g) => StoreFacts!ArchiveFails(g)
    BY DEF Store!ArchiveFails, StoreFacts!ArchiveFails, Store!Live, StoreFacts!Live
  <2>6. Store!CrashAndReopen => StoreFacts!CrashAndReopen
    BY DEF Store!CrashAndReopen, StoreFacts!CrashAndReopen, Store!Live, StoreFacts!Live,
           Store!Goroutines, StoreFacts!Goroutines
  <2>7. Store!Goroutines = StoreFacts!Goroutines
    BY DEF Store!Goroutines, StoreFacts!Goroutines
  <2>8. Store!Next => StoreFacts!Next
    BY <2>2, <2>4, <2>5, <2>6, <2>7 DEF Store!Next, StoreFacts!Next
  <2> QED
    BY <2>8 DEF Store!storeVars, StoreFacts!storeVars
<1> QED
  BY <1>1, <1>2, PTL DEF Store!Spec, StoreFacts!Spec

(* HotStore's invariant holds under the queries.                            *)
LEMMA StoreIsOK == Spec => []StoreOK
<1>1. StoreFacts!IInv => StoreOK
  <2>1. StoreFacts!TypeOK => Store!TypeOK
    BY DEF StoreFacts!TypeOK, Store!TypeOK, StoreFacts!ArchiverState, Store!ArchiverState,
           StoreFacts!Live, Store!Live
  <2>2. StoreFacts!LossOnlyInRace => Store!LossOnlyInRace
    BY DEF StoreFacts!LossOnlyInRace, Store!LossOnlyInRace, StoreFacts!Lost, Store!Lost,
           StoreFacts!Archived, Store!Archived
  <2>3. StoreFacts!ArchiveStage =>
          \A g \in Store!Goroutines : archiver[g] = "vacuum" => g \notin DOMAIN archives
    BY DEF StoreFacts!ArchiveStage, Store!Goroutines, StoreFacts!Goroutines
  <2> QED
    BY <2>1, <2>2, <2>3 DEF StoreFacts!IInv, StoreOK
<1>2. Init => Store!Init
  BY DEF Init
<1>3. Spec => Store!Spec
  BY <1>2, NextIsStoreStep, PTL DEF Spec, Store!Spec
<1> QED
  BY <1>1, <1>3, EntriesAssumption, SameStore, StoreFacts!HotStoreInvariant, PTL

------------------------------------------------------------------------------
(* The tables of the queries.                                               *)

(* Ids that were given out form a finite table.                             *)
LEMMA StoredTable ==
  ASSUME Store!TypeOK, NEW S, S \subseteq 1 .. lastId
  PROVE  Table(rows, S)
<1>1. IsFiniteSet(S)
  <2>1. IsFiniteSet(1 .. lastId)
    BY FS_Interval DEF Store!TypeOK
  <2> QED
    BY <2>1, FS_Subset
<1>2. S \subseteq Nat
  BY DEF Store!TypeOK
<1>3. \A id \in S : rows[id].captured \in Nat
  <2>1. \A id \in S : rows[id] \in Row
    BY DEF Store!TypeOK
  <2> QED
    BY <2>1, TimeAssumption
<1> QED
  BY <1>1, <1>2, <1>3 DEF Table

(* A slice is the rows of its ranks.                                        *)
LEMMA SliceRanks ==
  \A S, a, n : Slice(S, a, n) = Between(rows, S, a, a + n)
BY DEF Slice, Between, Rank, NewerIn, Newer

(* An answer from the head that is not full holds everything.               *)
LEMMA ShortHead ==
  ASSUME NEW S, Table(rows, S), NEW n \in Nat, Cardinality(Slice(S, 0, n)) < n
  PROVE  S \subseteq Slice(S, 0, n)
<1>1. Slice(S, 0, n) = Between(rows, S, 0, 0 + n)
  BY SliceRanks
<1>2. \A x \in S : Rank(rows, S, x) < 0 + n
  BY <1>1, ShortPage
<1>3. \A x \in S : Rank(rows, S, x) \in Nat
  BY RankType
<1> QED
  BY <1>1, <1>2, <1>3 DEF Between

(* The latest row is one, and no row is newer.                              *)
LEMMA LatestRow ==
  ASSUME NEW S, Table(rows, S), NEW j \in Slice(S, 0, 1)
  PROVE  /\ j \in S
         /\ \A i \in S : rows[i].captured <= rows[j].captured
         /\ \A k \in Slice(S, 0, 1) : k = j
<1>1. \A i \in Slice(S, 0, 1) : i \in S /\ Rank(rows, S, i) = 0
  <2>1. \A i \in Slice(S, 0, 1) : i \in S /\ 0 <= Rank(rows, S, i) /\ Rank(rows, S, i) < 0 + 1
    BY SliceRanks DEF Between
  <2>2. \A i \in S : Rank(rows, S, i) \in Nat
    BY RankType
  <2> QED
    BY <2>1, <2>2
<1>2. \A i \in Slice(S, 0, 1) : i = j
  BY <1>1, RankUnique
<1>3. \A i \in S : rows[i].captured <= rows[j].captured
  <2> SUFFICES ASSUME NEW i \in S, ~(rows[i].captured <= rows[j].captured) PROVE FALSE
    OBVIOUS
  <2>1. NewerIn(rows, i, j)
    <3>1. j \in S /\ rows[i].captured \in Nat /\ rows[j].captured \in Nat
      BY <1>1 DEF Table
    <3> QED
      BY <3>1 DEF NewerIn
  <2>2. Rank(rows, S, i) < Rank(rows, S, j)
    BY <1>1, <2>1, RankOrder
  <2>3. Rank(rows, S, i) \in Nat
    BY RankType
  <2> QED
    BY <1>1, <2>2, <2>3
<1> QED
  BY <1>1, <1>2, <1>3

(* What the model inserts.                                                  *)
LEMMA InsertGrows ==
  ASSUME Store!TypeOK, NEW row \in Row, Store!InsertBatch(row)
  PROVE  /\ lastId' = lastId + 1
         /\ lastId \in Nat
         /\ hot' = hot \cup {lastId + 1}
         /\ archives' = archives
         /\ raced \subseteq raced'
         /\ \A id \in 1 .. lastId : rows'[id] = rows[id]
         /\ rows'[lastId + 1] = row
         /\ 1 .. lastId' = (1 .. lastId) \cup {lastId + 1}
         /\ lastId + 1 \notin 1 .. lastId
<1>1. /\ lastId' = lastId + 1
      /\ hot' = hot \cup {lastId + 1}
      /\ archives' = archives
      /\ raced \subseteq raced'
      /\ rows' = Store!Put(rows, lastId + 1, row)
  BY DEF Store!InsertBatch, Store!NextId
<1>2. lastId \in Nat /\ DOMAIN rows = 1 .. lastId
  BY DEF Store!TypeOK
<1>3. /\ 1 .. lastId' = (1 .. lastId) \cup {lastId + 1}
      /\ lastId + 1 \notin 1 .. lastId
  BY <1>1, <1>2
<1> QED
  BY <1>1, <1>2, <1>3 DEF Store!Put

------------------------------------------------------------------------------
(* Types.                                                                   *)

OwnTypeOK ==
  /\ lastId <= MaxRows
  /\ pc \in {"idle", "page", "walk", "range", "survey", "poll"}
  /\ ask \in Ask
  /\ total \in 0 .. MaxRows
  /\ base \subseteq 1 .. lastId /\ got \subseteq 1 .. lastId
  /\ todo \subseteq DOMAIN archives
  /\ events \subseteq Event

(* A count of matching rows fits a total.                                   *)
LEMMA FoundSize ==
  ASSUME Store!TypeOK, lastId <= MaxRows
  PROVE  /\ Matching(hot) \subseteq hot
         /\ Cardinality(Matching(hot)) \in 0 .. MaxRows
<1>1. Matching(hot) \subseteq 1 .. lastId /\ Matching(hot) \subseteq hot
  BY DEF Matching, Store!TypeOK
<1>2. IsFiniteSet(1 .. lastId) /\ Cardinality(1 .. lastId) = lastId
  BY FS_Interval DEF Store!TypeOK
<1> HIDE DEF Matching
<1>3. Cardinality(Matching(hot)) \in Nat /\ Cardinality(Matching(hot)) <= lastId
  BY <1>1, <1>2, FS_Subset, FS_CardinalityType
<1> QED
  BY <1>1, <1>3, IntAssumption DEF Store!TypeOK

(* Types, initially.                                                        *)
LEMMA InitOwnTypeOK == Init => OwnTypeOK
<1> SUFFICES ASSUME Init PROVE OwnTypeOK
  OBVIOUS
<1>1. ask \in Ask
  BY LimitAssumption, PageAssumption DEF Init, Ask
<1>2. lastId <= MaxRows /\ total \in 0 .. MaxRows
  BY IntAssumption DEF Init, Store!Init
<1> QED
  BY <1>1, <1>2 DEF Init, OwnTypeOK, Store!Init

(* ForgetAll leaves an Ask.                                                 *)
LEMMA ForgottenAsk ==
  ASSUME ask \in Ask, ForgetAll
  PROVE  ask' \in Ask
<1>1. 0 \in 0 .. MaxPage /\ 1 \in 1 .. MaxPageLimit
  BY LimitAssumption, PageAssumption
<1> DEFINE first == [ask EXCEPT !.page = 0]
<1>2. first \in Ask
  BY <1>1 DEF Ask
<1>3. ask' = [first EXCEPT !.limit = 1]
  BY DEF ForgetAll, Ask
<1> HIDE DEF first
<1> QED
  BY <1>1, <1>2, <1>3 DEF Ask

(* Every step keeps the client's types.                                     *)
LEMMA NextOwnTypeOK == StoreOK /\ OwnTypeOK /\ [Next]_vars => OwnTypeOK'
<1> SUFFICES ASSUME StoreOK, OwnTypeOK, [Next]_vars PROVE OwnTypeOK'
  OBVIOUS
<1> USE DEF OwnTypeOK
<1>1. /\ Store!TypeOK
      /\ hot \subseteq 1 .. lastId
      /\ \A g \in DOMAIN archives : archives[g] \subseteq 1 .. lastId
      /\ lastId \in Nat
  BY DEF StoreOK, Store!TypeOK
<1>2. Cardinality(Matching(hot)) \in 0 .. MaxRows /\ Matching(hot) \subseteq 1 .. lastId
  BY <1>1, FoundSize
<1>3. \A S, a, n : Slice(S, a, n) \subseteq S
  BY DEF Slice
<1>4. ASSUME ForgetAll, UNCHANGED storeVars PROVE OwnTypeOK'
  <2>1. ask' \in Ask
    BY <1>4, ForgottenAsk
  <2>2. total' \in 0 .. MaxRows
    BY <1>4, IntAssumption DEF ForgetAll
  <2> QED
    BY <1>4, <2>1, <2>2 DEF ForgetAll, storeVars
<1>5. ASSUME NEW limit \in 0 .. MaxPageLimit, RawCount(ClampLimit(limit)) PROVE OwnTypeOK'
  <2>1. ClampLimit(limit) \in 1 .. MaxPageLimit
    BY LimitAssumption DEF ClampLimit
  <2>2. ask' \in Ask
    BY <1>5, <2>1 DEF RawCount, Ask
  <2> QED
    BY <1>2, <1>5, <2>2 DEF RawCount, Count, storeVars
<1>6. CASE RawCountNext
  <2>1. ask' \in Ask
    BY <1>6, PageAssumption DEF RawCountNext, Ask
  <2> QED
    BY <1>2, <1>6, <2>1 DEF RawCountNext, Count, storeVars
<1>7. CASE RawPage
  <2>1. events' \subseteq Event
    BY <1>7 DEF RawPage, Event
  <2>2. base' \subseteq 1 .. lastId /\ got' \subseteq 1 .. lastId
    BY <1>2, <1>3, <1>7 DEF RawPage
  <2> QED
    BY <1>7, <2>1, <2>2 DEF RawPage, storeVars
<1>8. CASE serveRange
  <2>1. base' \subseteq 1 .. lastId /\ got' \subseteq 1 .. lastId
    <3>1. \A S : Matching(S) \subseteq S
      BY DEF Matching
    <3> QED
      BY <1>1, <1>3, <1>8, <3>1 DEF serveRange, Newest
  <2> QED
    BY <1>8, <2>1 DEF serveRange, Event, storeVars
<1>16. CASE NoteArchives
  BY <1>16 DEF NoteArchives, storeVars
<1>9. ASSUME NEW g \in todo, serveArchive(g) PROVE OwnTypeOK'
  <2>1. got' \subseteq 1 .. lastId
    <3>1. \A S : Matching(S) \subseteq S
      BY DEF Matching
    <3> QED
      BY <1>1, <1>3, <1>9, <3>1 DEF serveArchive, Newest
  <2> QED
    BY <1>9, <2>1 DEF serveArchive, storeVars
<1>10. CASE serveLatest
  <2>1. got' \subseteq 1 .. lastId
    BY <1>1, <1>3, <1>10 DEF serveLatest
  <2> QED
    BY <1>10, <2>1 DEF serveLatest, storeVars
<1>11. CASE GiveUp
  BY <1>4, <1>11 DEF GiveUp
<1>12. CASE Insert
  <2>1. PICK row \in Row : /\ lastId < MaxRows
                           /\ Store!InsertBatch(row)
                           /\ events' \subseteq events \cup {"inserted", "between"}
                           /\ UNCHANGED <<pc, ask, total, base, got, todo>>
    BY <1>12 DEF Insert, Meanwhile
  <2>2. lastId' = lastId + 1 /\ archives' = archives /\ 1 .. lastId \subseteq 1 .. lastId'
    BY <1>1, <2>1, InsertGrows
  <2> QED
    BY <1>1, <2>1, <2>2, IntAssumption DEF Event
<1>13. ASSUME NEW g \in Store!Goroutines, ArchiverStep(g) PROVE OwnTypeOK'
  <2>1. /\ lastId' = lastId
        /\ DOMAIN archives \subseteq DOMAIN archives'
        /\ UNCHANGED <<pc, ask, total, base, todo>>
        /\ got' \subseteq got
        /\ events' \subseteq events \cup {"cleared"}
    BY <1>13 DEF ArchiverStep, Store!ArchiveCount, Store!ArchiveVacuum, Store!ArchiveFails,
           Store!ArchiveClear, Store!Put, Meanwhile, clientVars
  <2> QED
    BY <2>1 DEF Event
<1>14. CASE Crash
  <2>1. UNCHANGED <<lastId, archives>>
    BY <1>14 DEF Crash, Store!CrashAndReopen
  <2>2. CASE pc = "page"
    <3>1. ask' \in Ask
      BY <1>14, <2>2, ForgottenAsk DEF Crash
    <3>2. total' \in 0 .. MaxRows
      BY <1>14, <2>2, IntAssumption DEF Crash, ForgetAll
    <3> QED
      BY <1>14, <2>1, <2>2, <3>1, <3>2 DEF Crash, ForgetAll
  <2>3. CASE pc # "page"
    BY <1>14, <2>1, <2>3 DEF Crash, clientVars
  <2> QED
    BY <2>2, <2>3
<1>15. CASE UNCHANGED vars
  BY <1>15 DEF vars, storeVars, clientVars
<1> QED
  BY <1>5, <1>6, <1>7, <1>8, <1>9, <1>10, <1>11, <1>12, <1>13, <1>14, <1>15, <1>16
     DEF Next, ServeHTTP

(* Types of the store and of the client.                                    *)
THEOREM QueryTypeOK == Spec => []TypeOK
<1>1. StoreOK /\ OwnTypeOK => TypeOK
  BY DEF StoreOK, OwnTypeOK, TypeOK
<1> QED
  BY <1>1, StoreIsOK, InitOwnTypeOK, NextOwnTypeOK, PTL DEF Spec

------------------------------------------------------------------------------
(* The latest batch.                                                        *)

(* Who polls has seen at most one row, and it is still in the table.        *)
LatestInv ==
  pc = "poll" =>
    /\ got \subseteq {id \in hot : rows[id].agent = ask.agent}
    /\ \A i, j \in got : i = j

NeverOlder == \A i \in got, j \in got' : rows[i].captured <= rows[j].captured

(* Every step keeps the polled row, or replaces it by one that is no older. *)
(* Every step keeps the polled row or replaces it by one no older.          *)
LEMMA NextLatest ==
  ASSUME StoreOK, OwnTypeOK, LatestInv, [Next]_vars
  PROVE  LatestInv' /\ (pc = "poll" /\ pc' = "poll" => NeverOlder)
<1> SUFFICES ASSUME pc' = "poll" PROVE LatestInv' /\ (pc = "poll" => NeverOlder)
  BY DEF LatestInv
<1>1. /\ Store!TypeOK
      /\ hot \subseteq 1 .. lastId
      /\ got \subseteq 1 .. lastId
  BY DEF StoreOK, Store!TypeOK, OwnTypeOK
<1>2. \A i \in got : rows[i].captured <= rows[i].captured
  <2>1. Table(rows, got)
    BY <1>1, StoredTable
  <2> QED
    BY <2>1 DEF Table
<1>3. CASE serveLatest
  <2> DEFINE S == {id \in hot : rows[id].agent = ask.agent}
  <2>1. Table(rows, S)
    BY <1>1, StoredTable
  <2>2. got' = Slice(S, 0, 1) /\ UNCHANGED <<hot, rows, ask>>
    BY <1>3 DEF serveLatest, storeVars
  <2>3. /\ pc = "poll" => got \subseteq S
        /\ \A id \in S : id \in hot /\ rows[id].agent = ask.agent
    BY DEF LatestInv
  <2> HIDE DEF S
  <2>4. \A j \in got' : /\ j \in S
                        /\ \A i \in S : rows[i].captured <= rows[j].captured
                        /\ \A k \in got' : k = j
    BY <2>1, <2>2, LatestRow
  <2>5. LatestInv'
    BY <2>2, <2>3, <2>4 DEF LatestInv
  <2>6. pc = "poll" => NeverOlder
    BY <2>3, <2>4 DEF NeverOlder
  <2> QED
    BY <2>5, <2>6
<1>4. CASE Insert
  <2>1. PICK row \in Row : Store!InsertBatch(row) /\ UNCHANGED <<pc, ask, got>>
    BY <1>4 DEF Insert
  <2>2. hot \subseteq hot' /\ \A id \in 1 .. lastId : rows'[id] = rows[id]
    BY <1>1, <2>1, InsertGrows
  <2> QED
    BY <1>1, <1>2, <2>1, <2>2 DEF LatestInv, NeverOlder
<1>5. ASSUME UNCHANGED <<pc, ask, got, hot, rows>> PROVE LatestInv' /\ (pc = "poll" => NeverOlder)
  BY <1>2, <1>5 DEF LatestInv, NeverOlder
<1>6. ASSUME NEW g \in Store!Goroutines, ArchiverStep(g)
      PROVE  LatestInv' /\ (pc = "poll" => NeverOlder)
  <2>1. CASE Store!ArchiveClear(g) /\ got' = {}
    BY <2>1 DEF LatestInv, NeverOlder
  <2>2. CASE UNCHANGED <<pc, ask, got, hot, rows>>
    BY <1>5, <2>2
  <2> QED
    BY <1>6, <2>1, <2>2 DEF ArchiverStep, clientVars, Store!ArchiveCount, Store!ArchiveVacuum,
       Store!ArchiveFails
<1>7. CASE Crash
  BY <1>5, <1>7 DEF Crash, ForgetAll, Store!CrashAndReopen, clientVars
<1>8. CASE UNCHANGED vars
  BY <1>5, <1>8 DEF vars, clientVars, storeVars
<1>9. CASE ServeHTTP
  BY <1>3, <1>9 DEF ServeHTTP, RawCount, RawCountNext, RawPage, serveRange, NoteArchives,
     serveArchive, GiveUp, ForgetAll
<1> QED
  BY <1>4, <1>6, <1>7, <1>8, <1>9 DEF Next

(* The latest batch never goes back in time, whatever arrives late.         *)
THEOREM QueryLatestNeverOlder == Spec => LatestNeverOlder
<1>1. Init => LatestInv
  BY DEF Init, LatestInv
<1>2. StoreOK /\ OwnTypeOK /\ LatestInv /\ [Next]_vars => LatestInv'
  BY NextLatest
<1>3. StoreOK /\ OwnTypeOK /\ LatestInv /\ [Next]_vars =>
        [pc = "poll" /\ pc' = "poll" =>
           \A i \in got, j \in got' : rows[i].captured <= rows[j].captured]_vars
  BY NextLatest DEF NeverOlder
<1> QED
  BY <1>1, <1>2, <1>3, StoreIsOK, InitOwnTypeOK, NextOwnTypeOK, PTL
     DEF Spec, LatestNeverOlder

------------------------------------------------------------------------------
(* The range and the archive files.                                         *)

(* What the client has not been shown yet, of what was stored when it read  *)
(* the range, is in a file it has not read, or was lost in the race.  Before *)
(* it has looked which files there are it has read none of them.            *)
Surveying == pc \in {"range", "survey"}
Unread == IF pc = "range" THEN DOMAIN archives ELSE todo
SurveyInv ==
  Surveying =>
    /\ base \subseteq Matching(1 .. lastId)
    /\ "short" \in events =>
         \A id \in base \ got : id \in raced \/ \E g \in Unread : id \in archives[g]

(* Nothing the survey looks at changes but by growing.                      *)
LEMMA SurveyFrame ==
  ASSUME SurveyInv, UNCHANGED <<pc, ask, base, todo>>,
         todo \subseteq DOMAIN archives,
         1 .. lastId \subseteq 1 .. lastId', raced \subseteq raced',
         \A id \in 1 .. lastId : rows'[id] = rows[id],
         \A g \in DOMAIN archives : g \in DOMAIN archives' /\ archives'[g] = archives[g],
         Surveying => events' = events /\ got' = got
  PROVE  SurveyInv'
<1>1. \A g \in Unread : g \in Unread' /\ archives'[g] = archives[g]
  BY DEF Unread
<1>2. Matching(1 .. lastId) \subseteq Matching(1 .. lastId)'
  BY DEF Matching
<1> QED
  BY <1>1, <1>2 DEF SurveyInv, Surveying

(* Every step keeps what the survey has still to find within its reach.     *)
LEMMA NextSurvey == StoreOK /\ OwnTypeOK /\ SurveyInv /\ [Next]_vars => SurveyInv'
<1> SUFFICES ASSUME StoreOK, OwnTypeOK, SurveyInv, [Next]_vars, Surveying' PROVE SurveyInv'
  BY DEF SurveyInv
<1>1. /\ Store!TypeOK
      /\ hot \subseteq 1 .. lastId
      /\ \A g \in DOMAIN archives : archives[g] \subseteq 1 .. lastId
      /\ todo \subseteq DOMAIN archives
  BY DEF StoreOK, Store!TypeOK, OwnTypeOK
<1>2. \A S : S \subseteq 1 .. lastId => Table(rows, Matching(S))
  BY <1>1, StoredTable DEF Matching
<1>3. CASE serveRange
  <2>1. /\ pc' = "range"
        /\ base' = Matching(1 .. lastId)
        /\ got' = Newest(hot)
        /\ events' = IF Cardinality(Newest(hot)) < RangeLimit THEN {"short"} ELSE {}
        /\ UNCHANGED <<lastId, rows, archives, raced, ask>>
    BY <1>3 DEF serveRange, storeVars
  <2>2. Cardinality(Newest(hot)) < RangeLimit => Matching(hot) \subseteq Newest(hot)
    BY <1>1, <1>2, LimitAssumption, ShortHead DEF Newest
  <2>3. \A id \in 1 .. lastId :
          id \in hot \/ id \in raced \/ \E g \in DOMAIN archives : id \in archives[g]
    BY DEF StoreOK, Store!LossOnlyInRace, Store!Lost, Store!Archived
  <2>4. \A id \in Matching(1 .. lastId) : id \in 1 .. lastId /\ (id \in hot => id \in Matching(hot))
    BY DEF Matching
  <2>5. Matching(1 .. lastId)' = Matching(1 .. lastId)
    BY <2>1 DEF Matching
  <2>6. ASSUME "short" \in events', NEW id \in base' \ got'
        PROVE  id \in raced' \/ \E g \in Unread' : id \in archives'[g]
    <3>1. id \in Matching(1 .. lastId) /\ id \notin Newest(hot)
      BY <2>1, <2>6
    <3>2. Cardinality(Newest(hot)) < RangeLimit
      BY <2>1, <2>6
    <3> QED
      BY <2>1, <2>2, <2>3, <2>4, <3>1, <3>2 DEF Unread
  <2> QED
    BY <2>1, <2>5, <2>6 DEF SurveyInv
<1>10. CASE NoteArchives
  <2>1. /\ pc = "range" /\ pc' = "survey" /\ todo' = DOMAIN archives
        /\ UNCHANGED <<lastId, rows, archives, raced, ask, base, got, events>>
    BY <1>10 DEF NoteArchives, storeVars
  <2>2. Unread' = Unread
    BY <2>1 DEF Unread
  <2>3. Matching(1 .. lastId)' = Matching(1 .. lastId)
    BY <2>1 DEF Matching
  <2> QED
    BY <2>1, <2>2, <2>3 DEF SurveyInv, Surveying
<1>4. ASSUME NEW g \in todo, serveArchive(g) PROVE SurveyInv'
  <2>1. /\ pc = "survey" /\ pc' = pc
        /\ todo' = todo \ {g}
        /\ got' = got \cup Newest(archives[g])
        /\ events' = IF Cardinality(Newest(archives[g])) < RangeLimit THEN events
                     ELSE events \ {"short"}
        /\ UNCHANGED <<lastId, rows, archives, raced, ask, base>>
    BY <1>4 DEF serveArchive, storeVars
  <2>2. Cardinality(Newest(archives[g])) < RangeLimit =>
          Matching(archives[g]) \subseteq Newest(archives[g])
    BY <1>1, <1>2, LimitAssumption, ShortHead DEF Newest
  <2>3. Matching(1 .. lastId)' = Matching(1 .. lastId)
    BY <2>1 DEF Matching
  <2>4. ASSUME "short" \in events', NEW id \in base' \ got'
        PROVE  id \in raced' \/ \E q \in Unread' : id \in archives'[q]
    <3>1. "short" \in events /\ Cardinality(Newest(archives[g])) < RangeLimit
      BY <2>1, <2>4
    <3>2. id \in base \ got /\ id \notin Newest(archives[g])
      BY <2>1, <2>4
    <3>3. id \in archives[g] => id \in Matching(archives[g])
      BY <2>1, <3>2 DEF SurveyInv, Surveying, Matching
    <3>4. id \notin archives[g]
      BY <2>2, <3>1, <3>2, <3>3
    <3>5. id \in raced \/ \E q \in todo : id \in archives[q]
      BY <2>1, <3>1, <3>2 DEF SurveyInv, Surveying, Unread
    <3> QED
      BY <2>1, <3>4, <3>5 DEF Unread
  <2>5. base' \subseteq Matching(1 .. lastId)'
    BY <2>1, <2>3 DEF SurveyInv, Surveying
  <2> QED
    BY <2>4, <2>5 DEF SurveyInv
<1>5. CASE Insert
  <2>1. PICK row \in Row : /\ Store!InsertBatch(row)
                           /\ UNCHANGED <<pc, ask, base, got, todo>>
                           /\ Surveying => events' = events
    BY <1>5 DEF Insert, Meanwhile, Surveying
  <2>2. /\ 1 .. lastId \subseteq 1 .. lastId'
        /\ raced \subseteq raced'
        /\ archives' = archives
        /\ \A id \in 1 .. lastId : rows'[id] = rows[id]
    BY <1>1, <2>1, InsertGrows
  <2> QED
    BY <1>1, <2>1, <2>2, SurveyFrame
<1>6. ASSUME NEW g \in Store!Goroutines, ArchiverStep(g) PROVE SurveyInv'
  <2>1. /\ UNCHANGED <<pc, lastId, rows, raced, ask, base, todo>>
        /\ Surveying => events' = events /\ got' = got
    BY <1>6 DEF ArchiverStep, Store!ArchiveCount, Store!ArchiveVacuum, Store!ArchiveFails,
           Store!ArchiveClear, Meanwhile, clientVars, Surveying
  <2>2. \A q \in DOMAIN archives : q \in DOMAIN archives' /\ archives'[q] = archives[q]
    <3>1. CASE Store!ArchiveVacuum(g)
      BY <1>6, <3>1 DEF Store!ArchiveVacuum, Store!Put, StoreOK
    <3>2. CASE ~Store!ArchiveVacuum(g)
      BY <1>6, <3>2 DEF ArchiverStep, Store!ArchiveCount, Store!ArchiveFails, Store!ArchiveClear
    <3> QED
      BY <3>1, <3>2
  <2> QED
    BY <1>1, <2>1, <2>2, SurveyFrame
<1>7. CASE Crash
  BY <1>1, <1>7, SurveyFrame DEF Crash, ForgetAll, Store!CrashAndReopen, clientVars, Surveying
<1>8. CASE UNCHANGED vars
  BY <1>1, <1>8, SurveyFrame DEF vars, clientVars, storeVars
<1>9. CASE ServeHTTP
  BY <1>3, <1>4, <1>9, <1>10 DEF ServeHTTP, RawCount, RawCountNext, RawPage, serveLatest,
     GiveUp, ForgetAll, Surveying
<1> QED
  BY <1>5, <1>6, <1>7, <1>8, <1>9 DEF Next

(* The range and the archive files together hold all that was ever stored,  *)
(* but for the archiver's race.                                             *)
THEOREM QuerySurveyCompletes == Spec => []SurveyCompletes
<1>1. Init => SurveyInv
  BY DEF Init, SurveyInv, Surveying
<1>2. SurveyInv => SurveyCompletes
  BY DEF SurveyInv, Surveying, Unread, SurveyCompletes
<1> QED
  BY <1>1, <1>2, NextSurvey, StoreIsOK, InitOwnTypeOK, NextOwnTypeOK, PTL DEF Spec

------------------------------------------------------------------------------
(* Pages.                                                                   *)

(* What a page from rank a on, of n rows, makes of the rows B to be shown   *)
(* and the rows G that were.                                                *)
PageEffect(r, S, B, G, a, n) ==
  LET items == Between(r, S, a, a + n) IN
  /\ \A x \in B \ (G \cup items) : a + n <= Rank(r, S, x)
  /\ (\A x \in G : Rank(r, S, x) < a)
       => items \cap G = {} /\ \A x \in G \cup items : Rank(r, S, x) < a + n
  /\ ~(Cardinality(items) < n) => a + n <= Cardinality(S)
  /\ Cardinality(items) < n => B \subseteq G \cup items
  /\ \A t \in Nat : Cardinality(S) <= t /\ t <= a + n => B \subseteq G \cup items

(* What reading one more page does to the rows that were seen.              *)
LEMMA PageEffects ==
  ASSUME NEW r, NEW S, Table(r, S), NEW B \in SUBSET S, NEW G \in SUBSET S,
         NEW a \in Nat, NEW n \in Nat \ {0},
         \A x \in B \ G : a <= Rank(r, S, x)
  PROVE  PageEffect(r, S, B, G, a, n)
<1> DEFINE items == Between(r, S, a, a + n)
<1>1. \A x \in S : Rank(r, S, x) \in Nat /\ Rank(r, S, x) < Cardinality(S)
  BY RankType
<1>2. \A x \in S : x \in items <=> a <= Rank(r, S, x) /\ Rank(r, S, x) < a + n
  BY DEF Between
<1>3. items \subseteq S
  BY DEF Between
<1>4. Cardinality(items) \in Nat
  BY BetweenSize
<1>5. Cardinality(items) < n => \A x \in S : Rank(r, S, x) < a + n
  BY ShortPage
<1>6. n <= Cardinality(items) => a + n <= Cardinality(S)
  BY FullPage
<1>7. Cardinality(S) \in Nat
  BY FS_CardinalityType DEF Table
<1> HIDE DEF items
<1>8. \A x \in B \ (G \cup items) : a + n <= Rank(r, S, x)
  BY <1>1, <1>2
<1>9. ASSUME \A x \in G : Rank(r, S, x) < a
      PROVE  items \cap G = {} /\ \A x \in G \cup items : Rank(r, S, x) < a + n
  BY <1>1, <1>2, <1>3, <1>9
<1>10. ~(Cardinality(items) < n) => a + n <= Cardinality(S)
  BY <1>4, <1>6
<1>11. Cardinality(items) < n => B \subseteq G \cup items
  BY <1>1, <1>5, <1>8
<1>12. ASSUME NEW t \in Nat, Cardinality(S) <= t, t <= a + n PROVE B \subseteq G \cup items
  BY <1>1, <1>7, <1>8, <1>12
<1> QED
  BY <1>8, <1>9, <1>10, <1>11, <1>12 DEF PageEffect, items

Found == Matching(hot)
Place(id) == Rank(rows, Found, id)

(* The client walks through pages of a table that was not cleared since its *)
(* first page was answered.                                                 *)
Walking ==
  /\ pc \in {"page", "walk"}
  /\ "cleared" \notin events \/ (pc = "page" /\ ask.page = 0)

(* The pages answered so far end here.                                      *)
Shown == IF pc = "page" THEN ask.page * ask.limit ELSE (ask.page + 1) * ask.limit

(* Before the first answer nothing is to be shown, and a client asks for a  *)
(* page only while the last was full.                                       *)
WalkStart ==
  /\ pc = "page" => "short" \notin events
  /\ pc = "page" /\ ask.page = 0 => base = {} /\ got = {}
  /\ pc = "idle" => ask.page = 0 /\ base = {} /\ got = {} /\ events = {}

WalkCount == pc = "page" /\ "between" \notin events => Cardinality(Found) <= total

(* What is still to be shown lies behind the pages answered, and so does no *)
(* row that was shown, unless one came in.                                  *)
WalkRanks ==
  Walking =>
    /\ base \subseteq Found /\ got \subseteq Found
    /\ \A id \in base \ got : Shown <= Place(id)
    /\ "inserted" \notin events => \A id \in got : Place(id) < Shown
    /\ "short" \notin events => Shown <= Cardinality(Found)

NoRepeat ==
  pc \in {"page", "walk"} /\ "cleared" \notin events /\ "repeated" \in events
    => "inserted" \in events

WalkInv ==
  /\ WalkStart /\ WalkCount /\ WalkRanks /\ NoRepeat
  /\ ShortPageCompletes /\ TotalCompletes

(* What the types say of the numbers of a page.                             *)
LEMMA PageNumbers ==
  ASSUME OwnTypeOK
  PROVE  /\ ask.page \in Nat /\ ask.limit \in Nat \ {0}
         /\ ask.page * ask.limit \in Nat
         /\ (ask.page + 1) * ask.limit = ask.page * ask.limit + ask.limit
         /\ ask.page = 0 => ask.page * ask.limit = 0
         /\ Shown \in Nat
         /\ total \in Nat
<1>1. ask.page \in Nat /\ ask.limit \in Nat \ {0} /\ total \in Nat
  BY IntAssumption, PageAssumption, LimitAssumption DEF OwnTypeOK, Ask
<1>2. \A p \in Nat, n \in Nat : p * n \in Nat /\ (p + 1) * n = p * n + n /\ 0 * n = 0
  OBVIOUS
<1>3. /\ ask.page * ask.limit \in Nat
      /\ (ask.page + 1) * ask.limit = ask.page * ask.limit + ask.limit
      /\ ask.page = 0 => ask.page * ask.limit = 0
  BY <1>1, <1>2
<1> QED
  BY <1>1, <1>3 DEF Shown

(* The rows of the range form a finite table.                               *)
LEMMA FoundTable ==
  ASSUME Store!TypeOK
  PROVE  Table(rows, Found) /\ Cardinality(Found) \in Nat
<1>1. Found \subseteq 1 .. lastId
  BY DEF Found, Matching, Store!TypeOK
<1>2. Table(rows, Found)
  BY <1>1, StoredTable
<1> QED
  BY <1>2, FS_CardinalityType DEF Table

(* A page that is asked for starts within the table: its offset is exact.   *)
LEMMA OffsetIsExact ==
  ASSUME Store!TypeOK, OwnTypeOK, WalkInv, pc = "page", Walking
  PROVE  Offset(ask.page, ask.limit) = ask.page * ask.limit
<1>1. ask.page * ask.limit <= Cardinality(Found)
  BY DEF WalkInv, WalkStart, WalkRanks, Shown
<1>2. Cardinality(Found) <= MaxRows /\ Cardinality(Found) \in Nat
  BY FoundSize, IntAssumption DEF Found, OwnTypeOK
<1> DEFINE x == ask.page * ask.limit
<1>3. x \in Nat /\ x <= MaxInt /\ MaxInt \in Nat
  BY <1>1, <1>2, PageNumbers, IntAssumption
<1>4. Offset(ask.page, ask.limit) =
        LET n == x % (2 * MaxInt + 2) IN IF n <= MaxInt THEN n ELSE 0
  BY DEF Offset
<1> HIDE DEF x
<1>5. x % (2 * MaxInt + 2) = x
  BY <1>3
<1> QED
  BY <1>3, <1>4, <1>5 DEF x

(* The SELECT of a page.                                                    *)
LEMMA PageWalk ==
  ASSUME Store!TypeOK, OwnTypeOK, WalkInv, RawPage
  PROVE  WalkInv'
<1> DEFINE S == Found
           a == ask.page * ask.limit
           n == ask.limit
           items == Between(rows, S, a, a + n)
<1>1. /\ pc = "page" /\ pc' = "walk"
      /\ UNCHANGED <<hot, rows, ask, total>>
      /\ base' = IF ask.page = 0 THEN S ELSE base
      /\ got' = got \cup Slice(S, Offset(ask.page, ask.limit), ask.limit)
      /\ events' = (IF ask.page = 0 THEN events \cap {"between"} ELSE events)
           \cup (IF Cardinality(Slice(S, Offset(ask.page, ask.limit), ask.limit)) < ask.limit
                 THEN {"short"} ELSE {})
           \cup (IF Slice(S, Offset(ask.page, ask.limit), ask.limit) \cap got # {}
                 THEN {"repeated"} ELSE {})
  BY DEF RawPage, storeVars, Found
<1>2. WalkStart' /\ WalkCount'
  BY <1>1 DEF WalkStart, WalkCount
<1>3. Shown = a /\ Shown' = a + n /\ Found' = S
  <2>1. Shown = a
    BY <1>1 DEF Shown
  <2>2. Shown' = (ask.page + 1) * ask.limit
    BY <1>1 DEF Shown
  <2>3. Found' = S
    BY <1>1 DEF Found, Matching
  <2> QED
    BY <2>1, <2>2, <2>3, PageNumbers
<1>4. SUFFICES ASSUME "cleared" \notin events'
               PROVE  WalkRanks' /\ NoRepeat' /\ ShortPageCompletes' /\ TotalCompletes'
  BY <1>1, <1>2 DEF WalkInv, WalkRanks, Walking, NoRepeat, ShortPageCompletes,
     TotalCompletes, Walked
<1>5. Walking
  BY <1>1, <1>4 DEF Walking
<1>6. Offset(ask.page, ask.limit) = a
  BY <1>1, <1>5, OffsetIsExact
<1>7. Slice(S, Offset(ask.page, ask.limit), ask.limit) = items
  BY <1>6, SliceRanks
<1>8. Table(rows, S) /\ Cardinality(S) \in Nat
  BY FoundTable
<1>9. a \in Nat /\ n \in Nat \ {0} /\ (ask.page = 0 => a = 0) /\ total \in Nat
  BY PageNumbers
<1>10. base' \subseteq S /\ got \subseteq S
  BY <1>1, <1>5 DEF WalkInv, WalkRanks
<1>11. \A x \in base' \ got : a <= Rank(rows, S, x)
  <2>1. \A x \in S : Rank(rows, S, x) \in Nat
    BY <1>8, RankType
  <2>2. ask.page # 0 => \A x \in base \ got : a <= Rank(rows, S, x)
    BY <1>3, <1>5 DEF WalkInv, WalkRanks, Place
  <2> HIDE DEF a, S
  <2> QED
    BY <1>1, <1>9, <1>10, <2>1, <2>2
<1>12. PageEffect(rows, S, base', got, a, n)
  BY <1>8, <1>9, <1>10, <1>11, PageEffects
<1>13. "inserted" \notin events' => \A x \in got : Rank(rows, S, x) < a
  <2>1. ask.page = 0 => got = {}
    BY <1>1 DEF WalkInv, WalkStart
  <2>2. "inserted" \notin events => \A x \in got : Rank(rows, S, x) < a
    BY <1>3, <1>5 DEF WalkInv, WalkRanks, Place
  <2>3. ask.page # 0 /\ "inserted" \notin events' => "inserted" \notin events
    BY <1>1
  <2> QED
    BY <2>1, <2>2, <2>3
<1>14. got' = got \cup items
  BY <1>1, <1>7
<1>15. /\ "short" \in events' <=> Cardinality(items) < n
       /\ "between" \notin events' => "between" \notin events
       /\ "repeated" \in events' => items \cap got # {} \/ "repeated" \in events
       /\ ask.page = 0 /\ "repeated" \in events' => items \cap got # {}
       /\ ask.page # 0 => events \subseteq events'
  <2>1. "short" \notin events
    BY <1>1 DEF WalkInv, WalkStart
  <2> HIDE DEF items, S
  <2> QED
    BY <1>1, <1>7, <2>1
<1>16. items \subseteq S
  BY DEF Between
<1>17. WalkRanks'
  <2>1. base' \subseteq Found' /\ got' \subseteq Found'
    BY <1>3, <1>10, <1>14, <1>16
  <2>2. \A x \in base' \ got' : a + n <= Rank(rows, S, x)
    BY <1>12, <1>14 DEF PageEffect
  <2>3. "inserted" \notin events' => \A x \in got' : Rank(rows, S, x) < a + n
    BY <1>12, <1>13, <1>14 DEF PageEffect
  <2>4. "short" \notin events' => a + n <= Cardinality(S)
    BY <1>12, <1>15 DEF PageEffect
  <2>5. \A x : Place(x)' = Rank(rows, S, x)
    BY <1>1, <1>3 DEF Place, Rank, NewerIn
  <2> HIDE DEF a, n, items, S
  <2> QED
    BY <1>3, <2>1, <2>2, <2>3, <2>4, <2>5 DEF WalkRanks
<1>18. ShortPageCompletes'
  BY <1>12, <1>14, <1>15 DEF PageEffect, ShortPageCompletes, Walked
<1>19. TotalCompletes'
  <2>1. "between" \notin events' => Cardinality(S) <= total
    BY <1>1, <1>15 DEF WalkInv, WalkCount
  <2>2. ((ask.page + 1) * ask.limit)' = a + n /\ total' = total
    BY <1>1, PageNumbers
  <2>3. Cardinality(S) <= total /\ total <= a + n => base' \subseteq got'
    BY <1>9, <1>12, <1>14 DEF PageEffect
  <2> HIDE DEF a, n, S, items
  <2>4. SUFFICES ASSUME "between" \notin events', ((ask.page + 1) * ask.limit)' >= total'
                 PROVE  base' \subseteq got'
    BY DEF TotalCompletes, Walked
  <2>5. a + n \in Nat
    BY <1>9
  <2> QED
    BY <1>9, <2>1, <2>2, <2>3, <2>4, <2>5
<1>20. NoRepeat'
  <2>1. SUFFICES ASSUME "repeated" \in events', "inserted" \notin events' PROVE FALSE
    BY DEF NoRepeat
  <2>2. items \cap got = {}
    BY <1>12, <1>13, <2>1 DEF PageEffect
  <2>3. ask.page # 0 /\ "repeated" \in events /\ "inserted" \notin events /\ "cleared" \notin events
    BY <1>4, <1>15, <2>1, <2>2
  <2> QED
    BY <1>1, <2>3 DEF WalkInv, NoRepeat
<1> QED
  BY <1>17, <1>18, <1>19, <1>20

(* The COUNT of a page.                                                     *)
LEMMA CountWalk ==
  ASSUME Store!TypeOK, OwnTypeOK, WalkInv,
         RawCountNext \/ \E limit \in 1 .. MaxPageLimit : RawCount(limit)
  PROVE  WalkInv'
<1>1. /\ pc' = "page"
      /\ total' = Cardinality(Matching(hot))
      /\ UNCHANGED <<hot, rows, base, got>>
      /\ ask'.agent = ask.agent /\ ask'.span = ask.span
  BY DEF RawCount, RawCountNext, Count, storeVars, OwnTypeOK, Ask
<1>2. Found' = Found /\ total' = Cardinality(Found)
  BY <1>1 DEF Found, Matching
<1>3. WalkCount'
  BY <1>1, <1>2, FoundTable DEF WalkCount
<1>4. ShortPageCompletes' /\ TotalCompletes'
  BY <1>1 DEF ShortPageCompletes, TotalCompletes, Walked
<1>5. \A x : Place(x)' = Place(x)
  BY <1>1, <1>2 DEF Place, Rank, NewerIn
<1>6. ASSUME NEW limit \in 1 .. MaxPageLimit, RawCount(limit)
      PROVE  WalkStart' /\ WalkRanks' /\ NoRepeat'
  <2>1. pc = "idle" /\ ask'.page = ask.page /\ ask'.limit = limit /\ events' = events
    BY <1>6 DEF RawCount, OwnTypeOK, Ask
  <2>2. ask'.page = 0 /\ base' = {} /\ got' = {} /\ events' = {}
    BY <1>1, <2>1 DEF WalkInv, WalkStart
  <2>3. Shown' = 0
    <3>1. limit \in Nat /\ 0 * limit = 0
      BY LimitAssumption
    <3> QED
      BY <1>1, <2>1, <2>2, <3>1 DEF Shown
  <2>4. WalkRanks'
    BY <1>2, <2>2, <2>3, FoundTable DEF WalkRanks
  <2> QED
    BY <1>1, <2>2, <2>4 DEF WalkStart, NoRepeat
<1>7. ASSUME RawCountNext PROVE WalkStart' /\ WalkRanks' /\ NoRepeat'
  <2>1. /\ pc = "walk" /\ "short" \notin events
        /\ ask'.page = ask.page + 1 /\ ask'.limit = ask.limit
        /\ events' = events \ {"between"}
    BY <1>7 DEF RawCountNext, OwnTypeOK, Ask
  <2>2. ask'.page # 0
    BY <2>1, PageNumbers
  <2>3. Shown' = Shown
    BY <1>1, <2>1 DEF Shown
  <2>4. Walking' => Walking
    BY <1>1, <2>1, <2>2 DEF Walking
  <2>5. WalkRanks'
    BY <1>1, <1>2, <1>5, <2>1, <2>3, <2>4 DEF WalkInv, WalkRanks
  <2>6. NoRepeat'
    BY <1>1, <2>1 DEF WalkInv, NoRepeat
  <2> QED
    BY <1>1, <2>1, <2>2, <2>5, <2>6 DEF WalkStart
<1> QED
  BY <1>3, <1>4, <1>6, <1>7 DEF WalkInv

(* A batch comes in: one of the range pushes rows back, none forward.       *)
LEMMA InsertWalk ==
  ASSUME Store!TypeOK, OwnTypeOK, WalkInv, Insert
  PROVE  WalkInv'
<1>1. PICK row \in Row :
        /\ Store!InsertBatch(row)
        /\ Meanwhile(IF row.agent # ask.agent \/ row.captured \notin ask.span[1] .. ask.span[2]
                     THEN {}
                     ELSE {"inserted"} \cup (IF pc = "page" THEN {"between"} ELSE {}))
        /\ UNCHANGED <<pc, ask, total, base, got>>
  BY DEF Insert
<1> DEFINE in == row.agent = ask.agent /\ row.captured \in ask.span[1] .. ask.span[2]
<1>2. /\ lastId \in Nat
      /\ hot' = hot \cup {lastId + 1}
      /\ hot \subseteq 1 .. lastId
      /\ \A id \in 1 .. lastId : rows'[id] = rows[id]
      /\ rows'[lastId + 1] = row
      /\ lastId + 1 \notin 1 .. lastId
      /\ lastId' = lastId + 1
      /\ 1 .. lastId' = (1 .. lastId) \cup {lastId + 1}
  BY <1>1, InsertGrows DEF Store!TypeOK
<1>3. in <=> /\ row.agent = ask.agent
             /\ ask.span[1] <= row.captured /\ row.captured <= ask.span[2]
  <2>1. row.captured \in Nat /\ ask.span[1] \in Nat /\ ask.span[2] \in Nat
    BY TimeAssumption DEF OwnTypeOK, Ask
  <2> QED
    BY <2>1
<1>4. Found' = IF in THEN Found \cup {lastId + 1} ELSE Found
  <2>1. \A id \in hot : id \in Found' <=> id \in Found
    BY <1>1, <1>2 DEF Found, Matching
  <2>2. lastId + 1 \in Found' <=> in
    BY <1>1, <1>2, <1>3 DEF Found, Matching
  <2>3. Found \subseteq hot /\ Found' \subseteq hot'
    BY DEF Found, Matching
  <2> HIDE DEF in
  <2>4. \A id \in Found' : id \in Found \/ (in /\ id = lastId + 1)
    BY <1>2, <2>1, <2>2, <2>3
  <2>5. \A id \in Found : id \in Found'
    BY <2>1, <2>3
  <2>6. CASE in
    BY <2>2, <2>4, <2>5, <2>6
  <2>7. CASE ~in
    BY <2>4, <2>5, <2>7
  <2> QED
    BY <2>6, <2>7
<1>5. Table(rows, Found) /\ Cardinality(Found) \in Nat /\ Found \subseteq 1 .. lastId
  BY FoundTable DEF Found, Matching, Store!TypeOK
<1>6. Table(rows', Found')
  <2>1. Found' \subseteq 1 .. lastId'
    BY <1>2, <1>4, <1>5
  <2>2. IsFiniteSet(Found')
    BY <1>4, <1>5, FS_AddElement DEF Table
  <2>3. \A id \in Found' : rows'[id].captured \in Nat
    <3>1. row.captured \in Nat
      BY TimeAssumption
    <3> HIDE DEF in
    <3> QED
      BY <1>2, <1>4, <1>5, <3>1 DEF Table
  <2>4. Found' \subseteq Nat
    BY <1>2, <2>1
  <2> QED
    BY <2>2, <2>3, <2>4 DEF Table
<1>7. Found \subseteq Found' /\ \A id \in Found : rows'[id] = rows[id]
  BY <1>2, <1>4, <1>5
<1>8. \A id \in Found : Place(id) <= Place(id)'
  <2>1. \A id \in Found : Rank(rows, Found, id) <= Rank(rows', Found', id)
    BY <1>5, <1>6, <1>7, RankGrows
  <2> QED
    BY <2>1 DEF Place
<1>9. ~in => Found' = Found /\ \A id \in Found : Place(id)' = Place(id)
  <2>1. SUFFICES ASSUME ~in, NEW id \in Found PROVE Place(id)' = Place(id)
    BY <1>4
  <2>2. Found' = Found
    BY <1>4, <2>1
  <2>3. Rank(rows', Found', id) <= Rank(rows, Found, id)
    BY <1>5, <1>6, <1>7, <2>2, RankGrows
  <2>4. Rank(rows', Found', id) \in Nat /\ Rank(rows, Found, id) \in Nat
    BY <1>5, <1>6, <2>2, RankType
  <2> QED
    BY <1>8, <2>3, <2>4 DEF Place
<1>10. \A id \in Found : Place(id) \in Nat /\ Place(id)' \in Nat
  <2>1. \A id \in Found : Rank(rows, Found, id) \in Nat
    BY <1>5, RankType
  <2>2. \A id \in Found : Rank(rows', Found', id) \in Nat
    BY <1>6, <1>7, RankType
  <2> QED
    BY <2>1, <2>2 DEF Place
<1>11. Cardinality(Found) <= Cardinality(Found)' /\ Cardinality(Found)' \in Nat
  <2>1. IsFiniteSet(Found')
    BY <1>6 DEF Table
  <2> QED
    BY <1>7, <2>1, FS_Subset, FS_CardinalityType
<1>12. /\ pc \notin {"page", "walk"} => events' = events
       /\ pc \in {"page", "walk"} =>
            /\ events \subseteq events'
            /\ events' \subseteq events \cup {"inserted", "between"}
            /\ in => "inserted" \in events' /\ (pc = "page" => "between" \in events')
  BY <1>1 DEF Meanwhile
<1> HIDE DEF in
<1>13. Walking' <=> Walking
  BY <1>1, <1>12 DEF Walking
<1>14. Shown' = Shown /\ Shown \in Nat
  BY <1>1, PageNumbers DEF Shown
<1>15. WalkStart'
  BY <1>1, <1>12 DEF WalkInv, WalkStart
<1>16. WalkCount'
  <2>1. SUFFICES ASSUME pc = "page", "between" \notin events' PROVE Cardinality(Found)' <= total
    BY <1>1 DEF WalkCount
  <2>2. ~in /\ "between" \notin events
    BY <1>12, <2>1
  <2> QED
    BY <1>9, <2>1, <2>2 DEF WalkInv, WalkCount
<1>17. WalkRanks'
  <2>1. SUFFICES ASSUME Walking
                 PROVE  /\ base \subseteq Found' /\ got \subseteq Found'
                        /\ \A id \in base \ got : Shown <= Place(id)'
                        /\ "inserted" \notin events' => \A id \in got : Place(id)' < Shown
                        /\ "short" \notin events' => Shown <= Cardinality(Found)'
    BY <1>1, <1>13, <1>14 DEF WalkRanks
  <2>2. /\ base \subseteq Found /\ got \subseteq Found
        /\ \A id \in base \ got : Shown <= Place(id)
        /\ "inserted" \notin events => \A id \in got : Place(id) < Shown
        /\ "short" \notin events => Shown <= Cardinality(Found)
    BY <2>1 DEF WalkInv, WalkRanks
  <2>3. pc \in {"page", "walk"}
    BY <2>1 DEF Walking
  <2>4. \A id \in base \ got : Shown <= Place(id)'
    BY <1>8, <1>10, <1>14, <2>2
  <2>5. "inserted" \notin events' => \A id \in got : Place(id)' < Shown
    BY <1>9, <1>12, <2>2, <2>3
  <2>6. "short" \notin events' => Shown <= Cardinality(Found)'
    BY <1>5, <1>11, <1>12, <1>14, <2>2, <2>3
  <2> QED
    BY <1>7, <2>2, <2>4, <2>5, <2>6
<1>18. NoRepeat' /\ ShortPageCompletes' /\ TotalCompletes'
  BY <1>1, <1>12 DEF WalkInv, NoRepeat, ShortPageCompletes, TotalCompletes, Walked
<1> QED
  BY <1>15, <1>16, <1>17, <1>18 DEF WalkInv

(* A step that changes neither the client nor the table.                    *)
LEMMA QuietWalk ==
  ASSUME WalkInv, UNCHANGED clientVars, UNCHANGED <<hot, rows>>
  PROVE  WalkInv'
<1>1. Found' = Found /\ Shown' = Shown /\ (Walking' <=> Walking)
  BY DEF clientVars, Found, Matching, Shown, Walking
<1>2. \A id : Place(id)' = Place(id)
  BY <1>1 DEF Place, Rank, NewerIn
<1>3. WalkStart' /\ WalkCount' /\ WalkRanks'
  BY <1>1, <1>2 DEF WalkInv, WalkStart, WalkCount, WalkRanks, clientVars
<1>4. NoRepeat' /\ ShortPageCompletes' /\ TotalCompletes'
  BY DEF WalkInv, NoRepeat, ShortPageCompletes, TotalCompletes, Walked, clientVars
<1> QED
  BY <1>3, <1>4 DEF WalkInv

(* The client is not at its pages, or begins again.                         *)
LEMMA AwayWalk ==
  ASSUME OwnTypeOK, ForgetAll \/ pc' \in {"range", "survey", "poll"}
  PROVE  WalkInv'
<1>1. WalkStart'
  <2>1. ForgetAll => ask'.page = 0
    BY DEF ForgetAll, OwnTypeOK, Ask
  <2>2. CASE ForgetAll
    BY <2>1, <2>2 DEF ForgetAll, WalkStart
  <2>3. CASE pc' \in {"range", "survey", "poll"}
    BY <2>3 DEF WalkStart
  <2> QED
    BY <2>2, <2>3
<1>2. WalkCount' /\ WalkRanks' /\ NoRepeat' /\ ShortPageCompletes' /\ TotalCompletes'
  <2>1. pc' \notin {"page", "walk"}
    BY DEF ForgetAll
  <2> QED
    BY <2>1 DEF WalkCount, WalkRanks, NoRepeat, ShortPageCompletes, TotalCompletes, Walked,
       Walking
<1> QED
  BY <1>1, <1>2 DEF WalkInv

(* The table is cleared.                                                    *)
LEMMA ClearWalk ==
  ASSUME OwnTypeOK, WalkInv, hot' = {}, UNCHANGED <<pc, ask, total, base>>,
         Meanwhile({"cleared"}), pc # "poll", got' = got
  PROVE  WalkInv'
<1>1. Found' = {} /\ Cardinality(Found)' = 0
  <2>1. Found' = {}
    BY DEF Found, Matching
  <2> QED
    BY <2>1, FS_EmptySet
<1>2. CASE pc \in {"page", "walk"}
  <2>1. events' = events \cup {"cleared"}
    BY <1>2 DEF Meanwhile
  <2>2. WalkStart'
    BY <1>2, <2>1 DEF WalkInv, WalkStart
  <2>3. WalkCount'
    BY <1>1, PageNumbers DEF WalkCount
  <2>4. NoRepeat' /\ ShortPageCompletes' /\ TotalCompletes'
    BY <2>1 DEF NoRepeat, ShortPageCompletes, TotalCompletes, Walked
  <2>5. Walking' => base' = {} /\ got' = {} /\ Shown' = 0
    <3>1. Walking' => pc = "page" /\ ask.page = 0
      BY <2>1 DEF Walking
    <3>2. pc = "page" /\ ask.page = 0 => Shown' = 0
      BY PageNumbers DEF Shown
    <3> QED
      BY <3>1, <3>2 DEF WalkInv, WalkStart
  <2>6. WalkRanks'
    BY <1>1, <2>5 DEF WalkRanks
  <2> QED
    BY <2>2, <2>3, <2>4, <2>6 DEF WalkInv
<1>3. CASE pc \notin {"page", "walk"}
  <2>1. events' = events
    BY <1>3 DEF Meanwhile
  <2> QED
    BY <1>3, <2>1 DEF WalkInv, WalkStart, WalkCount, WalkRanks, NoRepeat, ShortPageCompletes,
       TotalCompletes, Walked, Walking
<1> QED
  BY <1>2, <1>3

(* Every step keeps the walk's invariant.                                   *)
LEMMA NextWalk == StoreOK /\ OwnTypeOK /\ WalkInv /\ [Next]_vars => WalkInv'
<1> SUFFICES ASSUME StoreOK, OwnTypeOK, WalkInv, [Next]_vars PROVE WalkInv'
  OBVIOUS
<1>1. Store!TypeOK
  BY DEF StoreOK
<1>2. ASSUME NEW limit \in 0 .. MaxPageLimit, RawCount(ClampLimit(limit)) PROVE WalkInv'
  <2>1. ClampLimit(limit) \in 1 .. MaxPageLimit
    BY LimitAssumption DEF ClampLimit
  <2> QED
    BY <1>1, <1>2, <2>1, CountWalk
<1>3. CASE RawCountNext
  BY <1>1, <1>3, CountWalk
<1>4. CASE RawPage
  BY <1>1, <1>4, PageWalk
<1>5. CASE serveRange \/ NoteArchives \/ serveLatest
  BY <1>5, AwayWalk DEF serveRange, NoteArchives, serveLatest
<1>6. ASSUME NEW g \in todo, serveArchive(g) PROVE WalkInv'
  BY <1>6, AwayWalk DEF serveArchive
<1>7. CASE GiveUp
  BY <1>7, AwayWalk DEF GiveUp
<1>8. CASE Insert
  BY <1>1, <1>8, InsertWalk
<1>9. ASSUME NEW g \in Store!Goroutines, ArchiverStep(g) PROVE WalkInv'
  <2>1. CASE /\ Store!ArchiveCount(g) \/ Store!ArchiveVacuum(g) \/ Store!ArchiveFails(g)
             /\ UNCHANGED clientVars
    BY <2>1, QuietWalk DEF Store!ArchiveCount, Store!ArchiveVacuum, Store!ArchiveFails
  <2>2. CASE /\ Store!ArchiveClear(g)
             /\ Meanwhile({"cleared"})
             /\ got' = IF pc = "poll" THEN {} ELSE got
             /\ UNCHANGED <<pc, ask, total, base, todo>>
    <3>1. hot' = {}
      BY <2>2 DEF Store!ArchiveClear
    <3> QED
      BY <2>2, <3>1, AwayWalk, ClearWalk
  <2> QED
    BY <1>9, <2>1, <2>2 DEF ArchiverStep
<1>10. CASE Crash
  BY <1>10, AwayWalk, QuietWalk DEF Crash, Store!CrashAndReopen
<1>11. CASE UNCHANGED vars
  BY <1>11, QuietWalk DEF vars, storeVars
<1> QED
  BY <1>2, <1>3, <1>4, <1>5, <1>6, <1>7, <1>8, <1>9, <1>10, <1>11 DEF Next, ServeHTTP

(* Nobody walks initially.                                                  *)
LEMMA InitWalk == Init => WalkInv
BY DEF Init, WalkInv, WalkStart, WalkCount, WalkRanks, NoRepeat, ShortPageCompletes,
       TotalCompletes, Walked, Walking

(* The walk's invariant, from which the three theorems below are read off.  *)
LEMMA QueryWalk == Spec => []WalkInv
BY InitWalk, NextWalk, StoreIsOK, InitOwnTypeOK, NextOwnTypeOK, PTL DEF Spec

(* A short page ends a complete walk, wherever batches came in.             *)
THEOREM QueryShortPageCompletes == Spec => []ShortPageCompletes
<1>1. WalkInv => ShortPageCompletes
  BY DEF WalkInv
<1> QED
  BY <1>1, QueryWalk, PTL

(* So does the total, if nothing came between COUNT and SELECT.             *)
THEOREM QueryTotalCompletes == Spec => []TotalCompletes
<1>1. WalkInv => TotalCompletes
  BY DEF WalkInv
<1> QED
  BY <1>1, QueryWalk, PTL

(* No batch is shown twice unless one came in.                              *)
THEOREM QueryNoRepeats == Spec => []NoRepeats
<1>1. WalkInv => NoRepeats
  BY DEF WalkInv, NoRepeat, NoRepeats, Walked
<1> QED
  BY <1>1, QueryWalk, PTL
===============================================================================
