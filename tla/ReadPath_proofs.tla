--------------------------- MODULE ReadPath_proofs ---------------------------
(***************************************************************************)
(* Proofs about what clients read (ReadPath), for any number of clients,   *)
(* addresses, runs, connections, any sizes of pages and batches.           *)
(*                                                                         *)
(* First the order of a listing: sorting a finite set lists each element   *)
(* once (SortedIsListing), elements added push the others back only        *)
(* (SortedMoves).  Then the invariants of the tables and the requests, and *)
(* what a page adds to what a client has read.  At the end, that the pool  *)
(* serves whoever waits (PoolIsServed).                                    *)
(***************************************************************************)
EXTENDS ReadPath, FiniteSetTheorems, SequenceTheorems, TLAPS

-----------------------------------------------------------------------------
(* Sorting. *)

\* The order of Sorted, and the elements before x.
IsBefore(col, y, x) ==
    col[y][1] < col[x][1] \/ (col[y][1] = col[x][1] /\ col[y][2] < col[x][2])

Smaller(S, col, x) == {y \in S : IsBefore(col, y, x)}

Rank(S, col, x) == Cardinality(Smaller(S, col, x))

\* Two columns that tell the elements of S apart.
Columns(S, col) ==
    /\ \A x \in S : col[x][1] \in Nat /\ col[x][2] \in Nat
    /\ \A x, y \in S : col[x][1] = col[y][1] /\ col[x][2] = col[y][2] => x = y

LEMMA SortedByRank ==
    ASSUME NEW S, NEW col
    PROVE  /\ DOMAIN Sorted(S, col) = 1..Cardinality(S)
           /\ \A i \in 1..Cardinality(S) :
                 Sorted(S, col)[i] = CHOOSE x \in S : Rank(S, col, x) = i - 1
BY DEF Sorted, Rank, Smaller, IsBefore

LEMMA RankBound ==
    ASSUME NEW S, IsFiniteSet(S), NEW col, Columns(S, col), NEW x \in S
    PROVE  Rank(S, col, x) \in 0..(Cardinality(S) - 1)
<1>1. Smaller(S, col, x) \subseteq S \ {x}
  BY DEF Smaller, IsBefore, Columns
<1>2. IsFiniteSet(S \ {x}) /\ Cardinality(S \ {x}) = Cardinality(S) - 1
  BY FS_RemoveElement
<1>3. /\ IsFiniteSet(Smaller(S, col, x))
      /\ Cardinality(Smaller(S, col, x)) <= Cardinality(S) - 1
  BY <1>1, <1>2, FS_Subset
<1>4. Cardinality(Smaller(S, col, x)) \in Nat /\ Cardinality(S) \in Nat
  BY <1>3, FS_CardinalityType
<1> QED
  BY <1>3, <1>4 DEF Rank

\* Of two elements one comes first, and has the smaller rank.
LEMMA RankSeparates ==
    ASSUME NEW S, IsFiniteSet(S), NEW col, Columns(S, col), NEW x \in S, NEW y \in S,
           x # y
    PROVE  Rank(S, col, x) # Rank(S, col, y)
<1>1. ASSUME NEW u \in S, NEW v \in S, IsBefore(col, u, v)
      PROVE  Rank(S, col, u) # Rank(S, col, v)
  <2>1. Smaller(S, col, u) \subseteq Smaller(S, col, v)
    BY <1>1 DEF Smaller, IsBefore, Columns
  <2>2. u \in Smaller(S, col, v) /\ u \notin Smaller(S, col, u)
    BY <1>1 DEF Smaller, IsBefore, Columns
  <2>3. IsFiniteSet(Smaller(S, col, v))
    BY FS_Subset DEF Smaller
  <2>4. CASE Cardinality(Smaller(S, col, u)) = Cardinality(Smaller(S, col, v))
    <3>1. Smaller(S, col, v) = Smaller(S, col, u)
      BY <2>1, <2>3, <2>4, FS_Subset
    <3> QED
      BY <2>2, <3>1
  <2> QED
    BY <2>4 DEF Rank
<1>2. IsBefore(col, x, y) \/ IsBefore(col, y, x)
  BY DEF IsBefore, Columns
<1> QED
  BY <1>1, <1>2

\* Every position is somebody's rank.
LEMMA RankReaches ==
    ASSUME NEW S, IsFiniteSet(S), NEW col, Columns(S, col), NEW i \in 1..Cardinality(S)
    PROVE  \E x \in S : Rank(S, col, x) = i - 1
<1> DEFINE n == Cardinality(S)
           f == [x \in S |-> Rank(S, col, x)]
<1>1. n \in Nat
  BY FS_CardinalityType
<1>2. f \in [S -> 0..(n - 1)]
  BY RankBound
<1>3. \A x, y \in S : f[x] = f[y] => x = y
  BY RankSeparates
<1>4. f \in Injection(S, 0..(n - 1))
  BY <1>2, <1>3 DEF Injection, IsInjective
<1>5. IsFiniteSet(0..(n - 1)) /\ Cardinality(0..(n - 1)) = n
  <2>1. 0 \in Int /\ n - 1 \in Int /\ (0 > n - 1 <=> n = 0)
    BY <1>1
  <2> HIDE DEF n
  <2> QED
    BY <1>1, <2>1, FS_Interval
<1>6. f \in Surjection(S, 0..(n - 1))
  <2> HIDE DEF f
  <2> QED
    BY <1>4, <1>5, FS_Injection
<1>7. i - 1 \in 0..(n - 1)
  BY <1>1
<1>8. \E x \in S : f[x] = i - 1
  BY <1>6, <1>7 DEF Surjection
<1> QED
  BY <1>8

\* Each element is at the position that its rank gives it.
LEMMA SortedAt ==
    ASSUME NEW S, IsFiniteSet(S), NEW col, Columns(S, col)
    PROVE  /\ \A i \in 1..Cardinality(S) :
                 /\ Sorted(S, col)[i] \in S
                 /\ Rank(S, col, Sorted(S, col)[i]) = i - 1
           /\ \A x \in S : Sorted(S, col)[Rank(S, col, x) + 1] = x
<1>1. ASSUME NEW i \in 1..Cardinality(S)
      PROVE  /\ Sorted(S, col)[i] \in S
             /\ Rank(S, col, Sorted(S, col)[i]) = i - 1
  BY RankReaches, SortedByRank
<1>2. ASSUME NEW x \in S
      PROVE  Sorted(S, col)[Rank(S, col, x) + 1] = x
  <2>1. Rank(S, col, x) \in Nat /\ Rank(S, col, x) + 1 \in 1..Cardinality(S)
    BY RankBound, FS_CardinalityType
  <2>2. Rank(S, col, Sorted(S, col)[Rank(S, col, x) + 1]) = Rank(S, col, x)
    BY <1>1, <2>1
  <2> QED
    BY <1>1, <2>1, <2>2, RankSeparates
<1> QED
  BY <1>1, <1>2

\* What the rest uses of a listing: it lists each element of S once.
Lists(L, S) ==
    /\ L \in Seq(S)
    /\ \A x \in S : \E i \in 1..Len(L) : L[i] = x
    /\ \A i, j \in 1..Len(L) : L[i] = L[j] => i = j
    /\ IsFiniteSet(S) /\ Len(L) = Cardinality(S)

\* M lists what L lists, nothing of it further to the front.
Moves(L, M) == \A i \in 1..Len(L) : \E j \in i..Len(M) : M[j] = L[i]

LEMMA SortedIsListing ==
    ASSUME NEW S, IsFiniteSet(S), NEW col, Columns(S, col)
    PROVE  Lists(Sorted(S, col), S)
<1> DEFINE L == Sorted(S, col)
           n == Cardinality(S)
<1>1. n \in Nat
  BY FS_CardinalityType
<1>2. \A i \in 1..n : L[i] \in S /\ Rank(S, col, L[i]) = i - 1
  BY SortedAt
<1>3. L \in Seq(S) /\ Len(L) = n
  <2>1. L = [i \in 1..n |-> L[i]]
    <3> DEFINE e(i) == CHOOSE x \in S : Rank(S, col, x) = i - 1
    <3>1. L = [i \in 1..n |-> e(i)]
      BY DEF Sorted, Rank, Smaller, IsBefore
    <3> HIDE DEF L, n, e
    <3> QED
      BY <3>1
  <2> HIDE DEF L, n
  <2>2. /\ [i \in 1..n |-> L[i]] \in Seq(S)
        /\ Len([i \in 1..n |-> L[i]]) = n
    BY <1>1, <1>2
  <2> QED
    BY <2>1, <2>2
<1>4. \A x \in S : Rank(S, col, x) + 1 \in 1..n /\ L[Rank(S, col, x) + 1] = x
  BY <1>1, SortedAt, RankBound
<1>5. \A i, j \in 1..n : L[i] = L[j] => i = j
  <2> TAKE i, j \in 1..n
  <2>1. Rank(S, col, L[i]) = i - 1 /\ Rank(S, col, L[j]) = j - 1
    BY <1>2
  <2> QED
    BY <1>1, <2>1
<1> HIDE DEF L, n
<1>6. \A x \in S : \E i \in 1..Len(L) : L[i] = x
  BY <1>3, <1>4
<1> QED
  BY <1>3, <1>5, <1>6 DEF Lists, L, n

LEMMA SortedMoves ==
    ASSUME NEW S, NEW T, S \subseteq T, IsFiniteSet(T), NEW col, NEW new,
           Columns(S, col), Columns(T, new), \A x \in S : new[x] = col[x]
    PROVE  Moves(Sorted(S, col), Sorted(T, new))
<1>1. IsFiniteSet(S) /\ Cardinality(S) \in Nat /\ Cardinality(T) \in Nat
  BY FS_Subset, FS_CardinalityType
<1>2. ASSUME NEW i \in 1..Cardinality(S)
      PROVE  \E j \in i..Cardinality(T) : Sorted(T, new)[j] = Sorted(S, col)[i]
  <2> DEFINE x == Sorted(S, col)[i]
  <2>1. x \in S /\ Rank(S, col, x) = i - 1
    BY <1>1, SortedAt
  <2> HIDE DEF x
  <2>2. Smaller(S, col, x) \subseteq Smaller(T, new, x)
    BY <2>1 DEF Smaller, IsBefore
  <2>3. IsFiniteSet(Smaller(T, new, x))
    BY FS_Subset DEF Smaller
  <2>4. Rank(S, col, x) <= Rank(T, new, x)
    BY <2>2, <2>3, FS_Subset DEF Rank
  <2>5. Rank(T, new, x) \in 0..(Cardinality(T) - 1)
    BY <2>1, RankBound
  <2>6. Sorted(T, new)[Rank(T, new, x) + 1] = x
    BY <2>1, SortedAt
  <2>7. Rank(T, new, x) + 1 \in i..Cardinality(T)
    BY <1>1, <2>1, <2>4, <2>5
  <2> QED
    BY <2>6, <2>7 DEF x
<1>3. Len(Sorted(S, col)) = Cardinality(S) /\ Len(Sorted(T, new)) = Cardinality(T)
  BY <1>1, SortedIsListing DEF Lists
<1> QED
  BY <1>2, <1>3 DEF Moves

\* Where the elements and their columns stay, so does the listing.
LEMMA SortedStays ==
    ASSUME NEW S, IsFiniteSet(S), NEW col, NEW new,
           Columns(S, col), Columns(S, new), \A x \in S : new[x] = col[x]
    PROVE  Sorted(S, new) = Sorted(S, col)
<1> DEFINE L == Sorted(S, col)
           M == Sorted(S, new)
<1>1. /\ L \in Seq(S) /\ M \in Seq(S) /\ Len(L) = Cardinality(S)
      /\ Len(M) = Cardinality(S) /\ Cardinality(S) \in Nat
  BY SortedIsListing, FS_CardinalityType DEF Lists
<1>2. ASSUME NEW i \in 1..Cardinality(S) PROVE M[i] = L[i]
  <2> DEFINE x == L[i]
  <2>1. x \in S /\ Rank(S, col, x) = i - 1
    BY SortedAt
  <2> HIDE DEF x
  <2>2. Smaller(S, new, x) = Smaller(S, col, x)
    BY <2>1 DEF Smaller, IsBefore
  <2>3. Rank(S, new, x) + 1 = i
    BY <1>1, <2>1, <2>2 DEF Rank
  <2>4. M[Rank(S, new, x) + 1] = x
    BY <2>1, SortedAt
  <2> QED
    BY <2>3, <2>4 DEF x
<1> HIDE DEF L, M
<1>3. M = L
  BY <1>1, <1>2, SeqEqual
<1> QED
  BY <1>3 DEF L, M

-----------------------------------------------------------------------------
(* Listings of the tables: addresses a, runs r, skipped rows s. *)

Statuses == {"running", "success", "failed"}

Columned(a) == [k \in Keys |-> <<Zip[k], a[k].id>>]

Lined(s) == [i \in 1..Len(s) |-> <<s[i].line, i>>]

\* Listing, with the tables as parameters.
ListingOf(q, a, r, s) ==
    CASE q.kind = "runs" -> [i \in 1..Len(r) |-> Len(r) + 1 - i]
      [] q.kind = "skipped" -> Sorted({i \in 1..Len(s) : s[i].run = q.run}, Lined(s))
      [] OTHER -> Sorted(Matches(q.match, a), Columned(a))

TablesOK(a, r, s) ==
    /\ a \in [Keys -> AddressRow]
    /\ \A j, k \in Keys : a[j].id # 0 /\ a[j].id = a[k].id => j = k
    /\ r \in Seq(Statuses)
    /\ s \in Seq([run : Nat, line : Lines])

\* What a step may do to the tables: a stored address keeps its id, runs and
\* skipped rows are added at the end, and a run that has ended stays as it is.
TablesMove(a, r, s, b, t, u) ==
    /\ \A k \in Keys : a[k].id # 0 /\ b[k].id # 0 => b[k].id = a[k].id
    /\ Len(r) <= Len(t) /\ \A i \in 1..Len(r) : r[i] # "running" => t[i] = r[i]
    /\ Len(s) <= Len(u) /\ \A i \in 1..Len(s) : u[i] = s[i]

LEMMA MatchingKeys ==
    ASSUME NEW match, NEW a
    PROVE  /\ Matches(match, a) \subseteq Keys
           /\ IsFiniteSet(Matches(match, a))
<1>1. Matches(match, a) \subseteq Keys
  BY DEF Matches, Stored
<1> QED
  BY <1>1, ReadPathAssumption, FS_Subset

LEMMA ColumnedTells ==
    ASSUME NEW a, NEW r, NEW s, TablesOK(a, r, s), NEW match
    PROVE  /\ IsFiniteSet(Matches(match, a))
           /\ Columns(Matches(match, a), Columned(a))
<1>1. \A k \in Matches(match, a) : k \in Keys /\ a[k].id # 0
  BY DEF Matches, Stored
<1>2. ASSUME NEW k \in Keys
      PROVE  /\ Columned(a)[k][1] = Zip[k] /\ Columned(a)[k][2] = a[k].id
             /\ Zip[k] \in Nat /\ a[k].id \in Nat
  BY ReadPathAssumption DEF Columned, TablesOK, AddressRow
<1>3. \A j, k \in Keys : a[j].id # 0 /\ a[j].id = a[k].id => j = k
  BY DEF TablesOK
<1> QED
  BY <1>1, <1>2, <1>3, MatchingKeys DEF Columns

LEMMA LinedTells ==
    ASSUME NEW a, NEW r, NEW s, TablesOK(a, r, s), NEW run
    PROVE  /\ IsFiniteSet({i \in 1..Len(s) : s[i].run = run})
           /\ Columns({i \in 1..Len(s) : s[i].run = run}, Lined(s))
<1>1. Len(s) \in Nat
  BY DEF TablesOK
<1>2. IsFiniteSet(1..Len(s))
  BY <1>1, FS_Interval
<1>3. IsFiniteSet({i \in 1..Len(s) : s[i].run = run})
  BY <1>2, FS_Subset
<1>4. ASSUME NEW i \in 1..Len(s)
      PROVE  /\ Lined(s)[i][1] = s[i].line /\ Lined(s)[i][2] = i
             /\ s[i].line \in Nat /\ i \in Nat
  <2>1. s[i] \in [run : Nat, line : Lines]
    BY ElementOfSeq DEF TablesOK
  <2>2. s[i].line \in Nat
    BY <2>1, ReadPathAssumption
  <2>3. Lined(s)[i] = <<s[i].line, i>>
    BY DEF Lined
  <2> QED
    BY <1>1, <2>2, <2>3
<1> QED
  BY <1>3, <1>4 DEF Columns

LEMMA ListingLists ==
    ASSUME NEW a, NEW r, NEW s, TablesOK(a, r, s), NEW q
    PROVE  Lists(ListingOf(q, a, r, s), Listed(q, a, r, s))
<1>1. CASE q.kind = "runs"
  <2> DEFINE n == Len(r)
             L == [i \in 1..n |-> n + 1 - i]
  <2>1. n \in Nat
    BY DEF TablesOK
  <2> HIDE DEF n
  <2>2. L \in Seq(1..n) /\ Len(L) = n
    BY <2>1
  <2>3. \A x \in 1..n : n + 1 - x \in 1..n /\ L[n + 1 - x] = x
    BY <2>1
  <2>4. \A i, j \in 1..n : L[i] = L[j] => i = j
    BY <2>1
  <2>5. IsFiniteSet(1..n) /\ Cardinality(1..n) = n
    <3>1. 1 \in Int /\ n \in Int /\ (1 > n <=> n = 0)
      BY <2>1
    <3> QED
      BY <2>1, <3>1, FS_Interval
  <2> HIDE DEF L
  <2>6. Lists(L, 1..n)
    BY <2>2, <2>3, <2>4, <2>5 DEF Lists
  <2> QED
    BY <1>1, <2>6 DEF ListingOf, Listed, n, L
<1>2. CASE q.kind = "skipped"
  BY <1>2, LinedTells, SortedIsListing DEF ListingOf, Listed
<1>3. CASE q.kind \notin {"runs", "skipped"}
  BY <1>3, ColumnedTells, SortedIsListing DEF ListingOf, Listed
<1> QED
  BY <1>1, <1>2, <1>3

\* What is added to a listing pushes the rest back.
LEMMA ListingMoves ==
    ASSUME NEW a, NEW r, NEW s, TablesOK(a, r, s), NEW b, NEW t, NEW u,
           TablesOK(b, t, u), TablesMove(a, r, s, b, t, u), NEW q,
           Listed(q, a, r, s) \subseteq Listed(q, b, t, u)
    PROVE  Moves(ListingOf(q, a, r, s), ListingOf(q, b, t, u))
<1>1. CASE q.kind = "runs"
  <2> DEFINE n == Len(r)
             m == Len(t)
             L == [i \in 1..n |-> n + 1 - i]
             M == [i \in 1..m |-> m + 1 - i]
  <2>1. n \in Nat /\ m \in Nat /\ n <= m
    BY DEF TablesOK, TablesMove
  <2> HIDE DEF n, m
  <2>2. Len(L) = n /\ Len(M) = m
    BY <2>1
  <2>3. ASSUME NEW i \in 1..n PROVE i + (m - n) \in i..m /\ M[i + (m - n)] = L[i]
    BY <2>1
  <2> HIDE DEF L, M
  <2>4. Moves(L, M)
    BY <2>2, <2>3 DEF Moves
  <2> QED
    BY <1>1, <2>4 DEF ListingOf, n, m, L, M
<1>2. CASE q.kind = "skipped"
  <2> DEFINE S == {i \in 1..Len(s) : s[i].run = q.run}
             T == {i \in 1..Len(u) : u[i].run = q.run}
  <2>1. Columns(S, Lined(s)) /\ S \subseteq T
    BY <1>2, LinedTells DEF Listed
  <2>4. IsFiniteSet(T) /\ Columns(T, Lined(u))
    BY LinedTells
  <2>2. \A i \in S : Lined(u)[i] = Lined(s)[i]
    BY DEF Lined, TablesMove, TablesOK
  <2>3. Moves(Sorted(S, Lined(s)), Sorted(T, Lined(u)))
    BY <2>1, <2>4, <2>2, SortedMoves
  <2> QED
    BY <1>2, <2>3 DEF ListingOf
<1>3. CASE q.kind \notin {"runs", "skipped"}
  <2> DEFINE S == Matches(q.match, a)
             T == Matches(q.match, b)
  <2>1. /\ IsFiniteSet(T) /\ Columns(S, Columned(a)) /\ Columns(T, Columned(b))
        /\ S \subseteq T
    BY <1>3, ColumnedTells DEF Listed
  <2>2. \A k \in S : Columned(b)[k] = Columned(a)[k]
    <3>1. S \subseteq Keys /\ (\A k \in S : a[k].id # 0) /\ (\A k \in S : b[k].id # 0)
      BY <2>1 DEF Matches, Stored
    <3> QED
      BY <3>1 DEF Columned, TablesMove
  <2>3. Moves(Sorted(S, Columned(a)), Sorted(T, Columned(b)))
    BY <2>1, <2>2, SortedMoves
  <2> QED
    BY <1>3, <2>3 DEF ListingOf
<1> QED
  BY <1>1, <1>2, <1>3

\* A listing that neither gains nor loses a row stays as it is.
LEMMA ListingStays ==
    ASSUME NEW a, NEW r, NEW s, TablesOK(a, r, s), NEW b, NEW t, NEW u,
           TablesOK(b, t, u), TablesMove(a, r, s, b, t, u), NEW q,
           Listed(q, a, r, s) = Listed(q, b, t, u)
    PROVE  ListingOf(q, a, r, s) = ListingOf(q, b, t, u)
<1>1. CASE q.kind = "runs"
  <2>1. Len(r) \in Nat /\ Len(t) \in Nat /\ 1..Len(r) = 1..Len(t)
    BY <1>1 DEF TablesOK, Listed
  <2>2. Len(r) = Len(t)
    BY <2>1
  <2> QED
    BY <1>1, <2>2 DEF ListingOf
<1>2. CASE q.kind = "skipped"
  <2> DEFINE S == {i \in 1..Len(s) : s[i].run = q.run}
  <2>4. S = {i \in 1..Len(u) : u[i].run = q.run}
    BY <1>2 DEF Listed
  <2>5. IsFiniteSet(S) /\ Columns(S, Lined(s))
    BY LinedTells
  <2>1. IsFiniteSet(S) /\ Columns(S, Lined(s)) /\ Columns(S, Lined(u))
    <3>1. Columns({i \in 1..Len(u) : u[i].run = q.run}, Lined(u))
      BY LinedTells
    <3> QED
      BY <2>4, <2>5, <3>1
  <2>2. \A i \in S : Lined(u)[i] = Lined(s)[i]
    BY DEF Lined, TablesMove, TablesOK
  <2>3. Sorted(S, Lined(u)) = Sorted(S, Lined(s))
    BY <2>1, <2>2, SortedStays
  <2> QED
    BY <1>2, <2>4, <2>3 DEF ListingOf
<1>3. CASE q.kind \notin {"runs", "skipped"}
  <2> DEFINE S == Matches(q.match, a)
  <2>1. /\ IsFiniteSet(S) /\ Columns(S, Columned(a)) /\ Columns(S, Columned(b))
        /\ S = Matches(q.match, b)
    BY <1>3, ColumnedTells DEF Listed
  <2>2. \A k \in S : Columned(b)[k] = Columned(a)[k]
    <3>1. S \subseteq Keys /\ (\A k \in S : a[k].id # 0) /\ (\A k \in S : b[k].id # 0)
      BY <2>1 DEF Matches, Stored
    <3> QED
      BY <3>1 DEF Columned, TablesMove
  <2>3. Sorted(S, Columned(b)) = Sorted(S, Columned(a))
    BY <2>1, <2>2, SortedStays
  <2> QED
    BY <1>3, <2>1, <2>3 DEF ListingOf
<1> QED
  BY <1>1, <1>2, <1>3

-----------------------------------------------------------------------------
(* Pages. *)

\* The page of L after m rows.
PageOf(L, m, size) == SubSeq(L, m + 1, IF m + size < Len(L) THEN m + size ELSE Len(L))

\* What has been read, and a page: the page continues it with the rows of the
\* listing from where it ended, and is full unless the listing ends there.
LEMMA PageContinues ==
    ASSUME NEW S, NEW L \in Seq(S), NEW T, S \subseteq T, NEW seen \in Seq(T),
           NEW size \in Nat \ {0}
    PROVE  LET page == PageOf(L, Len(seen), size)
               out == seen \o page
           IN  /\ page \in Seq(S) /\ out \in Seq(T) /\ Len(page) <= size
               /\ Len(page) \in Nat /\ Len(out) = Len(seen) + Len(page)
               /\ \A i \in 1..Len(page) : page[i] = L[Len(seen) + i]
               /\ \A i \in 1..Len(seen) : out[i] = seen[i]
               /\ \A i \in (Len(seen) + 1)..Len(out) : i <= Len(L) /\ out[i] = L[i]
               /\ Len(seen) <= Len(L) => Len(out) <= Len(L)
               /\ Len(page) < size => Len(L) <= Len(out)
<1> DEFINE m == Len(seen)
           last == IF m + size < Len(L) THEN m + size ELSE Len(L)
           page == PageOf(L, m, size)
           out == seen \o page
<1>1. m \in Nat /\ Len(L) \in Nat /\ last \in Nat /\ last <= Len(L) /\ last <= m + size
  BY LenProperties
<1>2. \A i \in (m + 1)..last : L[i] \in S
  <2> TAKE i \in (m + 1)..last
  <2>1. i \in 1..Len(L)
    BY <1>1
  <2> QED
    BY <2>1, ElementOfSeq
<1>3. page = SubSeq(L, m + 1, last)
  BY DEF PageOf
<1> HIDE DEF page, last, m
<1>4. m + 1 \in Int /\ last \in Int
  BY <1>1
<1>5. /\ page \in Seq(S)
      /\ Len(page) = IF m + 1 <= last THEN last - (m + 1) + 1 ELSE 0
      /\ \A i \in 1..(last - (m + 1) + 1) : page[i] = L[(m + 1) + i - 1]
  BY <1>2, <1>3, <1>4, SubSeqProperties
<1>6. /\ Len(page) = IF m + 1 <= last THEN last - m ELSE 0
      /\ Len(page) \in Nat /\ Len(page) <= size
  BY <1>1, <1>5
<1>7. \A i \in 1..Len(page) : page[i] = L[m + i]
  <2> TAKE i \in 1..Len(page)
  <2>1. i \in 1..(last - (m + 1) + 1) /\ (m + 1) + i - 1 = m + i
    BY <1>1, <1>6
  <2> QED
    BY <1>5, <2>1
<1>8. page \in Seq(T)
  BY <1>5, SeqMonotonic
<1>9. /\ out \in Seq(T) /\ Len(out) = m + Len(page)
      /\ \A i \in 1..(m + Len(page)) : out[i] = IF i <= m THEN seen[i] ELSE page[i - m]
  BY <1>8, ConcatProperties DEF m
<1> HIDE DEF out
<1>10. \A i \in 1..m : out[i] = seen[i]
  <2> TAKE i \in 1..m
  <2>1. i \in 1..(m + Len(page)) /\ i <= m
    BY <1>1, <1>6
  <2> QED
    BY <1>9, <2>1
<1>11. ASSUME NEW i \in (m + 1)..Len(out)
       PROVE  i <= Len(L) /\ out[i] = L[i]
  <2>1. i - m \in 1..Len(page) /\ i \in 1..(m + Len(page)) /\ ~(i <= m)
    BY <1>1, <1>6, <1>9
  <2>2. out[i] = page[i - m] /\ page[i - m] = L[m + (i - m)]
    BY <1>7, <1>9, <2>1
  <2>3. m + (i - m) = i /\ i <= last
    BY <1>1, <1>6, <2>1
  <2> QED
    BY <1>1, <2>2, <2>3
<1>12. m <= Len(L) => Len(out) <= Len(L)
  BY <1>1, <1>6, <1>9
<1>13. Len(page) < size => Len(L) <= Len(out)
  <2>1. CASE m + size < Len(L)
    BY <1>1, <1>6, <2>1 DEF last
  <2>2. CASE ~(m + size < Len(L))
    BY <1>1, <1>6, <1>9, <2>2 DEF last
  <2> QED
    BY <2>1, <2>2
<1> QED
  BY <1>5, <1>6, <1>7, <1>9, <1>10, <1>11, <1>12, <1>13 DEF m, page, out

-----------------------------------------------------------------------------
(* Walks. *)

Listings == {"addresses", "zipcode", "runs", "skipped"}

\* Nothing that was there at the start is between what was read and what is
\* yet to come.
Ahead(seen, start, L) ==
    \A x \in start :
        x \in Elements(seen) \/ \E i \in (Len(seen) + 1)..Len(L) : L[i] = x

\* What was read is the front of the listing.
Front(seen, L) ==
    Len(seen) <= Len(L) /\ \A i \in 1..Len(seen) : seen[i] = L[i]

NoRepeats(seen) == \A i, j \in DOMAIN seen : seen[i] = seen[j] => i = j

\* What WalkIsExact says of a request.
Exact(q) ==
    /\ ~q.shrunk /\ q.kind # "zipcode" => q.start \subseteq Elements(q.seen)
    /\ ~q.shrunk /\ ~q.grown => NoRepeats(q.seen)

\* Why it will hold.
Walks(q, L) ==
    IF q.done THEN Exact(q)
    ELSE /\ ~q.shrunk => Ahead(q.seen, q.start, L)
         /\ ~q.shrunk /\ ~q.grown => Front(q.seen, L)

\* Rows that move back stay ahead.
LEMMA AheadMoves ==
    ASSUME NEW S, NEW L \in Seq(S), NEW T, NEW M \in Seq(T), Moves(L, M),
           NEW R, NEW seen \in Seq(R), NEW start, Ahead(seen, start, L)
    PROVE  Ahead(seen, start, M)
<1>1. Len(seen) \in Nat /\ Len(L) \in Nat /\ Len(M) \in Nat
  BY LenProperties
<1>2. ASSUME NEW x \in start, x \notin Elements(seen)
      PROVE  \E i \in (Len(seen) + 1)..Len(M) : M[i] = x
  <2>1. PICK i \in (Len(seen) + 1)..Len(L) : L[i] = x
    BY <1>2 DEF Ahead
  <2>2. i \in 1..Len(L)
    BY <1>1
  <2>3. PICK j \in i..Len(M) : M[j] = L[i]
    BY <2>2 DEF Moves
  <2>4. j \in (Len(seen) + 1)..Len(M)
    BY <1>1
  <2> QED
    BY <2>1, <2>3, <2>4
<1> QED
  BY <1>2 DEF Ahead

\* A page that is full carries the walk on.
LEMMA WalkGoesOn ==
    ASSUME NEW S, NEW L, Lists(L, S), NEW T, S \subseteq T, NEW seen \in Seq(T),
           NEW size \in Nat \ {0}, NEW start, Ahead(seen, start, L)
    PROVE  LET page == PageOf(L, Len(seen), size)
               out == seen \o page
           IN  /\ Ahead(out, start, L)
               /\ Len(page) < size => start \subseteq Elements(out)
<1> DEFINE page == PageOf(L, Len(seen), size)
           out == seen \o page
<1>1. L \in Seq(S)
  BY DEF Lists
<1>2. /\ out \in Seq(T) /\ Len(seen) \in Nat /\ Len(L) \in Nat /\ Len(page) \in Nat
      /\ Len(out) = Len(seen) + Len(page)
      /\ \A i \in 1..Len(seen) : out[i] = seen[i]
      /\ \A i \in (Len(seen) + 1)..Len(out) : out[i] = L[i]
      /\ Len(page) < size => Len(L) <= Len(out)
  <2>1. Len(seen) \in Nat /\ Len(L) \in Nat
    BY <1>1, LenProperties
  <2>2. /\ out \in Seq(T) /\ Len(page) \in Nat
        /\ Len(out) = Len(seen) + Len(page)
        /\ \A i \in 1..Len(seen) : out[i] = seen[i]
    BY <1>1, PageContinues
  <2>3. \A i \in (Len(seen) + 1)..Len(out) : out[i] = L[i]
    BY <1>1, PageContinues
  <2>4. Len(page) < size => Len(L) <= Len(out)
    BY <1>1, PageContinues
  <2> HIDE DEF page, out
  <2> QED
    BY <2>1, <2>2, <2>3, <2>4
<1>3. DOMAIN out = 1..Len(out) /\ DOMAIN seen = 1..Len(seen)
  BY <1>2, LenProperties
<1> HIDE DEF page, out
<1>4. Elements(seen) \subseteq Elements(out)
  BY <1>2, <1>3 DEF Elements
<1>5. ASSUME NEW x \in start, x \notin Elements(out)
      PROVE  \E i \in (Len(out) + 1)..Len(L) : L[i] = x
  <2>1. PICK i \in (Len(seen) + 1)..Len(L) : L[i] = x
    BY <1>4, <1>5 DEF Ahead
  <2>2. ~(i <= Len(out))
    BY <1>2, <1>3, <1>5, <2>1 DEF Elements
  <2>3. i \in (Len(out) + 1)..Len(L)
    BY <1>2, <2>2
  <2> QED
    BY <2>1, <2>3
<1>6. Len(page) < size => start \subseteq Elements(out)
  BY <1>2, <1>5
<1> QED
  BY <1>5, <1>6 DEF Ahead, page, out

\* The first page: all of the listing is ahead.
LEMMA WalkBegins ==
    ASSUME NEW S, NEW L, Lists(L, S)
    PROVE  Ahead(<<>>, Elements(L), L)
<1>1. L \in Seq(S)
  BY DEF Lists
<1>2. DOMAIN L = 1..Len(L)
  BY <1>1, LenProperties
<1> QED
  BY <1>2 DEF Ahead, Elements

LEMMA FrontGoesOn ==
    ASSUME NEW S, NEW L, Lists(L, S), NEW T, S \subseteq T, NEW seen \in Seq(T),
           NEW size \in Nat \ {0}, Front(seen, L)
    PROVE  LET out == seen \o PageOf(L, Len(seen), size)
           IN  Front(out, L) /\ NoRepeats(out)
<1> DEFINE page == PageOf(L, Len(seen), size)
           out == seen \o page
<1>1. L \in Seq(S) /\ \A i, j \in 1..Len(L) : L[i] = L[j] => i = j
  BY DEF Lists
<1>2. /\ out \in Seq(T) /\ Len(seen) \in Nat /\ Len(L) \in Nat
      /\ \A i \in 1..Len(seen) : out[i] = seen[i]
      /\ \A i \in (Len(seen) + 1)..Len(out) : out[i] = L[i]
      /\ Len(seen) <= Len(L) => Len(out) <= Len(L)
  <2>1. Len(seen) \in Nat /\ Len(L) \in Nat
    BY <1>1, LenProperties
  <2>2. out \in Seq(T) /\ \A i \in 1..Len(seen) : out[i] = seen[i]
    BY <1>1, PageContinues
  <2>3. \A i \in (Len(seen) + 1)..Len(out) : out[i] = L[i]
    BY <1>1, PageContinues
  <2>4. Len(seen) <= Len(L) => Len(out) <= Len(L)
    BY <1>1, PageContinues
  <2> HIDE DEF page, out
  <2> QED
    BY <2>1, <2>2, <2>3, <2>4
<1>3. DOMAIN out = 1..Len(out) /\ Len(out) \in Nat
  BY <1>2, LenProperties
<1> HIDE DEF page, out
<1>4. Front(out, L)
  BY <1>2, <1>3 DEF Front
<1>5. NoRepeats(out)
  <2> SUFFICES ASSUME NEW i \in 1..Len(out), NEW j \in 1..Len(out), out[i] = out[j]
               PROVE  i = j
    BY <1>3 DEF NoRepeats
  <2>1. i \in 1..Len(L) /\ j \in 1..Len(L) /\ out[i] = L[i] /\ out[j] = L[j]
    BY <1>2, <1>3, <1>4 DEF Front
  <2> QED
    BY <1>1, <2>1
<1> QED
  BY <1>4, <1>5 DEF out, page

\* A front as long as the listing is the whole of it.
LEMMA FrontIsAll ==
    ASSUME NEW S, NEW L, Lists(L, S), NEW T, NEW seen \in Seq(T), Front(seen, L),
           Len(L) <= Len(seen)
    PROVE  Elements(seen) = S
<1>1. L \in Seq(S) /\ Len(L) \in Nat /\ Len(seen) \in Nat /\ DOMAIN seen = 1..Len(seen)
  BY LenProperties DEF Lists
<1>2. Len(seen) = Len(L) /\ \A i \in 1..Len(seen) : seen[i] = L[i]
  BY <1>1 DEF Front
<1>3. \A i \in 1..Len(L) : L[i] \in S
  BY <1>1, ElementOfSeq
<1> QED
  BY <1>1, <1>2, <1>3 DEF Elements, Lists

-----------------------------------------------------------------------------
(* The pool and the stage of the process. *)

Holders(cn) == {a \in Actors : cn[a] = "held"}

PoolTypes ==
    /\ boot \in {"down", "tx", "up"}
    /\ maxOpen \in PoolSizes
    /\ conn \in [Actors -> {"none", "waiting", "held"}]
    /\ engine \in {"idle", "create", "running", "write", "finish"}

\* Who waits for a connection, or has one.
Asking ==
    /\ \A c \in Clients : client[c].left = <<>> <=> conn[c] = "none"
    /\ engine \in {"create", "write", "finish"} <=> conn[Engine] # "none"

\* Nobody asks before the process is up.
Quiet ==
    boot # "up" => engine = "idle" /\ client = [c \in Clients |-> NoRequest]

\* The run at work is the last one, and its row says so.
AtWork ==
    engine \in {"running", "write", "finish"} =>
        runs # <<>> /\ runs[Len(runs)] = "running"

\* What the statements left of a request may be.
Lefts(kind) ==
    CASE kind \in {"addresses", "zipcode"} ->
            {<<>>, <<"token", "count", "page">>, <<"count", "page">>, <<"page">>}
      [] kind \in {"runs", "skipped"} -> {<<>>, <<"token", "page">>, <<"page">>}
      [] kind = "status" ->
            {<<>>, <<"token", "total", "running", "last">>,
             <<"total", "running", "last">>, <<"running", "last">>, <<"last">>}
      [] OTHER -> {<<>>}

LEMMA ActorsFinite == IsFiniteSet(Actors)
BY ReadPathAssumption, FS_AddElement DEF Actors

LEMMA HoldersCount ==
    ASSUME NEW cn
    PROVE  IsFiniteSet(Holders(cn)) /\ Cardinality(Holders(cn)) \in Nat
BY ActorsFinite, FS_Subset, FS_CardinalityType DEF Holders

LEMMA BusyIs == Busy = Cardinality(Holders(conn)) + (IF boot = "tx" THEN 1 ELSE 0)
BY DEF Busy, Holders

PoolLimit ==
    Cardinality(Holders(conn)) + (IF boot = "tx" THEN 1 ELSE 0) <= maxOpen

\* Whoever gives a connection back makes the pool no busier.
LEMMA ReleaseFrees ==
    ASSUME PoolTypes, PoolLimit, NEW cn, \A a \in Actors : cn[a] = "held" => conn[a] = "held"
    PROVE  Cardinality(Holders(cn)) + (IF boot = "tx" THEN 1 ELSE 0) <= maxOpen
<1>1. Holders(cn) \subseteq Holders(conn)
  BY DEF Holders
<1>2. Cardinality(Holders(cn)) <= Cardinality(Holders(conn))
  BY <1>1, HoldersCount, FS_Subset
<1>3. Cardinality(Holders(cn)) \in Nat /\ Cardinality(Holders(conn)) \in Nat
  BY HoldersCount
<1>4. maxOpen \in Nat
  BY ReadPathAssumption DEF PoolTypes
<1> QED
  BY <1>2, <1>3, <1>4 DEF PoolLimit

LEMMA GrantFits ==
    ASSUME PoolTypes, NEW a \in Actors, Grant(a)
    PROVE  PoolLimit'
<1>1. Holders(conn') = Holders(conn) \cup {a} /\ a \notin Holders(conn)
  BY DEF Grant, Holders, PoolTypes
<1>2. Cardinality(Holders(conn')) = Cardinality(Holders(conn)) + 1
  BY <1>1, HoldersCount, FS_AddElement
<1>3. Busy < maxOpen /\ boot' = boot /\ maxOpen' = maxOpen
  BY DEF Grant
<1>4. Cardinality(Holders(conn)) \in Nat /\ maxOpen \in Nat
  BY HoldersCount, ReadPathAssumption DEF PoolTypes
<1> QED
  BY <1>2, <1>3, <1>4, BusyIs DEF PoolLimit

\* What a request does to the pool, and to its client.
LEMMA RequestAsks ==
    ASSUME NEW c \in Clients, Request(c)
    PROVE  Leave(c) \/ \E q : Asks(c, q)
<1>1. ASSUME NEW kind, NEW match, NEW run, Ask(c, kind, match, run)
      PROVE  \E q : Asks(c, q)
  BY ONLY <1>1 DEF Ask
<1>2. CASE AskOn(c)
  BY ONLY <1>2 DEF AskOn
<1> QED
  BY <1>1, <1>2 DEF Request

LEMMA PoolStep ==
    ASSUME PoolTypes, PoolLimit, [Next]_vars
    PROVE  PoolTypes' /\ PoolLimit'
<1> USE DEF Release
<1>1. ASSUME NEW c \in Clients, Request(c) \/ Read(c) \/ Fails(c)
      PROVE  /\ PoolTypes' /\ maxOpen' = maxOpen /\ boot' = boot
             /\ \A a \in Actors : conn'[a] = "held" => conn[a] = "held"
  <2> c \in Actors
    BY DEF Actors
  <2>1. CASE Request(c)
    BY <2>1, RequestAsks DEF Leave, Asks, poolVars, PoolTypes
  <2>2. CASE Read(c)
    BY <2>2 DEF Read, PoolTypes
  <2>3. CASE Fails(c)
    BY <2>3 DEF Fails, PoolTypes
  <2> QED
    BY <1>1, <2>1, <2>2, <2>3
<1>2. ASSUME Run
      PROVE  /\ PoolTypes' /\ maxOpen' = maxOpen /\ boot' = boot
             /\ \A a \in Actors : conn'[a] = "held" => conn[a] = "held"
  <2> Engine \in Actors
    BY DEF Actors
  <2>1. CASE BeginRun \/ NextStatement
    BY <2>1 DEF BeginRun, NextStatement, EngineAsks, PoolTypes
  <2>2. CASE Create \/ Write \/ StatementFails
    BY <2>2 DEF Create, Write, StatementFails, PoolTypes
  <2>3. ASSUME NEW status \in {"success", "failed"}, Finish(status)
        PROVE  /\ PoolTypes' /\ maxOpen' = maxOpen /\ boot' = boot
               /\ \A a \in Actors : conn'[a] = "held" => conn[a] = "held"
    BY <2>3 DEF Finish, PoolTypes
  <2> QED
    BY <1>2, <2>1, <2>2, <2>3 DEF Run
<1>3. CASE \E c \in Clients : Request(c) \/ Read(c) \/ Fails(c)
  BY <1>1, <1>3, ReleaseFrees DEF PoolLimit
<1>4. CASE Run
  BY <1>2, <1>4, ReleaseFrees DEF PoolLimit
<1>5. ASSUME NEW a \in Actors, Grant(a)
      PROVE  PoolTypes' /\ PoolLimit'
  BY <1>5, GrantFits DEF Grant, PoolTypes
<1>6. CASE Crash
  <2>1. PoolTypes' /\ boot' = "down" /\ maxOpen' \in Nat
    BY <1>6, ReadPathAssumption DEF Crash, PoolTypes
  <2>2. Holders(conn') = {}
    BY <1>6 DEF Crash, Holders
  <2> QED
    BY <2>1, <2>2, FS_EmptySet DEF PoolLimit
<1>7. CASE Start
  <2>1. PoolTypes' /\ conn' = conn /\ maxOpen' = maxOpen /\ maxOpen \in Nat
        /\ boot' = "tx" /\ boot = "down" /\ Busy < maxOpen
    BY <1>7, ReadPathAssumption DEF Start, PoolTypes, poolVars
  <2>2. Cardinality(Holders(conn)) \in Nat
    BY HoldersCount
  <2> QED
    BY <2>1, <2>2, BusyIs DEF PoolLimit
<1>8. CASE CleanUp
  <2>1. PoolTypes' /\ conn' = conn /\ maxOpen' = maxOpen /\ maxOpen \in Nat
        /\ boot' = "up" /\ boot = "tx"
    BY <1>8, ReadPathAssumption DEF CleanUp, PoolTypes, poolVars
  <2>2. Cardinality(Holders(conn)) \in Nat
    BY HoldersCount
  <2> QED
    BY <2>1, <2>2 DEF PoolLimit
<1>9. CASE UNCHANGED vars
  BY <1>9 DEF vars, poolVars, PoolTypes, PoolLimit
<1> QED
  BY <1>3, <1>4, <1>5, <1>6, <1>7, <1>8, <1>9 DEF Next

-----------------------------------------------------------------------------
(* The tables. *)

IdsBelow(a, n) == n \in 1..(MaxId + 1) /\ \A k \in Keys : a[k].id < n

TablesInv == TablesOK(addresses, runs, skipped) /\ IdsBelow(addresses, nextId)

Unmoved == addresses' = addresses /\ runs' = runs /\ skipped' = skipped

Moved == TablesMove(addresses, runs, skipped, addresses', runs', skipped')

LEMMA UnmovedMoves ==
    ASSUME TablesInv, Unmoved
    PROVE  TablesOK(addresses, runs, skipped)' /\ Moved
<1>1. Len(runs) \in Nat /\ Len(skipped) \in Nat
  BY DEF TablesInv, TablesOK
<1> QED
  BY <1>1 DEF TablesInv, TablesOK, Unmoved, Moved, TablesMove

LEMMA BatchRows ==
    ASSUME NEW b \in Batches
    PROVE  /\ b \in Seq([key : Keys, names : Names])
           /\ Len(b) \in Nat /\ DOMAIN b = 1..Len(b)
<1> DEFINE R == [key : Keys, names : Names]
<1>1. Batches \subseteq Seq(R)
  BY ReadPathAssumption
<1> HIDE DEF R
<1>2. b \in Seq(R) /\ Len(b) \in Nat /\ DOMAIN b = 1..Len(b)
  BY <1>1, LenProperties
<1> QED
  BY <1>2 DEF R

\* A batch has a last row for each of its keys, and that row has names.
LEMMA BatchNames ==
    ASSUME NEW b \in Batches, NEW k \in KeysOf(b)
    PROVE  NamesIn(b, k) \in Names
<1> DEFINE S == {i \in 1..Len(b) : b[i].key = k}
           col == [i \in S |-> <<i, i>>]
           n == Cardinality(S)
<1>1. b \in Seq([key : Keys, names : Names]) /\ Len(b) \in Nat /\ DOMAIN b = 1..Len(b)
  BY BatchRows
<1>2. IsFiniteSet(S)
  <2>1. IsFiniteSet(1..Len(b))
    BY <1>1, FS_Interval
  <2> QED
    BY <2>1, FS_Subset
<1>3. S # {}
  BY <1>1 DEF KeysOf
<1>4. n \in Nat /\ n # 0
  BY <1>2, <1>3, FS_CardinalityType, FS_EmptySet
<1>5. Columns(S, col)
  BY <1>1 DEF Columns
<1>6. PICK x \in S : Rank(S, col, x) = n - 1
  <2>1. n \in 1..n
    BY <1>4
  <2> HIDE DEF S, col
  <2> QED
    BY <1>2, <1>5, <2>1, RankReaches
<1>7. Smaller(S, col, x) = S \ {x}
  <2>1. Smaller(S, col, x) \subseteq S \ {x}
    BY <1>1 DEF Smaller, IsBefore
  <2> HIDE DEF S, col
  <2>2. IsFiniteSet(S \ {x}) /\ Cardinality(S \ {x}) = n - 1
    BY <1>2, FS_RemoveElement
  <2> QED
    BY <1>6, <2>1, <2>2, FS_Subset DEF Rank
<1>8. \A j \in DOMAIN b : j > x => b[j].key # k
  <2> SUFFICES ASSUME NEW j \in 1..Len(b), j > x, b[j].key = k PROVE FALSE
    BY <1>1
  <2>1. j \in S \ {x} /\ j \in Nat /\ x \in Nat
    BY <1>1
  <2>2. j \in Smaller(S, col, x)
    BY <1>7, <2>1
  <2>3. j < x
    BY <2>1, <2>2 DEF Smaller, IsBefore
  <2> QED
    BY <2>1, <2>3
<1> DEFINE Last(i) == b[i].key = k /\ \A j \in DOMAIN b : j > i => b[j].key # k
           last == CHOOSE i \in DOMAIN b : Last(i)
<1>9. x \in DOMAIN b /\ Last(x)
  BY <1>1, <1>8
<1>10. last \in DOMAIN b
  <2> HIDE DEF Last
  <2> QED
    BY <1>9
<1> HIDE DEF Last, last
<1>11. b[last] \in [key : Keys, names : Names]
  BY <1>1, <1>10, ElementOfSeq
<1> QED
  BY <1>11 DEF NamesIn, last, Last

\* The ids of an Upsert are those after nextId, each for one key; the rows that
\* were stored keep theirs.
LEMMA UpsertMoves ==
    ASSUME TablesInv, NEW b \in Batches, Upsert(b)
    PROVE  TablesInv' /\ Moved
<1> DEFINE N == New(b)
           before(i) == {j \in N : j < i}
           col == [i \in N |-> <<i, i>>]
           id(k) == addresses'[k].id
           names(k) == addresses'[k].names
<1>1. /\ b \in Seq([key : Keys, names : Names]) /\ Len(b) \in Nat /\ DOMAIN b = 1..Len(b)
      /\ MaxId \in Nat /\ nextId \in 1..(MaxId + 1)
  <2>1. MaxId \in Nat
    BY ReadPathAssumption
  <2> QED
    BY <2>1, BatchRows DEF TablesInv, IdsBelow
<1>2. N \subseteq 1..Len(b) /\ N \subseteq Nat
  BY <1>1 DEF New
<1>3. IsFiniteSet(N)
  <2>1. IsFiniteSet(1..Len(b))
    BY <1>1, FS_Interval
  <2> QED
    BY <1>2, <2>1, FS_Subset
<1>4. Cardinality(N) \in Nat
  BY <1>3, FS_CardinalityType
<1>5. Columns(N, col)
  BY <1>2 DEF Columns
<1>6. \A i \in N : before(i) = Smaller(N, col, i)
  BY <1>2 DEF Smaller, IsBefore
<1>7. \A i \in N : Cardinality(before(i)) \in 0..(Cardinality(N) - 1)
  BY <1>3, <1>5, <1>6, RankBound DEF Rank
<1>8. \A i, j \in N : Cardinality(before(i)) = Cardinality(before(j)) => i = j
  <2> HIDE DEF N, before, col
  <2>1. \A i, j \in N : i # j => Rank(N, col, i) # Rank(N, col, j)
    BY <1>3, <1>5, RankSeparates
  <2>2. \A i \in N : Rank(N, col, i) = Cardinality(before(i))
    BY <1>6 DEF Rank
  <2> QED
    BY <2>1, <2>2
<1>9. \A i \in N : addresses[b[i].key].id = 0
  BY DEF New
<1>10. \A i, j \in N : b[i].key = b[j].key => i = j
  <2> SUFFICES ASSUME NEW i \in N, NEW j \in N, b[i].key = b[j].key PROVE ~(i < j)
    BY <1>2
  <2> QED
    BY <1>1, <1>2 DEF New
<1>11. ASSUME NEW k \in Keys
       PROVE  /\ id(k) = IdAfter(b, k)
              /\ names(k) = IF k \in KeysOf(b) THEN NamesIn(b, k) ELSE addresses[k].names
              /\ addresses'[k] = [id |-> id(k), names |-> names(k)]
  BY DEF Upsert
<1>12. ASSUME NEW k \in Keys, NEW i \in N, b[i].key = k
       PROVE  id(k) = nextId + Cardinality(before(i))
  <2>1. id(k) = nextId + Cardinality({j \in N : \E h \in N : b[h].key = k /\ j < h})
    BY <1>11, <1>12 DEF IdAfter
  <2>2. {j \in N : \E h \in N : b[h].key = k /\ j < h} = before(i)
    BY <1>10, <1>12
  <2> QED
    BY <2>1, <2>2
<1>13. ASSUME NEW k \in Keys, \A i \in N : b[i].key # k
       PROVE  id(k) = addresses[k].id
  BY <1>11, <1>13 DEF IdAfter
<1>14. /\ nextId' = nextId + Cardinality(N) /\ nextId + Cardinality(N) <= MaxId + 1
       /\ runs' = runs /\ skipped' = skipped
  BY DEF Upsert
<1>15. DOMAIN addresses' = Keys /\ addresses' = [k \in Keys |-> addresses'[k]]
  BY DEF Upsert
<1>16. \A k \in Keys : /\ addresses[k].id \in 0..MaxId /\ addresses[k].id < nextId
                       /\ addresses[k].names \in Names \cup {"none"}
  BY DEF TablesInv, TablesOK, IdsBelow, AddressRow
<1>17. \A k \in Keys : names(k) \in Names \cup {"none"}
  BY <1>11, <1>16, BatchNames
<1> HIDE DEF N, before, col
<1>18. \A k \in Keys : id(k) \in 0..MaxId /\ id(k) < nextId'
  <2> HIDE DEF id
  <2> TAKE k \in Keys
  <2>1. CASE \E i \in N : b[i].key = k
    <3>1. PICK i \in N : b[i].key = k
      BY <2>1
    <3>2. id(k) = nextId + Cardinality(before(i))
      BY <1>12, <3>1
    <3>3. Cardinality(before(i)) \in 0..(Cardinality(N) - 1)
      BY <1>7
    <3> QED
      BY <1>1, <1>4, <1>14, <3>2, <3>3
  <2>2. CASE \A i \in N : b[i].key # k
    <3>1. id(k) = addresses[k].id
      BY <1>13, <2>2
    <3> QED
      BY <1>1, <1>4, <1>14, <1>16, <3>1
  <2> QED
    BY <2>1, <2>2
<1>19. \A j, k \in Keys : id(j) # 0 /\ id(j) = id(k) => j = k
  <2> HIDE DEF id
  <2> SUFFICES ASSUME NEW j \in Keys, NEW k \in Keys, id(j) # 0, id(j) = id(k)
               PROVE  j = k
    OBVIOUS
  <2>1. ASSUME NEW u \in Keys, \E i \in N : b[i].key = u
        PROVE  id(u) >= nextId
    <3>1. PICK i \in N : b[i].key = u
      BY <2>1
    <3>2. id(u) = nextId + Cardinality(before(i))
      BY <1>12, <3>1
    <3> QED
      BY <1>1, <1>4, <1>7, <3>1, <3>2
  <2>2. ASSUME NEW u \in Keys, \A i \in N : b[i].key # u
        PROVE  id(u) = addresses[u].id /\ id(u) < nextId
    <3>1. id(u) = addresses[u].id
      BY <1>13, <2>2
    <3> QED
      BY <1>16, <3>1
  <2>3. CASE (\E i \in N : b[i].key = j) /\ (\E i \in N : b[i].key = k)
    <3>1. PICK h \in N : b[h].key = j
      BY <2>3
    <3>2. PICK i \in N : b[i].key = k
      BY <2>3
    <3>3. nextId + Cardinality(before(h)) = nextId + Cardinality(before(i))
      BY <1>12, <3>1, <3>2
    <3>4. Cardinality(before(h)) \in Nat /\ Cardinality(before(i)) \in Nat
      BY <1>4, <1>7
    <3>5. Cardinality(before(h)) = Cardinality(before(i))
      BY <1>1, <3>3, <3>4
    <3> QED
      BY <1>8, <3>1, <3>2, <3>5
  <2>4. CASE (\A i \in N : b[i].key # j) /\ (\A i \in N : b[i].key # k)
    <3>1. addresses[j].id # 0 /\ addresses[j].id = addresses[k].id
      BY <2>2, <2>4
    <3> QED
      BY <3>1 DEF TablesInv, TablesOK
  <2>5. id(j) \in Nat /\ id(k) \in Nat
    BY <1>1, <1>18
  <2> QED
    BY <1>1, <2>1, <2>2, <2>3, <2>4, <2>5
<1>20. \A k \in Keys : addresses[k].id # 0 => id(k) = addresses[k].id
  BY <1>9, <1>13
<1>21. addresses' \in [Keys -> AddressRow]
  BY <1>11, <1>15, <1>17, <1>18 DEF AddressRow
<1>22. nextId' \in 1..(MaxId + 1)
  BY <1>1, <1>4, <1>14
<1>23. Len(runs) \in Nat /\ Len(skipped) \in Nat
  BY DEF TablesInv, TablesOK
<1>24. TablesInv'
  BY <1>14, <1>18, <1>19, <1>21, <1>22 DEF TablesInv, TablesOK, IdsBelow
<1>25. Moved
  BY <1>14, <1>20, <1>23 DEF Moved, TablesMove
<1> QED
  BY <1>24, <1>25

LEMMA DeleteMoves ==
    ASSUME TablesInv, NEW keys, Delete(keys)
    PROVE  TablesInv' /\ Moved
<1>1. Len(runs) \in Nat /\ Len(skipped) \in Nat /\ MaxId \in Nat
      /\ nextId \in 1..(MaxId + 1)
  BY ReadPathAssumption DEF TablesInv, TablesOK, IdsBelow
<1>2. \A k \in Keys : addresses[k] \in AddressRow /\ addresses[k].id < nextId
  BY DEF TablesInv, TablesOK, IdsBelow
<1>3. NoRow \in AddressRow /\ NoRow.id = 0
  BY <1>1 DEF NoRow, AddressRow
<1>4. \A k \in Keys : addresses'[k] = NoRow \/ addresses'[k] = addresses[k]
  BY DEF Delete
<1>5. addresses' \in [Keys -> AddressRow]
  BY <1>2, <1>3 DEF Delete
<1>6. \A k \in Keys : addresses'[k].id = 0 \/ addresses'[k].id = addresses[k].id
  BY <1>3, <1>4
<1>7. \A k \in Keys : addresses'[k].id < nextId
  BY <1>1, <1>2, <1>6
<1>8. runs' = runs /\ skipped' = skipped /\ nextId' = nextId
  BY DEF Delete
<1>9. \A j, k \in Keys : addresses'[j].id # 0 /\ addresses'[j].id = addresses'[k].id => j = k
  BY <1>6 DEF TablesInv, TablesOK
<1>10. TablesInv'
  BY <1>5, <1>7, <1>8, <1>9 DEF TablesInv, TablesOK, IdsBelow
<1>11. Moved
  BY <1>1, <1>6, <1>8 DEF Moved, TablesMove
<1> QED
  BY <1>10, <1>11

\* A row at the end, or running rows of sync_runs that change.
SkippedGrow ==
    \/ skipped' = skipped
    \/ \E e \in [run : Nat, line : Lines] : skipped' = Append(skipped, e)

RunsChange ==
    /\ runs' \in Seq(Statuses) /\ Len(runs') = Len(runs)
    /\ \A i \in 1..Len(runs) : runs[i] # "running" => runs'[i] = runs[i]

RunsGrow ==
    \/ runs' = runs \/ RunsChange
    \/ \E e \in Statuses : runs' = Append(runs, e)

LEMMA RowsMove ==
    ASSUME TablesInv, addresses' = addresses, nextId' = nextId, SkippedGrow, RunsGrow
    PROVE  TablesInv' /\ Moved
<1>1. runs \in Seq(Statuses) /\ skipped \in Seq([run : Nat, line : Lines])
      /\ Len(runs) \in Nat /\ Len(skipped) \in Nat
  BY DEF TablesInv, TablesOK
<1>2. /\ skipped' \in Seq([run : Nat, line : Lines]) /\ Len(skipped) <= Len(skipped')
      /\ \A i \in 1..Len(skipped) : skipped'[i] = skipped[i]
  <2> DEFINE T == [run : Nat, line : Lines]
  <2> HIDE DEF T
  <2>1. ASSUME NEW e \in T, skipped' = Append(skipped, e)
        PROVE  /\ skipped' \in Seq(T) /\ Len(skipped') = Len(skipped) + 1
               /\ \A i \in 1..Len(skipped) : skipped'[i] = skipped[i]
    <3>1. skipped \in Seq(T)
      BY <1>1 DEF T
    <3> QED
      BY <2>1, <3>1, AppendProperties
  <2>2. CASE skipped' = skipped
    BY <1>1, <2>2
  <2>3. CASE \E e \in T : skipped' = Append(skipped, e)
    BY <1>1, <2>1, <2>3 DEF T
  <2> QED
    BY <2>2, <2>3 DEF T, SkippedGrow
<1>3. /\ runs' \in Seq(Statuses) /\ Len(runs) <= Len(runs')
      /\ \A i \in 1..Len(runs) : runs[i] # "running" => runs'[i] = runs[i]
  <2>1. ASSUME NEW e \in Statuses, runs' = Append(runs, e)
        PROVE  /\ runs' \in Seq(Statuses) /\ Len(runs') = Len(runs) + 1
               /\ \A i \in 1..Len(runs) : runs'[i] = runs[i]
    BY <1>1, <2>1, AppendProperties
  <2>2. CASE \E e \in Statuses : runs' = Append(runs, e)
    BY <1>1, <2>1, <2>2
  <2>3. CASE runs' = runs \/ RunsChange
    BY <1>1, <2>3 DEF RunsChange
  <2> QED
    BY <2>2, <2>3 DEF RunsGrow
<1> QED
  BY <1>2, <1>3 DEF TablesInv, TablesOK, IdsBelow, Moved, TablesMove

\* A step with none of the engine's writes leaves the tables alone.
LEMMA OthersLeaveTables ==
    ASSUME [Next]_vars, ~Create, ~Write, ~CleanUp,
           \A status \in {"success", "failed"} : ~Finish(status)
    PROVE  UNCHANGED tables
<1>1. ASSUME NEW c \in Clients, Request(c) PROVE UNCHANGED tables
  BY <1>1, RequestAsks DEF Leave, Asks
<1>2. ASSUME NEW c \in Clients, Read(c) \/ Fails(c) PROVE UNCHANGED tables
  BY <1>2 DEF Read, Fails
<1>3. CASE Run
  BY <1>3 DEF Run, BeginRun, NextStatement, EngineAsks, StatementFails
<1>4. CASE (\E a \in Actors : Grant(a)) \/ Crash \/ Start \/ UNCHANGED vars
  BY <1>4 DEF Grant, Crash, Start, vars
<1> QED
  BY <1>1, <1>2, <1>3, <1>4 DEF Next

LEMMA FailedRows ==
    ASSUME NEW r \in Seq(Statuses)
    PROVE  LET out == [i \in 1..Len(r) |-> IF r[i] = "running" THEN "failed" ELSE r[i]]
           IN  /\ out \in Seq(Statuses) /\ Len(out) = Len(r)
               /\ \A i \in 1..Len(r) : r[i] # "running" => out[i] = r[i]
<1> DEFINE n == Len(r)
<1>1. n \in Nat
  BY LenProperties
<1>2. \A i \in 1..n : r[i] \in Statuses
  BY ElementOfSeq
<1> HIDE DEF n
<1>3. LET out == [i \in 1..n |-> IF r[i] = "running" THEN "failed" ELSE r[i]]
      IN  /\ out \in Seq(Statuses) /\ Len(out) = n
          /\ \A i \in 1..n : r[i] # "running" => out[i] = r[i]
  BY <1>1, <1>2 DEF Statuses
<1> QED
  BY <1>3 DEF n

LEMMA TablesStep ==
    ASSUME TablesInv, Quiet, AtWork, [Next]_vars
    PROVE  TablesInv' /\ Moved
<1>1. CASE Create
  <2>1. addresses' = addresses /\ nextId' = nextId /\ skipped' = skipped
        /\ runs' = Append(runs, "running")
    BY <1>1 DEF Create
  <2>2. "running" \in Statuses
    BY DEF Statuses
  <2>3. RunsGrow /\ SkippedGrow
    BY <2>1, <2>2 DEF RunsGrow, SkippedGrow
  <2> QED
    BY <2>1, <2>3, RowsMove
<1>2. CASE Write
  <2>1. ASSUME NEW b \in Batches, Upsert(b) \/ Delete(KeysOf(b))
        PROVE  TablesInv' /\ Moved
    BY <2>1, UpsertMoves, DeleteMoves
  <2>2. ASSUME NEW l \in Lines, SkipRow(l)
        PROVE  TablesInv' /\ Moved
    <3>1. Len(runs) \in Nat
      BY DEF TablesInv, TablesOK
    <3>2. [run |-> Len(runs), line |-> l] \in [run : Nat, line : Lines]
      BY <3>1
    <3>3. addresses' = addresses /\ nextId' = nextId /\ runs' = runs
          /\ skipped' = Append(skipped, [run |-> Len(runs), line |-> l])
      BY <2>2 DEF SkipRow
    <3>4. RunsGrow /\ SkippedGrow
      BY <3>2, <3>3 DEF RunsGrow, SkippedGrow
    <3> QED
      BY <3>3, <3>4, RowsMove
  <2> QED
    BY <1>2, <2>1, <2>2 DEF Write
<1>3. ASSUME NEW status \in {"success", "failed"}, Finish(status)
      PROVE  TablesInv' /\ Moved
  <2>1. addresses' = addresses /\ nextId' = nextId /\ skipped' = skipped
        /\ runs' = [runs EXCEPT ![Len(runs)] = status] /\ engine = "finish"
    BY <1>3 DEF Finish
  <2>2. runs \in Seq(Statuses) /\ Len(runs) \in Nat /\ status \in Statuses
    BY DEF TablesInv, TablesOK, Statuses
  <2>3. runs[Len(runs)] = "running" /\ Len(runs) \in 1..Len(runs)
    <3>1. runs # <<>> /\ runs[Len(runs)] = "running"
      BY <2>1 DEF AtWork
    <3>2. Len(runs) # 0
      BY <2>2, <3>1, EmptySeq
    <3> QED
      BY <2>2, <3>1, <3>2
  <2>4. runs' \in Seq(Statuses) /\ Len(runs') = Len(runs)
    BY <2>1, <2>2, <2>3, ExceptSeq
  <2>5. \A i \in 1..Len(runs) : runs[i] # "running" => runs'[i] = runs[i]
    BY <2>1, <2>2, <2>3
  <2>6. RunsGrow /\ SkippedGrow
    BY <2>1, <2>4, <2>5 DEF RunsGrow, RunsChange, SkippedGrow
  <2> QED
    BY <2>1, <2>6, RowsMove
<1>4. CASE CleanUp
  <2>1. /\ addresses' = addresses /\ nextId' = nextId /\ skipped' = skipped
        /\ runs' = [i \in 1..Len(runs) |-> IF runs[i] = "running" THEN "failed" ELSE runs[i]]
    BY <1>4 DEF CleanUp
  <2>2. runs \in Seq(Statuses)
    BY DEF TablesInv, TablesOK
  <2>3. RunsChange
    BY <2>1, <2>2, FailedRows DEF RunsChange
  <2>4. RunsGrow /\ SkippedGrow
    BY <2>1, <2>3 DEF RunsGrow, SkippedGrow
  <2> QED
    BY <2>1, <2>4, RowsMove
<1>5. CASE ~Create /\ ~Write /\ ~CleanUp
           /\ \A status \in {"success", "failed"} : ~Finish(status)
  <2>1. UNCHANGED tables
    BY <1>5, OthersLeaveTables
  <2>2. Unmoved /\ nextId' = nextId
    BY <2>1 DEF tables, Unmoved
  <2> QED
    BY <2>2, UnmovedMoves DEF TablesInv, IdsBelow, Unmoved
<1> QED
  BY <1>1, <1>2, <1>3, <1>4, <1>5

LEMMA StageStep ==
    ASSUME PoolTypes, TablesInv, Asking, Quiet, AtWork, [Next]_vars
    PROVE  Quiet' /\ AtWork'
<1>1. ASSUME NEW c \in Clients, Request(c) PROVE Quiet' /\ AtWork'
  <2>1. CASE Leave(c)
    <3>1. boot = "up"
      BY <2>1 DEF Leave, Quiet, NoRequest
    <3> QED
      BY <2>1, <3>1 DEF Leave, poolVars, tables, Quiet, AtWork
  <2>2. ASSUME NEW q, Asks(c, q) PROVE Quiet' /\ AtWork'
    BY <2>2 DEF Asks, tables, Quiet, AtWork
  <2> QED
    BY <1>1, <2>1, <2>2, RequestAsks
<1>2. ASSUME NEW c \in Clients, Read(c) \/ Fails(c) PROVE Quiet' /\ AtWork'
  <2>1. boot = "up"
    <3>1. client[c].left # <<>>
      BY <1>2 DEF Read, Fails, Asking
    <3> QED
      BY <3>1 DEF Quiet, NoRequest
  <2>2. UNCHANGED <<boot, maxOpen, tables, engine>>
    BY <1>2 DEF Read, Fails
  <2> QED
    BY <2>1, <2>2 DEF Quiet, AtWork, tables
<1>3. CASE BeginRun \/ NextStatement \/ StatementFails
  <2>1. boot = "up"
    BY <1>3 DEF BeginRun, NextStatement, EngineAsks, StatementFails, Asking, Quiet
  <2>2. /\ runs' = runs /\ boot' = boot
        /\ engine' \in {"create", "idle"} \/ engine \in {"running", "write", "finish"}
    BY <1>3 DEF BeginRun, NextStatement, EngineAsks, StatementFails, tables
  <2> QED
    BY <2>1, <2>2 DEF Quiet, AtWork
<1>4. CASE Create
  <2>1. boot = "up" /\ boot' = boot /\ engine' = "running"
        /\ runs' = Append(runs, "running")
    BY <1>4 DEF Create, Quiet
  <2>2. runs \in Seq(Statuses) /\ "running" \in Statuses /\ Len(runs) \in Nat
    BY DEF TablesInv, TablesOK, Statuses
  <2>3. runs' # <<>> /\ runs'[Len(runs')] = "running"
    BY <2>1, <2>2, AppendProperties
  <2> QED
    BY <2>1, <2>3 DEF Quiet, AtWork
<1>5. CASE Write
  <2>1. boot = "up" /\ boot' = boot /\ engine = "write"
    BY <1>5 DEF Write, Quiet
  <2>2. runs' = runs
    BY <1>5 DEF Write, Upsert, Delete, SkipRow
  <2> QED
    BY <2>1, <2>2 DEF Quiet, AtWork
<1>6. ASSUME NEW status \in {"success", "failed"}, Finish(status)
      PROVE  Quiet' /\ AtWork'
  BY <1>6 DEF Finish, Quiet, AtWork
<1>7. ASSUME NEW a \in Actors, Grant(a) PROVE Quiet' /\ AtWork'
  BY <1>7 DEF Grant, tables, Quiet, AtWork
<1>8. CASE Crash
  BY <1>8 DEF Crash, Quiet, AtWork
<1>9. CASE Start
  BY <1>9 DEF Start, tables, Quiet, AtWork
<1>10. CASE CleanUp
  BY <1>10 DEF CleanUp, Quiet, AtWork
<1>11. CASE UNCHANGED vars
  BY <1>11 DEF vars, tables, Quiet, AtWork
<1> QED
  BY <1>1, <1>2, <1>3, <1>4, <1>5, <1>6, <1>7, <1>8, <1>9, <1>10, <1>11 DEF Next, Run

-----------------------------------------------------------------------------
(* Requests. *)

Rows == Keys \cup Nat

Kinds == Listings \cup {"none", "status"}

Leftovers == UNION {Lefts(kind) : kind \in Kinds}

RequestRecord ==
    [kind : Kinds, match : SUBSET (Keys \X Names), run : Nat, left : Leftovers, total : Nat,
     page : Seq(Rows), running : BOOLEAN, last : Nat,
     said : {"nothing", "status", "whole", "truncated"}, begun : Nat, seen : Seq(Rows),
     start : SUBSET Rows, grown : BOOLEAN, shrunk : BOOLEAN, done : BOOLEAN]

Typed(q) ==
    /\ q \in RequestRecord
    /\ q.left \in Lefts(q.kind)
    /\ q.page = <<>>
    /\ q.left # <<>> => q.said = "nothing" /\ ~q.done

\* Nothing more matches than was counted, unless something came to match.
Counted(q, a) ==
    q.kind \in {"addresses", "zipcode"} /\ q.left = <<"page">> /\ ~q.grown =>
        Cardinality(Matches(q.match, a)) <= q.total

\* The rows of the runs that had begun say success or failure for good, once
\* nothing was found running, and none succeeded after the last success shown.
IdleSeen(q, r) ==
    /\ q.begun <= Len(r)
    /\ (q.left = <<"last">> \/ q.said = "status") /\ ~q.running =>
          \A i \in 1..q.begun : r[i] # "running"
    /\ q.said = "status" /\ ~q.running =>
          \A i \in 1..q.begun : r[i] = "success" => i <= q.last

Walking(q, a, r, s) ==
    /\ q.kind \in Listings => Walks(q, ListingOf(q, a, r, s))
    /\ q.kind = "none" => ~q.done

RequestOK(q, a, r, s) ==
    Typed(q) /\ Counted(q, a) /\ IdleSeen(q, r) /\ Walking(q, a, r, s)

RequestsInv == \A c \in Clients : RequestOK(client[c], addresses, runs, skipped)

LEMMA LeftsAre ==
    ASSUME NEW kind \in Kinds
    PROVE  /\ kind \in {"addresses", "zipcode"} =>
                 /\ Plan(kind) = <<"token", "count", "page">>
                 /\ Lefts(kind) = {<<>>, <<"token", "count", "page">>,
                                   <<"count", "page">>, <<"page">>}
           /\ kind \in {"runs", "skipped"} =>
                 /\ Plan(kind) = <<"token", "page">>
                 /\ Lefts(kind) = {<<>>, <<"token", "page">>, <<"page">>}
           /\ kind = "status" =>
                 /\ Plan(kind) = <<"token", "total", "running", "last">>
                 /\ Lefts(kind) = {<<>>, <<"token", "total", "running", "last">>,
                                   <<"total", "running", "last">>,
                                   <<"running", "last">>, <<"last">>}
           /\ kind = "none" => Lefts(kind) = {<<>>}
           /\ kind \in {"addresses", "zipcode", "runs", "skipped", "status", "none"}
<1>1. kind \in {"addresses", "zipcode", "runs", "skipped", "status", "none"}
  BY DEF Kinds, Listings
<1>2. CASE kind \in {"addresses", "zipcode"}
  BY ONLY <1>2 DEF Lefts, Plan
<1>3. CASE kind \in {"runs", "skipped"}
  BY ONLY <1>3 DEF Lefts, Plan
<1>4. CASE kind = "status"
  BY ONLY <1>4 DEF Lefts, Plan
<1>5. CASE kind = "none"
  BY ONLY <1>5 DEF Lefts
<1> QED
  BY <1>1, <1>2, <1>3, <1>4, <1>5

\* What is left of a request, by its next statement.
NextStatementIs(kind, left) ==
    \/ /\ Head(left) \in {"token", "total"} /\ Tail(left) \in Lefts(kind)
       /\ Tail(left) # <<>> /\ Tail(left) # <<"last">> /\ left # <<"last">>
       /\ Tail(left) = <<"page">> => kind \in {"runs", "skipped"}
    \/ /\ Head(left) = "count" /\ Tail(left) = <<"page">>
       /\ kind \in {"addresses", "zipcode"}
    \/ /\ Head(left) = "page" /\ left = <<"page">> /\ Tail(left) = <<>>
       /\ kind \in Listings
    \/ Head(left) = "running" /\ Tail(left) = <<"last">> /\ kind = "status"
    \/ /\ Head(left) = "last" /\ left = <<"last">> /\ Tail(left) = <<>>
       /\ kind = "status"

LEMMA LeftCases ==
    ASSUME NEW kind \in Kinds, NEW left \in Lefts(kind), left # <<>>
    PROVE  NextStatementIs(kind, left)
<1>1. CASE kind \in {"addresses", "zipcode"}
  <2>1. Lefts(kind) = {<<>>, <<"token", "count", "page">>, <<"count", "page">>, <<"page">>}
    BY <1>1, LeftsAre
  <2>2. CASE left = <<"token", "count", "page">>
    BY <1>1, <2>1, <2>2 DEF NextStatementIs
  <2>3. CASE left = <<"count", "page">>
    BY <1>1, <2>1, <2>3 DEF NextStatementIs
  <2>4. CASE left = <<"page">>
    BY <1>1, <2>1, <2>4 DEF NextStatementIs, Listings
  <2> QED
    BY <2>1, <2>2, <2>3, <2>4
<1>2. CASE kind \in {"runs", "skipped"}
  <2>1. Lefts(kind) = {<<>>, <<"token", "page">>, <<"page">>}
    BY <1>2, LeftsAre
  <2>2. CASE left = <<"token", "page">>
    BY <1>2, <2>1, <2>2 DEF NextStatementIs
  <2>3. CASE left = <<"page">>
    BY <1>2, <2>1, <2>3 DEF NextStatementIs, Listings
  <2> QED
    BY <2>1, <2>2, <2>3
<1>3. CASE kind = "status"
  <2>1. Lefts(kind) = {<<>>, <<"token", "total", "running", "last">>,
                       <<"total", "running", "last">>, <<"running", "last">>, <<"last">>}
    BY <1>3, LeftsAre
  <2>2. CASE left = <<"token", "total", "running", "last">>
    BY <1>3, <2>1, <2>2 DEF NextStatementIs
  <2>3. CASE left = <<"total", "running", "last">>
    BY <1>3, <2>1, <2>3 DEF NextStatementIs
  <2>4. CASE left = <<"running", "last">>
    BY <1>3, <2>1, <2>4 DEF NextStatementIs
  <2>5. CASE left = <<"last">>
    BY <1>3, <2>1, <2>5 DEF NextStatementIs
  <2> QED
    BY <2>1, <2>2, <2>3, <2>4, <2>5
<1>4. CASE kind = "none"
  BY <1>4, LeftsAre
<1> QED
  BY <1>1, <1>2, <1>3, <1>4, LeftsAre

LEMMA PlanIsLeft ==
    ASSUME NEW kind \in Kinds, kind # "none"
    PROVE  /\ Plan(kind) \in Lefts(kind) /\ Plan(kind) # <<>>
           /\ Plan(kind) # <<"page">> /\ Plan(kind) # <<"last">>
<1>1. CASE kind \in {"addresses", "zipcode"}
  BY <1>1, LeftsAre
<1>2. CASE kind \in {"runs", "skipped"}
  BY <1>2, LeftsAre
<1>3. CASE kind = "status"
  BY <1>3, LeftsAre
<1> QED
  BY <1>1, <1>2, <1>3, LeftsAre

LEMMA RestsAreLefts ==
    ASSUME NEW kind \in Kinds
    PROVE  /\ <<>> \in Lefts(kind)
           /\ kind \in Listings => <<"page">> \in Lefts(kind)
           /\ kind = "status" => <<"last">> \in Lefts(kind)
           /\ Lefts(kind) \subseteq Leftovers
<1>1. <<>> \in Lefts(kind)
  BY LeftsAre
<1>2. kind \in Listings => <<"page">> \in Lefts(kind)
  BY LeftsAre DEF Listings
<1>3. kind = "status" => <<"last">> \in Lefts(kind)
  BY LeftsAre
<1>4. Lefts(kind) \subseteq Leftovers
  BY DEF Leftovers
<1> QED
  BY <1>1, <1>2, <1>3, <1>4

\* The operators of the model in terms of those with tables as parameters.
LEMMA ListingIs ==
    ASSUME NEW q, TablesInv
    PROVE  /\ Listing(q) = ListingOf(q, addresses, runs, skipped)
           /\ Page(q) = PageOf(Listing(q), Len(q.seen), PageSize(q))
<1>1. ByZip = Columned(addresses)
  BY DEF ByZip, Columned
<1>2. ByLine = Lined(skipped)
  BY DEF ByLine, Lined
<1>3. Listing(q) = ListingOf(q, addresses, runs, skipped)
  BY <1>1, <1>2 DEF Listing, ListingOf
<1>4. Page(q) = PageOf(Listing(q), Len(q.seen), PageSize(q))
  BY DEF Page, PageOf
<1> QED
  BY <1>3, <1>4

LEMMA ListedIsRows ==
    ASSUME TablesInv, NEW q
    PROVE  /\ Listed(q, addresses, runs, skipped) \subseteq Rows
           /\ Lists(Listing(q), Listed(q, addresses, runs, skipped))
           /\ Elements(Listing(q)) = Listed(q, addresses, runs, skipped)
<1> DEFINE S == Listed(q, addresses, runs, skipped)
           L == Listing(q)
<1>1. S \subseteq Rows
  <2>1. Matches(q.match, addresses) \subseteq Keys
    BY MatchingKeys
  <2>2. Len(runs) \in Nat /\ Len(skipped) \in Nat
    BY DEF TablesInv, TablesOK
  <2> QED
    BY <2>1, <2>2 DEF Listed, Rows
<1>2. Lists(L, S)
  BY ListingIs, ListingLists DEF TablesInv
<1> HIDE DEF L, S
<1>3. L \in Seq(S) /\ DOMAIN L = 1..Len(L)
  BY <1>2, LenProperties DEF Lists
<1>4. Elements(L) = S
  BY <1>2, <1>3, ElementOfSeq DEF Elements, Lists
<1> QED
  BY <1>1, <1>2, <1>4 DEF L, S

\* LatestSuccess picks what its name says.
LEMMA LatestIsLast ==
    ASSUME TablesInv
    PROVE  /\ LatestSuccess \in Nat
           /\ \A i \in 1..Len(runs) : runs[i] = "success" => i <= LatestSuccess
<1> DEFINE succ == {i \in 1..Len(runs) : runs[i] = "success"}
           col == [i \in succ |-> <<i, i>>]
<1>1. Len(runs) \in Nat
  BY DEF TablesInv, TablesOK
<1>2. IsFiniteSet(succ) /\ Cardinality(succ) \in Nat
  <2>1. IsFiniteSet(1..Len(runs))
    BY <1>1, FS_Interval
  <2> QED
    BY <2>1, FS_Subset, FS_CardinalityType
<1>3. Columns(succ, col) /\ succ \subseteq Nat
  BY <1>1 DEF Columns
<1>4. CASE succ = {}
  BY <1>4 DEF LatestSuccess
<1>5. CASE succ # {}
  <2>1. Cardinality(succ) \in 1..Cardinality(succ)
    BY <1>2, <1>5, FS_EmptySet
  <2> HIDE DEF succ, col
  <2>2. PICK x \in succ : Rank(succ, col, x) = Cardinality(succ) - 1
    BY <1>2, <1>3, <2>1, RankReaches
  <2>3. Smaller(succ, col, x) \subseteq succ \ {x}
    BY <1>3, <2>2 DEF Smaller, IsBefore, Columns
  <2>4. IsFiniteSet(succ \ {x}) /\ Cardinality(succ \ {x}) = Cardinality(succ) - 1
    BY <1>2, <2>2, FS_RemoveElement
  <2>5. Smaller(succ, col, x) = succ \ {x}
    BY <2>2, <2>3, <2>4, FS_Subset DEF Rank
  <2>6. \A y \in succ : y <= x
    <3> TAKE y \in succ
    <3>1. CASE y # x
      <4>1. IsBefore(col, y, x)
        BY <2>5, <3>1 DEF Smaller
      <4> QED
        BY <1>3, <4>1 DEF IsBefore, col
    <3> QED
      BY <1>3, <3>1
  <2>7. LatestSuccess = CHOOSE i \in succ : \A j \in succ : j <= i
    BY <1>5 DEF LatestSuccess, succ
  <2>8. LatestSuccess \in succ /\ \A j \in succ : j <= LatestSuccess
    BY <2>6, <2>7
  <2> QED
    BY <1>3, <2>8 DEF succ
<1> QED
  BY <1>4, <1>5

LEMMA NoneRunning ==
    ASSUME TablesInv, ~(CountRunning > 0)
    PROVE  \A i \in 1..Len(runs) : runs[i] # "running"
<1> DEFINE S == {i \in 1..Len(runs) : runs[i] = "running"}
<1>1. IsFiniteSet(S)
  <2>1. Len(runs) \in Nat
    BY DEF TablesInv, TablesOK
  <2>2. IsFiniteSet(1..Len(runs))
    BY <2>1, FS_Interval
  <2> QED
    BY <2>2, FS_Subset
<1>2. Cardinality(S) \in Nat /\ ~(Cardinality(S) > 0)
  BY <1>1, FS_CardinalityType DEF CountRunning
<1>3. S = {}
  BY <1>1, <1>2, FS_EmptySet
<1> QED
  BY <1>3

\* What never changes during a request.
SameRequest(n, q) ==
    /\ n.kind = q.kind /\ n.match = q.match /\ n.run = q.run /\ n.begun = q.begun
    /\ n.grown = q.grown /\ n.shrunk = q.shrunk

LEMMA PageSizeIs ==
    ASSUME NEW q
    PROVE  PageSize(q) \in Nat \ {0}
BY ReadPathAssumption DEF PageSize

LEMMA AnswerIs ==
    ASSUME NEW p \in RequestRecord
    PROVE  LET n == Answer(p)
           IN  /\ n \in RequestRecord /\ SameRequest(n, p)
               /\ n.left = <<>> /\ n.page = <<>> /\ n.seen = p.seen \o p.page
               /\ n.running = p.running /\ n.last = p.last /\ n.start = p.start
               /\ n.said = IF p.kind = "status" THEN "status"
                           ELSE IF p.total > Len(p.page) THEN "truncated" ELSE "whole"
               /\ n.done <=> p.kind \in {"zipcode", "status"} \/ Len(p.page) < PageSize(p)
<1> DEFINE out == p.seen \o p.page
           verdict == IF p.kind = "status" THEN "status"
                      ELSE IF p.total > Len(p.page) THEN "truncated" ELSE "whole"
           over == p.kind \in {"zipcode", "status"} \/ Len(p.page) < PageSize(p)
           n == [p EXCEPT !.left = <<>>, !.page = <<>>, !.total = 0, !.seen = out,
                          !.said = verdict, !.done = over]
<1>1. p.seen \in Seq(Rows) /\ p.page \in Seq(Rows)
  BY DEF RequestRecord
<1>2. out \in Seq(Rows)
  BY <1>1, ConcatProperties
<1>3. verdict \in {"nothing", "status", "whole", "truncated"} /\ over \in BOOLEAN
  OBVIOUS
<1>4. <<>> \in Leftovers
  BY DEF Leftovers, Kinds, Lefts
<1>5. Answer(p) = n
  BY DEF Answer
<1> HIDE DEF out, verdict, over
<1>6. /\ n.left = <<>> /\ n.page = <<>> /\ n.seen = out
      /\ n.running = p.running /\ n.last = p.last /\ n.start = p.start
      /\ n.said = verdict /\ n.done = over
  BY DEF RequestRecord
<1>7. SameRequest(n, p)
  BY DEF RequestRecord, SameRequest
<1>8. n \in RequestRecord
  BY <1>2, <1>3, <1>4, EmptySeq DEF RequestRecord
<1> QED
  BY <1>5, <1>6, <1>7, <1>8 DEF out, verdict, over

LEMMA StatementIs ==
    ASSUME TablesInv, NEW q, Typed(q), q.left # <<>>
    PROVE  LET p == AfterStatement(q)
           IN  /\ p \in RequestRecord /\ SameRequest(p, q)
               /\ p.left = Tail(q.left) /\ p.seen = q.seen /\ p.said = q.said
               /\ p.done = q.done
               /\ p.total = IF Head(q.left) = "count" THEN Cardinality(Matches(q.match, addresses))
                            ELSE q.total
               /\ p.page = IF Head(q.left) = "page" THEN Page(q) ELSE q.page
               /\ p.start = IF Head(q.left) = "page" /\ q.seen = <<>>
                            THEN Elements(Listing(q)) ELSE q.start
               /\ p.running = IF Head(q.left) = "running" THEN CountRunning > 0
                              ELSE q.running
               /\ p.last = IF Head(q.left) = "last" THEN LatestSuccess ELSE q.last
<1> DEFINE rest == [q EXCEPT !.left = Tail(@)]
           head == Head(q.left)
           p == AfterStatement(q)
           first == IF q.seen = <<>> THEN Elements(Listing(q)) ELSE q.start
<1>1. q \in RequestRecord /\ q.kind \in Kinds /\ q.match \subseteq Keys \X Names
  BY DEF Typed, RequestRecord
<1>2. Tail(q.left) \in Leftovers
  <2>1. Tail(q.left) \in Lefts(q.kind)
    <3>1. NextStatementIs(q.kind, q.left)
      BY <1>1, LeftCases DEF Typed
    <3>2. /\ <<>> \in Lefts(q.kind)
          /\ q.kind \in Listings => <<"page">> \in Lefts(q.kind)
          /\ q.kind = "status" => <<"last">> \in Lefts(q.kind)
      BY <1>1, RestsAreLefts
    <3> QED
      BY <3>1, <3>2 DEF NextStatementIs, Listings
  <2> QED
    BY <1>1, <2>1, RestsAreLefts
<1>3. /\ rest \in RequestRecord /\ SameRequest(rest, q) /\ rest.left = Tail(q.left)
      /\ rest.seen = q.seen /\ rest.said = q.said /\ rest.done = q.done
      /\ rest.total = q.total /\ rest.page = q.page /\ rest.start = q.start
      /\ rest.running = q.running /\ rest.last = q.last
  <2>1. rest \in RequestRecord
    BY <1>1, <1>2 DEF RequestRecord
  <2> QED
    BY <1>1, <2>1 DEF RequestRecord, SameRequest
<1> HIDE DEF rest
<1>4. CASE head = "count"
  <2>1. Cardinality(Matches(q.match, addresses)) \in Nat
    <3>1. IsFiniteSet(Matches(q.match, addresses))
      BY MatchingKeys
    <3> QED
      BY <3>1, FS_CardinalityType
  <2>2. p = [rest EXCEPT !.total = Cardinality(Matches(q.match, addresses))]
    BY <1>4 DEF AfterStatement, rest
  <2> HIDE DEF p
  <2>3. p \in RequestRecord
    BY <1>3, <2>1, <2>2 DEF RequestRecord
  <2> QED
    BY <1>3, <1>4, <2>2, <2>3 DEF RequestRecord, SameRequest, p
<1>5. CASE head = "page"
  <2>1. Page(q) \in Seq(Rows) /\ first \in SUBSET Rows
    <3> DEFINE S == Listed(q, addresses, runs, skipped)
               L == Listing(q)
    <3>1. S \subseteq Rows /\ Lists(L, S) /\ Elements(L) = S
      BY <1>1, ListedIsRows
    <3>2. Page(q) = PageOf(L, Len(q.seen), PageSize(q))
      BY ListingIs
    <3>3. q.seen \in Seq(Rows) /\ q.start \in SUBSET Rows
      BY <1>1 DEF RequestRecord
    <3> HIDE DEF L, S
    <3>4. PageOf(L, Len(q.seen), PageSize(q)) \in Seq(S)
      BY <3>1, <3>3, PageSizeIs, PageContinues DEF Lists
    <3>5. Page(q) \in Seq(Rows)
      BY <3>1, <3>2, <3>4, SeqMonotonic
    <3> QED
      BY <3>1, <3>3, <3>5 DEF L
  <2>2. p = [rest EXCEPT !.page = Page(q), !.start = first]
    BY <1>3, <1>5 DEF AfterStatement, rest, RequestRecord
  <2> HIDE DEF p, first
  <2>3. p \in RequestRecord
    BY <1>3, <2>1, <2>2 DEF RequestRecord
  <2>4. p.start = first /\ p.page = Page(q)
    BY <1>3, <2>2 DEF RequestRecord
  <2> QED
    BY <1>3, <1>5, <2>2, <2>3, <2>4 DEF RequestRecord, SameRequest, p, first
<1>6. CASE head = "running"
  <2>1. (CountRunning > 0) \in BOOLEAN
    OBVIOUS
  <2>2. p = [rest EXCEPT !.running = CountRunning > 0]
    BY <1>6 DEF AfterStatement, rest
  <2> HIDE DEF p
  <2>3. p \in RequestRecord
    BY <1>3, <2>1, <2>2 DEF RequestRecord
  <2> QED
    BY <1>3, <1>6, <2>2, <2>3 DEF RequestRecord, SameRequest, p
<1>7. CASE head = "last"
  <2>1. LatestSuccess \in Nat
    BY LatestIsLast
  <2>2. p = [rest EXCEPT !.last = LatestSuccess]
    BY <1>7 DEF AfterStatement, rest
  <2> HIDE DEF p
  <2>3. p \in RequestRecord
    BY <1>3, <2>1, <2>2 DEF RequestRecord
  <2> QED
    BY <1>3, <1>7, <2>2, <2>3 DEF RequestRecord, SameRequest, p
<1>8. CASE head \notin {"count", "page", "running", "last"}
  <2>1. p = rest
    BY <1>8 DEF AfterStatement, rest
  <2> HIDE DEF p
  <2> QED
    BY <1>3, <1>8, <2>1 DEF p
<1> QED
  BY <1>4, <1>5, <1>6, <1>7, <1>8

LEMMA LeftsDiffer ==
    <<"page">> # <<>> /\ <<"last">> # <<>> /\ <<"page">> # <<"last">>
<1>1. <<"page">> # <<>>
  OBVIOUS
<1>2. <<"last">> # <<>>
  OBVIOUS
<1>3. <<"page">> # <<"last">>
  OBVIOUS
<1> QED
  BY <1>1, <1>2, <1>3

\* The request after its next statement, and after its answer if it has one.
After(q) == IF Answered(AfterStatement(q)) THEN Answer(AfterStatement(q)) ELSE AfterStatement(q)

\* What UntruncatedIsComplete says of a request and what becomes of it.
CompleteIfWhole(q, n) ==
    q.kind \in {"addresses", "zipcode"} /\ q.seen = <<>> /\ n.said = "whole" /\ ~q.grown =>
        Elements(n.seen) = Matches(q.match, addresses)

Here(q) == RequestOK(q, addresses, runs, skipped)

\* Statements that only tell the request something, or find a token.
LEMMA ReadsOn ==
    ASSUME TablesInv, NEW q, Here(q), q.left # <<>>,
           Head(q.left) \in {"token", "total", "running"}
    PROVE  /\ Here(After(q)) /\ CompleteIfWhole(q, After(q))
           /\ After(q).left # <<>> /\ ~Answered(AfterStatement(q))
<1> DEFINE p == AfterStatement(q)
<1>1. Typed(q) /\ q \in RequestRecord /\ q.kind \in Kinds /\ q.match \subseteq Keys \X Names
  BY DEF Here, RequestOK, Typed, RequestRecord
<1>2. NextStatementIs(q.kind, q.left)
  BY <1>1, LeftCases DEF Typed
<1>3. /\ p \in RequestRecord /\ SameRequest(p, q)
      /\ p.left = Tail(q.left) /\ p.seen = q.seen /\ p.said = q.said /\ p.done = q.done
      /\ p.total = q.total /\ p.page = q.page /\ p.start = q.start /\ p.last = q.last
      /\ p.running = IF Head(q.left) = "running" THEN CountRunning > 0 ELSE q.running
  BY <1>1, StatementIs
<1>4. /\ p.left \in Lefts(q.kind) /\ p.left # <<>>
      /\ p.left = <<"page">> => q.kind \in {"runs", "skipped"}
      /\ p.left = <<"last">> => Head(q.left) = "running"
  <2>1. q.kind = "status" => <<"last">> \in Lefts(q.kind)
    BY <1>1, RestsAreLefts
  <2> QED
    <3> HIDE DEF p
    <3> QED
      BY <1>2, <1>3, <2>1, LeftsDiffer DEF NextStatementIs
<1> HIDE DEF p
<1>5. ~Answered(p)
  BY <1>3, <1>4 DEF Answered, SameRequest
<1>6. After(q) = p
  BY <1>5 DEF After, p
<1>7. q.said = "nothing" /\ ~q.done
  BY <1>1 DEF Typed
<1>8. Typed(p)
  BY <1>1, <1>3, <1>4, <1>7 DEF Typed, SameRequest
<1>9. Counted(p, addresses)
  BY <1>3, <1>4 DEF Counted, SameRequest
<1>10. IdleSeen(p, runs)
  <2>1. q.begun <= Len(runs) /\ q.begun \in Nat /\ Len(runs) \in Nat
    BY <1>1 DEF Here, RequestOK, IdleSeen, TablesInv, TablesOK, RequestRecord
  <2>2. p.begun <= Len(runs) /\ p.said = "nothing"
    BY <1>3, <1>7, <2>1 DEF SameRequest
  <2>3. CASE p.left = <<"last">> /\ ~p.running
    <3>1. ~(CountRunning > 0)
      BY <1>3, <1>4, <2>3
    <3>2. \A i \in 1..p.begun : runs[i] # "running"
      BY <1>3, <2>1, <3>1, NoneRunning DEF SameRequest
    <3> QED
      BY <2>2, <3>2 DEF IdleSeen
  <2> QED
    BY <2>2, <2>3 DEF IdleSeen
<1>11. Walking(p, addresses, runs, skipped)
  BY <1>3 DEF Here, RequestOK, Walking, Walks, Exact, ListingOf, SameRequest
<1>12. CompleteIfWhole(q, p)
  BY <1>3, <1>7 DEF CompleteIfWhole
<1> QED
  BY <1>4, <1>5, <1>6, <1>8, <1>9, <1>10, <1>11, <1>12 DEF Here, RequestOK, p

\* The count of a query; of nothing no page is read.
LEMMA ReadsCount ==
    ASSUME TablesInv, NEW q, Here(q), q.left # <<>>, Head(q.left) = "count"
    PROVE  /\ Here(After(q)) /\ CompleteIfWhole(q, After(q))
           /\ After(q).left # <<>> <=> ~Answered(AfterStatement(q))
<1> DEFINE p == AfterStatement(q)
           n == Answer(p)
           S == Matches(q.match, addresses)
           L == Listing(q)
<1>1. Typed(q) /\ q \in RequestRecord /\ q.kind \in Kinds /\ q.match \subseteq Keys \X Names
      /\ q.said = "nothing" /\ q.page = <<>> /\ ~q.done
  BY DEF Here, RequestOK, Typed, RequestRecord
<1>2. q.kind \in {"addresses", "zipcode"} /\ Tail(q.left) = <<"page">>
  BY <1>1, LeftCases DEF Typed, NextStatementIs
<1>3. /\ p \in RequestRecord /\ SameRequest(p, q)
      /\ p.left = <<"page">> /\ p.seen = q.seen /\ p.said = q.said /\ p.done = q.done
      /\ p.total = Cardinality(S) /\ p.page = q.page /\ p.start = q.start
  BY <1>1, <1>2, StatementIs
<1>4. q.begun <= Len(runs)
  BY DEF Here, RequestOK, IdleSeen
<1>5. /\ S = Listed(q, addresses, runs, skipped) /\ Lists(L, S)
      /\ L = ListingOf(q, addresses, runs, skipped)
  BY <1>1, <1>2, ListedIsRows, ListingIs DEF Listed
<1>6. IsFiniteSet(S) /\ Cardinality(S) \in Nat
  BY <1>5, FS_CardinalityType DEF Lists
<1> HIDE DEF p
<1>7. CASE p.total # 0
  <2>1. ~Answered(p) /\ After(q) = p
    BY <1>3, <1>7 DEF Answered, After, p
  <2>2. Typed(p)
    <3>1. <<"page">> \in Lefts(q.kind)
      BY <1>1, <1>2, RestsAreLefts DEF Listings
    <3> QED
      BY <1>1, <1>3, <3>1 DEF Typed, SameRequest
  <2>3. Counted(p, addresses)
    BY <1>3, <1>6 DEF Counted, SameRequest
  <2>4. IdleSeen(p, runs)
    BY <1>1, <1>3, <1>4 DEF IdleSeen, SameRequest
  <2>5. Walking(p, addresses, runs, skipped)
    BY <1>3 DEF Here, RequestOK, Walking, Walks, Exact, ListingOf, SameRequest
  <2>6. CompleteIfWhole(q, p)
    BY <1>1, <1>3 DEF CompleteIfWhole
  <2> QED
    <3>1. p.left # <<>>
      BY <1>3, LeftsDiffer
    <3>2. Here(p)
      BY <2>2, <2>3, <2>4, <2>5 DEF Here, RequestOK
    <3> QED
      BY <2>1, <2>6, <3>1, <3>2 DEF p
<1>8. CASE p.total = 0
  <2>1. Answered(p) /\ After(q) = n
    BY <1>2, <1>3, <1>8 DEF Answered, After, SameRequest, p
  <2>2. S = {}
    BY <1>3, <1>6, <1>8, FS_EmptySet
  <2>3. /\ n \in RequestRecord /\ SameRequest(n, p) /\ n.left = <<>> /\ n.page = <<>>
        /\ n.seen = p.seen \o p.page /\ n.start = p.start /\ n.running = p.running
        /\ n.said = IF p.kind = "status" THEN "status"
                    ELSE IF p.total > Len(p.page) THEN "truncated" ELSE "whole"
        /\ n.done <=> p.kind \in {"zipcode", "status"} \/ Len(p.page) < PageSize(p)
    BY <1>3, AnswerIs
  <2> HIDE DEF n
  <2>4. n.seen = q.seen
    <3>1. q.seen \in Seq(Rows)
      BY <1>1 DEF RequestRecord
    <3>2. q.seen \o <<>> = q.seen
      BY <3>1, ConcatEmptySeq
    <3> QED
      BY <1>1, <1>3, <2>3, <3>2
  <2>5. SameRequest(n, q) /\ n.start = q.start
    BY <1>3, <2>3 DEF SameRequest
  <2>6. n.done
    <3>1. Len(p.page) = 0 /\ PageSize(p) \in Nat \ {0}
      BY <1>1, <1>3, PageSizeIs, EmptySeq
    <3>2. Len(p.page) < PageSize(p)
      BY <3>1
    <3> QED
      BY <2>3, <3>2
  <2>7. Typed(n)
    <3>1. <<>> \in Lefts(q.kind)
      BY <1>1, RestsAreLefts
    <3> QED
      BY <2>3, <2>5, <3>1 DEF Typed, SameRequest
  <2>8. Counted(n, addresses)
    BY <2>3, LeftsDiffer DEF Counted
  <2>9. IdleSeen(n, runs)
    <3>1. n.left # <<"last">> /\ n.said # "status"
      BY <1>2, <1>3, <2>3 DEF SameRequest
    <3> QED
      BY <1>4, <2>5, <3>1 DEF IdleSeen, SameRequest
  <2>10. Len(L) = 0 /\ L \in Seq(S)
    BY <1>5, <2>2, FS_EmptySet DEF Lists
  <2>11. Exact(n)
    <3>1. q.seen \in Seq(Rows) /\ Len(q.seen) \in Nat /\ DOMAIN q.seen = 1..Len(q.seen)
      BY <1>1, LenProperties DEF RequestRecord
    <3>2. Walks(q, L)
      BY <1>2, <1>5 DEF Here, RequestOK, Walking, Listings
    <3>3. ASSUME Ahead(q.seen, q.start, L) PROVE q.start \subseteq Elements(q.seen)
      BY <2>10, <3>1, <3>3 DEF Ahead
    <3>4. ASSUME Front(q.seen, L) PROVE NoRepeats(q.seen)
      BY <2>10, <3>1, <3>4 DEF Front, NoRepeats
    <3>5. Exact(q)
      BY <3>2, <3>3, <3>4 DEF Walks, Exact
    <3> QED
      BY <2>4, <2>5, <3>5 DEF Exact, SameRequest
  <2>12. Walking(n, addresses, runs, skipped)
    BY <1>2, <2>5, <2>6, <2>11, <1>3 DEF Walking, Walks, SameRequest
  <2>13. CompleteIfWhole(q, n)
    <3>1. Elements(<<>>) = {}
      BY DEF Elements
    <3> QED
      BY <2>2, <2>4, <3>1 DEF CompleteIfWhole
  <2> QED
    BY <2>1, <2>3, <2>7, <2>8, <2>9, <2>12, <2>13 DEF Here, RequestOK, p
<1> QED
  BY <1>7, <1>8

\* A page, and the answer with it.
LEMMA ReadsPage ==
    ASSUME TablesInv, NEW q, Here(q), q.left # <<>>, Head(q.left) = "page"
    PROVE  /\ Here(After(q)) /\ CompleteIfWhole(q, After(q))
           /\ After(q).left = <<>> /\ Answered(AfterStatement(q))
<1> DEFINE p == AfterStatement(q)
           n == Answer(p)
           S == Listed(q, addresses, runs, skipped)
           L == Listing(q)
           size == PageSize(q)
           page == PageOf(L, Len(q.seen), size)
           first == IF q.seen = <<>> THEN Elements(L) ELSE q.start
<1>1. Typed(q) /\ q \in RequestRecord /\ q.kind \in Kinds /\ q.match \subseteq Keys \X Names
      /\ q.seen \in Seq(Rows) /\ q.said = "nothing" /\ ~q.done
  BY DEF Here, RequestOK, Typed, RequestRecord
<1>2. q.left = <<"page">> /\ Tail(q.left) = <<>> /\ q.kind \in Listings
  BY <1>1, LeftCases DEF Typed, NextStatementIs
<1>3. /\ p \in RequestRecord /\ SameRequest(p, q) /\ p.left = <<>> /\ p.seen = q.seen
      /\ p.total = q.total /\ p.page = page /\ p.start = first
  BY <1>1, <1>2, StatementIs, ListingIs
<1>4. S \subseteq Rows /\ Lists(L, S) /\ Elements(L) = S
      /\ L = ListingOf(q, addresses, runs, skipped)
  BY <1>1, ListedIsRows, ListingIs
<1>5. size \in Nat \ {0} /\ L \in Seq(S)
  BY <1>4, PageSizeIs DEF Lists
<1>6. /\ n \in RequestRecord /\ SameRequest(n, p) /\ n.left = <<>> /\ n.page = <<>>
      /\ n.seen = p.seen \o p.page /\ n.start = p.start
      /\ n.said = IF p.kind = "status" THEN "status"
                  ELSE IF p.total > Len(p.page) THEN "truncated" ELSE "whole"
      /\ n.done <=> p.kind \in {"zipcode", "status"} \/ Len(p.page) < PageSize(p)
  BY <1>3, AnswerIs
<1>7. Answered(p) /\ After(q) = n
  BY <1>3 DEF Answered, After
<1> HIDE DEF p, n
<1>8. SameRequest(n, q) /\ PageSize(p) = size /\ q.kind \in Listings /\ q.kind # "status"
  BY <1>2, <1>3, <1>6 DEF SameRequest, PageSize, Listings
<1>9. n.seen = q.seen \o page /\ n.start = first
  BY <1>3, <1>6
<1>10. n.done <=> q.kind = "zipcode" \/ Len(page) < size
  BY <1>3, <1>6, <1>8 DEF SameRequest
<1>11. n.said \in {"truncated", "whole"} /\ (n.said = "whole" => ~(q.total > Len(page)))
  BY <1>3, <1>6, <1>8 DEF SameRequest
<1>12. Typed(n)
  <2>1. <<>> \in Lefts(q.kind)
    BY <1>1, RestsAreLefts
  <2> QED
    BY <1>6, <1>8, <2>1 DEF Typed, SameRequest
<1>13. Counted(n, addresses)
  BY <1>6, LeftsDiffer DEF Counted
<1>14. IdleSeen(n, runs)
  <2>1. n.left # <<"last">> /\ n.said # "status"
    BY <1>6, <1>11, LeftsDiffer
  <2>2. q.begun <= Len(runs)
    BY DEF Here, RequestOK, IdleSeen
  <2> QED
    BY <1>8, <2>1, <2>2 DEF IdleSeen, SameRequest
<1>15. Walks(q, L)
  BY <1>2, <1>4 DEF Here, RequestOK, Walking
<1> HIDE DEF L, S, size, page, first
<1>16. ASSUME ~q.shrunk
       PROVE  Ahead(n.seen, n.start, L) /\ (Len(page) < size => n.start \subseteq Elements(n.seen))
  <2>1. Ahead(q.seen, first, L)
    <3>1. CASE q.seen = <<>>
      BY <1>4, <3>1, WalkBegins DEF first
    <3>2. CASE q.seen # <<>>
      BY <1>1, <1>15, <1>16, <3>2 DEF Walks, first
    <3> QED
      BY <3>1, <3>2
  <2> QED
    BY <1>1, <1>4, <1>5, <1>9, <2>1, WalkGoesOn DEF page
<1>17. ASSUME ~q.shrunk, ~q.grown
       PROVE  Front(n.seen, L) /\ NoRepeats(n.seen)
  <2>1. Front(q.seen, L)
    BY <1>1, <1>15, <1>17 DEF Walks
  <2> QED
    BY <1>1, <1>4, <1>5, <1>9, <2>1, FrontGoesOn DEF page
<1>18. Walks(n, L)
  BY <1>8, <1>10, <1>16, <1>17 DEF Walks, Exact, SameRequest
<1>19. Walking(n, addresses, runs, skipped)
  BY <1>4, <1>8, <1>18 DEF Walking, Listings, ListingOf, SameRequest
<1>20. CompleteIfWhole(q, n)
  <2> SUFFICES ASSUME q.kind \in {"addresses", "zipcode"}, q.seen = <<>>, n.said = "whole",
                      ~q.grown
               PROVE  Elements(n.seen) = Matches(q.match, addresses)
    BY DEF CompleteIfWhole
  <2>1. S = Matches(q.match, addresses)
    BY DEF S, Listed
  <2>2. Cardinality(S) <= q.total
    BY <1>2, <2>1 DEF Here, RequestOK, Counted
  <2>3. q.total \in Nat /\ Cardinality(S) \in Nat /\ Len(L) = Cardinality(S)
    BY <1>1, <1>4, FS_CardinalityType DEF RequestRecord, Lists
  <2>4. page \in Seq(Rows) /\ Len(page) \in Nat
    <3>1. PageOf(L, Len(q.seen), size) \in Seq(S)
      BY <1>1, <1>4, <1>5, PageContinues
    <3>2. page \in Seq(Rows)
      BY <1>4, <3>1, SeqMonotonic DEF page
    <3> QED
      BY <3>2, LenProperties
  <2>5. Len(L) <= Len(n.seen) /\ n.seen \in Seq(Rows)
    <3>1. Len(q.seen) = 0
      BY EmptySeq
    <3>2. n.seen \in Seq(Rows) /\ Len(n.seen) = Len(q.seen) + Len(page)
      BY <1>1, <1>9, <2>4, ConcatProperties
    <3> QED
      BY <1>11, <2>2, <2>3, <2>4, <3>1, <3>2
  <2>6. Front(n.seen, L)
    <3>1. Front(q.seen, L)
      BY <2>3, EmptySeq DEF Front
    <3> QED
      BY <1>1, <1>4, <1>5, <1>9, <3>1, FrontGoesOn DEF page
  <2>7. Elements(n.seen) = S
    BY <1>4, <2>5, <2>6, FrontIsAll
  <2> QED
    BY <2>1, <2>7
<1> QED
  BY <1>6, <1>7, <1>12, <1>13, <1>14, <1>19, <1>20 DEF Here, RequestOK, p

\* The last success, and the status with it.
LEMMA ReadsLast ==
    ASSUME TablesInv, NEW q, Here(q), q.left # <<>>, Head(q.left) = "last"
    PROVE  /\ Here(After(q)) /\ CompleteIfWhole(q, After(q))
           /\ After(q).left = <<>> /\ Answered(AfterStatement(q))
<1> DEFINE p == AfterStatement(q)
           n == Answer(p)
<1>1. Typed(q) /\ q \in RequestRecord /\ q.kind \in Kinds /\ q.begun \in Nat
  BY DEF Here, RequestOK, Typed, RequestRecord
<1>2. q.left = <<"last">> /\ Tail(q.left) = <<>> /\ q.kind = "status"
  BY <1>1, LeftCases DEF Typed, NextStatementIs
<1>3. /\ p \in RequestRecord /\ SameRequest(p, q) /\ p.left = <<>>
      /\ p.running = q.running /\ p.last = LatestSuccess
  BY <1>1, <1>2, StatementIs
<1>4. /\ n \in RequestRecord /\ SameRequest(n, p) /\ n.left = <<>> /\ n.page = <<>>
      /\ n.running = p.running /\ n.last = p.last
  BY <1>3, AnswerIs
<1>5. Answered(p) /\ After(q) = n
  BY <1>3 DEF Answered, After
<1> HIDE DEF p, n
<1>6. Typed(n)
  <2>1. <<>> \in Lefts(q.kind)
    BY <1>1, RestsAreLefts
  <2> QED
    BY <1>3, <1>4, <2>1 DEF Typed, SameRequest
<1>7. Counted(n, addresses) /\ Walking(n, addresses, runs, skipped)
  BY <1>2, <1>3, <1>4 DEF Counted, Walking, SameRequest, Listings
<1>8. IdleSeen(n, runs)
  <2>1. q.begun <= Len(runs) /\ Len(runs) \in Nat
    BY DEF Here, RequestOK, IdleSeen, TablesInv, TablesOK
  <2>2. ~q.running => \A i \in 1..q.begun : runs[i] # "running"
    BY <1>2 DEF Here, RequestOK, IdleSeen
  <2>3. \A i \in 1..q.begun : runs[i] = "success" => i <= LatestSuccess
    BY <1>1, <2>1, LatestIsLast
  <2>4. n.begun = q.begun /\ n.running = q.running /\ n.last = LatestSuccess
    BY <1>3, <1>4 DEF SameRequest
  <2> QED
    BY <2>1, <2>2, <2>3, <2>4 DEF IdleSeen
<1>9. CompleteIfWhole(q, n)
  BY <1>2 DEF CompleteIfWhole
<1> QED
  BY <1>4, <1>5, <1>6, <1>7, <1>8, <1>9 DEF Here, RequestOK, p

LEMMA ReadStep ==
    ASSUME TablesInv, NEW q, Here(q), q.left # <<>>
    PROVE  /\ Here(After(q)) /\ CompleteIfWhole(q, After(q))
           /\ After(q).left # <<>> <=> ~Answered(AfterStatement(q))
<1>1. Head(q.left) \in {"token", "total", "running", "count", "page", "last"}
  <2>1. Typed(q) /\ q.kind \in Kinds
    BY DEF Here, RequestOK, Typed, RequestRecord
  <2> QED
    BY <2>1, LeftCases DEF Typed, NextStatementIs
<1> QED
  BY <1>1, ReadsOn, ReadsCount, ReadsPage, ReadsLast

-----------------------------------------------------------------------------
(* What a write means to the requests under way. *)

\* The request q once a change of the tables was noticed.
Seen(q, a, r, s, b, t, u) == Noted(q, Listed(q, a, r, s), Listed(q, b, t, u))

LEMMA WriteKeepsRequest ==
    ASSUME NEW a, NEW r, NEW s, TablesOK(a, r, s), NEW b, NEW t, NEW u,
           TablesOK(b, t, u), TablesMove(a, r, s, b, t, u), NEW q, RequestOK(q, a, r, s)
    PROVE  RequestOK(Seen(q, a, r, s, b, t, u), b, t, u)
<1> DEFINE n == Seen(q, a, r, s, b, t, u)
           before == Listed(q, a, r, s)
           after == Listed(q, b, t, u)
           L == ListingOf(q, a, r, s)
           M == ListingOf(q, b, t, u)
<1>1. Typed(q) /\ q \in RequestRecord /\ q.kind \in Kinds /\ q.match \subseteq Keys \X Names
      /\ q.seen \in Seq(Rows)
  BY DEF RequestOK, Typed, RequestRecord
<1>2. IdleSeen(q, t)
  <2>1. \A i \in 1..Len(r) : r[i] # "running" => t[i] = r[i]
    BY DEF TablesMove
  <2>2. Len(r) \in Nat /\ Len(t) \in Nat /\ Len(r) <= Len(t) /\ q.begun <= Len(r)
        /\ q.begun \in Nat
    BY <1>1 DEF TablesMove, TablesOK, RequestOK, IdleSeen, RequestRecord
  <2>3. 1..q.begun \subseteq 1..Len(r) /\ q.begun <= Len(t)
    BY <2>2
  <2> QED
    BY <2>1, <2>3 DEF RequestOK, IdleSeen
<1>3. CASE q.kind \in {"none", "status"}
  <2>1. n = q
    BY <1>3 DEF Seen, Noted
  <2>2. Counted(q, b) /\ Walking(q, b, t, u)
    BY <1>3 DEF RequestOK, Counted, Walking, Listings
  <2> QED
    BY <1>1, <1>2, <2>1, <2>2 DEF RequestOK
<1>4. CASE q.kind \notin {"none", "status"}
  <2>1. q.kind \in Listings
    BY <1>1, <1>4 DEF Kinds, Listings
  <2> DEFINE up == q.grown \/ ~(after \subseteq before)
             down == q.shrunk \/ ~(before \subseteq after)
  <2>2. n = [q EXCEPT !.grown = up, !.shrunk = down] /\ up \in BOOLEAN /\ down \in BOOLEAN
    BY <1>4 DEF Seen, Noted
  <2> HIDE DEF up, down
  <2>3. /\ n \in RequestRecord /\ n.kind = q.kind /\ n.match = q.match /\ n.run = q.run
        /\ n.left = q.left /\ n.total = q.total /\ n.page = q.page
        /\ n.running = q.running /\ n.last = q.last /\ n.said = q.said
        /\ n.begun = q.begun /\ n.seen = q.seen /\ n.start = q.start /\ n.done = q.done
        /\ n.grown = up /\ n.shrunk = down
    <3> HIDE DEF n
    <3>1. n \in RequestRecord
      BY <1>1, <2>2 DEF RequestRecord
    <3> QED
      BY <1>1, <2>2, <3>1 DEF RequestRecord
  <2> HIDE DEF n
  <2>4. Typed(n) /\ IdleSeen(n, t)
    BY <1>1, <1>2, <2>3 DEF Typed, IdleSeen
  <2>5. Counted(n, b)
    <3> SUFFICES ASSUME q.kind \in {"addresses", "zipcode"}, q.left = <<"page">>, ~up
                 PROVE  Cardinality(Matches(q.match, b)) <= q.total
      BY <2>3 DEF Counted
    <3> DEFINE A == Matches(q.match, a)
               B == Matches(q.match, b)
    <3>1. B \subseteq A /\ ~q.grown
      BY DEF up, Listed
    <3>2. Cardinality(A) <= q.total /\ q.total \in Nat
      BY <1>1, <3>1 DEF RequestOK, Counted, RequestRecord
    <3>3. IsFiniteSet(A)
      BY <1>1, ColumnedTells
    <3> HIDE DEF A, B
    <3>4. Cardinality(B) <= Cardinality(A) /\ IsFiniteSet(B)
      BY <3>1, <3>3, FS_Subset
    <3>5. Cardinality(A) \in Nat /\ Cardinality(B) \in Nat
      BY <3>3, <3>4, FS_CardinalityType
    <3> QED
      BY <3>2, <3>4, <3>5 DEF B
  <2>6. Lists(L, before) /\ Lists(M, after)
    BY <1>1, ListingLists
  <2>7. Walks(q, L)
    BY <2>1 DEF RequestOK, Walking
  <2>8. ASSUME ~down
        PROVE  ~q.shrunk /\ (Ahead(q.seen, q.start, L) => Ahead(q.seen, q.start, M))
    <3>1. ~q.shrunk /\ before \subseteq after
      BY <2>8 DEF down
    <3>2. Moves(L, M)
      BY <1>1, <3>1, ListingMoves
    <3>3. L \in Seq(before) /\ M \in Seq(after)
      BY <2>6 DEF Lists
    <3> HIDE DEF L, M, before, after
    <3> QED
      BY <1>1, <3>1, <3>2, <3>3, AheadMoves
  <2>9. ASSUME ~down, ~up
        PROVE  ~q.shrunk /\ ~q.grown /\ L = M
    <3>1. before = after
      BY <2>9 DEF down, up
    <3>2. L = M
      BY <1>1, <3>1, ListingStays
    <3> QED
      BY <2>9, <3>2 DEF down, up
  <2> HIDE DEF L, M, before, after
  <2>10. Walks(n, M)
    BY <2>3, <2>7, <2>8, <2>9 DEF Walks, Exact
  <2>11. ListingOf(n, b, t, u) = M
    BY <2>3 DEF ListingOf, M
  <2> QED
    BY <1>4, <2>3, <2>4, <2>5, <2>10, <2>11 DEF RequestOK, Walking, n
<1> QED
  BY <1>3, <1>4

LEMMA NoticedIs ==
    ASSUME Noticed, NEW d \in Clients
    PROVE  client'[d] = Seen(client[d], addresses, runs, skipped, addresses', runs', skipped')
BY DEF Noticed, Seen

LEMMA NoticedKeeps ==
    ASSUME TablesInv, TablesInv', Moved, RequestsInv, Noticed
    PROVE  RequestsInv'
<1> SUFFICES ASSUME NEW c \in Clients
             PROVE  RequestOK(client'[c], addresses', runs', skipped')
  BY DEF RequestsInv
<1>1. RequestOK(client[c], addresses, runs, skipped)
  BY DEF RequestsInv
<1>2. RequestOK(Seen(client[c], addresses, runs, skipped, addresses', runs', skipped'),
                addresses', runs', skipped')
  BY <1>1, WriteKeepsRequest DEF TablesInv, Moved
<1> QED
  BY <1>2, NoticedIs

-----------------------------------------------------------------------------
(* The invariant. *)

Inv == PoolTypes /\ PoolLimit /\ TablesInv /\ Asking /\ Quiet /\ AtWork /\ RequestsInv
       /\ client \in [Clients -> RequestRecord]

LEMMA NoRequestOK ==
    ASSUME NEW a, NEW r, NEW s, r \in Seq(Statuses)
    PROVE  NoRequest \in RequestRecord /\ RequestOK(NoRequest, a, r, s)
<1>1. NoRequest \in RequestRecord
  <2>1. <<>> \in Leftovers /\ <<>> \in Seq(Rows)
    BY EmptySeq DEF Leftovers, Kinds, Lefts
  <2>2. "none" \in Kinds
    BY DEF Kinds
  <2> QED
    BY ONLY <2>1, <2>2 DEF NoRequest, RequestRecord
<1>2. /\ NoRequest.kind = "none" /\ NoRequest.left = <<>> /\ NoRequest.page = <<>>
      /\ NoRequest.said = "nothing" /\ NoRequest.begun = 0 /\ ~NoRequest.done
  BY ONLY DEF NoRequest
<1>3. Len(r) \in Nat
  BY LenProperties
<1>4. Typed(NoRequest)
  <2>1. <<>> \in Lefts("none")
    BY RestsAreLefts DEF Kinds
  <2> QED
    BY <1>1, <1>2, <2>1 DEF Typed
<1>5. IdleSeen(NoRequest, r)
  BY <1>2, <1>3, LeftsDiffer DEF IdleSeen
<1>6. Counted(NoRequest, a) /\ Walking(NoRequest, a, r, s)
  BY <1>2 DEF Counted, Walking, Listings
<1> QED
  BY <1>1, <1>4, <1>5, <1>6 DEF RequestOK

\* A new request, the next page or the last one again, an end without an answer.
NewRequest(kind, match, run) ==
    [NoRequest EXCEPT !.kind = kind, !.match = match, !.run = run, !.left = Plan(kind),
                      !.begun = Len(runs)]

NextRequest(q) == [q EXCEPT !.left = Plan(q.kind), !.said = "nothing"]

Failed(q) == [q EXCEPT !.left = <<>>, !.page = <<>>, !.total = 0]

LEMMA AskOK ==
    ASSUME TablesInv, NEW kind \in Kinds, kind # "none",
           NEW match \in SUBSET (Keys \X Names), NEW run \in Nat
    PROVE  LET q == NewRequest(kind, match, run)
           IN  q \in RequestRecord /\ Here(q) /\ q.left # <<>>
<1> DEFINE q == NewRequest(kind, match, run)
<1>1. runs \in Seq(Statuses) /\ Len(runs) \in Nat
  BY DEF TablesInv, TablesOK
<1>2. NoRequest \in RequestRecord
  BY <1>1, NoRequestOK
<1>3. /\ NoRequest.page = <<>> /\ NoRequest.said = "nothing" /\ NoRequest.seen = <<>>
      /\ NoRequest.start = {} /\ ~NoRequest.done
  BY ONLY DEF NoRequest
<1>4. /\ Plan(kind) \in Lefts(kind) /\ Plan(kind) # <<>> /\ Plan(kind) # <<"page">>
      /\ Plan(kind) # <<"last">>
  BY PlanIsLeft
<1>5. Plan(kind) \in Leftovers
  BY <1>4, RestsAreLefts
<1> HIDE DEF q
<1>6. /\ q \in RequestRecord /\ q.kind = kind /\ q.left = Plan(kind) /\ q.page = <<>>
      /\ q.said = "nothing" /\ q.begun = Len(runs) /\ q.seen = <<>> /\ q.start = {}
      /\ ~q.done
  <2>1. q \in RequestRecord
    BY <1>1, <1>2, <1>5 DEF q, NewRequest, RequestRecord
  <2> QED
    BY <1>2, <1>3, <2>1 DEF q, NewRequest, RequestRecord
<1>7. Typed(q)
  BY <1>4, <1>6 DEF Typed
<1>8. Counted(q, addresses) /\ IdleSeen(q, runs)
  BY <1>1, <1>4, <1>6 DEF Counted, IdleSeen
<1>9. Walking(q, addresses, runs, skipped)
  <2> SUFFICES ASSUME kind \in Listings
               PROVE  Walks(q, ListingOf(q, addresses, runs, skipped))
    BY <1>6 DEF Walking
  <2> DEFINE L == ListingOf(q, addresses, runs, skipped)
             S == Listed(q, addresses, runs, skipped)
  <2>1. q.match \subseteq Keys \X Names
    BY <1>6 DEF RequestRecord
  <2>2. Lists(L, S)
    BY <2>1, ListingLists DEF TablesInv
  <2> HIDE DEF L, S
  <2>3. Len(L) \in Nat /\ Len(q.seen) = 0
    BY <1>6, <2>2, EmptySeq, LenProperties DEF Lists
  <2>4. Front(q.seen, L) /\ Ahead(q.seen, q.start, L)
    BY <1>6, <2>3 DEF Front, Ahead
  <2> QED
    BY <1>6, <2>4 DEF Walks, L
<1> QED
  BY <1>4, <1>6, <1>7, <1>8, <1>9 DEF Here, RequestOK, q

LEMMA AskOnOK ==
    ASSUME TablesInv, NEW q, Here(q), q.kind # "none", q.left = <<>>, ~q.done
    PROVE  LET n == NextRequest(q)
           IN  n \in RequestRecord /\ Here(n) /\ n.left # <<>>
<1> DEFINE n == NextRequest(q)
<1>1. Typed(q) /\ q \in RequestRecord /\ q.kind \in Kinds
  BY DEF Here, RequestOK, Typed, RequestRecord
<1>2. /\ Plan(q.kind) \in Lefts(q.kind) /\ Plan(q.kind) # <<>>
      /\ Plan(q.kind) # <<"page">> /\ Plan(q.kind) # <<"last">>
  BY <1>1, PlanIsLeft
<1>3. Plan(q.kind) \in Leftovers
  BY <1>1, <1>2, RestsAreLefts
<1> HIDE DEF n
<1>4. /\ n \in RequestRecord /\ SameRequest(n, q) /\ n.left = Plan(q.kind)
      /\ n.page = q.page /\ n.said = "nothing" /\ n.seen = q.seen /\ n.start = q.start
      /\ n.done = q.done
  <2>1. n \in RequestRecord
    BY <1>1, <1>3 DEF n, NextRequest, RequestRecord
  <2> QED
    BY <1>1, <2>1 DEF n, NextRequest, RequestRecord, SameRequest
<1>5. Typed(n)
  BY <1>1, <1>2, <1>4 DEF Typed, SameRequest
<1>6. Counted(n, addresses)
  BY <1>2, <1>4 DEF Counted
<1>7. IdleSeen(n, runs)
  BY <1>2, <1>4 DEF Here, RequestOK, IdleSeen, SameRequest
<1>8. Walking(n, addresses, runs, skipped)
  BY <1>4 DEF Here, RequestOK, Walking, Walks, Exact, ListingOf, SameRequest
<1> QED
  BY <1>2, <1>4, <1>5, <1>6, <1>7, <1>8 DEF Here, RequestOK, n

LEMMA FailsOK ==
    ASSUME TablesInv, NEW q, Here(q)
    PROVE  LET n == Failed(q)
           IN  n \in RequestRecord /\ Here(n) /\ n.left = <<>>
<1> DEFINE n == Failed(q)
<1>1. Typed(q) /\ q \in RequestRecord /\ q.kind \in Kinds
  BY DEF Here, RequestOK, Typed, RequestRecord
<1>2. <<>> \in Lefts(q.kind) /\ <<>> \in Leftovers /\ <<>> \in Seq(Rows)
  BY <1>1, RestsAreLefts, EmptySeq
<1> HIDE DEF n
<1>4. /\ n \in RequestRecord /\ SameRequest(n, q) /\ n.left = <<>> /\ n.page = <<>>
      /\ n.said = q.said /\ n.seen = q.seen /\ n.start = q.start /\ n.done = q.done
      /\ n.running = q.running /\ n.last = q.last
  <2>1. n \in RequestRecord
    BY <1>1, <1>2 DEF n, Failed, RequestRecord
  <2> QED
    BY <1>1, <2>1 DEF n, Failed, RequestRecord, SameRequest
<1>5. Typed(n)
  BY <1>1, <1>2, <1>4 DEF Typed, SameRequest
<1>6. Counted(n, addresses)
  BY <1>4, LeftsDiffer DEF Counted
<1>7. IdleSeen(n, runs)
  BY <1>4, LeftsDiffer DEF Here, RequestOK, IdleSeen, SameRequest
<1>8. Walking(n, addresses, runs, skipped)
  BY <1>4 DEF Here, RequestOK, Walking, Walks, Exact, ListingOf, SameRequest
<1> QED
  BY <1>4, <1>5, <1>6, <1>7, <1>8 DEF Here, RequestOK, n

\* A step of one client that leaves the tables alone: it is enough to look at
\* the request it makes of it.
LEMMA OneRequest ==
    ASSUME Inv, UNCHANGED tables, engine' = engine, NEW c \in Clients, NEW n,
           n \in RequestRecord, Here(n), client' = [client EXCEPT ![c] = n],
           NEW now \in {"none", "waiting"}, conn' = [conn EXCEPT ![c] = now],
           n.left = <<>> <=> now = "none"
    PROVE  /\ Asking' /\ RequestsInv' /\ client' \in [Clients -> RequestRecord]
<1>1. c \in Actors /\ Engine \in Actors /\ Engine # c
  BY ReadPathAssumption DEF Actors
<1>2. client' \in [Clients -> RequestRecord] /\ client'[c] = n
      /\ \A d \in Clients : d # c => client'[d] = client[d]
  BY DEF Inv
<1>3. conn'[c] = now /\ \A a \in Actors : a # c => conn'[a] = conn[a]
  BY <1>1 DEF Inv, PoolTypes
<1>4. addresses' = addresses /\ runs' = runs /\ skipped' = skipped
  BY DEF tables
<1>5. RequestsInv'
  BY <1>2, <1>4 DEF RequestsInv, Inv, Here
<1>6. Asking'
  <2>1. \A d \in Clients : d \in Actors
    BY DEF Actors
  <2> QED
    BY <1>1, <1>2, <1>3, <2>1 DEF Asking, Inv
<1> QED
  BY <1>2, <1>5, <1>6

\* A step in which the clients only notice what was written.
LEMMA ClientsNotice ==
    ASSUME Inv, TablesInv', Moved, Noticed
    PROVE  /\ RequestsInv' /\ client' \in [Clients -> RequestRecord]
           /\ \A c \in Clients : client'[c].left = client[c].left
<1>1. RequestsInv'
  BY NoticedKeeps DEF Inv
<1>2. \A c \in Clients : client'[c] \in RequestRecord
  BY <1>1 DEF RequestsInv, RequestOK, Typed
<1>3. client' = [c \in Clients |-> client'[c]]
  BY DEF Noticed
<1>4. client' \in [Clients -> RequestRecord]
  BY <1>2, <1>3
<1>5. ASSUME NEW c \in Clients PROVE client'[c].left = client[c].left
  <2> DEFINE q == client[c]
  <2>1. client'[c] = Seen(q, addresses, runs, skipped, addresses', runs', skipped')
    BY NoticedIs
  <2>2. q \in RequestRecord
    BY DEF Inv
  <2> HIDE DEF q
  <2>3. ASSUME NEW x, NEW y PROVE Noted(q, x, y).left = q.left
    BY <2>2 DEF Noted, RequestRecord
  <2> QED
    BY <2>1, <2>3 DEF Seen, q
<1> QED
  BY <1>1, <1>4, <1>5

\* A step of the engine that leaves the tables or writes them.
LEMMA EngineAsking ==
    ASSUME Inv, NEW now \in {"none", "waiting"}, conn' = [conn EXCEPT ![Engine] = now],
           engine' \in {"create", "write", "finish"} <=> now # "none",
           \A c \in Clients : client'[c].left = client[c].left
    PROVE  Asking'
<1>1. Engine \in Actors /\ \A c \in Clients : c \in Actors /\ c # Engine
  BY ReadPathAssumption DEF Actors
<1>2. conn'[Engine] = now /\ \A c \in Clients : conn'[c] = conn[c]
  BY <1>1 DEF Inv, PoolTypes
<1> QED
  BY <1>2 DEF Asking, Inv

LEMMA ClientStep ==
    ASSUME Inv, NEW c \in Clients, Request(c) \/ Read(c) \/ Fails(c)
    PROVE  Asking' /\ RequestsInv' /\ client' \in [Clients -> RequestRecord]
<1> DEFINE q == client[c]
<1>1. /\ q \in RequestRecord /\ Here(q) /\ TablesInv /\ q.kind \in Kinds /\ q.match \in SUBSET (Keys \X Names)
      /\ client \in [Clients -> RequestRecord]
  BY DEF Inv, RequestsInv, Here, RequestRecord
<1>2. ASSUME NEW kind \in Kinds, kind # "none", NEW match \in SUBSET (Keys \X Names),
             NEW run \in Nat, Ask(c, kind, match, run)
      PROVE  Asking' /\ RequestsInv' /\ client' \in [Clients -> RequestRecord]
  <2> DEFINE n == NewRequest(kind, match, run)
  <2>1. n \in RequestRecord /\ Here(n) /\ n.left # <<>>
    BY <1>1, <1>2, AskOK
  <2>2. Asks(c, n)
    BY ONLY <1>2 DEF Ask, NewRequest
  <2> HIDE DEF n
  <2> QED
    BY <2>1, <2>2, OneRequest DEF Asks
<1>3. CASE \E match \in Filters : Ask(c, "addresses", match, 0)
  BY <1>2, <1>3, ReadPathAssumption DEF Kinds, Listings
<1>4. CASE \E z \in {Zip[k] : k \in Keys} :
              Ask(c, "zipcode", {k \in Keys : Zip[k] = z} \X Names, 0)
  <2>1. ASSUME NEW z, Ask(c, "zipcode", {k \in Keys : Zip[k] = z} \X Names, 0)
        PROVE  Asking' /\ RequestsInv' /\ client' \in [Clients -> RequestRecord]
    <3>1. /\ {k \in Keys : Zip[k] = z} \X Names \in SUBSET (Keys \X Names)
          /\ "zipcode" \in Kinds
      BY DEF Kinds, Listings
    <3> QED
      BY <1>2, <2>1, <3>1
  <2> QED
    BY <1>4, <2>1
<1>5. CASE Ask(c, "runs", {}, 0) \/ Ask(c, "status", {}, 0)
  BY <1>2, <1>5 DEF Kinds, Listings
<1>6. CASE \E r \in 1..Len(runs) : Ask(c, "skipped", {}, r)
  <2>1. Len(runs) \in Nat
    BY <1>1 DEF TablesInv, TablesOK
  <2>2. PICK r \in 1..Len(runs) : Ask(c, "skipped", {}, r)
    BY <1>6
  <2>3. r \in Nat /\ "skipped" \in Kinds
    BY <2>1 DEF Kinds, Listings
  <2> QED
    BY <1>2, <2>2, <2>3
<1>7. CASE AskOn(c)
  <2> DEFINE n == NextRequest(q)
  <2>1. q.kind # "none" /\ q.left = <<>> /\ ~q.done /\ Asks(c, n)
    BY ONLY <1>7 DEF AskOn, NextRequest
  <2>2. n \in RequestRecord /\ Here(n) /\ n.left # <<>>
    BY <1>1, <2>1, AskOnOK
  <2> HIDE DEF n
  <2> QED
    BY <2>1, <2>2, OneRequest DEF Asks
<1>8. CASE Leave(c)
  <2>1. runs \in Seq(Statuses)
    BY <1>1 DEF TablesInv, TablesOK
  <2>2. NoRequest \in RequestRecord /\ Here(NoRequest)
    BY <2>1, NoRequestOK DEF Here
  <2>3. NoRequest.left = <<>>
    BY ONLY DEF NoRequest
  <2>4. UNCHANGED tables /\ engine' = engine /\ conn' = conn /\ q.left = <<>>
        /\ client' = [client EXCEPT ![c] = NoRequest]
    BY <1>8 DEF Leave, poolVars
  <2>5. conn[c] = "none" /\ conn' = [conn EXCEPT ![c] = "none"]
    <3>1. c \in Actors
      BY DEF Actors
    <3> QED
      BY <2>4, <3>1 DEF Inv, Asking, PoolTypes
  <2> HIDE DEF q
  <2> QED
    BY <2>2, <2>3, <2>4, <2>5, OneRequest
<1>9. CASE Read(c)
  <2> DEFINE n == After(q)
  <2>1. conn[c] = "held" /\ UNCHANGED tables /\ engine' = engine
    BY <1>9 DEF Read
  <2>2. q.left # <<>>
    BY <2>1 DEF Inv, Asking
  <2>3. Here(n) /\ (n.left # <<>> <=> ~Answered(AfterStatement(q)))
    BY <1>1, <2>2, ReadStep
  <2>4. /\ client' = [client EXCEPT ![c] = n]
        /\ conn' = [conn EXCEPT ![c] =
               IF Answered(AfterStatement(q)) THEN "none" ELSE "waiting"]
    BY ONLY <1>9 DEF Read, After, Release
  <2>5. n \in RequestRecord
    BY <2>3 DEF Here, RequestOK, Typed
  <2> HIDE DEF n, q
  <2>6. CASE Answered(AfterStatement(q))
    <3>1. n.left = <<>> /\ conn' = [conn EXCEPT ![c] = "none"]
      BY <2>3, <2>4, <2>6
    <3> QED
      BY <2>1, <2>3, <2>4, <2>5, <3>1, OneRequest
  <2>7. CASE ~Answered(AfterStatement(q))
    <3>1. n.left # <<>> /\ conn' = [conn EXCEPT ![c] = "waiting"]
      BY <2>3, <2>4, <2>7
    <3> QED
      BY <2>1, <2>3, <2>4, <2>5, <3>1, OneRequest
  <2> QED
    BY <2>6, <2>7
<1>10. CASE Fails(c)
  <2> DEFINE n == Failed(q)
  <2>1. UNCHANGED tables /\ engine' = engine /\ conn' = [conn EXCEPT ![c] = "none"]
    BY <1>10 DEF Fails, Release
  <2>2. client' = [client EXCEPT ![c] = n]
    BY ONLY <1>10 DEF Fails, Failed
  <2>3. n \in RequestRecord /\ Here(n) /\ n.left = <<>>
    BY <1>1, FailsOK
  <2> HIDE DEF n
  <2> QED
    BY <2>1, <2>2, <2>3, OneRequest
<1> HIDE DEF q
<1> QED
  BY <1>3, <1>4, <1>5, <1>6, <1>7, <1>8, <1>9, <1>10 DEF Request

LEMMA EngineStep ==
    ASSUME Inv, TablesInv', Moved, Run
    PROVE  Asking' /\ RequestsInv' /\ client' \in [Clients -> RequestRecord]
<1>1. CASE BeginRun \/ NextStatement
  <2>1. /\ UNCHANGED <<tables, client>> /\ conn' = [conn EXCEPT ![Engine] = "waiting"]
        /\ engine' \in {"create", "write", "finish"}
    BY <1>1 DEF BeginRun, NextStatement, EngineAsks
  <2> QED
    BY <2>1, EngineAsking DEF tables, Inv, RequestsInv
<1>2. CASE StatementFails
  <2>1. /\ UNCHANGED <<tables, client>> /\ conn' = [conn EXCEPT ![Engine] = "none"]
        /\ engine' \notin {"create", "write", "finish"}
    BY <1>2 DEF StatementFails, Release
  <2> QED
    BY <2>1, EngineAsking DEF tables, Inv, RequestsInv
<1>3. ASSUME Noticed, conn' = [conn EXCEPT ![Engine] = "none"], engine' \in {"running", "idle"}
      PROVE  Asking' /\ RequestsInv' /\ client' \in [Clients -> RequestRecord]
  BY <1>3, ClientsNotice, EngineAsking
<1>4. CASE Create \/ Write
  BY <1>3, <1>4 DEF Create, Write, Release
<1>5. ASSUME NEW status \in {"success", "failed"}, Finish(status)
      PROVE  Asking' /\ RequestsInv' /\ client' \in [Clients -> RequestRecord]
  BY <1>3, <1>5 DEF Finish, Release
<1> QED
  BY <1>1, <1>2, <1>4, <1>5 DEF Run

\* Steps of the process, in which the clients have nothing asked or ask nothing new.
LEMMA ProcessStep ==
    ASSUME Inv, TablesInv',
           (\E a \in Actors : Grant(a)) \/ Crash \/ Start \/ CleanUp \/ UNCHANGED vars
    PROVE  Asking' /\ RequestsInv' /\ client' \in [Clients -> RequestRecord]
<1>1. ASSUME NEW a \in Actors, Grant(a)
      PROVE  Asking' /\ RequestsInv' /\ client' \in [Clients -> RequestRecord]
  <2>1. Engine \in Actors /\ \A c \in Clients : c \in Actors
    BY DEF Actors
  <2>2. UNCHANGED <<tables, engine, client>>
        /\ \A d \in Actors : conn'[d] = "none" <=> conn[d] = "none"
    BY <1>1 DEF Grant, Inv, PoolTypes
  <2> QED
    BY <2>1, <2>2 DEF tables, Inv, Asking, RequestsInv
<1>2. ASSUME Crash \/ CleanUp
      PROVE  client' = [c \in Clients |-> NoRequest] /\ engine' = "idle"
             /\ \A a \in Actors : conn'[a] = "none"
  <2>1. CASE Crash
    BY <2>1 DEF Crash
  <2>2. CASE CleanUp
    <3>1. client' = client /\ engine' = engine /\ conn' = conn /\ boot # "up"
      BY <2>2 DEF CleanUp, poolVars
    <3>2. client = [c \in Clients |-> NoRequest] /\ engine = "idle"
      BY <3>1 DEF Inv, Quiet
    <3>3. NoRequest.left = <<>>
      BY ONLY DEF NoRequest
    <3>4. conn[Engine] = "none" /\ \A c \in Clients : conn[c] = "none"
      BY <3>2, <3>3 DEF Inv, Asking
    <3> QED
      BY <3>1, <3>2, <3>4 DEF Actors
  <2> QED
    BY <1>2, <2>1, <2>2
<1>3. CASE Crash \/ CleanUp
  <2>1. runs' \in Seq(Statuses)
    BY DEF TablesInv, TablesOK
  <2>2. NoRequest \in RequestRecord /\ RequestOK(NoRequest, addresses', runs', skipped')
    BY <2>1, NoRequestOK
  <2>3. NoRequest.left = <<>>
    BY ONLY DEF NoRequest
  <2>4. Engine \in Actors /\ \A c \in Clients : c \in Actors
    BY DEF Actors
  <2> QED
    BY <1>2, <1>3, <2>2, <2>3, <2>4 DEF Asking, RequestsInv
<1>4. CASE Start \/ UNCHANGED vars
  BY <1>4 DEF Start, vars, poolVars, tables, Inv, Asking, RequestsInv
<1> QED
  BY <1>1, <1>3, <1>4

LEMMA InvInit == Init => Inv
<1> SUFFICES ASSUME Init PROVE Inv
  OBVIOUS
<1>1. /\ boot = "down" /\ maxOpen \in PoolSizes /\ conn = [a \in Actors |-> "none"]
      /\ addresses \in Addresses0 /\ nextId = Cardinality(Stored(addresses)) + 1
      /\ runs = <<>> /\ skipped = <<>> /\ engine = "idle"
      /\ client = [c \in Clients |-> NoRequest]
  BY DEF Init
<1>2. PoolTypes
  BY <1>1 DEF PoolTypes
<1>3. PoolLimit
  <2>1. Holders(conn) = {} /\ maxOpen \in Nat
    BY <1>1, ReadPathAssumption DEF Holders
  <2>2. Cardinality(Holders(conn)) = 0
    BY <2>1, FS_EmptySet
  <2>3. boot # "tx"
    BY <1>1
  <2> QED
    BY <2>1, <2>2, <2>3 DEF PoolLimit
<1>4. TablesInv
  <2> DEFINE S == Stored(addresses)
  <2>1. /\ Cardinality(S) <= MaxId /\ \A k \in S : addresses[k].id <= Cardinality(S)
        /\ \A j, k \in S : addresses[j].id = addresses[k].id => j = k
        /\ addresses \in [Keys -> AddressRow] /\ MaxId \in Nat
    BY <1>1, ReadPathAssumption DEF Stored
  <2>2. Cardinality(S) \in Nat
    <3>1. IsFiniteSet(S)
      BY ReadPathAssumption, FS_Subset DEF Stored
    <3> QED
      BY <3>1, FS_CardinalityType
  <2>3. \A k \in Keys : k \in S \/ addresses[k].id = 0
    BY DEF Stored
  <2> HIDE DEF S
  <2>4. \A j, k \in Keys : addresses[j].id # 0 /\ addresses[j].id = addresses[k].id => j = k
    BY <2>1, <2>3
  <2>5. nextId \in 1..(MaxId + 1)
    BY <1>1, <2>1, <2>2 DEF S
  <2>6. \A k \in Keys : addresses[k].id < nextId
    <3> TAKE k \in Keys
    <3>1. addresses[k].id \in Nat /\ nextId = Cardinality(S) + 1
      BY <1>1, <2>1 DEF S, AddressRow
    <3> QED
      BY <2>1, <2>2, <2>3, <3>1
  <2>7. runs \in Seq(Statuses) /\ skipped \in Seq([run : Nat, line : Lines])
    BY <1>1, EmptySeq
  <2> QED
    BY <2>1, <2>4, <2>5, <2>6, <2>7 DEF TablesInv, TablesOK, IdsBelow
<1>5. NoRequest \in RequestRecord /\ RequestOK(NoRequest, addresses, runs, skipped)
  BY <1>4, NoRequestOK DEF TablesInv, TablesOK
<1>6. NoRequest.left = <<>>
  BY ONLY DEF NoRequest
<1>7. RequestsInv /\ client \in [Clients -> RequestRecord]
  BY <1>1, <1>5 DEF RequestsInv
<1>8. Asking
  <2>1. Engine \in Actors /\ \A c \in Clients : c \in Actors
    BY DEF Actors
  <2> QED
    BY <1>1, <1>6, <2>1 DEF Asking
<1>9. Quiet /\ AtWork
  BY <1>1 DEF Quiet, AtWork
<1> QED
  BY <1>2, <1>3, <1>4, <1>7, <1>8, <1>9 DEF Inv

LEMMA InvStep == Inv /\ [Next]_vars => Inv'
<1> SUFFICES ASSUME Inv, [Next]_vars PROVE Inv'
  OBVIOUS
<1>1. PoolTypes' /\ PoolLimit'
  BY PoolStep DEF Inv
<1>2. TablesInv' /\ Moved
  BY TablesStep DEF Inv
<1>3. Quiet' /\ AtWork'
  BY StageStep DEF Inv
<1>4. Asking' /\ RequestsInv' /\ client' \in [Clients -> RequestRecord]
  <2>1. CASE \E c \in Clients : Request(c) \/ Read(c) \/ Fails(c)
    BY <2>1, ClientStep
  <2>2. CASE Run
    BY <1>2, <2>2, EngineStep
  <2>3. CASE (\E a \in Actors : Grant(a)) \/ Crash \/ Start \/ CleanUp \/ UNCHANGED vars
    BY <1>2, <2>3, ProcessStep
  <2> QED
    BY <2>1, <2>2, <2>3 DEF Next
<1> QED
  BY <1>1, <1>2, <1>3, <1>4 DEF Inv

\* The inductive invariant: the pool keeps its limit and knows who holds of it,
\* ids tell addresses apart, the row of the run at work is the last one, and
\* each request knows of the tables what its statements told it.
THEOREM InvHolds == Spec => []Inv
<1>1. Init => Inv
  BY InvInit
<1>2. Inv /\ [Next]_vars => Inv'
  BY InvStep
<1> QED
  BY <1>1, <1>2, PTL DEF Spec

\* The types, the limit of the pool, and who waits for it.
THEOREM TypeCorrect == Spec => []TypeOK
<1>1. Inv => TypeOK
  <2> SUFFICES ASSUME Inv PROVE TypeOK
    OBVIOUS
  <2>1. Busy <= maxOpen
    BY BusyIs DEF Inv, PoolLimit
  <2>2. addresses \in [Keys -> AddressRow] /\ nextId \in 1..(MaxId + 1)
        /\ runs \in Seq({"running", "success", "failed"})
        /\ skipped \in Seq([run : Nat, line : Lines])
    BY DEF Inv, TablesInv, TablesOK, IdsBelow, Statuses
  <2>3. \A c \in Clients : client[c].kind
          \in {"none", "addresses", "zipcode", "runs", "skipped", "status"}
    BY DEF Inv, RequestRecord, Kinds, Listings
  <2> QED
    BY <2>1, <2>2, <2>3 DEF Inv, PoolTypes, Asking, TypeOK
<1> QED
  BY <1>1, InvHolds, PTL

\* A walk that is done has missed nothing, if nothing left the listing, and
\* repeats nothing, if nothing came into it either, by whatever kind of write.
THEOREM Walk == Spec => []WalkIsExact
<1>1. Inv => WalkIsExact
  <2> SUFFICES ASSUME Inv, NEW c \in Clients, client[c].done, client[c].kind # "status"
               PROVE  Exact(client[c])
    BY DEF WalkIsExact, Exact, NoRepeats
  <2>1. Here(client[c]) /\ client[c].kind \in Kinds
    BY DEF Inv, RequestsInv, Here, RequestRecord
  <2>2. CASE client[c].kind \in Listings
    BY <2>1, <2>2 DEF Here, RequestOK, Walking, Walks
  <2>3. CASE client[c].kind = "none"
    BY <2>1, <2>3 DEF Here, RequestOK, Walking
  <2> QED
    BY <2>1, <2>2, <2>3 DEF Kinds
<1> QED
  BY <1>1, InvHolds, PTL

\* An idle status names the last success of the runs that had begun.
THEOREM IdleStatus == Spec => []IdleStatusIsCurrent
<1>1. Inv => IdleStatusIsCurrent
  BY DEF Inv, RequestsInv, RequestOK, IdleSeen, IdleStatusIsCurrent
<1> QED
  BY <1>1, InvHolds, PTL

\* The action of UntruncatedIsComplete.
WholeIsComplete ==
    \A c \in Clients :
        LET q == client[c]
        IN  /\ q.kind \in {"addresses", "zipcode"} /\ q.left # <<>> /\ q.seen = <<>>
            /\ client'[c].said = "whole" /\ ~q.grown
            => Elements(client'[c].seen) = Matches(q.match, addresses)

\* A step that answers nothing says nothing.
LEMMA OthersSayNothing ==
    ASSUME Inv, [Next]_vars, NEW c \in Clients, client[c].left # <<>>, ~Read(c)
    PROVE  client'[c].said = "nothing"
<1> DEFINE q == client[c]
<1>1. q \in RequestRecord /\ q.said = "nothing" /\ client \in [Clients -> RequestRecord]
  BY DEF Inv, RequestsInv, RequestOK, Typed
<1>2. ASSUME NEW d \in Clients, Request(d) \/ Read(d) \/ Fails(d), d # c
      PROVE  client'[c] = q
  <2>1. ASSUME NEW n, Asks(d, n) PROVE client'[c] = q
    BY <1>1, <1>2, <2>1 DEF Asks
  <2>2. CASE Leave(d)
    BY <1>1, <1>2, <2>2 DEF Leave
  <2>3. CASE Read(d)
    <3>1. \E n : client' = [client EXCEPT ![d] = n]
      BY ONLY <2>3 DEF Read
    <3> QED
      BY <1>1, <1>2, <3>1
  <2>4. CASE Fails(d)
    <3>1. \E n : client' = [client EXCEPT ![d] = n]
      BY ONLY <2>4 DEF Fails
    <3> QED
      BY <1>1, <1>2, <3>1
  <2> QED
    BY <1>2, <2>1, <2>2, <2>3, <2>4, RequestAsks
<1>3. CASE Fails(c)
  <2>1. client' = [client EXCEPT ![c] = Failed(q)]
    BY ONLY <1>3 DEF Fails, Failed
  <2>2. Failed(q).said = q.said
    BY <1>1 DEF Failed, RequestRecord
  <2> QED
    BY <1>1, <2>1, <2>2
<1>4. ~Request(c)
  <2>1. q.kind # "none"
    BY DEF Inv, RequestsInv, RequestOK, Typed, Lefts
  <2>2. ~AskOn(c) /\ ~Leave(c)
    BY DEF AskOn, Leave
  <2>3. ASSUME NEW kind, NEW match, NEW run PROVE ~Ask(c, kind, match, run)
    BY <2>1 DEF Ask
  <2> QED
    BY <2>2, <2>3 DEF Request
<1>5. ASSUME Noticed PROVE client'[c].said = "nothing"
  <2>1. client'[c] = Seen(q, addresses, runs, skipped, addresses', runs', skipped')
    BY <1>5, NoticedIs
  <2> HIDE DEF q
  <2>2. ASSUME NEW x, NEW y PROVE Noted(q, x, y).said = q.said
    BY <1>1 DEF Noted, RequestRecord
  <2> QED
    BY <1>1, <2>1, <2>2 DEF Seen
<1>6. CASE Run
  <2>1. CASE BeginRun \/ NextStatement \/ StatementFails
    BY <1>1, <2>1 DEF BeginRun, NextStatement, EngineAsks, StatementFails
  <2>2. CASE ~(BeginRun \/ NextStatement \/ StatementFails)
    BY <1>5, <1>6, <2>2 DEF Run, Create, Write, Finish
  <2> QED
    BY <2>1, <2>2
<1>7. CASE Crash
  <2>1. NoRequest.said = "nothing"
    BY ONLY DEF NoRequest
  <2> QED
    BY <1>7, <2>1 DEF Crash
<1>8. CASE (\E a \in Actors : Grant(a)) \/ Start \/ CleanUp \/ UNCHANGED vars
  BY <1>1, <1>8 DEF Grant, Start, CleanUp, vars
<1> QED
  BY <1>1, <1>2, <1>3, <1>4, <1>6, <1>7, <1>8 DEF Next

\* The first page that is said to be whole holds what matches when it is read,
\* unless something came to match since it was counted.
THEOREM Untruncated == Spec => UntruncatedIsComplete
<1>1. Inv /\ [Next]_vars => WholeIsComplete
  <2> SUFFICES ASSUME Inv, [Next]_vars, NEW c \in Clients, client[c].left # <<>>
               PROVE  client'[c].said # "whole" \/ CompleteIfWhole(client[c], client'[c])
    BY DEF WholeIsComplete, CompleteIfWhole
  <2>1. CASE Read(c)
    <3>1. Here(client[c]) /\ TablesInv /\ client \in [Clients -> RequestRecord]
      BY DEF Inv, RequestsInv, Here
    <3>2. CompleteIfWhole(client[c], After(client[c]))
      BY <3>1, ReadStep
    <3>3. client' = [client EXCEPT ![c] = After(client[c])]
      BY ONLY <2>1 DEF Read, After
    <3> QED
      BY <3>1, <3>2, <3>3
  <2>2. CASE ~Read(c)
    BY <2>2, OthersSayNothing
  <2> QED
    BY <2>1, <2>2
<1>2. Spec => [][WholeIsComplete]_vars
  BY <1>1, InvHolds, PTL DEF Spec
<1> QED
  BY <1>2 DEF UntruncatedIsComplete, WholeIsComplete
-----------------------------------------------------------------------------
(* Nobody waits in vain. *)

\* Whoever waits for a connection finds one free, or somebody at work with one;
\* the start-up and its clean-up have the pool to themselves.
PoolNeverStuck ==
    /\ (\E a \in Actors : conn[a] = "waiting") =>
          boot = "up" /\ (Busy < maxOpen \/ \E a \in Actors : conn[a] = "held")
    /\ boot = "down" => Busy = 0
    /\ boot = "tx" => Busy = 1

\* What a request has still to do, at most: for each statement to come, to get a
\* connection and to use it.
RequestLeft(c) == 2 * Len(client[c].left) - (IF conn[c] = "held" THEN 1 ELSE 0)

\* A request at work comes closer to its end with each step of its own, and
\* nobody else's step takes it back.
RequestsAdvance ==
    [][\A c \in Clients :
          /\ client[c].left # <<>>
          /\ client'[c].left # client[c].left \/ conn'[c] # conn[c]
          => RequestLeft(c)' < RequestLeft(c)]_<<client, conn>>

LEMMA PoolServes ==
    ASSUME Inv
    PROVE  PoolNeverStuck
<1>1. Cardinality(Holders(conn)) \in Nat /\ maxOpen \in Nat \ {0}
  BY HoldersCount, ReadPathAssumption DEF Inv, PoolTypes
<1>2. ASSUME \A a \in Actors : conn[a] # "held"
      PROVE  Cardinality(Holders(conn)) = 0
  <2>1. Holders(conn) = {}
    BY <1>2 DEF Holders
  <2> QED
    BY <2>1, FS_EmptySet
<1>3. boot # "up" => \A a \in Actors : conn[a] = "none"
  <2> SUFFICES ASSUME boot # "up", NEW a \in Actors PROVE conn[a] = "none"
    OBVIOUS
  <2>1. engine = "idle" /\ client = [c \in Clients |-> NoRequest] /\ NoRequest.left = <<>>
    BY DEF Inv, Quiet, NoRequest
  <2>2. CASE a \in Clients
    BY <2>1, <2>2 DEF Inv, Asking
  <2>3. CASE a = Engine
    BY <2>1, <2>3 DEF Inv, Asking
  <2> QED
    BY <2>2, <2>3 DEF Actors
<1>4. (\E a \in Actors : conn[a] = "waiting") =>
          boot = "up" /\ (Busy < maxOpen \/ \E a \in Actors : conn[a] = "held")
  BY <1>1, <1>2, <1>3, BusyIs
<1>5. boot = "down" => Busy = 0
  BY <1>2, <1>3, BusyIs
<1>6. boot = "tx" => Busy = 1
  BY <1>2, <1>3, BusyIs
<1> QED
  BY <1>4, <1>5, <1>6 DEF PoolNeverStuck

LEMMA LeftLength ==
    ASSUME NEW q, Typed(q), q.left # <<>>
    PROVE  Len(q.left) \in Nat \ {0} /\ Len(Tail(q.left)) = Len(q.left) - 1
<1> DEFINE Counts(x) == Len(x) \in Nat \ {0} /\ Len(Tail(x)) = Len(x) - 1
<1>1. q.kind \in Kinds /\ q.left \in Lefts(q.kind)
  BY DEF Typed, RequestRecord
<1>2. Counts(<<"page">>) /\ Counts(<<"last">>)
  OBVIOUS
<1>3. Counts(<<"count", "page">>) /\ Counts(<<"token", "page">>)
      /\ Counts(<<"running", "last">>)
  OBVIOUS
<1>4. Counts(<<"token", "count", "page">>) /\ Counts(<<"total", "running", "last">>)
  OBVIOUS
<1>5. Counts(<<"token", "total", "running", "last">>)
  OBVIOUS
<1> HIDE DEF Counts
<1>6. Counts(q.left)
  <2>1. CASE q.kind \in {"addresses", "zipcode"}
    BY <1>1, <1>2, <1>3, <1>4, <2>1, LeftsAre
  <2>2. CASE q.kind \in {"runs", "skipped"}
    BY <1>1, <1>2, <1>3, <2>2, LeftsAre
  <2>3. CASE q.kind = "status"
    BY <1>1, <1>2, <1>3, <1>4, <1>5, <2>3, LeftsAre
  <2>4. CASE q.kind = "none"
    BY <1>1, <2>4, LeftsAre
  <2> QED
    BY <1>1, <2>1, <2>2, <2>3, <2>4, LeftsAre
<1> QED
  BY <1>6 DEF Counts

\* What a step does to a request that is at work.
LEMMA RequestMoves ==
    ASSUME Inv, [Next]_vars, NEW c \in Clients, client[c].left # <<>>
    PROVE  \/ client'[c].left = client[c].left /\ conn'[c] = conn[c]
           \/ /\ client'[c].left = client[c].left
              /\ conn[c] = "waiting" /\ conn'[c] = "held"
           \/ /\ client'[c].left = Tail(client[c].left)
              /\ conn[c] = "held" /\ conn'[c] = "waiting"
           \/ client'[c].left = <<>> /\ conn'[c] = "none"
<1> DEFINE q == client[c]
           Stays == client'[c].left = client[c].left /\ conn'[c] = conn[c]
<1>1. /\ q \in RequestRecord /\ Typed(q) /\ client \in [Clients -> RequestRecord]
      /\ conn \in [Actors -> {"none", "waiting", "held"}] /\ c \in Actors /\ c # Engine
      /\ Engine \in Actors /\ TablesInv
  BY ReadPathAssumption DEF Inv, RequestsInv, RequestOK, Actors, PoolTypes
<1>2. ASSUME NEW d \in Clients, Request(d) \/ Read(d) \/ Fails(d), d # c
      PROVE  Stays
  <2>0. d \in Actors
    BY DEF Actors
  <2>1. ASSUME NEW n, Asks(d, n) PROVE Stays
    BY <1>1, <1>2, <2>0, <2>1 DEF Asks
  <2>2. CASE Leave(d)
    BY <1>1, <1>2, <2>0, <2>2 DEF Leave, poolVars
  <2>3. CASE Read(d) \/ Fails(d)
    <3>1. \E n, v : client' = [client EXCEPT ![d] = n] /\ conn' = [conn EXCEPT ![d] = v]
      BY ONLY <2>3 DEF Read, Fails, Release
    <3> QED
      BY <1>1, <1>2, <2>0, <3>1
  <2> QED
    BY <1>2, <2>1, <2>2, <2>3, RequestAsks
<1>3. CASE Read(c)
  <2>1. AfterStatement(q).left = Tail(q.left)
    BY <1>1, StatementIs
  <2>2. \A p : Answered(p) /\ p \in RequestRecord => Answer(p).left = <<>>
    BY AnswerIs
  <2>3. AfterStatement(q) \in RequestRecord
    BY <1>1, StatementIs
  <2>4. conn[c] = "held"
    BY <1>3 DEF Read
  <2>5. CASE Answered(AfterStatement(q))
    <3>1. client' = [client EXCEPT ![c] = Answer(AfterStatement(q))]
          /\ conn' = [conn EXCEPT ![c] = "none"]
      BY ONLY <1>3, <2>5 DEF Read, Release
    <3> QED
      BY <1>1, <2>2, <2>3, <2>5, <3>1
  <2>6. CASE ~Answered(AfterStatement(q))
    <3>1. client' = [client EXCEPT ![c] = AfterStatement(q)]
          /\ conn' = [conn EXCEPT ![c] = "waiting"]
      BY ONLY <1>3, <2>6 DEF Read
    <3> QED
      BY <1>1, <2>1, <2>4, <3>1
  <2> QED
    BY <2>5, <2>6
<1>4. CASE Fails(c)
  <2>1. client' = [client EXCEPT ![c] = Failed(q)] /\ conn' = [conn EXCEPT ![c] = "none"]
    BY ONLY <1>4 DEF Fails, Failed, Release
  <2>2. Failed(q).left = <<>>
    BY <1>1 DEF Failed, RequestRecord
  <2> QED
    BY <1>1, <2>1, <2>2
<1>5. ~Request(c)
  <2>1. q.kind # "none"
    BY <1>1 DEF Typed, Lefts
  <2>2. ~AskOn(c) /\ ~Leave(c)
    BY DEF AskOn, Leave
  <2>3. ASSUME NEW kind, NEW match, NEW run PROVE ~Ask(c, kind, match, run)
    BY <2>1 DEF Ask
  <2> QED
    BY <2>2, <2>3 DEF Request
<1>6. ASSUME NEW a \in Actors, Grant(a)
      PROVE  Stays \/ (/\ client'[c].left = client[c].left
                       /\ conn[c] = "waiting" /\ conn'[c] = "held")
  BY <1>1, <1>6 DEF Grant
<1>7. CASE Run
  <2>1. CASE BeginRun \/ NextStatement \/ StatementFails
    BY <1>1, <2>1 DEF BeginRun, NextStatement, EngineAsks, StatementFails, Release
  <2>2. CASE ~(BeginRun \/ NextStatement \/ StatementFails)
    <3>1. Noticed /\ conn' = [conn EXCEPT ![Engine] = "none"]
      BY <1>7, <2>2 DEF Run, Create, Write, Finish, Release
    <3>2. client'[c] = Seen(q, addresses, runs, skipped, addresses', runs', skipped')
      BY <3>1, NoticedIs
    <3> HIDE DEF q
    <3>3. ASSUME NEW x, NEW y PROVE Noted(q, x, y).left = q.left
      BY <1>1 DEF Noted, RequestRecord
    <3>4. client'[c].left = q.left
      BY <3>2, <3>3 DEF Seen
    <3> QED
      BY <1>1, <3>1, <3>4 DEF q
  <2> QED
    BY <2>1, <2>2
<1>8. CASE Crash
  <2>1. NoRequest.left = <<>>
    BY ONLY DEF NoRequest
  <2> QED
    BY <1>1, <1>8, <2>1 DEF Crash
<1>9. CASE Start \/ CleanUp \/ UNCHANGED vars
  BY <1>9 DEF Start, CleanUp, vars, poolVars
<1> QED
  BY <1>2, <1>3, <1>4, <1>5, <1>6, <1>7, <1>8, <1>9 DEF Next

LEMMA RequestAdvances ==
    ASSUME Inv, [Next]_vars, NEW c \in Clients, client[c].left # <<>>,
           client'[c].left # client[c].left \/ conn'[c] # conn[c]
    PROVE  RequestLeft(c)' < RequestLeft(c)
<1> DEFINE n == Len(client[c].left)
<1>1. n \in Nat \ {0} /\ Len(Tail(client[c].left)) = n - 1
  BY LeftLength DEF Inv, RequestsInv, RequestOK
<1>2. RequestLeft(c)' = 2 * Len(client'[c].left) - (IF conn'[c] = "held" THEN 1 ELSE 0)
  BY DEF RequestLeft
<1>3. CASE /\ client'[c].left = client[c].left
           /\ conn[c] = "waiting" /\ conn'[c] = "held"
  BY <1>1, <1>2, <1>3 DEF RequestLeft
<1>4. CASE /\ client'[c].left = Tail(client[c].left)
           /\ conn[c] = "held" /\ conn'[c] = "waiting"
  BY <1>1, <1>2, <1>4 DEF RequestLeft
<1>5. CASE client'[c].left = <<>> /\ conn'[c] = "none"
  <2>1. RequestLeft(c)' = 0
    BY <1>2, <1>5
  <2>2. RequestLeft(c) = 2 * n - (IF conn[c] = "held" THEN 1 ELSE 0)
    BY DEF RequestLeft
  <2> HIDE DEF n
  <2> QED
    BY <1>1, <2>1, <2>2
<1> QED
  BY <1>3, <1>4, <1>5, RequestMoves

\* With any pool, a single connection included, nobody waits for a connection
\* that nobody will give back: whoever waits finds one free or in use, and who
\* uses one waits for nothing else.
THEOREM PoolIsServed == Spec => []PoolNeverStuck
<1>1. Inv => PoolNeverStuck
  BY PoolServes
<1> QED
  BY <1>1, InvHolds, PTL

\* A request takes finitely many steps: two for each of its statements, whoever
\* else reads, writes or restarts.  What is left to RequestsEnd is that the
\* steps are taken.
THEOREM RequestsAreFinite ==
    Spec => [](\A c \in Clients : RequestLeft(c) \in Nat) /\ RequestsAdvance
<1>1. Inv => \A c \in Clients : RequestLeft(c) \in Nat
  <2> SUFFICES ASSUME Inv, NEW c \in Clients PROVE RequestLeft(c) \in Nat
    OBVIOUS
  <2>1. CASE client[c].left = <<>>
    BY <2>1 DEF Inv, Asking, RequestLeft
  <2>2. CASE client[c].left # <<>>
    <3>1. Len(client[c].left) \in Nat \ {0}
      BY <2>2, LeftLength DEF Inv, RequestsInv, RequestOK
    <3> QED
      BY <3>1 DEF RequestLeft
  <2> QED
    BY <2>1, <2>2
<1>2. Inv /\ [Next]_vars =>
          [\A c \in Clients :
              /\ client[c].left # <<>>
              /\ client'[c].left # client[c].left \/ conn'[c] # conn[c]
              => RequestLeft(c)' < RequestLeft(c)]_<<client, conn>>
  BY RequestAdvances
<1> QED
  BY <1>1, <1>2, InvHolds, PTL DEF Spec, RequestsAdvance
=============================================================================
