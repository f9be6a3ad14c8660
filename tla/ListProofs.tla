----------------------------- MODULE ListProofs -----------------------------
(* Proofs about lists: what a walk over the pages of Listing may miss and  *)
(* repeat, for every number of rows and every page size, and what the      *)
(* filters of Queries select, for every query.                             *)
EXTENDS ListingInv, Queries, TLAPS, FiniteSetTheorems, SequenceTheorems

-----------------------------------------------------------------------------
\* The order of a list

\* No two rows of R share an id, and none share a place in the order.
Untied(R) == R \subseteq Rows /\ (\A r, s \in R : r.id = s.id => r = s) /\ ~Tied(R)

\* Whatever the list, its order is strict ...
LEMMA BeforeStrict ==
    ASSUME list \in Lists, MaxRows \in Nat, MaxTime \in Nat,
           NEW r \in Rows, NEW s \in Rows, NEW t \in Rows
    PROVE  /\ ~Before(r, r)
           /\ Before(r, s) => ~Before(s, r)
           /\ Before(r, s) /\ Before(s, t) => Before(r, t)
<1>1. r.id \in Nat /\ s.id \in Nat /\ t.id \in Nat /\ r.at \in Nat /\ s.at \in Nat /\ t.at \in Nat
  BY DEF Rows
<1>2. CASE list \in {"accounts", "logs"}
  BY <1>1, <1>2 DEF Before, ByTime
<1>3. CASE list = "roles"
  BY <1>1, <1>3 DEF Before, ByTime
<1>4. CASE list \in ByTime
  BY <1>1, <1>4 DEF Before, ByTime
<1>5. QED
  BY <1>2, <1>3, <1>4 DEF Lists, ByTime

\* ... and total where no rows are tied.
LEMMA BeforeTotal ==
    ASSUME NEW R, Untied(R), NEW r \in R, NEW s \in R, r # s
    PROVE  Before(r, s) \/ Before(s, r)
  BY DEF Untied, Tied

\* A list of rows with ids of their own is finite.
LEMMA RowsFinite ==
    ASSUME MaxRows \in Nat, NEW R, R \subseteq Rows, \A r, s \in R : r.id = s.id => r = s
    PROVE  IsFiniteSet(R)
<1> DEFINE f == [r \in R |-> r.id]
<1>1. f \in Injection(R, 1..MaxRows)
  BY DEF Rows, Injection, IsInjective
<1>2. IsFiniteSet(1..MaxRows)
  BY FS_Interval
<1>3. QED
  BY <1>1, <1>2, FS_Injection

\* There are as many ids as rows.
LEMMA IdsCount ==
    ASSUME NEW R, IsFiniteSet(R), \A r, s \in R : r.id = s.id => r = s
    PROVE  IsFiniteSet(Ids(R)) /\ Cardinality(Ids(R)) = Cardinality(R)
<1> DEFINE f == [r \in R |-> r.id]
<1>1. f \in Bijection(R, Ids(R))
  BY DEF Ids, Bijection, Injection, IsInjective, Surjection
<1>2. QED
  BY <1>1, FS_Bijection DEF ExistsBijection

\* Conversely, rows that are as many as their ids have ids of their own.
LEMMA IdsDistinct ==
    ASSUME NEW R, IsFiniteSet(R), Cardinality(Ids(R)) = Cardinality(R)
    PROVE  \A r, s \in R : r.id = s.id => r = s
<1> DEFINE f == [r \in R |-> r.id]
<1>1. f \in Surjection(R, Ids(R))
  BY DEF Ids, Surjection
<1>2. f \in Injection(R, Ids(R))
  BY <1>1, FS_Surjection
<1>3. QED
  BY <1>2 DEF Injection, IsInjective

-----------------------------------------------------------------------------
\* Positions

\* A position is the number of a row of the list, ...
LEMMA AtRange ==
    ASSUME list \in Lists, MaxRows \in Nat, MaxTime \in Nat,
           NEW R, R \subseteq Rows, IsFiniteSet(R), NEW r \in R
    PROVE  At(R, r) \in 0 .. Cardinality(R) - 1
<1> DEFINE B == {s \in R : Before(s, r)}
<1>1. B \subseteq R /\ r \notin B
  BY BeforeStrict
<1>2. IsFiniteSet(B) /\ Cardinality(B) <= Cardinality(R) /\ Cardinality(B) # Cardinality(R)
  BY <1>1, FS_Subset
<1>3. QED
  BY <1>2, FS_CardinalityType DEF At

\* ... it grows with the order, ...
LEMMA AtMonotone ==
    ASSUME list \in Lists, MaxRows \in Nat, MaxTime \in Nat,
           NEW R, R \subseteq Rows, IsFiniteSet(R), NEW r \in R, NEW s \in R, Before(r, s)
    PROVE  At(R, r) < At(R, s)
<1> DEFINE B == {t \in R : Before(t, r)}
           C == {t \in R : Before(t, s)}
<1>1. B \subseteq C /\ r \in C /\ r \notin B
  BY BeforeStrict
<1>2. IsFiniteSet(C)
  BY FS_Subset
<1>3. Cardinality(B) <= Cardinality(C) /\ Cardinality(B) # Cardinality(C) /\ IsFiniteSet(B)
  BY <1>1, <1>2, FS_Subset
<1>4. QED
  BY <1>2, <1>3, FS_CardinalityType DEF At

\* ... and no two rows share one.
LEMMA AtInjective ==
    ASSUME list \in Lists, MaxRows \in Nat, MaxTime \in Nat,
           NEW R, Untied(R), NEW r \in R, NEW s \in R, At(R, r) = At(R, s)
    PROVE  r = s
<1>1. SUFFICES ASSUME r # s PROVE FALSE
  OBVIOUS
<1>2. IsFiniteSet(R) /\ R \subseteq Rows
  BY RowsFinite DEF Untied
<1>3. At(R, r) \in Nat /\ At(R, s) \in Nat
  BY <1>2, AtRange, FS_CardinalityType
<1>4. At(R, r) < At(R, s) \/ At(R, s) < At(R, r)
  BY <1>1, <1>2, BeforeTotal, AtMonotone
<1>5. QED
  BY <1>3, <1>4

\* An insert moves a row by one position at most, and only back.
LEMMA AtInsert ==
    ASSUME NEW R, IsFiniteSet(R), NEW y, y \notin R, NEW r
    PROVE  At(R \cup {y}, r) = At(R, r) \/ At(R \cup {y}, r) = At(R, r) + 1
<1> DEFINE B == {s \in R : Before(s, r)}
           C == {s \in R \cup {y} : Before(s, r)}
<1>1. C = B \/ C = B \cup {y}
  OBVIOUS
<1>2. IsFiniteSet(B) /\ y \notin B
  BY FS_Subset
<1>3. Cardinality(C) = Cardinality(B) \/ Cardinality(C) = Cardinality(B) + 1
  BY <1>1, <1>2, FS_AddElement
<1>4. QED
  BY <1>3 DEF At

\* A removal moves it by one position at most, and only forward.
LEMMA AtRemove ==
    ASSUME NEW R, IsFiniteSet(R), NEW y \in R, NEW r
    PROVE  At(R, r) = At(R \ {y}, r) \/ At(R, r) = At(R \ {y}, r) + 1
<1>1. IsFiniteSet(R \ {y}) /\ y \notin R \ {y} /\ (R \ {y}) \cup {y} = R
  BY FS_Subset
<1>2. At((R \ {y}) \cup {y}, r) = At(R \ {y}, r) \/ At((R \ {y}) \cup {y}, r) = At(R \ {y}, r) + 1
  BY <1>1, AtInsert
<1>3. QED
  BY <1>1, <1>2

\* What the database returns for a list has each of its rows once, ...
LEMMA SortedAll ==
    ASSUME NEW R, IsFiniteSet(R), NEW s \in Sorted(R)
    PROVE  /\ Cardinality(R) \in Nat /\ s \in Bijection(1..Cardinality(R), R)
           /\ \A i, j \in 1..Cardinality(R) : i < j => ~Before(s[j], s[i])
<1> DEFINE n == Cardinality(R)
<1>1. n \in Nat
  BY FS_CardinalityType
<1>2. /\ s \in [1..n -> R]
      /\ \A i, j \in 1..n : i # j => s[i] # s[j]
      /\ \A i, j \in 1..n : i < j => ~Before(s[j], s[i])
  BY DEF Sorted, SetToSeqs
<1>3. s \in Injection(1..n, R)
  BY <1>2 DEF Injection, IsInjective
<1>4. Cardinality(1..n) = n /\ IsFiniteSet(1..n)
  BY <1>1, FS_Interval
<1>5. s \in Surjection(1..n, R)
  BY <1>1, <1>3, <1>4, FS_Injection
<1>6. QED
  BY <1>1, <1>2, <1>3, <1>5 DEF Bijection

\* ... and, where none are tied, at its position.
LEMMA SortedAt ==
    ASSUME list \in Lists, MaxRows \in Nat, MaxTime \in Nat,
           NEW R, Untied(R), NEW s \in Sorted(R)
    PROVE  \A i \in 1..Cardinality(R) : At(R, s[i]) = i - 1
<1> DEFINE n == Cardinality(R)
<1>1. IsFiniteSet(R) /\ R \subseteq Rows /\ n \in Nat
  BY RowsFinite, FS_CardinalityType DEF Untied
<1>2. /\ s \in [1..n -> R]
      /\ \A i, j \in 1..n : i # j => s[i] # s[j]
      /\ \A i, j \in 1..n : i < j => ~Before(s[j], s[i])
  BY DEF Sorted, SetToSeqs
<1>6. \A r \in R : \E i \in 1..n : s[i] = r
  BY <1>1, SortedAll DEF Bijection, Surjection
<1>7. ASSUME NEW i \in 1..n PROVE At(R, s[i]) = i - 1
  <2> DEFINE B == {t \in R : Before(t, s[i])}
             f == [j \in 1..(i - 1) |-> s[j]]
  <2>1. ASSUME NEW j \in 1..(i - 1) PROVE s[j] \in B
    <3>1. j \in 1..n /\ j < i /\ s[j] # s[i] /\ ~Before(s[i], s[j]) /\ s[j] \in R /\ s[i] \in R
      BY <1>1, <1>2
    <3>2. QED
      BY <3>1, BeforeTotal
  <2>2. ASSUME NEW t \in B PROVE \E j \in 1..(i - 1) : s[j] = t
    <3>1. PICK j \in 1..n : s[j] = t
      BY <1>6
    <3>2. s[i] \in Rows /\ ~Before(s[i], s[i])
      BY <1>1, <1>2, BeforeStrict
    <3>3. j # i /\ ~(i < j)
      BY <1>2, <3>1, <3>2
    <3>4. QED
      BY <1>1, <3>1, <3>3
  <2>3. f \in Bijection(1..(i - 1), B)
    <3>1. f \in [1..(i - 1) -> B]
      BY <2>1
    <3>2. \A j, k \in 1..(i - 1) : f[j] = f[k] => j = k
      BY <1>1, <1>2
    <3>3. \A t \in B : \E j \in 1..(i - 1) : f[j] = t
      BY <2>2
    <3>4. QED
      BY <3>1, <3>2, <3>3 DEF Bijection, Injection, IsInjective, Surjection
  <2>4. IsFiniteSet(1..(i - 1)) /\ Cardinality(1..(i - 1)) = i - 1
    <3>1. i \in Nat /\ i >= 1 /\ i - 1 \in Int
      BY <1>1
    <3>2. /\ IsFiniteSet(1..(i - 1))
          /\ Cardinality(1..(i - 1)) = IF 1 > i - 1 THEN 0 ELSE (i - 1) - 1 + 1
      BY <3>1, FS_Interval
    <3>3. QED
      BY <3>1, <3>2
  <2>5. Cardinality(B) = i - 1
    BY <2>3, <2>4, FS_Bijection DEF ExistsBijection
  <2>6. QED
    BY <2>5 DEF At
<1>8. QED
  BY <1>7

-----------------------------------------------------------------------------
\* Pages

\* The smaller of two numbers.
LEMMA MinOfTwo ==
    ASSUME NEW a \in Int, NEW b \in Int
    PROVE  Min({a, b}) = IF a <= b THEN a ELSE b
<1> DEFINE m == IF a <= b THEN a ELSE b
<1>1. m \in {a, b} /\ \A y \in {a, b} : m <= y
  OBVIOUS
<1>2. \A x \in {a, b} : (\A y \in {a, b} : x <= y) => x = m
  OBVIOUS
<1>3. QED
  BY <1>1, <1>2 DEF Min

\* Where the pages before a page end, and where it does itself.
LEMMA PageBorders ==
    ASSUME NEW p \in Nat \ {0}, NEW l \in Nat
    PROVE  (p - 1) * l \in Nat /\ p * l \in Nat /\ p * l = (p - 1) * l + l
<1>1. PICK k \in Nat : p = k + 1
  OBVIOUS
<1>2. k * l \in Nat
  OBVIOUS
<1>3. (k + 1) * l = k * l + l
  OBVIOUS
<1>4. QED
  BY <1>1, <1>2, <1>3

\* A number of pages of d rows has room for n rows when it is n / d, rounded up.
LEMMA CeilCovers ==
    ASSUME NEW n \in Nat, NEW d \in Nat \ {0}
    PROVE  Ceil(n, d) \in Nat /\ n <= Ceil(n, d) * d
<1> DEFINE q == (n + d - 1) \div d
           r == (n + d - 1) % d
<1>1. n + d - 1 \in Nat
  OBVIOUS
<1>2. q \in Nat /\ r \in 0..(d - 1) /\ n + d - 1 = d * q + r
  BY <1>1
<1>3. d * q = q * d /\ d * q \in Nat
  BY <1>2
<1>4. n <= q * d
  BY <1>2, <1>3
<1>5. QED
  BY <1>2, <1>4 DEF Ceil

\* The rows of R that are on the page the client asks for.
OnPage(R) ==
    {r \in R : page > 0 => (page - 1) * limit <= At(R, r) /\ At(R, r) < page * limit}

\* The page that s gives, which has all rows of R, is a piece of s after k rows.
IsPiece(R, s, k) ==
    \E m \in Nat :
        /\ m <= Cardinality(R) /\ m <= k + limit /\ (m = k + limit \/ m = Cardinality(R))
        /\ PageOf(s) \in Seq(R)
        /\ Len(PageOf(s)) = IF k + 1 <= m THEN m - k ELSE 0
        /\ \A i \in 1..(m - k) : PageOf(s)[i] = s[k + i]

\* A page is a piece of what the database returns.
LEMMA PageSeq ==
    ASSUME page \in Nat \ {0}, limit \in Nat \ {0}, NEW R, IsFiniteSet(R), NEW s \in Sorted(R),
           NEW k, k = (page - 1) * limit
    PROVE  IsPiece(R, s, k)
<1> DEFINE n == Cardinality(R)
           m == IF k + limit <= n THEN k + limit ELSE n
<1>1. n \in Nat /\ s \in [1..n -> R]
  BY SortedAll DEF Bijection, Injection
<1>2. k \in Nat
  BY PageBorders
<1>3. m \in Nat /\ m <= n /\ m <= k + limit /\ (m = k + limit \/ m = n)
  BY <1>1, <1>2
<1>4. Len(s) = n
  BY <1>1
<1>5. PageOf(s) = SubSeq(s, k + 1, m)
  <2>1. Min({k + limit, n}) = m
    BY <1>1, <1>2, MinOfTwo
  <2>2. PageOf(s) = Slice(s, k, limit)
    BY DEF PageOf
  <2>3. QED
    BY <1>4, <2>1, <2>2 DEF Slice
<1> HIDE DEF n, m
<1>6. \A i \in (k + 1)..m : s[i] \in R
  BY <1>1, <1>2, <1>3
<1>7. /\ SubSeq(s, k + 1, m) \in Seq(R)
      /\ Len(SubSeq(s, k + 1, m)) = IF k + 1 <= m THEN m - (k + 1) + 1 ELSE 0
      /\ \A i \in 1..(m - (k + 1) + 1) : SubSeq(s, k + 1, m)[i] = s[(k + 1) + i - 1]
  <2>1. k + 1 \in Int /\ m \in Int
    BY <1>2, <1>3
  <2>2. QED
    BY <1>6, <2>1, SubSeqProperties
<1>8. m - (k + 1) + 1 = m - k /\ \A i \in 1..(m - k) : (k + 1) + i - 1 = k + i
  BY <1>2, <1>3
<1>9. QED
  BY <1>3, <1>5, <1>7, <1>8 DEF n, IsPiece

\* Without a page number the page is the list.
LEMMA WholeList ==
    ASSUME NEW R, IsFiniteSet(R), NEW s \in Sorted(R), page = 0
    PROVE  PageOf(s) \in Seq(R) /\ PageOf(s) \in Bijection(1..Len(PageOf(s)), OnPage(R))
<1>1. PageOf(s) = s /\ OnPage(R) = R
  BY DEF PageOf, OnPage
<1>2. Cardinality(R) \in Nat /\ s \in Bijection(1..Cardinality(R), R)
  BY SortedAll
<1>3. s \in [1..Cardinality(R) -> R]
  BY <1>2 DEF Bijection, Injection
<1>4. s \in Seq(R) /\ Len(s) = Cardinality(R)
  BY <1>2, <1>3
<1>5. QED
  BY <1>1, <1>2, <1>4

\* A page has the rows at its positions, each once.
LEMMA PageHas ==
    ASSUME list \in Lists, MaxRows \in Nat, MaxTime \in Nat,
           page \in Nat \ {0}, limit \in Nat \ {0},
           NEW R, Untied(R), NEW s \in Sorted(R)
    PROVE  PageOf(s) \in Bijection(1..Len(PageOf(s)), OnPage(R))
<1> DEFINE n == Cardinality(R)
           k == (page - 1) * limit
           p == PageOf(s)
<1>1. IsFiniteSet(R) /\ n \in Nat /\ s \in Bijection(1..n, R)
  BY RowsFinite, SortedAll DEF Untied
<1>2. s \in [1..n -> R] /\ (\A i, j \in 1..n : s[i] = s[j] => i = j) /\ \A r \in R : \E i \in 1..n : s[i] = r
  BY <1>1 DEF Bijection, Injection, IsInjective, Surjection
<1>3. \A i \in 1..n : At(R, s[i]) = i - 1
  BY SortedAt
<1>4. k \in Nat /\ page * limit = k + limit /\ k = (page - 1) * limit
  BY PageBorders
<1> HIDE DEF k
<1>5. PICK m \in Nat :
           /\ m <= n /\ m <= k + limit /\ (m = k + limit \/ m = n)
           /\ p \in Seq(R)
           /\ Len(p) = IF k + 1 <= m THEN m - k ELSE 0
           /\ \A i \in 1..(m - k) : p[i] = s[k + i]
  <2>1. IsPiece(R, s, k)
    BY <1>1, <1>4, PageSeq
  <2>2. QED
    BY <2>1 DEF IsPiece
<1> HIDE DEF n, p
<1>6. \A i \in 1..Len(p) : i \in 1..(m - k) /\ k + i \in 1..n /\ k + i <= m /\ p[i] = s[k + i]
  BY <1>1, <1>4, <1>5, LenProperties
<1>7. p \in [1..Len(p) -> OnPage(R)]
  <2>1. ASSUME NEW i \in 1..Len(p) PROVE p[i] \in OnPage(R)
    <3>1. p[i] \in R /\ At(R, p[i]) = (k + i) - 1
      <4>1. k + i \in 1..n /\ p[i] = s[k + i]
        BY <1>6
      <4>2. s[k + i] \in R /\ At(R, s[k + i]) = (k + i) - 1
        BY <1>2, <1>3, <4>1
      <4>3. QED
        BY <4>1, <4>2
    <3>2. k <= (k + i) - 1 /\ (k + i) - 1 < k + limit
      <4>1. i \in 1..(m - k)
        BY <1>6
      <4>2. QED
        BY <1>4, <1>5, <4>1
    <3>3. QED
      BY <1>4, <3>1, <3>2 DEF OnPage, k
  <2>2. QED
    BY <1>5, <2>1, LenProperties
<1>8. \A i, j \in 1..Len(p) : p[i] = p[j] => i = j
  <2>1. SUFFICES ASSUME NEW i \in 1..Len(p), NEW j \in 1..Len(p), p[i] = p[j] PROVE i = j
    OBVIOUS
  <2>2. k + i = k + j
    BY <1>2, <1>6, <2>1
  <2>3. QED
    BY <1>4, <1>5, <2>2
<1>9. \A r \in OnPage(R) : \E i \in 1..Len(p) : p[i] = r
  <2>1. SUFFICES ASSUME NEW r \in OnPage(R) PROVE \E i \in 1..Len(p) : p[i] = r
    OBVIOUS
  <2>2. PICK i \in 1..n : s[i] = r
    BY <1>2 DEF OnPage
  <2>3. k <= i - 1 /\ i - 1 < k + limit
    BY <1>3, <1>4, <2>2 DEF OnPage, k
  <2>4. i - k \in 1..(m - k) /\ i - k \in 1..Len(p) /\ k + (i - k) = i
    BY <1>1, <1>4, <1>5, <2>3
  <2>5. p[i - k] = r
    BY <1>5, <2>2, <2>4
  <2>6. QED
    BY <2>4, <2>5
<1>10. QED
  BY <1>7, <1>8, <1>9 DEF p, Bijection, Injection, IsInjective, Surjection

\* What a page has it counts.
LEMMA PageCount ==
    ASSUME NEW R, NEW Q, NEW p \in Seq(R), p \in Bijection(1..Len(p), Q)
    PROVE  ToSet(p) = Q /\ IsFiniteSet(Q) /\ Cardinality(Q) = Len(p)
<1>1. Len(p) \in Nat /\ DOMAIN p = 1..Len(p)
  BY LenProperties
<1>2. IsFiniteSet(1..Len(p)) /\ Cardinality(1..Len(p)) = Len(p)
  <2>1. /\ IsFiniteSet(1..Len(p))
        /\ Cardinality(1..Len(p)) = IF 1 > Len(p) THEN 0 ELSE Len(p) - 1 + 1
    <3>1. 1 \in Int /\ Len(p) \in Int
      BY <1>1
    <3>2. QED
      BY <3>1, FS_Interval
  <2>2. QED
    BY <1>1, <2>1
<1>3. (\A i \in 1..Len(p) : p[i] \in Q) /\ \A r \in Q : \E i \in 1..Len(p) : p[i] = r
  BY DEF Bijection, Injection, Surjection
<1>4. ToSet(p) = Q
  BY <1>1, <1>3 DEF ToSet
<1>5. QED
  BY <1>2, <1>4, FS_Bijection DEF ExistsBijection

\* What the client has been given once it has the page p.
LEMMA SeenAfter ==
    ASSUME MaxRows \in Nat, seen \in Seq(1..MaxRows),
           NEW R, R \subseteq Rows, NEW p \in Seq(R),
           seen' = seen \o [i \in DOMAIN p |-> p[i].id]
    PROVE  /\ seen' \in Seq(1..MaxRows)
           /\ ToSet(seen') = ToSet(seen) \cup Ids(ToSet(p))
           /\ Len(seen') = Len(seen) + Len(p)
<1> DEFINE q == [i \in DOMAIN p |-> p[i].id]
<1>1. Len(p) \in Nat /\ DOMAIN p = 1..Len(p) /\ \A i \in 1..Len(p) : p[i] \in R /\ p[i].id \in 1..MaxRows
  BY LenProperties DEF Rows
<1>2. q \in Seq(1..MaxRows) /\ Len(q) = Len(p) /\ \A i \in 1..Len(p) : q[i] = p[i].id
  BY <1>1
<1>3. Len(seen) \in Nat /\ DOMAIN seen = 1..Len(seen)
  BY LenProperties
<1> HIDE DEF q
<1>4. /\ seen' \in Seq(1..MaxRows)
      /\ Len(seen') = Len(seen) + Len(p)
      /\ \A i \in 1..(Len(seen) + Len(p)) : seen'[i] = IF i <= Len(seen) THEN seen[i] ELSE q[i - Len(seen)]
  <2>1. seen' = seen \o q
    BY DEF q
  <2>2. /\ seen \o q \in Seq(1..MaxRows)
        /\ Len(seen \o q) = Len(seen) + Len(q)
        /\ \A i \in 1..(Len(seen) + Len(q)) :
              (seen \o q)[i] = IF i <= Len(seen) THEN seen[i] ELSE q[i - Len(seen)]
    BY <1>2, ConcatProperties
  <2>3. QED
    BY <1>2, <2>1, <2>2
<1>5. DOMAIN seen' = 1..(Len(seen) + Len(p))
  BY <1>4, LenProperties
<1>6. ToSet(seen') \subseteq ToSet(seen) \cup Ids(ToSet(p))
  <2>1. SUFFICES ASSUME NEW i \in 1..(Len(seen) + Len(p)) PROVE seen'[i] \in ToSet(seen) \cup Ids(ToSet(p))
    BY <1>5 DEF ToSet
  <2>2. CASE i <= Len(seen)
    <3>1. i \in DOMAIN seen /\ seen'[i] = seen[i]
      BY <1>3, <1>4, <2>2
    <3>2. QED
      BY <3>1 DEF ToSet
  <2>3. CASE ~(i <= Len(seen))
    <3>1. i - Len(seen) \in 1..Len(p)
      BY <1>1, <1>3, <2>3
    <3>2. seen'[i] = q[i - Len(seen)]
      BY <1>4, <2>3
    <3>3. QED
      BY <1>1, <1>2, <3>1, <3>2 DEF Ids, ToSet
  <2>4. QED
    BY <2>2, <2>3
<1>7. ToSet(seen) \subseteq ToSet(seen')
  <2>1. \A i \in 1..Len(seen) : i \in 1..(Len(seen) + Len(p)) /\ seen'[i] = seen[i]
    BY <1>1, <1>3, <1>4
  <2>2. QED
    BY <1>3, <1>5, <2>1 DEF ToSet
<1>8. Ids(ToSet(p)) \subseteq ToSet(seen')
  <2>1. SUFFICES ASSUME NEW i \in 1..Len(p) PROVE p[i].id \in ToSet(seen')
    BY <1>1 DEF Ids, ToSet
  <2>2. Len(seen) + i \in 1..(Len(seen) + Len(p)) /\ ~(Len(seen) + i <= Len(seen)) /\ (Len(seen) + i) - Len(seen) = i
    BY <1>1, <1>3
  <2>3. seen'[Len(seen) + i] = p[i].id
    BY <1>2, <1>4, <2>2
  <2>4. QED
    BY <1>5, <2>2, <2>3 DEF ToSet
<1>9. QED
  BY <1>4, <1>6, <1>7, <1>8

-----------------------------------------------------------------------------
\* What every step may count on

\* The types and the ids in the form in which the lemmas above ask for them.
LEMMA Setting ==
    ASSUME TypeOK, IdsInv
    PROVE  /\ list \in Lists /\ limit \in Nat \ {0} /\ page \in Nat
           /\ MaxRows \in Nat /\ MaxTime \in Nat
           /\ IsFiniteSet(rows) /\ Cardinality(rows) \in Nat
           /\ ~tied => Untied(rows)
<1>1. IsFiniteSet(rows)
  BY RowsFinite, BoundsAssumption DEF TypeOK, IdsInv
<1>2. QED
  BY <1>1, FS_CardinalityType, BoundsAssumption DEF TypeOK, IdsInv, Untied

\* Sets of ids are finite, and so is what the client has been given.
LEMMA IdsFinite ==
    ASSUME TypeOK, NEW S, S \subseteq 1..MaxRows
    PROVE  IsFiniteSet(S) /\ Cardinality(S) \in Nat
<1>1. IsFiniteSet(1..MaxRows)
  BY FS_Interval, BoundsAssumption
<1>2. QED
  BY <1>1, FS_Subset, FS_CardinalityType

\* A list keeps its order.
LEMMA OrderKept ==
    ASSUME list' = list
    PROVE  /\ Rows' = Rows /\ (Tied(rows)' <=> Tied(rows'))
           /\ \A r : At(rows, r)' = At(rows', r)
<1>1. \A r, s : Before(r, s)' <=> Before(r, s)
  BY DEF Before
<1>2. Rows' = Rows
  BY DEF Rows
<1>3. Tied(rows)' <=> Tied(rows')
  BY <1>1 DEF Tied
<1>4. ASSUME NEW r PROVE At(rows, r)' = At(rows', r)
  BY DEF At, Before
<1>5. QED
  BY <1>2, <1>3, <1>4

\* The page p that a findMany gives to the client.
Given(p) ==
    /\ seen' \in Seq(1..MaxRows)
    /\ ToSet(seen') = ToSet(seen) \cup Ids(ToSet(p))
    /\ Len(seen') = Len(seen) + Len(p)
    /\ ToSet(p) \subseteq rows
    /\ page = 0 \/ ~tied => /\ ToSet(p) = OnPage(rows)
                            /\ IsFiniteSet(OnPage(rows))
                            /\ Cardinality(OnPage(rows)) = Len(p)

\* It is the page that was asked for, unless the order leaves it open.
LEMMA FindGives ==
    ASSUME TypeOK, IdsInv, Find
    PROVE  \E p \in Seq(rows) : Given(p)
<1>1. PICK s \in Sorted(rows) : seen' = seen \o [i \in DOMAIN PageOf(s) |-> PageOf(s)[i].id]
  BY DEF Find
<1>2. list \in Lists /\ limit \in Nat \ {0} /\ page \in Nat /\ MaxRows \in Nat /\ MaxTime \in Nat /\ IsFiniteSet(rows)
  BY Setting
<1> DEFINE p == PageOf(s)
<1>3. p \in Seq(rows)
  <2>1. CASE page = 0
    BY <1>2, <2>1, WholeList
  <2>2. CASE page # 0
    <3>1. IsPiece(rows, s, (page - 1) * limit)
      BY <1>2, <2>2, PageSeq
    <3>2. QED
      BY <3>1 DEF IsPiece
  <2>3. QED
    BY <2>1, <2>2
<1>4. page = 0 \/ ~tied => p \in Bijection(1..Len(p), OnPage(rows))
  <2>1. CASE page = 0
    BY <1>2, <2>1, WholeList
  <2>2. CASE page # 0 /\ ~tied
    BY <1>2, <2>2, Setting, PageHas
  <2>3. QED
    BY <2>1, <2>2
<1> HIDE DEF p
<1>5. seen' = seen \o [i \in DOMAIN p |-> p[i].id]
  BY <1>1 DEF p
<1>6. /\ seen' \in Seq(1..MaxRows)
      /\ ToSet(seen') = ToSet(seen) \cup Ids(ToSet(p))
      /\ Len(seen') = Len(seen) + Len(p)
  BY <1>2, <1>3, <1>5, SeenAfter DEF TypeOK
<1>7. ToSet(p) \subseteq rows
  BY <1>3, LenProperties DEF ToSet
<1>8. page = 0 \/ ~tied => /\ ToSet(p) = OnPage(rows)
                           /\ IsFiniteSet(OnPage(rows))
                           /\ Cardinality(OnPage(rows)) = Len(p)
  BY <1>3, <1>4, PageCount
<1>9. Given(p)
  BY <1>6, <1>7, <1>8 DEF Given
<1>10. QED
  BY <1>3, <1>9

-----------------------------------------------------------------------------
\* Type correctness

\* Every step of the client and of the other callers keeps the types.
LEMMA NextTypeOK == TypeOK /\ IdsInv /\ [Next]_vars => TypeOK'
<1> SUFFICES ASSUME TypeOK, IdsInv, [Next]_vars PROVE TypeOK'
  OBVIOUS
<1>1. CASE Count
  <2>1. TotalPage(Cardinality(rows)) \in Nat
    BY Setting, CeilCovers DEF TotalPage
  <2>2. Rows' = Rows
    BY <1>1, OrderKept DEF Count, walk
  <2>3. QED
    BY <1>1, <2>1, <2>2 DEF TypeOK, Count, walk
<1>2. CASE Find
  <2>1. seen' \in Seq(1..MaxRows)
    BY <1>2, FindGives DEF Given
  <2>2. Rows' = Rows
    BY <1>2, OrderKept DEF Find
  <2>3. QED
    BY <1>2, <2>1, <2>2 DEF TypeOK, Find
<1>3. CASE Insertion
  <2>1. Rows' = Rows
    BY <1>3, OrderKept DEF Insertion, walk
  <2>2. \A r \in Rows : r.id \in 1..MaxRows
    BY DEF Rows
  <2>3. QED
    BY <1>3, <2>1, <2>2 DEF TypeOK, Insertion, walk
<1>4. CASE Removal
  <2>1. Rows' = Rows
    BY <1>4, OrderKept DEF Removal, walk
  <2>2. \A r \in rows : r.id \in 1..MaxRows
    BY DEF TypeOK, Rows
  <2>3. QED
    BY <1>4, <2>1, <2>2 DEF TypeOK, Removal, walk
<1>5. CASE UNCHANGED vars
  BY <1>5 DEF TypeOK, vars, walk, Rows
<1>6. QED
  BY <1>1, <1>2, <1>3, <1>4, <1>5 DEF Next

\* Ids stay unique, and the list what was inserted and not removed.
LEMMA NextIdsInv == TypeOK /\ IdsInv /\ [Next]_vars => IdsInv'
<1> SUFFICES ASSUME TypeOK, IdsInv, [Next]_vars PROVE IdsInv'
  OBVIOUS
<1>0. list' = list
  BY DEF Next, vars, walk, Count, Find, Insertion, Removal
<1>1. CASE Count
  BY <1>0, <1>1, OrderKept DEF IdsInv, Count, walk, Ids, ToSet
<1>2. CASE Find
  <2>1. PICK p \in Seq(rows) : Given(p)
    BY <1>2, FindGives
  <2>2. ToSet(seen)' \subseteq met \cup inserts
    <3>1. Ids(ToSet(p)) \subseteq Ids(rows)
      BY <2>1 DEF Given, Ids
    <3>2. ToSet(seen)' = ToSet(seen')
      BY DEF ToSet
    <3>3. QED
      BY <2>1, <3>1, <3>2 DEF Given, IdsInv
  <2>3. QED
    BY <1>0, <1>2, <2>2, OrderKept DEF IdsInv, Find, Ids
<1>3. CASE Insertion
  <2>1. PICK r \in Rows :
           /\ r.id \notin met \cup inserts
           /\ rows' = rows \cup {r}
           /\ inserts' = inserts \cup {r.id}
           /\ late' = late \cup {r.id}
           /\ tied' = (tied \/ Tied(rows'))
    BY <1>3 DEF Insertion
  <2>2. UNCHANGED <<met, seen, removes>>
    BY <1>3 DEF Insertion, walk
  <2>3. r.id \notin Ids(rows) /\ r.id \notin removes /\ Ids(rows)' = Ids(rows) \cup {r.id}
    BY <2>1 DEF IdsInv, Ids
  <2>4. \A s, t \in rows' : s.id = t.id => s = t
    BY <2>1, <2>3 DEF IdsInv, Ids
  <2>5. Tied(rows)' => tied'
    BY <1>0, <2>1, OrderKept
  <2>6. Ids(rows)' = (met' \cup inserts') \ removes'
    BY <2>1, <2>2, <2>3 DEF IdsInv
  <2>7. ToSet(seen)' \subseteq met' \cup inserts' /\ removes' \subseteq met' \cup inserts'
    BY <2>1, <2>2 DEF IdsInv, ToSet
  <2>8. late' \subseteq inserts' /\ inserts' \cap met' = {}
    BY <2>1, <2>2 DEF IdsInv
  <2>9. QED
    BY <2>4, <2>5, <2>6, <2>7, <2>8 DEF IdsInv
<1>4. CASE Removal
  <2>1. PICK r \in rows : rows' = rows \ {r} /\ removes' = removes \cup {r.id}
    BY <1>4 DEF Removal
  <2>2. UNCHANGED <<met, seen, inserts, late, tied>>
    BY <1>4 DEF Removal, walk
  <2>3. Ids(rows)' = Ids(rows) \ {r.id} /\ r.id \in Ids(rows)
    BY <2>1 DEF IdsInv, Ids
  <2>4. Tied(rows)' => Tied(rows)
    BY <1>0, <2>1, OrderKept DEF Tied
  <2>5. QED
    BY <2>1, <2>2, <2>3, <2>4 DEF IdsInv, ToSet
<1>5. CASE UNCHANGED vars
  BY <1>0, <1>5, OrderKept DEF IdsInv, vars, walk, Ids, ToSet
<1>6. QED
  BY <1>1, <1>2, <1>3, <1>4, <1>5 DEF Next

-----------------------------------------------------------------------------
\* What a walk has gone past, and what it will meet again

\* The two sets after a step, by the order they already have.
LEMMA SetsAfter ==
    ASSUME list' = list
    PROVE  /\ Skipped' = {r \in rows' : r.id \in met' \ ToSet(seen') /\ At(rows', r) < Passed'}
           /\ Ahead' = {r \in rows' : r.id \in ToSet(seen') /\ At(rows', r) >= Passed'}
<1>1. \A r : At(rows, r)' = At(rows', r)
  BY OrderKept
<1>2. ToSet(seen)' = ToSet(seen')
  BY DEF ToSet
<1>3. QED
  BY <1>1, <1>2 DEF Skipped, Ahead

\* A step that leaves the rows, the page and what was given leaves them.
LEMMA SetsStay ==
    ASSUME list' = list, UNCHANGED <<limit, page, rows, met, seen>>, Passed' = Passed
    PROVE  Skipped' = Skipped /\ Ahead' = Ahead
<1>1. QED
  BY SetsAfter DEF Skipped, Ahead

\* Where the pages before the next one end.
LEMMA PassedNat ==
    ASSUME TypeOK, IdsInv, page > 0
    PROVE  /\ Passed \in Nat
           /\ pc # "done" => Passed = (page - 1) * limit
           /\ page * limit \in Nat /\ page * limit = (page - 1) * limit + limit
<1>1. page \in Nat \ {0} /\ limit \in Nat \ {0}
  BY Setting
<1>2. (page - 1) * limit \in Nat /\ page * limit \in Nat /\ page * limit = (page - 1) * limit + limit
  BY <1>1, PageBorders
<1>3. QED
  BY <1>2 DEF Passed

\* Only a findMany moves them, by one page.
LEMMA PassedAfter ==
    ASSUME TypeOK, IdsInv, page > 0
    PROVE  /\ Find => Passed' = page * limit /\ page' > 0
           /\ Count \/ Insertion \/ Removal \/ UNCHANGED vars => Passed' = Passed
<1>1. page \in Nat \ {0} /\ limit \in Nat \ {0}
  BY Setting
<1>2. ASSUME Find PROVE Passed' = page * limit /\ page' > 0
  <2>1. CASE page < total
    <3>1. page' = page + 1 /\ pc' = "count" /\ limit' = limit
      BY <1>1, <1>2, <2>1 DEF Find
    <3>2. page' - 1 = page /\ page' > 0
      BY <1>1, <3>1
    <3>3. QED
      BY <3>1, <3>2 DEF Passed
  <2>2. CASE ~(page < total)
    BY <1>1, <1>2, <2>2 DEF Find, Passed
  <2>3. QED
    BY <2>1, <2>2
<1>3. ASSUME Count \/ Insertion \/ Removal \/ UNCHANGED vars PROVE Passed' = Passed
  BY <1>3 DEF Count, Insertion, Removal, vars, walk, Passed
<1>4. QED
  BY <1>2, <1>3

\* A walk by pages stays one, and what was tied stays noted.
LEMMA StillWalked ==
    ASSUME TypeOK, [Next]_vars, page' > 0, ~tied'
    PROVE  page > 0 /\ ~tied
<1>1. page > 0
  <2>1. page' = page \/ page > 0
    BY DEF Next, vars, walk, Count, Find, Insertion, Removal
  <2>2. QED
    BY <2>1
<1>2. CASE Insertion
  BY <1>1, <1>2 DEF Insertion
<1>3. CASE ~Insertion
  BY <1>1, <1>3 DEF Next, vars, walk, Count, Find, Removal
<1>4. QED
  BY <1>2, <1>3

\* One position holds one row at most.
LEMMA OneMore ==
    ASSUME TypeOK, IdsInv, ~tied, NEW n, NEW S, S \subseteq rows,
           NEW T, T \subseteq S \cup {r \in rows : At(rows, r) = n}
    PROVE  /\ IsFiniteSet(S) /\ Cardinality(S) \in Nat
           /\ IsFiniteSet(T) /\ Cardinality(T) \in Nat /\ Cardinality(T) <= Cardinality(S) + 1
<1> DEFINE D == {r \in rows : At(rows, r) = n}
<1>1. IsFiniteSet(rows) /\ Untied(rows) /\ list \in Lists /\ MaxRows \in Nat /\ MaxTime \in Nat
  BY Setting
<1>2. IsFiniteSet(S) /\ Cardinality(S) \in Nat
  BY <1>1, FS_Subset, FS_CardinalityType
<1>3. \E x : S \cup D \subseteq S \cup {x}
  <2>1. CASE D = {}
    BY <2>1
  <2>2. CASE D # {}
    <3>1. PICK x \in D : TRUE
      BY <2>2
    <3>2. \A r \in D : r = x
      BY <1>1, <3>1, AtInjective
    <3>3. QED
      BY <3>2
  <2>3. QED
    BY <2>1, <2>2
<1>4. PICK x : T \subseteq S \cup {x}
  BY <1>3
<1>5. IsFiniteSet(S \cup {x}) /\ Cardinality(S \cup {x}) <= Cardinality(S) + 1 /\ Cardinality(S \cup {x}) \in Nat
  BY <1>2, FS_AddElement, FS_CardinalityType
<1>6. IsFiniteSet(T) /\ Cardinality(T) <= Cardinality(S \cup {x}) /\ Cardinality(T) \in Nat
  BY <1>4, <1>5, FS_Subset, FS_CardinalityType
<1>7. QED
  BY <1>2, <1>5, <1>6

\* A subset of the rows is finite and counts less.
LEMMA Fewer ==
    ASSUME TypeOK, IdsInv, NEW S, S \subseteq rows, NEW T, T \subseteq S
    PROVE  /\ IsFiniteSet(S) /\ Cardinality(S) \in Nat
           /\ IsFiniteSet(T) /\ Cardinality(T) \in Nat /\ Cardinality(T) <= Cardinality(S)
<1>1. IsFiniteSet(rows)
  BY Setting
<1>2. IsFiniteSet(S)
  BY <1>1, FS_Subset
<1>3. QED
  BY <1>2, FS_Subset, FS_CardinalityType

\* An id that is new is one more.
LEMMA IdMore ==
    ASSUME TypeOK, NEW S, S \subseteq 1..MaxRows, NEW i, i \notin S
    PROVE  Cardinality(S) \in Nat /\ Cardinality(S \cup {i}) = Cardinality(S) + 1
  BY IdsFinite, FS_AddElement

-----------------------------------------------------------------------------
\* The parts of the invariant

\* The list that is asked for at once is given at once.
LEMMA NextAllInv == TypeOK /\ IdsInv /\ AllInv /\ [Next]_vars => AllInv'
<1> SUFFICES ASSUME TypeOK, IdsInv, AllInv, [Next]_vars PROVE AllInv'
  OBVIOUS
<1>1. CASE Count
  BY <1>1 DEF AllInv, Count, walk
<1>2. CASE Find
  <2>1. CASE page # 0
    <3>1. page' # 0
      BY <1>2, <2>1 DEF Find, TypeOK
    <3>2. QED
      BY <3>1 DEF AllInv
  <2>2. CASE page = 0
    <3>1. pc' = "done" /\ page' = 0 /\ pc # "done" /\ UNCHANGED <<met, removes>>
      BY <1>2, <2>2 DEF Find
    <3>2. PICK p \in Seq(rows) : Given(p)
      BY <1>2, FindGives
    <3>3. seen = <<>>
      BY <2>2, <3>1 DEF AllInv
    <3>4. OnPage(rows) = rows /\ Len(p) = Cardinality(rows)
      <4>1. OnPage(rows) = rows
        BY <2>2 DEF OnPage
      <4>2. QED
        BY <2>2, <3>2, <4>1 DEF Given
    <3>5. ToSet(seen') = Ids(rows) /\ Len(seen') = Cardinality(rows)
      <4>1. ToSet(seen) = {} /\ Len(seen) = 0
        BY <3>3 DEF ToSet
      <4>2. QED
        BY <2>2, <3>2, <3>4, <4>1, Setting DEF Given
    <3>6. Cardinality(Ids(rows)) = Cardinality(rows) /\ Cardinality(rows) \in Nat
      BY IdsCount, Setting DEF IdsInv
    <3>7. ToSet(seen)' = ToSet(seen')
      BY DEF ToSet
    <3>8. Missed' = {}
      BY <3>1, <3>5, <3>7 DEF Missed, IdsInv
    <3>9. Repeats' = 0
      BY <3>5, <3>6, <3>7 DEF Repeats
    <3>10. QED
      BY <3>1, <3>8, <3>9 DEF AllInv
  <2>3. QED
    BY <2>1, <2>2
<1>3. CASE Insertion
  BY <1>3 DEF AllInv, Insertion, walk
<1>4. CASE Removal
  BY <1>4 DEF AllInv, Removal, walk
<1>5. CASE UNCHANGED vars
  BY <1>5 DEF AllInv, vars, walk, Missed, Repeats, ToSet
<1>6. QED
  BY <1>1, <1>2, <1>3, <1>4, <1>5 DEF Next

\* The walk goes past one row more for every removal, at most.
LEMMA NextSkippedInv == TypeOK /\ IdsInv /\ SkippedInv /\ [Next]_vars => SkippedInv'
<1> SUFFICES ASSUME TypeOK, IdsInv, SkippedInv, [Next]_vars, page' > 0, ~tied'
             PROVE  Cardinality(Skipped') <= Cardinality(removes')
  BY DEF SkippedInv
<1>1. list' = list /\ limit' = limit /\ met' = met
  BY DEF Next, vars, walk, Count, Find, Insertion, Removal
<1>2. page > 0 /\ ~tied
  BY StillWalked
<1>3. Cardinality(Skipped) <= Cardinality(removes) /\ Skipped \subseteq rows
  BY <1>2 DEF SkippedInv, Skipped
<1>4. Cardinality(removes) \in Nat
  BY IdsFinite DEF TypeOK
<1>5. /\ list \in Lists /\ MaxRows \in Nat /\ MaxTime \in Nat /\ IsFiniteSet(rows)
      /\ \A r \in rows : At(rows, r) \in Nat
  BY Setting, AtRange DEF TypeOK
<1>6. CASE Count \/ UNCHANGED vars
  <2>1. Skipped' = Skipped /\ removes' = removes
    BY <1>1, <1>2, <1>6, PassedAfter, SetsStay DEF Count, vars, walk
  <2>2. QED
    BY <1>3, <2>1
<1>7. CASE Find
  <2>1. PICK p \in Seq(rows) : Given(p)
    BY <1>7, FindGives
  <2>2. ToSet(seen') = ToSet(seen) \cup Ids(OnPage(rows))
    BY <1>2, <2>1 DEF Given
  <2>3. Passed' = page * limit /\ Passed = (page - 1) * limit /\ Passed \in Nat
    BY <1>2, <1>7, PassedAfter, PassedNat DEF Find
  <2>4. rows' = rows /\ removes' = removes
    BY <1>7 DEF Find
  <2>5. Skipped' \subseteq Skipped
    <3>1. SUFFICES ASSUME NEW r \in rows, r.id \in met \ ToSet(seen'), At(rows, r) < page * limit
                   PROVE  r \in Skipped
      BY <1>1, <2>3, <2>4, SetsAfter
    <3>2. r \notin OnPage(rows)
      BY <2>2, <3>1 DEF Ids
    <3>3. At(rows, r) < Passed
      BY <1>5, <2>3, <3>1, <3>2 DEF OnPage
    <3>4. QED
      BY <2>2, <3>1, <3>3 DEF Skipped
  <2>6. QED
    BY <1>3, <1>4, <2>4, <2>5, Fewer
<1>8. CASE Insertion
  <2>1. PICK y \in Rows : y.id \notin met \cup inserts /\ rows' = rows \cup {y}
    BY <1>8 DEF Insertion
  <2>2. seen' = seen /\ removes' = removes /\ Passed' = Passed /\ Passed \in Nat
    BY <1>2, <1>8, PassedAfter, PassedNat DEF Insertion, walk
  <2>3. Skipped' \subseteq Skipped
    <3>1. SUFFICES ASSUME NEW r \in rows', r.id \in met \ ToSet(seen), At(rows', r) < Passed
                   PROVE  r \in Skipped
      BY <1>1, <2>2, SetsAfter
    <3>2. r \in rows /\ y \notin rows
      BY <2>1, <3>1 DEF IdsInv, Ids
    <3>3. At(rows', r) = At(rows, r) \/ At(rows', r) = At(rows, r) + 1
      BY <1>5, <2>1, <3>2, AtInsert
    <3>4. At(rows, r) < Passed
      BY <1>5, <2>2, <3>1, <3>2, <3>3
    <3>5. QED
      BY <3>1, <3>2, <3>4 DEF Skipped
  <2>4. QED
    BY <1>3, <1>4, <2>2, <2>3, Fewer
<1>9. CASE Removal
  <2>1. PICK y \in rows : rows' = rows \ {y} /\ removes' = removes \cup {y.id}
    BY <1>9 DEF Removal
  <2>2. seen' = seen /\ Passed' = Passed /\ Passed \in Nat
    BY <1>2, <1>9, PassedAfter, PassedNat DEF Removal, walk
  <2>3. Skipped' \subseteq Skipped \cup {r \in rows : At(rows, r) = Passed}
    <3>1. SUFFICES ASSUME NEW r \in rows', r.id \in met \ ToSet(seen), At(rows', r) < Passed,
                          At(rows, r) # Passed
                   PROVE  r \in Skipped
      BY <1>1, <2>1, <2>2, SetsAfter
    <3>2. At(rows, r) = At(rows', r) \/ At(rows, r) = At(rows', r) + 1
      BY <1>5, <2>1, AtRemove
    <3>3. At(rows', r) \in Nat
      <4>1. IsFiniteSet(rows') /\ rows' \subseteq Rows
        BY <1>5, <2>1, FS_Subset DEF TypeOK
      <4>2. At(rows', r) \in 0 .. Cardinality(rows') - 1
        BY <1>5, <4>1, AtRange
      <4>3. QED
        BY <4>1, <4>2, FS_CardinalityType
    <3>4. At(rows, r) < Passed
      BY <1>5, <2>2, <3>1, <3>2, <3>3
    <3>5. QED
      BY <2>1, <3>1, <3>4 DEF Skipped
  <2>4. Cardinality(Skipped') <= Cardinality(Skipped) + 1 /\ Cardinality(Skipped') \in Nat /\ Cardinality(Skipped) \in Nat
    BY <1>2, <1>3, <2>3, OneMore
  <2>5. Cardinality(removes') = Cardinality(removes) + 1
    <3>1. y.id \notin removes /\ removes \subseteq 1..MaxRows
      BY <2>1 DEF IdsInv, Ids, TypeOK
    <3>2. QED
      BY <2>1, <3>1, IdMore
  <2>6. QED
    BY <1>3, <1>4, <2>4, <2>5
<1>10. QED
  BY <1>6, <1>7, <1>8, <1>9 DEF Next

\* The walk meets again one row more for every insert, at most.
LEMMA NextAheadInv == TypeOK /\ IdsInv /\ AheadInv /\ [Next]_vars => AheadInv'
<1> SUFFICES ASSUME TypeOK, IdsInv, AheadInv, [Next]_vars, page' > 0, ~tied'
             PROVE  Repeats' + Cardinality(Ahead') <= Cardinality(inserts')
  BY DEF AheadInv
<1>1. list' = list /\ limit' = limit
  BY DEF Next, vars, walk, Count, Find, Insertion, Removal
<1>2. page > 0 /\ ~tied
  BY StillWalked
<1>3. Repeats + Cardinality(Ahead) <= Cardinality(inserts) /\ Ahead \subseteq rows
  BY <1>2 DEF AheadInv, Ahead
<1>4. Cardinality(inserts) \in Nat
  BY IdsFinite DEF TypeOK
<1>5. /\ list \in Lists /\ MaxRows \in Nat /\ MaxTime \in Nat /\ IsFiniteSet(rows)
      /\ \A r \in rows : At(rows, r) \in Nat
  BY Setting, AtRange DEF TypeOK
<1>6. Repeats \in Int /\ IsFiniteSet(ToSet(seen)) /\ Cardinality(ToSet(seen)) \in Nat /\ Len(seen) \in Nat
  <2>1. ToSet(seen) \subseteq 1..MaxRows
    BY DEF IdsInv, TypeOK
  <2>2. Len(seen) \in Nat
    BY LenProperties DEF TypeOK
  <2>3. QED
    BY <2>1, <2>2, IdsFinite DEF Repeats
<1>7. seen' = seen => Repeats' = Repeats
  BY DEF Repeats, ToSet
<1>8. CASE Count \/ UNCHANGED vars
  <2>1. Ahead' = Ahead /\ inserts' = inserts /\ Repeats' = Repeats
    BY <1>1, <1>2, <1>7, <1>8, PassedAfter, SetsStay DEF Count, vars, walk
  <2>2. QED
    BY <1>3, <2>1
<1>9. CASE Find
  <2> DEFINE Q == OnPage(rows)
             I == {r \in Q : r.id \in ToSet(seen)}
  <2>1. PICK p \in Seq(rows) : Given(p)
    BY <1>9, FindGives
  <2>2. /\ ToSet(seen') = ToSet(seen) \cup Ids(Q) /\ Len(seen') = Len(seen) + Len(p)
        /\ IsFiniteSet(Q) /\ Cardinality(Q) = Len(p) /\ Len(p) \in Nat
    BY <1>2, <2>1, LenProperties DEF Given
  <2>3. /\ Passed' = page * limit /\ Passed = (page - 1) * limit /\ Passed \in Nat
        /\ page * limit \in Nat /\ Passed <= page * limit
    <3>1. Passed' = page * limit
      BY <1>2, <1>9, PassedAfter
    <3>2. Passed = (page - 1) * limit
      BY <1>2, <1>9, PassedNat DEF Find
    <3>3. Passed \in Nat /\ page * limit \in Nat /\ page * limit = (page - 1) * limit + limit /\ limit \in Nat
      BY <1>2, PassedNat, Setting
    <3>4. Passed <= page * limit
      BY <3>2, <3>3
    <3>5. QED
      BY <3>1, <3>2, <3>3, <3>4
  <2>4. rows' = rows /\ inserts' = inserts
    BY <1>9 DEF Find
  <2>5. Q \subseteq rows /\ \A r \in Q : Passed <= At(rows, r) /\ At(rows, r) < page * limit
    BY <1>2, <2>3 DEF OnPage
  <2>6. Ahead' \subseteq Ahead /\ Ahead' \cap I = {}
    <3>1. SUFFICES ASSUME NEW r \in rows, r.id \in ToSet(seen'), At(rows, r) >= page * limit
                   PROVE  r \in Ahead /\ r \notin I
      BY <1>1, <2>3, <2>4, SetsAfter
    <3>2. r \notin Q
      BY <1>5, <2>3, <2>5, <3>1
    <3>3. r.id \notin Ids(Q)
      BY <2>5, <3>1, <3>2 DEF IdsInv, Ids
    <3>4. At(rows, r) >= Passed
      BY <1>5, <2>3, <3>1
    <3>5. QED
      BY <2>2, <3>1, <3>2, <3>3, <3>4 DEF Ahead
  <2> HIDE DEF Q
  <2>7. I \subseteq Ahead
    BY <1>5, <2>3, <2>5 DEF Ahead
  <2>8. /\ IsFiniteSet(Ahead') /\ IsFiniteSet(I) /\ Cardinality(Ahead') \in Nat
        /\ Cardinality(I) \in Nat /\ Cardinality(Ahead) \in Nat
    BY <1>3, <2>6, <2>7, Fewer
  <2>9. Cardinality(Ahead') + Cardinality(I) <= Cardinality(Ahead)
    <3>1. Cardinality(Ahead' \cup I) = Cardinality(Ahead') + Cardinality(I) - Cardinality(Ahead' \cap I)
      BY <2>8, FS_Union
    <3>2. Cardinality(Ahead' \cap I) = 0
      BY <2>6, FS_EmptySet
    <3>3. Cardinality(Ahead' \cup I) <= Cardinality(Ahead)
      BY <1>3, <2>6, <2>7, Fewer
    <3>4. QED
      BY <2>8, <3>1, <3>2, <3>3
  <2>10. IsFiniteSet(Ids(Q)) /\ Cardinality(Ids(Q)) = Len(p)
    BY <2>2, <2>5, IdsCount DEF IdsInv
  <2>11. Cardinality(ToSet(seen) \cap Ids(Q)) = Cardinality(I)
    <3>1. ToSet(seen) \cap Ids(Q) = Ids(I)
      BY DEF Ids
    <3>2. QED
      BY <2>5, <2>8, <3>1, IdsCount DEF IdsInv
  <2>12. Cardinality(ToSet(seen')) = Cardinality(ToSet(seen)) + Len(p) - Cardinality(I)
    BY <1>6, <2>2, <2>10, <2>11, FS_Union
  <2>13. Repeats' = Repeats + Cardinality(I)
    <3>1. ToSet(seen)' = ToSet(seen')
      BY DEF ToSet
    <3>2. Repeats' = Len(seen') - Cardinality(ToSet(seen'))
      BY <3>1 DEF Repeats
    <3>3. QED
      BY <1>6, <2>2, <2>8, <2>12, <3>2 DEF Repeats
  <2>14. QED
    BY <1>3, <1>4, <1>6, <2>4, <2>8, <2>9, <2>13
<1>10. CASE Insertion
  <2>1. PICK y \in Rows : y.id \notin met \cup inserts /\ rows' = rows \cup {y} /\ inserts' = inserts \cup {y.id}
    BY <1>10 DEF Insertion
  <2>2. seen' = seen /\ Passed' = Passed /\ Passed \in Nat
    BY <1>2, <1>10, PassedAfter, PassedNat DEF Insertion, walk
  <2>3. Ahead' \subseteq Ahead \cup {r \in rows : At(rows, r) = Passed - 1}
    <3>1. SUFFICES ASSUME NEW r \in rows', r.id \in ToSet(seen), At(rows', r) >= Passed,
                          At(rows, r) # Passed - 1
                   PROVE  r \in Ahead
      <4>1. \A r \in rows' : r.id \in ToSet(seen) => r \in rows
        BY <2>1 DEF IdsInv
      <4>2. QED
        BY <1>1, <2>2, <4>1, SetsAfter
    <3>2. r \in rows /\ y \notin rows
      BY <2>1, <3>1 DEF IdsInv, Ids
    <3>3. At(rows', r) = At(rows, r) \/ At(rows', r) = At(rows, r) + 1
      BY <1>5, <2>1, <3>2, AtInsert
    <3>4. At(rows, r) >= Passed
      BY <1>5, <2>2, <3>1, <3>2, <3>3
    <3>5. QED
      BY <3>1, <3>2, <3>4 DEF Ahead
  <2>4. Cardinality(Ahead') <= Cardinality(Ahead) + 1 /\ Cardinality(Ahead') \in Nat /\ Cardinality(Ahead) \in Nat
    BY <1>2, <1>3, <2>3, OneMore
  <2>5. Cardinality(inserts') = Cardinality(inserts) + 1
    BY <2>1, IdMore DEF TypeOK
  <2>6. QED
    BY <1>3, <1>4, <1>6, <1>7, <2>2, <2>4, <2>5
<1>11. CASE Removal
  <2>1. PICK y \in rows : rows' = rows \ {y}
    BY <1>11 DEF Removal
  <2>2. seen' = seen /\ inserts' = inserts /\ Passed' = Passed /\ Passed \in Nat
    BY <1>2, <1>11, PassedAfter, PassedNat DEF Removal, walk
  <2>3. Ahead' \subseteq Ahead
    <3>1. SUFFICES ASSUME NEW r \in rows', r.id \in ToSet(seen), At(rows', r) >= Passed
                   PROVE  r \in Ahead
      BY <1>1, <2>2, SetsAfter
    <3>2. At(rows, r) = At(rows', r) \/ At(rows, r) = At(rows', r) + 1
      BY <1>5, <2>1, AtRemove
    <3>3. At(rows', r) \in Nat
      <4>1. IsFiniteSet(rows') /\ rows' \subseteq Rows
        BY <1>5, <2>1, FS_Subset DEF TypeOK
      <4>2. At(rows', r) \in 0 .. Cardinality(rows') - 1
        BY <1>5, <4>1, AtRange
      <4>3. QED
        BY <4>1, <4>2, FS_CardinalityType
    <3>4. At(rows, r) >= Passed /\ r \in rows
      BY <2>1, <2>2, <3>1, <3>2, <3>3
    <3>5. QED
      BY <3>1, <3>4 DEF Ahead
  <2>4. Cardinality(Ahead') <= Cardinality(Ahead) /\ Cardinality(Ahead') \in Nat /\ Cardinality(Ahead) \in Nat
    BY <1>3, <2>3, Fewer
  <2>5. QED
    BY <1>3, <1>4, <1>6, <1>7, <2>2, <2>4
<1>12. QED
  BY <1>8, <1>9, <1>10, <1>11 DEF Next

\* More pages have more room.
LEMMA MorePages ==
    ASSUME NEW m \in Nat, NEW n \in Nat, m <= n, NEW l \in Nat
    PROVE  m * l \in Nat /\ n * l \in Nat /\ m * l <= n * l
<1>1. PICK k \in Nat : n = m + k
  <2>1. n - m \in Nat /\ n = m + (n - m)
    OBVIOUS
  <2>2. QED
    BY <2>1
<1>2. m * l \in Nat /\ k * l \in Nat /\ (m + k) * l = m * l + k * l
  OBVIOUS
<1>3. QED
  BY <1>1, <1>2

\* The pages told of hold the list, but for what came after the count.
LEMMA NextTotalInv == TypeOK /\ IdsInv /\ TotalInv /\ [Next]_vars => TotalInv'
<1> SUFFICES ASSUME TypeOK, IdsInv, TotalInv, [Next]_vars PROVE TotalInv'
  OBVIOUS
<1>1. /\ page \in Nat /\ total \in Nat /\ limit \in Nat \ {0}
      /\ IsFiniteSet(rows) /\ Cardinality(rows) \in Nat
  BY Setting DEF TypeOK
<1>2. IsFiniteSet(late \ removes) /\ Cardinality(late \ removes) \in Nat
  BY IdsFinite DEF TypeOK, IdsInv
<1>3. total * limit \in Nat /\ page * limit \in Nat
  BY <1>1, MorePages
<1>4. CASE Count
  <2>1. pc' = "find" /\ page' = page /\ limit' = limit /\ rows' = rows /\ late' = {}
    BY <1>4 DEF Count, walk
  <2>2. CASE page = 0
    BY <2>1, <2>2 DEF TotalInv
  <2>3. CASE page > 0
    <3>1. total' = Ceil(Cardinality(rows), limit)
      BY <1>4, <2>3 DEF Count, TotalPage
    <3>2. total' \in Nat /\ Cardinality(rows) <= total' * limit
      BY <1>1, <3>1, CeilCovers
    <3>3. Cardinality(late' \ removes') = 0
      BY <2>1, FS_EmptySet
    <3>4. total' * limit \in Nat
      <4>1. \A k \in Nat : k * limit \in Nat
        BY <1>1
      <4>2. QED
        BY <3>2, <4>1
    <3>5. Cardinality(rows) <= total' * limit + Cardinality(late' \ removes')
      BY <1>1, <3>2, <3>3, <3>4
    <3>6. QED
      BY <2>1, <3>5 DEF TotalInv
  <2>4. QED
    BY <1>1, <2>2, <2>3
<1>5. CASE Find
  <2>1. pc = "find" /\ UNCHANGED <<limit, rows, total, late, removes>>
    BY <1>5 DEF Find
  <2>2. CASE page > 0 /\ page < total
    BY <1>5, <2>2 DEF Find, TotalInv
  <2>3. CASE ~(page > 0 /\ page < total)
    <3>1. page' = page /\ pc' = "done"
      BY <1>5, <2>3 DEF Find
    <3>2. ASSUME page > 0 PROVE Cardinality(rows) <= page * limit + Cardinality(late \ removes)
      <4>1. total * limit <= page * limit
        BY <1>1, <2>3, <3>2, MorePages
      <4>2. Cardinality(rows) <= total * limit + Cardinality(late \ removes)
        BY <2>1, <3>2 DEF TotalInv
      <4>3. QED
        BY <1>1, <1>2, <1>3, <4>1, <4>2
    <3>3. QED
      BY <2>1, <3>1, <3>2 DEF TotalInv
  <2>4. QED
    BY <2>2, <2>3
<1>6. CASE Insertion
  <2>1. PICK y \in Rows :
           /\ y.id \notin met \cup inserts
           /\ rows' = rows \cup {y}
           /\ late' = late \cup {y.id}
    BY <1>6 DEF Insertion
  <2>2. UNCHANGED <<pc, page, limit, total, removes>> /\ pc # "done"
    BY <1>6 DEF Insertion, walk
  <2>3. y \notin rows /\ y.id \notin late \ removes /\ late' \ removes' = (late \ removes) \cup {y.id}
    BY <2>1, <2>2 DEF IdsInv, Ids
  <2>4. Cardinality(rows') = Cardinality(rows) + 1
    BY <1>1, <2>1, <2>3, FS_AddElement
  <2>5. Cardinality(late' \ removes') = Cardinality(late \ removes) + 1
    BY <1>2, <2>3, FS_AddElement
  <2>6. ASSUME pc = "find", page > 0
        PROVE  Cardinality(rows') <= total * limit + Cardinality(late' \ removes')
    <3>1. Cardinality(rows) <= total * limit + Cardinality(late \ removes)
      BY <2>6 DEF TotalInv
    <3>2. QED
      BY <1>1, <1>2, <1>3, <2>4, <2>5, <3>1
  <2>7. QED
    BY <2>2, <2>6 DEF TotalInv
<1>7. CASE Removal
  <2>1. PICK y \in rows : rows' = rows \ {y} /\ removes' = removes \cup {y.id}
    BY <1>7 DEF Removal
  <2>2. UNCHANGED <<pc, page, limit, total, late>> /\ pc # "done"
    BY <1>7 DEF Removal, walk
  <2>3. late' \ removes' = (late \ removes) \ {y.id}
    BY <2>1, <2>2
  <2>4. Cardinality(rows') = Cardinality(rows) - 1
    BY <1>1, <2>1, FS_RemoveElement
  <2>5. Cardinality(late' \ removes') \in Nat /\ Cardinality(late' \ removes') >= Cardinality(late \ removes) - 1
    <3>1. CASE y.id \in late \ removes
      <4>1. IsFiniteSet(late' \ removes') /\ Cardinality(late' \ removes') = Cardinality(late \ removes) - 1
        BY <1>2, <2>3, <3>1, FS_RemoveElement
      <4>2. Cardinality(late' \ removes') \in Nat
        BY <4>1, FS_CardinalityType
      <4>3. QED
        BY <1>2, <4>1, <4>2
    <3>2. CASE y.id \notin late \ removes
      <4>1. Cardinality(late' \ removes') = Cardinality(late \ removes)
        <5>1. late' \ removes' = late \ removes
          BY <2>3, <3>2
        <5>2. QED
          BY <5>1
      <4>2. QED
        BY <1>2, <4>1
    <3>3. QED
      BY <3>1, <3>2
  <2>6. ASSUME pc = "find", page > 0
        PROVE  Cardinality(rows') <= total * limit + Cardinality(late' \ removes')
    <3>1. Cardinality(rows) <= total * limit + Cardinality(late \ removes)
      BY <2>6 DEF TotalInv
    <3>2. QED
      BY <1>1, <1>2, <1>3, <2>4, <2>5, <3>1
  <2>7. QED
    BY <2>2, <2>6 DEF TotalInv
<1>8. CASE UNCHANGED vars
  BY <1>8 DEF TotalInv, vars, walk
<1>9. QED
  BY <1>4, <1>5, <1>6, <1>7, <1>8 DEF Next

-----------------------------------------------------------------------------
\* The invariant

\* There are finitely many rows to have.
LEMMA RowsSetFinite == list \in Lists => IsFiniteSet(Rows)
<1> SUFFICES ASSUME list \in Lists PROVE IsFiniteSet(Rows)
  OBVIOUS
<1> DEFINE K == IF list \in ByTime THEN 1..MaxTime ELSE {1}
           f == [r \in Rows |-> <<r.id, r.at>>]
<1>1. IsFiniteSet(1..MaxRows) /\ IsFiniteSet(1..MaxTime)
  <2>1. 1 \in Int /\ MaxRows \in Int /\ MaxTime \in Int
    BY BoundsAssumption
  <2>2. QED
    BY <2>1, FS_Interval
<1>2. IsFiniteSet(K)
  BY <1>1, FS_Singleton
<1>3. IsFiniteSet((1..MaxRows) \X K)
  BY <1>1, <1>2, FS_Product
<1>4. f \in Injection(Rows, (1..MaxRows) \X K)
  <2>1. f \in [Rows -> (1..MaxRows) \X K]
    BY DEF Rows
  <2>2. \A r, s \in Rows : f[r] = f[s] => r = s
    BY DEF Rows
  <2>3. QED
    BY <2>1, <2>2 DEF Injection, IsInjective
<1>5. QED
  BY <1>3, <1>4, FS_Injection

\* Nothing is passed over, nothing repeated before the first page.
LEMMA InitInv == Init => IInv
<1> SUFFICES ASSUME Init PROVE IInv
  OBVIOUS
<1>1. /\ rows \subseteq Rows /\ IsFiniteSet(rows) /\ page \in {0, 1} /\ limit \in Nat \ {0} /\ seen = <<>>
      /\ pc = "count" /\ removes = {} /\ inserts = {} /\ late = {} /\ met = Ids(rows)
  <2>1. rows \subseteq Rows /\ list \in Lists
    BY DEF Init
  <2>2. IsFiniteSet(rows)
    BY <2>1, RowsSetFinite, FS_Subset
  <2>3. QED
    BY <2>1, <2>2, BoundsAssumption DEF Init
<1>2. ToSet(seen) = {} /\ Cardinality(ToSet(seen)) = 0
  BY <1>1, FS_EmptySet DEF ToSet
<1>3. TypeOK
  <2>1. Ids(rows) \subseteq 1..MaxRows /\ tied \in BOOLEAN
    BY <1>1 DEF Ids, Rows, Init, Tied
  <2>2. QED
    BY <1>1, <2>1 DEF Init, TypeOK
<1>4. IdsInv
  <2>1. \A r, s \in rows : r.id = s.id => r = s
    BY <1>1, IdsDistinct DEF Init
  <2>2. Tied(rows) => tied
    BY DEF Init
  <2>3. QED
    BY <1>1, <1>2, <2>1, <2>2 DEF IdsInv
<1>5. page > 0 => Passed = 0
  BY <1>1 DEF Passed
<1>6. SkippedInv
  <2>1. page > 0 => Skipped = {}
    BY <1>1, <1>3, <1>4, <1>5, Setting, AtRange, FS_CardinalityType DEF Skipped, TypeOK
  <2>2. Cardinality({}) = 0
    BY FS_EmptySet
  <2>3. page > 0 => Cardinality(Skipped) = 0
    BY <2>1, <2>2
  <2>4. Cardinality(removes) = 0
    BY <1>1, <2>2
  <2>5. QED
    BY <2>3, <2>4 DEF SkippedInv
<1>7. AheadInv
  <2>1. Ahead = {} /\ Repeats = 0
    BY <1>1, <1>2 DEF Ahead, Repeats
  <2>2. QED
    BY <1>1, <2>1, FS_EmptySet DEF AheadInv
<1>8. AllInv /\ TotalInv
  BY <1>1 DEF AllInv, TotalInv
<1>9. QED
  BY <1>3, <1>4, <1>6, <1>7, <1>8 DEF IInv

\* The invariant is inductive: the pages asked so far have gone past one row
\* for every removal at most, and will meet again one for every insert.
THEOREM Inductive == Spec => []IInv
<1>1. IInv /\ [Next]_vars => IInv'
  <2> SUFFICES ASSUME IInv, [Next]_vars PROVE IInv'
    OBVIOUS
  <2>1. TypeOK' /\ IdsInv'
    BY NextTypeOK, NextIdsInv DEF IInv
  <2>2. AllInv' /\ SkippedInv' /\ AheadInv' /\ TotalInv'
    BY NextAllInv, NextSkippedInv, NextAheadInv, NextTotalInv DEF IInv
  <2>3. QED
    BY <2>1, <2>2 DEF IInv
<1>2. QED
  BY InitInv, <1>1, PTL DEF Spec

\* Every state of a walk has rows of its list, ids that exist, and a page the
\* client may ask for.
THEOREM TypeCorrect == Spec => []TypeOK
<1>1. IInv => TypeOK
  BY DEF IInv
<1>2. QED
  BY <1>1, Inductive, PTL

\* The rows past the last page asked are as few as those that came after its
\* count.
LEMMA BeyondLast ==
    ASSUME IInv, pc = "done", page > 0, ~tied
    PROVE  LET H == {r \in rows : At(rows, r) >= page * limit}
           IN  IsFiniteSet(H) /\ Cardinality(H) \in Nat /\ Cardinality(H) <= Cardinality(late \ removes)
<1> DEFINE H == {r \in rows : At(rows, r) >= page * limit}
           n == Cardinality(rows)
           b == page * limit
           f == [r \in H |-> At(rows, r)]
<1>1. TypeOK /\ IdsInv /\ TotalInv
  BY DEF IInv
<1>2. /\ IsFiniteSet(rows) /\ n \in Nat /\ Untied(rows) /\ rows \subseteq Rows
      /\ list \in Lists /\ MaxRows \in Nat /\ MaxTime \in Nat
  BY <1>1, Setting DEF TypeOK
<1>3. b \in Nat
  BY <1>1, PassedNat
<1>4. n <= b + Cardinality(late \ removes) /\ Cardinality(late \ removes) \in Nat
  BY <1>1, IdsFinite DEF TotalInv, TypeOK, IdsInv
<1>5. f \in Injection(H, b .. n - 1)
  <2>1. ASSUME NEW r \in H PROVE At(rows, r) \in b .. n - 1
    BY <1>2, <1>3, AtRange
  <2>2. ASSUME NEW r \in H, NEW s \in H, f[r] = f[s] PROVE r = s
    BY <1>2, <2>2, AtInjective
  <2>3. QED
    BY <2>1, <2>2 DEF Injection, IsInjective
<1> HIDE DEF n, b, f
<1>6. IsFiniteSet(b .. n - 1) /\ Cardinality(b .. n - 1) = IF b > n - 1 THEN 0 ELSE (n - 1) - b + 1
  <2>1. b \in Int /\ n - 1 \in Int
    BY <1>2, <1>3
  <2>2. QED
    BY <2>1, FS_Interval
<1>7. IsFiniteSet(H) /\ Cardinality(H) <= Cardinality(b .. n - 1)
  BY <1>5, <1>6, FS_Injection
<1>8. Cardinality(H) \in Nat
  BY <1>7, FS_CardinalityType
<1>9. Cardinality(H) <= Cardinality(late \ removes)
  BY <1>2, <1>3, <1>4, <1>6, <1>7, <1>8
<1>10. QED
  BY <1>7, <1>8, <1>9

\* What the invariant says of a walk that is over.
LEMMA InvSeesAll == IInv => WalkSeesAll
<1> SUFFICES ASSUME IInv, pc = "done"
             PROVE  /\ page = 0 => Missed = {} /\ Repeats = 0
                    /\ ~tied => /\ Cardinality(Missed) <= Cardinality(removes \cup late)
                               /\ Repeats <= Cardinality(inserts)
  BY DEF WalkSeesAll
<1>1. TypeOK /\ IdsInv /\ AllInv /\ SkippedInv /\ AheadInv
  BY DEF IInv
<1>2. page = 0 => Missed = {} /\ Repeats = 0
  BY <1>1 DEF AllInv
<1>3. /\ removes \subseteq 1..MaxRows /\ late \subseteq 1..MaxRows
      /\ IsFiniteSet(removes) /\ Cardinality(removes) \in Nat /\ Cardinality(inserts) \in Nat
      /\ IsFiniteSet(late \ removes) /\ Cardinality(late \ removes) \in Nat
  BY <1>1, IdsFinite DEF TypeOK, IdsInv
<1>4. Cardinality(removes \cup late) = Cardinality(removes) + Cardinality(late \ removes)
  <2>1. removes \cup (late \ removes) = removes \cup late /\ removes \cap (late \ removes) = {}
    OBVIOUS
  <2>2. Cardinality(removes \cup (late \ removes)) =
          Cardinality(removes) + Cardinality(late \ removes) - Cardinality(removes \cap (late \ removes))
    BY <1>3, FS_Union
  <2>3. Cardinality(removes \cap (late \ removes)) = 0
    BY <2>1, FS_EmptySet
  <2>4. QED
    BY <1>3, <2>1, <2>2, <2>3
<1>5. ASSUME ~tied PROVE Cardinality(Missed) <= Cardinality(removes \cup late) /\ Repeats <= Cardinality(inserts)
  <2>1. CASE page = 0
    <3>1. Cardinality(Missed) = 0 /\ Repeats = 0
      BY <1>2, <2>1, FS_EmptySet
    <3>2. QED
      BY <1>3, <1>4, <3>1
  <2>2. CASE page > 0
    <3> DEFINE H == {r \in rows : At(rows, r) >= page * limit}
               S == Skipped \cup H
    <3>1. IsFiniteSet(H) /\ Cardinality(H) \in Nat /\ Cardinality(H) <= Cardinality(late \ removes)
      BY <1>5, <2>2, BeyondLast
    <3>2. /\ IsFiniteSet(Skipped) /\ Cardinality(Skipped) \in Nat
          /\ IsFiniteSet(Ahead) /\ Cardinality(Ahead) \in Nat
      <4>1. Skipped \subseteq rows /\ Ahead \subseteq rows
        BY DEF Skipped, Ahead
      <4>2. QED
        BY <1>1, <4>1, Fewer
    <3>3. Cardinality(Skipped) <= Cardinality(removes) /\ Repeats + Cardinality(Ahead) <= Cardinality(inserts)
      BY <1>1, <1>5, <2>2 DEF SkippedInv, AheadInv
    <3>4. IsFiniteSet(S) /\ Cardinality(S) <= Cardinality(Skipped) + Cardinality(H) /\ Cardinality(S) \in Nat
      <4>1. Cardinality(S) = Cardinality(Skipped) + Cardinality(H) - Cardinality(Skipped \cap H) /\ IsFiniteSet(S)
        BY <3>1, <3>2, FS_Union
      <4>2. Cardinality(Skipped \cap H) \in Nat /\ Cardinality(S) \in Nat
        BY <3>1, <3>2, <4>1, FS_Intersection, FS_CardinalityType
      <4>3. QED
        BY <3>1, <3>2, <4>1, <4>2
    <3>5. Missed \subseteq Ids(S)
      <4>1. SUFFICES ASSUME NEW i \in (met \ removes) \ ToSet(seen)
                     PROVE  \E r \in S : r.id = i
        BY DEF Missed, Ids
      <4>2. PICK r \in rows : r.id = i
        BY <1>1, <4>1 DEF IdsInv, Ids
      <4>3. At(rows, r) \in Nat /\ page * limit \in Nat /\ Passed = page * limit
        <5>1. At(rows, r) \in 0 .. Cardinality(rows) - 1 /\ Cardinality(rows) \in Nat
          BY <1>1, Setting, AtRange DEF TypeOK
        <5>2. QED
          BY <1>1, <2>2, <5>1, PassedNat DEF Passed
      <4>4. At(rows, r) < Passed \/ r \in H
        BY <4>3
      <4>5. QED
        BY <4>1, <4>2, <4>4 DEF Skipped
    <3>6. IsFiniteSet(Ids(S)) /\ Cardinality(Ids(S)) = Cardinality(S)
      <4>1. \A r, s \in S : r.id = s.id => r = s
        BY <1>1 DEF IdsInv, Skipped
      <4>2. QED
        BY <3>4, <4>1, IdsCount
    <3>7. Cardinality(Missed) <= Cardinality(S) /\ Cardinality(Missed) \in Nat
      BY <3>5, <3>6, FS_Subset, FS_CardinalityType
    <3> HIDE DEF H, S
    <3>8. Cardinality(Missed) <= Cardinality(removes \cup late)
      BY <1>3, <1>4, <3>1, <3>2, <3>3, <3>4, <3>7
    <3>9. Repeats <= Cardinality(inserts)
      <4>1. Repeats \in Int
        <5>1. ToSet(seen) \subseteq 1..MaxRows /\ Len(seen) \in Nat
          BY <1>1, LenProperties DEF IdsInv, TypeOK
        <5>2. Cardinality(ToSet(seen)) \in Nat
          BY <1>1, <5>1, IdsFinite
        <5>3. QED
          BY <5>1, <5>2 DEF Repeats
      <4>2. QED
        BY <1>3, <3>2, <3>3, <4>1
    <3>10. QED
      BY <3>8, <3>9
  <2>3. QED
    BY <1>1, <2>1, <2>2 DEF TypeOK
<1>6. QED
  BY <1>2, <1>5

\* A walk misses no row that was there all along but one for every removal
\* and every insert between the last count and its page, and repeats itself
\* once for every insert at most, whatever the page size and the interleaving.
THEOREM WalkSeesAllHolds == Spec => []WalkSeesAll
<1>1. QED
  BY Inductive, InvSeesAll, PTL

-----------------------------------------------------------------------------
\* What the query of a list means

\* A registered transform runs in the directions that were asked for, in both
\* if none was.
LEMMA RunsAsAsked ==
    ASSUME NEW o \in Flags, NEW direction \in {"class", "plain"}
    PROVE  (\E t \in Registered(o) : Applies(t.options, direction)) <=>
              \/ o.toClassOnly = "undefined" /\ o.toPlainOnly = "undefined"
              \/ o.toClassOnly = "true" /\ direction = "class"
              \/ o.toPlainOnly = "true" /\ direction = "plain"
<1> DEFINE c == [of |-> "class", options |-> [o EXCEPT !.toClassOnly = "true"]]
           p == [of |-> "plain", options |-> [o EXCEPT !.toPlainOnly = "true"]]
           none == o.toClassOnly = "undefined" /\ o.toPlainOnly = "undefined"
<1>1. \A t : t \in Registered(o) <=>
               \/ t = c /\ (none \/ o.toClassOnly = "true")
               \/ t = p /\ (none \/ o.toPlainOnly = "true")
  BY DEF Registered
<1>2. /\ o.toClassOnly \in {"undefined", "true", "false"} /\ o.toPlainOnly \in {"undefined", "true", "false"}
      /\ c.options.toClassOnly = "true" /\ c.options.toPlainOnly = o.toPlainOnly
      /\ p.options.toPlainOnly = "true" /\ p.options.toClassOnly = o.toClassOnly
  BY DEF Flags
<1>3. Applies(c.options, direction) <=> direction = "class" \/ o.toPlainOnly = "true"
  BY <1>2 DEF Applies
<1>4. Applies(p.options, direction) <=> direction = "plain" \/ o.toClassOnly = "true"
  BY <1>2 DEF Applies
<1> HIDE DEF c, p
<1>5. QED
  BY <1>1, <1>2, <1>3, <1>4

\* A decorator replaces exactly the values of its test.
LEMMA TransformHolds == QueryCalls => TransformMeans
<1>1. SUFFICES ASSUME NEW t \in Tests, NEW to \in {"null", "undefined", "y"}, NEW o \in Flags, NEW v \in Values,
                      NEW direction \in {"class", "plain"}
               PROVE  Transformed(t, to, o, direction, v, v) =
                         IF /\ \/ o.toClassOnly = "undefined" /\ o.toPlainOnly = "undefined"
                               \/ o.toClassOnly = "true" /\ direction = "class"
                               \/ o.toPlainOnly = "true" /\ direction = "plain"
                            /\ v \in t
                         THEN to ELSE v
  BY DEF QueryCalls, TransformMeans
<1>2. QED
  BY <1>1, RunsAsAsked DEF Transformed

\* An empty parameter takes its default, and what is refused is refused.
LEMMA NumbersRead ==
    ASSUME NEW text \in Texts
    PROVE  /\ PageParam(text) = CASE text \in {"absent", "''", "'0'"} -> {0}
                                  [] text = "'2'" -> {2}
                                  [] OTHER -> {}
           /\ LimitParam(text) = CASE text \in {"absent", "''"} -> {10}
                                   [] text = "'2'" -> {2}
                                   [] OTHER -> {}
<1> DEFINE o == [toClassOnly |-> "undefined", toPlainOnly |-> "undefined"]
<1>1. \E t \in Registered(o) : Applies(t.options, "class")
  BY RunsAsAsked DEF Flags
<1>2. Transformed(Falsy, "undefined", o, "class", text, "a number") = "undefined" <=>
        \E t \in Registered(o) : Applies(t.options, "class") /\ (IF t.of = "class" THEN text ELSE "a number") \in Falsy
  BY DEF Transformed
<1>3. \A t \in Registered(o) : Applies(t.options, "class") => t.of = "class"
  BY DEF Registered, Applies
<1>4. Transformed(Falsy, "undefined", o, "class", text, "a number") = "undefined" <=> text = "''"
  BY <1>1, <1>2, <1>3 DEF Texts, Falsy
<1>5. \A default, least : IntParam(text, default, least) =
          IF text \in {"absent", "''"} THEN {default} ELSE {n \in Number(text) : n >= least}
  BY <1>4 DEF IntParam
<1>6. /\ PageParam(text) = IF text \in {"absent", "''"} THEN {0} ELSE {n \in Number(text) : n >= 0}
      /\ LimitParam(text) = IF text \in {"absent", "''"} THEN {10} ELSE {n \in Number(text) : n >= 1}
  BY <1>5 DEF PageParam, LimitParam
<1>7. /\ text = "'0'" => Number(text) = {0}
      /\ text = "'2'" => Number(text) = {2}
      /\ text = "'-1'" => Number(text) = {-1}
      /\ text = "'x'" => Number(text) = {}
  BY DEF Number
<1>8. CASE text \in {"absent", "''"}
  BY <1>6, <1>8
<1>9. CASE text = "'0'"
  BY <1>6, <1>7, <1>9
<1>10. CASE text = "'2'"
  BY <1>6, <1>7, <1>10
<1>11. CASE text \in {"'-1'", "'x'"}
  BY <1>6, <1>7, <1>11
<1>12. QED
  BY <1>8, <1>9, <1>10, <1>11 DEF Texts

\* Ids are the numbers that were written, at least one of them.
LEMMA IdsRead ==
    ASSUME NEW p \in Seq(Pieces), p # <<>>, NEW twice \in BOOLEAN, NEW ids \in IdsParam(p, twice)
    PROVE  /\ ~twice
           /\ ids # {} /\ Cardinality(ids) <= Len(p)
           /\ \A n \in {1, 2} : n \in ids <=> \E i \in DOMAIN p : n \in ParseInt(p[i])
<1>1. ~twice /\ ids = UNION {ParseInt(p[i]) : i \in DOMAIN p} /\ \A i \in DOMAIN p : ParseInt(p[i]) # {}
  BY DEF IdsParam
<1>2. Len(p) \in Nat /\ Len(p) >= 1 /\ DOMAIN p = 1..Len(p)
  BY EmptySeq, LenProperties
<1>3. ASSUME NEW i \in DOMAIN p PROVE ParseInt(p[i]) = {1} \/ ParseInt(p[i]) = {2}
  <2>1. p[i] \in Pieces
    BY <1>2
  <2>2. ParseInt("'1'") = {1} /\ ParseInt("'2'") = {2} /\ ParseInt("'2x'") = {2} /\ ParseInt("''") = {}
    BY DEF ParseInt
  <2>3. QED
    BY <1>1, <2>1, <2>2 DEF Pieces
<1>4. ids \subseteq {1, 2} /\ ids # {}
  <2>1. 1 \in DOMAIN p
    BY <1>2
  <2>2. QED
    BY <1>1, <1>3, <2>1
<1>5. Cardinality(ids) <= Len(p)
  <2>1. CASE Len(p) = 1
    <3>1. DOMAIN p = {1}
      BY <1>2, <2>1
    <3>2. ids = ParseInt(p[1])
      BY <1>1, <3>1
    <3>3. ids = {1} \/ ids = {2}
      BY <1>3, <3>1, <3>2
    <3>4. Cardinality(ids) = 1
      BY <3>3, FS_Singleton
    <3>5. QED
      BY <2>1, <3>4
  <2>2. CASE Len(p) # 1
    <3> DEFINE P == {1} \cup {2}
    <3>1. IsFiniteSet(P) /\ Cardinality(P) = 2
      <4>1. IsFiniteSet({1}) /\ Cardinality({1}) = 1
        BY FS_Singleton, Zenon
      <4>2. IsFiniteSet(P) /\ Cardinality(P) = Cardinality({1}) + 1
        <5>1. 2 \notin {1}
          OBVIOUS
        <5>2. QED
          BY <4>1, <5>1, FS_AddElement
      <4>3. QED
        BY <4>1, <4>2
    <3>2. ids \subseteq P
      BY <1>4
    <3> HIDE DEF P
    <3>3. Cardinality(ids) <= 2 /\ Cardinality(ids) \in Nat
      <4>1. IsFiniteSet(ids) /\ Cardinality(ids) <= Cardinality(P)
        BY <3>1, <3>2, FS_Subset
      <4>2. QED
        BY <3>1, <4>1, FS_CardinalityType
    <3>4. QED
      BY <1>2, <2>2, <3>3
  <2>3. QED
    BY <2>1, <2>2
<1>6. QED
  BY <1>1, <1>4, <1>5

\* Page and limit never divide by zero or skip backwards.
LEMMA ParamsHold == QueryCalls => ParamsMean
<1>1. ASSUME QueryCalls, call.fn = "page" PROVE call.page \in Texts /\ call.limit \in Texts
  BY <1>1 DEF QueryCalls
<1>2. ASSUME QueryCalls, call.fn = "ids"
      PROVE  call.pieces \in Seq(Pieces) /\ call.pieces # <<>> /\ call.twice \in BOOLEAN
  <2>1. PICK p \in BoundedSeq(Pieces, 3), twice \in BOOLEAN :
           p # <<>> /\ call = [fn |-> "ids", pieces |-> p, twice |-> twice]
    BY <1>2 DEF QueryCalls
  <2>2. p \in Seq(Pieces)
    <3>1. PICK m \in 0..3 : p \in [1..m -> Pieces]
      BY DEF BoundedSeq, SeqOf
    <3>2. QED
      BY <3>1, SeqDef
  <2>3. QED
    BY <2>1, <2>2
<1>3. ASSUME QueryCalls, call.fn = "page"
      PROVE  /\ PageParam(call.page) = CASE call.page \in {"absent", "''", "'0'"} -> {0}
                                          [] call.page = "'2'" -> {2}
                                          [] OTHER -> {}
             /\ LimitParam(call.limit) = CASE call.limit \in {"absent", "''"} -> {10}
                                            [] call.limit = "'2'" -> {2}
                                            [] OTHER -> {}
  BY <1>1, <1>3, NumbersRead
<1>4. ASSUME QueryCalls, call.fn = "ids", NEW ids \in IdsParam(call.pieces, call.twice)
      PROVE  /\ ~call.twice
             /\ ids # {} /\ Cardinality(ids) <= Len(call.pieces)
             /\ \A n \in {1, 2} : n \in ids <=> \E i \in DOMAIN call.pieces : n \in ParseInt(call.pieces[i])
  BY <1>2, <1>4, IdsRead
<1>5. QED
  BY <1>3, <1>4, Zenon DEF ParamsMean

\* The users that a list selects pass every filter it is given.
LEMMA UsersHold == QueryCalls => UsersMean
<1>0. SUFFICES ASSUME QueryCalls, call.fn = "users"
               PROVE  UserSelected(UserWhere(call.query), call.user) <=>
                         /\ ~call.user.isRoot
                         /\ call.query.ids = {} \/ call.user.account \in UNION call.query.ids
                         /\ call.query.roleIds = {} \/ \E r \in UNION call.query.roleIds : r \in call.user.roles
                         /\ call.query.keyword = {} \/ \E f \in Fields : call.user.text[f] = call.query.keyword
  BY DEF UsersMean
<1> DEFINE q == call.query
           u == call.user
<1>q. q \in UserQueries /\ u \in Users
  BY <1>0 DEF QueryCalls
<1> HIDE DEF q, u
<1> DEFINE w == UserWhere(q)
<1>1. /\ q.ids = {} \/ \E s \in SUBSET Accounts : q.ids = {s}
      /\ q.roleIds = {} \/ \E s \in SUBSET RoleIds : q.roleIds = {s}
      /\ q.keyword = {} \/ q.keyword = {"k"}
  BY <1>q DEF UserQueries, Optional
<1>2. u.isRoot \in BOOLEAN /\ u.roles \subseteq RoleIds /\ \A f \in Fields : u.text[f] = {} \/ u.text[f] = {"k"}
  BY <1>q DEF Users
<1>3. w.userAccountId = q.ids /\ w.roleId = q.roleIds /\ w.isRoot = FALSE
  BY DEF UserWhere
<1>4. (\A ids \in w.userAccountId : u.account \in ids) <=> q.ids = {} \/ u.account \in UNION q.ids
  BY <1>1, <1>3
<1>5. (\A roles \in w.roleId : u.roles \cap roles # {})
         <=> q.roleIds = {} \/ \E r \in UNION q.roleIds : r \in u.roles
  BY <1>1, <1>3
<1>6. (\A i \in DOMAIN w.AND : \E c \in w.AND[i] : c.contains \in u.text[c.field])
         <=> q.keyword = {} \/ \E f \in Fields : u.text[f] = q.keyword
  <2>1. CASE q.keyword = {}
    <3>1. w.AND = <<>>
      BY <2>1 DEF UserWhere
    <3>2. QED
      BY <2>1, <3>1
  <2>2. CASE q.keyword = {"k"}
    <3> DEFINE OR == {[field |-> f, contains |-> "k"] : f \in Fields}
    <3>1. (CHOOSE k \in q.keyword : TRUE) = "k"
      BY <2>2
    <3>2. WhereKeywordInput({"name", "email", "phone"}, "k") \cup {[field |-> "account", contains |-> "k"]} = OR
      BY DEF WhereKeywordInput, Fields
    <3>3. w.AND = MergeWhereInput([isArray |-> TRUE, items |-> <<>>], OR).items
      BY <2>2, <3>1, <3>2 DEF UserWhere
    <3>4. w.AND = Append(<<>>, OR)
      BY <3>3 DEF MergeWhereInput
    <3> HIDE DEF w
    <3>5. w.AND = <<OR>>
      BY <3>4
    <3>6. DOMAIN w.AND = {1} /\ w.AND[1] = OR
      BY <3>5
    <3>7. (\E c \in OR : c.contains \in u.text[c.field]) <=> \E f \in Fields : u.text[f] = {"k"}
      <4>1. ASSUME NEW f \in Fields PROVE "k" \in u.text[f] <=> u.text[f] = {"k"}
        BY <1>2
      <4>2. ASSUME NEW f \in Fields, u.text[f] = {"k"}
            PROVE  \E c \in OR : c.contains \in u.text[c.field]
        <5> DEFINE c == [field |-> f, contains |-> "k"]
        <5>1. c \in OR /\ c.contains = "k" /\ c.field = f
          OBVIOUS
        <5>2. c.contains \in u.text[c.field]
          BY <4>1, <4>2, <5>1
        <5>3. QED
          BY <5>1, <5>2
      <4>3. ASSUME NEW c \in OR, c.contains \in u.text[c.field]
            PROVE  \E f \in Fields : u.text[f] = {"k"}
        <5>1. PICK f \in Fields : c = [field |-> f, contains |-> "k"]
          OBVIOUS
        <5>2. c.contains = "k" /\ c.field = f
          BY <5>1
        <5>3. QED
          BY <4>1, <4>3, <5>2
      <4>4. QED
        BY <4>2, <4>3, Zenon
    <3>8. QED
      BY <2>2, <3>6, <3>7
  <2>3. QED
    BY <1>1, <2>1, <2>2
<1>7. QED
  BY <1>2, <1>3, <1>4, <1>5, <1>6 DEF UserSelected, q, u

\* Neither of two intervals ends before the other begins.
NotApart(from, to, start, end) ==
    (\A b \in to : start <= b) /\ (\A a \in from, e \in end : e >= a)

\* The members of the OR of a range, by which of its ends are given.
LEMMA RangeAsked ==
    ASSUME NEW from \in Optional(Times), NEW to \in Optional(Times),
           NEW rs \in Times, NEW re \in Optional(Times)
    PROVE  RangeSelected(DateTimeRangeInput(from, to), [start |-> rs, end |-> re]) <=>
             NotApart(from, to, rs, re)
<1> DEFINE row == [start |-> rs, end |-> re]
           c(b, a, null) == [startLte |-> b, endGte |-> a, endNull |-> null]
           Holds(x) == /\ \A t \in x.startLte : row.start <= t
                       /\ \A t \in x.endGte : row.end # {} /\ \A e \in row.end : e >= t
                       /\ x.endNull => row.end = {}
<1>1. \A OR : RangeSelected(OR, row) <=> OR = {} \/ \E x \in OR : Holds(x)
  BY DEF RangeSelected
<1>2. \A b, a : /\ Holds(c(b, a, FALSE)) <=> (\A t \in b : rs <= t) /\ \A t \in a : re # {} /\ \A e \in re : e >= t
                /\ Holds(c(b, a, TRUE)) <=> /\ \A t \in b : rs <= t
                                            /\ \A t \in a : re # {} /\ \A e \in re : e >= t
                                            /\ re = {}
  OBVIOUS
<1> HIDE DEF row, Holds
<1>3. CASE from # {} /\ to # {}
  <2>1. DateTimeRangeInput(from, to) = {c(to, from, FALSE), c(to, {}, TRUE)}
    BY <1>3 DEF DateTimeRangeInput
  <2> HIDE DEF c
  <2>2. RangeSelected(DateTimeRangeInput(from, to), row) <=> Holds(c(to, from, FALSE)) \/ Holds(c(to, {}, TRUE))
    BY <1>1, <2>1
  <2>3. (\A t \in from : re # {} /\ \A e \in re : e >= t) <=> re # {} /\ \A t \in from, e \in re : e >= t
    BY <1>3
  <2>4. QED
    BY <1>2, <2>2, <2>3 DEF row, NotApart
<1>4. CASE from = {} /\ to # {}
  <2>1. DateTimeRangeInput(from, to) = {c(to, {}, FALSE)}
    BY <1>4 DEF DateTimeRangeInput
  <2> HIDE DEF c
  <2>2. RangeSelected(DateTimeRangeInput(from, to), row) <=> Holds(c(to, {}, FALSE))
    BY <1>1, <2>1
  <2>3. QED
    BY <1>2, <1>4, <2>2 DEF row, NotApart
<1>5. CASE from # {} /\ to = {}
  <2>1. DateTimeRangeInput(from, to) = {c({}, from, FALSE), c({}, {}, TRUE)}
    BY <1>5 DEF DateTimeRangeInput
  <2> HIDE DEF c
  <2>2. RangeSelected(DateTimeRangeInput(from, to), row) <=> Holds(c({}, from, FALSE)) \/ Holds(c({}, {}, TRUE))
    BY <1>1, <2>1
  <2>3. (\A t \in from : re # {} /\ \A e \in re : e >= t) <=> re # {} /\ \A t \in from, e \in re : e >= t
    BY <1>5
  <2>4. QED
    BY <1>2, <1>5, <2>2, <2>3 DEF row, NotApart
<1>6. CASE from = {} /\ to = {}
  <2>1. DateTimeRangeInput(from, to) = {}
    BY <1>6 DEF DateTimeRangeInput
  <2>2. RangeSelected(DateTimeRangeInput(from, to), row)
    BY <1>1, <2>1
  <2>3. QED
    BY <1>6, <2>2 DEF row, NotApart
<1>7. QED
  BY <1>3, <1>4, <1>5, <1>6

\* Two intervals that are not empty have an instant in common when neither
\* ends before the other begins.
LEMMA Overlap ==
    ASSUME NEW from \in Optional(Times), NEW to \in Optional(Times), \A f \in from, e \in to : f <= e,
           NEW rs \in Times, NEW re \in Optional(Times), \A e \in re : rs <= e
    PROVE  (\E t \in Times : /\ (\A f \in from : f <= t) /\ (\A e \in to : t <= e)
                             /\ rs <= t /\ \A e \in re : t <= e)
             <=> NotApart(from, to, rs, re)
<1>1. from \subseteq Times /\ to \subseteq Times /\ re \subseteq Times /\ Times \subseteq Int
  BY TimesAssumption DEF Optional
<1>2. ASSUME NEW t \in Times, \A f \in from : f <= t, \A e \in to : t <= e, rs <= t, \A e \in re : t <= e
      PROVE  (\A b \in to : rs <= b) /\ (\A a \in from, e \in re : e >= a)
  <2>1. ASSUME NEW b \in to PROVE rs <= b
    BY <1>1, <1>2, <2>1
  <2>2. ASSUME NEW a \in from, NEW e \in re PROVE e >= a
    <3>1. a \in Int /\ e \in Int /\ t \in Int /\ a <= t /\ t <= e
      BY <1>1, <1>2, <2>2
    <3>2. QED
      BY <3>1
  <2>3. QED
    BY <2>1, <2>2
<1>3. ASSUME \A b \in to : rs <= b, \A a \in from, e \in re : e >= a
      PROVE  \E t \in Times : /\ (\A f \in from : f <= t) /\ (\A e \in to : t <= e)
                              /\ rs <= t /\ \A e \in re : t <= e
  <2>1. CASE \A f \in from : f <= rs
    BY <1>1, <1>3, <2>1
  <2>2. CASE ~\A f \in from : f <= rs
    <3>1. PICK f \in from : ~(f <= rs)
      BY <2>2
    <3>2. from = {f}
      BY <3>1 DEF Optional
    <3>3. f \in Times /\ f <= f /\ rs <= f
      BY <1>1, <3>1
    <3>4. \A e \in re : f <= e
      BY <1>1, <1>3, <3>1
    <3>5. QED
      BY <3>2, <3>3, <3>4
  <2>3. QED
    BY <2>1, <2>2
<1>4. QED
  BY <1>2, <1>3 DEF NotApart

\* The date filters select what has an instant in common with what is asked.
LEMMA DatesHold == QueryCalls => DatesMean
<1>1. ASSUME QueryCalls, call.fn = "range"
      PROVE  /\ call.from \in Optional(Times) /\ call.to \in Optional(Times)
             /\ call.row = [start |-> call.row.start, end |-> call.row.end]
             /\ call.row.start \in Times /\ call.row.end \in Optional(Times)
  BY <1>1 DEF QueryCalls
<1>2. ASSUME QueryCalls, call.fn = "range", \A f \in call.from, e \in call.to : f <= e,
             \A f \in {call.row.start}, e \in call.row.end : f <= e
      PROVE  RangeSelected(DateTimeRangeInput(call.from, call.to), call.row) <=>
                \E t \in Times : /\ (\A f \in call.from : f <= t) /\ (\A e \in call.to : t <= e)
                                 /\ (\A f \in {call.row.start} : f <= t) /\ (\A e \in call.row.end : t <= e)
  <2> DEFINE from == call.from
             to == call.to
             rs == call.row.start
             re == call.row.end
  <2>1. /\ from \in Optional(Times) /\ to \in Optional(Times) /\ rs \in Times /\ re \in Optional(Times)
        /\ (\A f \in from, e \in to : f <= e) /\ \A e \in re : rs <= e
    BY <1>1, <1>2
  <2>2. call.row = [start |-> rs, end |-> re]
    BY <1>1, <1>2
  <2> HIDE DEF from, to, rs, re
  <2>3. RangeSelected(DateTimeRangeInput(from, to), [start |-> rs, end |-> re]) <=>
          NotApart(from, to, rs, re)
    BY <2>1, RangeAsked
  <2>4. (\E t \in Times : /\ (\A f \in from : f <= t) /\ (\A e \in to : t <= e)
                          /\ rs <= t /\ \A e \in re : t <= e)
          <=> NotApart(from, to, rs, re)
    BY <2>1, Overlap
  <2>5. QED
    BY <2>2, <2>3, <2>4 DEF from, to, rs, re
<1>3. ASSUME QueryCalls, call.fn = "single"
      PROVE  SingleSelected(SingleDateTimeInput(call.from, call.to), call.at)
               <=> (\A f \in call.from : f <= call.at) /\ (\A e \in call.to : call.at <= e)
  <2>1. call.from \subseteq Int /\ call.to \subseteq Int /\ call.at \in Int
    <3>1. call.from \in Optional(Times) /\ call.to \in Optional(Times) /\ call.at \in Times
      BY <1>3 DEF QueryCalls
    <3>2. \A S \in Optional(Times) : S \subseteq Times
      BY DEF Optional
    <3>3. call.from \subseteq Times /\ call.to \subseteq Times
      BY <3>1, <3>2
    <3>4. QED
      BY <3>1, <3>3, TimesAssumption
  <2>2. QED
    BY <2>1 DEF SingleSelected, SingleDateTimeInput
<1>4. QED
  BY <1>2, <1>3, Zenon DEF DatesMean

\* Every filter and parameter of a list selects what it says, for whatever
\* query, accounts, roles and instants.
THEOREM WhereMeansHolds == QueryCalls /\ [][UNCHANGED call]_call => []WhereMeans
<1>1. QueryCalls => WhereMeans
  BY TransformHolds, ParamsHold, UsersHold, DatesHold DEF WhereMeans
<1>2. QueryCalls /\ [UNCHANGED call]_call => QueryCalls'
  BY DEF QueryCalls
<1>3. QED
  BY <1>1, <1>2, PTL
=============================================================================
