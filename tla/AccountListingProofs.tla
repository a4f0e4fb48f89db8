-------------------------- MODULE AccountListingProofs -------------------------
(***************************************************************************)
(* AccountListing, for any table, any queries and any number of writes.    *)
(*                                                                         *)
(* A statement puts what it selects in a strict order as long as nothing   *)
(* ties, so k accounts come up to the k-th, and the offset of a page says  *)
(* how many come up to the page before it.  Inv keeps this through writes  *)
(* that leave the listed part alone: no more accounts come up to a listed  *)
(* one than the next page skips (nothing is repeated), and, from the first *)
(* page on, no less than it skips come up to one (nothing is missed).      *)
(***************************************************************************)
EXTENDS AccountListing, FiniteSetTheorems, SequenceTheorems, TLAPS

-----------------------------------------------------------------------------
(* A page of a sorted set, whatever the set *)

\* What sorts no later than j, and than some member of L.
Upto(M, v, j) == {i \in M : v[i] <= v[j]}
Covered(M, v, L) == {i \in M : \E j \in L : v[i] <= v[j]}

\* The members of s come one behind the other.
Increasing(s, v) == \A m, n \in DOMAIN s : m < n => v[s[m]] < v[s[n]]

\* A permutation has each member of the set once.
LEMMA Permuted ==
  ASSUME NEW M, IsFiniteSet(M), NEW s \in SetToSeqs(M)
  PROVE  /\ s \in Seq(M) /\ Len(s) = Cardinality(M) /\ Cardinality(M) \in Nat
         /\ DOMAIN s = 1..Len(s)
         /\ IsInjective(s)
         /\ \A i \in M : \E n \in DOMAIN s : s[n] = i
<1> DEFINE C == Cardinality(M)
<1>1. C \in Nat BY FS_CardinalityType
<1>2. s \in [1..C -> M] /\ \A i, j \in 1..C : i # j => s[i] # s[j] BY DEF SetToSeqs
<1>3. s \in Seq(M) BY <1>1, <1>2, SeqDef
<1>4. DOMAIN s = 1..Len(s) /\ Len(s) \in Nat BY <1>3, LenProperties
<1>5. DOMAIN s = 1..C BY <1>2
<1>6. Len(s) = C BY <1>1, <1>3, <1>4, <1>5
<1>7. IsInjective(s) BY <1>2, <1>5 DEF IsInjective
<1>8. s \in Injection(1..C, M) BY <1>2, <1>7 DEF Injection
<1>9. Cardinality(1..C) = C BY <1>1, FS_Interval
<1>10. s \in Surjection(1..C, M) BY <1>8, <1>9, FS_Injection
<1>11. \A i \in M : \E n \in DOMAIN s : s[n] = i BY <1>5, <1>10 DEF Surjection
<1> QED BY <1>1, <1>3, <1>4, <1>6, <1>7, <1>11

\* The lesser of two numbers.
LEMMA Lesser ==
  ASSUME NEW a \in Int, NEW b \in Int
  PROVE  Min({a, b}) = IF a <= b THEN a ELSE b
<1>1. \E x \in {a, b} : \A y \in {a, b} : x =< y OBVIOUS
<1>2. Min({a, b}) \in {a, b} /\ \A y \in {a, b} : Min({a, b}) =< y BY <1>1 DEF Min
<1> QED BY <1>2

\* The part of a sequence behind its o-th element, up to the e-th.
LEMMA Parts ==
  ASSUME NEW M, NEW s \in Seq(M), NEW o \in Nat, NEW e \in 0..Len(s)
  PROVE  /\ SubSeq(s, o + 1, e) \in Seq(M)
         /\ o < e => Len(SubSeq(s, o + 1, e)) = e - o
         /\ ~(o < e) => Len(SubSeq(s, o + 1, e)) = 0
         /\ \A n \in 1..Len(SubSeq(s, o + 1, e)) :
              o + n \in DOMAIN s /\ SubSeq(s, o + 1, e)[n] = s[o + n]
<1>1. Len(s) \in Nat /\ DOMAIN s = 1..Len(s) BY LenProperties
<1>2. e \in Nat /\ e <= Len(s) BY <1>1
<1>3. PICK a \in Int : a = o + 1 OBVIOUS
<1>4. \A i \in a..e : s[i] \in M
  <2>1. \A i \in a..e : i \in 1..Len(s) BY <1>1, <1>2, <1>3
  <2> QED BY <2>1, ElementOfSeq
<1>5. PICK page : page = SubSeq(s, a, e) OBVIOUS
<1>6. /\ page \in Seq(M)
      /\ Len(page) = IF a <= e THEN e - a + 1 ELSE 0
      /\ \A i \in 1..(e - a + 1) : page[i] = s[a + i - 1]
  BY <1>2, <1>4, <1>5, SubSeqProperties
<1>7. Len(page) \in Nat BY <1>6, LenProperties
<1>8. (o < e => Len(page) = e - o) /\ (~(o < e) => Len(page) = 0) BY <1>2, <1>3, <1>6
<1>9. ASSUME NEW n \in 1..Len(page) PROVE o + n \in DOMAIN s /\ page[n] = s[o + n]
  <2>1. n \in Nat /\ 1 <= n /\ n <= Len(page) BY <1>7, <1>9
  <2>2. o < e /\ Len(page) = e - o BY <1>2, <1>8, <2>1
  <2>3. n \in 1..(e - a + 1) /\ a + n - 1 = o + n BY <1>2, <1>3, <2>1, <2>2
  <2>4. o + n \in 1..Len(s) BY <1>1, <1>2, <2>1, <2>2
  <2> QED BY <1>1, <1>6, <2>3, <2>4
<1> QED BY <1>3, <1>5, <1>6, <1>8, <1>9

\* page is what skip(o).take(l) makes of s.
IsPage(page, s, o, l) ==
  /\ Len(page) \in 0..l
  /\ \A n \in 1..Len(page) : o + n \in DOMAIN s /\ page[n] = s[o + n]
  /\ \A p \in DOMAIN s : o < p /\ p <= o + l => p - o \in 1..Len(page)

\* It does so.
LEMMA SliceIsPage ==
  ASSUME NEW M, NEW s \in Seq(M), NEW o \in Nat, NEW l \in Nat \ {0}
  PROVE  /\ SubSeq(s, o + 1, Min({Len(s), o + l})) \in Seq(M)
         /\ IsPage(SubSeq(s, o + 1, Min({Len(s), o + l})), s, o, l)
<1>1. Len(s) \in Nat /\ DOMAIN s = 1..Len(s) BY LenProperties
<1>2. PICK e : e = Min({Len(s), o + l}) OBVIOUS
<1>3. e = IF Len(s) <= o + l THEN Len(s) ELSE o + l BY <1>1, <1>2, Lesser
<1>4. e \in 0..Len(s) BY <1>1, <1>3
<1>5. PICK page : page = SubSeq(s, o + 1, e) OBVIOUS
<1>6. /\ page \in Seq(M)
      /\ o < e => Len(page) = e - o
      /\ ~(o < e) => Len(page) = 0
      /\ \A n \in 1..Len(page) : o + n \in DOMAIN s /\ page[n] = s[o + n]
  BY <1>4, <1>5, Parts
<1>7. e \in Nat /\ e <= Len(s) /\ e <= o + l BY <1>1, <1>3
<1>8. Len(page) \in 0..l
  <2>1. CASE o < e BY <1>6, <1>7, <2>1
  <2>2. CASE ~(o < e) BY <1>6, <2>2
  <2> QED BY <2>1, <2>2
<1>9. ASSUME NEW p \in DOMAIN s, o < p, p <= o + l PROVE p - o \in 1..Len(page)
  <2>1. p \in Nat /\ p <= Len(s) BY <1>1
  <2>2. p <= e BY <1>1, <1>3, <1>9, <2>1
  <2>3. o < e BY <1>7, <1>9, <2>1, <2>2
  <2>4. p - o \in 1..(e - o) BY <1>7, <1>9, <2>1, <2>2
  <2> QED BY <1>6, <2>3, <2>4
<1> QED BY <1>2, <1>5, <1>6, <1>8, <1>9 DEF IsPage

\* Of a sorted set, k members come no later than the k-th.
LEMMA CountUpto ==
  ASSUME NEW D, NEW v \in [D -> Int], NEW M \in SUBSET D, IsFiniteSet(M),
         NEW s \in SetToSeqs(M), Increasing(s, v), NEW k \in DOMAIN s
  PROVE  Cardinality(Upto(M, v, s[k])) = k
<1> DEFINE U == Upto(M, v, s[k])
           f == [n \in 1..k |-> s[n]]
<1>1. /\ s \in Seq(M) /\ DOMAIN s = 1..Len(s) /\ Len(s) \in Nat /\ IsInjective(s)
      /\ \A i \in M : \E n \in DOMAIN s : s[n] = i
  BY Permuted
<1>2. k \in Nat /\ 1..k \subseteq DOMAIN s BY <1>1
<1>3. \A n \in DOMAIN s : s[n] \in M /\ v[s[n]] \in Int BY <1>1, ElementOfSeq
<1>4. \A n \in 1..k : s[n] \in U
  <2>1. SUFFICES ASSUME NEW n \in 1..k PROVE v[s[n]] <= v[s[k]]
    BY <1>2, <1>3 DEF Upto
  <2>2. CASE n = k BY <1>2, <1>3, <2>2
  <2>3. CASE n < k
    <3>1. n \in DOMAIN s /\ k \in DOMAIN s BY <1>2
    <3>2. v[s[n]] < v[s[k]] BY <2>3, <3>1 DEF Increasing
    <3> QED BY <1>3, <3>1, <3>2
  <2> QED BY <1>2, <2>2, <2>3
<1>5. \A i \in U : \E n \in 1..k : s[n] = i
  <2>1. SUFFICES ASSUME NEW i \in U PROVE \E n \in 1..k : s[n] = i OBVIOUS
  <2>2. i \in M /\ v[i] <= v[s[k]] BY DEF Upto
  <2>3. PICK n \in DOMAIN s : s[n] = i BY <1>1, <2>2
  <2>4. ~(k < n) BY <1>3, <2>2, <2>3 DEF Increasing
  <2>5. n \in 1..k BY <1>1, <2>4
  <2> QED BY <2>3, <2>5
<1> HIDE DEF U
<1>6. f \in [1..k -> U] BY <1>4
<1>7. f \in Surjection(1..k, U) BY <1>5, <1>6 DEF Surjection
<1>8. IsInjective(f) BY <1>1, <1>2 DEF IsInjective
<1>9. f \in Injection(1..k, U) BY <1>6, <1>8 DEF Injection
<1>10. IsFiniteSet(1..k) /\ Cardinality(1..k) = k BY <1>1, <1>2, FS_Interval
<1>11. Cardinality(U) = k BY <1>7, <1>9, <1>10, FS_Surjection
<1> QED BY <1>11 DEF U

\* As many members come up to a member of the page as were skipped and are on the page
\* up to it.
LEMMA PageAhead ==
  ASSUME NEW D, NEW v \in [D -> Int], NEW M \in SUBSET D, IsFiniteSet(M),
         NEW s \in SetToSeqs(M), Increasing(s, v),
         NEW o \in Nat, NEW l \in Nat \ {0}, NEW page, IsPage(page, s, o, l),
         NEW n \in 1..Len(page)
  PROVE  page[n] \in M /\ Cardinality(Upto(M, v, page[n])) = o + n
<1>1. o + n \in DOMAIN s /\ page[n] = s[o + n] BY DEF IsPage
<1>2. s \in Seq(M) /\ DOMAIN s = 1..Len(s) BY Permuted
<1>3. s[o + n] \in M BY <1>1, <1>2, ElementOfSeq
<1>4. PICK k \in DOMAIN s : k = o + n BY <1>1
<1>5. Cardinality(Upto(M, v, s[k])) = k BY CountUpto
<1> QED BY <1>1, <1>3, <1>4, <1>5

\* A page comes behind everything that no more come up to than were skipped.
LEMMA PageLater ==
  ASSUME NEW D, NEW v \in [D -> Int], NEW M \in SUBSET D, IsFiniteSet(M),
         NEW s \in SetToSeqs(M), Increasing(s, v),
         NEW o \in Nat, NEW l \in Nat \ {0}, NEW page, IsPage(page, s, o, l),
         NEW n \in 1..Len(page), NEW j \in D, Cardinality(Upto(M, v, j)) <= o
  PROVE  v[j] < v[page[n]]
<1>1. page[n] \in M /\ Cardinality(Upto(M, v, page[n])) = o + n BY PageAhead
<1>2. n \in Nat \ {0} BY DEF IsPage
<1>3. v[j] \in Int /\ \A i \in M : v[i] \in Int OBVIOUS
<1>4. ASSUME v[page[n]] <= v[j] PROVE FALSE
  <2>1. Upto(M, v, page[n]) \subseteq Upto(M, v, j)
    <3>1. SUFFICES ASSUME NEW i \in M, v[i] <= v[page[n]] PROVE v[i] <= v[j] BY DEF Upto
    <3> QED BY <1>1, <1>3, <1>4, <3>1
  <2>2. Upto(M, v, j) \in SUBSET M BY DEF Upto
  <2>3. IsFiniteSet(Upto(M, v, j)) BY <2>2, FS_Subset
  <2>4. Cardinality(Upto(M, v, page[n])) <= Cardinality(Upto(M, v, j))
    BY <2>1, <2>3, FS_Subset
  <2>5. Cardinality(Upto(M, v, j)) \in Nat BY <2>3, FS_CardinalityType
  <2> QED BY <1>1, <1>2, <2>4, <2>5
<1> QED BY <1>1, <1>3, <1>4

\* The members of a page come one behind the other.
LEMMA PageInOrder ==
  ASSUME NEW D, NEW v \in [D -> Int], NEW M \in SUBSET D, IsFiniteSet(M),
         NEW s \in SetToSeqs(M), Increasing(s, v),
         NEW o \in Nat, NEW l \in Nat \ {0}, NEW page, IsPage(page, s, o, l),
         NEW m \in 1..Len(page), NEW n \in 1..Len(page), m < n
  PROVE  v[page[m]] < v[page[n]]
<1>1. m \in Nat /\ n \in Nat BY DEF IsPage
<1>2. /\ o + m \in DOMAIN s /\ page[m] = s[o + m]
      /\ o + n \in DOMAIN s /\ page[n] = s[o + n]
  BY DEF IsPage
<1>3. o + m < o + n BY <1>1
<1> QED BY <1>2, <1>3 DEF Increasing

\* Let T be what must be listed, and L what is.  If no less than the skipped members come up
\* to L, those of T that are skipped are listed.
LEMMA Skipped ==
  ASSUME NEW D, NEW v \in [D -> Int], NEW M \in SUBSET D, IsFiniteSet(M),
         NEW s \in SetToSeqs(M), Increasing(s, v), NEW o \in Nat,
         NEW L \in SUBSET M, NEW T \in SUBSET M, T \cap Covered(M, v, L) \subseteq L,
         T \subseteq L \/ Cardinality(Covered(M, v, L)) >= o,
         NEW p \in DOMAIN s, p <= o, s[p] \in T
  PROVE  s[p] \in L
<1> DEFINE i == s[p]
           C == Covered(M, v, L)
<1>1. SUFFICES ASSUME ~(T \subseteq L), i \notin C PROVE FALSE OBVIOUS
<1>2. Cardinality(C) >= o BY <1>1
<1>3. i \in M /\ \A x \in M : v[x] \in Int OBVIOUS
<1>4. C \subseteq Upto(M, v, i) \ {i}
  <2>1. SUFFICES ASSUME NEW x \in C PROVE x \in Upto(M, v, i) \ {i} OBVIOUS
  <2>2. x \in M BY DEF Covered
  <2>3. PICK j \in L : v[x] <= v[j] BY DEF Covered
  <2>4. j \in M OBVIOUS
  <2>5. ~(v[i] <= v[j]) BY <1>1, <1>3 DEF Covered
  <2>6. v[x] \in Int /\ v[j] \in Int /\ v[i] \in Int BY <1>3, <2>2, <2>4
  <2>7. v[x] <= v[i] BY <2>3, <2>5, <2>6
  <2>8. x \in Upto(M, v, i) BY <2>2, <2>7 DEF Upto
  <2> QED BY <1>1, <2>8
<1>5. Cardinality(Upto(M, v, i)) = p BY CountUpto
<1>6. Upto(M, v, i) \in SUBSET M /\ i \in Upto(M, v, i) BY <1>3 DEF Upto
<1>7. IsFiniteSet(Upto(M, v, i)) BY <1>6, FS_Subset
<1>8. IsFiniteSet(Upto(M, v, i) \ {i}) /\ Cardinality(Upto(M, v, i) \ {i}) = p - 1
  BY <1>5, <1>6, <1>7, FS_RemoveElement
<1>9. Cardinality(C) <= p - 1 /\ IsFiniteSet(C) BY <1>4, <1>8, FS_Subset
<1>10. Cardinality(C) \in Nat BY <1>9, FS_CardinalityType
<1>11. p \in Nat BY Permuted
<1> HIDE DEF i, C
<1> QED BY <1>2, <1>9, <1>10, <1>11

\* What is listed with a page.
With(L, page) == L \cup {page[n] : n \in 1..Len(page)}

\* Then what comes up to the new page and is listed is so with the page; and the next page
\* may skip this one, unless all is listed.
LEMMA PageCovers ==
  ASSUME NEW D, NEW v \in [D -> Int], NEW M \in SUBSET D, IsFiniteSet(M),
         NEW s \in SetToSeqs(M), Increasing(s, v),
         NEW o \in Nat, NEW l \in Nat \ {0}, NEW page, IsPage(page, s, o, l),
         NEW L \in SUBSET M, NEW T \in SUBSET M, T \cap Covered(M, v, L) \subseteq L,
         T \subseteq L \/ Cardinality(Covered(M, v, L)) >= o,
         NEW N, N = With(L, page)
  PROVE  /\ T \cap Covered(M, v, N) \subseteq N
         /\ T \subseteq N \/ (Cardinality(Covered(M, v, N)) >= o + l /\ Len(page) = l)
<1>0. N = L \cup {page[n] : n \in 1..Len(page)} BY DEF With
<1>1. /\ s \in Seq(M) /\ DOMAIN s = 1..Len(s) /\ Len(s) \in Nat
      /\ \A i \in M : \E n \in DOMAIN s : s[n] = i
  BY Permuted
<1>2. \A i \in M : v[i] \in Int OBVIOUS
<1>3. ASSUME NEW p \in DOMAIN s
      PROVE  p \in Nat /\ (p <= o /\ s[p] \in T => s[p] \in L)
  <2>1. p \in Nat BY <1>1
  <2>2. ASSUME p <= o, s[p] \in T PROVE s[p] \in L BY <2>2, Skipped
  <2> QED BY <2>1, <2>2
<1>4. \A p \in DOMAIN s : o < p /\ p <= o + l => s[p] \in N
  <2>1. SUFFICES ASSUME NEW p \in DOMAIN s, o < p, p <= o + l PROVE s[p] \in N OBVIOUS
  <2>2. p \in Nat BY <1>3
  <2>3. p - o \in 1..Len(page) BY <2>1 DEF IsPage
  <2>4. page[p - o] = s[o + (p - o)] BY <2>3 DEF IsPage
  <2>5. o + (p - o) = p BY <2>2
  <2> QED BY <1>0, <2>3, <2>4, <2>5
<1>5. \A n \in 1..Len(page) : o + n \in DOMAIN s /\ page[n] = s[o + n] /\ n \in Nat /\ n <= l
  <2>1. Len(page) \in Nat /\ Len(page) <= l BY DEF IsPage
  <2>2. \A n \in 1..Len(page) : n \in Nat /\ n <= l BY <2>1
  <2> QED BY <2>2 DEF IsPage
<1>6. N \subseteq M BY <1>0, <1>1, <1>5, ElementOfSeq
<1>7. ASSUME NEW i \in T, i \in Covered(M, v, N) PROVE i \in N
  <2>1. PICK j \in N : v[i] <= v[j] BY <1>7 DEF Covered
  <2>2. CASE j \in L
    <3>1. i \in Covered(M, v, L) BY <2>1, <2>2 DEF Covered
    <3> QED BY <1>0, <3>1
  <2>3. CASE \E n \in 1..Len(page) : j = page[n]
    <3>1. PICK n \in 1..Len(page) : j = page[n] BY <2>3
    <3>2. o + n \in DOMAIN s /\ j = s[o + n] /\ n \in Nat /\ n <= l BY <1>5, <3>1
    <3>3. PICK p \in DOMAIN s : s[p] = i BY <1>1
    <3>4. p \in Nat BY <1>3
    <3>5. ~(v[s[o + n]] < v[s[p]])
      <4>1. i \in M /\ j \in M BY <1>6
      <4> QED BY <1>2, <2>1, <3>2, <3>3, <4>1
    <3>6. ~(o + n < p) BY <3>2, <3>3, <3>5 DEF Increasing
    <3>7. p <= o + l BY <3>2, <3>4, <3>6
    <3>8. CASE p <= o BY <1>0, <1>3, <1>7, <3>3, <3>8
    <3>9. CASE o < p BY <1>4, <3>3, <3>7, <3>9
    <3> QED BY <3>4, <3>8, <3>9
  <2> QED BY <1>0, <2>2, <2>3
<1>8. ASSUME NEW i \in T, i \notin N
      PROVE  Cardinality(Covered(M, v, N)) >= o + l /\ Len(page) = l
  <2>1. PICK p \in DOMAIN s : s[p] = i BY <1>1
  <2>2. p \in Nat /\ p <= Len(s) BY <1>1
  <2>3. ~(p <= o) BY <1>0, <1>3, <1>8, <2>1
  <2>4. o + l < p BY <1>4, <1>8, <2>1, <2>2, <2>3
  <2>5. PICK k \in Nat : k = o + l OBVIOUS
  <2>6. k \in DOMAIN s /\ o < k /\ k <= o + l BY <1>1, <2>2, <2>4, <2>5
  <2>7. s[k] \in N BY <1>4, <2>6
  <2>8. Upto(M, v, s[k]) \subseteq Covered(M, v, N) BY <2>7 DEF Upto, Covered
  <2>9. Cardinality(Upto(M, v, s[k])) = k BY <2>6, CountUpto
  <2>10. Covered(M, v, N) \in SUBSET M BY DEF Covered
  <2>11. IsFiniteSet(Covered(M, v, N)) BY <2>10, FS_Subset
  <2>12. k <= Cardinality(Covered(M, v, N)) BY <2>8, <2>9, <2>11, FS_Subset
  <2>13. PICK c \in Nat : c = Cardinality(Covered(M, v, N)) BY <2>11, FS_CardinalityType
  <2>14. l \in 1..Len(page)
    <3>1. k - o \in 1..Len(page) BY <2>6 DEF IsPage
    <3> QED BY <2>5, <3>1
  <2>15. Len(page) = l
    <3>1. Len(page) \in 0..l BY DEF IsPage
    <3> QED BY <2>14, <3>1
  <2>16. c >= o + l BY <2>5, <2>12, <2>13
  <2> QED BY <2>13, <2>15, <2>16
<1> QED BY <1>7, <1>8

-----------------------------------------------------------------------------
(* The numbers of a query *)

PageOf(q) == IF q.page = 0 THEN 1 ELSE q.page

\* Two queries filter and sort alike.
Alike(p, q) ==
  /\ p.user = q.user /\ p.venue = q.venue /\ p.enabled = q.enabled
  /\ p.createdAfter = q.createdAfter
  /\ p.sortedBy = q.sortedBy /\ p.sortedDirection = q.sortedDirection
  /\ p.sortOrder = q.sortOrder

\* The product of two natural numbers is one.
LEMMA Products ==
  ASSUME NEW a \in Nat, NEW b \in Nat
  PROVE  a * b \in Nat
OBVIOUS

\* getLimit and getOffset.
LEMMA QueryNumbers ==
  ASSUME NEW q \in AllQueries
  PROVE  /\ GetLimit(q) \in Nat \ {0} /\ PageOf(q) \in Nat \ {0} /\ GetOffset(q) \in Nat
         /\ q.offset # Undefined => GetOffset(q) = q.offset
         /\ q.offset = Undefined => GetOffset(q) = (PageOf(q) - 1) * GetLimit(q)
<1>1. q.page \in Nat /\ q.limit \in Nat \cup {Undefined} /\ q.offset \in Nat \cup {Undefined}
  BY DEF AllQueries
<1>2. GetLimit(q) \in Nat \ {0} BY <1>1, ListingAssumption DEF GetLimit
<1>3. PageOf(q) \in Nat \ {0} BY <1>1 DEF PageOf
<1>4. q.offset # Undefined => GetOffset(q) = q.offset BY DEF GetOffset
<1>5. q.offset = Undefined => GetOffset(q) = (PageOf(q) - 1) * GetLimit(q)
  BY DEF GetOffset, PageOf
<1>6. PageOf(q) - 1 \in Nat BY <1>3
<1>7. (PageOf(q) - 1) * GetLimit(q) \in Nat BY <1>2, <1>6, Products
<1> QED BY <1>1, <1>2, <1>3, <1>4, <1>5, <1>7

\* A division that rounds up.
LEMMA RoundedUp ==
  ASSUME NEW total \in Nat, NEW limit \in Nat \ {0}
  PROVE  /\ TotalPages(total, limit) \in 0..total
         /\ \A p \in Nat : p * limit < total => p < TotalPages(total, limit)
<1> DEFINE x == total + limit - 1
           d == x \div limit
<1>1. x \in Nat /\ limit \in Int /\ limit > 0 OBVIOUS
<1>2. d \in Int /\ limit * d <= x /\ x < limit * (d + 1)
  <2> HIDE DEF x
  <2> QED BY <1>1
<1>3. d \in Nat
  <2>1. ASSUME d + 1 <= 0 PROVE FALSE
    <3>1. limit * (d + 1) <= 0 BY <1>1, <1>2, <2>1
    <3> QED BY <1>1, <1>2, <3>1
  <2> QED BY <1>2, <2>1
<1>4. d <= total
  <2>1. ASSUME d >= total + 1 PROVE FALSE
    <3>1. PICK e \in Nat : d = total + 1 + e BY <1>2, <2>1
    <3>2. limit * d = limit * total + limit + limit * e BY <3>1
    <3>3. PICK m \in Nat : limit = m + 1
      <4>1. limit - 1 \in Nat /\ limit = (limit - 1) + 1 OBVIOUS
      <4> QED BY <4>1
    <3>4. limit * total = m * total + total
      <4>1. (m + 1) * total = m * total + total OBVIOUS
      <4> QED BY <3>3, <4>1
    <3>5. m * total \in Nat /\ limit * e \in Nat BY Products
    <3> QED BY <1>2, <3>2, <3>4, <3>5
  <2> QED BY <1>2, <2>1
<1>5. ASSUME NEW p \in Nat, p * limit < total PROVE p < d
  <2>1. ASSUME d <= p PROVE FALSE
    <3>1. PICK e \in Nat : p = d + e
      <4>1. p - d \in Nat /\ p = d + (p - d) BY <1>3, <2>1
      <4> QED BY <4>1
    <3>2. p * limit = limit * d + limit * e BY <1>3, <3>1
    <3>3. limit * e \in Nat BY Products
    <3>4. limit * (d + 1) = limit * d + limit BY <1>3
    <3> QED BY <1>2, <1>3, <1>5, <3>2, <3>3, <3>4
  <2> QED BY <1>3, <2>1
<1>6. d \in 0..total BY <1>3, <1>4
<1>7. TotalPages(total, limit) = d BY DEF TotalPages
<1> HIDE DEF d
<1> QED BY <1>5, <1>6, <1>7

-----------------------------------------------------------------------------
(* The order of a statement, and the invariant *)

\* The value an account is sorted by, so that less comes first, sorting one way or the other.
Place(t, q, direction) ==
  [i \in DOMAIN t |-> IF direction = "DESC" THEN 0 - SortValue(t, i, q) ELSE SortValue(t, i, q)]

Direction == IF Descending(query) THEN "DESC" ELSE "ASC"

\* What the query means now, and its order.
Here == Meant(rows, query)
Order == Place(rows, query, Direction)

\* None of s comes before an earlier one.
InSequence(s, v) == \A m, n \in DOMAIN s : m < n => v[s[m]] <= v[s[n]]

\* A walk is on, or came to its end.
Walked == Walking \/ pc = "done"

\* The walk asks a query that can be sorted, and a reply answers it.
Shape ==
  /\ TypeOK
  /\ reply \in [total : Nat, page : Nat, pageSizeLimit : Nat, totalPages : Nat]
  /\ pc # "idle" => query \in AllQueries /\ fetched \in 0..GetLimit(query)
  /\ pc = "idle" => fetched = 0
  /\ Walked => bootstrap # "plain" /\ Sortable(query) /\ throughout \subseteq Here
  /\ ~Walked => listed = << >>
  /\ pc \in {"turn", "done"} =>
       reply.page = PageOf(query) /\ reply.pageSizeLimit = GetLimit(query)

\* How many rows the pages listed so far leave behind.
NextOffset == IF pc = "select" THEN GetOffset(query) ELSE GetOffset(query) + GetLimit(query)

\* The service does as the query says, and none of these has happened.
Holding(flags) == Walked /\ Honoured /\ upset \cap flags = {}

\* What is listed is meant as long as nothing listed leaves.
StillMeant == Holding({"left"}) => Range(listed) \subseteq Here

\* Nothing is listed twice, and the next page skips whatever comes up to a listed account.
Placed ==
  Holding({"entered", "moved", "tied"}) =>
    /\ IsInjective(listed)
    /\ \A j \in Range(listed) \cap Here : Cardinality(Upto(Here, Order, j)) <= NextOffset

\* The pages are in order.
InOrder == Holding({"left", "entered", "moved", "tied"}) => InSequence(listed, Order)

\* Of what comes up to a listed account, whatever was meant throughout is listed; and the
\* next page skips no more than that, unless all is listed.
Gapless ==
  Holding({"left", "moved", "tied"}) =>
    /\ throughout \cap Covered(Here, Order, Range(listed)) \subseteq Range(listed)
    /\ \/ throughout \subseteq Range(listed)
       \/ /\ Cardinality(Covered(Here, Order, Range(listed))) >= NextOffset
          /\ pc # "done"
          /\ pc = "turn" => More

-----------------------------------------------------------------------------
(* What the statements and the history say of order *)

\* A table's rows are numbered, and what a query means is among them.
LEMMA Meanings ==
  ASSUME NEW t \in Seq(Row), NEW q
  PROVE  /\ Meant(t, q) \in SUBSET (DOMAIN t) /\ IsFiniteSet(Meant(t, q))
         /\ DOMAIN t = 1..Len(t) /\ Len(t) \in Nat
<1>1. DOMAIN t = 1..Len(t) /\ Len(t) \in Nat BY LenProperties
<1>2. IsFiniteSet(DOMAIN t) BY <1>1, FS_Interval
<1>3. Meant(t, q) \in SUBSET (DOMAIN t) BY DEF Meant
<1> QED BY <1>1, <1>2, <1>3, FS_Subset

\* The values of a column are numbers.
LEMMA Places ==
  ASSUME NEW t \in Seq(Row), NEW q \in AllQueries, Sortable(q), NEW direction
  PROVE  /\ \A i \in DOMAIN t : SortValue(t, i, q) \in Nat
         /\ Place(t, q, direction) \in [DOMAIN t -> Int]
         /\ \A i \in DOMAIN t :
              Place(t, q, direction)[i] =
                IF direction = "DESC" THEN 0 - SortValue(t, i, q) ELSE SortValue(t, i, q)
<1>1. ASSUME NEW i \in DOMAIN t PROVE SortValue(t, i, q) \in Nat
  <2>1. i \in Nat /\ t[i] \in Row BY LenProperties, ElementOfSeq
  <2>2. t[i].updatedAt \in Nat /\ t[i].name \in Nat BY <2>1, ListingAssumption DEF Row
  <2>3. q.sortedBy \in {"createdAt", "updatedAt", "name"} BY DEF Sortable, AllQueries
  <2> QED BY <2>1, <2>2, <2>3 DEF SortValue
<1>2. \A i \in DOMAIN t :
        (IF direction = "DESC" THEN 0 - SortValue(t, i, q) ELSE SortValue(t, i, q)) \in Int
  BY <1>1
<1> QED BY <1>1, <1>2 DEF Place

\* NotAfter goes by that order.
LEMMA NotAfterPlaces ==
  ASSUME NEW t \in Seq(Row), query \in AllQueries, Sortable(query),
         NEW i \in DOMAIN t, NEW j \in DOMAIN t
  PROVE  NotAfter(t, i, j) <=>
           Place(t, query, Direction)[i] <= Place(t, query, Direction)[j]
<1>1. SortValue(t, i, query) \in Nat /\ SortValue(t, j, query) \in Nat BY Places
<1>2. CASE Descending(query)
  <2>1. Direction = "DESC" BY <1>2 DEF Direction
  <2>2. /\ Place(t, query, Direction)[i] = 0 - SortValue(t, i, query)
        /\ Place(t, query, Direction)[j] = 0 - SortValue(t, j, query)
    BY <2>1, Places
  <2>3. NotAfter(t, i, j) <=> SortValue(t, i, query) >= SortValue(t, j, query)
    BY <1>2 DEF NotAfter
  <2> QED BY <1>1, <2>2, <2>3
<1>3. CASE ~Descending(query)
  <2>1. Direction # "DESC" BY <1>3 DEF Direction
  <2>2. /\ Place(t, query, Direction)[i] = SortValue(t, i, query)
        /\ Place(t, query, Direction)[j] = SortValue(t, j, query)
    BY <2>1, Places
  <2>3. NotAfter(t, i, j) <=> SortValue(t, i, query) <= SortValue(t, j, query)
    BY <1>3 DEF NotAfter
  <2> QED BY <1>1, <2>2, <2>3
<1> QED BY <1>2, <1>3

\* So does Ordered.
LEMMA OrderedPlaces ==
  ASSUME rows \in Seq(Row), query \in AllQueries, Sortable(query), NEW s \in Seq(DOMAIN rows)
  PROVE  Ordered(s, Descending(query), query) <=> InSequence(s, Order)
<1>1. \A m \in DOMAIN s : s[m] \in DOMAIN rows BY LenProperties, ElementOfSeq
<1>2. Ordered(s, Descending(query), query) <=>
        \A m, n \in DOMAIN s : m < n => NotAfter(rows, s[m], s[n])
  BY DEF Ordered, NotAfter
<1>3. \A m, n \in DOMAIN s : NotAfter(rows, s[m], s[n]) <=> Order[s[m]] <= Order[s[n]]
  BY <1>1, NotAfterPlaces DEF Order
<1> QED BY <1>2, <1>3 DEF InSequence

\* A query that can be honoured selects what it means.
LEMMA SelectsMeant ==
  ASSUME TypeOK, query \in AllQueries, Honoured
  PROVE  Matching(query) = Here
<1>1. service \in {"cex", "dex"} BY ListingAssumption DEF TypeOK
<1>2. EnabledOf(query) = query.enabled
  <2>1. query.enabled \in {Undefined, "true", "false"} BY DEF AllQueries, Flags
  <2> QED BY <2>1 DEF Honoured, EnabledOf
<1> QED BY <1>1, <1>2 DEF Honoured, Matching, Matches, Here, Meant

\* Where no two have one place, a statement leaves no choice.
LEMMA StrictlyOrdered ==
  ASSUME rows \in Seq(Row), query \in AllQueries, Sortable(query), ~Tied(query),
         NEW s \in SetToSeqs(Here), Ordered(s, Descending(query), query)
  PROVE  Increasing(s, Order)
<1>1. Here \in SUBSET (DOMAIN rows) /\ IsFiniteSet(Here) BY Meanings DEF Here
<1>2. s \in Seq(Here) /\ DOMAIN s = 1..Len(s) /\ Len(s) \in Nat /\ IsInjective(s)
  BY <1>1, Permuted
<1>3. s \in Seq(DOMAIN rows) BY <1>1, <1>2, SeqMonotonic
<1>4. InSequence(s, Order) BY <1>3, OrderedPlaces
<1>5. SUFFICES ASSUME NEW m \in DOMAIN s, NEW n \in DOMAIN s, m < n
               PROVE  Order[s[m]] < Order[s[n]]
  BY DEF Increasing
<1>6. s[m] \in Here /\ s[n] \in Here BY <1>2, ElementOfSeq
<1>7. s[m] # s[n] BY <1>2, <1>5 DEF IsInjective
<1>8. SortValue(rows, s[m], query) # SortValue(rows, s[n], query)
  BY <1>6, <1>7 DEF Tied, Here
<1>9. SortValue(rows, s[m], query) \in Nat /\ SortValue(rows, s[n], query) \in Nat
  BY <1>1, <1>6, Places
<1>10. \A i \in {s[m], s[n]} :
         Order[i] = IF Direction = "DESC" THEN 0 - SortValue(rows, i, query)
                                          ELSE SortValue(rows, i, query)
  BY <1>1, <1>6, Places DEF Order
<1>11. Order[s[m]] # Order[s[n]] /\ Order[s[m]] \in Int /\ Order[s[n]] \in Int
  BY <1>8, <1>9, <1>10
<1>12. Order[s[m]] <= Order[s[n]] BY <1>4, <1>5 DEF InSequence
<1> QED BY <1>11, <1>12

\* Alike queries mean the same, in the same order.
LEMMA AlikeQueries ==
  ASSUME NEW p, NEW q, Alike(p, q)
  PROVE  /\ \A t : Meant(t, p) = Meant(t, q)
         /\ \A t, direction : Place(t, p, direction) = Place(t, q, direction)
         /\ Sortable(p) <=> Sortable(q)
         /\ Descending(p) <=> Descending(q)
<1>1. \A t : Meant(t, p) = Meant(t, q) BY DEF Meant, Alike
<1>2. \A t, i : SortValue(t, i, p) = SortValue(t, i, q) BY DEF SortValue, Alike
<1>3. \A t, direction : Place(t, p, direction) = Place(t, q, direction) BY <1>2 DEF Place
<1>4. Sortable(p) <=> Sortable(q) BY DEF Sortable, Alike
<1>5. Descending(p) <=> Descending(q) BY DEF Descending, SortedDirection, Alike
<1> QED BY <1>1, <1>3, <1>4, <1>5

\* The next page starts where this one ends.
LEMMA NextPages ==
  ASSUME Shape, pc = "turn"
  PROVE  /\ NextQuery \in AllQueries /\ Alike(NextQuery, query)
         /\ GetLimit(NextQuery) = GetLimit(query)
         /\ GetOffset(NextQuery) = GetOffset(query) + GetLimit(query)
<1>1. query \in AllQueries /\ reply.page = PageOf(query) /\ reply.pageSizeLimit = GetLimit(query)
  BY DEF Shape
<1>2. GetLimit(query) \in Nat \ {0} /\ PageOf(query) \in Nat \ {0} /\ GetOffset(query) \in Nat
  BY <1>1, QueryNumbers
<1>3. CASE query.offset # Undefined
  <2>1. query.offset \in Nat BY <1>1, <1>3 DEF AllQueries
  <2>2. PICK o \in Nat : o = query.offset + GetLimit(query) BY <1>2, <2>1
  <2>3. NextQuery = [query EXCEPT !.offset = o] BY <1>1, <1>3, <2>2 DEF NextQuery
  <2>4. NextQuery \in AllQueries /\ Alike(NextQuery, query) /\ NextQuery.limit = query.limit
        /\ NextQuery.offset = o
    BY <1>1, <2>2, <2>3 DEF AllQueries, Alike
  <2>5. GetLimit(NextQuery) = GetLimit(query) BY <2>4 DEF GetLimit
  <2>6. GetOffset(query) = query.offset BY <1>1, <1>3, QueryNumbers
  <2>7. GetOffset(NextQuery) = o
    BY <2>2, <2>4, QueryNumbers, ListingAssumption
  <2> QED BY <2>2, <2>4, <2>5, <2>6, <2>7
<1>4. CASE query.offset = Undefined
  <2>1. PICK g \in Nat : g = PageOf(query) + 1 BY <1>2
  <2>2. NextQuery = [query EXCEPT !.page = g] BY <1>1, <1>4, <2>1 DEF NextQuery
  <2>3. NextQuery \in AllQueries /\ Alike(NextQuery, query) /\ NextQuery.limit = query.limit
        /\ NextQuery.offset = Undefined /\ NextQuery.page = g
    BY <1>1, <1>4, <2>1, <2>2 DEF AllQueries, Alike
  <2>4. GetLimit(NextQuery) = GetLimit(query) BY <2>3 DEF GetLimit
  <2>5. PageOf(NextQuery) = g BY <1>2, <2>1, <2>3 DEF PageOf
  <2>6. GetOffset(NextQuery) = (g - 1) * GetLimit(query)
    BY <2>3, <2>4, <2>5, QueryNumbers
  <2>7. GetOffset(query) = (PageOf(query) - 1) * GetLimit(query) BY <1>1, <1>4, QueryNumbers
  <2>8. \A a, b \in Nat : a * b + b = (a + 1) * b OBVIOUS
  <2>9. PICK a \in Nat : a = PageOf(query) - 1 BY <1>2
  <2>10. a + 1 = g - 1 BY <1>2, <2>1, <2>9
  <2>11. (a + 1) * GetLimit(query) = a * GetLimit(query) + GetLimit(query) BY <1>2, <2>8
  <2>12. GetOffset(NextQuery) = GetOffset(query) + GetLimit(query)
    BY <2>6, <2>7, <2>9, <2>10, <2>11
  <2> QED BY <2>3, <2>4, <2>12
<1> QED BY <1>3, <1>4

-----------------------------------------------------------------------------
(* Types *)

\* The program starts in the right shape.
LEMMA InitShape == Init => Shape
<1> SUFFICES ASSUME Init PROVE Shape OBVIOUS
<1>1. rows \in Seq(Row) /\ Len(rows) \in Nat BY ListingAssumption, LenProperties DEF Init
<1>2. clock \in StartTime..MaxTime BY ListingAssumption DEF Init
<1>3. reply = NoReply BY DEF Init
<1>4. listed = << >> /\ pc = "idle" /\ fetched = 0 /\ throughout = {} /\ upset = {}
      /\ query = Undefined /\ service \in Services /\ bootstrap \in Bootstraps
  BY DEF Init
<1>5. listed \in Seq(DOMAIN rows) BY <1>4, EmptySeq
<1>6. reply \in [total : Nat, page : Nat, pageSizeLimit : Nat, totalPages : Nat]
      /\ reply.total = 0 /\ reply.totalPages = 0
  BY <1>3 DEF NoReply
<1>7. ~Walked BY <1>4 DEF Walked, Walking
<1>8. query # Undefined => fetched \in 0..GetLimit(query) BY <1>4
<1>9. reply.total \in 0..Len(rows) /\ reply.totalPages \in 0..Len(rows) BY <1>1, <1>6
<1>10. TypeOK BY <1>1, <1>2, <1>4, <1>5, <1>8, <1>9 DEF TypeOK
<1> QED BY <1>4, <1>6, <1>7, <1>10 DEF Shape

\* Asking a query leaves the shape.
LEMMA AskShape ==
  ASSUME Shape, Ask
  PROVE  Shape'
<1>1. PICK q \in Queries :
        /\ query' = q
        /\ pc' = CASE ~Valid(q) -> "refused"
                   [] Valid(q) /\ (bootstrap = "plain" \/ ~Sortable(q)) -> "failed"
                   [] OTHER -> "select"
        /\ throughout' = Meant(rows, q)
  BY DEF Ask
<1>2. /\ pc = "idle" /\ service' = service /\ bootstrap' = bootstrap /\ rows' = rows
      /\ clock' = clock /\ fetched' = fetched /\ reply' = reply /\ listed' = listed
      /\ upset' = upset
  BY DEF Ask, setting, table
<1>3. /\ pc' \in {"refused", "failed", "select"}
      /\ pc' = "select" => bootstrap # "plain" /\ Sortable(q)
  BY <1>1
<1>4. ~Walked /\ listed = << >> /\ fetched = 0 /\ TypeOK
  BY <1>2 DEF Shape, Walked, Walking
<1>5. q \in AllQueries BY ListingAssumption
<1>6. GetLimit(q) \in Nat BY <1>5, QueryNumbers
<1>7. rows \in Seq(Row) BY <1>4 DEF TypeOK
<1>8. Meant(rows, q) \in SUBSET (DOMAIN rows) BY <1>7, Meanings
<1>9. GetLimit(query)' = GetLimit(q) BY <1>1 DEF GetLimit
<1>10. fetched' \in 0..GetLimit(query)' BY <1>2, <1>4, <1>6, <1>9
<1>11. TypeOK' BY <1>1, <1>2, <1>3, <1>4, <1>5, <1>8, <1>10 DEF TypeOK
<1>12. Here' = Meant(rows, q) BY <1>1, <1>2 DEF Here
<1>13. Walked' => pc' = "select" BY <1>3 DEF Walked, Walking
<1>14. Sortable(query)' <=> Sortable(q) BY <1>1 DEF Sortable
<1>15. Walked' => bootstrap' # "plain" /\ Sortable(query)' /\ throughout' \subseteq Here'
  BY <1>1, <1>2, <1>3, <1>12, <1>13, <1>14
<1>16. /\ reply' \in [total : Nat, page : Nat, pageSizeLimit : Nat, totalPages : Nat]
       /\ pc' # "idle" /\ query' \in AllQueries /\ listed' = << >>
       /\ pc' \notin {"turn", "done"}
  BY <1>1, <1>2, <1>3, <1>4, <1>5 DEF Shape
<1> QED BY <1>10, <1>11, <1>15, <1>16 DEF Shape

\* The first statement orders what matches into s and brings a page of it.
Brings(s, page) ==
  /\ Ordered(s, Descending(query), query)
  /\ IsPage(page, s, GetOffset(query), GetLimit(query))
  /\ listed' = listed \o page
  /\ fetched' = Len(page)

Brought == \E s \in SetToSeqs(Matching(query)) : \E page \in Seq(Matching(query)) : Brings(s, page)

\* What matches is among the rows.
LEMMA MatchingRows ==
  ASSUME rows \in Seq(Row), NEW q
  PROVE  /\ Matching(q) \in SUBSET (DOMAIN rows) /\ IsFiniteSet(Matching(q))
         /\ Cardinality(Matching(q)) \in 0..Len(rows)
         /\ DOMAIN rows = 1..Len(rows) /\ Len(rows) \in Nat
<1>1. DOMAIN rows = 1..Len(rows) /\ Len(rows) \in Nat BY LenProperties
<1>2. IsFiniteSet(DOMAIN rows) /\ Cardinality(DOMAIN rows) = Len(rows) BY <1>1, FS_Interval
<1>3. Matching(q) \in SUBSET (DOMAIN rows) BY DEF Matching
<1>4. IsFiniteSet(Matching(q)) /\ Cardinality(Matching(q)) <= Len(rows)
  BY <1>2, <1>3, FS_Subset
<1>5. Cardinality(Matching(q)) \in Nat BY <1>4, FS_CardinalityType
<1> QED BY <1>1, <1>3, <1>4, <1>5

\* Select brings a page.
LEMMA SelectBrings ==
  ASSUME Shape, Select
  PROVE  Brought
<1>1. PICK s \in SetToSeqs(Matching(query)) :
        /\ Ordered(s, Descending(query), query)
        /\ listed' = listed \o Slice(s, query)
        /\ fetched' = Len(Slice(s, query))
  BY DEF Select
<1>2. rows \in Seq(Row) /\ query \in AllQueries BY DEF Select, Shape, TypeOK
<1>3. IsFiniteSet(Matching(query)) BY <1>2, MatchingRows
<1>4. s \in Seq(Matching(query)) BY <1>3, Permuted
<1>5. GetOffset(query) \in Nat /\ GetLimit(query) \in Nat \ {0} BY <1>2, QueryNumbers
<1>6. /\ Slice(s, query) \in Seq(Matching(query))
      /\ IsPage(Slice(s, query), s, GetOffset(query), GetLimit(query))
  BY <1>4, <1>5, SliceIsPage DEF Slice
<1>7. Brings(s, Slice(s, query)) BY <1>1, <1>6 DEF Brings
<1> QED BY <1>6, <1>7 DEF Brought

\* The response to a page counts no more rows than there are, and no more pages.
LEMMA Responses ==
  ASSUME NEW q \in AllQueries, NEW n \in Nat, NEW total \in 0..n
  PROVE  /\ Response(total, q) \in [total : Nat, page : Nat, pageSizeLimit : Nat, totalPages : Nat]
         /\ Response(total, q).total = total /\ Response(total, q).total \in 0..n
         /\ Response(total, q).totalPages \in 0..n
         /\ Response(total, q).page = PageOf(q)
         /\ Response(total, q).pageSizeLimit = GetLimit(q)
<1>1. GetLimit(q) \in Nat \ {0} /\ PageOf(q) \in Nat BY QueryNumbers
<1>2. total \in Nat OBVIOUS
<1>3. TotalPages(total, GetLimit(q)) \in 0..total BY <1>1, <1>2, RoundedUp
<1>4. TotalPages(total, GetLimit(q)) \in 0..n BY <1>2, <1>3
<1>5. Response(total, q) = [total |-> total, page |-> PageOf(q), pageSizeLimit |-> GetLimit(q),
                            totalPages |-> TotalPages(total, GetLimit(q))]
  BY DEF Response, PageOf
<1> QED BY <1>1, <1>4, <1>5

\* The first statement leaves the shape.
LEMMA SelectShape ==
  ASSUME Shape, Select
  PROVE  Shape'
<1>1. PICK s \in SetToSeqs(Matching(query)) :
        \E page \in Seq(Matching(query)) : Brings(s, page)
  BY SelectBrings DEF Brought
<1>2. PICK page \in Seq(Matching(query)) : Brings(s, page) BY <1>1
<1>3. /\ pc = "select" /\ service' = service /\ bootstrap' = bootstrap /\ rows' = rows
      /\ clock' = clock /\ query' = query /\ throughout' = throughout
      /\ upset' = upset \cup (IF Tied(query) THEN {"tied"} ELSE {})
  BY DEF Select, setting, table
<1>4. /\ Walked /\ TypeOK /\ query \in AllQueries /\ rows \in Seq(Row)
      /\ listed \in Seq(DOMAIN rows)
  BY <1>3 DEF Shape, TypeOK, Walked, Walking
<1>5. GetOffset(query) \in Nat /\ GetLimit(query) \in Nat \ {0} BY <1>4, QueryNumbers
<1>6. /\ Matching(query) \in SUBSET (DOMAIN rows) /\ IsFiniteSet(Matching(query))
      /\ Cardinality(Matching(query)) \in 0..Len(rows) /\ Len(rows) \in Nat
  BY <1>4, MatchingRows
<1>7. s \in Seq(Matching(query)) /\ Len(s) = Cardinality(Matching(query))
      /\ DOMAIN s = 1..Len(s)
  BY <1>6, Permuted
<1>8. page \in Seq(DOMAIN rows) BY <1>6, SeqMonotonic
<1>9. listed' \in Seq(DOMAIN rows) BY <1>2, <1>4, <1>8, ConcatProperties DEF Brings
<1>10. fetched' = Len(page) /\ Len(page) \in 0..GetLimit(query) BY <1>2 DEF Brings, IsPage
<1>11. GetLimit(query)' = GetLimit(query) /\ PageOf(query)' = PageOf(query)
  BY <1>3 DEF GetLimit, PageOf
<1>12. CASE fetched' < GetLimit(query) /\ (fetched' > 0 \/ GetOffset(query) = 0)
  <2>1. pc' = "turn" /\ reply' = Response(GetOffset(query) + fetched', query)
    BY <1>12 DEF Select
  <2>2. PICK total : total = GetOffset(query) + Len(page) OBVIOUS
  <2>3. total \in 0..Len(rows)
    <3>1. CASE Len(page) = 0 BY <1>5, <1>6, <1>10, <1>12, <2>2, <3>1
    <3>2. CASE Len(page) > 0
      <4>1. Len(page) \in 1..Len(page) BY <1>5, <1>10, <3>2
      <4>2. GetOffset(query) + Len(page) \in DOMAIN s BY <1>2, <4>1 DEF Brings, IsPage
      <4> QED BY <1>6, <1>7, <2>2, <4>2
    <3> QED BY <1>5, <1>10, <3>1, <3>2
  <2>4. reply' = Response(total, query) BY <1>10, <2>1, <2>2
  <2>5. /\ reply' \in [total : Nat, page : Nat, pageSizeLimit : Nat, totalPages : Nat]
        /\ reply'.total \in 0..Len(rows) /\ reply'.totalPages \in 0..Len(rows)
        /\ reply'.page = PageOf(query) /\ reply'.pageSizeLimit = GetLimit(query)
    BY <1>4, <1>6, <2>3, <2>4, Responses
  <2> QED BY <2>1, <2>5, <1>3, <1>4, <1>9, <1>10, <1>11
          DEF Shape, TypeOK, Walked, Walking, Here
<1>13. CASE ~(fetched' < GetLimit(query) /\ (fetched' > 0 \/ GetOffset(query) = 0))
  <2>1. pc' = "count" /\ reply' = reply BY <1>13 DEF Select
  <2> QED BY <2>1, <1>3, <1>4, <1>9, <1>10, <1>11
          DEF Shape, TypeOK, Walked, Walking, Here
<1> QED BY <1>12, <1>13

\* The second statement leaves the shape.
LEMMA CountShape ==
  ASSUME Shape, Count
  PROVE  Shape'
<1>1. /\ pc = "count" /\ pc' = "turn" /\ service' = service /\ bootstrap' = bootstrap
      /\ rows' = rows /\ clock' = clock /\ query' = query /\ throughout' = throughout
      /\ upset' = upset /\ fetched' = fetched /\ listed' = listed
      /\ reply' = Response(Cardinality(Matching(query)), query)
  BY DEF Count, setting, table
<1>2. Walked /\ TypeOK /\ query \in AllQueries /\ rows \in Seq(Row)
  BY <1>1 DEF Shape, TypeOK, Walked, Walking
<1>3. Cardinality(Matching(query)) \in 0..Len(rows) /\ Len(rows) \in Nat BY <1>2, MatchingRows
<1>4. /\ reply' \in [total : Nat, page : Nat, pageSizeLimit : Nat, totalPages : Nat]
      /\ reply'.total \in 0..Len(rows) /\ reply'.totalPages \in 0..Len(rows)
      /\ reply'.page = PageOf(query) /\ reply'.pageSizeLimit = GetLimit(query)
  BY <1>1, <1>2, <1>3, Responses
<1>5. GetLimit(query)' = GetLimit(query) /\ PageOf(query)' = PageOf(query)
  BY <1>1 DEF GetLimit, PageOf
<1> QED BY <1>1, <1>2, <1>4, <1>5 DEF Shape, TypeOK, Walked, Walking, Here

\* Turning the page leaves the shape.
LEMMA TurnShape ==
  ASSUME Shape, TurnPage
  PROVE  Shape'
<1>1. /\ pc = "turn" /\ service' = service /\ bootstrap' = bootstrap
      /\ rows' = rows /\ clock' = clock /\ throughout' = throughout
      /\ upset' = upset /\ fetched' = fetched /\ listed' = listed /\ reply' = reply
  BY DEF TurnPage, setting, table
<1>2. Walked /\ TypeOK /\ query \in AllQueries
  BY <1>1 DEF Shape, Walked, Walking
<1>3. CASE More
  <2>1. pc' = "select" /\ query' = NextQuery BY <1>3 DEF TurnPage
  <2>2. query' \in AllQueries /\ Alike(query', query) /\ GetLimit(query') = GetLimit(query)
    BY <1>1, <2>1, NextPages
  <2>3. Meant(rows, query') = Meant(rows, query) /\ (Sortable(query') <=> Sortable(query))
    BY <2>2, AlikeQueries
  <2>4. Here' = Here BY <1>1, <2>3 DEF Here
  <2>5. fetched \in 0..GetLimit(query)
    BY <1>2 DEF Shape, TypeOK, Walked, Walking
  <2>6. TypeOK' BY <1>1, <1>2, <2>1, <2>2, <2>5 DEF TypeOK
  <2>7. Walked' /\ pc' # "idle" /\ pc' \notin {"turn", "done"} BY <2>1 DEF Walked, Walking
  <2>8. bootstrap' # "plain" /\ Sortable(query') /\ throughout' \subseteq Here'
    BY <1>1, <1>2, <2>3, <2>4 DEF Shape
  <2>9. reply' \in [total : Nat, page : Nat, pageSizeLimit : Nat, totalPages : Nat]
    BY <1>1 DEF Shape
  <2>10. fetched' \in 0..GetLimit(query)' BY <1>1, <2>2, <2>5
  <2> QED BY <2>2, <2>6, <2>7, <2>8, <2>9, <2>10 DEF Shape
<1>4. CASE ~More
  <2>1. pc' = "done" /\ query' = query BY <1>4 DEF TurnPage
  <2>2. GetLimit(query)' = GetLimit(query) /\ PageOf(query)' = PageOf(query)
    BY <2>1 DEF GetLimit, PageOf
  <2> QED BY <1>1, <1>2, <2>1, <2>2 DEF Shape, TypeOK, Walked, Walking, Here
<1> QED BY <1>3, <1>4

\* A write leaves a table that has the rows and perhaps more.
Rewrites == \E new \in Seq(Row) : DOMAIN rows \subseteq DOMAIN new /\ Write(new)

\* So does an addition.
LEMMA Additions ==
  ASSUME Shape, Add
  PROVE  Rewrites
<1>1. PICK u \in Users, v \in Venues, n \in Names :
        Write(Append(rows, [user |-> u, venue |-> v, enabled |-> "true", name |-> n,
                            updatedAt |-> clock + 1, live |-> TRUE]))
  BY DEF Add
<1>2. rows \in Seq(Row) /\ clock + 1 \in Nat BY ListingAssumption DEF Shape, TypeOK
<1>3. PICK r \in Row : r = [user |-> u, venue |-> v, enabled |-> "true", name |-> n,
                            updatedAt |-> clock + 1, live |-> TRUE]
  BY <1>2 DEF Row, Flags
<1>4. PICK new : new = Append(rows, r) OBVIOUS
<1>5. new \in Seq(Row) /\ Len(new) = Len(rows) + 1 BY <1>2, <1>4, AppendProperties
<1>6. /\ DOMAIN rows = 1..Len(rows) /\ Len(rows) \in Nat
      /\ DOMAIN new = 1..Len(new)
  BY <1>2, <1>5, LenProperties
<1>7. DOMAIN rows \subseteq DOMAIN new BY <1>5, <1>6
<1>8. Write(new) BY <1>1, <1>3, <1>4
<1> QED BY <1>5, <1>7, <1>8 DEF Rewrites

\* So does a change.
LEMMA Changes ==
  ASSUME Shape, Change
  PROVE  Rewrites
<1>1. PICK i \in DOMAIN rows, flag \in Flags, n \in Names :
        Write([rows EXCEPT ![i].enabled = flag, ![i].name = n, ![i].updatedAt = clock + 1])
  BY DEF Change
<1>2. rows \in Seq(Row) /\ clock + 1 \in Nat BY ListingAssumption DEF Shape, TypeOK
<1>3. rows[i] \in Row /\ i \in 1..Len(rows) BY <1>2, LenProperties, ElementOfSeq
<1>4. PICK r : r = [rows[i] EXCEPT !.enabled = flag, !.name = n, !.updatedAt = clock + 1] OBVIOUS
<1>5. r \in Row BY <1>2, <1>3, <1>4 DEF Row
<1>6. PICK new : new = [rows EXCEPT ![i] = r] OBVIOUS
<1>7. new \in Seq(Row) /\ DOMAIN new = DOMAIN rows BY <1>2, <1>3, <1>5, <1>6, ExceptSeq
<1>8. new = [rows EXCEPT ![i].enabled = flag, ![i].name = n, ![i].updatedAt = clock + 1]
  BY <1>2, <1>3, <1>4, <1>6
<1>9. Write(new) BY <1>1, <1>8
<1> QED BY <1>7, <1>9 DEF Rewrites

\* So does a deletion.
LEMMA Deletions ==
  ASSUME Shape, SoftDelete
  PROVE  Rewrites
<1>1. PICK i \in DOMAIN rows :
        Write([rows EXCEPT ![i].live = FALSE, ![i].updatedAt = clock + 1])
  BY DEF SoftDelete
<1>2. rows \in Seq(Row) /\ clock + 1 \in Nat BY ListingAssumption DEF Shape, TypeOK
<1>3. rows[i] \in Row /\ i \in 1..Len(rows) BY <1>2, LenProperties, ElementOfSeq
<1>4. PICK r : r = [rows[i] EXCEPT !.live = FALSE, !.updatedAt = clock + 1] OBVIOUS
<1>5. r \in Row BY <1>2, <1>3, <1>4 DEF Row
<1>6. PICK new : new = [rows EXCEPT ![i] = r] OBVIOUS
<1>7. new \in Seq(Row) /\ DOMAIN new = DOMAIN rows BY <1>2, <1>3, <1>5, <1>6, ExceptSeq
<1>8. new = [rows EXCEPT ![i].live = FALSE, ![i].updatedAt = clock + 1]
  BY <1>2, <1>3, <1>4, <1>6
<1>9. Write(new) BY <1>1, <1>8
<1> QED BY <1>7, <1>9 DEF Rewrites

\* So does a restoration.
LEMMA Restorations ==
  ASSUME Shape, Restore
  PROVE  Rewrites
<1>1. PICK i \in DOMAIN rows, n \in Names :
        Write([rows EXCEPT ![i].live = TRUE, ![i].enabled = "true", ![i].name = n,
                           ![i].updatedAt = clock + 1])
  BY DEF Restore
<1>2. rows \in Seq(Row) /\ clock + 1 \in Nat BY ListingAssumption DEF Shape, TypeOK
<1>3. rows[i] \in Row /\ i \in 1..Len(rows) BY <1>2, LenProperties, ElementOfSeq
<1>4. PICK r : r = [rows[i] EXCEPT !.live = TRUE, !.enabled = "true", !.name = n,
                                   !.updatedAt = clock + 1]
  OBVIOUS
<1>5. r \in Row BY <1>2, <1>3, <1>4 DEF Row, Flags
<1>6. PICK new : new = [rows EXCEPT ![i] = r] OBVIOUS
<1>7. new \in Seq(Row) /\ DOMAIN new = DOMAIN rows BY <1>2, <1>3, <1>5, <1>6, ExceptSeq
<1>8. new = [rows EXCEPT ![i].live = TRUE, ![i].enabled = "true", ![i].name = n,
                         ![i].updatedAt = clock + 1]
  BY <1>2, <1>3, <1>4, <1>6
<1>9. Write(new) BY <1>1, <1>8
<1> QED BY <1>7, <1>9 DEF Rewrites

\* A write leaves the shape.
LEMMA WriteShape ==
  ASSUME Shape, NEW new \in Seq(Row), DOMAIN rows \subseteq DOMAIN new, Write(new)
  PROVE  Shape'
<1>1. /\ Walking /\ clock < MaxTime /\ clock' = clock + 1 /\ rows' = new
      /\ throughout' = throughout \cap Meant(new, query)
      /\ upset' = upset \cup Upsets(new)
      /\ service' = service /\ bootstrap' = bootstrap /\ pc' = pc /\ query' = query
      /\ fetched' = fetched /\ reply' = reply /\ listed' = listed
  BY DEF Write, setting
<1>2. Walked /\ TypeOK /\ query \in AllQueries BY <1>1 DEF Shape, Walked, Walking
<1>3. /\ DOMAIN rows = 1..Len(rows) /\ Len(rows) \in Nat
      /\ DOMAIN new = 1..Len(new) /\ Len(new) \in Nat
  BY <1>2, LenProperties DEF TypeOK
<1>4. Len(rows) <= Len(new)
  <2>1. CASE Len(rows) = 0 BY <1>3, <2>1
  <2>2. CASE Len(rows) > 0
    <3>1. Len(rows) \in DOMAIN new BY <1>3, <2>2
    <3> QED BY <1>3, <3>1
  <2> QED BY <1>3, <2>1, <2>2
<1>5. reply.total \in 0..Len(new) /\ reply.totalPages \in 0..Len(new)
  BY <1>2, <1>3, <1>4 DEF TypeOK
<1>6. listed \in Seq(DOMAIN new) BY <1>2, SeqMonotonic DEF TypeOK
<1>7. throughout' \subseteq DOMAIN new BY <1>1 DEF Meant
<1>8. Upsets(new) \subseteq {"left", "entered", "moved"} BY DEF Upsets
<1>9. upset' \subseteq {"left", "entered", "moved", "tied"} BY <1>1, <1>2, <1>8 DEF TypeOK
<1>10. clock' \in StartTime..MaxTime BY <1>1, <1>2, ListingAssumption DEF TypeOK
<1>11. fetched' \in 0..GetLimit(query)' /\ GetLimit(query)' = GetLimit(query)
       /\ PageOf(query)' = PageOf(query)
  BY <1>1, <1>2 DEF TypeOK, GetLimit, PageOf, Shape, Walked, Walking
<1>12. TypeOK' BY <1>1, <1>2, <1>5, <1>6, <1>7, <1>9, <1>10, <1>11 DEF TypeOK
<1>13. throughout' \subseteq Here' BY <1>1 DEF Here
<1> QED BY <1>1, <1>2, <1>11, <1>12, <1>13 DEF Shape, Walked, Walking

-----------------------------------------------------------------------------
(* Steps of the walk and writes, and the order *)

\* What a walk stands on.
LEMMA Standing ==
  ASSUME Shape, Walked
  PROVE  /\ rows \in Seq(Row) /\ query \in AllQueries /\ Sortable(query)
         /\ Here \in SUBSET (DOMAIN rows) /\ IsFiniteSet(Here)
         /\ Order \in [DOMAIN rows -> Int]
         /\ listed \in Seq(DOMAIN rows) /\ Range(listed) \in SUBSET (DOMAIN rows)
         /\ throughout \in SUBSET Here
         /\ GetLimit(query) \in Nat \ {0} /\ GetOffset(query) \in Nat /\ NextOffset \in Nat
<1>1. rows \in Seq(Row) /\ query \in AllQueries /\ Sortable(query) /\ throughout \in SUBSET Here
      /\ listed \in Seq(DOMAIN rows)
  BY DEF Shape, TypeOK, Walked, Walking
<1>2. Here \in SUBSET (DOMAIN rows) /\ IsFiniteSet(Here) BY <1>1, Meanings DEF Here
<1>3. Order \in [DOMAIN rows -> Int] BY <1>1, Places DEF Order
<1>4. Range(listed) \in SUBSET (DOMAIN rows)
  BY <1>1, LenProperties, ElementOfSeq DEF Range
<1>5. GetLimit(query) \in Nat \ {0} /\ GetOffset(query) \in Nat BY <1>1, QueryNumbers
<1>6. NextOffset \in Nat BY <1>5 DEF NextOffset
<1> QED BY <1>1, <1>2, <1>3, <1>4, <1>5, <1>6

\* A step of a walk changes nothing of what the service honours, and history only grows.
LEMMA HeldBefore ==
  ASSUME Walked, service' = service, bootstrap' = bootstrap, upset \subseteq upset',
         Alike(query', query), NEW flags, Holding(flags)'
  PROVE  Holding(flags) /\ upset' \cap flags = {}
<1>1. SortedDirection(query)' = SortedDirection(query) BY DEF SortedDirection, Alike
<1>2. Descending(query)' <=> Descending(query) BY <1>1 DEF Descending, Alike
<1>3. Honoured BY <1>2 DEF Holding, Honoured, Alike
<1>4. upset' \cap flags = {} BY DEF Holding
<1> QED BY <1>3, <1>4 DEF Holding

\* While the table stays, a walk's steps leave what it means and its order.
LEMMA SameOrder ==
  ASSUME service' = service, bootstrap' = bootstrap, rows' = rows, Alike(query', query)
  PROVE  Here' = Here /\ Order' = Order
<1>1. Here' = Here
  <2>1. Meant(rows, query') = Meant(rows, query) BY AlikeQueries
  <2> QED BY <2>1 DEF Here
<1>2. SortedDirection(query)' = SortedDirection(query) BY DEF SortedDirection, Alike
<1>3. Descending(query)' <=> Descending(query) BY <1>2 DEF Descending, Alike
<1>4. Direction' = Direction BY <1>3 DEF Direction
<1>5. Place(rows, query', Direction) = Place(rows, query, Direction) BY AlikeQueries
<1>6. Order' = Order BY <1>4, <1>5 DEF Order
<1> QED BY <1>1, <1>6

\* What a write does as long as it sets no flag: nothing up to a listed account leaves or
\* enters, and nothing moves.
LEMMA Undisturbed ==
  ASSUME Shape, NEW new \in Seq(Row), DOMAIN rows \subseteq DOMAIN new, Write(new)
  PROVE  /\ "left" \notin upset' =>
              \A i \in Here \ Here' : \A j \in Range(listed) : ~(Order[i] <= Order[j])
         /\ "entered" \notin upset' =>
              \A i \in Here' \ Here : \A j \in Range(listed) : ~(Order'[i] <= Order'[j])
         /\ "moved" \notin upset' => \A i \in Here \cap Here' : Order'[i] = Order[i]
<1>1. /\ Walking /\ rows' = new /\ upset' = upset \cup Upsets(new)
      /\ service' = service /\ bootstrap' = bootstrap /\ query' = query
  BY DEF Write, setting
<1>2. Walked BY <1>1 DEF Walked
<1>3. /\ rows \in Seq(Row) /\ query \in AllQueries /\ Sortable(query)
      /\ Range(listed) \in SUBSET (DOMAIN rows) /\ Here \in SUBSET (DOMAIN rows)
  BY <1>2, Standing
<1>4. Here' = Meant(new, query) BY <1>1 DEF Here
<1>5. Here' \in SUBSET (DOMAIN new) BY <1>4, Meanings
<1>6. SortedDirection(query)' = SortedDirection(query) BY <1>1 DEF SortedDirection
<1>7. Descending(query)' <=> Descending(query) BY <1>1, <1>6 DEF Descending
<1>8. Direction' = Direction BY <1>7 DEF Direction
<1>9. Order' = Place(new, query, Direction) BY <1>1, <1>8 DEF Order
<1>10. ASSUME "left" \notin upset', NEW i \in Here \ Here', NEW j \in Range(listed)
       PROVE  ~(Order[i] <= Order[j])
  <2>1. ~NotAfter(rows, i, j) BY <1>1, <1>4, <1>10 DEF Upsets, Here
  <2> QED BY <1>3, <2>1, NotAfterPlaces DEF Order
<1>11. ASSUME "entered" \notin upset', NEW i \in Here' \ Here, NEW j \in Range(listed)
       PROVE  ~(Order'[i] <= Order'[j])
  <2>1. ~NotAfter(new, i, j) BY <1>1, <1>4, <1>11 DEF Upsets, Here
  <2>2. i \in DOMAIN new /\ j \in DOMAIN new BY <1>3, <1>5
  <2> QED BY <1>3, <1>9, <2>1, <2>2, NotAfterPlaces
<1>12. ASSUME "moved" \notin upset', NEW i \in Here \cap Here'
       PROVE  Order'[i] = Order[i]
  <2>1. SortValue(rows, i, query) = SortValue(new, i, query)
    BY <1>1, <1>4, <1>12 DEF Upsets, Here
  <2>2. i \in DOMAIN rows /\ i \in DOMAIN new BY <1>3, <1>5
  <2>3. Order[i] = IF Direction = "DESC" THEN 0 - SortValue(rows, i, query)
                                         ELSE SortValue(rows, i, query)
    BY <1>3, <2>2, Places DEF Order
  <2>4. Order'[i] = IF Direction = "DESC" THEN 0 - SortValue(new, i, query)
                                          ELSE SortValue(new, i, query)
    BY <1>3, <1>9, <2>2, Places
  <2> QED BY <2>1, <2>3, <2>4
<1> QED BY <1>10, <1>11, <1>12

\* A write leaves the walk where it is.
LEMMA WriteWalk ==
  ASSUME Shape, NEW new \in Seq(Row), DOMAIN rows \subseteq DOMAIN new, Write(new)
  PROVE  /\ Walked /\ listed' = listed /\ pc' = pc /\ query' = query
         /\ throughout' = throughout \cap Here'
         /\ NextOffset' = NextOffset /\ (More' <=> More)
         /\ Here' \in SUBSET (DOMAIN new) /\ IsFiniteSet(Here')
         /\ Order' \in [DOMAIN new -> Int]
<1>1. /\ Walking /\ rows' = new /\ throughout' = throughout \cap Meant(new, query)
      /\ service' = service /\ bootstrap' = bootstrap /\ pc' = pc /\ query' = query
      /\ reply' = reply /\ listed' = listed
  BY DEF Write, setting
<1>2. Walked BY <1>1 DEF Walked
<1>3. query \in AllQueries /\ Sortable(query) BY <1>2, Standing
<1>4. Here' = Meant(new, query) BY <1>1 DEF Here
<1>5. Here' \in SUBSET (DOMAIN new) /\ IsFiniteSet(Here') BY <1>4, Meanings
<1>6. PICK direction : direction = Direction' OBVIOUS
<1>7. Order' = Place(new, query, direction) BY <1>1, <1>6 DEF Order
<1>8. Order' \in [DOMAIN new -> Int] BY <1>3, <1>7, Places
<1>9. NextOffset' = NextOffset BY <1>1 DEF NextOffset, GetOffset, GetLimit
<1>10. More' <=> More BY <1>1 DEF More
<1> QED BY <1>1, <1>2, <1>4, <1>5, <1>8, <1>9, <1>10

\* What held before a write, when it holds after.
LEMMA WriteHeld ==
  ASSUME Shape, NEW new \in Seq(Row), DOMAIN rows \subseteq DOMAIN new, Write(new),
         NEW flags, Holding(flags)'
  PROVE  Holding(flags) /\ upset' \cap flags = {}
<1>1. /\ service' = service /\ bootstrap' = bootstrap /\ query' = query
      /\ upset \subseteq upset'
  BY DEF Write, setting
<1>2. Walked BY WriteWalk
<1>3. Alike(query', query) BY <1>1 DEF Alike
<1> QED BY <1>1, <1>2, <1>3, HeldBefore

\* Writes and StillMeant.
LEMMA WriteStillMeant ==
  ASSUME Shape, NEW new \in Seq(Row), DOMAIN rows \subseteq DOMAIN new, Write(new),
         StillMeant
  PROVE  StillMeant'
<1>1. SUFFICES ASSUME Holding({"left"})', NEW j \in Range(listed) PROVE j \in Here'
  BY WriteWalk DEF StillMeant
<1>2. Holding({"left"}) /\ "left" \notin upset' BY <1>1, WriteHeld
<1>3. j \in Here BY <1>2 DEF StillMeant
<1>4. Order[j] \in Int BY <1>3, WriteWalk, Standing
<1>5. ASSUME j \notin Here' PROVE FALSE
  <2>1. ~(Order[j] <= Order[j]) BY <1>2, <1>3, <1>5, Undisturbed
  <2> QED BY <1>4, <2>1
<1> QED BY <1>5

\* Writes and Placed: as nothing enters up to a listed account, no more comes up to it.
LEMMA WritePlaced ==
  ASSUME Shape, NEW new \in Seq(Row), DOMAIN rows \subseteq DOMAIN new, Write(new),
         Placed
  PROVE  Placed'
<1>1. SUFFICES ASSUME Holding({"entered", "moved", "tied"})'
               PROVE  /\ IsInjective(listed)
                      /\ \A j \in Range(listed) \cap Here' :
                           Cardinality(Upto(Here', Order', j)) <= NextOffset
  BY WriteWalk DEF Placed
<1>2. Holding({"entered", "moved", "tied"}) /\ "entered" \notin upset' /\ "moved" \notin upset'
  BY <1>1, WriteHeld
<1>3. /\ IsInjective(listed)
      /\ \A j \in Range(listed) \cap Here : Cardinality(Upto(Here, Order, j)) <= NextOffset
  BY <1>2 DEF Placed
<1>4. PICK M, v : M = Here /\ v = Order OBVIOUS
<1>5. PICK N, w : N = Here' /\ w = Order' OBVIOUS
<1>6. /\ \A i \in N \ M : \A j \in Range(listed) : ~(w[i] <= w[j])
      /\ \A i \in M \cap N : w[i] = v[i]
  BY <1>2, <1>4, <1>5, Undisturbed
<1>7. \A i \in N : w[i] \in Int BY <1>5, WriteWalk
<1>8. IsFiniteSet(M) /\ NextOffset \in Nat BY <1>4, WriteWalk, Standing
<1>9. ASSUME NEW j \in Range(listed) \cap N PROVE Cardinality(Upto(N, w, j)) <= NextOffset
  <2>1. w[j] <= w[j] BY <1>7
  <2>2. j \in M BY <1>6, <2>1
  <2>3. Upto(N, w, j) \subseteq Upto(M, v, j)
    <3>1. SUFFICES ASSUME NEW i \in N, w[i] <= w[j] PROVE i \in M /\ v[i] <= v[j]
      BY DEF Upto
    <3>2. i \in M BY <1>6, <3>1
    <3>3. w[i] = v[i] /\ w[j] = v[j] BY <1>6, <2>2, <3>2
    <3> QED BY <3>1, <3>2, <3>3
  <2>4. Upto(M, v, j) \in SUBSET M BY DEF Upto
  <2>5. IsFiniteSet(Upto(M, v, j)) BY <1>8, <2>4, FS_Subset
  <2>6. Cardinality(Upto(N, w, j)) <= Cardinality(Upto(M, v, j))
        /\ IsFiniteSet(Upto(N, w, j))
    BY <2>3, <2>5, FS_Subset
  <2>7. Cardinality(Upto(N, w, j)) \in Nat /\ Cardinality(Upto(M, v, j)) \in Nat
    BY <2>5, <2>6, FS_CardinalityType
  <2>8. Cardinality(Upto(M, v, j)) <= NextOffset BY <1>3, <1>4, <2>2
  <2> QED BY <1>8, <2>6, <2>7, <2>8
<1> QED BY <1>3, <1>5, <1>9

\* Writes and InOrder.
LEMMA WriteInOrder ==
  ASSUME Shape, NEW new \in Seq(Row), DOMAIN rows \subseteq DOMAIN new, Write(new),
         StillMeant, InOrder
  PROVE  InOrder'
<1> DEFINE flags == {"left", "entered", "moved", "tied"}
<1>1. SUFFICES ASSUME Holding(flags)' PROVE InSequence(listed, Order')
  BY WriteWalk DEF InOrder
<1>2. Holding(flags) /\ "left" \notin upset' /\ "moved" \notin upset' BY <1>1, WriteHeld
<1>3. InSequence(listed, Order) BY <1>2 DEF InOrder
<1>4. Range(listed) \subseteq Here BY <1>2 DEF StillMeant, Holding
<1>5. Range(listed) \subseteq Here'
  <2>1. StillMeant' BY WriteStillMeant
  <2>2. Holding({"left"})' BY <1>1 DEF Holding
  <2> QED BY <2>1, <2>2, WriteWalk DEF StillMeant
<1>6. \A j \in Range(listed) : Order'[j] = Order[j] BY <1>2, <1>4, <1>5, Undisturbed
<1>7. \A m \in DOMAIN listed : listed[m] \in Range(listed) BY DEF Range
<1> QED BY <1>3, <1>6, <1>7 DEF InSequence

\* Writes and Gapless: as nothing up to a listed account leaves, no less comes up to it.
LEMMA WriteGapless ==
  ASSUME Shape, NEW new \in Seq(Row), DOMAIN rows \subseteq DOMAIN new, Write(new),
         StillMeant, Gapless
  PROVE  Gapless'
<1> DEFINE flags == {"left", "moved", "tied"}
           L == Range(listed)
<1>1. SUFFICES ASSUME Holding(flags)'
               PROVE  /\ throughout' \cap Covered(Here', Order', L) \subseteq L
                      /\ \/ throughout' \subseteq L
                         \/ /\ Cardinality(Covered(Here', Order', L)) >= NextOffset
                            /\ pc # "done"
                            /\ pc = "turn" => More
  BY WriteWalk DEF Gapless
<1>2. Holding(flags) /\ "left" \notin upset' /\ "moved" \notin upset' BY <1>1, WriteHeld
<1>3. PICK M, v : M = Here /\ v = Order OBVIOUS
<1>4. PICK N, w : N = Here' /\ w = Order' OBVIOUS
<1>5. /\ throughout \cap Covered(M, v, L) \subseteq L
      /\ \/ throughout \subseteq L
         \/ /\ Cardinality(Covered(M, v, L)) >= NextOffset
            /\ pc # "done"
            /\ pc = "turn" => More
  BY <1>2, <1>3 DEF Gapless
<1>6. /\ \A i \in M \ N : \A j \in L : ~(v[i] <= v[j])
      /\ \A i \in M \cap N : w[i] = v[i]
  BY <1>2, <1>3, <1>4, Undisturbed
<1>7. L \subseteq M BY <1>2, <1>3 DEF StillMeant, Holding
<1>8. L \subseteq N
  <2>1. StillMeant' BY WriteStillMeant
  <2>2. Holding({"left"})' BY <1>1 DEF Holding
  <2> QED BY <1>4, <2>1, <2>2, WriteWalk DEF StillMeant
<1>9. throughout' = throughout \cap N /\ throughout \subseteq M /\ IsFiniteSet(N)
      /\ IsFiniteSet(M) /\ NextOffset \in Nat
  BY <1>3, <1>4, WriteWalk, Standing
<1>10. \A j \in L : w[j] = v[j] BY <1>6, <1>7, <1>8
<1>11. throughout' \cap Covered(N, w, L) \subseteq L
  <2>1. SUFFICES ASSUME NEW i \in throughout', i \in Covered(N, w, L) PROVE i \in L OBVIOUS
  <2>2. i \in throughout /\ i \in M /\ i \in N BY <1>9
  <2>3. PICK j \in L : w[i] <= w[j] BY <2>1 DEF Covered
  <2>4. v[i] <= v[j] BY <1>6, <1>10, <2>2, <2>3
  <2>5. i \in Covered(M, v, L) BY <2>2, <2>4 DEF Covered
  <2> QED BY <1>5, <2>2, <2>5
<1>12. Covered(M, v, L) \subseteq Covered(N, w, L)
  <2>1. SUFFICES ASSUME NEW i \in M, NEW j \in L, v[i] <= v[j] PROVE i \in Covered(N, w, L)
    BY DEF Covered
  <2>2. i \in N BY <1>6, <2>1
  <2>3. w[i] <= w[j] BY <1>6, <1>10, <2>1, <2>2
  <2> QED BY <2>2, <2>3 DEF Covered
<1>13. ASSUME Cardinality(Covered(M, v, L)) >= NextOffset
       PROVE  Cardinality(Covered(N, w, L)) >= NextOffset
  <2>1. Covered(N, w, L) \in SUBSET N BY DEF Covered
  <2>2. IsFiniteSet(Covered(N, w, L)) BY <1>9, <2>1, FS_Subset
  <2>3. Cardinality(Covered(M, v, L)) <= Cardinality(Covered(N, w, L))
        /\ IsFiniteSet(Covered(M, v, L))
    BY <1>12, <2>2, FS_Subset
  <2>4. Cardinality(Covered(M, v, L)) \in Nat /\ Cardinality(Covered(N, w, L)) \in Nat
    BY <2>2, <2>3, FS_CardinalityType
  <2> HIDE DEF L
  <2> QED BY <1>9, <1>13, <2>3, <2>4
<1>14. throughout \subseteq L => throughout' \subseteq L BY <1>9
<1> HIDE DEF L
<1> QED BY <1>4, <1>5, <1>11, <1>13, <1>14

\* Asking starts with nothing listed.
LEMMA AskOrder ==
  ASSUME Shape, Ask
  PROVE  /\ StillMeant' /\ Placed' /\ InOrder'
         /\ (\A q \in Queries : GetOffset(q) = 0) => Gapless'
<1>1. PICK q \in Queries :
        /\ query' = q
        /\ pc' = CASE ~Valid(q) -> "refused"
                   [] Valid(q) /\ (bootstrap = "plain" \/ ~Sortable(q)) -> "failed"
                   [] OTHER -> "select"
  BY DEF Ask
<1>2. pc' \in {"refused", "failed", "select"} BY <1>1
<1>3. listed' = << >> BY DEF Ask, Shape, Walked, Walking
<1>4. Range(listed') = {} /\ DOMAIN listed' = {} BY <1>3, EmptySeq DEF Range
<1>5. StillMeant' BY <1>4 DEF StillMeant
<1>6. Placed' BY <1>4 DEF Placed, IsInjective
<1>7. InOrder' BY <1>4 DEF InOrder, InSequence
<1>8. ASSUME \A r \in Queries : GetOffset(r) = 0, Walked'
      PROVE  /\ throughout' \cap Covered(Here', Order', Range(listed')) \subseteq Range(listed')
             /\ Cardinality(Covered(Here', Order', Range(listed'))) >= NextOffset'
             /\ pc' = "select"
  <2>1. pc' = "select" BY <1>2, <1>8 DEF Walked, Walking
  <2>2. Covered(Here', Order', Range(listed')) = {} BY <1>4 DEF Covered
  <2>3. Cardinality({}) = 0 BY FS_EmptySet
  <2>4. GetOffset(q) = 0 BY <1>8
  <2>5. NextOffset' = 0 BY <1>1, <2>1, <2>4 DEF NextOffset, GetOffset, GetLimit
  <2> QED BY <2>1, <2>2, <2>3, <2>5
<1>9. (\A r \in Queries : GetOffset(r) = 0) => Gapless' BY <1>8 DEF Gapless, Holding
<1> QED BY <1>5, <1>6, <1>7, <1>9

\* The members of one sequence behind those of another.
LEMMA Joined ==
  ASSUME NEW D, NEW a \in Seq(D), NEW b \in Seq(D)
  PROVE  /\ \A m \in DOMAIN (a \o b) :
              \/ m \in DOMAIN a /\ (a \o b)[m] = a[m]
              \/ Len(a) < m /\ m - Len(a) \in DOMAIN b /\ (a \o b)[m] = b[m - Len(a)]
         /\ Range(a \o b) = Range(a) \cup {b[n] : n \in 1..Len(b)}
         /\ DOMAIN (a \o b) \subseteq Nat /\ Len(a) \in Nat
         /\ DOMAIN a = 1..Len(a) /\ DOMAIN b = 1..Len(b) /\ Len(b) \in Nat
<1>1. /\ Len(a) \in Nat /\ DOMAIN a = 1..Len(a)
      /\ Len(b) \in Nat /\ DOMAIN b = 1..Len(b)
  BY LenProperties
<1>0. PICK c : c = a \o b OBVIOUS
<1>2. /\ c \in Seq(D) /\ Len(c) = Len(a) + Len(b)
      /\ \A i \in 1..Len(a) + Len(b) : c[i] = IF i <= Len(a) THEN a[i] ELSE b[i - Len(a)]
  <2>1. a \o b \in Seq(D) /\ Len(a \o b) = Len(a) + Len(b) BY ConcatProperties
  <2>2. \A i \in 1..Len(a) + Len(b) :
          (a \o b)[i] = IF i <= Len(a) THEN a[i] ELSE b[i - Len(a)]
    BY ConcatProperties
  <2> QED BY <1>0, <2>1, <2>2
<1>3. DOMAIN c = 1..Len(a) + Len(b) BY <1>1, <1>2, LenProperties
<1>4. ASSUME NEW m \in DOMAIN c
      PROVE  \/ m \in DOMAIN a /\ c[m] = a[m]
             \/ Len(a) < m /\ m - Len(a) \in DOMAIN b /\ c[m] = b[m - Len(a)]
  <2>1. m \in Nat /\ 1 <= m /\ m <= Len(a) + Len(b) BY <1>1, <1>3
  <2>2. CASE m <= Len(a) BY <1>1, <1>2, <1>3, <2>1, <2>2
  <2>3. CASE Len(a) < m
    <3>1. c[m] = b[m - Len(a)] BY <1>1, <1>2, <1>3, <2>1, <2>3
    <3>2. m - Len(a) \in 1..Len(b) BY <1>1, <2>1, <2>3
    <3> QED BY <1>1, <2>3, <3>1, <3>2
  <2> QED BY <1>1, <2>1, <2>2, <2>3
<1>5. Range(a \o b) = Range(a) \cup Range(b) BY RangeConcatenation
<1>6. Range(b) = {b[n] : n \in 1..Len(b)} BY RangeEquality
<1> QED BY <1>1, <1>0, <1>3, <1>4, <1>5, <1>6

\* The first statement, when nothing ties: a page of a set in strict order.
LEMMA SelectOrder ==
  ASSUME Shape, Select, Honoured
  PROVE  /\ Here' = Here /\ Order' = Order /\ Walked /\ throughout' = throughout
         /\ NextOffset = GetOffset(query)
         /\ NextOffset' = GetOffset(query) + GetLimit(query)
         /\ \E s \in SetToSeqs(Here) : \E page \in Seq(Here) :
              Brings(s, page) /\ ("tied" \notin upset' => Increasing(s, Order))
<1>1. /\ pc = "select" /\ service' = service /\ bootstrap' = bootstrap /\ rows' = rows
      /\ query' = query /\ throughout' = throughout
      /\ upset' = upset \cup (IF Tied(query) THEN {"tied"} ELSE {})
  BY DEF Select, setting, table
<1>2. Walked /\ TypeOK BY <1>1 DEF Shape, Walked, Walking
<1>3. Alike(query', query) BY <1>1 DEF Alike
<1>4. Here' = Here /\ Order' = Order BY <1>1, <1>3, SameOrder
<1>5. pc' \in {"turn", "count"} BY DEF Select
<1>6. NextOffset = GetOffset(query) BY <1>1 DEF NextOffset
<1>7. NextOffset' = GetOffset(query) + GetLimit(query)
  BY <1>1, <1>5 DEF NextOffset, GetOffset, GetLimit
<1>8. Matching(query) = Here BY <1>2, Standing, SelectsMeant
<1>9. PICK s \in SetToSeqs(Here) : \E page \in Seq(Here) : Brings(s, page)
  BY <1>8, SelectBrings DEF Brought
<1>10. PICK page \in Seq(Here) : Brings(s, page) BY <1>9
<1>11. rows \in Seq(Row) /\ query \in AllQueries /\ Sortable(query) BY <1>2, Standing
<1>12. ASSUME "tied" \notin upset' PROVE Increasing(s, Order)
  <2>1. ~Tied(query) BY <1>1, <1>12
  <2>2. Ordered(s, Descending(query), query) BY <1>10 DEF Brings
  <2> QED BY <1>11, <2>1, <2>2, StrictlyOrdered
<1> QED BY <1>1, <1>2, <1>4, <1>6, <1>7, <1>10, <1>12

\* What held before the first statement, when it holds after.
LEMMA SelectHeld ==
  ASSUME Shape, Select, NEW flags, Holding(flags)'
  PROVE  Holding(flags) /\ upset' \cap flags = {}
<1>1. /\ service' = service /\ bootstrap' = bootstrap /\ query' = query
      /\ upset \subseteq upset' /\ pc = "select"
  BY DEF Select, setting
<1>2. Walked BY <1>1 DEF Walked, Walking
<1>3. Alike(query', query) BY <1>1 DEF Alike
<1> QED BY <1>1, <1>2, <1>3, HeldBefore

\* The first statement and StillMeant.
LEMMA SelectStillMeant ==
  ASSUME Shape, Select, StillMeant
  PROVE  StillMeant'
<1>1. SUFFICES ASSUME Holding({"left"})' PROVE Range(listed') \subseteq Here'
  BY DEF StillMeant
<1>2. Holding({"left"}) BY <1>1, SelectHeld
<1>3. Range(listed) \subseteq Here BY <1>2 DEF StillMeant
<1>4. Honoured BY <1>2 DEF Holding
<1>5. /\ Here' = Here /\ Walked
      /\ \E s \in SetToSeqs(Here) : \E page \in Seq(Here) : Brings(s, page)
  BY <1>4, SelectOrder
<1>6. PICK s \in SetToSeqs(Here) : \E page \in Seq(Here) : Brings(s, page) BY <1>5
<1>7. PICK page \in Seq(Here) : Brings(s, page) BY <1>6
<1>8. listed \in Seq(DOMAIN rows) /\ Here \in SUBSET (DOMAIN rows) BY <1>5, Standing
<1>9. page \in Seq(DOMAIN rows) BY <1>8, SeqMonotonic
<1>10. Range(listed \o page) = Range(listed) \cup {page[n] : n \in 1..Len(page)}
  BY <1>8, <1>9, Joined
<1>11. \A n \in 1..Len(page) : page[n] \in Here BY ElementOfSeq
<1>12. listed' = listed \o page BY <1>7 DEF Brings
<1> QED BY <1>3, <1>5, <1>10, <1>11, <1>12

\* The first statement and Placed: a page comes behind what is listed, and as many rows come
\* up to a member of it as its place says.
LEMMA SelectPlaced ==
  ASSUME Shape, Select, Placed
  PROVE  Placed'
<1> DEFINE flags == {"entered", "moved", "tied"}
<1>1. SUFFICES ASSUME Holding(flags)'
               PROVE  /\ IsInjective(listed')
                      /\ \A j \in Range(listed') \cap Here' :
                           Cardinality(Upto(Here', Order', j)) <= NextOffset'
  BY DEF Placed
<1>2. Holding(flags) /\ "tied" \notin upset' BY <1>1, SelectHeld
<1>3. Honoured BY <1>2 DEF Holding
<1>4. PICK M, v, D : M = Here /\ v = Order /\ D = DOMAIN rows OBVIOUS
<1>5. PICK o, l : o = GetOffset(query) /\ l = GetLimit(query) OBVIOUS
<1>6. /\ Here' = M /\ Order' = v /\ Walked /\ NextOffset = o /\ NextOffset' = o + l
      /\ \E s \in SetToSeqs(M) : \E page \in Seq(M) : Brings(s, page) /\ Increasing(s, v)
  BY <1>2, <1>3, <1>4, <1>5, SelectOrder
<1>7. PICK s \in SetToSeqs(M) : \E page \in Seq(M) : Brings(s, page) /\ Increasing(s, v)
  BY <1>6
<1>8. PICK page \in Seq(M) : Brings(s, page) /\ Increasing(s, v) BY <1>7
<1>9. /\ M \in SUBSET D /\ IsFiniteSet(M) /\ v \in [D -> Int]
      /\ listed \in Seq(D) /\ o \in Nat /\ l \in Nat \ {0}
  BY <1>4, <1>5, <1>6, Standing
<1>10. /\ IsInjective(listed)
       /\ \A j \in Range(listed) \cap M : Cardinality(Upto(M, v, j)) <= o
  BY <1>2, <1>4, <1>6 DEF Placed
<1>11. IsPage(page, s, o, l) /\ listed' = listed \o page BY <1>5, <1>8 DEF Brings
<1>12. page \in Seq(D) BY <1>9, SeqMonotonic
<1>13. ASSUME NEW n \in 1..Len(page)
       PROVE  page[n] \in M /\ Cardinality(Upto(M, v, page[n])) = o + n
  <2>1. /\ M \in SUBSET D /\ IsFiniteSet(M) /\ v \in [D -> Int] /\ Increasing(s, v)
        /\ o \in Nat /\ l \in Nat \ {0} /\ IsPage(page, s, o, l)
    BY <1>8, <1>9, <1>11
  <2> QED BY <2>1, PageAhead
<1>14. ASSUME NEW n \in 1..Len(page) PROVE page[n] \notin Range(listed)
  <2>1. SUFFICES ASSUME page[n] \in Range(listed) PROVE FALSE OBVIOUS
  <2>2. page[n] \in M /\ Cardinality(Upto(M, v, page[n])) = o + n BY <1>13
  <2>3. o + n <= o BY <1>10, <2>1, <2>2
  <2>4. n \in Nat \ {0} BY <1>12, LenProperties
  <2> QED BY <1>9, <2>3, <2>4
<1>15. ASSUME NEW m \in 1..Len(page), NEW n \in 1..Len(page), page[m] = page[n] PROVE m = n
  <2>1. o + m = o + n BY <1>13, <1>15
  <2>2. m \in Nat /\ n \in Nat BY <1>12, LenProperties
  <2> QED BY <1>9, <2>1, <2>2
<1>16. /\ \A m \in DOMAIN (listed \o page) :
            \/ m \in DOMAIN listed /\ (listed \o page)[m] = listed[m]
            \/ /\ Len(listed) < m /\ m - Len(listed) \in DOMAIN page
               /\ (listed \o page)[m] = page[m - Len(listed)]
       /\ Range(listed \o page) = Range(listed) \cup {page[n] : n \in 1..Len(page)}
       /\ DOMAIN (listed \o page) \subseteq Nat /\ Len(listed) \in Nat
       /\ DOMAIN page = 1..Len(page) /\ Len(page) \in Nat
  BY <1>9, <1>12, Joined
<1>17. \A m \in DOMAIN listed : listed[m] \in Range(listed) BY DEF Range
<1>18. IsInjective(listed \o page)
  <2>1. SUFFICES ASSUME NEW m \in DOMAIN (listed \o page), NEW n \in DOMAIN (listed \o page),
                        (listed \o page)[m] = (listed \o page)[n]
                 PROVE  m = n
    BY DEF IsInjective
  <2>2. m \in Nat /\ n \in Nat BY <1>16
  <2>3. CASE /\ m \in DOMAIN listed /\ (listed \o page)[m] = listed[m]
             /\ n \in DOMAIN listed /\ (listed \o page)[n] = listed[n]
    BY <1>10, <2>1, <2>3 DEF IsInjective
  <2>4. CASE /\ m - Len(listed) \in 1..Len(page) /\ (listed \o page)[m] = page[m - Len(listed)]
             /\ n - Len(listed) \in 1..Len(page) /\ (listed \o page)[n] = page[n - Len(listed)]
    <3>1. m - Len(listed) = n - Len(listed) BY <1>15, <2>1, <2>4
    <3> QED BY <1>16, <2>2, <3>1
  <2>5. CASE /\ m \in DOMAIN listed /\ (listed \o page)[m] = listed[m]
             /\ n - Len(listed) \in 1..Len(page) /\ (listed \o page)[n] = page[n - Len(listed)]
    BY <1>14, <1>17, <2>1, <2>5
  <2>6. CASE /\ n \in DOMAIN listed /\ (listed \o page)[n] = listed[n]
             /\ m - Len(listed) \in 1..Len(page) /\ (listed \o page)[m] = page[m - Len(listed)]
    BY <1>14, <1>17, <2>1, <2>6
  <2> QED BY <1>16, <2>3, <2>4, <2>5, <2>6
<1>19. ASSUME NEW j \in Range(listed \o page) \cap M
       PROVE  Cardinality(Upto(M, v, j)) <= o + l
  <2>1. CASE j \in Range(listed)
    <3>1. Upto(M, v, j) \in SUBSET M BY DEF Upto
    <3>2. IsFiniteSet(Upto(M, v, j)) BY <1>9, <3>1, FS_Subset
    <3>3. Cardinality(Upto(M, v, j)) \in Nat BY <3>2, FS_CardinalityType
    <3>4. Cardinality(Upto(M, v, j)) <= o BY <1>10, <2>1
    <3> QED BY <1>9, <3>3, <3>4
  <2>2. CASE \E n \in 1..Len(page) : j = page[n]
    <3>1. PICK n \in 1..Len(page) : j = page[n] BY <2>2
    <3>2. Cardinality(Upto(M, v, j)) = o + n BY <1>13, <3>1
    <3>3. Len(page) \in 0..l BY <1>11 DEF IsPage
    <3>4. n \in Nat /\ n <= l BY <1>9, <1>16, <3>3
    <3> QED BY <1>9, <3>2, <3>4
  <2> QED BY <1>16, <2>1, <2>2
<1> QED BY <1>6, <1>11, <1>18, <1>19

\* The first statement and InOrder: the page is in order, and behind what is listed.
LEMMA SelectInOrder ==
  ASSUME Shape, Select, StillMeant, Placed, InOrder
  PROVE  InOrder'
<1> DEFINE flags == {"left", "entered", "moved", "tied"}
<1>1. SUFFICES ASSUME Holding(flags)' PROVE InSequence(listed', Order')
  BY DEF InOrder
<1>2. Holding(flags) /\ "tied" \notin upset' BY <1>1, SelectHeld
<1>3. Honoured BY <1>2 DEF Holding
<1>4. PICK M, v, D : M = Here /\ v = Order /\ D = DOMAIN rows OBVIOUS
<1>5. PICK o, l : o = GetOffset(query) /\ l = GetLimit(query) OBVIOUS
<1>6. /\ Order' = v /\ Walked /\ NextOffset = o
      /\ \E s \in SetToSeqs(M) : \E page \in Seq(M) : Brings(s, page) /\ Increasing(s, v)
  BY <1>2, <1>3, <1>4, <1>5, SelectOrder
<1>7. PICK s \in SetToSeqs(M) : \E page \in Seq(M) : Brings(s, page) /\ Increasing(s, v)
  BY <1>6
<1>8. PICK page \in Seq(M) : Brings(s, page) /\ Increasing(s, v) BY <1>7
<1>9. /\ M \in SUBSET D /\ IsFiniteSet(M) /\ v \in [D -> Int]
      /\ listed \in Seq(D) /\ o \in Nat /\ l \in Nat \ {0}
  BY <1>4, <1>5, <1>6, Standing
<1>10. /\ InSequence(listed, v) /\ Range(listed) \subseteq M
       /\ \A j \in Range(listed) \cap M : Cardinality(Upto(M, v, j)) <= o
  BY <1>2, <1>4, <1>6 DEF Placed, InOrder, StillMeant, Holding
<1>11. IsPage(page, s, o, l) /\ listed' = listed \o page BY <1>5, <1>8 DEF Brings
<1>12. page \in Seq(D) BY <1>9, SeqMonotonic
<1>13. ASSUME NEW m \in DOMAIN listed, NEW n \in 1..Len(page)
       PROVE  v[listed[m]] < v[page[n]]
  <2>1. listed[m] \in Range(listed) BY DEF Range
  <2>2. PICK j \in D : j = listed[m] BY <1>9, <1>10, <2>1
  <2>3. Cardinality(Upto(M, v, j)) <= o BY <1>10, <2>1, <2>2
  <2>4. v[j] < v[page[n]] BY <1>8, <1>9, <1>11, <2>3, PageLater
  <2> QED BY <2>2, <2>4
<1>14. ASSUME NEW m \in 1..Len(page), NEW n \in 1..Len(page), m < n
       PROVE  v[page[m]] < v[page[n]]
  BY <1>8, <1>9, <1>11, <1>14, PageInOrder
<1>15. /\ \A m \in DOMAIN (listed \o page) :
            \/ m \in DOMAIN listed /\ (listed \o page)[m] = listed[m]
            \/ /\ Len(listed) < m /\ m - Len(listed) \in DOMAIN page
               /\ (listed \o page)[m] = page[m - Len(listed)]
       /\ DOMAIN (listed \o page) \subseteq Nat /\ Len(listed) \in Nat
       /\ DOMAIN listed = 1..Len(listed) /\ DOMAIN page = 1..Len(page)
  BY <1>9, <1>12, Joined
<1>16. /\ \A m \in DOMAIN listed : v[listed[m]] \in Int
       /\ \A n \in 1..Len(page) : v[page[n]] \in Int
  BY <1>9, <1>12, <1>15, ElementOfSeq
<1>17. SUFFICES ASSUME NEW m \in DOMAIN (listed \o page), NEW n \in DOMAIN (listed \o page),
                       m < n
                PROVE  v[(listed \o page)[m]] <= v[(listed \o page)[n]]
  BY <1>6, <1>11 DEF InSequence
<1>18. m \in Nat /\ n \in Nat BY <1>15
<1>19. CASE n \in DOMAIN listed /\ (listed \o page)[n] = listed[n]
  <2>1. ~(Len(listed) < m) BY <1>15, <1>17, <1>18, <1>19
  <2>2. m \in DOMAIN listed /\ (listed \o page)[m] = listed[m] BY <1>15, <2>1
  <2> QED BY <1>10, <1>17, <1>19, <2>2 DEF InSequence
<1>20. CASE /\ n - Len(listed) \in 1..Len(page)
            /\ (listed \o page)[n] = page[n - Len(listed)]
  <2>1. CASE m \in DOMAIN listed /\ (listed \o page)[m] = listed[m]
    <3>1. v[listed[m]] < v[page[n - Len(listed)]] BY <1>13, <1>20, <2>1
    <3> QED BY <1>16, <1>20, <2>1, <3>1
  <2>2. CASE /\ m - Len(listed) \in 1..Len(page)
             /\ (listed \o page)[m] = page[m - Len(listed)]
    <3>1. m - Len(listed) < n - Len(listed) BY <1>15, <1>17, <1>18
    <3>2. v[page[m - Len(listed)]] < v[page[n - Len(listed)]] BY <1>14, <1>20, <2>2, <3>1
    <3> QED BY <1>16, <1>20, <2>2, <3>2
  <2> QED BY <1>15, <2>1, <2>2
<1> QED BY <1>15, <1>19, <1>20

\* The first statement and Gapless.
LEMMA SelectGapless ==
  ASSUME Shape, Select, StillMeant, Gapless
  PROVE  Gapless'
<1> DEFINE flags == {"left", "moved", "tied"}
<1>1. SUFFICES ASSUME Holding(flags)'
               PROVE  /\ throughout' \cap Covered(Here', Order', Range(listed'))
                           \subseteq Range(listed')
                      /\ \/ throughout' \subseteq Range(listed')
                         \/ /\ Cardinality(Covered(Here', Order', Range(listed'))) >= NextOffset'
                            /\ pc' # "done"
                            /\ pc' = "turn" => More'
  BY DEF Gapless
<1>2. Holding(flags) /\ "tied" \notin upset' BY <1>1, SelectHeld
<1>3. Honoured BY <1>2 DEF Holding
<1>4. PICK M, v, D : M = Here /\ v = Order /\ D = DOMAIN rows OBVIOUS
<1>5. PICK o, l : o = GetOffset(query) /\ l = GetLimit(query) OBVIOUS
<1>6. PICK T, L, N : T = throughout /\ L = Range(listed) /\ N = Range(listed') OBVIOUS
<1>7. /\ Here' = M /\ Order' = v /\ Walked /\ NextOffset = o /\ NextOffset' = o + l
      /\ throughout' = T
      /\ \E s \in SetToSeqs(M) : \E page \in Seq(M) : Brings(s, page) /\ Increasing(s, v)
  BY <1>2, <1>3, <1>4, <1>5, <1>6, SelectOrder
<1>8. PICK s \in SetToSeqs(M) : \E page \in Seq(M) : Brings(s, page) /\ Increasing(s, v)
  BY <1>7
<1>9. PICK page \in Seq(M) : Brings(s, page) /\ Increasing(s, v) BY <1>8
<1>10. /\ M \in SUBSET D /\ IsFiniteSet(M) /\ v \in [D -> Int]
       /\ listed \in Seq(D) /\ o \in Nat /\ l \in Nat \ {0} /\ T \in SUBSET M
  BY <1>4, <1>5, <1>6, <1>7, Standing
<1>11. /\ T \cap Covered(M, v, L) \subseteq L
       /\ T \subseteq L \/ Cardinality(Covered(M, v, L)) >= o
       /\ L \in SUBSET M
  BY <1>2, <1>4, <1>6, <1>7 DEF Gapless, StillMeant, Holding
<1>12. /\ IsPage(page, s, o, l) /\ listed' = listed \o page /\ fetched' = Len(page)
       /\ Increasing(s, v)
  BY <1>5, <1>9 DEF Brings
<1>13. page \in Seq(D) BY <1>10, SeqMonotonic
<1>14. Range(listed \o page) = Range(listed) \cup {page[n] : n \in 1..Len(page)}
  BY <1>10, <1>13, Joined
<1>15. N = With(L, page) BY <1>6, <1>12, <1>14 DEF With
<1>16. /\ T \cap Covered(M, v, N) \subseteq N
       /\ T \subseteq N \/ (Cardinality(Covered(M, v, N)) >= o + l /\ Len(page) = l)
  <2>1. /\ M \in SUBSET D /\ IsFiniteSet(M) /\ v \in [D -> Int] /\ Increasing(s, v)
        /\ o \in Nat /\ l \in Nat \ {0} /\ IsPage(page, s, o, l)
        /\ L \in SUBSET M /\ T \in SUBSET M
    BY <1>10, <1>11, <1>12
  <2> QED BY <1>11, <1>15, <2>1, PageCovers
<1>17. Len(page) = l => pc' = "count" BY <1>5, <1>10, <1>12 DEF Select
<1> QED BY <1>6, <1>7, <1>16, <1>17

\* The second statement and Gapless: what is meant and not listed makes for more pages.
LEMMA CountGapless ==
  ASSUME Shape, Count, Gapless
  PROVE  Gapless'
<1>1. /\ pc = "count" /\ pc' = "turn" /\ service' = service /\ bootstrap' = bootstrap
      /\ rows' = rows /\ query' = query /\ throughout' = throughout
      /\ upset' = upset /\ listed' = listed
      /\ reply' = Response(Cardinality(Matching(query)), query)
  BY DEF Count, setting, table
<1>2. Walked BY <1>1 DEF Walked, Walking
<1>3. Alike(query', query) BY <1>1 DEF Alike
<1>4. Here' = Here /\ Order' = Order BY <1>1, <1>3, SameOrder
<1>5. NextOffset = GetOffset(query) + GetLimit(query) /\ NextOffset' = NextOffset
  BY <1>1 DEF NextOffset, GetOffset, GetLimit
<1>6. SUFFICES ASSUME Holding({"left", "moved", "tied"})'
               PROVE  /\ throughout \cap Covered(Here, Order, Range(listed)) \subseteq Range(listed)
                      /\ \/ throughout \subseteq Range(listed)
                         \/ /\ Cardinality(Covered(Here, Order, Range(listed))) >= NextOffset
                            /\ More'
  BY <1>1, <1>4, <1>5 DEF Gapless
<1>7. Holding({"left", "moved", "tied"}) BY <1>1, <1>2, <1>3, <1>6, HeldBefore
<1>8. PICK M, v, L : M = Here /\ v = Order /\ L = Range(listed) OBVIOUS
<1>9. PICK o, l, n : o = GetOffset(query) /\ l = GetLimit(query) /\ n = Cardinality(M) OBVIOUS
<1>10. /\ throughout \cap Covered(M, v, L) \subseteq L
       /\ throughout \subseteq L \/ Cardinality(Covered(M, v, L)) >= o + l
  BY <1>5, <1>7, <1>8, <1>9 DEF Gapless
<1>11. /\ IsFiniteSet(M) /\ throughout \in SUBSET M /\ query \in AllQueries
       /\ o \in Nat /\ l \in Nat \ {0}
  BY <1>2, <1>8, <1>9, Standing
<1>12. n \in Nat BY <1>9, <1>11, FS_CardinalityType
<1>13. ASSUME ~(throughout \subseteq L) PROVE More'
  <2>1. PICK i \in throughout : i \notin L BY <1>13
  <2>2. i \in M /\ i \notin Covered(M, v, L) BY <1>10, <1>11, <2>1
  <2>3. Covered(M, v, L) \subseteq M \ {i} BY <2>2 DEF Covered
  <2>4. IsFiniteSet(M \ {i}) /\ Cardinality(M \ {i}) = n - 1
    BY <1>9, <1>11, <2>2, FS_RemoveElement
  <2>5. PICK c : c = Cardinality(Covered(M, v, L)) OBVIOUS
  <2>6. c <= n - 1 /\ IsFiniteSet(Covered(M, v, L)) BY <2>3, <2>4, <2>5, FS_Subset
  <2>7. c \in Nat BY <2>5, <2>6, FS_CardinalityType
  <2>8. c >= o + l BY <1>10, <1>13, <2>5
  <2>9. o + l < n BY <1>11, <1>12, <2>6, <2>7, <2>8
  <2>10. TypeOK /\ Honoured BY <1>7 DEF Shape, Holding
  <2>11. Matching(query) = M BY <1>8, <1>11, <2>10, SelectsMeant
  <2>12. reply' = Response(n, query) BY <1>1, <1>9, <2>11
  <2>13. /\ reply'.total = n /\ reply'.page = PageOf(query) /\ reply'.pageSizeLimit = l
         /\ reply'.totalPages = TotalPages(n, l)
    BY <1>9, <2>12 DEF Response, PageOf
  <2>14. CASE query.offset # Undefined
    <3>1. o = query.offset BY <1>9, <1>11, <2>14, QueryNumbers
    <3>2. query.offset + reply'.pageSizeLimit < reply'.total BY <2>9, <2>13, <3>1
    <3> QED BY <1>1, <2>14, <3>2 DEF More
  <2>15. CASE query.offset = Undefined
    <3>1. o = (PageOf(query) - 1) * l /\ PageOf(query) \in Nat \ {0}
      BY <1>9, <1>11, <2>15, QueryNumbers
    <3>2. PICK a \in Nat : a = PageOf(query) - 1 BY <3>1
    <3>3. a * l + l = (a + 1) * l BY <1>11, <3>2
    <3>4. PICK p \in Nat : p = PageOf(query) BY <3>1
    <3>5. p * l = o + l
      <4>1. p = a + 1 BY <3>1, <3>2, <3>4
      <4>2. o = a * l BY <3>1, <3>2
      <4> QED BY <3>3, <4>1, <4>2
    <3>6. p * l < n BY <2>9, <3>5
    <3>7. p < TotalPages(n, l) BY <1>11, <1>12, <3>6, RoundedUp
    <3>8. reply'.page < reply'.totalPages BY <2>13, <3>4, <3>7
    <3> QED BY <1>1, <2>15, <3>8 DEF More
  <2> QED BY <2>14, <2>15
<1> QED BY <1>5, <1>8, <1>9, <1>10, <1>13

\* Where the walk turns to, and that this disturbs no order.
LEMMA TurnOrder ==
  ASSUME Shape, TurnPage
  PROVE  /\ pc = "turn" /\ Walked /\ service' = service /\ bootstrap' = bootstrap
         /\ throughout' = throughout /\ listed' = listed /\ upset' = upset
         /\ Alike(query', query) /\ Here' = Here /\ Order' = Order
         /\ NextOffset' = NextOffset
         /\ (More /\ pc' = "select") \/ (~More /\ pc' = "done")
<1>1. /\ pc = "turn" /\ service' = service /\ bootstrap' = bootstrap
      /\ rows' = rows /\ throughout' = throughout /\ upset' = upset /\ listed' = listed
  BY DEF TurnPage, setting, table
<1>2. Walked BY <1>1 DEF Walked, Walking
<1>3. NextOffset = GetOffset(query) + GetLimit(query) BY <1>1 DEF NextOffset
<1>4. CASE More
  <2>1. pc' = "select" /\ query' = NextQuery BY <1>4 DEF TurnPage
  <2>2. Alike(query', query) /\ GetOffset(query') = GetOffset(query) + GetLimit(query)
    BY <1>1, <2>1, NextPages
  <2>3. NextOffset' = NextOffset BY <1>3, <2>1, <2>2 DEF NextOffset
  <2>4. Here' = Here /\ Order' = Order BY <1>1, <2>2, SameOrder
  <2> QED BY <1>1, <1>2, <1>4, <2>1, <2>2, <2>3, <2>4
<1>5. CASE ~More
  <2>1. pc' = "done" /\ query' = query BY <1>5 DEF TurnPage
  <2>2. Alike(query', query) BY <2>1 DEF Alike
  <2>3. NextOffset' = NextOffset BY <1>1, <2>1 DEF NextOffset, GetOffset, GetLimit
  <2>4. Here' = Here /\ Order' = Order BY <1>1, <2>2, SameOrder
  <2> QED BY <1>1, <1>2, <1>5, <2>1, <2>2, <2>3, <2>4
<1> QED BY <1>4, <1>5

\* Turning the page and Gapless: the walk ends only when all is listed.
LEMMA TurnGapless ==
  ASSUME Shape, TurnPage, Gapless
  PROVE  Gapless'
<1>1. /\ pc = "turn" /\ Walked /\ service' = service /\ bootstrap' = bootstrap
      /\ throughout' = throughout /\ listed' = listed /\ upset' = upset
      /\ Alike(query', query) /\ Here' = Here /\ Order' = Order
      /\ NextOffset' = NextOffset
      /\ (More /\ pc' = "select") \/ (~More /\ pc' = "done")
  BY TurnOrder
<1>2. ASSUME Holding({"left", "moved", "tied"})' PROVE Holding({"left", "moved", "tied"})
  BY <1>1, <1>2, HeldBefore
<1> QED BY <1>1, <1>2 DEF Gapless

\* The second statement and the turning of the page leave the rest.
LEMMA OthersOrder ==
  ASSUME Shape, Count \/ TurnPage, StillMeant, Placed, InOrder
  PROVE  StillMeant' /\ Placed' /\ InOrder'
<1>1. /\ Walked /\ service' = service /\ bootstrap' = bootstrap
      /\ listed' = listed /\ upset' = upset
      /\ Alike(query', query) /\ Here' = Here /\ Order' = Order
      /\ NextOffset' = NextOffset
  <2>1. CASE TurnPage BY <2>1, TurnOrder
  <2>2. CASE Count
    <3>1. /\ pc = "count" /\ pc' = "turn" /\ service' = service /\ bootstrap' = bootstrap
          /\ rows' = rows /\ query' = query /\ upset' = upset /\ listed' = listed
      BY <2>2 DEF Count, setting, table
    <3>2. Alike(query', query) BY <3>1 DEF Alike
    <3>3. Here' = Here /\ Order' = Order BY <3>1, <3>2, SameOrder
    <3> QED BY <3>1, <3>2, <3>3 DEF NextOffset, GetOffset, GetLimit, Walked, Walking
  <2> QED BY <2>1, <2>2
<1>2. \A flags : Holding(flags)' => Holding(flags)
  <2>1. SUFFICES ASSUME NEW flags, Holding(flags)' PROVE Holding(flags) OBVIOUS
  <2> QED BY <1>1, <2>1, HeldBefore
<1> QED BY <1>1, <1>2 DEF StillMeant, Placed, InOrder

-----------------------------------------------------------------------------
(* The invariant *)

Inv == Shape /\ StillMeant /\ Placed /\ InOrder

\* A walk starts at the first page.
FromTheFirst == \A q \in Queries : GetOffset(q) = 0

\* The invariant holds at first.
LEMMA InitInv == Init => Inv /\ Gapless
<1> SUFFICES ASSUME Init PROVE Inv /\ Gapless OBVIOUS
<1>1. Shape BY InitShape
<1>2. ~Walked BY DEF Init, Walked, Walking
<1> QED BY <1>1, <1>2 DEF Inv, StillMeant, Placed, InOrder, Gapless, Holding

\* A step that changes nothing keeps it.
LEMMA StutterInv ==
  ASSUME UNCHANGED vars
  PROVE  (Inv => Inv') /\ (Gapless => Gapless')
<1>1. /\ service' = service /\ bootstrap' = bootstrap /\ rows' = rows /\ clock' = clock
      /\ pc' = pc /\ query' = query /\ fetched' = fetched /\ reply' = reply
      /\ listed' = listed /\ throughout' = throughout /\ upset' = upset
  BY DEF vars
<1>2. Walked' <=> Walked BY <1>1 DEF Walked, Walking
<1>3. Alike(query', query) BY <1>1 DEF Alike
<1>4. Here' = Here /\ Order' = Order BY <1>1, <1>3, SameOrder
<1>5. /\ GetLimit(query)' = GetLimit(query) /\ PageOf(query)' = PageOf(query)
      /\ NextOffset' = NextOffset /\ (More' <=> More) /\ (Sortable(query)' <=> Sortable(query))
  BY <1>1 DEF GetLimit, PageOf, NextOffset, GetOffset, More, Sortable
<1>6. \A flags : Holding(flags)' => Holding(flags)
  <2>1. SUFFICES ASSUME NEW flags, Holding(flags)' PROVE Holding(flags) OBVIOUS
  <2>2. Walked BY <1>2, <2>1 DEF Holding
  <2> QED BY <1>1, <1>3, <2>1, <2>2, HeldBefore
<1>7. Shape => Shape' BY <1>1, <1>2, <1>4, <1>5 DEF Shape, TypeOK
<1>8. StillMeant /\ Placed /\ InOrder => StillMeant' /\ Placed' /\ InOrder'
  BY <1>1, <1>4, <1>5, <1>6 DEF StillMeant, Placed, InOrder
<1>9. Gapless => Gapless' BY <1>1, <1>4, <1>5, <1>6 DEF Gapless
<1> QED BY <1>7, <1>8, <1>9 DEF Inv

\* Every step keeps Shape, StillMeant, Placed and InOrder.
LEMMA StepInv == Inv /\ [Next]_vars => Inv'
<1> SUFFICES ASSUME Inv, [Next]_vars PROVE Inv' OBVIOUS
<1>1. Shape /\ StillMeant /\ Placed /\ InOrder BY DEF Inv
<1>2. CASE Ask BY <1>1, <1>2, AskShape, AskOrder DEF Inv
<1>3. CASE Select
  BY <1>1, <1>3, SelectShape, SelectStillMeant, SelectPlaced, SelectInOrder DEF Inv
<1>4. CASE Count BY <1>1, <1>4, CountShape, OthersOrder DEF Inv
<1>5. CASE TurnPage BY <1>1, <1>5, TurnShape, OthersOrder DEF Inv
<1>6. CASE Add \/ Change \/ SoftDelete \/ Restore
  <2>1. Rewrites BY <1>1, <1>6, Additions, Changes, Deletions, Restorations
  <2>2. PICK new \in Seq(Row) : DOMAIN rows \subseteq DOMAIN new /\ Write(new)
    BY <2>1 DEF Rewrites
  <2>3. Shape' BY <1>1, <2>2, WriteShape
  <2>4. StillMeant' BY <1>1, <2>2, WriteStillMeant
  <2>5. Placed' BY <1>1, <2>2, WritePlaced
  <2>6. InOrder' BY <1>1, <2>2, WriteInOrder
  <2> QED BY <2>3, <2>4, <2>5, <2>6 DEF Inv
<1>7. CASE UNCHANGED vars BY <1>7, StutterInv
<1> QED BY <1>2, <1>3, <1>4, <1>5, <1>6, <1>7 DEF Next

\* So it does Gapless, when walks start at the first page.
LEMMA StepGapless == FromTheFirst /\ Inv /\ Gapless /\ [Next]_vars => Gapless'
<1> SUFFICES ASSUME FromTheFirst, Inv, Gapless, [Next]_vars PROVE Gapless' OBVIOUS
<1>1. Shape /\ StillMeant BY DEF Inv
<1>2. CASE Ask BY <1>1, <1>2, AskOrder DEF FromTheFirst
<1>3. CASE Select BY <1>1, <1>3, SelectGapless
<1>4. CASE Count BY <1>1, <1>4, CountGapless
<1>5. CASE TurnPage BY <1>1, <1>5, TurnGapless
<1>6. CASE Add \/ Change \/ SoftDelete \/ Restore
  <2>1. Rewrites BY <1>1, <1>6, Additions, Changes, Deletions, Restorations
  <2>2. PICK new \in Seq(Row) : DOMAIN rows \subseteq DOMAIN new /\ Write(new)
    BY <2>1 DEF Rewrites
  <2> QED BY <1>1, <2>2, WriteGapless
<1>7. CASE UNCHANGED vars BY <1>7, StutterInv
<1> QED BY <1>2, <1>3, <1>4, <1>5, <1>6, <1>7 DEF Next

\* The invariant holds in every reachable state.
THEOREM Invariance == Spec => []Inv
<1>1. Init => Inv BY InitInv
<1> QED BY <1>1, StepInv, PTL DEF Spec

\* And nothing is skipped in any, when walks start at the first page.
THEOREM NothingSkipped == FromTheFirst /\ Spec => []Gapless
<1> SUFFICES ASSUME FromTheFirst PROVE Spec => []Gapless OBVIOUS
<1>1. Init => Inv /\ Gapless BY InitInv
<1>2. Inv /\ Gapless /\ [Next]_vars => Inv' /\ Gapless' BY StepInv, StepGapless
<1> QED BY <1>1, <1>2, PTL DEF Spec

-----------------------------------------------------------------------------
(* The properties of the run *)

\* Types: in particular a response never counts more rows, or more pages, than the table has.
THEOREM TypeCorrect == Spec => []TypeOK
<1>1. Inv => TypeOK BY DEF Inv, Shape
<1> QED BY <1>1, Invariance, PTL

\* getCexAccounts and getDexAccounts list no account twice in a walk, unless one entered the
\* pages already listed or the order changed.
THEOREM NothingRepeated == Spec => []NoneRepeated
<1>1. ASSUME Inv PROVE NoneRepeated
  <2>1. SUFFICES ASSUME Honoured, upset \cap {"entered", "moved", "tied"} = {}
                 PROVE  IsInjective(listed)
    BY DEF NoneRepeated
  <2>2. CASE Walked BY <1>1, <2>1, <2>2 DEF Inv, Placed, Holding
  <2>3. CASE ~Walked
    <3>1. listed = << >> BY <1>1, <2>3 DEF Inv, Shape
    <3> QED BY <3>1, EmptySeq DEF IsInjective
  <2> QED BY <2>2, <2>3
<1> QED BY <1>1, Invariance, PTL

\* Without upset, the pages put one after the other are accounts the query means, in the
\* order it asks for.
THEOREM PagesFit == Spec => []PagesFitTogether
<1>1. ASSUME Inv PROVE PagesFitTogether
  <2> DEFINE newestFirst == \/ query.sortedDirection \in {Undefined, "DESC"}
                            \/ service = "cex" /\ query.sortOrder = "DESC"
  <2>1. SUFFICES ASSUME Walking, Honoured, upset = {}
                 PROVE  Range(listed) \subseteq Here /\ Ordered(listed, newestFirst, query)
    BY DEF PagesFitTogether, Here
  <2>2. Walked /\ Shape BY <1>1, <2>1 DEF Inv, Walked
  <2>3. Range(listed) \subseteq Here BY <1>1, <2>1, <2>2 DEF Inv, StillMeant, Holding
  <2>4. InSequence(listed, Order) BY <1>1, <2>1, <2>2 DEF Inv, InOrder, Holding
  <2>5. rows \in Seq(Row) /\ query \in AllQueries /\ Sortable(query)
        /\ listed \in Seq(DOMAIN rows)
    BY <2>2, Standing
  <2>6. Ordered(listed, Descending(query), query) BY <2>4, <2>5, OrderedPlaces
  <2>7. bootstrap # "plain" BY <2>2 DEF Shape
  <2>8. Descending(query) <=> newestFirst BY <2>7 DEF Descending, SortedDirection
  <2>9. Ordered(listed, newestFirst, query) BY <2>6, <2>8 DEF Ordered
  <2> QED BY <2>3, <2>9
<1> QED BY <1>1, Invariance, PTL

\* A walk from the first page that ended has listed every account meant from then on, unless
\* one left the pages already listed or the order changed.
THEOREM NothingMissed == FromTheFirst /\ Spec => []NoneMissed
<1> SUFFICES ASSUME FromTheFirst PROVE Spec => []NoneMissed OBVIOUS
<1>1. Gapless => NoneMissed BY DEF Gapless, NoneMissed, Holding, Walked
<1>2. Spec => []Gapless BY NothingSkipped
<1> QED BY <1>1, <1>2, PTL
=============================================================================
