-------------------------- MODULE StableSortProofs --------------------------
(***************************************************************************)
(* StableSort is a sort: its permutation is a bijection, and the result is *)
(* ordered, for every sequence of integer keys.                            *)
(***************************************************************************)
EXTENDS StableSort, FiniteSetTheorems, TLAPS

\* A rank is a position of the sequence.
LEMMA RankType ==
  ASSUME NEW keys \in Seq(Int), NEW i \in 1..Len(keys)
  PROVE  /\ IsFiniteSet(Preceding(keys, i))
         /\ Cardinality(Preceding(keys, i)) \in Nat
         /\ Rank(keys, i) \in 1..Len(keys)
<1> DEFINE n == Len(keys)
           P == Preceding(keys, i)
           Q == P \cup {i}
<1>1. n \in Nat
  OBVIOUS
<1>2. IsFiniteSet(1..n) /\ Cardinality(1..n) = n
  <2>1. 1 \in Int /\ n \in Int
    BY <1>1
  <2>2. /\ IsFiniteSet(1..n)
        /\ Cardinality(1..n) = IF 1 > n THEN 0 ELSE n - 1 + 1
    BY <2>1, FS_Interval, Zenon
  <2> QED
    BY <1>1, <2>2
<1>3. P \in SUBSET (1..n) /\ Q \in SUBSET (1..n)
  BY DEF Preceding
<1>4. i \notin P
  BY DEF Preceding, Before
<1>5. IsFiniteSet(P) /\ IsFiniteSet(Q) /\ Cardinality(Q) <= Cardinality(1..n)
  BY <1>2, <1>3, FS_Subset, Zenon
<1>6. Cardinality(Q) = Cardinality(P) + 1
  BY <1>4, <1>5, FS_AddElement, Zenon
<1>7. Cardinality(P) \in Nat
  BY <1>5, FS_CardinalityType, Zenon
<1> QED
  BY <1>1, <1>2, <1>5, <1>6, <1>7 DEF Rank

\* Elements keep, in rank, the order they have by key and position.
LEMMA RankMonotone ==
  ASSUME NEW keys \in Seq(Int), NEW i \in 1..Len(keys), NEW j \in 1..Len(keys),
         Before(keys, i, j)
  PROVE  Rank(keys, i) < Rank(keys, j)
<1> DEFINE P == Preceding(keys, i)
           Q == Preceding(keys, j)
<1>0. \A k \in 1..Len(keys) : keys[k] \in Int
  OBVIOUS
<1>1. P \cup {i} \in SUBSET Q
  BY <1>0 DEF Preceding, Before
<1>2. i \notin P
  BY <1>0 DEF Preceding, Before
<1>3. /\ IsFiniteSet(P) /\ Cardinality(P) \in Nat
      /\ IsFiniteSet(Q) /\ Cardinality(Q) \in Nat
  BY RankType
<1>4. Cardinality(P \cup {i}) = Cardinality(P) + 1
  BY <1>2, <1>3, FS_AddElement, Zenon
<1>5. Cardinality(P \cup {i}) <= Cardinality(Q)
  BY <1>1, <1>3, FS_Subset, Zenon
<1> QED
  BY <1>3, <1>4, <1>5 DEF Rank

(***************************************************************************)
(* The permutation of sort_by_key: every element gets exactly one place    *)
(* and the places follow key order, ties in their original order.          *)
(***************************************************************************)
THEOREM SortPermCorrect ==
  ASSUME NEW keys \in Seq(Int)
  PROVE  /\ SortPerm(keys) \in [1..Len(keys) -> 1..Len(keys)]
         /\ \A i \in 1..Len(keys) : \E k \in 1..Len(keys) : SortPerm(keys)[k] = i
         /\ \A k, l \in 1..Len(keys) :
               k < l => Before(keys, SortPerm(keys)[k], SortPerm(keys)[l])
<1> DEFINE n == Len(keys)
           f == [i \in 1..n |-> Rank(keys, i)]
           g == SortPerm(keys)
<1>1. n \in Nat /\ \A k \in 1..n : keys[k] \in Int
  OBVIOUS
<1>2. f \in [1..n -> 1..n]
  BY RankType
<1>3. \A i, j \in 1..n : Before(keys, i, j) => f[i] < f[j]
  BY RankMonotone
<1>4. \A i, j \in 1..n : i = j \/ Before(keys, i, j) \/ Before(keys, j, i)
  BY <1>1 DEF Before
<1>5. \A i, j \in 1..n : f[i] = f[j] => i = j
  BY <1>2, <1>3, <1>4
<1>6. f \in Injection(1..n, 1..n)
  BY <1>2, <1>5 DEF Injection, IsInjective
<1>7. IsFiniteSet(1..n)
  BY <1>1, FS_Interval
<1>8. f \in Surjection(1..n, 1..n)
  BY <1>6, <1>7, FS_Injection, Zenon
<1>9. \A k \in 1..n : \E i \in 1..n : f[i] = k
  BY <1>8 DEF Surjection
<1>10. \A k \in 1..n : g[k] \in 1..n /\ f[g[k]] = k
  <2> TAKE k \in 1..n
  <2>1. \E i \in 1..n : Rank(keys, i) = k
    BY <1>9
  <2>2. g[k] = CHOOSE i \in 1..n : Rank(keys, i) = k
    BY DEF SortPerm
  <2>3. g[k] \in 1..n /\ Rank(keys, g[k]) = k
    BY <2>1, <2>2, Zenon
  <2> QED
    BY <2>3
<1> HIDE DEF f, g
<1>11. g \in [1..n -> 1..n]
  BY <1>10 DEF g, SortPerm
<1>12. \A i \in 1..n : \E k \in 1..n : g[k] = i
  <2> TAKE i \in 1..n
  <2>1. f[i] \in 1..n
    BY <1>2
  <2>2. g[f[i]] = i
    BY <1>5, <1>10, <2>1
  <2> QED
    BY <2>1, <2>2
<1>13. \A k, l \in 1..n : k < l => Before(keys, g[k], g[l])
  <2> TAKE k, l \in 1..n
  <2> HAVE k < l
  <2>1. /\ g[k] \in 1..n /\ f[g[k]] = k
        /\ g[l] \in 1..n /\ f[g[l]] = l
    BY <1>10
  <2>2. Before(keys, g[l], g[k]) => f[g[l]] < f[g[k]]
    BY <1>3, <2>1
  <2>3. ~Before(keys, g[l], g[k])
    BY <2>1, <2>2
  <2> QED
    BY <1>4, <2>1, <2>3
<1> QED
  BY <1>11, <1>12, <1>13 DEF g

(***************************************************************************)
(* sort_by_key on the extents: the sorted vector is the given one permuted *)
(* by a bijection of the positions, so that every element keeps its number *)
(* of copies; it ascends by start; and extents with one start keep the     *)
(* order in which they were found.                                         *)
(***************************************************************************)
THEOREM SortByStartCorrect ==
  ASSUME NEW T, \A t \in T : t.start \in Int, NEW s \in Seq(T)
  PROVE  /\ SortByStart(s) \in Seq(T)
         /\ Len(SortByStart(s)) = Len(s)
         /\ \E g \in Bijection(1..Len(s), 1..Len(s)) :
              /\ \A k \in 1..Len(s) : SortByStart(s)[k] = s[g[k]]
              /\ \A k, l \in 1..Len(s) : k < l =>
                    \/ s[g[k]].start < s[g[l]].start
                    \/ s[g[k]].start = s[g[l]].start /\ g[k] < g[l]
<1> DEFINE n == Len(s)
           keys == [k \in 1..n |-> s[k].start]
           g == SortPerm(keys)
           r == SortByStart(s)
<1>1. n \in Nat /\ \A k \in 1..n : s[k] \in T
  OBVIOUS
<1>2. keys \in [1..n -> Int] /\ \A k \in 1..n : keys[k] = s[k].start
  BY <1>1
<1>3. keys \in Seq(Int) /\ Len(keys) = n
  BY <1>1, <1>2
<1> HIDE DEF keys
<1>4. /\ g \in [1..n -> 1..n]
      /\ \A i \in 1..n : \E k \in 1..n : g[k] = i
      /\ \A k, l \in 1..n : k < l => Before(keys, g[k], g[l])
  BY <1>3, SortPermCorrect
<1>5. r = [k \in 1..n |-> s[g[k]]]
  BY DEF SortByStart, keys
<1> HIDE DEF g, r
<1>6. r \in [1..n -> T]
  BY <1>1, <1>4, <1>5
<1>7. r \in Seq(T) /\ Len(r) = n
  BY <1>1, <1>6
<1>8. ASSUME NEW k \in 1..n, NEW l \in 1..n, k < l
      PROVE  /\ g[k] # g[l]
             /\ \/ s[g[k]].start < s[g[l]].start
                \/ s[g[k]].start = s[g[l]].start /\ g[k] < g[l]
  <2>1. g[k] \in 1..n /\ g[l] \in 1..n /\ Before(keys, g[k], g[l])
    BY <1>4, <1>8
  <2>2. /\ keys[g[k]] \in Int /\ keys[g[k]] = s[g[k]].start
        /\ keys[g[l]] \in Int /\ keys[g[l]] = s[g[l]].start
    BY <1>2, <2>1
  <2> QED
    BY <2>1, <2>2 DEF Before
<1>9. g \in Bijection(1..n, 1..n)
  <2>1. \A k, l \in 1..n : g[k] = g[l] => k = l
    BY <1>1, <1>8
  <2> QED
    BY <1>4, <2>1 DEF Bijection, Injection, Surjection, IsInjective
<1>10. \A k \in 1..n : r[k] = s[g[k]]
  BY <1>5
<1>11. \A k, l \in 1..n : k < l => \/ s[g[k]].start < s[g[l]].start
                                   \/ s[g[k]].start = s[g[l]].start /\ g[k] < g[l]
  BY <1>8
<1> QED
  BY <1>7, <1>9, <1>10, <1>11, Zenon DEF r

\* What the sweeps of check_overlaps and check_gaps use of it: the sorted
\* vector has the elements of the given one and ascends by start.
LEMMA SortByStartAscends ==
  ASSUME NEW T, \A t \in T : t.start \in Int, NEW s \in Seq(T)
  PROVE  /\ SortByStart(s) \in Seq(T)
         /\ Len(SortByStart(s)) = Len(s)
         /\ \A k \in 1..Len(s) : \E i \in 1..Len(s) : SortByStart(s)[k] = s[i]
         /\ \A i \in 1..Len(s) : \E k \in 1..Len(s) : SortByStart(s)[k] = s[i]
         /\ \A k, l \in 1..Len(s) :
               k < l => SortByStart(s)[k].start <= SortByStart(s)[l].start
<1> DEFINE n == Len(s)
           r == SortByStart(s)
<1>1. r \in Seq(T) /\ Len(r) = n
  BY SortByStartCorrect
<1>2. PICK g \in Bijection(1..n, 1..n) :
        /\ \A k \in 1..n : r[k] = s[g[k]]
        /\ \A k, l \in 1..n : k < l => \/ s[g[k]].start < s[g[l]].start
                                       \/ s[g[k]].start = s[g[l]].start /\ g[k] < g[l]
  BY SortByStartCorrect
<1>3. /\ \A k \in 1..n : g[k] \in 1..n
      /\ \A i \in 1..n : \E k \in 1..n : g[k] = i
  BY <1>2 DEF Bijection, Injection, Surjection
<1>4. \A k \in 1..n : s[k].start \in Int
  OBVIOUS
<1> HIDE DEF n, r
<1>5. ASSUME NEW k \in 1..n, NEW l \in 1..n, k < l
      PROVE  r[k].start <= r[l].start
  <2>1. /\ r[k] = s[g[k]] /\ s[g[k]].start \in Int
        /\ r[l] = s[g[l]] /\ s[g[l]].start \in Int
    BY <1>2, <1>3, <1>4
  <2>2. s[g[k]].start < s[g[l]].start \/ s[g[k]].start = s[g[l]].start
    BY <1>2, <1>5
  <2> QED
    BY <2>1, <2>2
<1>6. \A k \in 1..n : \E i \in 1..n : r[k] = s[i]
  BY <1>2, <1>3
<1>7. \A i \in 1..n : \E k \in 1..n : r[k] = s[i]
  <2> TAKE i \in 1..n
  <2>1. PICK k \in 1..n : g[k] = i
    BY <1>3
  <2> QED
    BY <1>2, <2>1
<1> QED
  BY <1>1, <1>5, <1>6, <1>7, Zenon DEF n, r
=============================================================================
