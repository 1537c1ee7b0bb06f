------------------------- MODULE OverlapSweepProofs -------------------------
(***************************************************************************)
(* Proofs about OverlapSweep for every vector of extents, of any length.   *)
(***************************************************************************)
EXTENDS OverlapSweep, StableSortProofs

\* Every clash of two neighbours left of the window has been recorded ...
Recorded ==
    \A k \in 1..Len(sorted) :
      k < i /\ k + 1 <= Len(sorted) /\ Clashes(k) =>
        \E r \in 1..Len(overlaps) : overlaps[r].a = sorted[k].id

\* ... and nothing else has.
Justified ==
    \A r \in 1..Len(overlaps) :
      \E k \in 1..Len(sorted) :
        k + 1 <= Len(sorted) /\ Clashes(k) /\ overlaps[r] = OverlappingPartitions(k)

\* After the sort the vector is the stable sort of the argument.
ControlInv ==
    /\ pc # "sort" => sorted = SortByStart(extents)
    /\ pc = "sort" => i = 1 /\ Len(overlaps) = 0
    /\ pc = "done" => i >= Len(sorted)

SweepInv == TypeOK /\ ControlInv /\ Recorded /\ Justified

\* The sort keeps the extents' type.
LEMMA SortedType ==
  ASSUME NEW s \in Seq(Extent)
  PROVE  SortByStart(s) \in Seq(Extent) /\ Len(SortByStart(s)) = Len(s)
<1>1. \A t \in Extent : t.start \in Int
  BY DEF Extent
<1> QED
  BY <1>1, SortByStartAscends, Zenon

\* While the vector is unchanged so are its windows.
LEMMA WindowsStable ==
  ASSUME sorted' = sorted
  PROVE  \A k : /\ Clashes(k)' <=> Clashes(k)
                /\ OverlappingPartitions(k)' = OverlappingPartitions(k)
BY DEF Clashes, OverlappingPartitions

\* The window that is recorded becomes a report about its first partition.
LEMMA RecordStep ==
  ASSUME SweepInv, RecordOverlap
  PROVE  SweepInv'
<1> DEFINE rep == OverlappingPartitions(i)
<1>1. /\ Len(sorted) \in Nat /\ Len(overlaps) \in Nat
      /\ i \in 1..Len(sorted) /\ i + 1 \in 1..Len(sorted)
      /\ sorted' = sorted /\ i' = i + 1
  BY DEF SweepInv, TypeOK, RecordOverlap, Window
<1>2. sorted[i] \in Extent /\ sorted[i + 1] \in Extent
  BY <1>1 DEF SweepInv, TypeOK
<1>3. rep \in Overlap /\ rep.a = sorted[i].id
  BY <1>2 DEF Extent, Overlap, OverlappingPartitions
<1>4. overlaps' = Append(overlaps, rep) /\ overlaps \in Seq(Overlap)
  BY DEF RecordOverlap, SweepInv, TypeOK
<1> HIDE DEF rep
<1>5. /\ overlaps' \in Seq(Overlap)
      /\ Len(overlaps') = Len(overlaps) + 1
      /\ overlaps'[Len(overlaps) + 1] = rep
      /\ \A r \in 1..Len(overlaps) : overlaps'[r] = overlaps[r]
  BY <1>3, <1>4
<1>6. TypeOK' /\ ControlInv'
  BY <1>1, <1>5 DEF SweepInv, TypeOK, ControlInv, RecordOverlap, Window
<1>7. Recorded'
  <2> SUFFICES ASSUME NEW k \in 1..Len(sorted), k < i + 1, k + 1 <= Len(sorted),
                      Clashes(k)
               PROVE  \E r \in 1..Len(overlaps') : overlaps'[r].a = sorted[k].id
    BY <1>1, WindowsStable DEF Recorded
  <2>1. CASE k < i
    <3>1. PICK r \in 1..Len(overlaps) : overlaps[r].a = sorted[k].id
      BY <2>1 DEF SweepInv, Recorded
    <3> QED
      BY <1>1, <1>5, <3>1
  <2>2. CASE k = i
    BY <1>1, <1>3, <1>5, <2>2
  <2> QED
    BY <1>1, <2>1, <2>2
<1>8. Justified'
  <2> SUFFICES ASSUME NEW r \in 1..Len(overlaps')
               PROVE  \E k \in 1..Len(sorted) :
                        /\ k + 1 <= Len(sorted)
                        /\ Clashes(k)
                        /\ overlaps'[r] = OverlappingPartitions(k)
    BY <1>1, WindowsStable DEF Justified
  <2>1. CASE r \in 1..Len(overlaps)
    BY <1>5, <2>1 DEF SweepInv, Justified
  <2>2. CASE r = Len(overlaps) + 1
    <3>1. Clashes(i)
      BY DEF RecordOverlap
    <3> QED
      BY <1>1, <1>5, <2>2, <3>1 DEF rep
  <2> QED
    BY <1>1, <1>5, <2>1, <2>2
<1> QED
  BY <1>6, <1>7, <1>8 DEF SweepInv

\* check_overlaps starts in SweepInv ...
LEMMA SweepInit == Init => SweepInv
<1> SUFFICES ASSUME Init PROVE SweepInv
  OBVIOUS
<1>1. extents \in Seq(Extent)
  BY LayoutsAssumption, Zenon DEF Init
<1> QED
  BY <1>1 DEF Init, SweepInv, TypeOK, ControlInv, Recorded, Justified

\* ... and every step of it preserves SweepInv.
LEMMA SweepInvStep == SweepInv /\ [Next]_vars => SweepInv'
<1> SUFFICES ASSUME SweepInv, [Next]_vars PROVE SweepInv'
  OBVIOUS
<1>1. CASE SortExtents
  <2>1. sorted' \in Seq(Extent)
    BY <1>1, SortedType DEF SortExtents, SweepInv, TypeOK
  <2>2. /\ i = 1 /\ i' = 1 /\ Len(overlaps') = 0
        /\ pc' = "sweep" /\ sorted' = SortByStart(extents')
    BY <1>1 DEF SortExtents, SweepInv, ControlInv
  <2>3. TypeOK' /\ ControlInv'
    BY <1>1, <2>1, <2>2 DEF SortExtents, SweepInv, TypeOK, ControlInv
  <2>4. Recorded' /\ Justified'
    BY <2>2 DEF Recorded, Justified
  <2> QED
    BY <2>3, <2>4 DEF SweepInv
<1>2. CASE RecordOverlap
  BY <1>2, RecordStep
<1>3. CASE NextWindow
  <2>1. /\ sorted' = sorted /\ overlaps' = overlaps /\ i' = i + 1
        /\ ~Clashes(i) /\ i \in Nat
    BY <1>3 DEF NextWindow, SweepInv, TypeOK
  <2>2. TypeOK' /\ ControlInv'
    BY <1>3 DEF NextWindow, Window, SweepInv, TypeOK, ControlInv
  <2>3. Recorded' /\ Justified'
    BY <2>1, WindowsStable DEF SweepInv, Recorded, Justified
  <2> QED
    BY <2>2, <2>3 DEF SweepInv
<1>4. CASE SweepDone \/ Returned \/ UNCHANGED vars
  <2>1. sorted' = sorted /\ overlaps' = overlaps /\ i' = i
    BY <1>4 DEF SweepDone, Returned, vars
  <2>2. TypeOK' /\ ControlInv'
    BY <1>4 DEF SweepDone, Returned, vars, SweepInv, TypeOK, ControlInv
  <2>3. Recorded' /\ Justified'
    BY <2>1, WindowsStable DEF SweepInv, Recorded, Justified
  <2> QED
    BY <2>2, <2>3 DEF SweepInv
<1> QED
  BY <1>1, <1>2, <1>3, <1>4 DEF Next, Step

\* SweepInv is an invariant of check_overlaps.
THEOREM SweepInvariant == Spec => []SweepInv
<1> QED
  BY SweepInit, SweepInvStep, PTL DEF Spec

\* Where the sort puts the extents: a permutation that orders them by start,
\* equal starts in discovery order.
LEMMA SortedIsPermuted ==
  ASSUME SweepInv, pc # "sort"
  PROVE  LET g == SortPerm(Starts)
             n == Len(extents)
         IN  /\ n \in Nat /\ Len(sorted) = n
             /\ g \in [1..n -> 1..n]
             /\ \A k \in 1..n : sorted[k] = extents[g[k]]
             /\ \A j \in 1..n : \E k \in 1..n : g[k] = j
             /\ \A k, l \in 1..n : k < l => Before(Starts, g[k], g[l])
<1> DEFINE g == SortPerm(Starts)
           n == Len(extents)
<1>1. n \in Nat /\ extents \in Seq(Extent)
  BY DEF SweepInv, TypeOK
<1>2. \A k \in 1..n : extents[k].start \in Int
  <2> TAKE k \in 1..n
  <2>1. extents[k] \in Extent
    BY <1>1
  <2> QED
    BY <2>1 DEF Extent
<1>3. Starts \in Seq(Int) /\ Len(Starts) = n
  <2>1. Starts \in [1..n -> Int]
    BY <1>2 DEF Starts
  <2> QED
    BY <1>1, <2>1
<1>4. /\ g \in [1..n -> 1..n]
      /\ \A j \in 1..n : \E k \in 1..n : g[k] = j
      /\ \A k, l \in 1..n : k < l => Before(Starts, g[k], g[l])
  BY <1>3, SortPermCorrect
<1>5. sorted = [k \in 1..n |-> extents[g[k]]]
  BY DEF SweepInv, ControlInv, SortByStart, Starts
<1>6. Len(sorted) = n
  BY <1>1, SortedType DEF SweepInv, ControlInv
<1> HIDE DEF g
<1>7. \A k \in 1..n : sorted[k] = extents[g[k]]
  BY <1>5
<1> QED
  BY <1>1, <1>4, <1>6, <1>7 DEF g

\* In SweepInv the clashes of neighbours recorded reveal every overlap.
LEMMA SweepInvSurfaces == SweepInv => EveryOverlapSurfaces
<1> SUFFICES ASSUME SweepInv, pc = "done",
                    NEW j \in 1..Len(extents), NEW k \in 1..Len(extents),
                    Before(Starts, j, k), Intersect(extents[j], extents[k])
             PROVE  \E r \in 1..Len(overlaps) : overlaps[r].a = extents[j].id
  BY DEF EveryOverlapSurfaces
<1> DEFINE g == SortPerm(Starts)
           n == Len(extents)
<1>1. /\ n \in Nat /\ Len(sorted) = n
      /\ g \in [1..n -> 1..n]
      /\ \A p \in 1..n : sorted[p] = extents[g[p]]
      /\ \A m \in 1..n : \E p \in 1..n : g[p] = m
      /\ \A p, q \in 1..n : p < q => Before(Starts, g[p], g[q])
  BY SortedIsPermuted
<1>2. \A m \in 1..n : /\ extents[m].start \in Nat /\ extents[m].end \in Nat
                      /\ Starts[m] = extents[m].start
  <2> TAKE m \in 1..n
  <2>1. extents[m] \in Extent
    BY DEF SweepInv, TypeOK
  <2> QED
    BY <2>1 DEF Extent, Starts
<1> HIDE DEF g
<1>3. PICK p \in 1..n : g[p] = j
  BY <1>1
<1>4. PICK q \in 1..n : g[q] = k
  BY <1>1
<1>5. p < q
  <2>1. ~Before(Starts, k, j) /\ j # k
    BY <1>2 DEF Before
  <2>2. q < p => Before(Starts, k, j)
    BY <1>1, <1>3, <1>4
  <2>3. p # q
    BY <1>3, <1>4, <2>1
  <2> QED
    BY <1>1, <2>1, <2>2, <2>3
<1>6. p + 1 \in 1..n
  BY <1>1, <1>5
<1>7. sorted[p + 1].start <= sorted[q].start
  <2>1. /\ sorted[p + 1].start \in Nat /\ sorted[q].start \in Nat
        /\ sorted[p + 1].start = Starts[g[p + 1]]
        /\ sorted[q].start = Starts[g[q]]
    BY <1>1, <1>2, <1>6
  <2>2. CASE p + 1 = q
    BY <2>1, <2>2
  <2>3. CASE p + 1 < q
    <3>1. Before(Starts, g[p + 1], g[q])
      BY <1>1, <1>6, <2>3
    <3> QED
      BY ONLY <2>1, <3>1 DEF Before
  <2> QED
    BY <1>1, <1>5, <2>2, <2>3
<1>8. sorted[p] = extents[j] /\ sorted[q] = extents[k]
  BY <1>1, <1>3, <1>4
<1>9. Clashes(p)
  <2>1. extents[k].start <= extents[j].end
    BY DEF Intersect
  <2>2. sorted[p + 1].start \in Nat
    BY <1>1, <1>2, <1>6
  <2> QED
    BY <1>2, <1>7, <1>8, <2>1, <2>2 DEF Clashes
<1>10. p < i
  BY <1>1, <1>5 DEF SweepInv, ControlInv, TypeOK
<1>11. p \in 1..Len(sorted) /\ p + 1 <= Len(sorted)
  BY <1>1, <1>6
<1>12. \E r \in 1..Len(overlaps) : overlaps[r].a = sorted[p].id
  BY <1>9, <1>10, <1>11 DEF SweepInv, Recorded
<1> QED
  BY <1>8, <1>12

(***************************************************************************)
(* Comparing neighbours is enough to notice every overlap: of two extents  *)
(* that share a sector, the one sorted first clashes with its immediate    *)
(* successor, because no start in between can be larger.                   *)
(***************************************************************************)
THEOREM NoOverlapMissed == Spec => []EveryOverlapSurfaces
<1> QED
  BY SweepInvSurfaces, SweepInvariant, PTL

(***************************************************************************)
(* Every report is about two different partitions of the vector whose      *)
(* ranges meet, unless the second one has no sectors.                      *)
(***************************************************************************)
THEOREM NoOverlapInvented == Spec => []ReportsAreReal
<1>1. SweepInv => ReportsAreReal
  <2> SUFFICES ASSUME SweepInv, NEW r \in 1..Len(overlaps)
               PROVE  \E j, k \in 1..Len(extents) :
                        /\ j # k
                        /\ overlaps[r] = [ a |-> extents[j].id, b |-> extents[k].id,
                                           a_end |-> extents[j].end,
                                           b_start |-> extents[k].start ]
                        /\ extents[k].start <= extents[k].end =>
                             Intersect(extents[j], extents[k])
    BY DEF ReportsAreReal
  <2> DEFINE g == SortPerm(Starts)
             n == Len(extents)
  <2>0. pc # "sort"
    BY DEF SweepInv, ControlInv
  <2>1. /\ n \in Nat /\ Len(sorted) = n
        /\ g \in [1..n -> 1..n]
        /\ \A p \in 1..n : sorted[p] = extents[g[p]]
        /\ \A p, q \in 1..n : p < q => Before(Starts, g[p], g[q])
    BY <2>0, SortedIsPermuted
  <2> HIDE DEF g
  <2>2. \A m \in 1..n : /\ extents[m].start \in Nat /\ extents[m].end \in Nat
                        /\ Starts[m] = extents[m].start
    <3> TAKE m \in 1..n
    <3>1. extents[m] \in Extent
      BY DEF SweepInv, TypeOK
    <3> QED
      BY <3>1 DEF Extent, Starts
  <2>3. PICK p \in 1..n : /\ p + 1 <= n /\ Clashes(p)
                          /\ overlaps[r] = OverlappingPartitions(p)
    BY <2>1 DEF SweepInv, Justified
  <2> DEFINE j == g[p]
             k == g[p + 1]
  <2>4. p + 1 \in 1..n /\ p < p + 1
    BY <2>1, <2>3
  <2>5. /\ j \in 1..n /\ k \in 1..n
        /\ sorted[p] = extents[j] /\ sorted[p + 1] = extents[k]
        /\ Before(Starts, j, k)
    BY <2>1, <2>4
  <2> HIDE DEF j, k
  <2>6. j # k /\ extents[j].start <= extents[k].start
    BY <2>2, <2>5 DEF Before
  <2>7. extents[k].start <= extents[j].end
    BY <2>3, <2>5 DEF Clashes
  <2>8. overlaps[r] = [ a |-> extents[j].id, b |-> extents[k].id,
                        a_end |-> extents[j].end, b_start |-> extents[k].start ]
    BY <2>3, <2>5 DEF OverlappingPartitions
  <2>9. extents[k].start <= extents[k].end => Intersect(extents[j], extents[k])
    <3>1. /\ extents[j].start \in Nat /\ extents[j].end \in Nat
          /\ extents[k].start \in Nat /\ extents[k].end \in Nat
      BY <2>2, <2>5
    <3>2. \A js, je, ks, ke \in Nat :
            js <= ks /\ ks <= je /\ ks <= ke => js <= je /\ js <= ke
      OBVIOUS
    <3>3. ASSUME extents[k].start <= extents[k].end
          PROVE  Intersect(extents[j], extents[k])
      <4>1. /\ extents[j].start <= extents[j].end
            /\ extents[j].start <= extents[k].end
        BY <2>6, <2>7, <3>1, <3>2, <3>3
      <4> QED
        BY <2>7, <3>3, <4>1, Zenon DEF Intersect
    <3> QED
      BY <3>3
  <2> QED
    BY <2>5, <2>6, <2>8, <2>9
<1> QED
  BY <1>1, SweepInvariant, PTL
=============================================================================
