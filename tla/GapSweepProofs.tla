--------------------------- MODULE GapSweepProofs ---------------------------
(***************************************************************************)
(* Proofs about GapSweep for every disk size, sector size and vector of    *)
(* extents, of any length.                                                 *)
(***************************************************************************)
EXTENDS GapSweep, StableSortProofs

-----------------------------------------------------------------------------
(* The inductive invariant, in named parts. *)

\* The sorted vector holds the extents, ascending by start.
SortedInv ==
    pc = "sweep" \/ (pc = "done" /\ disk_size_bytes # 0) =>
      /\ \A k \in 1..Len(sorted) : \E j \in 1..Len(extents) : sorted[k] = extents[j]
      /\ \A j \in 1..Len(extents) : \E k \in 1..Len(sorted) : sorted[k] = extents[j]
      /\ \A k, m \in 1..Len(sorted) : k <= m => sorted[k].start <= sorted[m].start

\* The cursor is behind every extent passed, and just behind one of them
\* unless it has not moved.
CursorInv ==
    /\ \A k \in 1..Len(sorted) : k < i => sorted[k].end < cursor
    /\ \/ cursor = FIRST_USABLE
       \/ \E j \in 1..Len(extents) : extents[j].end + 1 = cursor
    /\ pc = "start" => /\ Len(sorted) = 0 /\ Len(gaps) = 0
                       /\ i = 1 /\ cursor = FIRST_USABLE
    /\ pc = "sweep" => disk_size_bytes # 0
    /\ pc = "done" => disk_size_bytes = 0 \/ i > Len(sorted)
    /\ pc = "done" /\ disk_size_bytes = 0 => Len(gaps) = 0

\* Up to the cursor, the gaps are the unclaimed sectors.
BehindInv ==
    pc # "start" /\ disk_size_bytes # 0 =>
      \A l \in FIRST_USABLE..U64Max : l < cursor => (InGap(l) <=> ~Claimed(l))

\* Until the tail is added no gap reaches the cursor and none is called "post".
OpenInv ==
    pc = "sweep" => \A k \in 1..Len(gaps) : /\ gaps[k].lba_end < cursor
                                            /\ gaps[k].kind # "PostPartition"

\* Once it is added, what the gaps reach past the cursor is the tail.
TailInv ==
    pc = "done" /\ disk_size_bytes # 0 =>
      \A l \in FIRST_USABLE..U64Max : l >= cursor => (InGap(l) <=> l <= last_lba)

\* The size given for a gap, which may have wrapped, is at most that of its sectors.
Fits(g) == g.byte_size <= (g.lba_end - g.lba_start + 1) * SectorSize

\* Every gap starts at a usable sector, and its size is not exaggerated.
UsableInv == \A k \in 1..Len(gaps) : gaps[k].lba_start >= FIRST_USABLE /\ Fits(gaps[k])

GapInv == /\ TypeOK /\ SortedInv /\ CursorInv /\ BehindInv /\ OpenInv /\ TailInv
          /\ UsableInv /\ GapsAscend /\ GapKindsAreTrue

-----------------------------------------------------------------------------
(* Lemmas. *)

\* Appending a gap adds its sectors, and only those, to the sectors in gaps.
LEMMA AppendGap ==
  ASSUME TypeOK, NEW first \in Nat, NEW last \in Nat, first <= last,
         NEW kind \in {"PrePartition", "Between", "PostPartition"},
         gaps' = Append(gaps, NewGap(first, last, kind))
  PROVE  /\ gaps' \in Seq(Gap)
         /\ Len(gaps) \in Nat /\ Len(gaps') = Len(gaps) + 1
         /\ \A k \in 1..Len(gaps) : gaps'[k] = gaps[k]
         /\ gaps'[Len(gaps')].lba_start = first
         /\ gaps'[Len(gaps')].lba_end = last
         /\ gaps'[Len(gaps')].kind = kind
         /\ Fits(gaps'[Len(gaps')])
         /\ \A l : InGap(l)' <=> InGap(l) \/ (first <= l /\ l <= last)
<1> DEFINE g == NewGap(first, last, kind)
<1>1. /\ ByteSize(last - first + 1) \in 0..U64Max
      /\ ByteSize(last - first + 1) <= (last - first + 1) * SectorSize
  <2> DEFINE b == (last - first + 1) * SectorSize
  <2>1. last - first + 1 \in Nat /\ SectorSize \in Nat /\ U64Max + 1 > 0 /\ U64Max \in Nat
    BY GeometryAssumption
  <2>2. b \in Nat
    BY <2>1
  <2> HIDE DEF b
  <2>3. b % (U64Max + 1) \in 0..U64Max /\ b % (U64Max + 1) <= b
    BY <2>1, <2>2
  <2> QED
    BY <2>3 DEF ByteSize, b
<1>2. /\ g \in Gap
      /\ g.lba_start = first /\ g.lba_end = last /\ g.kind = kind
      /\ Fits(g)
  BY <1>1 DEF NewGap, Gap, Fits
<1> HIDE DEF g
<1>3. gaps' = Append(gaps, g) /\ gaps \in Seq(Gap)
  BY DEF TypeOK, g
<1>4. /\ gaps' \in Seq(Gap)
      /\ Len(gaps) \in Nat /\ Len(gaps') = Len(gaps) + 1
      /\ \A k \in 1..Len(gaps) : gaps'[k] = gaps[k]
      /\ gaps'[Len(gaps) + 1] = g
  BY <1>2, <1>3
<1>5. 1..Len(gaps') = (1..Len(gaps)) \cup {Len(gaps) + 1}
  BY <1>4
<1>6. \A l : InGap(l)' <=> InGap(l) \/ (first <= l /\ l <= last)
  BY <1>2, <1>4, <1>5 DEF InGap
<1> QED
  BY <1>2, <1>4, <1>6

\* What an extent of the sorted vector is.
LEMMA ExtentFacts ==
  ASSUME TypeOK
  PROVE  /\ Len(sorted) \in Nat /\ Len(extents) \in Nat
         /\ \A k \in 1..Len(sorted) :
              /\ sorted[k].start \in Nat /\ sorted[k].end \in Nat
              /\ sorted[k].end + 1 >= sorted[k].start
              /\ sorted[k].end + 1 <= U64Max
         /\ \A k \in 1..Len(extents) :
              /\ extents[k].start \in Nat /\ extents[k].end \in Nat
              /\ extents[k].end + 1 >= extents[k].start
              /\ extents[k].end + 1 <= U64Max
<1>1. \A e \in Extent : /\ e.start \in Nat /\ e.end \in Nat
                         /\ e.end + 1 >= e.start /\ e.end + 1 <= U64Max
  BY GeometryAssumption DEF Extent
<1>2. /\ \A k \in 1..Len(sorted) : sorted[k] \in Extent
      /\ \A k \in 1..Len(extents) : extents[k] \in Extent
  BY DEF TypeOK
<1> QED
  BY <1>1, <1>2 DEF TypeOK

\* The last LBA of a disk fits a u64.
LEMMA LastLbaType ==
  ASSUME NEW size \in 0..U64Max
  PROVE  DiskLastLba(size) \in 0..U64Max
<1>1. size \div SectorSize \in 0..size
  BY GeometryAssumption
<1> QED
  BY <1>1, GeometryAssumption DEF DiskLastLba

\* The sweep starts in its invariant.
LEMMA InitInv == Init => GapInv
<1> SUFFICES ASSUME Init PROVE GapInv
  OBVIOUS
<1>1. extents \in Seq(Extent) /\ disk_size_bytes \in 0..U64Max
  BY LayoutsAssumption, Zenon DEF Init
<1>2. last_lba \in 0..U64Max
  BY <1>1, LastLbaType DEF Init
<1>3. TypeOK
  <2>1. sorted \in Seq(Extent) /\ gaps \in Seq(Gap)
    BY DEF Init
  <2> QED
    BY <1>1, <1>2, <2>1, GeometryAssumption DEF Init, TypeOK
<1>4. Len(gaps) = 0 /\ Len(sorted) = 0 /\ pc = "start"
  BY DEF Init
<1> QED
  BY <1>3, <1>4 DEF Init, GapInv, SortedInv, CursorInv, BehindInv, OpenInv, TailInv,
                    UsableInv, GapsAscend, GapKindsAreTrue

\* The sort establishes SortedInv; nothing lies behind the cursor yet.
LEMMA SortStep ==
  ASSUME GapInv, SortExtents
  PROVE  GapInv'
<1>1. extents \in Seq(Extent) /\ \A t \in Extent : t.start \in Int
  BY DEF GapInv, TypeOK, Extent
<1>2. /\ sorted' \in Seq(Extent)
      /\ Len(sorted') = Len(extents)
      /\ \A k \in 1..Len(extents) : \E j \in 1..Len(extents) : sorted'[k] = extents[j]
      /\ \A j \in 1..Len(extents) : \E k \in 1..Len(extents) : sorted'[k] = extents[j]
      /\ \A k, m \in 1..Len(extents) : k < m => sorted'[k].start <= sorted'[m].start
  BY <1>1, SortByStartAscends, Zenon DEF SortExtents
<1>3. /\ i' = 1 /\ Len(gaps') = 0 /\ cursor' = cursor /\ pc' = "sweep"
      /\ disk_size_bytes' # 0 /\ extents' = extents
  BY DEF SortExtents, GapInv, CursorInv
<1>4. TypeOK'
  BY <1>2 DEF SortExtents, GapInv, TypeOK
<1>5. SortedInv'
  <2>1. ASSUME NEW k \in 1..Len(sorted'), NEW m \in 1..Len(sorted'), k <= m
        PROVE  sorted'[k].start <= sorted'[m].start
    <3>1. sorted' \in Seq(Extent) /\ Len(sorted') = Len(extents) /\ Len(extents) \in Nat
      BY <1>1, <1>2
    <3>2. sorted'[k] \in Extent
      BY ONLY <3>1, k \in 1..Len(sorted')
    <3>3. sorted'[k].start \in Int
      BY <1>1, <3>2
    <3>4. CASE k < m
      BY <1>2, <3>1, <3>4
    <3>5. CASE k = m
      BY <3>3, <3>5
    <3> QED
      BY <2>1, <3>1, <3>4, <3>5
  <2> QED
    BY <1>2, <1>3, <2>1 DEF SortedInv
<1>6. cursor = FIRST_USABLE
  BY DEF SortExtents, GapInv, CursorInv
<1>7. CursorInv'
  BY <1>3, <1>6 DEF CursorInv
<1>8. BehindInv'
  BY <1>3, <1>6, GeometryAssumption DEF BehindInv
<1> QED
  BY <1>3, <1>4, <1>5, <1>7, <1>8
  DEF GapInv, OpenInv, TailInv, UsableInv, GapsAscend, GapKindsAreTrue

\* Passing an extent that repeats its predecessor changes nothing.
LEMMA SkipStep ==
  ASSUME GapInv, SkipRepeated
  PROVE  GapInv'
<1>1. /\ i \in 1..Len(sorted) /\ i - 1 \in 1..Len(sorted) /\ i - 1 < i
      /\ sorted[i] = sorted[i - 1] /\ Len(sorted) \in Nat
  BY DEF GapInv, TypeOK, SkipRepeated, Repeats
<1>2. /\ i' = i + 1 /\ sorted' = sorted /\ extents' = extents /\ gaps' = gaps
      /\ cursor' = cursor /\ pc' = pc /\ pc = "sweep"
      /\ last_lba' = last_lba /\ disk_size_bytes' = disk_size_bytes
  BY DEF SkipRepeated
<1>3. TypeOK' /\ SortedInv'
  <2>1. TypeOK /\ SortedInv
    BY DEF GapInv
  <2>2. i' \in Nat \ {0}
    BY <1>1, <1>2
  <2>3. TypeOK'
    BY <1>2, <2>1, <2>2, Zenon DEF TypeOK
  <2>4. SortedInv'
    BY <1>2, <2>1, Zenon DEF SortedInv
  <2> QED
    BY <2>3, <2>4
<1>4. sorted[i].end < cursor
  BY <1>1 DEF GapInv, CursorInv
<1>5. CursorInv'
  BY <1>1, <1>2, <1>4 DEF GapInv, CursorInv
<1>6. \A l : (InGap(l)' <=> InGap(l)) /\ (Claimed(l)' <=> Claimed(l))
  BY <1>2 DEF InGap, Claimed
<1>7. BehindInv' /\ TailInv'
  BY <1>2, <1>6 DEF GapInv, BehindInv, TailInv
<1>8. OpenInv' /\ UsableInv' /\ GapsAscend'
  BY <1>2 DEF GapInv, OpenInv, UsableInv, GapsAscend
<1>9. GapKindsAreTrue'
  BY <1>2 DEF GapInv, GapKindsAreTrue
<1> QED
  BY <1>3, <1>5, <1>7, <1>8, <1>9 DEF GapInv

\* One iteration of the loop of compute_gaps.
LEMMA SweepStep ==
  ASSUME GapInv, SweepExtent
  PROVE  GapInv'
<1> DEFINE e == sorted[i]
           c == cursor
<1>1. /\ i \in 1..Len(sorted) /\ Len(sorted) \in Nat /\ Len(extents) \in Nat
      /\ i' = i + 1 /\ sorted' = sorted /\ extents' = extents
      /\ pc' = pc /\ pc = "sweep" /\ disk_size_bytes # 0
      /\ last_lba' = last_lba /\ disk_size_bytes' = disk_size_bytes
      /\ c \in Nat /\ FIRST_USABLE \in Nat /\ U64Max \in Nat
      /\ FIRST_USABLE <= c /\ c <= U64Max
  BY GeometryAssumption DEF GapInv, TypeOK, CursorInv, SweepExtent
<1>2. /\ e.start \in Nat /\ e.end \in Nat
      /\ e.end + 1 >= e.start /\ e.end + 1 <= U64Max
  BY <1>1, ExtentFacts DEF GapInv
<1>3. PICK j0 \in 1..Len(extents) : e = extents[j0]
  BY <1>1 DEF GapInv, SortedInv
<1>4. /\ cursor' \in Nat /\ c <= cursor' /\ cursor' <= U64Max
      /\ e.end < cursor' /\ e.start <= cursor'
      /\ cursor' = c \/ cursor' = e.end + 1
      /\ e.start > c => cursor' = e.end + 1
  <2>1. cursor' = IF e.end >= c THEN e.end + 1 ELSE c
    BY DEF SweepExtent, CursorAfter
  <2> HIDE DEF e, c
  <2> QED
    BY <1>1, <1>2, <2>1
<1>5. \A l : Claimed(l)' <=> Claimed(l)
  BY <1>1 DEF Claimed
<1>6. \A l \in Nat : c <= l /\ l < e.start => ~Claimed(l)
  <2> SUFFICES ASSUME NEW l \in Nat, c <= l, l < e.start, NEW j \in 1..Len(extents),
                      extents[j].start <= l, l <= extents[j].end
               PROVE  FALSE
    BY DEF Claimed
  <2>1. PICK k \in 1..Len(sorted) : sorted[k] = extents[j]
    BY <1>1 DEF GapInv, SortedInv
  <2>2. sorted[k].start \in Nat /\ sorted[k].end \in Nat
    BY ExtentFacts DEF GapInv
  <2>3. CASE k < i
    BY <1>1, <2>1, <2>2, <2>3 DEF GapInv, CursorInv
  <2>4. CASE i <= k
    <3>1. e.start <= sorted[k].start
      BY <1>1, <2>4 DEF GapInv, SortedInv
    <3> QED
      BY <1>2, <2>1, <2>2, <3>1
  <2> QED
    BY <1>1, <2>3, <2>4
<1>7. \A l \in Nat : c <= l /\ e.start <= l /\ l < cursor' => Claimed(l)
  BY <1>1, <1>2, <1>3, <1>4 DEF Claimed
<1>8. KindAtCursor \in {"PrePartition", "Between"}
  BY DEF KindAtCursor
<1> DEFINE n == Len(gaps)
<1>9. n \in Nat
  BY DEF GapInv, TypeOK
<1>10. CASE e.start > c
  <2>1. gaps' = Append(gaps, NewGap(c, e.start - 1, KindAtCursor))
    BY <1>10 DEF SweepExtent
  <2>2. e.start - 1 \in Nat /\ c <= e.start - 1
    BY <1>1, <1>2, <1>10
  <2>3. /\ gaps' \in Seq(Gap)
        /\ Len(gaps') = n + 1
        /\ \A k \in 1..n : gaps'[k] = gaps[k]
        /\ gaps'[n + 1].lba_start = c
        /\ gaps'[n + 1].lba_end = e.start - 1
        /\ gaps'[n + 1].kind = KindAtCursor
        /\ Fits(gaps'[n + 1])
        /\ \A l : InGap(l)' <=> InGap(l) \/ (c <= l /\ l <= e.start - 1)
    <3>1. KindAtCursor \in {"PrePartition", "Between", "PostPartition"}
      BY <1>8
    <3> HIDE DEF e, c
    <3> QED
      BY <1>1, <2>1, <2>2, <3>1, AppendGap DEF GapInv, c
  <2> HIDE DEF n
  <2>4. \A k \in 1..Len(gaps') : k \in 1..n \/ k = n + 1
    BY <1>9, <2>3
  <2>5. \A k \in 1..n : /\ gaps[k].lba_start \in Nat /\ gaps[k].lba_end \in Nat
                       /\ gaps[k].lba_start <= gaps[k].lba_end
                       /\ gaps[k].lba_end < c
                       /\ gaps[k].kind # "PostPartition"
                       /\ gaps[k].lba_start >= FIRST_USABLE
                       /\ Fits(gaps[k])
    <3> TAKE k \in 1..n
    <3>1. gaps[k] \in Gap
      BY DEF GapInv, TypeOK, n
    <3>2. gaps[k].lba_start \in Nat /\ gaps[k].lba_end \in Nat
      BY <3>1 DEF Gap
    <3> QED
      BY <1>1, <3>2 DEF GapInv, OpenInv, GapsAscend, UsableInv, n
  <2>6. TypeOK'
    BY <1>1, <1>4, <2>3 DEF GapInv, TypeOK
  <2>7. GapsAscend'
    <3>1. \A k \in 1..Len(gaps') : gaps'[k].lba_start <= gaps'[k].lba_end
      BY <2>2, <2>3, <2>4, <2>5
    <3>2. ASSUME NEW k \in 1..Len(gaps'), NEW m \in 1..Len(gaps'), k < m
          PROVE  gaps'[k].lba_end < gaps'[m].lba_start
      <4>1. k \in 1..n
        BY <1>9, <2>3, <3>2
      <4>2. CASE m \in 1..n
        BY <2>3, <3>2, <4>1, <4>2 DEF GapInv, GapsAscend, n
      <4>3. CASE m = n + 1
        BY <2>3, <2>5, <4>1, <4>3
      <4> QED
        BY <2>4, <4>2, <4>3
    <3> QED
      BY <3>1, <3>2 DEF GapsAscend
  <2>8. OpenInv' /\ UsableInv'
    <3>1. \A k \in 1..Len(gaps') : /\ gaps'[k].lba_end < cursor'
                                   /\ gaps'[k].kind # "PostPartition"
                                   /\ gaps'[k].lba_start >= FIRST_USABLE
                                   /\ Fits(gaps'[k])
      <4> TAKE k \in 1..Len(gaps')
      <4> HIDE DEF e, c
      <4>1. CASE k \in 1..n
        BY <1>1, <1>4, <2>3, <2>5, <4>1
      <4>2. CASE k = n + 1
        BY <1>1, <1>2, <1>4, <1>8, <2>3, <4>2
      <4> QED
        BY <2>4, <4>1, <4>2
    <3> QED
      BY <3>1 DEF OpenInv, UsableInv
  <2>9. GapKindsAreTrue'
    <3> DEFINE RunsUpToOne(g) == \E j \in 1..Len(extents) : extents[j].start = g.lba_end + 1
               FollowsOne(g)  == \E j \in 1..Len(extents) : extents[j].end + 1 = g.lba_start
               True(g) == /\ g.kind = "PrePartition" => g.lba_start = FIRST_USABLE /\ RunsUpToOne(g)
                          /\ g.kind = "Between" => FollowsOne(g) /\ RunsUpToOne(g)
                          /\ g.kind = "PostPartition" =>
                               /\ g.lba_end = last_lba
                               /\ \A j \in 1..Len(extents) : extents[j].end < g.lba_start
    <3>1. \A k \in 1..n : True(gaps[k])
      BY DEF GapInv, GapKindsAreTrue, n
    <3>2. True(gaps'[n + 1])
      <4>1. RunsUpToOne(gaps'[n + 1])
        BY <1>2, <1>3, <2>3
      <4>2. KindAtCursor = "PrePartition" => c = FIRST_USABLE
        BY DEF KindAtCursor
      <4>3. KindAtCursor = "Between" => FollowsOne(gaps'[n + 1])
        BY <2>3 DEF KindAtCursor, GapInv, CursorInv
      <4> QED
        BY <1>8, <2>3, <4>1, <4>2, <4>3
    <3>3. \A k \in 1..Len(gaps') : True(gaps'[k])
      <4> HIDE DEF True
      <4> QED
        BY <2>3, <2>4, <3>1, <3>2
    <3> QED
      BY <1>1, <3>3 DEF GapKindsAreTrue
  <2>10. BehindInv'
    <3> SUFFICES ASSUME NEW l \in FIRST_USABLE..U64Max, l < cursor'
                 PROVE  InGap(l)' <=> ~Claimed(l)
      BY <1>1, <1>5 DEF BehindInv
    <3>1. l \in Nat
      BY <1>1
    <3>2. CASE l < c
      BY <1>1, <2>3, <3>1, <3>2 DEF GapInv, BehindInv
    <3>3. CASE c <= l
      <4>1. ~InGap(l)
        BY <1>1, <2>5, <3>1, <3>3 DEF InGap, n
      <4> QED
        BY <1>2, <1>6, <1>7, <2>3, <3>1, <3>3, <4>1
    <3> QED
      BY <1>1, <3>1, <3>2, <3>3
  <2>11. CursorInv'
    <3>1. \A k \in 1..Len(sorted) : k < i + 1 => sorted[k].end < cursor'
      <4> TAKE k \in 1..Len(sorted)
      <4>1. sorted[k].end \in Nat
        BY ExtentFacts DEF GapInv
      <4> QED
        BY <1>1, <1>4, <4>1 DEF GapInv, CursorInv
    <3> QED
      BY <1>1, <1>3, <1>4, <3>1 DEF GapInv, CursorInv
  <2> QED
    BY <1>1, <2>6, <2>7, <2>8, <2>9, <2>10, <2>11 DEF GapInv, SortedInv, TailInv
<1>11. CASE e.start <= c
  <2>1. gaps' = gaps
    BY <1>1, <1>2, <1>11 DEF SweepExtent
  <2>2. TypeOK'
    BY <1>1, <1>4, <2>1 DEF GapInv, TypeOK
  <2>3. GapsAscend' /\ UsableInv'
    BY <2>1 DEF GapInv, GapsAscend, UsableInv
  <2>4. OpenInv'
    <3> SUFFICES ASSUME NEW k \in 1..Len(gaps)
                 PROVE  gaps[k].lba_end < cursor' /\ gaps[k].kind # "PostPartition"
      BY <2>1 DEF OpenInv
    <3>1. gaps[k] \in Gap
      BY DEF GapInv, TypeOK
    <3>2. gaps[k].lba_end \in Nat
      BY <3>1 DEF Gap
    <3> QED
      BY <1>1, <1>4, <3>2 DEF GapInv, OpenInv
  <2>5. GapKindsAreTrue'
    BY <1>1, <2>1 DEF GapInv, GapKindsAreTrue
  <2>6. BehindInv'
    <3> SUFFICES ASSUME NEW l \in FIRST_USABLE..U64Max, l < cursor'
                 PROVE  InGap(l) <=> ~Claimed(l)
      BY <1>1, <1>5, <2>1 DEF BehindInv, InGap
    <3>1. l \in Nat
      BY <1>1
    <3>2. CASE l < c
      BY <1>1, <3>1, <3>2 DEF GapInv, BehindInv
    <3>3. CASE c <= l
      <4>1. Claimed(l)
        BY <1>1, <1>2, <1>7, <1>11, <3>1, <3>3
      <4>2. ~InGap(l)
        <5>1. \A k \in 1..Len(gaps) : gaps[k] \in Gap
          BY DEF GapInv, TypeOK
        <5>2. \A k \in 1..Len(gaps) : gaps[k].lba_end \in Nat
          BY <5>1 DEF Gap
        <5> QED
          BY <1>1, <3>1, <3>3, <5>2 DEF InGap, GapInv, OpenInv
      <4> QED
        BY <4>1, <4>2
    <3> QED
      BY <1>1, <3>1, <3>2, <3>3
  <2>7. CursorInv'
    <3>1. \A k \in 1..Len(sorted) : k < i + 1 => sorted[k].end < cursor'
      <4> TAKE k \in 1..Len(sorted)
      <4>1. sorted[k].end \in Nat
        BY ExtentFacts DEF GapInv
      <4> QED
        BY <1>1, <1>4, <4>1 DEF GapInv, CursorInv
    <3> QED
      BY <1>1, <1>3, <1>4, <2>1, <3>1 DEF GapInv, CursorInv
  <2> QED
    BY <1>1, <2>2, <2>3, <2>4, <2>5, <2>6, <2>7 DEF GapInv, SortedInv, TailInv
<1> QED
  BY <1>1, <1>2, <1>10, <1>11

\* The space behind the last extent.
LEMMA TailStep ==
  ASSUME GapInv, SweepTail
  PROVE  GapInv'
<1> DEFINE c == cursor
           n == Len(gaps)
<1>1. /\ i > Len(sorted) /\ Len(sorted) \in Nat /\ Len(extents) \in Nat
      /\ i' = i /\ sorted' = sorted /\ extents' = extents /\ cursor' = cursor
      /\ pc' = "done" /\ pc = "sweep" /\ disk_size_bytes # 0
      /\ last_lba' = last_lba /\ disk_size_bytes' = disk_size_bytes
      /\ i \in Nat /\ n \in Nat /\ last_lba \in Nat /\ last_lba <= U64Max
      /\ c \in Nat /\ FIRST_USABLE \in Nat /\ U64Max \in Nat
      /\ FIRST_USABLE <= c /\ c <= U64Max
  BY GeometryAssumption DEF GapInv, TypeOK, CursorInv, SweepTail
<1>2. \A j \in 1..Len(extents) : extents[j].end < c
  <2> TAKE j \in 1..Len(extents)
  <2>1. PICK k \in 1..Len(sorted) : sorted[k] = extents[j]
    BY <1>1 DEF GapInv, SortedInv
  <2>2. k < i
    BY <1>1
  <2> QED
    BY <2>1, <2>2 DEF GapInv, CursorInv
<1>3. \A k \in 1..n : /\ gaps[k].lba_start \in Nat /\ gaps[k].lba_end \in Nat
                     /\ gaps[k].lba_start <= gaps[k].lba_end
                     /\ gaps[k].lba_end < c
                     /\ gaps[k].lba_start >= FIRST_USABLE
                     /\ Fits(gaps[k])
  <2> TAKE k \in 1..n
  <2>1. gaps[k] \in Gap
    BY DEF GapInv, TypeOK
  <2>2. gaps[k].lba_start \in Nat /\ gaps[k].lba_end \in Nat
    BY <2>1 DEF Gap
  <2> QED
    BY <1>1, <2>2 DEF GapInv, OpenInv, GapsAscend, UsableInv
<1>4. \A l \in Nat : l >= c => ~InGap(l)
  BY <1>1, <1>3 DEF InGap
<1>5. \A l : Claimed(l)' <=> Claimed(l)
  BY <1>1 DEF Claimed
<1>6. SortedInv' /\ CursorInv' /\ OpenInv'
  BY <1>1 DEF GapInv, SortedInv, CursorInv, OpenInv
<1>7. CASE c <= last_lba
  <2>1. gaps' = Append(gaps, NewGap(c, last_lba, "PostPartition"))
    BY <1>7 DEF SweepTail
  <2>2. /\ gaps' \in Seq(Gap)
        /\ Len(gaps') = n + 1
        /\ \A k \in 1..n : gaps'[k] = gaps[k]
        /\ gaps'[n + 1].lba_start = c
        /\ gaps'[n + 1].lba_end = last_lba
        /\ gaps'[n + 1].kind = "PostPartition"
        /\ Fits(gaps'[n + 1])
        /\ \A l : InGap(l)' <=> InGap(l) \/ (c <= l /\ l <= last_lba)
    <3> HIDE DEF c
    <3> QED
      BY <1>1, <1>7, <2>1, AppendGap DEF GapInv, c
  <2> HIDE DEF n
  <2>3. \A k \in 1..Len(gaps') : k \in 1..n \/ k = n + 1
    BY <1>1, <2>2
  <2>4. TypeOK'
    BY <1>1, <2>2 DEF GapInv, TypeOK
  <2>5. GapsAscend' /\ UsableInv'
    <3>1. \A k \in 1..Len(gaps') : /\ gaps'[k].lba_start <= gaps'[k].lba_end
                                   /\ gaps'[k].lba_start >= FIRST_USABLE
                                   /\ Fits(gaps'[k])
      BY <1>1, <1>3, <1>7, <2>2, <2>3
    <3>2. ASSUME NEW k \in 1..Len(gaps'), NEW m \in 1..Len(gaps'), k < m
          PROVE  gaps'[k].lba_end < gaps'[m].lba_start
      <4>1. k \in 1..n
        BY <1>1, <2>2, <3>2
      <4>2. CASE m \in 1..n
        BY <2>2, <3>2, <4>1, <4>2 DEF GapInv, GapsAscend, n
      <4>3. CASE m = n + 1
        BY <1>3, <2>2, <4>1, <4>3
      <4> QED
        BY <2>3, <4>2, <4>3
    <3> QED
      BY <3>1, <3>2 DEF GapsAscend, UsableInv
  <2>6. GapKindsAreTrue'
    <3> DEFINE RunsUpToOne(g) == \E j \in 1..Len(extents) : extents[j].start = g.lba_end + 1
               FollowsOne(g)  == \E j \in 1..Len(extents) : extents[j].end + 1 = g.lba_start
               True(g) == /\ g.kind = "PrePartition" => g.lba_start = FIRST_USABLE /\ RunsUpToOne(g)
                          /\ g.kind = "Between" => FollowsOne(g) /\ RunsUpToOne(g)
                          /\ g.kind = "PostPartition" =>
                               /\ g.lba_end = last_lba
                               /\ \A j \in 1..Len(extents) : extents[j].end < g.lba_start
    <3>1. \A k \in 1..n : True(gaps[k])
      BY DEF GapInv, GapKindsAreTrue, n
    <3>2. True(gaps'[n + 1])
      BY <1>2, <2>2
    <3>3. \A k \in 1..Len(gaps') : True(gaps'[k])
      <4> HIDE DEF True
      <4> QED
        BY <2>2, <2>3, <3>1, <3>2
    <3> QED
      BY <1>1, <3>3 DEF GapKindsAreTrue
  <2>7. BehindInv' /\ TailInv'
    <3> SUFFICES ASSUME NEW l \in FIRST_USABLE..U64Max
                 PROVE  /\ l < c => (InGap(l)' <=> ~Claimed(l))
                        /\ l >= c => (InGap(l)' <=> l <= last_lba)
      BY <1>1, <1>5 DEF BehindInv, TailInv
    <3>1. l \in Nat
      BY <1>1
    <3>2. l < c => (InGap(l) <=> ~Claimed(l))
      BY <1>1 DEF GapInv, BehindInv
    <3> QED
      BY <1>1, <1>4, <2>2, <3>1, <3>2
  <2> QED
    BY <1>6, <2>4, <2>5, <2>6, <2>7 DEF GapInv
<1>8. CASE ~(c <= last_lba)
  <2>1. gaps' = gaps
    BY <1>8 DEF SweepTail
  <2>2. TypeOK'
    BY <1>1, <2>1 DEF GapInv, TypeOK
  <2>3. GapsAscend' /\ UsableInv'
    BY <2>1 DEF GapInv, GapsAscend, UsableInv
  <2>4. GapKindsAreTrue'
    BY <1>1, <2>1 DEF GapInv, GapKindsAreTrue
  <2>5. BehindInv' /\ TailInv'
    <3> SUFFICES ASSUME NEW l \in FIRST_USABLE..U64Max
                 PROVE  /\ l < c => (InGap(l) <=> ~Claimed(l))
                        /\ l >= c => (InGap(l) <=> l <= last_lba)
      BY <1>1, <1>5, <2>1 DEF BehindInv, TailInv, InGap
    <3>1. l \in Nat
      BY <1>1
    <3>2. l < c => (InGap(l) <=> ~Claimed(l))
      BY <1>1 DEF GapInv, BehindInv
    <3> QED
      BY <1>1, <1>4, <1>8, <3>1, <3>2
  <2> QED
    BY <1>6, <2>2, <2>3, <2>4, <2>5 DEF GapInv
<1> QED
  BY <1>7, <1>8

-----------------------------------------------------------------------------
(* The theorems. *)

\* Every step of check_gaps preserves GapInv.
LEMMA GapInvStep == GapInv /\ [Next]_vars => GapInv'
<1> SUFFICES ASSUME GapInv, [Next]_vars PROVE GapInv'
  OBVIOUS
<1>1. CASE SkipUnknownSize \/ Returned \/ UNCHANGED vars
  <2>1. /\ i' = i /\ sorted' = sorted /\ extents' = extents /\ gaps' = gaps
        /\ cursor' = cursor /\ last_lba' = last_lba
        /\ disk_size_bytes' = disk_size_bytes
        /\ \/ pc' = pc
           \/ pc = "start" /\ pc' = "done" /\ disk_size_bytes = 0
    BY <1>1 DEF SkipUnknownSize, Returned, vars
  <2>2. TypeOK' /\ CursorInv' /\ OpenInv' /\ UsableInv' /\ GapsAscend'
    BY <2>1 DEF GapInv, TypeOK, CursorInv, OpenInv, UsableInv, GapsAscend
  <2>3. SortedInv'
    BY <2>1 DEF GapInv, SortedInv
  <2>4. \A l : (InGap(l)' <=> InGap(l)) /\ (Claimed(l)' <=> Claimed(l))
    BY <2>1 DEF InGap, Claimed
  <2>5. BehindInv' /\ TailInv'
    BY <2>1, <2>4 DEF GapInv, BehindInv, TailInv
  <2>6. GapKindsAreTrue'
    BY <2>1 DEF GapInv, GapKindsAreTrue
  <2> QED
    BY <2>2, <2>3, <2>5, <2>6 DEF GapInv
<1>2. CASE SortExtents
  BY <1>2, SortStep
<1>3. CASE SkipRepeated
  BY <1>3, SkipStep
<1>4. CASE SweepExtent
  BY <1>4, SweepStep
<1>5. CASE SweepTail
  BY <1>5, TailStep
<1> QED
  BY <1>1, <1>2, <1>3, <1>4, <1>5 DEF Next, Step

\* GapInv is an invariant of check_gaps and compute_gaps.
THEOREM GapInvariant == Spec => []GapInv
<1> QED
  BY InitInv, GapInvStep, PTL DEF Spec

\* GapInv says that the gaps are the complement of the extents at the end.
LEMMA GapInvComplement == GapInv => GapsAreTheComplement
<1> SUFFICES ASSUME GapInv, pc = "done", disk_size_bytes # 0,
                    NEW l \in FIRST_USABLE..U64Max
             PROVE  InGap(l) <=> /\ ~Claimed(l)
                                 /\ \/ l <= last_lba
                                    \/ \E k \in 1..Len(extents) : l < extents[k].start
  BY DEF GapsAreTheComplement
<1>1. /\ l \in Nat /\ cursor \in Nat /\ last_lba \in Nat
      /\ Len(sorted) \in Nat /\ i \in Nat /\ i > Len(sorted)
  BY GeometryAssumption DEF GapInv, TypeOK, CursorInv
<1>2. \A j \in 1..Len(extents) :
        /\ extents[j].start \in Nat /\ extents[j].end \in Nat
        /\ extents[j].end < cursor /\ extents[j].start <= cursor
  <2> TAKE j \in 1..Len(extents)
  <2>1. PICK k \in 1..Len(sorted) : sorted[k] = extents[j]
    BY DEF GapInv, SortedInv
  <2>2. extents[j].end < cursor
    BY <1>1, <2>1 DEF GapInv, CursorInv
  <2> QED
    BY <1>1, <2>2, ExtentFacts DEF GapInv
<1>3. CASE l >= cursor
  <2>1. ~Claimed(l)
    BY <1>1, <1>2, <1>3 DEF Claimed
  <2>2. ~\E k \in 1..Len(extents) : l < extents[k].start
    BY <1>1, <1>2, <1>3
  <2>3. InGap(l) <=> l <= last_lba
    BY <1>3 DEF GapInv, TailInv
  <2> QED
    BY <2>1, <2>2, <2>3
<1>4. CASE l < cursor
  <2>1. InGap(l) <=> ~Claimed(l)
    BY <1>4 DEF GapInv, BehindInv
  <2>2. ASSUME InGap(l)
        PROVE  l <= last_lba \/ \E k \in 1..Len(extents) : l < extents[k].start
    <3>1. PICK k \in 1..Len(gaps) : gaps[k].lba_start <= l /\ l <= gaps[k].lba_end
      BY <2>2 DEF InGap
    <3>2. gaps[k] \in Gap
      BY DEF GapInv, TypeOK
    <3>3. /\ gaps[k].lba_end \in Nat
          /\ gaps[k].kind \in {"PrePartition", "Between", "PostPartition"}
      BY <3>2 DEF Gap
    <3>4. CASE gaps[k].kind = "PostPartition"
      BY <1>1, <3>1, <3>3, <3>4 DEF GapInv, GapKindsAreTrue
    <3>5. CASE gaps[k].kind # "PostPartition"
      <4>1. PICK j \in 1..Len(extents) : extents[j].start = gaps[k].lba_end + 1
        BY <3>3, <3>5 DEF GapInv, GapKindsAreTrue
      <4> QED
        BY <1>1, <3>1, <3>3, <4>1
    <3> QED
      BY <3>4, <3>5
  <2> QED
    BY <2>1, <2>2
<1> QED
  BY <1>1, <1>3, <1>4

(***************************************************************************)
(* compute_gaps is right: on every layout the gaps are exactly the sectors *)
(* of the disk that no partition claims.                                   *)
(***************************************************************************)
THEOREM GapsCorrect == Spec => []GapsAreTheComplement
<1> QED
  BY GapInvComplement, GapInvariant, PTL

\* No sector is reported, or sampled for wipe patterns, in two gaps.
THEOREM GapsDisjoint == Spec => []GapsAscend
<1>1. GapInv => GapsAscend
  BY DEF GapInv
<1> QED
  BY <1>1, GapInvariant, PTL

\* The kind a gap is reported under is true of the layout.
THEOREM GapKindsCorrect == Spec => []GapKindsAreTrue
<1>1. GapInv => GapKindsAreTrue
  BY DEF GapInv
<1> QED
  BY <1>1, GapInvariant, PTL

\* Type correctness: the cursor never leaves the u64 range although the
\* addition end + 1 in compute_gaps is unchecked.
THEOREM GapTypes == Spec => []TypeOK
<1>1. GapInv => TypeOK
  BY DEF GapInv
<1> QED
  BY <1>1, GapInvariant, PTL
=============================================================================
