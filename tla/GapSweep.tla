------------------------------ MODULE GapSweep ------------------------------
(***************************************************************************)
(* check_gaps of forensic/src/analyse.rs and compute_gaps of               *)
(* forensic/src/gap.rs: sort the extents of all partitions (the extended   *)
(* container included), drop repeated ones, and sweep a cursor over them   *)
(* that collects the sectors no partition claims.                          *)
(*                                                                         *)
(* Extents come from the partition tables and are not trusted: they may    *)
(* overlap, nest, repeat, be empty (end = start - 1) or lie off the disk.  *)
(***************************************************************************)
EXTENDS StableSort

CONSTANTS SectorSize,     \* bytes per sector
          U64Max,         \* the value that stands for u64::MAX
          FIRST_USABLE,   \* first LBA a partition may use; 1 for an MBR disk
          Layouts,        \* the vectors of extents considered
          Sizes           \* the disk sizes in bytes considered, 0 = unknown

Extent == { e \in [start : 0..(U64Max - 1), end : 0..(U64Max - 1)] :
              e.end + 1 >= e.start }

ASSUME GeometryAssumption ==
    /\ SectorSize \in Nat \ {0}
    /\ U64Max \in Nat \ {0}
    /\ FIRST_USABLE \in Nat \ {0}
    /\ FIRST_USABLE <= U64Max

ASSUME LayoutsAssumption == /\ Layouts \subseteq Seq(Extent)
                            /\ Sizes \subseteq 0..U64Max

VARIABLES extents,          \* argument: (lba_start, lba_end) in discovery order
          disk_size_bytes,  \* argument
          last_lba,         \* argument: last LBA of the disk
          sorted,           \* the local copy, sorted by start
          i,                \* the extent the loop looks at next
          cursor,           \* first LBA not yet accounted for
          gaps,             \* Vec<Gap>
          pc                \* "start", "sweep", "done"

vars == <<extents, disk_size_bytes, last_lba, sorted, i, cursor, gaps, pc>>

\* Mutant: a plain subtraction on an image of less than a sector.
DiskLastLba_NoSaturation(size) ==
    IF size > 0 THEN (size \div SectorSize) - 1 ELSE U64Max

\* disk_last_lba: whole sectors only; u64::MAX stands for "no bound".
DiskLastLba(size) ==
    IF size > 0
      THEN IF size \div SectorSize = 0 THEN 0 ELSE (size \div SectorSize) - 1
      ELSE U64Max

Gap == [lba_start : Nat, lba_end : Nat, byte_size : 0..U64Max,
        kind : {"PrePartition", "Between", "PostPartition"}]

\* The plain multiplication wraps around in a release build.
ByteSize(sectors) == (sectors * SectorSize) % (U64Max + 1)

NewGap(first, last, kind) ==
    [ lba_start |-> first, lba_end |-> last, byte_size |-> ByteSize(last - first + 1),
      kind |-> kind ]

Init ==
    /\ extents \in Layouts
    /\ disk_size_bytes \in Sizes
    /\ last_lba = DiskLastLba(disk_size_bytes)
    /\ sorted = <<>>
    /\ i = 1
    /\ cursor = FIRST_USABLE
    /\ gaps = <<>>
    /\ pc = "start"

\* The size is unknown: an empty vector is returned.
SkipUnknownSize ==
    /\ pc = "start"
    /\ disk_size_bytes = 0
    /\ pc' = "done"
    /\ UNCHANGED <<extents, disk_size_bytes, last_lba, sorted, i, cursor, gaps>>

SortExtents ==
    /\ pc = "start"
    /\ disk_size_bytes # 0
    /\ sorted' = SortByStart(extents)
    /\ pc' = "sweep"
    /\ UNCHANGED <<extents, disk_size_bytes, last_lba, i, cursor, gaps>>

\* dedup() has dropped an extent that equals its predecessor.
Repeats(k) == k > 1 /\ sorted[k] = sorted[k - 1]

SkipRepeated ==
    /\ pc = "sweep"
    /\ i <= Len(sorted)
    /\ Repeats(i)
    /\ i' = i + 1
    /\ UNCHANGED <<extents, disk_size_bytes, last_lba, sorted, cursor, gaps, pc>>

\* Mutant: the first gap found is called "pre-partition" wherever it lies.
KindAtCursor_FirstFound == IF gaps = <<>> THEN "PrePartition" ELSE "Between"

KindAtCursor == IF cursor = FIRST_USABLE THEN "PrePartition" ELSE "Between"

\* Mutant: the cursor always jumps behind the extent, even backwards.
CursorAfter_Backwards(e) == e.end + 1

\* The cursor never moves back: a nested extent leaves it alone.
CursorAfter(e) == IF e.end >= cursor THEN e.end + 1 ELSE cursor

\* Mutant: an extent that starts at the cursor leaves a gap of no sectors.
SweepExtent_Touching ==
    /\ pc = "sweep"
    /\ i <= Len(sorted)
    /\ ~Repeats(i)
    /\ gaps' = IF sorted[i].start >= cursor
                 THEN Append(gaps, NewGap(cursor, sorted[i].start - 1, KindAtCursor))
                 ELSE gaps
    /\ cursor' = CursorAfter(sorted[i])
    /\ i' = i + 1
    /\ UNCHANGED <<extents, disk_size_bytes, last_lba, sorted, pc>>

\* One iteration of the loop over the extents.
SweepExtent ==
    /\ pc = "sweep"
    /\ i <= Len(sorted)
    /\ ~Repeats(i)
    /\ gaps' = IF sorted[i].start > cursor
                 THEN Append(gaps, NewGap(cursor, sorted[i].start - 1, KindAtCursor))
                 ELSE gaps
    /\ cursor' = CursorAfter(sorted[i])
    /\ i' = i + 1
    /\ UNCHANGED <<extents, disk_size_bytes, last_lba, sorted, pc>>

\* Behind the last extent: the space up to the end of the disk, if any.
SweepTail ==
    /\ pc = "sweep"
    /\ i > Len(sorted)
    /\ gaps' = IF cursor <= last_lba
                 THEN Append(gaps, NewGap(cursor, last_lba, "PostPartition"))
                 ELSE gaps
    /\ pc' = "done"
    /\ UNCHANGED <<extents, disk_size_bytes, last_lba, sorted, i, cursor>>

Step == \/ SkipUnknownSize
        \/ SortExtents
        \/ SkipRepeated
        \/ SweepExtent
        \/ SweepTail

Returned == pc = "done" /\ UNCHANGED vars

Next == Step \/ Returned

Spec == Init /\ [][Next]_vars

-----------------------------------------------------------------------------
(* Properties *)

\* The sweep's variables keep their types.
TypeOK ==
    /\ extents \in Seq(Extent)
    /\ disk_size_bytes \in 0..U64Max
    /\ last_lba \in 0..U64Max
    /\ sorted \in Seq(Extent)
    /\ i \in Nat \ {0}
    /\ cursor \in FIRST_USABLE..U64Max
    /\ gaps \in Seq(Gap)
    /\ pc \in {"start", "sweep", "done"}

Claimed(l) == \E k \in 1..Len(extents) : extents[k].start <= l /\ l <= extents[k].end

InGap(l) == \E k \in 1..Len(gaps) : gaps[k].lba_start <= l /\ l <= gaps[k].lba_end

(***************************************************************************)
(* The gaps returned are exactly the sectors no partition claims, from the *)
(* first usable one to the end of the disk, whatever overlaps, nesting and *)
(* repetition there is among the extents.  Past the end of the disk they   *)
(* are the unclaimed sectors in front of an extent that starts there.      *)
(***************************************************************************)
GapsAreTheComplement ==
    pc = "done" /\ disk_size_bytes # 0 =>
      \A l \in FIRST_USABLE..U64Max :
        InGap(l) <=> /\ ~Claimed(l)
                     /\ \/ l <= last_lba
                        \/ \E k \in 1..Len(extents) : l < extents[k].start

\* Gaps come in ascending order, none is empty and no two share a sector:
\* no unallocated sector is counted or sampled twice.
GapsAscend ==
    /\ \A k \in 1..Len(gaps) : gaps[k].lba_start <= gaps[k].lba_end
    /\ \A k, m \in 1..Len(gaps) : k < m => gaps[k].lba_end < gaps[m].lba_start

(***************************************************************************)
(* A gap's kind is true of the layout: "PrePartition" starts at the first  *)
(* usable sector and runs up to a partition, "Between" lies flush between  *)
(* the end of one and the start of another, "PostPartition" runs to the    *)
(* end of the disk and no partition reaches into or beyond it.             *)
(***************************************************************************)
GapKindsAreTrue ==
    \A k \in 1..Len(gaps) :
      LET g == gaps[k]
          RunsUpToOne  == \E j \in 1..Len(extents) : extents[j].start = g.lba_end + 1
          FollowsOne   == \E j \in 1..Len(extents) : extents[j].end + 1 = g.lba_start
      IN  /\ g.kind = "PrePartition" => g.lba_start = FIRST_USABLE /\ RunsUpToOne
          /\ g.kind = "Between" => FollowsOne /\ RunsUpToOne
          /\ g.kind = "PostPartition" =>
               /\ g.lba_end = last_lba
               /\ \A j \in 1..Len(extents) : extents[j].end < g.lba_start

\* "A region of unpartitioned disk space": every gap lies on the disk.
GapsOnDisk == \A k \in 1..Len(gaps) : gaps[k].lba_end <= last_lba
=============================================================================
