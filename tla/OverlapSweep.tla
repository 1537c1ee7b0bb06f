---------------------------- MODULE OverlapSweep ----------------------------
(***************************************************************************)
(* check_overlaps of forensic/src/analyse.rs: sort the data partitions by  *)
(* start LBA and compare each one with its successor only.                 *)
(*                                                                         *)
(* An extent is inclusive; a partition of zero sectors has end = start - 1 *)
(* (or end = 0 at start 0), as PartitionEntry::lba_end computes it.        *)
(***************************************************************************)
EXTENDS StableSort

CONSTANT Layouts   \* the vectors of data-partition extents considered

Extent == [id : Nat, start : Nat, end : Nat]

ASSUME LayoutsAssumption == Layouts \subseteq Seq(Extent)

VARIABLES extents,   \* argument: (id, lba_start, lba_end) in discovery order
          sorted,    \* the local copy, sorted by start
          i,         \* the window <<i, i + 1>> looked at next
          overlaps,  \* the OverlappingPartitions anomalies recorded, in order
          pc         \* "sort", "sweep", "done"

vars == <<extents, sorted, i, overlaps, pc>>

Overlap == [a : Nat, b : Nat, a_end : Nat, b_start : Nat]

Init ==
    /\ extents \in Layouts
    /\ sorted = <<>>
    /\ i = 1
    /\ overlaps = <<>>
    /\ pc = "sort"

\* Mutant: the windows run over the partitions in discovery order.
SortExtents_Skipped ==
    /\ pc = "sort"
    /\ sorted' = extents
    /\ pc' = "sweep"
    /\ UNCHANGED <<extents, i, overlaps>>

SortExtents ==
    /\ pc = "sort"
    /\ sorted' = SortByStart(extents)
    /\ pc' = "sweep"
    /\ UNCHANGED <<extents, i, overlaps>>

\* There is a window left to look at.
Window == pc = "sweep" /\ i < Len(sorted)

\* Mutant: a partition that starts on its predecessor's last sector is let pass.
Clashes_Strict(k) == sorted[k + 1].start < sorted[k].end

Clashes(k) == sorted[k + 1].start <= sorted[k].end

\* The OverlappingPartitions anomaly for the window at k.
OverlappingPartitions(k) == [ a       |-> sorted[k].id,
                              b       |-> sorted[k + 1].id,
                              a_end   |-> sorted[k].end,
                              b_start |-> sorted[k + 1].start ]

RecordOverlap ==
    /\ Window
    /\ Clashes(i)
    /\ overlaps' = Append(overlaps, OverlappingPartitions(i))
    /\ i' = i + 1
    /\ UNCHANGED <<extents, sorted, pc>>

NextWindow ==
    /\ Window
    /\ ~Clashes(i)
    /\ i' = i + 1
    /\ UNCHANGED <<extents, sorted, overlaps, pc>>

SweepDone ==
    /\ pc = "sweep"
    /\ i >= Len(sorted)
    /\ pc' = "done"
    /\ UNCHANGED <<extents, sorted, i, overlaps>>

Step == SortExtents \/ RecordOverlap \/ NextWindow \/ SweepDone

Returned == pc = "done" /\ UNCHANGED vars

Next == Step \/ Returned

Spec == Init /\ [][Next]_vars

-----------------------------------------------------------------------------
(* Properties *)

\* The loop's variables keep their types; the window stays inside the vector.
TypeOK ==
    /\ extents \in Seq(Extent)
    /\ sorted \in Seq(Extent)
    /\ i \in Nat \ {0}
    /\ overlaps \in Seq(Overlap)
    /\ pc \in {"sort", "sweep", "done"}

\* Two extents share a sector; an extent of no sectors shares none.
Intersect(e, f) == /\ e.start <= e.end
                   /\ f.start <= f.end
                   /\ e.start <= f.end
                   /\ f.start <= e.end

Starts == [k \in 1..Len(extents) |-> extents[k].start]

(***************************************************************************)
(* No overlap goes unnoticed although only neighbours are compared: of any *)
(* two partitions that share a sector, the one sorted first is reported as *)
(* overlapping its successor.                                              *)
(***************************************************************************)
EveryOverlapSurfaces ==
    pc = "done" =>
      \A j, k \in 1..Len(extents) :
        Before(Starts, j, k) /\ Intersect(extents[j], extents[k]) =>
          \E r \in 1..Len(overlaps) : overlaps[r].a = extents[j].id

(***************************************************************************)
(* Nothing is made up: a report names two different partitions of the      *)
(* vector whose ranges do meet, save that the second may have no sectors.  *)
(***************************************************************************)
ReportsAreReal ==
    \A r \in 1..Len(overlaps) :
      \E j, k \in 1..Len(extents) :
        /\ j # k
        /\ overlaps[r] = [ a |-> extents[j].id, b |-> extents[k].id,
                           a_end |-> extents[j].end, b_start |-> extents[k].start ]
        /\ extents[k].start <= extents[k].end => Intersect(extents[j], extents[k])

(***************************************************************************)
(* The stronger reading of the documentation: every partition that shares  *)
(* a sector with another one is named by some report.                      *)
(***************************************************************************)
EveryOverlappingPartitionNamed ==
    pc = "done" =>
      \A j, k \in 1..Len(extents) :
        j # k /\ Intersect(extents[j], extents[k]) =>
          \E r \in 1..Len(overlaps) : extents[k].id \in {overlaps[r].a, overlaps[r].b}
=============================================================================
