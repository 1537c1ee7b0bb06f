----------------------------- MODULE MCGapSweep -----------------------------
(***************************************************************************)
(* GapSweep over every vector of up to three extents on LBAs 0..5, on a    *)
(* disk of unknown size and on disks of half a sector, one sector and four *)
(* and a half sectors, so that extents lie on, across and off the end.     *)
(***************************************************************************)
EXTENDS GapSweep

MCExtents == { e \in [start : 0..5, end : 0..5] : e.end + 1 >= e.start }
MCLayouts == UNION { [1..n -> MCExtents] : n \in 0..3 }
\* Partitions of at least one sector each.
MCProperLayouts == UNION { [1..n -> {e \in MCExtents : e.start <= e.end}] : n \in 0..3 }

MCSizes == {0, 1, 2, 9}
MCWholeDisk == {8}
=============================================================================
