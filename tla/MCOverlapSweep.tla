--------------------------- MODULE MCOverlapSweep ---------------------------
(***************************************************************************)
(* OverlapSweep over every vector of up to three partitions on LBAs 1..4,  *)
(* those of zero sectors included, in every discovery order.               *)
(***************************************************************************)
EXTENDS OverlapSweep

LayoutsOver(ranges) ==
    UNION { { [k \in 1..n |-> [id |-> k - 1, start |-> r[k][1], end |-> r[k][2]]] :
                r \in [1..n -> ranges] } : n \in 0..3 }

Ranges == { <<s, e>> \in (1..4) \X (0..4) : e + 1 >= s }

MCLayouts == LayoutsOver(Ranges)

\* Partitions of at least one sector each.
MCProperLayouts == LayoutsOver({ r \in Ranges : r[1] <= r[2] })
=============================================================================
