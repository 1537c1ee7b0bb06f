----------------------------- MODULE StableSort -----------------------------
(***************************************************************************)
(* slice::sort_by_key of the Rust standard library, as check_overlaps and  *)
(* check_gaps of forensic/src/analyse.rs use it: a stable sort by an       *)
(* integer key.  The position an element moves to is one more than the     *)
(* number of elements that come before it.                                 *)
(***************************************************************************)
EXTENDS Integers, Sequences, FiniteSets

\* Element i is ordered before element j: smaller key, or equal and earlier.
Before(keys, i, j) == \/ keys[i] < keys[j]
                      \/ keys[i] = keys[j] /\ i < j

Preceding(keys, i) == { j \in 1..Len(keys) : Before(keys, j, i) }

Rank(keys, i) == Cardinality(Preceding(keys, i)) + 1

\* The permutation that sorts: position k of the result takes element k of it.
SortPerm(keys) ==
    [k \in 1..Len(keys) |-> CHOOSE i \in 1..Len(keys) : Rank(keys, i) = k]

\* s sorted stably by the field "start" of its records.
SortByStart(s) ==
    LET keys == [k \in 1..Len(s) |-> s[k].start]
        perm == SortPerm(keys)
    IN  [k \in 1..Len(s) |-> s[perm[k]]]
=============================================================================
