------------------------------- MODULE Carve -------------------------------
(***************************************************************************)
(* carve of core/src/carve.rs.  The table of file headers is a constant.   *)
(***************************************************************************)
EXTENDS StableSort, SequencesExt

CONSTANT FILE_MAGICS   \* sequence of records with a kind and a magic

ASSUME MagicsAssumption == FILE_MAGICS \in Seq([kind : STRING, magic : Seq(Nat)])

\* Mutant: a header that fills the whole region is skipped.
TooLong_OffByOne(m, data) == m = <<>> \/ Len(m) >= Len(data)

TooLong(m, data) == m = <<>> \/ Len(m) > Len(data)

\* The offsets of the windows of data that equal the magic m: found[n] are
\* those among the first n windows.
Matches(m, data) ==
    LET found[n \in 0..(Len(data) - Len(m) + 1)] ==
          IF n = 0 THEN <<>>
          ELSE IF SubSeq(data, n, n + Len(m) - 1) = m THEN Append(found[n - 1], n - 1)
          ELSE found[n - 1]
    IN  IF TooLong(m, data) THEN <<>> ELSE found[Len(data) - Len(m) + 1]

CarvedFile(sig, base_offset, data) ==
    LET hits == Matches(sig.magic, data)
    IN  [n \in 1..Len(hits) |-> [kind |-> sig.kind, offset |-> base_offset + hits[n]]]

\* Magic by magic, then sorted by offset.
CarveFiles(data, base_offset) ==
    LET out  == FlattenSeq([n \in 1..Len(FILE_MAGICS) |->
                              CarvedFile(FILE_MAGICS[n], base_offset, data)])
        perm == SortPerm([n \in 1..Len(out) |-> out[n].offset])
    IN  [n \in 1..Len(out) |-> out[perm[n]]]
=============================================================================
