---------------------------- MODULE AsciiStrings ----------------------------
(***************************************************************************)
(* extract_ascii_strings of core/src/carve.rs; a byte is printable or not. *)
(***************************************************************************)
EXTENDS Integers, Sequences

CONSTANT Printable   \* ASCII_MIN..ASCII_MAX

\* Mutant: a run that is too short stays in the accumulator.
Flush_KeepsShort(acc, min_len) ==
    IF Len(acc.run) >= min_len THEN [run |-> <<>>, out |-> Append(acc.out, acc.run)] ELSE acc

\* The accumulated run is emitted if it is long enough, and cleared.
Flush(acc, min_len) ==
    [ run |-> <<>>,
      out |-> IF Len(acc.run) >= min_len THEN Append(acc.out, acc.run) ELSE acc.out ]

Take(acc, b, min_len) ==
    IF b \in Printable THEN [acc EXCEPT !.run = Append(@, b)] ELSE Flush(acc, min_len)

\* after[n] is the accumulator behind the first n bytes.
ExtractAsciiStrings(data, min_len) ==
    LET after[n \in 0..Len(data)] ==
          IF n = 0 THEN [run |-> <<>>, out |-> <<>>] ELSE Take(after[n - 1], data[n], min_len)
    IN  Flush(after[Len(data)], min_len).out
=============================================================================
