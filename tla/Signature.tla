----------------------------- MODULE Signature -----------------------------
(***************************************************************************)
(* detect of core/src/signature.rs on a window of cells.  The magics of    *)
(* the forensicnomicon knowledge base are a table in order of precedence;  *)
(* names without a DetectedFs map to "None".  Two magics are local: the    *)
(* FAT OEM identifiers and PAGESPACE1.                                     *)
(***************************************************************************)
EXTENDS Integers, Sequences, FiniteSetsExt

CONSTANTS KbMagics,                \* sequence of [fs, at, value]
          FAT_AT, FAT_OEM_IDS,     \* cell 3..11 of the sector, and its values
          PAGE_AT, PAGESPACE1      \* cell 4086..4096

\* No magic is zero: an all-zero sector carries none.
ASSUME MagicTableAssumption ==
    /\ KbMagics \in Seq([fs : STRING, at : Nat \ {0}, value : Nat \ {0}])
    /\ FAT_AT \in Nat \ {0} /\ PAGE_AT \in Nat \ {0}
    /\ 0 \notin FAT_OEM_IDS /\ PAGESPACE1 # 0

\* detect_name: the first magic of the table that lies in the window and is there.
KbName(sector) ==
    LET Matching(m) == m.at <= Len(sector) /\ sector[m.at] = m.value
        found == { n \in 1..Len(KbMagics) : Matching(KbMagics[n]) }
    IN  IF found = {} THEN "None" ELSE KbMagics[Min(found)].fs

\* Mutant: the identifier must not end the window.
IsFat_OffByOne(sector) == Len(sector) > FAT_AT /\ sector[FAT_AT] \in FAT_OEM_IDS

IsFat(sector) == Len(sector) >= FAT_AT /\ sector[FAT_AT] \in FAT_OEM_IDS

IsPageSpace(sector) == Len(sector) >= PAGE_AT /\ sector[PAGE_AT] = PAGESPACE1

Detect(sector) ==
    IF sector = <<>> THEN "Unknown"
    ELSE IF \A k \in 1..Len(sector) : sector[k] = 0 THEN "AllZeros"
    ELSE IF KbName(sector) # "None" THEN KbName(sector)
    ELSE IF IsFat(sector) THEN "Fat"
    ELSE IF IsPageSpace(sector) THEN "LinuxSwap"
    ELSE "Unknown"
=============================================================================
