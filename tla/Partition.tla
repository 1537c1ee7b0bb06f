----------------------------- MODULE Partition -----------------------------
(***************************************************************************)
(* A primary partition entry and its predicates, core/src/partition.rs.    *)
(* A type code is abstracted to its PartitionFamily, a status byte to      *)
(* "inactive" (0x00), "bootable" (0x80) or "invalid".                      *)
(***************************************************************************)
EXTENDS Chs

CONSTANT U32Max   \* largest on-disk LBA or sector count

ASSUME U32Assumption == U32Max \in Nat

Families == { "Empty", "Fat", "Ntfs", "Linux", "LinuxSwap", "LinuxLvm",
              "ExtendedMbr", "GptProtective", "Other" }

PartitionEntry == [ status    : {"inactive", "bootable", "invalid"},
                    family    : Families,
                    chs_first : ChsAddress,
                    chs_last  : ChsAddress,
                    lba_start : 0..U32Max,
                    lba_count : 0..U32Max ]

IsEmpty(e) == e.family = "Empty" /\ e.lba_start = 0 /\ e.lba_count = 0

\* Type 0x00, but the LBA fields are still there: a deleted partition.
IsResidual(e) == e.family = "Empty" /\ ~IsEmpty(e)

IsBootable(e)   == e.status = "bootable"
IsExtended(e)   == e.family = "ExtendedMbr"
IsProtective(e) == e.family = "GptProtective"

\* Mutant: a plain subtraction.
Pred_NoSaturation(v) == v - 1

\* v.saturating_sub(1)
Pred(v) == IF v = 0 THEN 0 ELSE v - 1

\* Inclusive last LBA in u32 arithmetic: both operations saturate.
LbaEnd(e) == Pred(IF e.lba_start + e.lba_count > U32Max
                    THEN U32Max ELSE e.lba_start + e.lba_count)

\* check_chs_lba: either packed address contradicts its LBA under the standard geometry.
ChsContradicts(e) ==
    LET Verdict(c, lba) == ChsConsistency(c, lba, STD_HEADS_PER_CYL, STD_SECTORS_PER_TRACK)
    IN  \/ Verdict(e.chs_first, e.lba_start) = "Inconsistent"
        \/ Verdict(e.chs_last, LbaEnd(e)) = "Inconsistent"
=============================================================================
