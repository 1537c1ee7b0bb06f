--------------------------- MODULE PartitionTable ---------------------------
(***************************************************************************)
(* The predicates on the four primary entries of an MBR that the stages of *)
(* the analysis share: core/src/signature.rs, forensic/src/provenance.rs   *)
(* and the pure helpers of forensic/src/analyse.rs.                        *)
(***************************************************************************)
EXTENDS Partition, Sequences, FiniteSetsExt

CONSTANTS MIB1_SECTORS,  \* sectors per MiB: 2048 in the code
          LEGACY_TRACK   \* legacy start of the first partition: LBA 63

\* DetectedFs; "None" stands for Option::None: nothing could be read.
FileSystems == { "None", "Unknown", "AllZeros", "Ext", "Ntfs", "Fat", "ExFat", "Apfs",
                 "LinuxSwap", "LinuxLvm", "Luks", "Xfs", "Btrfs" }

BootCodeIds == { "WindowsVista", "Windows7Plus", "GrubLegacy", "Grub2", "Syslinux",
                 "AllZeros", "AllOnes", "Unknown" }

\* The slots of a table whose entry satisfies P.
Slots(entries, P(_)) == { k \in 1..Len(entries) : P(entries[k]) }

NonEmptySlots(entries) == Slots(entries, LAMBDA e : ~IsEmpty(e))

\* Mutant: any protective entry will do, whatever stands beside it.
IsPureProtective_AnyEntry(entries) ==
    \E k \in NonEmptySlots(entries) : IsProtective(entries[k])

IsPureProtective(entries) ==
    \E k \in 1..Len(entries) : /\ NonEmptySlots(entries) = {k}
                               /\ IsProtective(entries[k])

NoSlot == 0

\* The lowest of the slots, or NoSlot.
FirstSlot(slots) == IF slots = {} THEN NoSlot ELSE Min(slots)

\* Non-empty entries that are not the protective one; residual ones count.
ExtraEntries(entries) ==
    Cardinality(Slots(entries, LAMBDA e : ~IsEmpty(e) /\ ~IsProtective(e)))

\* Pairs of slots, in the order of the double loop, that hold one extent.
DuplicatePairs(entries) ==
    LET Same(a, b) == /\ ~IsEmpty(a) /\ ~IsEmpty(b)
                      /\ a.lba_start = b.lba_start
                      /\ a.lba_count = b.lba_count
        Pair(j, k) == IF Same(entries[j], entries[k]) THEN << <<j, k>> >> ELSE <<>>
    IN  Pair(1, 2) \o Pair(1, 3) \o Pair(1, 4) \o Pair(2, 3) \o Pair(2, 4) \o Pair(3, 4)

(***************************************************************************)
(* type_conflicts: the pairs of a declared family and a detected file      *)
(* system that contradict each other.  Unknown and AllZeros never do.      *)
(***************************************************************************)
Foreign == {"Luks", "Apfs"}
Conflicts ==
    ({"Ntfs"} \X ({"Ext", "Fat", "LinuxSwap", "LinuxLvm", "Xfs", "Btrfs"} \cup Foreign))
    \cup ({"Fat"} \X ({"Ntfs", "Ext", "LinuxSwap", "LinuxLvm", "Xfs", "Btrfs"} \cup Foreign))
    \cup ({"Linux"} \X ({"Ntfs", "Fat"} \cup Foreign))
    \cup ({"LinuxSwap", "LinuxLvm"} \X {"Ntfs", "Fat", "Ext", "Btrfs", "Apfs"})

(***************************************************************************)
(* infer_era: the start of the first real primary partition decides, and   *)
(* the boot code where that is inconclusive.                               *)
(***************************************************************************)
EraOfBootCode(boot) ==
    CASE boot \in {"WindowsVista", "Windows7Plus", "Grub2"} -> "Modern"
      [] boot = "GrubLegacy" -> "LegacyCylinder"
      [] OTHER -> "Unknown"

RealStarts(entries) ==
    { entries[k].lba_start : k \in Slots(entries, LAMBDA e :
        ~IsEmpty(e) /\ ~IsExtended(e) /\ ~IsProtective(e)) }

InferEra(entries, boot) ==
    LET starts == RealStarts(entries)
        first  == Min(starts)
    IN  IF starts = {} THEN EraOfBootCode(boot)
        ELSE IF first # 0 /\ first % MIB1_SECTORS = 0 THEN "Modern"
        ELSE IF first = LEGACY_TRACK THEN "LegacyCylinder"
        ELSE EraOfBootCode(boot)
=============================================================================
