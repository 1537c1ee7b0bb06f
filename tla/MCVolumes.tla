----------------------------- MODULE MCVolumes -----------------------------
(***************************************************************************)
(* Every image of up to five cells, and of six, whose table cells decode   *)
(* to an empty, a deleted and two real entries and whose signature cell is *)
(* right or wrong, opened as volumes; and each image read by               *)
(* read_fingerprint from its start, from inside, and from behind its end.  *)
(* Every way to cut the reads is covered.                                  *)
(***************************************************************************)
EXTENDS Volumes

NoChs == [cylinder |-> 0, head |-> 0, sector |-> 0]
Entry(fam, start, count) ==
    [status |-> "inactive", family |-> fam, chs_first |-> NoChs, chs_last |-> NoChs,
     lba_start |-> start, lba_count |-> count]

MCCells == 0..4
MCEntryOf == [ c \in MCCells |->
    CASE c = 1 -> Entry("Empty", 3, 1)         \* deleted
      [] c = 2 -> Entry("Ntfs", 1, 2)
      [] c = 3 -> Entry("Linux", 3, U32Max)    \* its byte length saturates
      [] OTHER -> Entry("Empty", 0, 0) ]

TableCells == 0..3
Image(n, cell) == [size |-> n, cell |-> cell]

Images == { Image(n, [k \in 0..(n - 1) |-> CASE k < 4 -> t[k] [] k = 4 -> sig [] OTHER -> 2]) :
              n \in {0, 1, 4, 5, 6}, t \in [0..3 -> TableCells], sig \in {0, BOOT_SIG} }

MCRequests ==
    { [caller |-> "fill", offset |-> 0, len |-> SECTOR_CELLS, medium |-> m] : m \in Images }
    \cup { [caller |-> "read_fingerprint", offset |-> o, len |-> 3, medium |-> m] :
             o \in {0, 2, 6}, m \in Images }
MCIndices == 0..5
=============================================================================
