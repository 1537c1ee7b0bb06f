------------------------------ MODULE Volumes ------------------------------
(***************************************************************************)
(* MbrVolumes, core/src/vfs.rs: open reads the first sector with fill,     *)
(* parses it and lists the entries that are not empty as volumes;          *)
(* open_volume then hands out the byte window of a volume by its index.    *)
(* The sector is five cells: the four entries and the boot signature.  The *)
(* window itself (SubRange) and the reader belong to forensic-vfs.         *)
(***************************************************************************)
EXTENDS ReadLoop, Partition, Sequences, FiniteSets

CONSTANTS U64Max, SectorSize,
          BOOT_SIG,   \* the signature cell of a valid sector
          EntryOf,    \* the partition entry that 16 bytes decode to
          Indices     \* indices tried with open_volume

SECTOR_CELLS == 5

ASSUME CellsAssumption == /\ BOOT_SIG \in Cells \ {Zero}
                          /\ EntryOf \in [Cells -> PartitionEntry]
                          /\ IsEmpty(EntryOf[Zero])

\* open reads the first sector of the image; an index is a usize.
ASSUME CallsAssumption ==
    /\ \A r \in Requests : r.caller = "fill" => r.offset = 0 /\ r.len = SECTOR_CELLS
    /\ Indices \subseteq Nat

VARIABLES
    system,    \* "opening", "open", or the error open returned
    volumes,   \* Vec<VolumeDesc>
    opened     \* the answer to the latest open_volume

vfs   == <<system, volumes, opened>>
vvars == <<vars, vfs>>

NothingOpened == [index |-> -1, status |-> "none"]

VInit == /\ Init
         /\ system = "opening"
         /\ volumes = <<>>
         /\ opened = NothingOpened

\* saturating_mul by the sector size
ToBytes(sectors) == IF sectors * SectorSize > U64Max THEN U64Max ELSE sectors * SectorSize

VolumeDesc(k, e) == [ index |-> k, start |-> ToBytes(e.lba_start),
                      len |-> ToBytes(e.lba_count), type_hint |-> e.family ]

\* Mutant: the entries are numbered before the empty ones are dropped.
VolumeList_BySlot(entries) ==
    LET slots == SelectSeq(<<1, 2, 3, 4>>, LAMBDA k : ~IsEmpty(entries[k]))
    IN  [n \in 1..Len(slots) |-> VolumeDesc(slots[n] - 1, entries[slots[n]])]

\* filter, then enumerate: an index is a place in the list, not a slot.
VolumeList(entries) ==
    LET Kept(k) == IF IsEmpty(entries[k]) THEN <<>> ELSE << entries[k] >>
        used    == Kept(1) \o Kept(2) \o Kept(3) \o Kept(4)
    IN  [n \in 1..Len(used) |-> VolumeDesc(n - 1, used[n])]

Opening == caller = "fill" /\ system = "opening"

\* The read error is passed on.
OpenFails == /\ Opening
             /\ pc = "failed"
             /\ system' = "failed"
             /\ UNCHANGED <<vars, volumes, opened>>

\* Mutant: whatever the buffer holds is parsed.
SignatureValid_Unchecked == buf[SECTOR_CELLS - 1] \in Cells

\* parse_mbr_sector accepts the buffer.
SignatureValid == buf[SECTOR_CELLS - 1] = BOOT_SIG

OpenUnsupported == /\ Opening
                   /\ pc = "done"
                   /\ ~SignatureValid
                   /\ system' = "unsupported"
                   /\ UNCHANGED <<vars, volumes, opened>>

OpenSucceeds == /\ Opening
                /\ pc = "done"
                /\ SignatureValid
                /\ volumes' = VolumeList([k \in 1..4 |-> EntryOf[buf[k - 1]]])
                /\ system' = "open"
                /\ UNCHANGED <<vars, opened>>

OpenVolume(index) ==
    /\ system = "open"
    /\ index < Len(volumes)
    /\ opened' = [ index |-> index, status |-> "ok",
                   start |-> volumes[index + 1].start, len |-> volumes[index + 1].len ]
    /\ UNCHANGED <<vars, system, volumes>>

OpenOutOfRange(index) ==
    /\ system = "open"
    /\ index >= Len(volumes)
    /\ opened' = [index |-> index, status |-> "out_of_range"]
    /\ UNCHANGED <<vars, system, volumes>>

Open == OpenFails \/ OpenUnsupported \/ OpenSucceeds

VReturned == Finished /\ ~Opening /\ UNCHANGED vvars

VNext == \/ Step /\ UNCHANGED vfs
         \/ Open
         \/ \E index \in Indices : OpenVolume(index) \/ OpenOutOfRange(index)
         \/ VReturned

\* The thread inside open runs on; the reader is not interrupted for ever.
VSpec == /\ VInit /\ [][VNext]_vvars
         /\ WF_vvars(Answered /\ UNCHANGED vfs) /\ WF_vvars(Open)

-----------------------------------------------------------------------------
(* Properties *)

(***************************************************************************)
(* The index a volume is listed under opens that volume and no other, and  *)
(* an index that no volume is listed under opens nothing.                  *)
(***************************************************************************)
OpenByIndex ==
    opened # NothingOpened =>
      LET listed == { n \in 1..Len(volumes) : volumes[n].index = opened.index } IN
      IF listed = {} THEN opened.status = "out_of_range"
      ELSE \A n \in listed : /\ opened.status = "ok"
                            /\ opened.start = volumes[n].start
                            /\ opened.len = volumes[n].len

ValidMbr == medium.size >= SECTOR_CELLS /\ medium.cell[SECTOR_CELLS - 1] = BOOT_SIG

OnDisk(k) == EntryOf[medium.cell[k - 1]]

(***************************************************************************)
(* However the sector was delivered, open succeeds only on an image that   *)
(* holds a whole sector with the signature, refuses as unsupported only    *)
(* one that does not, and lists the non-empty slots of the table on disk,  *)
(* each once and in their order.                                           *)
(***************************************************************************)
VolumesMatchTable ==
    /\ system = "unsupported" => ~ValidMbr
    /\ system = "open" =>
         LET slots == { k \in 1..4 : ~IsEmpty(OnDisk(k)) } IN
         /\ ValidMbr
         /\ Len(volumes) = Cardinality(slots)
         /\ \A k \in slots :
              LET v == volumes[Cardinality({ j \in slots : j <= k })] IN
              /\ v.start = ToBytes(OnDisk(k).lba_start)
              /\ v.len = ToBytes(OnDisk(k).lba_count)

\* Both loops end and open returns, interruptions and truncation included.
EveryCallReturns == <>(Finished /\ ~Opening)
=============================================================================
