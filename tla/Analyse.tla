------------------------------ MODULE Analyse ------------------------------
(***************************************************************************)
(* The pipeline of analyse_with_options, forensic/src/analyse.rs: read and *)
(* parse the MBR, run the table checks, scan the four primary entries,     *)
(* walk the EBR chain of the extended partition, then look for overlaps,   *)
(* gaps, and traces inside the gaps.  The chain walk and the two sweeps    *)
(* are the machines of EbrWalk, OverlapSweep and GapSweep, run here on the *)
(* data the earlier stages hand them.                                      *)
(*                                                                         *)
(* An anomaly is its kind and what it is about; offsets and notes are left *)
(* out.  The content of a volume is abstracted to what the recognisers of  *)
(* the code report about it.  Each of the three reads of a volume's first  *)
(* sectors has its own guard and may get another answer.  The gaps' bytes  *)
(* are bytes.                                                              *)
(***************************************************************************)
EXTENDS PartitionTable, Severity, Wipe, Carve

CONSTANTS U64Max, SectorSize, MAX_DEPTH, FIRST_USABLE,
          EBR_INDEX_BASE,                  \* 4 in the code
          PROTECTIVE_UNDERSIZE_TOLERANCE,  \* 2048 sectors in the code
          GAP_SAMPLE_BYTES,                \* 4096 in the code
          Images                           \* the disk images considered

\* A u64 holds the sum of four u32: the container's start, the link to an EBR,
\* the start of its logical partition and the length of that.
ASSUME WidthAssumption ==
    /\ U64Max \in Nat /\ 4 * U32Max < U64Max
    /\ SectorSize \in Nat \ {0}
    /\ MAX_DEPTH \in Nat \ {0}
    /\ FIRST_USABLE \in 1..U64Max
    /\ EBR_INDEX_BASE \in Nat /\ EBR_INDEX_BASE >= 4
    /\ GAP_SAMPLE_BYTES \in Nat

NoBpb == -1     \* read_first_sector failed, or parse_bpb returned None

Some(S) == SUBSET S \ {{}}

\* The answers the reads of a partition's first sectors may give.
Content == [ hidden : Some({NoBpb} \cup (0..U32Max)),  \* BPB hidden sectors
             fs     : Some(FileSystems),   \* "None": read_fingerprint failed
             volume : Some(BOOLEAN) ]      \* partition_volume could read

Unreadable == [hidden |-> {NoBpb}, fs |-> {"None"}, volume |-> {FALSE}]

EbrSector == [ io       : {"ok", "short", "noseek"},
               boot_sig : BOOLEAN,
               logical  : PartitionEntry,
               next     : 0..U32Max,
               slack    : BOOLEAN ]

MbrSector == [ io       : {"ok", "io_error", "bad_signature"},
               boot     : BootCodeIds,   \* identify(boot_code)
               dense    : BOOLEAN,       \* entropy above the threshold
               markers  : Nat,           \* boot-malware markers found
               serial   : 0..U32Max,     \* disk_serial
               reserved : 0..U32Max,
               entries  : [1..4 -> PartitionEntry] ]

\* The 446 bytes identify() looks at include the disk serial and the
\* reserved field, which ties the three together.
Identified(m) == /\ m.boot = "AllZeros" => m.serial = 0 /\ m.reserved = 0
                 /\ m.boot = "AllOnes" => m.serial # 0 /\ m.reserved # 0

\* What an image is.
ASSUME ImagesAssumption ==
    \A m \in Images :
      /\ m.mbr \in MbrSector
      /\ Identified(m.mbr)
      /\ m.lba1 \in {"gpt", "bad_gpt", "other", "unreadable"}
      /\ \A l \in DOMAIN m.ebrs : l \in Nat /\ m.ebrs[l] \in EbrSector
      /\ m.dense \subseteq DOMAIN m.ebrs   \* entropy of the slack above the threshold
      /\ \A l \in DOMAIN m.content : l \in Nat /\ m.content[l] \in Content
      /\ \A l \in DOMAIN m.data : Len(m.data[l]) = SectorSize   \* readable sectors
      /\ m.size \in 0..U64Max

VARIABLES
    image,        \* the reader and disk_size_bytes; never written
    stage,        \* the stage about to run
    gpt_header,   \* LBA 1 holds a GPT header, as read once at the start
    last_lba,     \* disk_last_lba
    findings,     \* Findings::anomalies
    extents, overlap_extents, summaries,   \* PrimaryScan
    ext_start_lba, next_ebr_lba, visited, ebr_entries, had_cycle,
    depth_exceeded,                        \* the walk, then the EbrChain
    sorted, i, cursor, overlaps, gaps,     \* locals of the sweeps and loops
    sub,          \* program counter of the callee
    era, gpt      \* MbrAnalysis::era, and whether MbrAnalysis::gpt is set

scan   == <<extents, overlap_extents, summaries>>
walk   == <<ext_start_lba, next_ebr_lba, visited, ebr_entries, had_cycle, depth_exceeded>>
sweeps == <<sorted, cursor, overlaps, gaps>>
answer == <<era, gpt>>
vars   == <<image, stage, gpt_header, last_lba, findings, scan, walk, sweeps, i, sub, answer>>

mbr == image.mbr

-----------------------------------------------------------------------------
(* Geometry and content of the image *)

LbaToByte(l) == IF l * SectorSize > U64Max THEN U64Max ELSE l * SectorSize

\* The answers the reader has for the first sectors at l.
ContentAt(l) == IF l \in DOMAIN image.content THEN image.content[l] ELSE Unreadable

\* Mutant: a partition that starts exactly at the end of the disk is read.
CheckVbr_OffByOne(l) ==
    IF image.size # 0 /\ LbaToByte(l) > image.size THEN {NoBpb} ELSE ContentAt(l).hidden

\* check_vbr: the BPB it gets to compare, if any.
CheckVbr(l) ==
    IF image.size # 0 /\ LbaToByte(l) >= image.size THEN {NoBpb} ELSE ContentAt(l).hidden

\* Mutant: an unknown size is taken for a disk that has ended.
DetectPartitionFs_SizeKnown(l) ==
    IF LbaToByte(l) >= image.size THEN {"None"} ELSE ContentAt(l).fs

\* detect_partition_fs, whose answer the anomaly and the summary share.
DetectPartitionFs(l) ==
    IF image.size # 0 /\ LbaToByte(l) >= image.size THEN {"None"} ELSE ContentAt(l).fs

\* Mutant: the guard is left out of the last of the three reads.
PartitionVolume_Unguarded(l) == ContentAt(l).volume

\* partition_volume: a fingerprint of its own, behind a guard of its own.
PartitionVolume(l) ==
    IF image.size # 0 /\ LbaToByte(l) >= image.size THEN {FALSE} ELSE ContentAt(l).volume

\* The three calls made for the partition that starts at l.
Reads(l) == [hidden : CheckVbr(l), fs : DetectPartitionFs(l), volume : PartitionVolume(l)]

\* Sixteen zero bytes of the partition table.
ZeroEntry == LET NoChs == [cylinder |-> 0, head |-> 0, sector |-> 0] IN
    [ status |-> "inactive", family |-> "Empty", chs_first |-> NoChs, chs_last |-> NoChs,
      lba_start |-> 0, lba_count |-> 0 ]

(***************************************************************************)
(* The sector at l as the EBR walk sees it.  LBA 0 is the MBR itself: an   *)
(* extended entry that starts there makes the walk take the first two      *)
(* primary entries for a logical partition and a link.                     *)
(***************************************************************************)
AsEbr(l) ==
    IF l = 0
      THEN [ io |-> "ok", boot_sig |-> TRUE, logical |-> mbr.entries[1],
             next |-> mbr.entries[2].lba_start,
             slack |-> \E k \in {3, 4} : mbr.entries[k] # ZeroEntry ]
      ELSE IF l \in DOMAIN image.ebrs THEN image.ebrs[l]
      ELSE [ io |-> "short", boot_sig |-> FALSE, logical |-> mbr.entries[1],
             next |-> 0, slack |-> FALSE ]

EbrWalk == INSTANCE EbrWalk
             WITH disk <- [l \in 0..U64Max |-> AsEbr(l)], entries <- ebr_entries,
                  pc <- sub, Logicals <- PartitionEntry, Disks <- {}, ExtStarts <- {}

Overlap == INSTANCE OverlapSweep
             WITH extents <- overlap_extents, pc <- sub, Layouts <- {}

GapSweep == INSTANCE GapSweep
             WITH disk_size_bytes <- image.size, pc <- sub, Layouts <- {}, Sizes <- {}

-----------------------------------------------------------------------------
Finding(kind, about) == [kind |-> kind, about |-> about]

\* The finding, if the condition holds.
When(cond, finding) == IF cond THEN <<finding>> ELSE <<>>

\* findings.record, once per element.
Record(fs) == findings' = findings \o fs

Init ==
    /\ image \in Images
    /\ stage = "read_mbr"
    /\ gpt_header = FALSE
    /\ last_lba = 0
    /\ findings = <<>>
    /\ extents = <<>> /\ overlap_extents = <<>> /\ summaries = <<>>
    /\ ext_start_lba = 0 /\ next_ebr_lba = 0
    /\ visited = {} /\ ebr_entries = <<>>
    /\ had_cycle = FALSE /\ depth_exceeded = FALSE
    /\ sorted = <<>> /\ i = 1 /\ cursor = 0
    /\ overlaps = <<>> /\ gaps = <<>>
    /\ sub = "idle"
    /\ era = "Unknown" /\ gpt = FALSE

-----------------------------------------------------------------------------
(* The MBR and the checks of its table *)

\* The only errors the analysis returns.
ReadMbrFails ==
    /\ stage = "read_mbr"
    /\ mbr.io # "ok"
    /\ stage' = "failed"
    /\ UNCHANGED <<image, gpt_header, last_lba, findings, scan, walk, sweeps, i, sub, answer>>

\* The sector parses; LBA 1 is read once, and a failing read counts as "no GPT".
ReadMbr ==
    /\ stage = "read_mbr"
    /\ mbr.io = "ok"
    /\ gpt_header' = (image.lba1 \in {"gpt", "bad_gpt"})
    /\ last_lba' = GapSweep!DiskLastLba(image.size)
    /\ stage' = "boot_code"
    /\ UNCHANGED <<image, findings, scan, walk, sweeps, i, sub, answer>>

OnGptDisk == gpt_header /\ IsPureProtective(mbr.entries)

BootCodeFindings ==
    CASE mbr.boot = "AllZeros" ->
           << Finding(IF OnGptDisk THEN "EmptyProtectiveBootCode" ELSE "WipedBootCode", 0) >>
      [] mbr.boot = "AllOnes"  -> << Finding("ErasedBootCode", 0) >>
      [] mbr.boot = "Unknown"  -> << Finding("UnknownBootCode", 0) >>
                                     \o When(mbr.dense, Finding("HighEntropySlack", 0))
      [] OTHER                 -> <<>>

\* A stage that only looks at the table and records what it finds.
TableCheck(here, next, fs) ==
    /\ stage = here
    /\ Record(fs)
    /\ stage' = next
    /\ UNCHANGED <<image, gpt_header, last_lba, scan, walk, sweeps, i, sub, answer>>

CheckBootCode ==
    TableCheck("boot_code", "disk_signature",
               BootCodeFindings \o [n \in 1..mbr.markers |-> Finding("KnownBootkit", n)])

CheckDiskSignature ==
    TableCheck("disk_signature", "reserved",
               When(mbr.boot \in {"WindowsVista", "Windows7Plus"} /\ mbr.serial = 0,
                    Finding("ZeroDiskSignature", 0)))

CheckReserved ==
    TableCheck("reserved", "bootable",
               When(mbr.reserved # 0, Finding("NonZeroReserved", mbr.reserved)))

CheckBootableFlags ==
    LET bootable == Cardinality(Slots(mbr.entries, IsBootable))
        active   == Cardinality(NonEmptySlots(mbr.entries))
    IN  TableCheck("bootable", "duplicates",
                   When(bootable > 1, Finding("MultipleBootable", bootable))
                   \o When(active > 0 /\ bootable = 0, Finding("NoBootablePartition", 0)))

CheckDuplicateEntries ==
    LET pairs == DuplicatePairs(mbr.entries)
    IN  TableCheck("duplicates", "gpt",
                   [n \in 1..Len(pairs) |-> Finding("DuplicatePartitionEntry", pairs[n])])

\* The protective entry leaves more than the tolerated tail of the disk out.
Undersized(e) == /\ last_lba # U64Max
                 /\ e.lba_count # U32Max
                 /\ last_lba - LbaEnd(e) > PROTECTIVE_UNDERSIZE_TOLERANCE

GptFindings ==
    LET p     == FirstSlot(Slots(mbr.entries, IsProtective))
        extra == ExtraEntries(mbr.entries)
    IN  CASE p = NoSlot /\ gpt_header  -> << Finding("HiddenGpt", 1) >>
          [] p = NoSlot /\ ~gpt_header -> <<>>
          [] p # NoSlot /\ ~gpt_header -> << Finding("SpoofedProtectiveMbr", p) >>
          [] OTHER -> When(extra > 0, Finding("HybridMbr", extra))
                      \o When(Undersized(mbr.entries[p]), Finding("ProtectiveMbrUndersized", p))

CheckGpt == TableCheck("gpt", "scan", GptFindings)

-----------------------------------------------------------------------------
(* Partitions: the primary scan and the logicals of the EBR chain *)

\* check_vbr and detect_and_check_fs on the partition id that starts at l.
ContentFindings(id, l, family, r) ==
    When(r.hidden \notin {NoBpb, 0, l}, Finding("VbrHiddenSectorsMismatch", id))
    \o When(<<family, r.fs>> \in Conflicts, Finding("SignatureMismatch", id))

\* Mutant: the file system is fingerprinted once more for the summary.
Summary_Rereads(id, l, end, entry, r) ==
    [ index |-> id, lba_start |-> l, lba_end |-> end, byte_offset |-> LbaToByte(l),
      byte_size |-> LbaToByte(entry.lba_count), declared |-> entry.family,
      detected |-> (CHOOSE q \in Reads(l) : TRUE).fs, volume |-> r.volume ]

\* The PartitionSummary; "volume" says whether partition_volume read anything.
Summary(id, l, end, entry, r) ==
    [ index       |-> id,
      lba_start   |-> l,
      lba_end     |-> end,
      byte_offset |-> LbaToByte(l),
      byte_size   |-> LbaToByte(entry.lba_count),
      declared    |-> entry.family,
      detected    |-> r.fs,
      volume      |-> r.volume ]

EntryFindings(id, e, r) ==
    When(e.status = "invalid", Finding("InvalidPartitionStatus", id))
    \o When(ChsContradicts(e), Finding("ChsLbaInconsistency", id))
    \o When(image.size > 0 /\ LbaEnd(e) > last_lba, Finding("OutOfBounds", id))
    \o ContentFindings(id, e.lba_start, e.family, r)

ScanStep == /\ stage = "scan"
            /\ i <= Len(mbr.entries)
            /\ i' = i + 1
            /\ UNCHANGED <<image, stage, gpt_header, last_lba, walk, sweeps, sub, answer>>

ScanResidual ==
    /\ ScanStep
    /\ IsResidual(mbr.entries[i])
    /\ Record(<< Finding("ResidualEntry", i - 1) >>)
    /\ UNCHANGED scan

ScanEmpty ==
    /\ ScanStep
    /\ IsEmpty(mbr.entries[i])
    /\ UNCHANGED <<findings, scan>>

ScanEntry ==
    LET e == mbr.entries[i] IN
    /\ ScanStep
    /\ e.family # "Empty"
    /\ extents' = Append(extents, [start |-> e.lba_start, end |-> LbaEnd(e)])
    /\ overlap_extents' =
         IF IsExtended(e) THEN overlap_extents
         ELSE Append(overlap_extents, [id |-> i - 1, start |-> e.lba_start, end |-> LbaEnd(e)])
    /\ \E r \in Reads(e.lba_start) :
         /\ Record(EntryFindings(i - 1, e, r))
         /\ summaries' = Append(summaries, Summary(i - 1, e.lba_start, LbaEnd(e), e, r))

\* Only the first extended entry is followed.
ExtendedSlot == FirstSlot(Slots(mbr.entries, IsExtended))

\* The callers of the sweeps: sub = the callee's first instruction.
Enter(s, callee) == stage' = s /\ sub' = callee /\ i' = 1

NoExtended ==
    /\ stage = "scan"
    /\ i > Len(mbr.entries)
    /\ ExtendedSlot = NoSlot
    /\ Enter("overlaps", "sort")
    /\ UNCHANGED <<image, gpt_header, last_lba, findings, scan, walk, sweeps, answer>>

CallWalk ==
    /\ stage = "scan"
    /\ i > Len(mbr.entries)
    /\ ExtendedSlot # NoSlot
    /\ Enter("walk", "check")
    /\ ext_start_lba' = mbr.entries[ExtendedSlot].lba_start
    /\ next_ebr_lba' = mbr.entries[ExtendedSlot].lba_start
    /\ UNCHANGED <<image, gpt_header, last_lba, findings, scan, visited, ebr_entries,
                   had_cycle, depth_exceeded, sweeps, answer>>

WalkStep ==
    /\ stage = "walk"
    /\ UNCHANGED <<image, stage, gpt_header, last_lba, findings, scan, sweeps, i, answer>>
    /\ EbrWalk!Step

\* Mutant: an I/O error in the chain ends the whole analysis.
WalkFails_Propagates ==
    /\ stage = "walk"
    /\ sub = "failed"
    /\ stage' = "failed"
    /\ UNCHANGED <<image, gpt_header, last_lba, findings, scan, walk, sweeps, i, sub, answer>>

\* The error is traced and swallowed: the chain is EbrChain::empty().
WalkFails ==
    /\ stage = "walk"
    /\ sub = "failed"
    /\ ebr_entries' = <<>>
    /\ Enter("overlaps", "sort")
    /\ UNCHANGED <<image, gpt_header, last_lba, findings, scan, ext_start_lba,
                   next_ebr_lba, visited, had_cycle, depth_exceeded, sweeps, answer>>

WalkReturns ==
    /\ stage = "walk"
    /\ sub = "done"
    /\ Record(When(had_cycle, Finding("EbrCycle", 0))
              \o When(depth_exceeded, Finding("EbrExcessiveDepth", Len(ebr_entries))))
    /\ Enter("logicals", "idle")
    /\ UNCHANGED <<image, gpt_header, last_lba, scan, walk, sweeps, answer>>

\* Mutant: logicals are numbered by their place among the summaries alone.
LogicalIndex_NoBase == Len(summaries)

\* EBR_INDEX_BASE + scan.summaries.len()
LogicalIndex == EBR_INDEX_BASE + Len(summaries)

\* Last LBA of a logical, in u64 arithmetic.
LogicalEnd(r) == Pred(EbrWalk!SaturatingAdd(r.logical_lba_start, r.logical.lba_count))

\* Mutant: the extent handed to the gap stage ends one sector late.
LogicalExtents_ExclusiveEnd(r) ==
    Append(extents, [start |-> r.logical_lba_start, end |-> LogicalEnd(r) + 1])

LogicalExtents(r) == Append(extents, [start |-> r.logical_lba_start, end |-> LogicalEnd(r)])

SlackFindings(r) ==
    When(r.has_slack, Finding("EbrSlackData", [ebr_lba |-> r.ebr_lba,
                                               dense |-> r.ebr_lba \in image.dense]))

AddLogical ==
    LET e == ebr_entries[i]  l == e.logical_lba_start IN
    /\ stage = "logicals"
    /\ i <= Len(ebr_entries)
    /\ extents' = LogicalExtents(e)
    /\ overlap_extents' = Append(overlap_extents,
                                 [id |-> LogicalIndex, start |-> l, end |-> LogicalEnd(e)])
    /\ \E r \in Reads(l) :
         /\ Record(SlackFindings(e) \o ContentFindings(LogicalIndex, l, e.logical.family, r))
         /\ summaries' = Append(summaries, Summary(LogicalIndex, l, LogicalEnd(e), e.logical, r))
    /\ i' = i + 1
    /\ UNCHANGED <<image, stage, gpt_header, last_lba, walk, sweeps, sub, answer>>

LogicalsDone ==
    /\ stage = "logicals"
    /\ i > Len(ebr_entries)
    /\ Enter("overlaps", "sort")
    /\ UNCHANGED <<image, gpt_header, last_lba, findings, scan, walk, sweeps, answer>>

-----------------------------------------------------------------------------
(* Overlaps, gaps, and what is left in the gaps *)

OverlapStep ==
    /\ stage = "overlaps"
    /\ UNCHANGED <<image, stage, gpt_header, last_lba, findings, extents, summaries,
                   walk, cursor, gaps, answer>>
    /\ Overlap!Step

OverlapsChecked ==
    /\ stage = "overlaps"
    /\ sub = "done"
    /\ Record([n \in 1..Len(overlaps) |-> Finding("OverlappingPartitions", overlaps[n])])
    /\ Enter("gaps", "start")
    /\ sorted' = <<>>
    /\ cursor' = FIRST_USABLE
    /\ UNCHANGED <<image, gpt_header, last_lba, scan, walk, overlaps, gaps, answer>>

GapStep ==
    /\ stage = "gaps"
    /\ UNCHANGED <<image, stage, gpt_header, last_lba, findings, overlap_extents,
                   summaries, walk, overlaps, answer>>
    /\ GapSweep!Step

GapAnomalyKind(g) == CASE g.kind = "PrePartition" -> "PrePartitionSpace"
                       [] g.kind = "Between" -> "InterPartitionGap"
                       [] g.kind = "PostPartition" -> "PostPartitionSpace"

\* One anomaly per gap.
GapsChecked ==
    /\ stage = "gaps"
    /\ sub = "done"
    /\ Record([n \in 1..Len(gaps) |-> Finding(GapAnomalyKind(gaps[n]), gaps[n])])
    /\ Enter("content", "idle")
    /\ UNCHANGED <<image, gpt_header, last_lba, scan, walk, sweeps, answer>>

\* Mutant: the sample is always of full length.
SampleLen_Unclipped(g) == GAP_SAMPLE_BYTES

SampleLen(g) == IF g.byte_size < GAP_SAMPLE_BYTES THEN g.byte_size ELSE GAP_SAMPLE_BYTES

SectorOf(byte) == byte \div SectorSize

\* read_exact can deliver the first n bytes of the gap, and delivers these.
CanSample(g, n) == \A k \in 0..(n - 1) : SectorOf(LbaToByte(g.lba_start) + k) \in DOMAIN image.data
Sample(g, n) == [k \in 1..n |-> LET b == LbaToByte(g.lba_start) + k - 1
                                IN  image.data[SectorOf(b)][(b % SectorSize) + 1]]

\* An empty sample or a failing read skips the gap; a fill may look wiped and be carved.
SampleFindings(g) ==
    LET n      == SampleLen(g)
        buf    == Sample(g, n)
        carved == CarveFiles(buf, LbaToByte(g.lba_start))
    IN  IF n = 0 \/ ~CanSample(g, n) THEN <<>>
        ELSE When(IsDeliberateWipe(Classify(buf, FALSE)), Finding("WipedRegion", g.lba_start))
             \o [k \in 1..Len(carved) |-> Finding("CarvedArtifact", carved[k].offset)]

SampleGap ==
    /\ stage = "content"
    /\ i <= Len(gaps)
    /\ Record(SampleFindings(gaps[i]))
    /\ i' = i + 1
    /\ UNCHANGED <<image, stage, gpt_header, last_lba, scan, walk, sweeps, sub, answer>>

Return ==
    /\ stage = "content"
    /\ i > Len(gaps)
    /\ era' = InferEra(mbr.entries, mbr.boot)
    /\ gpt' = (gpt_header /\ image.lba1 = "gpt")   \* gpt-forensic could parse it
    /\ stage' = "done"
    /\ UNCHANGED <<image, gpt_header, last_lba, findings, scan, walk, sweeps, i, sub>>

Step == \/ ReadMbrFails \/ ReadMbr
        \/ CheckBootCode \/ CheckDiskSignature \/ CheckReserved
        \/ CheckBootableFlags \/ CheckDuplicateEntries \/ CheckGpt
        \/ ScanResidual \/ ScanEmpty \/ ScanEntry
        \/ NoExtended \/ CallWalk \/ WalkStep \/ WalkFails \/ WalkReturns
        \/ AddLogical \/ LogicalsDone
        \/ OverlapStep \/ OverlapsChecked
        \/ GapStep \/ GapsChecked
        \/ SampleGap \/ Return

Finished == stage \in {"done", "failed"}

Returned == Finished /\ UNCHANGED vars

Next == Step \/ Returned

\* The call runs on one thread to its end.
Spec == Init /\ [][Next]_vars /\ WF_vars(Step)

-----------------------------------------------------------------------------
(* Properties *)

PartitionSummary ==
    [ index : Nat, lba_start : 0..U64Max, lba_end : 0..U64Max, byte_offset : 0..U64Max,
      byte_size : 0..U64Max, declared : Families, detected : FileSystems, volume : BOOLEAN ]

\* What the stages hand to each other keeps its type: every LBA and byte
\* offset of a summary or an extent fits the 64-bit range.
TypeOK ==
    /\ gpt_header \in BOOLEAN
    /\ last_lba \in 0..U64Max
    /\ extents \in Seq([start : 0..U64Max, end : 0..U64Max])
    /\ overlap_extents \in Seq([id : Nat, start : 0..U64Max, end : 0..U64Max])
    /\ summaries \in Seq(PartitionSummary)
    /\ era \in {"Modern", "LegacyCylinder", "Unknown"}

Found(kind) == \E n \in 1..Len(findings) : findings[n].kind = kind
FoundAbout(kind, id) ==
    \E n \in 1..Len(findings) : findings[n].kind = kind /\ findings[n].about = id

\* Sector l belongs to a partition the analysis lists; to a gap it lists.
Claimed(l) == \E n \in 1..Len(summaries) :
                summaries[n].lba_start <= l /\ l <= summaries[n].lba_end
InGap(l) == \E n \in 1..Len(gaps) : gaps[n].lba_start <= l /\ l <= gaps[n].lba_end

(***************************************************************************)
(* An index means one partition: no two summaries share one, logicals      *)
(* never take an index of the primary table, and every extent handed to    *)
(* the overlap check is the extent of the summary with its id.             *)
(***************************************************************************)
IndicesIdentify ==
    /\ \A m, n \in 1..Len(summaries) : summaries[m].index = summaries[n].index => m = n
    /\ \A n \in 1..Len(summaries) :
         summaries[n].index < EBR_INDEX_BASE =>
           mbr.entries[summaries[n].index + 1].lba_start = summaries[n].lba_start
    /\ \A k \in 1..Len(overlap_extents) : \E n \in 1..Len(summaries) :
         LET x == overlap_extents[k]  s == summaries[n] IN
         x.id = s.index /\ x.start = s.lba_start /\ x.end = s.lba_end

(***************************************************************************)
(* Nothing on a disk of known size is unaccounted for: each sector behind  *)
(* the MBR is in a listed gap exactly when no listed partition, primary or *)
(* logical, claims it.                                                     *)
(***************************************************************************)
SectorsAccounted ==
    stage = "done" /\ image.size > 0 =>
      \A l \in FIRST_USABLE..last_lba : InGap(l) <=> ~Claimed(l)

\* The partitions the overlap check is about: logicals and data primaries.
IsData(s) == s.index >= EBR_INDEX_BASE \/ s.declared # "ExtendedMbr"

Intersect(s, t) == /\ s.lba_start <= s.lba_end /\ t.lba_start <= t.lba_end
                   /\ s.lba_start <= t.lba_end /\ t.lba_start <= s.lba_end

(***************************************************************************)
(* Of any two data partitions listed that share a sector, logicals         *)
(* included, at least one heads an overlap report.                         *)
(***************************************************************************)
OverlapsSurface ==
    stage = "done" =>
      \A m, n \in 1..Len(summaries) :
        LET s == summaries[m]  t == summaries[n] IN
        m # n /\ IsData(s) /\ IsData(t) /\ Intersect(s, t) =>
          \E k \in 1..Len(findings) :
            /\ findings[k].kind = "OverlappingPartitions"
            /\ findings[k].about.a \in {s.index, t.index}

Readable(l) == /\ l * SectorSize <= U64Max
               /\ AsEbr(l).io = "ok" /\ AsEbr(l).boot_sig

(***************************************************************************)
(* A chain that could be walked loses no logical partition on the way into *)
(* the result: the EBR of the first extended entry, whatever other         *)
(* containers the table has, and whatever a listed EBR links to has its    *)
(* logical partition among the summaries, unless the depth limit is        *)
(* reported.                                                               *)
(***************************************************************************)
LogicalsComplete ==
    \A k \in 1..4 :
      stage = "done" /\ IsExtended(mbr.entries[k])
        /\ (\A j \in 1..(k - 1) : ~IsExtended(mbr.entries[j]))
        /\ ~Found("EbrExcessiveDepth")
        /\ (\A l \in 0..(2 * U32Max) : AsEbr(l).io # "noseek") =>
      LET start == mbr.entries[k].lba_start
          chain == { ebr_entries[n].ebr_lba : n \in 1..Len(ebr_entries) }
          heads == {start} \cup { start + AsEbr(l).next : l \in { c \in chain : AsEbr(c).next # 0 } }
      IN  \A l \in heads : Readable(l) =>
            \E n \in 1..Len(summaries) :
              /\ summaries[n].index >= EBR_INDEX_BASE
              /\ summaries[n].lba_start =
                   EbrWalk!SaturatingAdd(l, AsEbr(l).logical.lba_start)

(***************************************************************************)
(* Zeroed boot code is called benign only on a disk that the rest of the   *)
(* analysis also sees as pure GPT: the protective entry is the one         *)
(* partition listed and no stage objects to the GPT.                       *)
(***************************************************************************)
BenignBootCodeIsPureGpt ==
    stage = "done" /\ Found("EmptyProtectiveBootCode") =>
      /\ Len(summaries) = 1 /\ summaries[1].declared = "GptProtective"
      /\ ~Found("HiddenGpt") /\ ~Found("SpoofedProtectiveMbr") /\ ~Found("HybridMbr")

Behind(s) == image.size > 0 /\ s.byte_offset >= image.size

\* Every read at l succeeds, and every BPB found there is a relocated one.
AlwaysAnswers(l) ==
    /\ l \in DOMAIN image.content
    /\ image.content[l].hidden \cap {NoBpb, 0, l} = {}
    /\ "None" \notin image.content[l].fs
    /\ FALSE \notin image.content[l].volume

(***************************************************************************)
(* One end of the disk for the whole analysis.  check_vbr,                 *)
(* detect_partition_fs and partition_volume each compare bytes with the    *)
(* disk size behind a copy of the guard of their own; the bounds check of  *)
(* the scan compares sectors with disk_last_lba.  They draw the same line: *)
(* of a partition behind it nothing is read, and a primary that claims a   *)
(* sector there is reported out of bounds; of any other partition, and of  *)
(* every one when the size is unknown, all is read that can be, so that a  *)
(* relocated BPB is reported and the summary is filled.                    *)
(***************************************************************************)
ContentReadsAgree ==
    \A n \in 1..Len(summaries) :
      LET s == summaries[n] IN
      /\ Behind(s) =>
           /\ s.detected = "None" /\ ~s.volume
           /\ ~FoundAbout("VbrHiddenSectorsMismatch", s.index)
           /\ ~FoundAbout("SignatureMismatch", s.index)
           /\ s.index < EBR_INDEX_BASE /\ s.lba_start <= s.lba_end =>
                FoundAbout("OutOfBounds", s.index)
      /\ ~Behind(s) /\ AlwaysAnswers(s.lba_start) =>
           /\ s.detected # "None" /\ s.volume
           /\ FoundAbout("VbrHiddenSectorsMismatch", s.index)

(***************************************************************************)
(* Wiped regions and carved files are reported only in unallocated space:  *)
(* the sector of such a finding is claimed by no listed partition, also    *)
(* where the gap is shorter than a sample.                                 *)
(***************************************************************************)
TracesLieOutsidePartitions ==
    \A n \in 1..Len(findings) :
      LET f == findings[n] IN
      /\ f.kind = "WipedRegion" => ~Claimed(f.about)
      /\ f.kind = "CarvedArtifact" => ~Claimed(SectorOf(f.about))

(***************************************************************************)
(* The anomalies and the summaries tell one story although sectors answer  *)
(* differently from read to read: detect_and_check_fs judges the same      *)
(* fingerprint it returns, so a type mismatch is reported about a          *)
(* partition exactly when its summary shows a file system that contradicts *)
(* its type.                                                               *)
(***************************************************************************)
MismatchesAgreeWithSummaries ==
    \A n \in 1..Len(summaries) :
      LET s == summaries[n] IN
      FoundAbout("SignatureMismatch", s.index) <=> <<s.declared, s.detected>> \in Conflicts

(***************************************************************************)
(* What a caller may conclude from a low severity.  If nothing is reported *)
(* at MEDIUM or above, the partitions listed on a disk of known size do    *)
(* not share a sector, leave none between them unclaimed, the primaries    *)
(* end on the disk, and no file system contradicts its type.               *)
(***************************************************************************)
LowSeverityMeansSoundLayout ==
    stage = "done" /\ image.size > 0 /\ AnomaliesAtLeast(findings, MEDIUM) = {} =>
      /\ \A m, n \in 1..Len(summaries) :
           LET s == summaries[m]  t == summaries[n] IN
           m # n /\ IsData(s) /\ IsData(t) => ~Intersect(s, t)
      /\ \A k, l, m \in FIRST_USABLE..last_lba :
           k < l /\ l < m /\ Claimed(k) /\ Claimed(m) => Claimed(l)
      /\ \A n \in 1..Len(summaries) :
           LET s == summaries[n] IN
           /\ s.index < EBR_INDEX_BASE => s.lba_end <= last_lba
           /\ <<s.declared, s.detected>> \notin Conflicts

\* Whatever fails later, an image whose MBR can be read and parsed gets an
\* analysis and never an error.
ReadableMbrIsAnalysed == mbr.io = "ok" => <>(stage = "done")

(***************************************************************************)
(* Readings of the documentation that the code does not keep.              *)
(***************************************************************************)

\* "0xEE coexists with real partition entries": a hybrid MBR lists a
\* partition besides the protective one.
HybridHasRealPartition ==
    stage = "done" /\ Found("HybridMbr") =>
      \E n \in 1..Len(summaries) : summaries[n].declared # "GptProtective"

\* "Still return a well-formed analysis of what it could read": every EBR
\* the walk has read is part of the result.
ReadEbrsAreKept ==
    stage = "done" =>
      \A l \in visited : Readable(l) =>
        \E n \in 1..Len(ebr_entries) : ebr_entries[n].ebr_lba = l

\* "Partition end exceeds the reported disk size", for every partition listed.
OutOfBoundsSurfaces ==
    stage = "done" /\ image.size > 0 =>
      \A n \in 1..Len(summaries) :
        summaries[n].lba_end > last_lba => FoundAbout("OutOfBounds", summaries[n].index)

\* "Pre-partition gap is benign when within the classic reserved track": one
\* that reaches beyond it is not reported as LOW.
WidePrePartitionGapIsMedium ==
    \A n \in 1..Len(findings) :
      LET f == findings[n] IN
      f.kind = "PrePartitionSpace" /\ f.about.lba_end >= PRE_PARTITION_BENIGN_LBA =>
        SeverityOf(f) >= MEDIUM
=============================================================================
