--------------------------- MODULE AnalyseProofs ---------------------------
(***************************************************************************)
(* Proofs about Analyse, for every set of images and every width of the    *)
(* integers.  The invariants of the walk and of the two sweeps come from   *)
(* their own proofs, instantiated at the variables of the pipeline; what   *)
(* is added here is how one stage hands its result to the next.            *)
(***************************************************************************)
EXTENDS Analyse, CarveProofs

EP == INSTANCE EbrWalkProofs
        WITH disk <- [l \in 0..U64Max |-> AsEbr(l)], entries <- ebr_entries,
             pc <- sub, Logicals <- PartitionEntry,
             Disks <- [0..U64Max -> EbrSector], ExtStarts <- 0..U64Max

OP == INSTANCE OverlapSweepProofs
        WITH extents <- overlap_extents, pc <- sub, Layouts <- Seq(Overlap!Extent)

GP == INSTANCE GapSweepProofs
        WITH disk_size_bytes <- image.size, pc <- sub,
             Layouts <- Seq(GapSweep!Extent), Sizes <- 0..U64Max

-----------------------------------------------------------------------------
(* The inductive invariant, in named parts. *)

TableStages == { "read_mbr", "boot_code", "disk_signature", "reserved", "bootable",
                 "duplicates", "gpt" }
\* The stages in which the primary entries have been scanned; the chain
\* has been walked; the overlaps, and the gaps, have been recorded.
Scanned  == {"walk", "logicals", "overlaps", "gaps", "content", "done"}
Walked   == {"logicals", "overlaps", "gaps", "content", "done"}
Swept    == {"gaps", "content", "done"}
Gapped   == {"content", "done"}
Stages   == TableStages \cup {"scan", "failed"} \cup Scanned

\* s is a sequence, of whatever values.
Proper(s) == Len(s) \in Nat /\ s = [n \in 1..Len(s) |-> s[n]]

\* The types of what the stages share.
ShareInv ==
    /\ image \in Images
    /\ stage \in Stages
    /\ gpt_header \in BOOLEAN
    /\ last_lba = IF stage \in {"read_mbr", "failed"} THEN 0
                  ELSE GapSweep!DiskLastLba(image.size)
    /\ Proper(findings)
    /\ i \in Nat \ {0}
    /\ era \in {"Modern", "LegacyCylinder", "Unknown"}

\* What a stage finds untouched by the ones before it.
FreshInv ==
    /\ stage = "read_mbr" => findings = <<>>
    /\ stage \in TableStages \cup {"failed"} => i = 1 /\ Len(summaries) = 0
    /\ stage = "scan" => i <= 5
    /\ stage \in TableStages \cup {"scan"} =>
         ebr_entries = <<>> /\ visited = {} /\ ~had_cycle /\ ~depth_exceeded
    /\ stage \notin Swept => gaps = <<>>
    /\ stage \notin Swept \cup {"overlaps"} => sorted = <<>> /\ overlaps = <<>>

\* A logical partition, wherever the links led, starts below 3 * 2^32.
Logical == { e \in EbrWalk!EbrEntry : e.logical_lba_start <= 3 * U32Max }

\* The callee's own invariant, and the type of what the walk returned.
CalleeInv ==
    /\ stage = "walk" =>
         /\ EP!WalkInv
         /\ ExtendedSlot \in 1..4
         /\ ext_start_lba = mbr.entries[ExtendedSlot].lba_start
    /\ stage = "logicals" => ebr_entries \in Seq(Logical)
    /\ stage = "overlaps" => OP!SweepInv
    /\ stage = "gaps" => GP!GapInv

Listing == { s \in PartitionSummary : /\ s.lba_start <= 3 * U32Max
                                      /\ s.lba_end < U64Max
                                      /\ s.lba_end + 1 >= s.lba_start
                                      /\ s.byte_offset = LbaToByte(s.lba_start) }

\* The extents of the gap stage are those of the summaries, one by one.
ScanInv ==
    /\ summaries \in Seq(Listing)
    /\ extents \in Seq(GapSweep!Extent)
    /\ overlap_extents \in Seq([id : Nat, start : 0..U64Max, end : 0..U64Max])
    /\ Len(extents) = Len(summaries)
    /\ \A n \in 1..Len(summaries) : /\ extents[n].start = summaries[n].lba_start
                                    /\ extents[n].end = summaries[n].lba_end

\* Summary s is that of the primary entry its index names.
OfPrimary(s) ==
    /\ s.index \in 0..3
    /\ LET e == mbr.entries[s.index + 1]
       IN  /\ e.family # "Empty"
           /\ s.lba_start = e.lba_start
           /\ s.lba_end = LbaEnd(e)
           /\ s.declared = e.family

\* Indices ascend; each is a slot of the table or counts from EBR_INDEX_BASE.
IndexInv ==
    /\ \A n \in 1..Len(summaries) : \/ OfPrimary(summaries[n])
                                    \/ summaries[n].index = EBR_INDEX_BASE + n - 1
    /\ \A m, n \in 1..Len(summaries) : m < n => summaries[m].index < summaries[n].index
    /\ stage = "scan" => \A n \in 1..Len(summaries) : summaries[n].index < i - 1

\* The primary entries scanned so far are listed.
PrimariesInv ==
    stage \in Scanned \cup {"scan"} =>
      \A k \in 1..4 :
        (stage = "scan" => k < i) /\ mbr.entries[k].family # "Empty" =>
          \E n \in 1..Len(summaries) : summaries[n].index = k - 1

SameExtent(x, s) == x.id = s.index /\ x.start = s.lba_start /\ x.end = s.lba_end

\* The overlap stage gets the data partitions, and nothing else.
DataInv ==
    /\ \A k \in 1..Len(overlap_extents) : \E n \in 1..Len(summaries) :
         SameExtent(overlap_extents[k], summaries[n])
    /\ \A n \in 1..Len(summaries) : IsData(summaries[n]) =>
         \E k \in 1..Len(overlap_extents) : SameExtent(overlap_extents[k], summaries[n])

ContentKinds == {"VbrHiddenSectorsMismatch", "SignatureMismatch"}

\* A finding about the content of a volume is about a listed partition.
AboutListed ==
    \A k \in 1..Len(findings) : findings[k].kind \in ContentKinds =>
      \E n \in 1..Len(summaries) : findings[k].about = summaries[n].index

\* Of a partition behind the end of the disk nothing is known.
NothingBehind ==
    \A n \in 1..Len(summaries) :
      LET s == summaries[n] IN
      Behind(s) =>
        /\ s.detected = "None" /\ ~s.volume
        /\ ~FoundAbout("VbrHiddenSectorsMismatch", s.index)
        /\ ~FoundAbout("SignatureMismatch", s.index)

\* Of any other, all is known that always can be read.
AllBefore ==
    \A n \in 1..Len(summaries) :
      LET s == summaries[n] IN
      ~Behind(s) /\ AlwaysAnswers(s.lba_start) =>
        /\ s.detected # "None" /\ s.volume
        /\ FoundAbout("VbrHiddenSectorsMismatch", s.index)

\* A primary partition that ends behind the disk has been reported.
BoundsInv ==
    image.size > 0 =>
      \A n \in 1..Len(summaries) :
        summaries[n].index < EBR_INDEX_BASE /\ summaries[n].lba_end > last_lba =>
          FoundAbout("OutOfBounds", summaries[n].index)

\* What the boot-code and GPT stages said; on a pure GPT disk nothing is walked.
GptInv ==
    /\ Found("EmptyProtectiveBootCode") => stage \notin {"read_mbr", "failed"} /\ OnGptDisk
    /\ Found("HiddenGpt") \/ Found("SpoofedProtectiveMbr") \/ Found("HybridMbr") => ~OnGptDisk
    /\ OnGptDisk => /\ stage \notin {"walk", "logicals"}
                    /\ \A n \in 1..Len(summaries) : OfPrimary(summaries[n])

\* The clashes the sweep found are among the findings.
OverlapInv ==
    stage \in Swept =>
      \A m, n \in 1..Len(summaries) :
        LET s == summaries[m]  t == summaries[n] IN
        m # n /\ IsData(s) /\ IsData(t) /\ Intersect(s, t) =>
          \E k \in 1..Len(findings) :
            /\ findings[k].kind = "OverlappingPartitions"
            /\ findings[k].about.a \in {s.index, t.index}

\* The gaps are what the listed partitions leave, and are among the findings.
LeftInv ==
    stage \in Gapped =>
      /\ gaps \in Seq(GapSweep!Gap)
      /\ image.size = 0 => Len(gaps) = 0
      /\ image.size # 0 => \A l \in FIRST_USABLE..U64Max :
           InGap(l) <=> /\ ~Claimed(l)
                        /\ \/ l <= last_lba
                           \/ \E n \in 1..Len(summaries) : l < summaries[n].lba_start
      /\ \A k \in 1..Len(gaps) :
           LET g == gaps[k] IN
           /\ g.lba_start >= FIRST_USABLE
           /\ g.lba_start <= g.lba_end /\ g.lba_end <= U64Max
           /\ GP!Fits(g)
           /\ g.kind = "PrePartition" => g.lba_start = FIRST_USABLE
           /\ g.kind = "Between" => Found("InterPartitionGap")
           /\ g.kind = "PostPartition" => g.lba_end = last_lba

ChainLbas == { ebr_entries[n].ebr_lba : n \in 1..Len(ebr_entries) }

\* Every EBR the chain reaches is in it.
ChainComplete ==
    LET start == mbr.entries[ExtendedSlot].lba_start IN
    \A l \in 0..(2 * U32Max) :
      /\ Readable(l)
      /\ \/ l = start
         \/ \E c \in ChainLbas : AsEbr(c).next # 0 /\ l = start + AsEbr(c).next
      => l \in ChainLbas

\* The n-th entry describes the EBR it was read from.
Described(n) ==
    LET e == ebr_entries[n] IN
    /\ e.ebr_lba \in 0..(2 * U32Max)
    /\ e.logical_lba_start =
         EbrWalk!SaturatingAdd(e.ebr_lba, AsEbr(e.ebr_lba).logical.lba_start)

\* The walk is over: it failed on a seek, there was none, it was cut at the
\* depth limit, or the chain is complete; and its logicals are listed.
LogicalsInv ==
    stage \in Walked =>
      /\ \/ ExtendedSlot = NoSlot
         \/ \E l \in 0..(2 * U32Max) : AsEbr(l).io = "noseek"
         \/ Found("EbrExcessiveDepth")
         \/ ChainComplete
      /\ \A n \in 1..Len(ebr_entries) :
           /\ Described(n)
           /\ (stage = "logicals" => n < i) =>
                \E m \in 1..Len(summaries) :
                  /\ summaries[m].index >= EBR_INDEX_BASE
                  /\ summaries[m].lba_start = ebr_entries[n].logical_lba_start

\* Traces are reported in the last stage only.
TraceStageInv ==
    stage \notin Gapped => ~Found("WipedRegion") /\ ~Found("CarvedArtifact")

-----------------------------------------------------------------------------
(* Sequences of findings. *)

\* f is an element of s.
Among(f, s) == \E k \in 1..Len(s) : s[k] = f

\* A sequence is one over the set of its own elements.
LEMMA ProperSeq ==
  ASSUME NEW s, Proper(s)
  PROVE  s \in Seq({ s[n] : n \in 1..Len(s) })
BY DEF Proper

\* A sequence over any set is one.
LEMMA SeqProper ==
  ASSUME NEW S, NEW s \in Seq(S)
  PROVE  Proper(s)
BY DEF Proper

\* Two sequences concatenated have the elements of both.
LEMMA ConcatAmong ==
  ASSUME NEW s, NEW t, Proper(s), Proper(t)
  PROVE  /\ Proper(s \o t)
         /\ \A f : Among(f, s \o t) <=> Among(f, s) \/ Among(f, t)
<1> DEFINE S == { s[n] : n \in 1..Len(s) } \cup { t[n] : n \in 1..Len(t) }
           u == s \o t
<1>1. s \in Seq(S) /\ t \in Seq(S)
  BY DEF Proper
<1> HIDE DEF S
<1>2. u \in Seq(S) /\ Len(u) = Len(s) + Len(t)
  BY <1>1
<1>3. \A k \in 1..Len(s) : u[k] = s[k] /\ k \in 1..Len(u)
  BY <1>1, <1>2
<1>4. \A k \in 1..Len(t) : u[Len(s) + k] = t[k] /\ Len(s) + k \in 1..Len(u)
  BY <1>1, <1>2
<1>5. \A k \in 1..Len(u) : \/ k \in 1..Len(s) /\ u[k] = s[k]
                           \/ k - Len(s) \in 1..Len(t) /\ u[k] = t[k - Len(s)]
  BY <1>1, <1>2
<1>6. Proper(u)
  BY <1>2, SeqProper
<1> HIDE DEF u
<1>7. \A f : Among(f, u) <=> Among(f, s) \/ Among(f, t)
  BY <1>3, <1>4, <1>5 DEF Among
<1> QED
  BY <1>6, <1>7 DEF u

\* One element, no element.
LEMMA SingleAmong ==
  ASSUME NEW x
  PROVE  Proper(<<x>>) /\ \A f : Among(f, <<x>>) <=> f = x
BY DEF Proper, Among

\* The empty sequence has no element.
LEMMA NoneAmong == Proper(<<>>) /\ \A f : ~Among(f, <<>>)
BY DEF Proper, Among

\* The conditional finding.
LEMMA WhenAmong ==
  ASSUME NEW c \in BOOLEAN, NEW x
  PROVE  /\ Proper(When(c, x))
         /\ \A f : Among(f, When(c, x)) <=> c /\ f = x
<1>1. CASE c
  <2>1. When(c, x) = <<x>>
    BY <1>1 DEF When
  <2> QED
    BY <1>1, <2>1, SingleAmong
<1>2. CASE ~c
  <2>1. When(c, x) = <<>>
    BY <1>2 DEF When
  <2> QED
    BY <1>2, <2>1, NoneAmong
<1> QED
  BY <1>1, <1>2

\* A vector given element by element.
LEMMA EachAmong ==
  ASSUME NEW n \in Nat, NEW s, s = [k \in 1..n |-> s[k]]
  PROVE  /\ Proper(s)
         /\ Len(s) = n
         /\ \A f : Among(f, s) <=> \E k \in 1..n : f = s[k]
<1>1. Len(s) = n
  OBVIOUS
<1>2. Proper(s)
  BY <1>1 DEF Proper
<1>3. \A f : Among(f, s) <=> \E k \in 1..n : f = s[k]
  BY <1>1 DEF Among
<1> QED
  BY <1>1, <1>2, <1>3

-----------------------------------------------------------------------------
(* Types of what the image holds. *)

\* What ImagesAssumption says of the image under analysis.
LEMMA ImageTypes ==
  image \in Images =>
    /\ mbr \in MbrSector
    /\ Len(mbr.entries) = 4
    /\ \A k \in 1..4 : mbr.entries[k] \in PartitionEntry
    /\ image.size \in 0..U64Max
BY ImagesAssumption DEF mbr, MbrSector

\* The inclusive end of an entry, computed with saturation.
LEMMA EndTypes ==
  ASSUME NEW e \in PartitionEntry
  PROVE  /\ e.lba_start \in 0..U32Max /\ e.lba_count \in 0..U32Max
         /\ e.family \in Families
         /\ LbaEnd(e) \in 0..U32Max
         /\ LbaEnd(e) + 1 >= e.lba_start
BY U32Assumption DEF PartitionEntry, LbaEnd, Pred

\* Saturation keeps every byte offset in a u64.
LEMMA ByteType ==
  ASSUME NEW l \in Nat
  PROVE  LbaToByte(l) \in 0..U64Max
<1>1. l * SectorSize \in Nat
  BY WidthAssumption
<1> QED
  BY <1>1, WidthAssumption DEF LbaToByte

\* Every sector is one the walk can look at.
LEMMA SectorTypes ==
  image \in Images => [l \in 0..U64Max |-> AsEbr(l)] \in [0..U64Max -> EbrSector]
<1> SUFFICES ASSUME image \in Images, NEW l \in 0..U64Max
             PROVE  AsEbr(l) \in EbrSector
  OBVIOUS
<1>1. mbr.entries[1] \in PartitionEntry /\ mbr.entries[2].lba_start \in 0..U32Max
  BY ImageTypes, EndTypes
<1>2. CASE l = 0
  BY <1>1, <1>2 DEF AsEbr, EbrSector
<1>3. CASE l # 0 /\ l \in DOMAIN image.ebrs
  BY <1>3, ImagesAssumption DEF AsEbr
<1>4. CASE l # 0 /\ l \notin DOMAIN image.ebrs
  BY <1>1, <1>4, U32Assumption DEF AsEbr, EbrSector
<1> QED
  BY <1>2, <1>3, <1>4

\* The line the three guards of the content reads draw.
BeyondDisk(l) == image.size # 0 /\ LbaToByte(l) >= image.size

\* What the reads of a partition's first sectors may give; behind the end of
\* the disk they give nothing, before it all that can be read.
LEMMA ReadTypes ==
  ASSUME image \in Images, NEW l, NEW r \in Reads(l)
  PROVE  /\ r.fs \in FileSystems /\ r.volume \in BOOLEAN
         /\ BeyondDisk(l) => r.hidden = NoBpb /\ r.fs = "None" /\ r.volume = FALSE
         /\ ~BeyondDisk(l) /\ AlwaysAnswers(l) =>
              r.hidden \notin {NoBpb, 0, l} /\ r.fs # "None" /\ r.volume = TRUE
<1>1. r.hidden \in CheckVbr(l) /\ r.fs \in DetectPartitionFs(l) /\ r.volume \in PartitionVolume(l)
  BY DEF Reads
<1>2. ContentAt(l).fs \subseteq FileSystems /\ ContentAt(l).volume \subseteq BOOLEAN
  BY ImagesAssumption DEF ContentAt, Content, Some, Unreadable, FileSystems
<1>3. CASE BeyondDisk(l)
  <2>1. CheckVbr(l) = {NoBpb} /\ DetectPartitionFs(l) = {"None"} /\ PartitionVolume(l) = {FALSE}
    BY <1>3 DEF BeyondDisk, CheckVbr, DetectPartitionFs, PartitionVolume
  <2> QED
    BY <1>1, <1>3, <2>1 DEF FileSystems
<1>4. CASE ~BeyondDisk(l)
  <2>1. /\ CheckVbr(l) = ContentAt(l).hidden /\ DetectPartitionFs(l) = ContentAt(l).fs
        /\ PartitionVolume(l) = ContentAt(l).volume
    BY <1>4 DEF BeyondDisk, CheckVbr, DetectPartitionFs, PartitionVolume
  <2>2. r.fs \in FileSystems /\ r.volume \in BOOLEAN
    BY <1>1, <1>2, <2>1
  <2>3. ASSUME AlwaysAnswers(l)
        PROVE  r.hidden \notin {NoBpb, 0, l} /\ r.fs # "None" /\ r.volume = TRUE
    <3>1. ContentAt(l) = image.content[l]
      BY <2>3 DEF AlwaysAnswers, ContentAt
    <3>2. /\ image.content[l].hidden \cap {NoBpb, 0, l} = {}
          /\ "None" \notin image.content[l].fs /\ FALSE \notin image.content[l].volume
      BY <2>3 DEF AlwaysAnswers
    <3> QED
      BY <1>1, <2>1, <2>2, <3>1, <3>2
  <2> QED
    BY <1>4, <2>2, <2>3
<1> QED
  BY <1>3, <1>4

-----------------------------------------------------------------------------
(* What a step records. *)

GptObjections == {"HiddenGpt", "SpoofedProtectiveMbr", "HybridMbr"}
Traces == {"WipedRegion", "CarvedArtifact"}

\* Who may record which kind of finding, of those the proofs tell apart.
Attributed(f) ==
    /\ f.kind \in ContentKinds => ScanEntry \/ AddLogical
    /\ f.kind = "EmptyProtectiveBootCode" => stage = "boot_code" /\ OnGptDisk
    /\ f.kind \in GptObjections => stage = "gpt" /\ ~OnGptDisk
    /\ f.kind \in Traces => SampleGap

\* The step appends fs to the findings.
Appends(fs) == Proper(fs) /\ findings' = findings \o fs

\* The boot-code stage reports none of the kinds that later stages answer for,
\* and calls zeroed boot code benign on a GPT disk only.
LEMMA BootFindings ==
  ASSUME image \in Images, gpt_header \in BOOLEAN
  PROVE  /\ Proper(BootCodeFindings)
         /\ \A f : Among(f, BootCodeFindings) =>
              \/ f = Finding("EmptyProtectiveBootCode", 0) /\ OnGptDisk
              \/ f.kind \in {"WipedBootCode", "ErasedBootCode", "UnknownBootCode",
                             "HighEntropySlack"}
<1>1. mbr.dense \in BOOLEAN
  BY ImageTypes DEF MbrSector
<1>2. CASE mbr.boot = "AllZeros"
  <2>1. BootCodeFindings =
          << Finding(IF OnGptDisk THEN "EmptyProtectiveBootCode" ELSE "WipedBootCode", 0) >>
    BY <1>2 DEF BootCodeFindings
  <2> QED
    BY <2>1, SingleAmong DEF Finding
<1>3. CASE mbr.boot = "AllOnes"
  <2>1. BootCodeFindings = << Finding("ErasedBootCode", 0) >>
    BY <1>3 DEF BootCodeFindings
  <2> QED
    BY <2>1, SingleAmong DEF Finding
<1>4. CASE mbr.boot = "Unknown"
  <2> DEFINE u == << Finding("UnknownBootCode", 0) >>
             w == When(mbr.dense, Finding("HighEntropySlack", 0))
  <2>1. BootCodeFindings = u \o w
    BY <1>4 DEF BootCodeFindings
  <2>2. Proper(u) /\ \A f : Among(f, u) <=> f = Finding("UnknownBootCode", 0)
    BY SingleAmong
  <2>3. Proper(w) /\ \A f : Among(f, w) => f = Finding("HighEntropySlack", 0)
    BY <1>1, WhenAmong
  <2> HIDE DEF u, w
  <2> QED
    BY <2>1, <2>2, <2>3, ConcatAmong DEF Finding
<1>5. CASE mbr.boot \notin {"AllZeros", "AllOnes", "Unknown"}
  <2>1. BootCodeFindings = <<>>
    BY <1>5 DEF BootCodeFindings
  <2> QED
    BY <2>1, NoneAmong
<1> QED
  BY <1>2, <1>3, <1>4, <1>5

\* The findings of check_gpt.
LEMMA GptStageFindings ==
  ASSUME image \in Images, gpt_header \in BOOLEAN, stage = "gpt"
  PROVE  Proper(GptFindings) /\ \A f : Among(f, GptFindings) => Attributed(f)
<1> DEFINE slots == Slots(mbr.entries, IsProtective)
           p == FirstSlot(slots)
           extra == ExtraEntries(mbr.entries)
           h == When(extra > 0, Finding("HybridMbr", extra))
           w == When(Undersized(mbr.entries[p]), Finding("ProtectiveMbrUndersized", p))
<1>1. OnGptDisk => gpt_header /\ p # NoSlot /\ ~(extra > 0)
  <2> SUFFICES ASSUME OnGptDisk PROVE gpt_header /\ p # NoSlot /\ ~(extra > 0)
    OBVIOUS
  <2>1. PICK k \in 1..4 : /\ NonEmptySlots(mbr.entries) = {k}
                          /\ IsProtective(mbr.entries[k])
    BY ImageTypes DEF OnGptDisk, IsPureProtective
  <2>2. slots = {k}
    BY <2>1, ImageTypes DEF Slots, NonEmptySlots, IsProtective, IsEmpty
  <2>3. Slots(mbr.entries, LAMBDA e : ~IsEmpty(e) /\ ~IsProtective(e)) = {}
    BY <2>1, ImageTypes DEF Slots, NonEmptySlots
  <2>4. extra = 0
    BY <2>3, FS_EmptySet, Zenon DEF ExtraEntries
  <2>5. Min(slots) = k
    BY <2>2 DEF Min
  <2> QED
    BY <2>2, <2>4, <2>5 DEF OnGptDisk, FirstSlot, NoSlot
<1> HIDE DEF slots, p, extra
<1>2. CASE p = NoSlot /\ gpt_header
  <2>1. GptFindings = << Finding("HiddenGpt", 1) >>
    BY <1>2 DEF GptFindings, p, slots
  <2> QED
    BY <1>1, <1>2, <2>1, SingleAmong
       DEF Finding, Attributed, ContentKinds, GptObjections, Traces
<1>3. CASE p = NoSlot /\ ~gpt_header
  <2>1. GptFindings = <<>>
    BY <1>3 DEF GptFindings, p, slots
  <2> QED
    BY <2>1, NoneAmong
<1>4. CASE p # NoSlot /\ ~gpt_header
  <2>1. GptFindings = << Finding("SpoofedProtectiveMbr", p) >>
    BY <1>4 DEF GptFindings, p, slots
  <2> QED
    BY <1>1, <1>4, <2>1, SingleAmong
       DEF Finding, Attributed, ContentKinds, GptObjections, Traces
<1>5. CASE p # NoSlot /\ gpt_header
  <2>1. GptFindings = h \o w
    BY <1>5 DEF GptFindings, p, slots, extra
  <2>2. Proper(h) /\ \A f : Among(f, h) <=> extra > 0 /\ f = Finding("HybridMbr", extra)
    <3>1. (extra > 0) \in BOOLEAN
      OBVIOUS
    <3> QED
      BY <3>1, WhenAmong, Zenon
  <2>3. Proper(w) /\ \A f : Among(f, w) => f = Finding("ProtectiveMbrUndersized", p)
    BY WhenAmong DEF Undersized
  <2> HIDE DEF h, w
  <2> QED
    BY <1>1, <2>1, <2>2, <2>3, ConcatAmong
       DEF Finding, Attributed, ContentKinds, GptObjections, Traces
<1> QED
  BY <1>2, <1>3, <1>4, <1>5

\* f is what is found in the content of the partition id that starts at l.
OfContent(f, id, l, family, r) ==
    \/ r.hidden \notin {NoBpb, 0, l} /\ f = Finding("VbrHiddenSectorsMismatch", id)
    \/ <<family, r.fs>> \in Conflicts /\ f = Finding("SignatureMismatch", id)

\* The findings about the content of a volume are the two of check_vbr and
\* detect_and_check_fs.
LEMMA ContentAmong ==
  ASSUME NEW a, Proper(a), NEW id, NEW l, NEW r, NEW family
  PROVE  LET fs == a \o ContentFindings(id, l, family, r) IN
         /\ Proper(fs)
         /\ \A f : Among(f, fs) <=> Among(f, a) \/ OfContent(f, id, l, family, r)
<1> DEFINE D == r.hidden \notin {NoBpb, 0, l}
           E == <<family, r.fs>> \in Conflicts
           d == When(D, Finding("VbrHiddenSectorsMismatch", id))
           g == When(E, Finding("SignatureMismatch", id))
<1>1. D \in BOOLEAN /\ E \in BOOLEAN
  OBVIOUS
<1>2. ContentFindings(id, l, family, r) = d \o g
  BY DEF ContentFindings
<1> HIDE DEF D, E
<1>3. Proper(d) /\ \A f : Among(f, d) <=> D /\ f = Finding("VbrHiddenSectorsMismatch", id)
  BY <1>1, WhenAmong, Zenon
<1>4. Proper(g) /\ \A f : Among(f, g) <=> E /\ f = Finding("SignatureMismatch", id)
  BY <1>1, WhenAmong, Zenon
<1> HIDE DEF d, g
<1>5. Proper(d \o g) /\ \A f : Among(f, d \o g) <=> Among(f, d) \/ Among(f, g)
  BY <1>3, <1>4, ConcatAmong, Zenon
<1>6. /\ Proper(a \o (d \o g))
      /\ \A f : Among(f, a \o (d \o g)) <=> Among(f, a) \/ Among(f, d \o g)
  BY <1>5, ConcatAmong, Zenon
<1> QED
  BY <1>2, <1>3, <1>4, <1>5, <1>6, Zenon DEF D, E, OfContent

\* The findings the scan may make of one entry.
LEMMA ScanFindings ==
  ASSUME NEW id, NEW e, NEW r
  PROVE  LET fs == EntryFindings(id, e, r) IN
         /\ Proper(fs)
         /\ \A f : Among(f, fs) <=>
              \/ e.status = "invalid" /\ f = Finding("InvalidPartitionStatus", id)
              \/ ChsContradicts(e) /\ f = Finding("ChsLbaInconsistency", id)
              \/ image.size > 0 /\ LbaEnd(e) > last_lba /\ f = Finding("OutOfBounds", id)
              \/ OfContent(f, id, e.lba_start, e.family, r)
<1> DEFINE A == e.status = "invalid"
           B == ChsContradicts(e)
           C == image.size > 0 /\ LbaEnd(e) > last_lba
           a == When(A, Finding("InvalidPartitionStatus", id))
           b == When(B, Finding("ChsLbaInconsistency", id))
           c == When(C, Finding("OutOfBounds", id))
           abc == (a \o b) \o c
<1>1. A \in BOOLEAN /\ B \in BOOLEAN /\ C \in BOOLEAN
  BY DEF ChsContradicts
<1>2. EntryFindings(id, e, r) = abc \o ContentFindings(id, e.lba_start, e.family, r)
  BY DEF EntryFindings
<1> HIDE DEF A, B, C
<1>3. Proper(a) /\ \A f : Among(f, a) <=> A /\ f = Finding("InvalidPartitionStatus", id)
  BY <1>1, WhenAmong, Zenon
<1>4. Proper(b) /\ \A f : Among(f, b) <=> B /\ f = Finding("ChsLbaInconsistency", id)
  BY <1>1, WhenAmong, Zenon
<1>5. Proper(c) /\ \A f : Among(f, c) <=> C /\ f = Finding("OutOfBounds", id)
  BY <1>1, WhenAmong, Zenon
<1> HIDE DEF a, b, c
<1>6. Proper(a \o b) /\ \A f : Among(f, a \o b) <=> Among(f, a) \/ Among(f, b)
  BY <1>3, <1>4, ConcatAmong, Zenon
<1>7. Proper(abc) /\ \A f : Among(f, abc) <=> Among(f, a \o b) \/ Among(f, c)
  BY <1>5, <1>6, ConcatAmong, Zenon
<1> HIDE DEF abc
<1>8. LET fs == EntryFindings(id, e, r) IN
      /\ Proper(fs)
      /\ \A f : Among(f, fs) <=> Among(f, abc) \/ OfContent(f, id, e.lba_start, e.family, r)
  <2> DEFINE l == e.lba_start
             family == e.family
             gs == abc \o ContentFindings(id, l, family, r)
  <2> HIDE DEF l, family
  <2>1. Proper(gs) /\ \A f : Among(f, gs) <=> Among(f, abc) \/ OfContent(f, id, l, family, r)
    BY <1>7, ContentAmong, Zenon
  <2> QED
    BY <1>2, <2>1 DEF l, family
<1> QED
  BY <1>3, <1>4, <1>5, <1>6, <1>7, <1>8, Zenon DEF A, B, C

\* The findings made of the sample of one gap: the fill of the whole sample,
\* and files that start in it.
LEMMA GapSampleFindings ==
  ASSUME NEW g, g.lba_start \in Nat, g.byte_size \in Nat
  PROVE  LET fs   == SampleFindings(g)
             base == LbaToByte(g.lba_start)
         IN  /\ Proper(fs)
             /\ \A f : Among(f, fs) =>
                  \/ f = Finding("WipedRegion", g.lba_start)
                  \/ \E o \in base..(base + SampleLen(g) - 1) : f = Finding("CarvedArtifact", o)
<1> DEFINE n == SampleLen(g)
           base == LbaToByte(g.lba_start)
           buf == Sample(g, n)
           carved == CarveFiles(buf, base)
           W == IsDeliberateWipe(Classify(buf, FALSE))
           w == When(W, Finding("WipedRegion", g.lba_start))
           c == [k \in 1..Len(carved) |-> Finding("CarvedArtifact", carved[k].offset)]
           H == [kind : STRING, offset : base..(base + n - 1)]
<1>1. n \in Nat /\ base \in Nat
  BY WidthAssumption, ByteType DEF SampleLen
<1>2. CASE n = 0 \/ ~CanSample(g, n)
  <2>1. SampleFindings(g) = <<>>
    BY <1>2 DEF SampleFindings
  <2> QED
    BY <2>1, NoneAmong
<1>3. CASE ~(n = 0 \/ ~CanSample(g, n))
  <2>1. SampleFindings(g) = w \o c
    BY <1>3 DEF SampleFindings
  <2>2. Len(buf) = n
    BY <1>1 DEF Sample
  <2>3. W \in BOOLEAN
    BY DEF IsDeliberateWipe
  <2> HIDE DEF buf, n, base, W
  <2>4. carved \in Seq(H)
    BY <1>1, <2>2, CarvedInside
  <2>5. Proper(w) /\ \A f : Among(f, w) => f = Finding("WipedRegion", g.lba_start)
    BY <2>3, WhenAmong
  <2>6. Len(carved) \in Nat
    BY <2>4
  <2>7. \A k \in 1..Len(carved) : carved[k].offset \in base..(base + n - 1)
    <3> TAKE k \in 1..Len(carved)
    <3> HIDE DEF H
    <3>1. carved[k] \in H
      BY <2>4
    <3> QED
      BY <3>1 DEF H
  <2> HIDE DEF carved
  <2>8. c = [k \in 1..Len(carved) |-> c[k]]
    OBVIOUS
  <2>9. \A k \in 1..Len(carved) : c[k] = Finding("CarvedArtifact", carved[k].offset)
    OBVIOUS
  <2> HIDE DEF c
  <2>10. Proper(c) /\ \A f : Among(f, c) <=> \E k \in 1..Len(carved) : f = c[k]
    BY <2>6, <2>8, EachAmong
  <2>11. \A f : Among(f, c) => \E o \in base..(base + n - 1) : f = Finding("CarvedArtifact", o)
    BY <2>7, <2>9, <2>10
  <2> HIDE DEF w
  <2>12. Proper(w \o c) /\ \A f : Among(f, w \o c) <=> Among(f, w) \/ Among(f, c)
    BY <2>5, <2>10, ConcatAmong
  <2> QED
    BY <2>1, <2>5, <2>11, <2>12 DEF base, n
<1> QED
  BY <1>2, <1>3

\* There are finitely many pairs of equal entries to report.
LEMMA PairsProper == Proper(DuplicatePairs(mbr.entries))
<1> DEFINE Same(a, b) == /\ ~IsEmpty(a) /\ ~IsEmpty(b)
                         /\ a.lba_start = b.lba_start
                         /\ a.lba_count = b.lba_count
           Pair(j, k) == IF Same(mbr.entries[j], mbr.entries[k]) THEN << <<j, k>> >> ELSE <<>>
<1>1. \A j, k \in 1..4 : Pair(j, k) \in Seq(Nat \X Nat)
  <2> TAKE j, k \in 1..4
  <2> DEFINE x == <<j, k>>
             P == Nat \X Nat
  <2>1. x \in P
    OBVIOUS
  <2>2. Pair(j, k) = <<x>> \/ Pair(j, k) = <<>>
    OBVIOUS
  <2> HIDE DEF x, P, Pair
  <2>3. <<x>> \in Seq(P) /\ <<>> \in Seq(P)
    BY <2>1
  <2>4. Pair(j, k) \in Seq(P)
    BY <2>2, <2>3
  <2> QED
    BY <2>4 DEF P
<1>2. DuplicatePairs(mbr.entries) =
        Pair(1, 2) \o Pair(1, 3) \o Pair(1, 4) \o Pair(2, 3) \o Pair(2, 4) \o Pair(3, 4)
  BY DEF DuplicatePairs
<1> HIDE DEF Pair
<1>3. DuplicatePairs(mbr.entries) \in Seq(Nat \X Nat)
  BY <1>1, <1>2
<1> QED
  BY <1>3, SeqProper

\* A finding of any other kind may be recorded by any stage.
LEMMA Unrestricted ==
  ASSUME NEW kind, NEW x,
         kind \notin ContentKinds \cup GptObjections \cup Traces \cup {"EmptyProtectiveBootCode"}
  PROVE  Attributed(Finding(kind, x))
BY DEF Attributed, Finding

\* Every step appends to the findings, and only what its stage may record.
LEMMA Recording ==
  ShareInv /\ CalleeInv /\ LeftInv /\ [Next]_vars =>
    \E fs : Appends(fs) /\ \A f : Among(f, fs) => Attributed(f)
<1> SUFFICES ASSUME ShareInv, CalleeInv, LeftInv, [Next]_vars
             PROVE  \E fs : Appends(fs) /\ \A f : Among(f, fs) => Attributed(f)
  OBVIOUS
<1>1. image \in Images /\ gpt_header \in BOOLEAN /\ Proper(findings) /\ i \in Nat \ {0}
  BY DEF ShareInv
<1>2. CASE UNCHANGED findings
  <2>1. findings = findings \o <<>>
    BY <1>1, ProperSeq
  <2> QED
    BY <1>2, <2>1, NoneAmong DEF Appends
<1>3. CASE CheckBootCode
  <2> DEFINE b == BootCodeFindings
             n == mbr.markers
             k == [m \in 1..n |-> Finding("KnownBootkit", m)]
  <2>1. n \in Nat
    BY <1>1, ImageTypes DEF MbrSector
  <2>2. findings' = findings \o (b \o k) /\ stage = "boot_code"
    BY <1>3 DEF CheckBootCode, TableCheck, Record
  <2>3. Proper(b) /\ \A f : Among(f, b) => Attributed(f)
    BY <1>1, <2>2, BootFindings
       DEF Finding, Attributed, ContentKinds, GptObjections, Traces
  <2>4. k = [m \in 1..n |-> k[m]] /\ \A m \in 1..n : k[m] = Finding("KnownBootkit", m)
    OBVIOUS
  <2> HIDE DEF b, k, n
  <2>5. Proper(k) /\ \A f : Among(f, k) <=> \E m \in 1..n : f = k[m]
    BY <2>1, <2>4, EachAmong
  <2>6. \A f : Among(f, k) => Attributed(f)
    BY <2>4, <2>5 DEF Finding, Attributed, ContentKinds, GptObjections, Traces
  <2>7. Proper(b \o k) /\ \A f : Among(f, b \o k) <=> Among(f, b) \/ Among(f, k)
    BY <2>3, <2>5, ConcatAmong
  <2> QED
    BY <2>2, <2>3, <2>6, <2>7 DEF Appends
<1>4. CASE CheckDiskSignature
  <2> DEFINE C == mbr.boot \in {"WindowsVista", "Windows7Plus"} /\ mbr.serial = 0
  <2>1. findings' = findings \o When(C, Finding("ZeroDiskSignature", 0))
    BY <1>4 DEF CheckDiskSignature, TableCheck, Record
  <2>2. C \in BOOLEAN
    OBVIOUS
  <2> HIDE DEF C
  <2> QED
    BY <2>1, <2>2, WhenAmong
       DEF Appends, Finding, Attributed, ContentKinds, GptObjections, Traces
<1>5. CASE CheckReserved
  <2> DEFINE C == mbr.reserved # 0
  <2>1. findings' = findings \o When(C, Finding("NonZeroReserved", mbr.reserved))
    BY <1>5 DEF CheckReserved, TableCheck, Record
  <2>2. C \in BOOLEAN
    OBVIOUS
  <2> HIDE DEF C
  <2> QED
    BY <2>1, <2>2, WhenAmong
       DEF Appends, Finding, Attributed, ContentKinds, GptObjections, Traces
<1>6. CASE CheckBootableFlags
  <2> DEFINE bootable == Cardinality(Slots(mbr.entries, IsBootable))
             active   == Cardinality(NonEmptySlots(mbr.entries))
             C == bootable > 1
             D == active > 0 /\ bootable = 0
             c == When(C, Finding("MultipleBootable", bootable))
             d == When(D, Finding("NoBootablePartition", 0))
  <2>1. findings' = findings \o (c \o d)
    BY <1>6 DEF CheckBootableFlags, TableCheck, Record
  <2>2. C \in BOOLEAN /\ D \in BOOLEAN
    OBVIOUS
  <2> HIDE DEF C, D, bootable
  <2>3. Proper(c) /\ \A f : Among(f, c) => Attributed(f)
    BY <2>2, WhenAmong DEF Finding, Attributed, ContentKinds, GptObjections, Traces
  <2>4. Proper(d) /\ \A f : Among(f, d) => Attributed(f)
    BY <2>2, WhenAmong DEF Finding, Attributed, ContentKinds, GptObjections, Traces
  <2> HIDE DEF c, d
  <2> QED
    BY <2>1, <2>3, <2>4, ConcatAmong DEF Appends
<1>7. CASE CheckDuplicateEntries
  <2> DEFINE pairs == DuplicatePairs(mbr.entries)
             n == Len(pairs)
             k == [m \in 1..n |-> Finding("DuplicatePartitionEntry", pairs[m])]
  <2>1. n \in Nat
    BY PairsProper DEF Proper
  <2>2. findings' = findings \o k
    BY <1>7 DEF CheckDuplicateEntries, TableCheck, Record
  <2> HIDE DEF pairs, n
  <2>3. /\ k = [m \in 1..n |-> k[m]]
        /\ \A m \in 1..n : k[m] = Finding("DuplicatePartitionEntry", pairs[m])
    OBVIOUS
  <2> HIDE DEF k
  <2>4. Proper(k) /\ \A f : Among(f, k) <=> \E m \in 1..n : f = k[m]
    BY <2>1, <2>3, EachAmong
  <2>5. \A m \in 1..n : Attributed(k[m])
    BY <2>3, Unrestricted DEF ContentKinds, GptObjections, Traces
  <2> QED
    BY <2>2, <2>4, <2>5 DEF Appends
<1>8. CASE CheckGpt
  <2>1. findings' = findings \o GptFindings /\ stage = "gpt"
    BY <1>8 DEF CheckGpt, TableCheck, Record
  <2> QED
    BY <1>1, <2>1, GptStageFindings DEF Appends
<1>9. CASE ScanResidual
  <2> DEFINE x == Finding("ResidualEntry", i - 1)
  <2>1. findings' = findings \o <<x>>
    BY <1>9 DEF ScanResidual, Record
  <2>2. Attributed(x)
    BY Unrestricted DEF ContentKinds, GptObjections, Traces
  <2> HIDE DEF x
  <2>3. Proper(<<x>>) /\ \A f : Among(f, <<x>>) => Attributed(f)
    BY <2>2, SingleAmong
  <2> QED
    BY <2>1, <2>3 DEF Appends
<1>10. CASE ScanEntry
  <2> DEFINE e == mbr.entries[i]
  <2>1. PICK r : findings' = findings \o EntryFindings(i - 1, e, r)
    BY <1>10 DEF ScanEntry, Record
  <2> HIDE DEF e
  <2> DEFINE fs == EntryFindings(i - 1, e, r)
  <2>3. /\ Proper(fs)
        /\ \A f : Among(f, fs) =>
             \/ \E kind \in {"InvalidPartitionStatus", "ChsLbaInconsistency", "OutOfBounds"} :
                  f = Finding(kind, i - 1)
             \/ OfContent(f, i - 1, e.lba_start, e.family, r)
    BY ScanFindings, Zenon
  <2>4. \A kind \in {"InvalidPartitionStatus", "ChsLbaInconsistency", "OutOfBounds"} :
          Attributed(Finding(kind, i - 1))
    BY Unrestricted DEF ContentKinds, GptObjections, Traces
  <2>5. \A f : OfContent(f, i - 1, e.lba_start, e.family, r) => Attributed(f)
    BY <1>10 DEF OfContent, Finding, Attributed, ContentKinds, GptObjections, Traces
  <2> HIDE DEF fs
  <2>6. \A f : Among(f, fs) => Attributed(f)
    BY <2>3, <2>4, <2>5
  <2> QED
    BY <2>1, <2>3, <2>6 DEF Appends, fs
<1>11. CASE WalkReturns
  <2> DEFINE c == When(had_cycle, Finding("EbrCycle", 0))
             d == When(depth_exceeded, Finding("EbrExcessiveDepth", Len(ebr_entries)))
  <2>1. findings' = findings \o (c \o d)
    BY <1>11 DEF WalkReturns, Record
  <2>2. had_cycle \in BOOLEAN /\ depth_exceeded \in BOOLEAN
    BY <1>11 DEF WalkReturns, CalleeInv, EP!WalkInv, EP!TypeOK
  <2>3. Proper(c) /\ \A f : Among(f, c) => Attributed(f)
    BY <2>2, WhenAmong DEF Finding, Attributed, ContentKinds, GptObjections, Traces
  <2>4. Proper(d) /\ \A f : Among(f, d) => Attributed(f)
    BY <2>2, WhenAmong DEF Finding, Attributed, ContentKinds, GptObjections, Traces
  <2> HIDE DEF c, d
  <2> QED
    BY <2>1, <2>3, <2>4, ConcatAmong DEF Appends
<1>12. CASE AddLogical
  <2> DEFINE e == ebr_entries[i]
             l == e.logical_lba_start
             family == e.logical.family
             a == SlackFindings(e)
  <2>1. PICK r : findings' = findings \o (a \o ContentFindings(LogicalIndex, l, family, r))
    BY <1>12 DEF AddLogical, Record
  <2>2. stage = "logicals" /\ i \in 1..Len(ebr_entries)
    BY <1>1, <1>12 DEF AddLogical, CalleeInv
  <2>3. e.has_slack \in BOOLEAN
    BY <2>2 DEF CalleeInv, Logical, EbrWalk!EbrEntry
  <2>4. Proper(a) /\ \A f : Among(f, a) => Attributed(f)
    <3> DEFINE F == Finding("EbrSlackData", [ebr_lba |-> e.ebr_lba,
                                             dense |-> e.ebr_lba \in image.dense])
    <3>1. a = When(e.has_slack, F)
      BY DEF SlackFindings
    <3>2. Attributed(F)
      BY Unrestricted DEF ContentKinds, GptObjections, Traces
    <3> HIDE DEF F, e, a
    <3> QED
      BY <2>3, <3>1, <3>2, WhenAmong
  <2> HIDE DEF e, l, family, a
  <2> DEFINE fs == a \o ContentFindings(LogicalIndex, l, family, r)
  <2>5. /\ Proper(fs)
        /\ \A f : Among(f, fs) => Among(f, a) \/ OfContent(f, LogicalIndex, l, family, r)
    BY <2>4, ContentAmong, Zenon
  <2>6. \A f : OfContent(f, LogicalIndex, l, family, r) => Attributed(f)
    BY <1>12 DEF OfContent, Finding, Attributed, ContentKinds, GptObjections, Traces
  <2>7. Appends(fs)
    BY <2>1, <2>5 DEF Appends
  <2> HIDE DEF fs
  <2>8. \A f : Among(f, fs) => Attributed(f)
    BY <2>4, <2>5, <2>6
  <2> QED
    BY <2>7, <2>8
<1>13. CASE OverlapsChecked
  <2> DEFINE n == Len(overlaps)
             k == [m \in 1..n |-> Finding("OverlappingPartitions", overlaps[m])]
  <2>1. n \in Nat
    BY <1>13 DEF OverlapsChecked, CalleeInv, OP!SweepInv, OP!TypeOK
  <2>2. findings' = findings \o k
    BY <1>13 DEF OverlapsChecked, Record
  <2> HIDE DEF n
  <2>3. /\ k = [m \in 1..n |-> k[m]]
        /\ \A m \in 1..n : k[m] = Finding("OverlappingPartitions", overlaps[m])
    OBVIOUS
  <2> HIDE DEF k
  <2>4. Proper(k) /\ \A f : Among(f, k) <=> \E m \in 1..n : f = k[m]
    BY <2>1, <2>3, EachAmong
  <2>5. \A m \in 1..n : Attributed(k[m])
    BY <2>3, Unrestricted DEF ContentKinds, GptObjections, Traces
  <2> QED
    BY <2>2, <2>4, <2>5 DEF Appends
<1>14. CASE GapsChecked
  <2> DEFINE n == Len(gaps)
             k == [m \in 1..n |-> Finding(GapAnomalyKind(gaps[m]), gaps[m])]
  <2>1. gaps \in Seq(GP!Gap)
    BY <1>14 DEF GapsChecked, CalleeInv, GP!GapInv, GP!TypeOK
  <2>2. n \in Nat /\ \A m \in 1..n : gaps[m] \in GP!Gap
    BY <2>1
  <2>3. \A m \in 1..n : GapAnomalyKind(gaps[m])
                          \in {"PrePartitionSpace", "InterPartitionGap", "PostPartitionSpace"}
    BY <2>2 DEF GP!Gap, GapAnomalyKind
  <2>4. findings' = findings \o k
    BY <1>14 DEF GapsChecked, Record
  <2> HIDE DEF n
  <2>5. /\ k = [m \in 1..n |-> k[m]]
        /\ \A m \in 1..n : k[m] = Finding(GapAnomalyKind(gaps[m]), gaps[m])
    OBVIOUS
  <2> HIDE DEF k
  <2>6. Proper(k) /\ \A f : Among(f, k) <=> \E m \in 1..n : f = k[m]
    BY <2>2, <2>5, EachAmong
  <2>7. \A m \in 1..n : Attributed(k[m])
    BY <2>3, <2>5, Unrestricted DEF ContentKinds, GptObjections, Traces, n
  <2> QED
    BY <2>4, <2>6, <2>7 DEF Appends
<1>15. CASE SampleGap
  <2> DEFINE g == gaps[i]
  <2>1. findings' = findings \o SampleFindings(g) /\ stage = "content" /\ i \in 1..Len(gaps)
    BY <1>1, <1>15 DEF SampleGap, Record, LeftInv, Gapped
  <2>2. g.lba_start \in Nat /\ g.byte_size \in Nat
    <3>1. gaps \in Seq(GapSweep!Gap)
      BY <2>1 DEF LeftInv, Gapped
    <3>2. g \in GapSweep!Gap
      BY <2>1, <3>1
    <3> QED
      BY <3>2, WidthAssumption DEF GapSweep!Gap
  <2> HIDE DEF g
  <2>3. /\ Proper(SampleFindings(g))
        /\ \A f : Among(f, SampleFindings(g)) => Attributed(f)
    BY <1>15, <2>2, GapSampleFindings
       DEF Finding, Attributed, ContentKinds, GptObjections, Traces
  <2> QED
    BY <2>1, <2>3 DEF Appends
<1> QED
  BY <1>2, <1>3, <1>4, <1>5, <1>6, <1>7, <1>8, <1>9, <1>10, <1>11, <1>12, <1>13, <1>14, <1>15
     DEF Next, Step, Returned, vars, ReadMbrFails, ReadMbr, ScanEmpty, NoExtended, CallWalk,
         WalkStep, WalkFails, LogicalsDone, OverlapStep, GapStep, Return

\* Findings are never taken back, and the new ones belong to the stage.
LEMMA FindingsGrow ==
  ShareInv /\ CalleeInv /\ LeftInv /\ [Next]_vars =>
    /\ Proper(findings')
    /\ \A f : Among(f, findings) => Among(f, findings')
    /\ \A f : Among(f, findings') => Among(f, findings) \/ Attributed(f)
<1> SUFFICES ASSUME ShareInv, CalleeInv, LeftInv, [Next]_vars
             PROVE  /\ Proper(findings')
                    /\ \A f : Among(f, findings) => Among(f, findings')
                    /\ \A f : Among(f, findings') => Among(f, findings) \/ Attributed(f)
  OBVIOUS
<1>1. PICK fs : Appends(fs) /\ \A f : Among(f, fs) => Attributed(f)
  BY Recording
<1>2. Proper(findings) /\ Proper(fs) /\ findings' = findings \o fs
  BY <1>1 DEF ShareInv, Appends
<1>3. /\ Proper(findings \o fs)
      /\ \A f : Among(f, findings \o fs) <=> Among(f, findings) \/ Among(f, fs)
  BY <1>2, ConcatAmong
<1> QED
  BY <1>1, <1>2, <1>3

\* Found and FoundAbout in terms of the elements.
LEMMA FoundAmong ==
  /\ \A kind : Found(kind) <=> \E f : Among(f, findings) /\ f.kind = kind
  /\ \A kind, id : FoundAbout(kind, id) <=>
       \E f : Among(f, findings) /\ f.kind = kind /\ f.about = id
BY DEF Found, FoundAbout, Among

-----------------------------------------------------------------------------
(* What a step leaves alone. *)

\* Which actions write what the stages share; all others leave it alone.
LEMMA Frame ==
  [Next]_vars =>
    /\ image' = image
    /\ ReadMbr \/ UNCHANGED <<gpt_header, last_lba>>
    /\ ScanEntry \/ AddLogical \/ UNCHANGED <<extents, overlap_extents, summaries>>
    /\ WalkStep \/ WalkFails \/ UNCHANGED ebr_entries
    /\ GapStep \/ UNCHANGED gaps
<1> SUFFICES ASSUME [Next]_vars
             PROVE  /\ image' = image
                    /\ ReadMbr \/ UNCHANGED <<gpt_header, last_lba>>
                    /\ ScanEntry \/ AddLogical
                          \/ UNCHANGED <<extents, overlap_extents, summaries>>
                    /\ WalkStep \/ WalkFails \/ UNCHANGED ebr_entries
                    /\ GapStep \/ UNCHANGED gaps
  OBVIOUS
<1> USE DEF scan, walk, sweeps, answer
<1>1. CASE UNCHANGED vars
  BY <1>1 DEF vars
<1>2. CASE ReadMbrFails \/ ReadMbr
  BY <1>2 DEF ReadMbrFails, ReadMbr
<1>3. CASE CheckBootCode \/ CheckDiskSignature \/ CheckReserved
  BY <1>3 DEF CheckBootCode, CheckDiskSignature, CheckReserved, TableCheck
<1>4. CASE CheckBootableFlags \/ CheckDuplicateEntries \/ CheckGpt
  BY <1>4 DEF CheckBootableFlags, CheckDuplicateEntries, CheckGpt, TableCheck
<1>5. CASE ScanResidual \/ ScanEmpty \/ ScanEntry
  BY <1>5 DEF ScanResidual, ScanEmpty, ScanEntry, ScanStep
<1>6. CASE NoExtended \/ CallWalk \/ WalkStep \/ WalkFails \/ WalkReturns
  BY <1>6 DEF NoExtended, CallWalk, WalkStep, WalkFails, WalkReturns
<1>7. CASE AddLogical \/ LogicalsDone
  BY <1>7 DEF AddLogical, LogicalsDone
<1>8. CASE OverlapStep
  BY <1>8 DEF OverlapStep, Overlap!Step, Overlap!SortExtents, Overlap!RecordOverlap,
              Overlap!NextWindow, Overlap!SweepDone
<1>9. CASE GapStep
  BY <1>9 DEF GapStep, GapSweep!Step, GapSweep!SkipUnknownSize, GapSweep!SortExtents,
              GapSweep!SkipRepeated, GapSweep!SweepExtent, GapSweep!SweepTail
<1>10. CASE OverlapsChecked \/ GapsChecked \/ SampleGap \/ Return
  BY <1>10 DEF OverlapsChecked, GapsChecked, SampleGap, Return
<1> QED
  BY <1>1, <1>2, <1>3, <1>4, <1>5, <1>6, <1>7, <1>8, <1>9, <1>10 DEF Next, Step, Returned

\* What may happen while a callee runs.
LEMMA CalleeActions ==
  [Next]_vars =>
    /\ stage' = "walk" => CallWalk \/ (stage = "walk" /\ (WalkStep \/ UNCHANGED vars))
    /\ stage' = "overlaps" => \/ NoExtended \/ WalkFails \/ LogicalsDone \/ OverlapStep
                              \/ stage = "overlaps" /\ UNCHANGED vars
    /\ stage' = "gaps" => \/ OverlapsChecked \/ GapStep
                          \/ stage = "gaps" /\ UNCHANGED vars
<1> SUFFICES ASSUME [Next]_vars PROVE CalleeActions!2
  OBVIOUS
<1> USE DEF Enter
<1>1. CASE UNCHANGED vars
  BY <1>1 DEF vars
<1>2. CASE ReadMbrFails \/ ReadMbr
  BY <1>2 DEF ReadMbrFails, ReadMbr
<1>3. CASE CheckBootCode \/ CheckDiskSignature \/ CheckReserved
  BY <1>3 DEF CheckBootCode, CheckDiskSignature, CheckReserved, TableCheck
<1>4. CASE CheckBootableFlags \/ CheckDuplicateEntries \/ CheckGpt
  BY <1>4 DEF CheckBootableFlags, CheckDuplicateEntries, CheckGpt, TableCheck
<1>5. CASE ScanResidual \/ ScanEmpty \/ ScanEntry
  BY <1>5 DEF ScanResidual, ScanEmpty, ScanEntry, ScanStep
<1>6. CASE WalkStep \/ WalkReturns
  BY <1>6 DEF WalkStep, WalkReturns
<1>7. CASE AddLogical \/ LogicalsDone
  BY <1>7 DEF AddLogical, LogicalsDone
<1>8. CASE OverlapStep \/ GapStep
  BY <1>8 DEF OverlapStep, GapStep
<1>9. CASE OverlapsChecked \/ GapsChecked \/ SampleGap \/ Return
  BY <1>9 DEF OverlapsChecked, GapsChecked, SampleGap, Return
<1>10. CASE NoExtended \/ CallWalk \/ WalkFails
  BY <1>10 DEF NoExtended, CallWalk, WalkFails
<1> HIDE DEF Enter
<1> QED
  BY <1>1, <1>2, <1>3, <1>4, <1>5, <1>6, <1>7, <1>8, <1>9, <1>10 DEF Next, Step, Returned

\* The order of the stages, and which action leads from one to the next.
LEMMA Order ==
  stage \in Stages /\ [Next]_vars =>
    /\ stage' \in Stages
    /\ stage' \in TableStages =>
         /\ stage \in TableStages /\ UNCHANGED <<i, extents, overlap_extents, summaries>>
    /\ stage' = "failed" => stage = "failed" \/ ReadMbrFails
    /\ stage' = "scan" => \/ stage = "scan"
                          \/ stage = "gpt" /\ UNCHANGED <<i, extents, overlap_extents, summaries>>
    /\ stage' = "walk" => CallWalk \/ stage = "walk"
    /\ stage' = "logicals" => WalkReturns \/ stage = "logicals"
    /\ stage' = "overlaps" => \/ NoExtended \/ WalkFails \/ LogicalsDone
                              \/ stage = "overlaps"
    /\ stage' = "gaps" => OverlapsChecked \/ stage = "gaps"
    /\ stage' = "content" => GapsChecked \/ stage = "content"
    /\ stage' = "done" => stage \in {"content", "done"}
    /\ stage \in {"read_mbr", "failed"} <=> stage' \in {"read_mbr", "failed"} \/ ReadMbr
<1> SUFFICES ASSUME stage \in Stages, [Next]_vars
             PROVE  Order!2
  OBVIOUS
<1> USE DEF scan, Stages, TableStages, Scanned, Enter
<1>1. CASE UNCHANGED vars
  BY <1>1 DEF vars, ReadMbr
<1>2. CASE ReadMbrFails \/ ReadMbr
  BY <1>2 DEF ReadMbrFails, ReadMbr
<1>3. CASE CheckBootCode \/ CheckDiskSignature \/ CheckReserved
  BY <1>3 DEF CheckBootCode, CheckDiskSignature, CheckReserved, TableCheck, ReadMbr
<1>4. CASE CheckBootableFlags \/ CheckDuplicateEntries \/ CheckGpt
  BY <1>4 DEF CheckBootableFlags, CheckDuplicateEntries, CheckGpt, TableCheck, ReadMbr
<1>5. CASE ScanResidual \/ ScanEmpty \/ ScanEntry
  BY <1>5 DEF ScanResidual, ScanEmpty, ScanEntry, ScanStep, ReadMbr
<1>6. CASE NoExtended \/ CallWalk \/ WalkStep \/ WalkFails \/ WalkReturns
  BY <1>6 DEF NoExtended, CallWalk, WalkStep, WalkFails, WalkReturns, ReadMbr
<1>7. CASE AddLogical \/ LogicalsDone
  BY <1>7 DEF AddLogical, LogicalsDone, ReadMbr
<1>8. CASE OverlapStep \/ GapStep
  BY <1>8 DEF OverlapStep, GapStep, ReadMbr
<1>9. CASE OverlapsChecked \/ GapsChecked \/ SampleGap \/ Return
  BY <1>9 DEF OverlapsChecked, GapsChecked, SampleGap, Return, ReadMbr
<1> HIDE DEF scan, Stages, TableStages, Scanned, Enter
<1> QED
  BY <1>1, <1>2, <1>3, <1>4, <1>5, <1>6, <1>7, <1>8, <1>9 DEF Next, Step, Returned

-----------------------------------------------------------------------------
(* Each part is kept by every step, given the parts it rests on. *)

\* Every step keeps the types of what the stages share.
LEMMA ShareStep ==
  ShareInv /\ CalleeInv /\ LeftInv /\ [Next]_vars => ShareInv'
<1> SUFFICES ASSUME ShareInv, CalleeInv, LeftInv, [Next]_vars
             PROVE  ShareInv'
  OBVIOUS
<1>1. image' = image /\ image \in Images /\ stage \in Stages /\ stage' \in Stages
  BY Frame, Order DEF ShareInv
<1>2. gpt_header' \in BOOLEAN
  <2>1. CASE ReadMbr
    <3>1. (image.lba1 \in {"gpt", "bad_gpt"}) \in BOOLEAN
      OBVIOUS
    <3> QED
      BY <2>1, <3>1, Zenon DEF ReadMbr
  <2>2. CASE UNCHANGED gpt_header
    BY <2>2 DEF ShareInv
  <2> QED
    BY <2>1, <2>2, Frame
<1>3. last_lba' = IF stage' \in {"read_mbr", "failed"} THEN 0
                  ELSE GapSweep!DiskLastLba(image'.size)
  <2>1. CASE ReadMbr
    BY <1>1, <2>1 DEF ReadMbr
  <2>2. CASE ~ReadMbr
    <3>1. last_lba' = last_lba
      BY <2>2, Frame
    <3>2. stage' \in {"read_mbr", "failed"} <=> stage \in {"read_mbr", "failed"}
      BY <2>2, <1>1, Order
    <3> QED
      BY <1>1, <3>1, <3>2 DEF ShareInv
  <2> QED
    BY <2>1, <2>2
<1>4. Proper(findings')
  BY FindingsGrow
<1>5. i' \in Nat \ {0}
  <2> USE DEF ShareInv
  <2>1. CASE UNCHANGED i
    BY <2>1
  <2>2. CASE ScanResidual \/ ScanEmpty \/ ScanEntry \/ AddLogical \/ SampleGap
    BY <2>2 DEF ScanResidual, ScanEmpty, ScanEntry, ScanStep, AddLogical, SampleGap
  <2>3. CASE OverlapStep
    BY <2>3 DEF OverlapStep, Overlap!Step, Overlap!SortExtents, Overlap!RecordOverlap,
                Overlap!NextWindow, Overlap!SweepDone
  <2>4. CASE GapStep
    BY <2>4 DEF GapStep, GapSweep!Step, GapSweep!SkipUnknownSize, GapSweep!SortExtents,
                GapSweep!SkipRepeated, GapSweep!SweepExtent, GapSweep!SweepTail
  <2>5. CASE \/ NoExtended \/ CallWalk \/ WalkFails \/ WalkReturns \/ LogicalsDone
             \/ OverlapsChecked \/ GapsChecked
    BY <2>5 DEF NoExtended, CallWalk, WalkFails, WalkReturns, LogicalsDone,
                OverlapsChecked, GapsChecked, Enter
  <2> QED
    BY <2>1, <2>2, <2>3, <2>4, <2>5
       DEF Next, Step, Returned, vars, ReadMbrFails, ReadMbr, CheckBootCode,
           CheckDiskSignature, CheckReserved, CheckBootableFlags, CheckDuplicateEntries,
           CheckGpt, TableCheck, WalkStep, Return
<1>6. era' \in {"Modern", "LegacyCylinder", "Unknown"}
  <2>1. CASE Return
    <3>1. era' = InferEra(mbr.entries, mbr.boot)
      BY <2>1 DEF Return
    <3> QED
      BY <3>1 DEF InferEra, EraOfBootCode
  <2>2. CASE ~Return
    <3>1. era' = era
      BY <2>2 DEF Next, Step, Returned, vars, ReadMbrFails, ReadMbr, CheckBootCode,
           CheckDiskSignature, CheckReserved, CheckBootableFlags, CheckDuplicateEntries,
           CheckGpt, TableCheck, WalkStep, answer, ScanResidual, ScanEmpty, ScanEntry,
           ScanStep, NoExtended, CallWalk, WalkFails, WalkReturns, AddLogical, LogicalsDone,
           OverlapStep, OverlapsChecked, GapStep, GapsChecked, SampleGap
    <3> QED
      BY <3>1 DEF ShareInv
  <2> QED
    BY <2>1, <2>2
<1> QED
  BY <1>1, <1>2, <1>3, <1>4, <1>5, <1>6 DEF ShareInv, GapSweep!DiskLastLba, Proper

\* No stage writes what a later one relies on finding untouched.
LEMMA FreshStep ==
  ShareInv /\ FreshInv /\ [Next]_vars => FreshInv'
<1> SUFFICES ASSUME ShareInv, FreshInv, [Next]_vars
             PROVE  FreshInv'
  OBVIOUS
<1> USE DEF ShareInv, FreshInv, Stages, TableStages, Scanned, Swept, walk, scan, sweeps, Enter
<1>1. CASE UNCHANGED vars
  BY <1>1 DEF vars
<1>2. CASE ReadMbrFails \/ ReadMbr
  BY <1>2 DEF ReadMbrFails, ReadMbr
<1>3. CASE CheckBootCode \/ CheckDiskSignature \/ CheckReserved
  BY <1>3 DEF CheckBootCode, CheckDiskSignature, CheckReserved, TableCheck
<1>4. CASE CheckBootableFlags \/ CheckDuplicateEntries \/ CheckGpt
  BY <1>4 DEF CheckBootableFlags, CheckDuplicateEntries, CheckGpt, TableCheck
<1>5. CASE ScanResidual \/ ScanEmpty \/ ScanEntry
  <2>1. ScanStep
    BY <1>5 DEF ScanResidual, ScanEmpty, ScanEntry
  <2>2. stage = "scan" /\ stage' = "scan" /\ i <= 4 /\ i' = i + 1 /\ UNCHANGED <<walk, sweeps>>
    BY <2>1, ImageTypes DEF ScanStep
  <2> QED
    BY <2>2
<1>6. CASE NoExtended \/ CallWalk \/ WalkFails \/ WalkReturns \/ AddLogical \/ LogicalsDone
  BY <1>6 DEF NoExtended, CallWalk, WalkFails, WalkReturns, AddLogical, LogicalsDone
<1>7. CASE WalkStep
  BY <1>7 DEF WalkStep
<1>8. CASE OverlapStep
  BY <1>8 DEF OverlapStep
<1>9. CASE GapStep
  BY <1>9 DEF GapStep
<1>10. CASE OverlapsChecked \/ GapsChecked \/ SampleGap \/ Return
  BY <1>10 DEF OverlapsChecked, GapsChecked, SampleGap, Return
<1> HIDE DEF ShareInv, FreshInv, Stages, TableStages, Scanned, Swept, walk, scan, sweeps, Enter
<1> QED
  BY <1>1, <1>2, <1>3, <1>4, <1>5, <1>6, <1>7, <1>8, <1>9, <1>10 DEF Next, Step, Returned

-----------------------------------------------------------------------------
(* The callees: their proofs hold at the pipeline's variables. *)

\* The assumptions of the callees hold for the constants they are given here.
LEMMA CalleeAssumptions ==
  /\ EP!BoundsAssumption /\ EP!LogicalsAssumption /\ EP!MediaAssumption
  /\ OP!LayoutsAssumption
  /\ GP!GeometryAssumption /\ GP!LayoutsAssumption
<1>1. EP!BoundsAssumption
  BY WidthAssumption, U32Assumption DEF EP!BoundsAssumption
<1>2. EP!LogicalsAssumption
  BY DEF EP!LogicalsAssumption, PartitionEntry
<1>3. EP!MediaAssumption
  BY DEF EP!MediaAssumption, EP!Lba, EP!Sector, EbrSector
<1>4. OP!LayoutsAssumption
  BY DEF OP!LayoutsAssumption, OP!Extent, Overlap!Extent
<1>5. GP!GeometryAssumption
  BY WidthAssumption DEF GP!GeometryAssumption
<1>6. GP!LayoutsAssumption
  BY DEF GP!LayoutsAssumption, GP!Extent, GapSweep!Extent
<1> QED
  BY <1>1, <1>2, <1>3, <1>4, <1>5, <1>6

\* The invariants hold when the callees are entered ...
LEMMA CalleeStart ==
  /\ EP!Init => EP!WalkInv
  /\ OP!Init => OP!SweepInv
  /\ GP!Init => GP!GapInv
<1>1. EP!Init => EP!WalkInv
  BY CalleeAssumptions, EP!WalkInit
<1>2. OP!Init => OP!SweepInv
  BY CalleeAssumptions, OP!SweepInit
<1>3. GP!Init => GP!GapInv
  BY CalleeAssumptions, GP!InitInv
<1> QED
  BY <1>1, <1>2, <1>3

\* ... and their steps keep them.
LEMMA WalkKeeps ==
  EP!WalkInv /\ EbrWalk!Step /\ UNCHANGED image => EP!WalkInv'
<1> SUFFICES ASSUME EP!WalkInv, EbrWalk!Step, UNCHANGED image
             PROVE  EP!WalkInv'
  OBVIOUS
<1>1. EP!Step
  BY DEF EbrWalk!Step, EbrWalk!DepthLimit, EbrWalk!CycleFound, EbrWalk!OffsetOverflow,
         EbrWalk!SeekFails, EbrWalk!SeekTo, EbrWalk!ReadFails, EbrWalk!NoSignature,
         EbrWalk!EndOfChain, EbrWalk!LinkOverflow, EbrWalk!FollowLink, EbrWalk!Break,
         EbrWalk!Visit, EbrWalk!Push, EbrWalk!ParseEntry, EbrWalk!SaturatingAdd,
         EbrWalk!AddOverflows, EbrWalk!MulOverflows,
         EP!Step, EP!DepthLimit, EP!CycleFound, EP!OffsetOverflow, EP!SeekFails, EP!SeekTo,
         EP!ReadFails, EP!NoSignature, EP!EndOfChain, EP!LinkOverflow, EP!FollowLink,
         EP!Break, EP!Visit, EP!Push, EP!ParseEntry, EP!SaturatingAdd, EP!AddOverflows,
         EP!MulOverflows
<1>2. EP!WalkInv /\ [EP!Next]_(EP!vars) => EP!WalkInv'
  BY CalleeAssumptions, EP!WalkInvStep
<1> QED
  BY <1>1, <1>2 DEF EP!Next

\* The two instances of the sweep sort with one and the same operator.
LEMMA OverlapSorts ==
  ASSUME NEW s PROVE OP!SortByStart(s) = Overlap!SortByStart(s)
<1>1. \A keys, k : OP!Preceding(keys, k) = Overlap!Preceding(keys, k)
  BY SMT DEF OP!Preceding, Overlap!Preceding, OP!Before, Overlap!Before
<1>2. \A S : OP!Cardinality(S) = Overlap!Cardinality(S)
  BY DEF OP!Cardinality, Overlap!Cardinality
<1>3. \A keys, k : OP!Rank(keys, k) = Overlap!Rank(keys, k)
  BY <1>1, <1>2, Zenon DEF OP!Rank, Overlap!Rank
<1>4. ASSUME NEW keys PROVE OP!SortPerm(keys) = Overlap!SortPerm(keys)
  <2>1. \A k : (CHOOSE j \in 1..Len(keys) : OP!Rank(keys, j) = k)
               = (CHOOSE j \in 1..Len(keys) : Overlap!Rank(keys, j) = k)
    BY <1>3
  <2> QED
    BY <2>1, SMT DEF OP!SortPerm, Overlap!SortPerm
<1> QED
  BY <1>4, Zenon DEF OP!SortByStart, Overlap!SortByStart

\* A step of the overlap sweep keeps the invariant of the sweep.
LEMMA OverlapKeeps ==
  OP!SweepInv /\ Overlap!Step => OP!SweepInv'
<1> SUFFICES ASSUME OP!SweepInv, Overlap!Step
             PROVE  OP!SweepInv'
  OBVIOUS
<1>1. OP!Step
  <2>1. CASE Overlap!SortExtents
    <3>1. OP!SortByStart(overlap_extents) = Overlap!SortByStart(overlap_extents)
      BY OverlapSorts
    <3> QED
      BY <2>1, <3>1 DEF Overlap!SortExtents, OP!SortExtents, OP!Step
  <2> QED
    BY <2>1 DEF Overlap!Step, Overlap!RecordOverlap, Overlap!NextWindow, Overlap!SweepDone,
                Overlap!Window, Overlap!Clashes, Overlap!OverlappingPartitions,
                OP!Step, OP!RecordOverlap, OP!NextWindow, OP!SweepDone,
                OP!Window, OP!Clashes, OP!OverlappingPartitions
<1>2. OP!SweepInv /\ [OP!Next]_(OP!vars) => OP!SweepInv'
  BY CalleeAssumptions, OP!SweepInvStep
<1> QED
  BY <1>1, <1>2 DEF OP!Next

\* The same for the sort of the gap sweep.
LEMMA GapSorts ==
  ASSUME NEW s PROVE GP!SortByStart(s) = GapSweep!SortByStart(s)
<1>1. \A keys, k : GP!Preceding(keys, k) = GapSweep!Preceding(keys, k)
  BY SMT DEF GP!Preceding, GapSweep!Preceding, GP!Before, GapSweep!Before
<1>2. \A S : GP!Cardinality(S) = GapSweep!Cardinality(S)
  BY DEF GP!Cardinality, GapSweep!Cardinality
<1>3. \A keys, k : GP!Rank(keys, k) = GapSweep!Rank(keys, k)
  BY <1>1, <1>2, Zenon DEF GP!Rank, GapSweep!Rank
<1>4. ASSUME NEW keys PROVE GP!SortPerm(keys) = GapSweep!SortPerm(keys)
  <2>1. \A k : (CHOOSE j \in 1..Len(keys) : GP!Rank(keys, j) = k)
               = (CHOOSE j \in 1..Len(keys) : GapSweep!Rank(keys, j) = k)
    BY <1>3
  <2> QED
    BY <2>1, SMT DEF GP!SortPerm, GapSweep!SortPerm
<1> QED
  BY <1>4, Zenon DEF GP!SortByStart, GapSweep!SortByStart

\* A step of the gap sweep keeps the invariant of the sweep.
LEMMA GapKeeps ==
  GP!GapInv /\ GapSweep!Step => GP!GapInv'
<1> SUFFICES ASSUME GP!GapInv, GapSweep!Step
             PROVE  GP!GapInv'
  OBVIOUS
<1>1. GP!Step
  <2>1. CASE GapSweep!SortExtents
    <3>1. GP!SortByStart(extents) = GapSweep!SortByStart(extents)
      BY GapSorts
    <3> QED
      BY <2>1, <3>1 DEF GapSweep!SortExtents, GP!SortExtents, GP!Step
  <2> QED
    BY <2>1 DEF GapSweep!Step, GapSweep!SkipUnknownSize, GapSweep!SkipRepeated,
                GapSweep!SweepExtent, GapSweep!SweepTail, GapSweep!Repeats,
                GapSweep!KindAtCursor, GapSweep!CursorAfter, GapSweep!NewGap,
                GapSweep!ByteSize,
                GP!Step, GP!SkipUnknownSize, GP!SkipRepeated, GP!SweepExtent, GP!SweepTail,
                GP!Repeats, GP!KindAtCursor, GP!CursorAfter, GP!NewGap, GP!ByteSize
<1>2. GP!GapInv /\ [GP!Next]_(GP!vars) => GP!GapInv'
  BY CalleeAssumptions, GP!GapInvStep
<1> QED
  BY <1>1, <1>2 DEF GP!Next

\* The lowest of some slots.
LEMMA MinSlot ==
  ASSUME NEW S \in SUBSET (1..4), S # {}
  PROVE  Min(S) \in S /\ \A y \in S : Min(S) <= y
<1>1. \E x \in S : \A y \in S : x <= y
  <2>1. CASE 1 \in S
    BY <2>1
  <2>2. CASE 1 \notin S /\ 2 \in S
    BY <2>2
  <2>3. CASE 1 \notin S /\ 2 \notin S /\ 3 \in S
    BY <2>3
  <2>4. CASE 1 \notin S /\ 2 \notin S /\ 3 \notin S
    <3>1. \A y \in S : y = 4
      BY <2>4
    <3>2. 4 \in S
      BY <3>1
    <3> QED
      BY <3>1, <3>2
  <2> QED
    BY <2>1, <2>2, <2>3, <2>4
<1> QED
  BY <1>1 DEF Min

\* The extended entry the walk starts from is the first one.
LEMMA FirstExtended ==
  image \in Images =>
    /\ ExtendedSlot = NoSlot <=> \A k \in 1..4 : ~IsExtended(mbr.entries[k])
    /\ ExtendedSlot # NoSlot =>
         /\ ExtendedSlot \in 1..4
         /\ IsExtended(mbr.entries[ExtendedSlot])
         /\ \A k \in 1..4 : IsExtended(mbr.entries[k]) => ExtendedSlot <= k
<1> SUFFICES ASSUME image \in Images PROVE FirstExtended!2
  OBVIOUS
<1> DEFINE S == Slots(mbr.entries, IsExtended)
<1>1. S = { k \in 1..4 : IsExtended(mbr.entries[k]) }
  BY ImageTypes DEF Slots
<1>2. ExtendedSlot = IF S = {} THEN NoSlot ELSE Min(S)
  BY DEF ExtendedSlot, FirstSlot
<1> HIDE DEF S
<1>3. CASE S = {}
  BY <1>1, <1>2, <1>3
<1>4. CASE S # {}
  <2>1. Min(S) \in S /\ \A y \in S : Min(S) <= y
    BY <1>1, <1>4, MinSlot
  <2> QED
    BY <1>1, <1>2, <1>4, <2>1 DEF NoSlot
<1> QED
  BY <1>3, <1>4

\* What the walk's invariant says of the chain it hands over.
LEMMA ChainFacts ==
  image \in Images /\ EP!WalkInv /\ ext_start_lba \in 0..U32Max =>
    /\ ebr_entries \in Seq(Logical)
    /\ \A n \in 1..Len(ebr_entries) : Described(n)
    /\ sub = "failed" => \E l \in 0..(2 * U32Max) : AsEbr(l).io = "noseek"
<1> SUFFICES ASSUME image \in Images, EP!WalkInv, ext_start_lba \in 0..U32Max
             PROVE  ChainFacts!2
  OBVIOUS
<1> DEFINE disk == [l \in 0..U64Max |-> AsEbr(l)]
<1>1. disk \in [0..U64Max -> EbrSector]
  BY SectorTypes
<1>2. \A l \in 0..U64Max : disk[l] = AsEbr(l)
  OBVIOUS
<1>3. \A l \in 0..U64Max : /\ disk[l].next \in 0..U32Max
                            /\ disk[l].logical.lba_start \in 0..U32Max
  BY <1>1, EndTypes DEF EbrSector
<1>4. /\ ebr_entries \in Seq(EP!EbrEntry)
      /\ Len(ebr_entries) \in Nat
      /\ \A n \in 1..Len(ebr_entries) :
           /\ ebr_entries[n] \in EP!EbrEntry
           /\ ebr_entries[n].ebr_lba \in 0..U64Max
  <2>1. ebr_entries \in Seq(EP!EbrEntry)
    BY DEF EP!WalkInv, EP!TypeOK
  <2>2. Len(ebr_entries) \in Nat /\ \A n \in 1..Len(ebr_entries) : ebr_entries[n] \in EP!EbrEntry
    BY <2>1
  <2>3. \A e \in EP!EbrEntry : e.ebr_lba \in 0..U64Max
    BY DEF EP!EbrEntry, EP!Lba
  <2> QED
    BY <2>1, <2>2, <2>3
<1>5. ASSUME NEW n \in 1..Len(ebr_entries)
      PROVE  /\ Described(n)
             /\ ebr_entries[n].logical_lba_start <= 3 * U32Max
  <2> DEFINE e == ebr_entries[n]
             x == e.ebr_lba
  <2>1. e = EP!ParseEntry(x)
    BY <1>5 DEF EP!WalkInv, EP!PathInv
  <2>2. e.logical_lba_start = EP!SaturatingAdd(x, disk[x].logical.lba_start)
    <3>1. \A y : EP!ParseEntry(y).logical_lba_start
                 = EP!SaturatingAdd(y, disk[y].logical.lba_start)
      BY DEF EP!ParseEntry
    <3> HIDE DEF x, disk
    <3> QED
      BY <2>1, <3>1
  <2>3. x \in 0..(2 * U32Max)
    <3>1. CASE n = 1
      <4>1. x = ext_start_lba
        BY <1>5, <3>1 DEF EP!WalkInv, EP!PathInv
      <4> HIDE DEF x
      <4> QED
        BY <4>1, U32Assumption
    <3>2. CASE n > 1
      <4>1. n - 1 \in 1..Len(ebr_entries)
        BY <1>4, <3>2
      <4>2. x = ext_start_lba + disk[ebr_entries[n - 1].ebr_lba].next
        BY <1>5, <3>2 DEF EP!WalkInv, EP!PathInv
      <4>3. disk[ebr_entries[n - 1].ebr_lba].next \in 0..U32Max
        BY <1>3, <1>4, <4>1
      <4> HIDE DEF disk, x
      <4> QED
        BY <4>2, <4>3, U32Assumption
    <3> QED
      BY <1>4, <3>1, <3>2
  <2>4. x \in 0..U64Max /\ disk[x] = AsEbr(x) /\ disk[x].logical.lba_start \in 0..U32Max
    BY <1>2, <1>3, <1>4
  <2> HIDE DEF disk
  <2>5. Described(n)
    BY <2>2, <2>3, <2>4 DEF Described, EP!SaturatingAdd, EbrWalk!SaturatingAdd
  <2>6. EP!SaturatingAdd(x, disk[x].logical.lba_start) <= 3 * U32Max
    <3> DEFINE y == disk[x].logical.lba_start
    <3> HIDE DEF x, y
    <3>1. x + y \in 0..(3 * U32Max)
      BY <2>3, <2>4, U32Assumption DEF y
    <3>2. U64Max \in Nat /\ 3 * U32Max \in Nat /\ 3 * U32Max <= U64Max
      BY WidthAssumption, U32Assumption
    <3>3. EP!SaturatingAdd(x, y) <= 3 * U32Max
      BY <3>1, <3>2 DEF EP!SaturatingAdd
    <3> QED
      BY <3>3 DEF y
  <2> QED
    BY <2>2, <2>5, <2>6
<1>6. ebr_entries \in Seq(Logical)
  <2>1. \A n \in 1..Len(ebr_entries) : ebr_entries[n] \in Logical
    BY <1>4, <1>5 DEF Logical, EP!EbrEntry, EbrWalk!EbrEntry, EP!Lba, EbrWalk!Lba
  <2> HIDE DEF disk
  <2> QED
    BY <1>4, <2>1
<1>7. ASSUME sub = "failed"
      PROVE  \E l \in 0..(2 * U32Max) : AsEbr(l).io = "noseek"
  <2>1. EP!LeadsTo(next_ebr_lba) /\ disk[next_ebr_lba].io = "noseek"
    BY <1>7 DEF EP!WalkInv, EP!ControlInv
  <2>2. next_ebr_lba \in 0..U64Max
    BY DEF EP!WalkInv, EP!TypeOK, EP!Lba
  <2>3. next_ebr_lba \in 0..(2 * U32Max)
    <3>1. CASE Len(ebr_entries) = 0
      BY <2>1, <3>1, U32Assumption DEF EP!LeadsTo
    <3>2. CASE Len(ebr_entries) > 0
      <4>1. Len(ebr_entries) \in 1..Len(ebr_entries)
        BY <1>4, <3>2
      <4>2. next_ebr_lba = ext_start_lba + disk[ebr_entries[Len(ebr_entries)].ebr_lba].next
        BY <2>1, <3>2 DEF EP!LeadsTo
      <4>3. disk[ebr_entries[Len(ebr_entries)].ebr_lba].next \in 0..U32Max
        BY <1>3, <1>4, <4>1
      <4> HIDE DEF disk
      <4> QED
        BY <4>2, <4>3, U32Assumption
    <3> QED
      BY <1>4, <3>1, <3>2
  <2> QED
    BY <1>2, <2>1, <2>2, <2>3
<1> QED
  BY <1>5, <1>6, <1>7

\* ... and that it is complete unless it was cut.
LEMMA WalkComplete ==
  /\ image \in Images /\ EP!WalkInv /\ ExtendedSlot \in 1..4
  /\ ext_start_lba = mbr.entries[ExtendedSlot].lba_start
  /\ sub = "done" /\ ~depth_exceeded
  => ChainComplete
<1> SUFFICES ASSUME image \in Images, EP!WalkInv, ExtendedSlot \in 1..4,
                    ext_start_lba = mbr.entries[ExtendedSlot].lba_start,
                    sub = "done", ~depth_exceeded,
                    NEW l \in 0..(2 * U32Max), Readable(l),
                    \/ l = ext_start_lba
                    \/ \E c \in ChainLbas : AsEbr(c).next # 0 /\ l = ext_start_lba + AsEbr(c).next
             PROVE  l \in ChainLbas
  BY DEF ChainComplete
<1> DEFINE disk == [x \in 0..U64Max |-> AsEbr(x)]
<1>1. EP!CompleteUnlessDepthExceeded
  BY CalleeAssumptions, EP!WalkInvComplete
<1>2. EP!Listed = ChainLbas
  BY DEF EP!Listed, ChainLbas
<1>3. l \in 0..U64Max
  BY WidthAssumption, U32Assumption
<1>4. \A c \in ChainLbas : c \in 0..U64Max
  <2>1. ebr_entries \in Seq(EP!EbrEntry)
    BY DEF EP!WalkInv, EP!TypeOK
  <2>2. \A n \in 1..Len(ebr_entries) : ebr_entries[n] \in EP!EbrEntry
    BY <2>1
  <2>3. \A e \in EP!EbrEntry : e.ebr_lba \in 0..U64Max
    BY DEF EP!EbrEntry, EP!Lba
  <2> QED
    BY <2>2, <2>3 DEF ChainLbas
<1>5. \A x \in 0..U64Max : disk[x] = AsEbr(x)
  OBVIOUS
<1>6. \A x \in 0..U64Max :
        /\ disk[x].io = "ok" /\ disk[x].boot_sig /\ x * SectorSize <= U64Max
        /\ \/ x = ext_start_lba
           \/ \E k \in ChainLbas : disk[k].next # 0 /\ x = ext_start_lba + disk[k].next
        => x \in ChainLbas
  BY <1>1, <1>2 DEF EP!CompleteUnlessDepthExceeded, EP!Lba
<1> HIDE DEF disk
<1> QED
  BY <1>3, <1>4, <1>5, <1>6 DEF Readable

\* Entering a callee establishes its invariant, and its steps keep it.
LEMMA CalleeStep ==
  ShareInv /\ FreshInv /\ ScanInv /\ CalleeInv /\ [Next]_vars => CalleeInv'
<1> SUFFICES ASSUME ShareInv, FreshInv, ScanInv, CalleeInv, [Next]_vars
             PROVE  CalleeInv'
  OBVIOUS
<1>1. image \in Images /\ image' = image /\ stage \in Stages
  BY Frame DEF ShareInv
<1>2. mbr' = mbr /\ ExtendedSlot' = ExtendedSlot
  BY <1>1 DEF mbr, ExtendedSlot
<1>3. ASSUME stage' = "walk"
      PROVE  /\ EP!WalkInv'
             /\ ExtendedSlot \in 1..4
             /\ ext_start_lba' = mbr.entries[ExtendedSlot].lba_start
  <2>1. CASE CallWalk
    <3>1. ExtendedSlot \in 1..4
      BY <1>1, <2>1, FirstExtended DEF CallWalk
    <3>2. mbr.entries[ExtendedSlot].lba_start \in 0..U32Max
      BY <1>1, <3>1, ImageTypes, EndTypes
    <3>3. [l \in 0..U64Max |-> AsEbr(l)]' \in [0..U64Max -> EbrSector]
      <4>1. [l \in 0..U64Max |-> AsEbr(l)]' = [l \in 0..U64Max |-> AsEbr(l)]
        BY <1>1, <1>2 DEF AsEbr
      <4> QED
        BY <1>1, <4>1, SectorTypes
    <3>4. /\ visited' = {} /\ ebr_entries' = <<>>
          /\ had_cycle' = FALSE /\ depth_exceeded' = FALSE
      <4>1. visited = {} /\ ebr_entries = <<>> /\ ~had_cycle /\ ~depth_exceeded
        BY <2>1 DEF CallWalk, FreshInv
      <4> QED
        BY <2>1, <4>1 DEF CallWalk
    <3>5. /\ sub' = "check"
          /\ ext_start_lba' = mbr.entries[ExtendedSlot].lba_start
          /\ next_ebr_lba' = ext_start_lba'
      BY <2>1 DEF CallWalk, Enter
    <3>6. ext_start_lba' \in 0..U64Max
      BY <3>2, <3>5, WidthAssumption, U32Assumption
    <3>7. EP!Init'
      BY <3>3, <3>4, <3>5, <3>6 DEF EP!Init
    <3>8. EP!Init' => EP!WalkInv'
      BY CalleeStart, PTL
    <3> QED
      BY <3>1, <3>5, <3>7, <3>8
  <2>2. CASE stage = "walk" /\ WalkStep
    <3>1. EP!WalkInv'
      BY <1>1, <2>2, WalkKeeps DEF WalkStep, CalleeInv
    <3>2. ext_start_lba' = ext_start_lba
      BY <2>2 DEF WalkStep, EbrWalk!Step, EbrWalk!DepthLimit, EbrWalk!CycleFound,
                  EbrWalk!OffsetOverflow, EbrWalk!SeekFails, EbrWalk!SeekTo,
                  EbrWalk!ReadFails, EbrWalk!NoSignature, EbrWalk!EndOfChain,
                  EbrWalk!LinkOverflow, EbrWalk!FollowLink, EbrWalk!Break
    <3> QED
      BY <2>2, <3>1, <3>2 DEF CalleeInv
  <2>3. CASE stage = "walk" /\ UNCHANGED vars
    <3>1. UNCHANGED EP!vars
      BY <1>1, <2>3 DEF vars, walk, EP!vars, AsEbr, mbr
    <3>2. EP!WalkInv /\ [EP!Next]_(EP!vars) => EP!WalkInv'
      BY CalleeAssumptions, EP!WalkInvStep
    <3>3. ext_start_lba' = ext_start_lba
      BY <2>3 DEF vars, walk
    <3> QED
      BY <2>3, <3>1, <3>2, <3>3 DEF CalleeInv
  <2> QED
    BY <1>1, <1>3, <2>1, <2>2, <2>3, CalleeActions
<1>4. ASSUME stage' = "logicals" PROVE ebr_entries' \in Seq(Logical)
  <2>1. CASE WalkReturns
    <3>1. mbr.entries[ExtendedSlot].lba_start \in 0..U32Max
      BY <1>1, <2>1, ImageTypes, EndTypes DEF WalkReturns, CalleeInv
    <3> QED
      BY <1>1, <2>1, <3>1, ChainFacts DEF WalkReturns, CalleeInv, walk
  <2>2. CASE stage = "logicals"
    BY <2>2, Frame DEF CalleeInv, WalkStep, WalkFails
  <2> QED
    BY <1>1, <1>4, <2>1, <2>2, Order
<1>5. ASSUME stage' = "overlaps" PROVE OP!SweepInv'
  <2>1. CASE NoExtended \/ WalkFails \/ LogicalsDone
    <3>1. UNCHANGED <<overlap_extents, sorted, overlaps>> /\ sub' = "sort" /\ i' = 1
      BY <2>1 DEF NoExtended, WalkFails, LogicalsDone, Enter, scan, sweeps
    <3>2. sorted = <<>> /\ overlaps = <<>>
      BY <2>1 DEF NoExtended, WalkFails, LogicalsDone, FreshInv, Swept
    <3>3. overlap_extents \in Seq(Overlap!Extent)
      <4> DEFINE E == [id : Nat, start : 0..U64Max, end : 0..U64Max]
      <4>1. overlap_extents \in Seq(E)
        BY DEF ScanInv
      <4>2. E \subseteq Overlap!Extent
        BY WidthAssumption DEF Overlap!Extent
      <4> HIDE DEF E
      <4> QED
        BY <4>1, <4>2
    <3>4. OP!Init'
      BY <3>1, <3>2, <3>3 DEF OP!Init
    <3>5. OP!Init' => OP!SweepInv'
      BY CalleeStart, PTL
    <3> QED
      BY <3>4, <3>5
  <2>2. CASE OverlapStep
    BY <2>2, OverlapKeeps DEF OverlapStep, CalleeInv
  <2>3. CASE stage = "overlaps" /\ UNCHANGED vars
    <3>1. UNCHANGED OP!vars
      BY <2>3 DEF vars, scan, sweeps, OP!vars
    <3>2. OP!SweepInv /\ [OP!Next]_(OP!vars) => OP!SweepInv'
      BY CalleeAssumptions, OP!SweepInvStep
    <3> QED
      BY <2>3, <3>1, <3>2 DEF CalleeInv
  <2> QED
    BY <1>1, <1>5, <2>1, <2>2, <2>3, CalleeActions
<1>6. ASSUME stage' = "gaps" PROVE GP!GapInv'
  <2>1. CASE OverlapsChecked
    <3>1. /\ extents' = extents /\ gaps' = gaps /\ sorted' = <<>> /\ cursor' = FIRST_USABLE
          /\ i' = 1 /\ sub' = "start" /\ last_lba' = last_lba
      BY <2>1 DEF OverlapsChecked, Enter, scan
    <3>2. gaps = <<>> /\ last_lba = GapSweep!DiskLastLba(image.size)
      BY <2>1 DEF OverlapsChecked, FreshInv, ShareInv, Swept
    <3>3. extents \in Seq(GapSweep!Extent) /\ image.size \in 0..U64Max
      BY <1>1, ImageTypes DEF ScanInv
    <3>4. GP!Init'
      BY <1>1, <3>1, <3>2, <3>3 DEF GP!Init, GapSweep!DiskLastLba, GP!DiskLastLba
    <3>5. GP!Init' => GP!GapInv'
      BY CalleeStart, PTL
    <3> QED
      BY <3>4, <3>5
  <2>2. CASE GapStep
    BY <2>2, GapKeeps DEF GapStep, CalleeInv
  <2>3. CASE stage = "gaps" /\ UNCHANGED vars
    <3>1. UNCHANGED GP!vars
      BY <2>3 DEF vars, scan, sweeps, GP!vars
    <3>2. GP!GapInv /\ [GP!Next]_(GP!vars) => GP!GapInv'
      BY CalleeAssumptions, GP!GapInvStep
    <3> QED
      BY <2>3, <3>1, <3>2 DEF CalleeInv
  <2> QED
    BY <1>1, <1>6, <2>1, <2>2, <2>3, CalleeActions
<1> QED
  BY <1>2, <1>3, <1>4, <1>5, <1>6 DEF CalleeInv

-----------------------------------------------------------------------------
(* How a partition gets listed. *)

\* What starts at l lies on the disk, as far as is known, and can be read.
Legible(l) == ~BeyondDisk(l) /\ AlwaysAnswers(l)

\* The step adds the partition s to the summaries and to the extents.
Lists(s) ==
    /\ s \in Listing
    /\ summaries' = Append(summaries, s)
    /\ extents' = Append(extents, [start |-> s.lba_start, end |-> s.lba_end])
    /\ overlap_extents' =
         IF IsData(s)
           THEN Append(overlap_extents, [id |-> s.index, start |-> s.lba_start, end |-> s.lba_end])
           ELSE overlap_extents
    /\ BeyondDisk(s.lba_start) => s.detected = "None" /\ s.volume = FALSE
    /\ Legible(s.lba_start) => s.detected # "None" /\ s.volume = TRUE

\* The step records what it finds in the content of s, and of nothing else.
Reports(s) ==
    /\ \A f : Among(f, findings) => Among(f, findings')
    /\ \A f : Among(f, findings') /\ f.kind \in ContentKinds =>
         \/ Among(f, findings)
         \/ /\ f.about = s.index /\ ~BeyondDisk(s.lba_start)
            /\ f.kind = "SignatureMismatch" => <<s.declared, s.detected>> \in Conflicts
    /\ <<s.declared, s.detected>> \in Conflicts =>
         \E f : Among(f, findings') /\ f.kind = "SignatureMismatch" /\ f.about = s.index
    /\ Legible(s.lba_start) =>
         \E f : Among(f, findings') /\ f.kind = "VbrHiddenSectorsMismatch" /\ f.about = s.index

\* What a read that gave r at l was told: nothing, all there is, or either.
Told(l, r) ==
    /\ BeyondDisk(l) => r.fs = "None" /\ r.volume = FALSE /\ r.hidden = NoBpb
    /\ Legible(l) => r.fs # "None" /\ r.volume = TRUE /\ r.hidden \notin {NoBpb, 0, l}

\* A summary is what it is made of.
LEMMA SummaryFields ==
  ASSUME NEW id, NEW l, NEW end, NEW entry, NEW r
  PROVE  LET s == Summary(id, l, end, entry, r) IN
         /\ s.index = id /\ s.lba_start = l /\ s.lba_end = end
         /\ s.byte_offset = LbaToByte(l) /\ s.declared = entry.family
         /\ s.detected = r.fs /\ s.volume = r.volume
BY DEF Summary

\* A summary of an extent within the bounds is one the sweeps can deal with.
LEMMA SummaryListing ==
  ASSUME image \in Images, NEW id \in Nat, NEW l \in 0..(3 * U32Max), NEW end \in Nat,
         end < U64Max, end + 1 >= l, NEW entry \in PartitionEntry, NEW r \in Reads(l)
  PROVE  /\ Summary(id, l, end, entry, r) \in Listing
         /\ Told(l, r)
<1>1. l \in 0..U64Max /\ end \in 0..U64Max /\ l \in Nat
  BY WidthAssumption, U32Assumption
<1>2. LbaToByte(l) \in 0..U64Max
  BY <1>1, ByteType
<1>3. entry.lba_count \in Nat /\ entry.family \in Families
  BY EndTypes, U32Assumption
<1>4. LbaToByte(entry.lba_count) \in 0..U64Max
  BY <1>3, ByteType
<1>5. r.fs \in FileSystems /\ r.volume \in BOOLEAN /\ Told(l, r)
  BY ReadTypes DEF Told, Legible
<1>6. Summary(id, l, end, entry, r) \in PartitionSummary
  BY <1>1, <1>2, <1>3, <1>4, <1>5 DEF Summary, PartitionSummary
<1>7. l <= 3 * U32Max
  BY U32Assumption
<1> QED
  BY <1>5, <1>6, <1>7, SummaryFields DEF Listing

\* What is found in content is reported of the partition it is the content of.
LEMMA ContentReports ==
  ASSUME NEW fs, Proper(findings), Proper(fs), findings' = findings \o fs,
         NEW id, NEW l, NEW family, NEW r, NEW s,
         \A f : OfContent(f, id, l, family, r) => Among(f, fs),
         \A f : Among(f, fs) /\ f.kind \in ContentKinds => OfContent(f, id, l, family, r),
         s.index = id, s.lba_start = l, s.declared = family, s.detected = r.fs,
         Told(l, r)
  PROVE  Reports(s)
<1>1. \A f : Among(f, findings') <=> Among(f, findings) \/ Among(f, fs)
  BY ConcatAmong
<1>2. \A x : <<x, "None">> \notin Conflicts
  BY DEF Conflicts, Foreign
<1>3. ASSUME NEW f, OfContent(f, id, l, family, r)
      PROVE  /\ f.about = s.index /\ ~BeyondDisk(s.lba_start)
             /\ f.kind = "SignatureMismatch" => <<s.declared, s.detected>> \in Conflicts
  BY <1>2, <1>3 DEF OfContent, Finding, Told
<1>4. <<s.declared, s.detected>> \in Conflicts =>
        OfContent(Finding("SignatureMismatch", id), id, l, family, r)
  BY DEF OfContent
<1>5. Legible(s.lba_start) =>
        OfContent(Finding("VbrHiddenSectorsMismatch", id), id, l, family, r)
  BY DEF OfContent, Told
<1>6. /\ Finding("SignatureMismatch", id).kind = "SignatureMismatch"
      /\ Finding("SignatureMismatch", id).about = id
      /\ Finding("VbrHiddenSectorsMismatch", id).kind = "VbrHiddenSectorsMismatch"
      /\ Finding("VbrHiddenSectorsMismatch", id).about = id
  BY DEF Finding
<1> QED
  BY <1>1, <1>3, <1>4, <1>5, <1>6 DEF Reports

\* The scan lists the partition of the entry it looks at.
LEMMA ScanLists ==
  ShareInv /\ ScanEntry =>
    \E s : /\ Lists(s) /\ Reports(s) /\ OfPrimary(s)
           /\ s.index = i - 1 /\ i \in 1..4 /\ i' = i + 1 /\ stage = "scan" /\ stage' = "scan"
           /\ image.size > 0 /\ s.lba_end > last_lba =>
                \E f : Among(f, findings') /\ f.kind = "OutOfBounds" /\ f.about = s.index
<1> SUFFICES ASSUME ShareInv, ScanEntry PROVE ScanLists!2
  OBVIOUS
<1> DEFINE e == mbr.entries[i]
           l == e.lba_start
           id == i - 1
<1>1. /\ image \in Images /\ Proper(findings) /\ i \in 1..4
      /\ stage = "scan" /\ stage' = "scan" /\ i' = i + 1
  <2>1. ScanStep
    BY DEF ScanEntry
  <2>2. image \in Images /\ Proper(findings) /\ i \in Nat \ {0} /\ Len(mbr.entries) = 4
    BY ImageTypes DEF ShareInv
  <2> QED
    BY <2>1, <2>2 DEF ScanStep
<1>2. e \in PartitionEntry /\ e.family # "Empty"
  BY <1>1, ImageTypes DEF ScanEntry
<1>3. PICK r \in Reads(l) : /\ findings' = findings \o EntryFindings(id, e, r)
                            /\ summaries' = Append(summaries, Summary(id, l, LbaEnd(e), e, r))
  BY DEF ScanEntry, Record
<1> DEFINE s == Summary(id, l, LbaEnd(e), e, r)
           fs == EntryFindings(id, e, r)
<1>4. /\ l \in 0..(3 * U32Max) /\ LbaEnd(e) \in Nat /\ LbaEnd(e) < U64Max
      /\ LbaEnd(e) + 1 >= l /\ id \in Nat
  BY <1>1, <1>2, EndTypes, U32Assumption, WidthAssumption
<1>5. /\ extents' = Append(extents, [start |-> l, end |-> LbaEnd(e)])
      /\ overlap_extents' =
           IF IsExtended(e) THEN overlap_extents
           ELSE Append(overlap_extents, [id |-> id, start |-> l, end |-> LbaEnd(e)])
  BY DEF ScanEntry
<1>6. id \in 0..3 /\ id + 1 = i /\ ~(id >= EBR_INDEX_BASE)
  BY <1>1, WidthAssumption
<1>7. /\ s.index = id /\ s.lba_start = l /\ s.lba_end = LbaEnd(e) /\ s.declared = e.family
      /\ s.detected = r.fs /\ s.volume = r.volume
  BY SummaryFields
<1>8. s \in Listing /\ Told(l, r)
  <2> HIDE DEF e, id, s
  <2>1. /\ Summary(id, l, LbaEnd(e), e, r) \in Listing
        /\ Told(l, r)
    BY <1>1, <1>2, <1>4, SummaryListing
  <2> QED
    BY <2>1 DEF s
<1>9. OfPrimary(s)
  BY <1>2, <1>6, <1>7 DEF OfPrimary
<1>10. Lists(s)
  <2>1. IsData(s) <=> ~IsExtended(e)
    BY <1>6, <1>7 DEF IsData, IsExtended
  <2>2. summaries' = Append(summaries, s)
    BY <1>3
  <2> HIDE DEF e, id, s, l
  <2> QED
    BY <1>5, <1>7, <1>8, <2>1, <2>2 DEF Lists, Told
<1>11. /\ Reports(s)
       /\ image.size > 0 /\ s.lba_end > last_lba =>
            \E f : Among(f, findings') /\ f.kind = "OutOfBounds" /\ f.about = s.index
  <2> DEFINE A(f) == \/ e.status = "invalid" /\ f = Finding("InvalidPartitionStatus", id)
                     \/ ChsContradicts(e) /\ f = Finding("ChsLbaInconsistency", id)
                     \/ image.size > 0 /\ LbaEnd(e) > last_lba /\ f = Finding("OutOfBounds", id)
  <2>1. /\ Proper(fs)
        /\ \A f : Among(f, fs) <=> A(f) \/ OfContent(f, id, l, e.family, r)
    <3> HIDE DEF e, id
    <3> QED
      BY ScanFindings, Zenon
  <2>2. findings' = findings \o fs
    BY <1>3
  <2>3. \A f : Among(f, findings') <=> Among(f, findings) \/ Among(f, fs)
    <3> HIDE DEF fs
    <3> QED
      BY <1>1, <2>1, <2>2, ConcatAmong
  <2>4. \A f : A(f) => f.kind \notin ContentKinds
    BY DEF Finding, ContentKinds
  <2>5. image.size > 0 /\ s.lba_end > last_lba => A(Finding("OutOfBounds", id))
    BY <1>7
  <2>6. Finding("OutOfBounds", id).kind = "OutOfBounds" /\ Finding("OutOfBounds", id).about = s.index
    BY <1>7 DEF Finding
  <2>7. Reports(s)
    <3>1. \A f : OfContent(f, id, l, e.family, r) => Among(f, fs)
      BY <2>1
    <3>2. \A f : Among(f, fs) /\ f.kind \in ContentKinds => OfContent(f, id, l, e.family, r)
      BY <2>1, <2>4
    <3> HIDE DEF e, id, s, fs, l, A
    <3> QED
      BY <1>1, <1>7, <1>8, <2>1, <2>2, <3>1, <3>2, ContentReports
  <2> HIDE DEF A, s, fs, id, e
  <2> QED
    BY <2>1, <2>3, <2>5, <2>6, <2>7
<1> HIDE DEF s, id
<1> QED
  BY <1>1, <1>7, <1>9, <1>10, <1>11 DEF id

\* The loop over the chain lists the logical partition of the EBR it is at.
LEMMA LogicalLists ==
  ShareInv /\ CalleeInv /\ ScanInv /\ AddLogical =>
    \E s : /\ Lists(s) /\ Reports(s)
           /\ s.index = EBR_INDEX_BASE + Len(summaries)
           /\ i \in 1..Len(ebr_entries) /\ i' = i + 1
           /\ stage = "logicals" /\ stage' = "logicals" /\ ebr_entries' = ebr_entries
           /\ s.lba_start = ebr_entries[i].logical_lba_start
<1> SUFFICES ASSUME ShareInv, CalleeInv, ScanInv, AddLogical PROVE LogicalLists!2
  OBVIOUS
<1> DEFINE e == ebr_entries[i]
           l == e.logical_lba_start
           id == LogicalIndex
           end == LogicalEnd(e)
           a == SlackFindings(e)
<1>1. /\ image \in Images /\ Proper(findings) /\ i \in Nat \ {0} /\ i <= Len(ebr_entries)
      /\ stage = "logicals" /\ stage' = "logicals" /\ i' = i + 1
      /\ ebr_entries' = ebr_entries
  BY DEF ShareInv, AddLogical, walk
<1>2. i \in 1..Len(ebr_entries) /\ e \in Logical
  <2>1. ebr_entries \in Seq(Logical)
    BY <1>1 DEF CalleeInv
  <2>2. i \in 1..Len(ebr_entries)
    BY <1>1, <2>1
  <2> QED
    BY <2>1, <2>2
<1>3. /\ e.logical \in PartitionEntry /\ l \in 0..(3 * U32Max)
      /\ e.has_slack \in BOOLEAN
  BY <1>2, U32Assumption DEF Logical, EbrWalk!EbrEntry, EbrWalk!Lba
<1>4. e.logical.lba_count \in 0..U32Max
  BY <1>3, EndTypes
<1>5. end \in Nat /\ end < U64Max /\ end + 1 >= l
  <2> DEFINE c == e.logical.lba_count
  <2>1. end = Pred(EbrWalk!SaturatingAdd(l, c))
    BY DEF LogicalEnd
  <2> HIDE DEF e, l, c, end
  <2>2. l + c \in 0..(4 * U32Max) /\ 4 * U32Max < U64Max /\ l \in Nat /\ c \in Nat
    BY <1>3, <1>4, U32Assumption, WidthAssumption DEF c
  <2>3. EbrWalk!SaturatingAdd(l, c) = l + c
    BY <2>2, WidthAssumption, U32Assumption DEF EbrWalk!SaturatingAdd
  <2>4. end = IF l + c = 0 THEN 0 ELSE (l + c) - 1
    BY <2>1, <2>3 DEF Pred
  <2> QED
    BY <2>2, <2>4, WidthAssumption, U32Assumption
<1>6. id \in Nat /\ id >= EBR_INDEX_BASE /\ id = EBR_INDEX_BASE + Len(summaries)
  <2>1. Len(summaries) \in Nat
    BY DEF ScanInv
  <2> QED
    BY <2>1, WidthAssumption DEF LogicalIndex
<1>7. PICK r \in Reads(l) :
        /\ findings' = findings \o (a \o ContentFindings(id, l, e.logical.family, r))
        /\ summaries' = Append(summaries, Summary(id, l, end, e.logical, r))
  BY DEF AddLogical, Record
<1> DEFINE s == Summary(id, l, end, e.logical, r)
           family == e.logical.family
           fs == a \o ContentFindings(id, l, family, r)
<1>8. /\ extents' = Append(extents, [start |-> l, end |-> end])
      /\ overlap_extents' = Append(overlap_extents, [id |-> id, start |-> l, end |-> end])
  BY DEF AddLogical, LogicalExtents
<1>9. /\ s.index = id /\ s.lba_start = l /\ s.lba_end = end /\ s.declared = family
      /\ s.detected = r.fs /\ s.volume = r.volume
  BY SummaryFields
<1>10. s \in Listing /\ Told(l, r)
  <2> DEFINE entry == e.logical
  <2> HIDE DEF l, id, end, entry
  <2>1. /\ Summary(id, l, end, entry, r) \in Listing
        /\ Told(l, r)
    BY <1>1, <1>3, <1>5, <1>6, SummaryListing DEF entry
  <2> QED
    BY <2>1 DEF entry
<1>11. Lists(s)
  <2>1. IsData(s)
    BY <1>6, <1>9 DEF IsData
  <2>2. summaries' = Append(summaries, s)
    BY <1>7
  <2> HIDE DEF e, id, s, l, end
  <2> QED
    BY <1>8, <1>9, <1>10, <2>1, <2>2 DEF Lists, Told
<1>12. Reports(s)
  <2>1. Proper(a) /\ \A f : Among(f, a) => f.kind \notin ContentKinds
    <3> DEFINE F == Finding("EbrSlackData", [ebr_lba |-> e.ebr_lba,
                                             dense |-> e.ebr_lba \in image.dense])
    <3>1. a = When(e.has_slack, F)
      BY DEF SlackFindings
    <3>2. F.kind \notin ContentKinds
      BY DEF Finding, ContentKinds
    <3> HIDE DEF F, e, a
    <3> QED
      BY <1>3, <3>1, <3>2, WhenAmong
  <2> HIDE DEF e, l, id, end, a, s, family
  <2>2. /\ Proper(fs)
        /\ \A f : Among(f, fs) <=> Among(f, a) \/ OfContent(f, id, l, family, r)
    BY <2>1, ContentAmong, Zenon
  <2>3. findings' = findings \o fs
    BY <1>7 DEF family
  <2> HIDE DEF fs
  <2> QED
    BY <1>1, <1>9, <1>10, <2>1, <2>2, <2>3, ContentReports
<1> HIDE DEF s, id, end
<1> QED
  BY <1>1, <1>2, <1>6, <1>9, <1>11, <1>12 DEF id

\* Appending one element.
LEMMA AppendFacts ==
  ASSUME NEW S, NEW q \in Seq(S), NEW x \in S, NEW r, r = Append(q, x)
  PROVE  /\ r \in Seq(S) /\ Len(q) \in Nat /\ Len(r) = Len(q) + 1
         /\ \A k \in 1..Len(q) : k \in 1..Len(r) /\ r[k] = q[k]
         /\ Len(r) \in 1..Len(r) /\ r[Len(r)] = x
         /\ \A k \in 1..Len(r) : k \in 1..Len(q) \/ k = Len(r)
<1>1. r \in Seq(S) /\ Len(q) \in Nat /\ Len(r) = Len(q) + 1
  OBVIOUS
<1>2. \A k \in 1..Len(q) : r[k] = q[k]
  OBVIOUS
<1>3. r[Len(q) + 1] = x
  OBVIOUS
<1> QED
  BY <1>1, <1>2, <1>3

\* A listed partition joins the summaries and the extents at the same place.
LEMMA ListsAppends ==
  ASSUME ScanInv, NEW s, Lists(s)
  PROVE  /\ Len(summaries) \in Nat /\ Len(summaries') = Len(summaries) + 1
         /\ \A k \in 1..Len(summaries) : k \in 1..Len(summaries') /\ summaries'[k] = summaries[k]
         /\ Len(summaries') \in 1..Len(summaries') /\ summaries'[Len(summaries')] = s
         /\ \A k \in 1..Len(summaries') : k \in 1..Len(summaries) \/ k = Len(summaries')
         /\ ScanInv'
<1> DEFINE x == [start |-> s.lba_start, end |-> s.lba_end]
           E == [id : Nat, start : 0..U64Max, end : 0..U64Max]
           y == [id |-> s.index, start |-> s.lba_start, end |-> s.lba_end]
<1>1. s \in Listing /\ summaries' = Append(summaries, s) /\ summaries \in Seq(Listing)
  BY DEF ScanInv, Lists
<1>2. extents' = Append(extents, x) /\ extents \in Seq(GapSweep!Extent)
      /\ x.start = s.lba_start /\ x.end = s.lba_end
  BY DEF ScanInv, Lists
<1>3. x \in GapSweep!Extent /\ y \in E
  <2>1. /\ s.lba_start \in 0..U64Max /\ s.lba_end \in 0..U64Max /\ s.index \in Nat
        /\ s.lba_start <= 3 * U32Max /\ s.lba_end < U64Max /\ s.lba_end + 1 >= s.lba_start
    BY <1>1 DEF Listing, PartitionSummary
  <2>2. s.lba_start \in 0..(U64Max - 1) /\ s.lba_end \in 0..(U64Max - 1)
    BY <2>1, WidthAssumption, U32Assumption
  <2> QED
    BY <2>1, <2>2 DEF GapSweep!Extent
<1>4. overlap_extents' = Append(overlap_extents, y) \/ overlap_extents' = overlap_extents
  BY DEF Lists
<1>5. overlap_extents \in Seq(E)
  BY DEF ScanInv
<1> HIDE DEF x, y, E
<1>6. overlap_extents' \in Seq(E)
  BY <1>3, <1>4, <1>5
<1>7. /\ summaries' \in Seq(Listing)
      /\ Len(summaries) \in Nat /\ Len(summaries') = Len(summaries) + 1
      /\ \A k \in 1..Len(summaries) : k \in 1..Len(summaries') /\ summaries'[k] = summaries[k]
      /\ Len(summaries') \in 1..Len(summaries') /\ summaries'[Len(summaries')] = s
      /\ \A k \in 1..Len(summaries') : k \in 1..Len(summaries) \/ k = Len(summaries')
  BY <1>1, AppendFacts
<1>8. /\ extents' \in Seq(GapSweep!Extent)
      /\ Len(extents') = Len(extents) + 1
      /\ \A k \in 1..Len(extents) : extents'[k] = extents[k]
      /\ extents'[Len(extents')] = x
  BY <1>2, <1>3, AppendFacts
<1>9. /\ Len(extents) = Len(summaries)
      /\ \A n \in 1..Len(summaries) : /\ extents[n].start = summaries[n].lba_start
                                      /\ extents[n].end = summaries[n].lba_end
  BY DEF ScanInv
<1>10. ASSUME NEW n \in 1..Len(summaries')
       PROVE  extents'[n].start = summaries'[n].lba_start /\ extents'[n].end = summaries'[n].lba_end
  BY <1>2, <1>7, <1>8, <1>9
<1>11. ScanInv'
  <2>1. (E = [id : Nat, start : 0..U64Max, end : 0..U64Max])
    BY DEF E
  <2>2. (GapSweep!Extent)' = GapSweep!Extent /\ Len(extents') = Len(summaries')
    BY <1>7, <1>8, <1>9
  <2>3. Listing' = Listing
    BY DEF Listing, PartitionSummary, LbaToByte
  <2> QED
    BY <1>6, <1>7, <1>8, <1>10, <2>1, <2>2, <2>3 DEF ScanInv
<1> QED
  BY <1>7, <1>11

\* The steps of the scan stage.
LEMMA ScanActions ==
  stage = "scan" /\ [Next]_vars =>
    UNCHANGED vars \/ ScanResidual \/ ScanEmpty \/ ScanEntry \/ NoExtended \/ CallWalk
BY DEF Next, Step, Returned, Finished, ReadMbrFails, ReadMbr, CheckBootCode, CheckDiskSignature,
       CheckReserved, CheckBootableFlags, CheckDuplicateEntries, CheckGpt, TableCheck,
       WalkStep, WalkFails, WalkReturns, AddLogical, LogicalsDone, OverlapStep,
       OverlapsChecked, GapStep, GapsChecked, SampleGap, Return

\* The steps of the logicals stage.
LEMMA LogicalActions ==
  stage = "logicals" /\ [Next]_vars => UNCHANGED vars \/ AddLogical \/ LogicalsDone
BY DEF Next, Step, Returned, Finished, ReadMbrFails, ReadMbr, CheckBootCode, CheckDiskSignature,
       CheckReserved, CheckBootableFlags, CheckDuplicateEntries, CheckGpt, TableCheck,
       ScanResidual, ScanEmpty, ScanEntry, ScanStep, NoExtended, CallWalk,
       WalkStep, WalkFails, WalkReturns, OverlapStep,
       OverlapsChecked, GapStep, GapsChecked, SampleGap, Return

\* The extents stay aligned with the summaries.
LEMMA ScanInvStep ==
  ShareInv /\ CalleeInv /\ ScanInv /\ [Next]_vars => ScanInv'
<1> SUFFICES ASSUME ShareInv, CalleeInv, ScanInv, [Next]_vars PROVE ScanInv'
  OBVIOUS
<1>1. CASE ScanEntry \/ AddLogical
  BY <1>1, ScanLists, LogicalLists, ListsAppends
<1>2. CASE UNCHANGED <<extents, overlap_extents, summaries>>
  BY <1>2 DEF ScanInv, Listing, PartitionSummary, LbaToByte, GapSweep!Extent
<1> QED
  BY <1>1, <1>2, Frame

\* Indices go on ascending.
LEMMA IndexStep ==
  ShareInv /\ FreshInv /\ CalleeInv /\ ScanInv /\ IndexInv /\ [Next]_vars => IndexInv'
<1> SUFFICES ASSUME ShareInv, FreshInv, CalleeInv, ScanInv, IndexInv, [Next]_vars
             PROVE  IndexInv'
  OBVIOUS
<1>1. image' = image /\ mbr' = mbr /\ stage \in Stages /\ i \in Nat
  BY Frame DEF ShareInv, mbr
<1>2. Len(summaries) \in Nat /\ \A n \in 1..Len(summaries) : summaries[n].index \in Nat
  <2>1. summaries \in Seq(Listing)
    BY DEF ScanInv
  <2>2. \A n \in 1..Len(summaries) : summaries[n] \in Listing
    BY <2>1
  <2>3. \A s \in Listing : s.index \in Nat
    BY DEF Listing, PartitionSummary
  <2>4. Len(summaries) \in Nat
    BY <2>1
  <2> QED
    BY <2>2, <2>3, <2>4
<1>3. /\ \A n \in 1..Len(summaries) : \/ OfPrimary(summaries[n])
                                      \/ summaries[n].index = EBR_INDEX_BASE + n - 1
      /\ \A m, n \in 1..Len(summaries) : m < n => summaries[m].index < summaries[n].index
      /\ stage = "scan" => \A n \in 1..Len(summaries) : summaries[n].index < i - 1
  BY DEF IndexInv
<1>4. CASE UNCHANGED <<extents, overlap_extents, summaries>>
  <2>1. ASSUME stage' = "scan" PROVE \A n \in 1..Len(summaries) : summaries[n].index < i' - 1
    <3>1. CASE stage = "scan"
      <4>1. i' = i \/ i' = i + 1
        BY <2>1, <3>1, ScanActions
           DEF vars, ScanResidual, ScanEmpty, ScanEntry, ScanStep, NoExtended, CallWalk, Enter
      <4> QED
        BY <1>1, <1>2, <1>3, <3>1, <4>1
    <3>2. CASE stage # "scan"
      <4>1. stage = "gpt"
        BY <1>1, <2>1, <3>2, Order
      <4>2. Len(summaries) = 0
        BY <4>1 DEF FreshInv, TableStages
      <4> QED
        BY <4>2
    <3> QED
      BY <3>1, <3>2
  <2> QED
    BY <1>1, <1>3, <1>4, <2>1 DEF IndexInv, OfPrimary
<1>5. ASSUME NEW s, Lists(s), OfPrimary(s) \/ s.index = EBR_INDEX_BASE + Len(summaries),
             \A n \in 1..Len(summaries) : summaries[n].index < s.index,
             stage' = "scan" => s.index < i' - 1,
             s.index \in Nat, i' \in Nat
      PROVE  IndexInv'
  <2>1. /\ Len(summaries') = Len(summaries) + 1
        /\ \A k \in 1..Len(summaries) : k \in 1..Len(summaries') /\ summaries'[k] = summaries[k]
        /\ Len(summaries') \in 1..Len(summaries') /\ summaries'[Len(summaries')] = s
        /\ \A k \in 1..Len(summaries') : k \in 1..Len(summaries) \/ k = Len(summaries')
    BY <1>5, ListsAppends
  <2>2. \A n \in 1..Len(summaries') : \/ OfPrimary(summaries[n]) /\ summaries'[n] = summaries[n]
                                      \/ OfPrimary(s) /\ summaries'[n] = s
                                      \/ summaries'[n].index = EBR_INDEX_BASE + n - 1
    <3> SUFFICES ASSUME NEW n \in 1..Len(summaries')
                 PROVE  \/ OfPrimary(summaries[n]) /\ summaries'[n] = summaries[n]
                        \/ OfPrimary(s) /\ summaries'[n] = s
                        \/ summaries'[n].index = EBR_INDEX_BASE + n - 1
      OBVIOUS
    <3>1. CASE n \in 1..Len(summaries)
      BY <1>3, <2>1, <3>1
    <3>2. CASE n = Len(summaries')
      <4>1. n - 1 = Len(summaries) /\ EBR_INDEX_BASE + n - 1 = EBR_INDEX_BASE + Len(summaries)
        BY <1>2, <2>1, <3>2, WidthAssumption
      <4> QED
        BY <1>5, <2>1, <3>2, <4>1
    <3> QED
      BY <2>1, <3>1, <3>2
  <2>3. \A n \in 1..Len(summaries') : \/ OfPrimary(summaries[n])'
                                      \/ summaries'[n].index = EBR_INDEX_BASE + n - 1
    BY <1>1, <2>2 DEF OfPrimary
  <2>4. \A m, n \in 1..Len(summaries') : m < n => summaries'[m].index < summaries'[n].index
    BY <1>2, <1>3, <1>5, <2>1
  <2>5. stage' = "scan" => \A n \in 1..Len(summaries') : summaries'[n].index < i' - 1
    BY <1>2, <1>5, <2>1
  <2> QED
    BY <2>3, <2>4, <2>5 DEF IndexInv
<1>6. CASE ScanEntry
  <2>1. PICK s : Lists(s) /\ OfPrimary(s) /\ s.index = i - 1 /\ i \in 1..4 /\ i' = i + 1 /\ stage = "scan"
    BY <1>6, ScanLists
  <2> QED
    BY <1>3, <1>5, <2>1
<1>7. CASE AddLogical
  <2>1. PICK s : /\ Lists(s) /\ s.index = EBR_INDEX_BASE + Len(summaries)
                 /\ stage' = "logicals" /\ i' = i + 1
    BY <1>7, LogicalLists
  <2>2. \A n \in 1..Len(summaries) : summaries[n].index < s.index
    <3> TAKE n \in 1..Len(summaries)
    <3>1. summaries[n].index \in 0..3 \/ summaries[n].index = EBR_INDEX_BASE + n - 1
      BY <1>3 DEF OfPrimary
    <3>2. s.index \in Nat /\ s.index = EBR_INDEX_BASE + Len(summaries) /\ n <= Len(summaries)
      BY <1>2, <2>1, WidthAssumption
    <3> QED
      BY <1>2, <3>1, <3>2, WidthAssumption
  <2>3. s.index \in Nat /\ i' \in Nat
    BY <1>1, <1>2, <2>1, WidthAssumption
  <2> QED
    BY <1>5, <2>1, <2>2, <2>3
<1> QED
  BY <1>4, <1>6, <1>7, Frame

\* No two places share an index.
LEMMA IndexUnique ==
  ASSUME ScanInv, IndexInv
  PROVE  \A m, n \in 1..Len(summaries) : summaries[m].index = summaries[n].index => m = n
<1> SUFFICES ASSUME NEW m \in 1..Len(summaries), NEW n \in 1..Len(summaries),
                    summaries[m].index = summaries[n].index
             PROVE  m = n
  OBVIOUS
<1>1. summaries \in Seq(Listing)
  BY DEF ScanInv
<1>2. summaries[m] \in Listing /\ summaries[n] \in Listing /\ Len(summaries) \in Nat
  BY <1>1
<1>3. summaries[m].index \in Nat /\ summaries[n].index \in Nat
  BY <1>2 DEF Listing, PartitionSummary
<1> QED
  BY <1>2, <1>3 DEF IndexInv

\* No primary entry is passed over.
LEMMA PrimariesStep ==
  ShareInv /\ FreshInv /\ CalleeInv /\ ScanInv /\ PrimariesInv /\ [Next]_vars => PrimariesInv'
<1> SUFFICES ASSUME ShareInv, FreshInv, CalleeInv, ScanInv, PrimariesInv, [Next]_vars,
                    stage' \in Scanned \cup {"scan"},
                    NEW k \in 1..4, stage' = "scan" => k < i', mbr.entries[k].family # "Empty"
             PROVE  \E n \in 1..Len(summaries') : summaries'[n].index = k - 1
  BY Frame DEF PrimariesInv, mbr
<1>1. image \in Images /\ stage \in Stages /\ i \in Nat /\ Len(mbr.entries) = 4
  BY ImageTypes DEF ShareInv
<1>2. ASSUME NEW n \in 1..Len(summaries), summaries[n].index = k - 1
      PROVE  \E m \in 1..Len(summaries') : summaries'[m].index = k - 1
  <2>1. CASE ScanEntry \/ AddLogical
    <3>1. n \in 1..Len(summaries') /\ summaries'[n] = summaries[n]
      BY <2>1, ScanLists, LogicalLists, ListsAppends
    <3> QED
      BY <1>2, <3>1
  <2>2. CASE UNCHANGED summaries
    BY <1>2, <2>2
  <2> QED
    BY <2>1, <2>2, Frame
<1>3. ASSUME stage \in Scanned \/ (stage = "scan" /\ k < i)
      PROVE  \E m \in 1..Len(summaries') : summaries'[m].index = k - 1
  <2>1. \E n \in 1..Len(summaries) : summaries[n].index = k - 1
    BY <1>3 DEF PrimariesInv, Scanned
  <2> QED
    BY <1>2, <2>1
<1>4. CASE stage = "scan" /\ ~(k < i)
  <2>1. CASE ScanEntry
    <3>1. PICK s : Lists(s) /\ s.index = i - 1 /\ i' = i + 1 /\ stage' = "scan"
      BY <2>1, ScanLists
    <3>2. k = i
      BY <1>1, <1>4, <3>1
    <3>3. Len(summaries') \in 1..Len(summaries') /\ summaries'[Len(summaries')] = s
      BY <3>1, ListsAppends
    <3> QED
      BY <3>1, <3>2, <3>3
  <2>2. CASE ScanResidual \/ ScanEmpty
    <3>1. i' = i + 1 /\ stage' = "scan" /\ mbr.entries[i].family = "Empty"
      BY <1>4, <2>2 DEF ScanResidual, ScanEmpty, ScanStep, IsResidual, IsEmpty
    <3> QED
      BY <1>1, <1>4, <3>1
  <2>3. CASE NoExtended \/ CallWalk
    BY <1>1, <1>4, <2>3 DEF NoExtended, CallWalk
  <2>4. CASE UNCHANGED vars
    BY <1>4, <2>4 DEF vars
  <2> QED
    BY <1>4, <2>1, <2>2, <2>3, <2>4, ScanActions
<1>5. CASE stage \notin Scanned \cup {"scan"}
  <2>1. stage' = "scan" /\ stage = "gpt" /\ i' = i
    <3> USE DEF Scanned, Stages, TableStages
    <3>1. stage' = "scan"
      <4>1. stage' # "walk"
        BY <1>1, <1>5, Order DEF CallWalk
      <4>2. stage' # "logicals"
        BY <1>1, <1>5, Order DEF WalkReturns
      <4>3. stage' # "overlaps"
        BY <1>1, <1>5, Order DEF NoExtended, WalkFails, LogicalsDone
      <4>4. stage' # "gaps" /\ stage' # "content" /\ stage' # "done"
        BY <1>1, <1>5, Order DEF OverlapsChecked, GapsChecked
      <4> QED
        BY <4>1, <4>2, <4>3, <4>4
    <3> QED
      BY <1>1, <1>5, <3>1, Order
  <2>2. i = 1
    BY <2>1 DEF FreshInv, TableStages
  <2> QED
    BY <2>1, <2>2
<1> QED
  BY <1>3, <1>4, <1>5

\* The overlap stage is handed every data partition as it is listed.
LEMMA DataStep ==
  ShareInv /\ CalleeInv /\ ScanInv /\ DataInv /\ [Next]_vars => DataInv'
<1> SUFFICES ASSUME ShareInv, CalleeInv, ScanInv, DataInv, [Next]_vars PROVE DataInv'
  OBVIOUS
<1>1. ASSUME NEW s, Lists(s) PROVE DataInv'
  <2> DEFINE E == [id : Nat, start : 0..U64Max, end : 0..U64Max]
             y == [id |-> s.index, start |-> s.lba_start, end |-> s.lba_end]
  <2>1. /\ \A k \in 1..Len(summaries) : k \in 1..Len(summaries') /\ summaries'[k] = summaries[k]
        /\ Len(summaries') \in 1..Len(summaries') /\ summaries'[Len(summaries')] = s
        /\ \A k \in 1..Len(summaries') : k \in 1..Len(summaries) \/ k = Len(summaries')
    BY <1>1, ListsAppends
  <2>2. overlap_extents \in Seq(E) /\ SameExtent(y, s)
    BY DEF ScanInv, SameExtent
  <2>3. y \in E
    BY <1>1 DEF Lists, Listing, PartitionSummary
  <2>4. overlap_extents' = IF IsData(s) THEN Append(overlap_extents, y) ELSE overlap_extents
    BY <1>1 DEF Lists
  <2> HIDE DEF E, y
  <2>5. IsData(s) =>
        /\ \A k \in 1..Len(overlap_extents) : /\ k \in 1..Len(overlap_extents')
                                              /\ overlap_extents'[k] = overlap_extents[k]
        /\ Len(overlap_extents') \in 1..Len(overlap_extents')
        /\ overlap_extents'[Len(overlap_extents')] = y
        /\ \A k \in 1..Len(overlap_extents') : \/ k \in 1..Len(overlap_extents)
                                               \/ k = Len(overlap_extents')
    BY <2>2, <2>3, <2>4, AppendFacts
  <2>6. \A k \in 1..Len(overlap_extents') : \E n \in 1..Len(summaries') :
          SameExtent(overlap_extents'[k], summaries'[n])
    <3> TAKE k \in 1..Len(overlap_extents')
    <3>1. CASE k \in 1..Len(overlap_extents) /\ overlap_extents'[k] = overlap_extents[k]
      <4>1. PICK n \in 1..Len(summaries) : SameExtent(overlap_extents[k], summaries[n])
        BY <3>1 DEF DataInv
      <4>2. n \in 1..Len(summaries') /\ summaries'[n] = summaries[n]
        BY <2>1
      <4> QED
        BY <3>1, <4>1, <4>2
    <3>2. CASE overlap_extents'[k] = y
      BY <2>1, <2>2, <3>2
    <3> QED
      BY <2>4, <2>5, <3>1, <3>2
  <2>7. \A n \in 1..Len(summaries') : IsData(summaries'[n]) =>
          \E k \in 1..Len(overlap_extents') : SameExtent(overlap_extents'[k], summaries'[n])
    BY <2>1, <2>2, <2>4, <2>5 DEF DataInv
  <2> QED
    BY <2>6, <2>7 DEF DataInv, IsData, SameExtent
<1>2. CASE ScanEntry \/ AddLogical
  BY <1>1, <1>2, ScanLists, LogicalLists
<1>3. CASE UNCHANGED <<extents, overlap_extents, summaries>>
  BY <1>3 DEF DataInv, IsData, SameExtent
<1> QED
  BY <1>2, <1>3, Frame

\* Found and FoundAbout in the next state.
LEMMA FoundAmongNext ==
  /\ \A kind : Found(kind)' <=> \E f : Among(f, findings') /\ f.kind = kind
  /\ \A kind, id : FoundAbout(kind, id)' <=>
       \E f : Among(f, findings') /\ f.kind = kind /\ f.about = id
BY DEF Found, FoundAbout, Among

\* What has been found stays found.
LEMMA FoundStays ==
  ShareInv /\ CalleeInv /\ LeftInv /\ [Next]_vars =>
    /\ \A kind : Found(kind) => Found(kind)'
    /\ \A kind, id : FoundAbout(kind, id) => FoundAbout(kind, id)'
BY FindingsGrow, FoundAmong, FoundAmongNext

\* A primary partition that ends behind the disk is reported as it is listed.
LEMMA BoundsStep ==
  ShareInv /\ FreshInv /\ CalleeInv /\ LeftInv /\ ScanInv /\ BoundsInv /\ [Next]_vars => BoundsInv'
<1> SUFFICES ASSUME ShareInv, FreshInv, CalleeInv, LeftInv, ScanInv, BoundsInv, [Next]_vars,
                    image.size > 0, NEW n \in 1..Len(summaries'),
                    summaries'[n].index < EBR_INDEX_BASE, summaries'[n].lba_end > last_lba'
             PROVE  \E f : /\ Among(f, findings')
                           /\ f.kind = "OutOfBounds" /\ f.about = summaries'[n].index
  BY Frame, FoundAmongNext DEF BoundsInv
<1>1. ASSUME n \in 1..Len(summaries), summaries'[n] = summaries[n], last_lba' = last_lba
      PROVE  \E f : /\ Among(f, findings')
                    /\ f.kind = "OutOfBounds" /\ f.about = summaries'[n].index
  <2>1. FoundAbout("OutOfBounds", summaries[n].index)
    BY <1>1 DEF BoundsInv
  <2> QED
    BY <1>1, <2>1, FindingsGrow, FoundAmong
<1>2. CASE ReadMbr
  <2>1. Len(summaries') = 0
    BY <1>2 DEF ReadMbr, scan, FreshInv, TableStages
  <2> QED
    BY <2>1
<1>3. CASE ScanEntry
  <2>1. PICK s : /\ Lists(s)
                 /\ image.size > 0 /\ s.lba_end > last_lba =>
                      \E f : Among(f, findings') /\ f.kind = "OutOfBounds" /\ f.about = s.index
    BY <1>3, ScanLists
  <2>2. last_lba' = last_lba
    BY <1>3 DEF ScanEntry, ScanStep
  <2>3. \/ n \in 1..Len(summaries) /\ summaries'[n] = summaries[n]
        \/ summaries'[n] = s
    BY <2>1, ListsAppends
  <2> QED
    BY <1>1, <2>1, <2>2, <2>3
<1>4. CASE AddLogical
  <2>1. PICK s : Lists(s) /\ s.index = EBR_INDEX_BASE + Len(summaries)
    BY <1>4, LogicalLists
  <2>2. last_lba' = last_lba
    BY <1>4 DEF AddLogical
  <2>3. \/ n \in 1..Len(summaries) /\ summaries'[n] = summaries[n]
        \/ summaries'[n] = s
    BY <2>1, ListsAppends
  <2>4. Len(summaries) \in Nat
    BY DEF ScanInv
  <2>5. summaries'[n] # s
    BY <2>1, <2>4, WidthAssumption
  <2> QED
    BY <1>1, <2>2, <2>3, <2>5
<1>5. CASE ~ReadMbr /\ ~ScanEntry /\ ~AddLogical
  <2>1. UNCHANGED <<summaries, last_lba>>
    BY <1>5, Frame
  <2> QED
    BY <1>1, <2>1
<1> QED
  BY <1>2, <1>3, <1>4, <1>5

\* Nothing is read off a volume behind the end of the disk, and what is read
\* of the others is told of them alone: the three invariants go together.
LEMMA ContentStep ==
  /\ ShareInv /\ CalleeInv /\ LeftInv /\ ScanInv /\ IndexInv /\ IndexInv'
  /\ AboutListed /\ NothingBehind /\ MismatchesAgreeWithSummaries
  /\ [Next]_vars
  => AboutListed' /\ NothingBehind' /\ MismatchesAgreeWithSummaries'
<1> SUFFICES ASSUME ShareInv, CalleeInv, LeftInv, ScanInv, IndexInv, IndexInv', AboutListed,
                    NothingBehind, MismatchesAgreeWithSummaries, [Next]_vars
             PROVE  AboutListed' /\ NothingBehind' /\ MismatchesAgreeWithSummaries'
  OBVIOUS
<1> DEFINE About(f, s) == f.kind \in ContentKinds /\ f.about = s.index
           Empty(s) == image.size > 0 /\ s.byte_offset >= image.size
           Conflict(s) == <<s.declared, s.detected>> \in Conflicts
<1>1. image' = image
  BY Frame
<1>2. \A f : Among(f, findings) => Among(f, findings')
  BY FindingsGrow
<1>3. /\ \A f : Among(f, findings) /\ f.kind \in ContentKinds =>
           \E n \in 1..Len(summaries) : f.about = summaries[n].index
      /\ \A n \in 1..Len(summaries) : Empty(summaries[n]) =>
           /\ summaries[n].detected = "None" /\ ~summaries[n].volume
           /\ \A f : Among(f, findings) => ~About(f, summaries[n])
      /\ \A n \in 1..Len(summaries) :
           (\E f : /\ Among(f, findings)
                   /\ f.kind = "SignatureMismatch" /\ f.about = summaries[n].index)
           <=> Conflict(summaries[n])
  <2>1. AboutListed <=> \A f : Among(f, findings) /\ f.kind \in ContentKinds =>
           \E n \in 1..Len(summaries) : f.about = summaries[n].index
    BY DEF AboutListed, Among
  <2>2. ASSUME NEW n \in 1..Len(summaries), Empty(summaries[n])
        PROVE  /\ summaries[n].detected = "None" /\ ~summaries[n].volume
               /\ \A f : Among(f, findings) => ~About(f, summaries[n])
    BY <2>2, FoundAmong DEF NothingBehind, Behind, ContentKinds
  <2>3. ASSUME NEW n \in 1..Len(summaries)
        PROVE  (\E f : /\ Among(f, findings)
                       /\ f.kind = "SignatureMismatch" /\ f.about = summaries[n].index)
               <=> Conflict(summaries[n])
    BY FoundAmong DEF MismatchesAgreeWithSummaries
  <2> QED
    BY <2>1, <2>2, <2>3
<1>4. ASSUME \A f : Among(f, findings') /\ f.kind \in ContentKinds =>
               \E n \in 1..Len(summaries') : f.about = summaries'[n].index,
             \A n \in 1..Len(summaries') : Empty(summaries'[n]) =>
               /\ summaries'[n].detected = "None" /\ ~summaries'[n].volume
               /\ \A f : Among(f, findings') => ~About(f, summaries'[n]),
             \A n \in 1..Len(summaries') :
               (\E f : /\ Among(f, findings')
                       /\ f.kind = "SignatureMismatch" /\ f.about = summaries'[n].index)
               <=> Conflict(summaries'[n])
      PROVE  AboutListed' /\ NothingBehind' /\ MismatchesAgreeWithSummaries'
  <2>1. AboutListed'
    BY <1>4 DEF AboutListed, Among
  <2>2. NothingBehind'
    <3>1. /\ "VbrHiddenSectorsMismatch" \in ContentKinds /\ "SignatureMismatch" \in ContentKinds
      BY DEF ContentKinds
    <3> QED
      BY <1>1, <1>4, <3>1, FoundAmongNext DEF NothingBehind, Behind
  <2>3. MismatchesAgreeWithSummaries'
    <3> SUFFICES ASSUME NEW n \in 1..Len(summaries')
                 PROVE  FoundAbout("SignatureMismatch", summaries[n].index)'
                        <=> Conflict(summaries'[n])
      BY DEF MismatchesAgreeWithSummaries
    <3> HIDE DEF Conflict
    <3> QED
      BY <1>4 DEF FoundAbout, Among
  <2> QED
    BY <2>1, <2>2, <2>3
<1>5. "SignatureMismatch" \in ContentKinds
  BY DEF ContentKinds
<1>6. ASSUME NEW s, Lists(s), Reports(s)
      PROVE  AboutListed' /\ NothingBehind' /\ MismatchesAgreeWithSummaries'
  <2>1. /\ \A k \in 1..Len(summaries) : k \in 1..Len(summaries') /\ summaries'[k] = summaries[k]
        /\ Len(summaries') \in 1..Len(summaries') /\ summaries'[Len(summaries')] = s
        /\ \A k \in 1..Len(summaries') : k \in 1..Len(summaries) \/ k = Len(summaries')
        /\ \A k \in 1..Len(summaries) : k < Len(summaries')
    BY <1>6, ListsAppends
  <2>2. \A k \in 1..Len(summaries) : summaries[k].index # s.index
    <3> SUFFICES ASSUME NEW k \in 1..Len(summaries) PROVE summaries[k].index # s.index
      OBVIOUS
    <3>1. summaries'[k].index < summaries'[Len(summaries')].index
      BY <2>1 DEF IndexInv
    <3>2. s \in Listing /\ summaries \in Seq(Listing)
      BY <1>6 DEF Lists, ScanInv
    <3>3. summaries[k] \in Listing
      BY <3>2
    <3>4. s.index \in Nat /\ summaries[k].index \in Nat
      BY <3>2, <3>3 DEF Listing, PartitionSummary
    <3> QED
      BY <2>1, <3>1, <3>4
  <2>3. \A f : Among(f, findings') /\ f.kind \in ContentKinds =>
          Among(f, findings) \/ (f.about = s.index /\ ~BeyondDisk(s.lba_start)
                                 /\ (f.kind = "SignatureMismatch" => Conflict(s)))
    BY <1>6 DEF Reports
  <2>4. Empty(s) => BeyondDisk(s.lba_start) /\ s.detected = "None" /\ ~s.volume
    <3>1. s.byte_offset = LbaToByte(s.lba_start) /\ image.size \in Nat
      BY <1>6, ImageTypes, WidthAssumption DEF Lists, Listing, ShareInv
    <3> QED
      BY <1>6, <3>1 DEF Lists, BeyondDisk
  <2>5. Conflict(s) => \E f : Among(f, findings') /\ f.kind = "SignatureMismatch" /\ f.about = s.index
    BY <1>6 DEF Reports
  <2> HIDE DEF Empty, Conflict
  <2>6. \A f : Among(f, findings') /\ f.kind \in ContentKinds =>
          \E n \in 1..Len(summaries') : f.about = summaries'[n].index
    BY <1>3, <2>1, <2>3
  <2>7. ASSUME NEW n \in 1..Len(summaries'), Empty(summaries'[n])
        PROVE  /\ summaries'[n].detected = "None" /\ ~summaries'[n].volume
               /\ \A f : Among(f, findings') => ~About(f, summaries'[n])
    <3>1. CASE n \in 1..Len(summaries)
      BY <1>3, <2>1, <2>2, <2>3, <2>7, <3>1
    <3>2. CASE summaries'[n] = s
      BY <1>3, <2>2, <2>3, <2>4, <2>7, <3>2
    <3> QED
      BY <2>1, <3>1, <3>2
  <2>8. ASSUME NEW n \in 1..Len(summaries')
        PROVE  (\E f : /\ Among(f, findings')
                       /\ f.kind = "SignatureMismatch" /\ f.about = summaries'[n].index)
               <=> Conflict(summaries'[n])
    <3>1. CASE n \in 1..Len(summaries)
      BY <1>2, <1>3, <1>5, <2>1, <2>2, <2>3, <3>1
    <3>2. CASE summaries'[n] = s
      BY <1>3, <1>5, <2>2, <2>3, <2>5, <3>2
    <3> QED
      BY <2>1, <3>1, <3>2
  <2> QED
    BY <1>4, <2>6, <2>7, <2>8
<1>7. CASE ScanEntry \/ AddLogical
  BY <1>6, <1>7, ScanLists, LogicalLists
<1>8. CASE ~(ScanEntry \/ AddLogical)
  <2>1. summaries' = summaries
    BY <1>8, Frame
  <2>2. \A f : Among(f, findings') /\ f.kind \in ContentKinds => Among(f, findings)
    BY <1>8, FindingsGrow DEF Attributed
  <2> HIDE DEF Empty, Conflict
  <2> QED
    BY <1>2, <1>3, <1>4, <1>5, <2>1, <2>2
<1> QED
  BY <1>7, <1>8

\* What can be read of a volume on the disk is read and told.
LEMMA AllBeforeStep ==
  ShareInv /\ CalleeInv /\ LeftInv /\ ScanInv /\ AllBefore /\ [Next]_vars => AllBefore'
<1> SUFFICES ASSUME ShareInv, CalleeInv, LeftInv, ScanInv, AllBefore, [Next]_vars,
                    NEW n \in 1..Len(summaries'),
                    ~Behind(summaries[n])', AlwaysAnswers(summaries[n].lba_start)'
             PROVE  /\ summaries'[n].detected # "None" /\ summaries'[n].volume
                    /\ \E f : /\ Among(f, findings') /\ f.kind = "VbrHiddenSectorsMismatch"
                              /\ f.about = summaries'[n].index
  BY FoundAmongNext DEF AllBefore
<1>1. image' = image
  BY Frame
<1>2. \A f : Among(f, findings) => Among(f, findings')
  BY FindingsGrow
<1>3. ~Behind(summaries'[n]) /\ AlwaysAnswers(summaries'[n].lba_start)
  BY <1>1 DEF Behind, AlwaysAnswers
<1>4. ASSUME n \in 1..Len(summaries), summaries'[n] = summaries[n]
      PROVE  /\ summaries'[n].detected # "None" /\ summaries'[n].volume
             /\ \E f : /\ Among(f, findings') /\ f.kind = "VbrHiddenSectorsMismatch"
                       /\ f.about = summaries'[n].index
  <2>1. /\ summaries[n].detected # "None" /\ summaries[n].volume
        /\ FoundAbout("VbrHiddenSectorsMismatch", summaries[n].index)
    BY <1>3, <1>4 DEF AllBefore
  <2> QED
    BY <1>2, <1>4, <2>1, FoundAmong
<1>5. ASSUME NEW s, Lists(s), Reports(s)
      PROVE  /\ summaries'[n].detected # "None" /\ summaries'[n].volume
             /\ \E f : /\ Among(f, findings') /\ f.kind = "VbrHiddenSectorsMismatch"
                       /\ f.about = summaries'[n].index
  <2>1. \/ n \in 1..Len(summaries) /\ summaries'[n] = summaries[n]
        \/ summaries'[n] = s
    BY <1>5, ListsAppends
  <2>2. CASE summaries'[n] = s
    <3>1. s.byte_offset = LbaToByte(s.lba_start) /\ image.size \in Nat
      BY <1>5, ImageTypes, WidthAssumption DEF Lists, Listing, ShareInv
    <3>2. Legible(s.lba_start)
      BY <1>3, <2>2, <3>1 DEF Legible, BeyondDisk, Behind
    <3> QED
      BY <1>5, <2>2, <3>2 DEF Lists, Reports
  <2> QED
    BY <1>4, <2>1, <2>2
<1>6. CASE ScanEntry \/ AddLogical
  BY <1>5, <1>6, ScanLists, LogicalLists
<1>7. CASE ~(ScanEntry \/ AddLogical)
  BY <1>4, <1>7, Frame
<1> QED
  BY <1>6, <1>7

\* On a pure GPT disk one entry is protective and the others are empty.
LEMMA PureGpt ==
  image \in Images /\ OnGptDisk =>
    /\ ExtendedSlot = NoSlot
    /\ \E k \in 1..4 : /\ mbr.entries[k].family = "GptProtective"
                       /\ \A j \in 1..4 : j # k => mbr.entries[j].family = "Empty"
<1> SUFFICES ASSUME image \in Images, OnGptDisk PROVE PureGpt!2
  OBVIOUS
<1>1. PICK k \in 1..4 : /\ NonEmptySlots(mbr.entries) = {k}
                        /\ IsProtective(mbr.entries[k])
  BY ImageTypes DEF OnGptDisk, IsPureProtective
<1>2. mbr.entries[k].family = "GptProtective"
  BY <1>1 DEF IsProtective
<1>3. ASSUME NEW j \in 1..4, j # k PROVE mbr.entries[j].family = "Empty"
  <2>1. j \notin NonEmptySlots(mbr.entries)
    BY <1>1, <1>3
  <2> QED
    BY <2>1, ImageTypes DEF NonEmptySlots, Slots, IsEmpty
<1>4. \A j \in 1..4 : ~IsExtended(mbr.entries[j])
  BY <1>2, <1>3 DEF IsExtended
<1> QED
  BY <1>2, <1>3, <1>4, FirstExtended

\* The verdicts about the GPT are given on the table that is scanned.
LEMMA GptStep ==
  ShareInv /\ FreshInv /\ CalleeInv /\ LeftInv /\ ScanInv /\ GptInv /\ [Next]_vars => GptInv'
<1> SUFFICES ASSUME ShareInv, FreshInv, CalleeInv, LeftInv, ScanInv, GptInv, [Next]_vars
             PROVE  GptInv'
  OBVIOUS
<1>1. image' = image /\ mbr' = mbr /\ image \in Images /\ stage \in Stages
  BY Frame DEF ShareInv, mbr
<1>2. CASE ReadMbr
  <2>1. /\ stage = "read_mbr" /\ stage' = "boot_code" /\ findings' = findings
        /\ summaries' = summaries
    BY <1>2 DEF ReadMbr, scan
  <2>2. findings = <<>> /\ Len(summaries) = 0
    BY <2>1 DEF FreshInv, TableStages
  <2>3. \A kind : ~Found(kind)'
    BY <2>1, <2>2 DEF Found
  <2> QED
    BY <2>1, <2>2, <2>3 DEF GptInv
<1>3. CASE ~ReadMbr
  <2>1. OnGptDisk' <=> OnGptDisk
    BY <1>1, <1>3, Frame DEF OnGptDisk
  <2>2. stage' \in {"read_mbr", "failed"} => stage \in {"read_mbr", "failed"}
    BY <1>1, <1>3, Order
  <2>3. Found("EmptyProtectiveBootCode")' =>
          stage' \notin {"read_mbr", "failed"} /\ OnGptDisk
    <3> SUFFICES ASSUME NEW f, Among(f, findings'), f.kind = "EmptyProtectiveBootCode"
                 PROVE  stage \notin {"read_mbr", "failed"} /\ OnGptDisk
      BY <2>2, FoundAmongNext
    <3>1. CASE Among(f, findings)
      BY <3>1, FoundAmong DEF GptInv
    <3>2. CASE Attributed(f)
      BY <3>2 DEF Attributed
    <3> QED
      BY <3>1, <3>2, FindingsGrow
  <2>4. ASSUME NEW kind \in GptObjections, Found(kind)'
        PROVE  ~OnGptDisk
    <3>1. PICK f : Among(f, findings') /\ f.kind = kind
      BY <2>4, FoundAmongNext
    <3>2. CASE Among(f, findings)
      BY <3>1, <3>2, FoundAmong DEF GptInv, GptObjections
    <3>3. CASE Attributed(f)
      BY <3>1, <3>3 DEF Attributed
    <3> QED
      BY <3>1, <3>2, <3>3, FindingsGrow
  <2>5. ASSUME OnGptDisk
        PROVE  /\ stage' \notin {"walk", "logicals"}
               /\ \A n \in 1..Len(summaries') : OfPrimary(summaries[n])'
    <3>1. stage \notin {"walk", "logicals"}
      BY <2>5 DEF GptInv
    <3>2. ~CallWalk /\ ~WalkReturns /\ ~AddLogical
      BY <1>1, <2>5, <3>1, PureGpt DEF CallWalk, WalkReturns, AddLogical
    <3>3. stage' \notin {"walk", "logicals"}
      BY <1>1, <3>1, <3>2, Order
    <3>4. CASE ScanEntry
      <4>1. PICK s : Lists(s) /\ OfPrimary(s)
        BY <3>4, ScanLists
      <4>2. \A n \in 1..Len(summaries') : \/ summaries'[n] = summaries[n] /\ n \in 1..Len(summaries)
                                          \/ summaries'[n] = s
        BY <4>1, ListsAppends
      <4> QED
        BY <1>1, <2>5, <3>3, <4>1, <4>2 DEF GptInv, OfPrimary
    <3>5. CASE UNCHANGED summaries
      BY <1>1, <2>5, <3>3, <3>5 DEF GptInv, OfPrimary
    <3> QED
      BY <3>2, <3>4, <3>5, Frame
  <2>6. Found("HiddenGpt")' \/ Found("SpoofedProtectiveMbr")' \/ Found("HybridMbr")' => ~OnGptDisk
    BY <2>4 DEF GptObjections
  <2> QED
    BY <2>1, <2>3, <2>5, <2>6 DEF GptInv
<1> QED
  BY <1>2, <1>3

\* Traces are looked for in the last stage.
LEMMA TraceStageStep ==
  ShareInv /\ CalleeInv /\ LeftInv /\ TraceStageInv /\ [Next]_vars => TraceStageInv'
<1> SUFFICES ASSUME ShareInv, CalleeInv, LeftInv, TraceStageInv, [Next]_vars,
                    stage' \notin Gapped, NEW kind \in Traces, Found(kind)'
             PROVE  FALSE
  BY DEF TraceStageInv, Traces
<1>1. PICK f : Among(f, findings') /\ f.kind = kind
  BY FoundAmongNext
<1>2. stage # "content" /\ stage # "done"
  <2> SUFFICES ASSUME stage \in {"content", "done"} PROVE FALSE
    OBVIOUS
  <2>1. stage' \in {"content", "done"}
    BY DEF Next, Step, Returned, vars, ReadMbrFails, ReadMbr, CheckBootCode, CheckDiskSignature,
       CheckReserved, CheckBootableFlags, CheckDuplicateEntries, CheckGpt, TableCheck,
       ScanResidual, ScanEmpty, ScanEntry, ScanStep, NoExtended, CallWalk,
       WalkStep, WalkFails, WalkReturns, AddLogical, LogicalsDone, OverlapStep,
       OverlapsChecked, GapStep, GapsChecked, SampleGap, Return
  <2> QED
    BY <2>1 DEF Gapped
<1>3. CASE Among(f, findings)
  BY <1>1, <1>2, <1>3, FoundAmong DEF TraceStageInv, Gapped, Traces
<1>4. CASE Attributed(f)
  BY <1>1, <1>2, <1>4 DEF Attributed, SampleGap
<1> QED
  BY <1>1, <1>3, <1>4, FindingsGrow

\* What the overlap sweep found is recorded.
LEMMA OverlapStepInv ==
  /\ ShareInv /\ CalleeInv /\ LeftInv /\ ScanInv /\ IndexInv /\ DataInv /\ OverlapInv
  /\ [Next]_vars
  => OverlapInv'
<1> SUFFICES ASSUME ShareInv, CalleeInv, LeftInv, ScanInv, IndexInv, DataInv, OverlapInv, [Next]_vars,
                    stage' \in Swept,
                    NEW m \in 1..Len(summaries'), NEW n \in 1..Len(summaries'), m # n,
                    IsData(summaries'[m]), IsData(summaries'[n]),
                    Intersect(summaries'[m], summaries'[n])
             PROVE  \E f : /\ Among(f, findings') /\ f.kind = "OverlappingPartitions"
                           /\ f.about.a \in {summaries'[m].index, summaries'[n].index}
  BY DEF OverlapInv, Among, IsData, Intersect
<1>1. stage \in Stages
  BY DEF ShareInv
<1>2. stage \in Swept \/ OverlapsChecked
  <2>1. ~(stage' = "content" /\ GapsChecked /\ stage \notin Swept)
    BY DEF GapsChecked, Swept
  <2> QED
    BY <1>1, <2>1, Order DEF Swept
<1>3. summaries' = summaries
  <2>1. ~ScanEntry /\ ~AddLogical
    BY <1>2 DEF ScanEntry, ScanStep, AddLogical, Swept, OverlapsChecked
  <2> QED
    BY <2>1, Frame
<1>4. CASE stage \in Swept
  <2>1. \E f : /\ Among(f, findings) /\ f.kind = "OverlappingPartitions"
               /\ f.about.a \in {summaries[m].index, summaries[n].index}
    BY <1>3, <1>4 DEF OverlapInv, Among
  <2> QED
    BY <1>3, <2>1, FindingsGrow
<1>5. CASE OverlapsChecked
  <2>1. OP!SweepInv /\ sub = "done" /\ findings' = findings \o
          [k \in 1..Len(overlaps) |-> Finding("OverlappingPartitions", overlaps[k])]
    BY <1>5 DEF OverlapsChecked, CalleeInv, Record
  <2>2. OP!EveryOverlapSurfaces
    BY <2>1, CalleeAssumptions, OP!SweepInvSurfaces
  <2>3. PICK j \in 1..Len(overlap_extents) : SameExtent(overlap_extents[j], summaries[m])
    BY <1>3 DEF DataInv
  <2>4. PICK k \in 1..Len(overlap_extents) : SameExtent(overlap_extents[k], summaries[n])
    BY <1>3 DEF DataInv
  <2>5. summaries[m].index # summaries[n].index
    BY <1>3, IndexUnique
  <2>6. j # k
    BY <2>3, <2>4, <2>5 DEF SameExtent
  <2>7. OP!Intersect(overlap_extents[j], overlap_extents[k])
        /\ OP!Intersect(overlap_extents[k], overlap_extents[j])
    BY <1>3, <2>3, <2>4 DEF SameExtent, OP!Intersect, Intersect
  <2>8. OP!Before(OP!Starts, j, k) \/ OP!Before(OP!Starts, k, j)
    <3> DEFINE E == [id : Nat, start : 0..U64Max, end : 0..U64Max]
    <3>1. overlap_extents \in Seq(E)
      BY DEF ScanInv
    <3>2. \A x \in E : x.start \in Nat
      BY WidthAssumption
    <3> HIDE DEF E
    <3>3. overlap_extents[j].start \in Nat /\ overlap_extents[k].start \in Nat
      BY <3>1, <3>2
    <3>4. OP!Starts[j] = overlap_extents[j].start /\ OP!Starts[k] = overlap_extents[k].start
      BY DEF OP!Starts
    <3>5. j \in Int /\ k \in Int
      BY <3>1
    <3> QED
      BY <2>6, <3>3, <3>4, <3>5 DEF OP!Before
  <2>9. \E r \in 1..Len(overlaps) : overlaps[r].a \in {summaries[m].index, summaries[n].index}
    BY <2>1, <2>2, <2>3, <2>4, <2>7, <2>8 DEF OP!EveryOverlapSurfaces, SameExtent
  <2>10. PICK r \in 1..Len(overlaps) : overlaps[r].a \in {summaries[m].index, summaries[n].index}
    BY <2>9
  <2> DEFINE q == Len(overlaps)
             fs == [c \in 1..q |-> Finding("OverlappingPartitions", overlaps[c])]
  <2>11. q \in Nat
    BY <2>1 DEF OP!SweepInv, OP!TypeOK
  <2>12. fs = [c \in 1..q |-> fs[c]] /\ fs[r] = Finding("OverlappingPartitions", overlaps[r])
    OBVIOUS
  <2>13. findings' = findings \o fs /\ Proper(findings) /\ r \in 1..q
    BY <2>1 DEF ShareInv
  <2> HIDE DEF fs, q
  <2>14. Proper(fs) /\ Among(fs[r], fs)
    BY <2>11, <2>12, <2>13, EachAmong
  <2>15. Among(fs[r], findings')
    BY <2>13, <2>14, ConcatAmong
  <2>16. fs[r].kind = "OverlappingPartitions" /\ fs[r].about = overlaps[r]
    BY <2>12 DEF Finding
  <2> QED
    BY <1>3, <2>10, <2>15, <2>16
<1> QED
  BY <1>2, <1>4, <1>5

\* The chain's logicals get listed, all of them.
LEMMA LogicalsStep ==
  /\ ShareInv /\ FreshInv /\ CalleeInv /\ LeftInv /\ ScanInv /\ LogicalsInv /\ [Next]_vars
  => LogicalsInv'
<1> SUFFICES ASSUME ShareInv, FreshInv, CalleeInv, LeftInv, ScanInv, LogicalsInv, [Next]_vars
             PROVE  LogicalsInv'
  OBVIOUS
<1>1. image' = image /\ mbr' = mbr /\ image \in Images /\ stage \in Stages /\ i \in Nat \ {0}
  BY Frame DEF ShareInv, mbr
<1>2. ExtendedSlot' = ExtendedSlot /\ \A l : AsEbr(l)' = AsEbr(l)
  BY <1>1 DEF ExtendedSlot, mbr, AsEbr
<1> SUFFICES ASSUME stage' \in Walked
             PROVE  /\ \/ ExtendedSlot = NoSlot
                       \/ \E l \in 0..(2 * U32Max) : AsEbr(l).io = "noseek"
                       \/ Found("EbrExcessiveDepth")'
                       \/ ChainComplete'
                    /\ \A n \in 1..Len(ebr_entries') :
                         /\ Described(n)'
                         /\ (stage' = "logicals" => n < i') =>
                              \E m \in 1..Len(summaries') :
                                /\ summaries'[m].index >= EBR_INDEX_BASE
                                /\ summaries'[m].lba_start = ebr_entries'[n].logical_lba_start
  BY <1>2 DEF LogicalsInv
<1>3. CASE NoExtended
  <2>1. ExtendedSlot = NoSlot /\ ebr_entries' = ebr_entries /\ stage = "scan"
    BY <1>3 DEF NoExtended, walk
  <2>2. ebr_entries' = <<>>
    BY <2>1 DEF FreshInv
  <2> QED
    BY <2>1, <2>2
<1>4. CASE WalkFails \/ WalkReturns
  <2>1. stage = "walk" /\ (WalkReturns => sub = "done") /\ (WalkFails => sub = "failed")
    BY <1>4 DEF WalkFails, WalkReturns
  <2>2. EP!WalkInv /\ ExtendedSlot \in 1..4 /\ ext_start_lba = mbr.entries[ExtendedSlot].lba_start
    BY <2>1 DEF CalleeInv
  <2>3. ext_start_lba \in 0..U32Max
    BY <1>1, <2>2, ImageTypes, EndTypes
  <2>4. CASE WalkFails
    <3>1. ebr_entries' = <<>>
      BY <2>4 DEF WalkFails
    <3> QED
      BY <1>1, <2>1, <2>2, <2>3, <2>4, <3>1, ChainFacts
  <2>5. CASE WalkReturns
    <3>1. ebr_entries' = ebr_entries /\ stage' = "logicals" /\ i' = 1
      BY <2>5 DEF WalkReturns, walk, Enter
    <3>2. \A n \in 1..Len(ebr_entries) : Described(n)
      BY <1>1, <2>2, <2>3, ChainFacts
    <3>3. \A n \in 1..Len(ebr_entries') : Described(n)'
      BY <1>2, <3>1, <3>2 DEF Described
    <3>4. Len(ebr_entries) \in Nat
      BY <1>1, <2>2, <2>3, ChainFacts
    <3>5. CASE ~depth_exceeded
      <4>1. ChainComplete
        BY <1>1, <2>1, <2>2, <2>5, <3>5, WalkComplete
      <4>2. ChainComplete'
        BY <1>1, <1>2, <3>1, <4>1 DEF ChainComplete, ChainLbas, Readable
      <4> QED
        BY <3>1, <3>3, <3>4, <4>2
    <3>6. CASE depth_exceeded
      <4> DEFINE c == When(had_cycle, Finding("EbrCycle", 0))
                 x == Finding("EbrExcessiveDepth", Len(ebr_entries))
                 d == When(depth_exceeded, x)
      <4>1. findings' = findings \o (c \o d) /\ Proper(findings)
        BY <2>5 DEF WalkReturns, Record, ShareInv
      <4>2. had_cycle \in BOOLEAN /\ depth_exceeded \in BOOLEAN
        BY <2>2 DEF EP!WalkInv, EP!TypeOK
      <4> HIDE DEF x
      <4>3. Proper(c) /\ Proper(d) /\ Among(x, d)
        BY <3>6, <4>2, WhenAmong
      <4> HIDE DEF c, d
      <4>4. Proper(c \o d) /\ Among(x, c \o d)
        BY <4>3, ConcatAmong
      <4>5. Among(x, findings') /\ x.kind = "EbrExcessiveDepth"
        BY <4>1, <4>4, ConcatAmong DEF x, Finding
      <4>6. Found("EbrExcessiveDepth")'
        BY <4>5, FoundAmongNext
      <4> QED
        BY <3>1, <3>3, <3>4, <4>6
    <3> QED
      BY <3>5, <3>6
  <2> QED
    BY <1>4, <2>4, <2>5
<1>5. CASE stage \in Walked
  <2>1. /\ \/ ExtendedSlot = NoSlot
           \/ \E l \in 0..(2 * U32Max) : AsEbr(l).io = "noseek"
           \/ Found("EbrExcessiveDepth")
           \/ ChainComplete
        /\ \A n \in 1..Len(ebr_entries) :
             /\ Described(n)
             /\ (stage = "logicals" => n < i) =>
                  \E m \in 1..Len(summaries) :
                    /\ summaries[m].index >= EBR_INDEX_BASE
                    /\ summaries[m].lba_start = ebr_entries[n].logical_lba_start
    BY <1>5 DEF LogicalsInv
  <2>2. ebr_entries' = ebr_entries
    <3>1. ~WalkStep /\ ~WalkFails
      BY <1>5 DEF WalkStep, WalkFails, Walked
    <3> QED
      BY <3>1, Frame
  <2>3. \/ ExtendedSlot = NoSlot
        \/ \E l \in 0..(2 * U32Max) : AsEbr(l).io = "noseek"
        \/ Found("EbrExcessiveDepth")'
        \/ ChainComplete'
    <3>1. Found("EbrExcessiveDepth") => Found("EbrExcessiveDepth")'
      BY FoundStays
    <3>2. ChainComplete => ChainComplete'
      BY <1>1, <1>2, <2>2 DEF ChainComplete, ChainLbas, Readable
    <3> QED
      BY <2>1, <3>1, <3>2
  <2>4. ASSUME NEW n \in 1..Len(ebr_entries), stage = "logicals" => n < i
        PROVE  \E m \in 1..Len(summaries') :
                 /\ summaries'[m].index >= EBR_INDEX_BASE
                 /\ summaries'[m].lba_start = ebr_entries[n].logical_lba_start
    <3>1. PICK m \in 1..Len(summaries) :
                 /\ summaries[m].index >= EBR_INDEX_BASE
                 /\ summaries[m].lba_start = ebr_entries[n].logical_lba_start
      BY <2>1, <2>4
    <3>2. m \in 1..Len(summaries') /\ summaries'[m] = summaries[m]
      <4>1. CASE ScanEntry \/ AddLogical
        BY <4>1, ScanLists, LogicalLists, ListsAppends
      <4>2. CASE UNCHANGED summaries
        BY <4>2
      <4> QED
        BY <4>1, <4>2, Frame
    <3> QED
      BY <3>1, <3>2
  <2>5. ASSUME NEW n \in 1..Len(ebr_entries), stage' = "logicals" => n < i'
        PROVE  \E m \in 1..Len(summaries') :
                 /\ summaries'[m].index >= EBR_INDEX_BASE
                 /\ summaries'[m].lba_start = ebr_entries[n].logical_lba_start
    <3>1. CASE stage # "logicals" \/ n < i
      BY <2>4, <3>1
    <3>2. CASE stage = "logicals" /\ ~(n < i)
      <4>1. Len(ebr_entries) \in Nat /\ n \in Nat /\ n <= Len(ebr_entries)
        <5>1. ebr_entries \in Seq(Logical)
          BY <3>2 DEF CalleeInv
        <5> QED
          BY <5>1
      <4>2. ~LogicalsDone
        BY <1>1, <3>2, <4>1 DEF LogicalsDone
      <4>3. ~UNCHANGED vars
        BY <2>5, <3>2 DEF vars
      <4>4. AddLogical
        BY <3>2, <4>2, <4>3, LogicalActions
      <4>5. PICK s : /\ Lists(s) /\ s.index = EBR_INDEX_BASE + Len(summaries)
                     /\ i' = i + 1 /\ stage' = "logicals"
                     /\ s.lba_start = ebr_entries[i].logical_lba_start
        BY <4>4, LogicalLists
      <4>6. n = i
        BY <1>1, <2>5, <3>2, <4>1, <4>5
      <4>7. /\ Len(summaries) \in Nat
            /\ Len(summaries') \in 1..Len(summaries') /\ summaries'[Len(summaries')] = s
        BY <4>5, ListsAppends
      <4>8. s.index >= EBR_INDEX_BASE
        BY <4>5, <4>7, WidthAssumption
      <4> QED
        BY <4>5, <4>6, <4>7, <4>8
    <3> QED
      BY <3>1, <3>2
  <2>6. \A n \in 1..Len(ebr_entries') : Described(n)'
    BY <1>2, <2>1, <2>2 DEF Described
  <2> QED
    BY <2>2, <2>3, <2>5, <2>6
<1>6. stage \in Walked \/ NoExtended \/ WalkFails \/ WalkReturns
  <2>1. ~(stage \notin Walked /\ (OverlapsChecked \/ GapsChecked \/ LogicalsDone))
    BY DEF OverlapsChecked, GapsChecked, LogicalsDone, Walked
  <2> QED
    BY <1>1, <2>1, Order DEF Walked
<1> QED
  BY <1>3, <1>4, <1>5, <1>6

\* The gaps the sweep returned are those of the listed partitions, and recorded.
LEMMA LeftStep ==
  ShareInv /\ CalleeInv /\ ScanInv /\ LeftInv /\ [Next]_vars => LeftInv'
<1> SUFFICES ASSUME ShareInv, CalleeInv, ScanInv, LeftInv, [Next]_vars, stage' \in Gapped
             PROVE  LeftInv'
  BY DEF LeftInv
<1>1. image' = image /\ image \in Images /\ stage \in Stages
  BY Frame DEF ShareInv
<1>2. stage \in Gapped \/ GapsChecked
  BY <1>1, Order DEF Gapped
<1>3. summaries' = summaries /\ last_lba' = last_lba /\ gaps' = gaps
  <2>1. ~ScanEntry /\ ~AddLogical /\ ~GapStep /\ ~ReadMbr
    <3>1. ~(GapStep /\ GapsChecked)
      BY DEF GapStep, GapsChecked, Enter
    <3> QED
      BY <1>2, <3>1 DEF ScanEntry, ScanStep, AddLogical, Gapped, GapsChecked, ReadMbr, GapStep
  <2> QED
    BY <2>1, Frame
<1>4. \A l : (InGap(l)' <=> InGap(l)) /\ (Claimed(l)' <=> Claimed(l))
  BY <1>3 DEF InGap, Claimed
<1>5. CASE stage \in Gapped
  <2>1. Found("InterPartitionGap") => Found("InterPartitionGap")'
    BY FoundStays
  <2>2. /\ gaps \in Seq(GapSweep!Gap)
        /\ image.size = 0 => Len(gaps) = 0
        /\ image.size # 0 => \A l \in FIRST_USABLE..U64Max :
             InGap(l) <=> /\ ~Claimed(l)
                          /\ \/ l <= last_lba
                             \/ \E n \in 1..Len(summaries) : l < summaries[n].lba_start
        /\ \A k \in 1..Len(gaps) :
             LET g == gaps[k] IN
             /\ g.lba_start >= FIRST_USABLE
             /\ g.lba_start <= g.lba_end /\ g.lba_end <= U64Max
             /\ GP!Fits(g)
             /\ g.kind = "PrePartition" => g.lba_start = FIRST_USABLE
             /\ g.kind = "Between" => Found("InterPartitionGap")
             /\ g.kind = "PostPartition" => g.lba_end = last_lba
    BY <1>5 DEF LeftInv
  <2>3. GP!Gap' = GP!Gap /\ GapSweep!Gap' = GapSweep!Gap /\ \A g : GP!Fits(g)' <=> GP!Fits(g)
    BY DEF GP!Gap, GapSweep!Gap, GP!Fits
  <2> QED
    BY <1>1, <1>3, <1>4, <2>1, <2>2, <2>3 DEF LeftInv
<1>6. CASE GapsChecked
  <2>1. /\ GP!GapInv /\ sub = "done" /\ stage = "gaps"
        /\ findings' = findings \o [k \in 1..Len(gaps) |-> Finding(GapAnomalyKind(gaps[k]), gaps[k])]
    BY <1>6 DEF GapsChecked, CalleeInv, Record
  <2>2. GP!GapsAreTheComplement
    BY <2>1, CalleeAssumptions, GP!GapInvComplement
  <2>3. gaps \in Seq(GP!Gap) /\ last_lba \in 0..U64Max
    BY <2>1 DEF GP!GapInv, GP!TypeOK
  <2>4. Len(gaps) \in Nat /\ \A k \in 1..Len(gaps) : gaps[k] \in GP!Gap
    BY <2>3
  <2>5. image.size = 0 => Len(gaps) = 0
    BY <2>1 DEF GP!GapInv, GP!CursorInv
  <2>6. \A l : (GP!InGap(l) <=> InGap(l)) /\ (GP!Claimed(l) <=> Claimed(l))
    <3>1. \A l : GP!InGap(l) <=> InGap(l)
      BY DEF GP!InGap, InGap
    <3>2. \A l : GP!Claimed(l) <=> Claimed(l)
      BY DEF GP!Claimed, Claimed, ScanInv
    <3> QED
      BY <3>1, <3>2
  <2>7. image.size # 0 => \A l \in FIRST_USABLE..U64Max :
          InGap(l) <=> /\ ~Claimed(l)
                       /\ \/ l <= last_lba
                          \/ \E n \in 1..Len(summaries) : l < summaries[n].lba_start
    <3>1. \A l : (\E k \in 1..Len(extents) : l < extents[k].start)
                 <=> \E n \in 1..Len(summaries) : l < summaries[n].lba_start
      BY DEF ScanInv
    <3> QED
      BY <2>1, <2>2, <2>6, <3>1 DEF GP!GapsAreTheComplement
  <2>8. ASSUME NEW k \in 1..Len(gaps)
        PROVE  LET g == gaps[k] IN
               /\ g.lba_start >= FIRST_USABLE
               /\ g.lba_start <= g.lba_end /\ g.lba_end <= U64Max
               /\ GP!Fits(g)
               /\ g.kind = "PrePartition" => g.lba_start = FIRST_USABLE
               /\ g.kind = "Between" => Found("InterPartitionGap")'
               /\ g.kind = "PostPartition" => g.lba_end = last_lba
    <3>1. /\ gaps[k].lba_start >= FIRST_USABLE /\ GP!Fits(gaps[k])
          /\ gaps[k].lba_start <= gaps[k].lba_end
      BY <2>1 DEF GP!GapInv, GP!UsableInv, GP!GapsAscend
    <3>2. /\ gaps[k].kind = "PrePartition" =>
               /\ gaps[k].lba_start = FIRST_USABLE
               /\ \E j \in 1..Len(extents) : extents[j].start = gaps[k].lba_end + 1
          /\ gaps[k].kind = "Between" =>
               \E j \in 1..Len(extents) : extents[j].start = gaps[k].lba_end + 1
          /\ gaps[k].kind = "PostPartition" => gaps[k].lba_end = last_lba
      BY <2>1 DEF GP!GapInv, GP!GapKindsAreTrue
    <3>3. gaps[k].lba_end \in Nat /\ gaps[k].kind \in {"PrePartition", "Between", "PostPartition"}
      BY <2>4 DEF GP!Gap
    <3>4. \A j \in 1..Len(extents) : extents[j].start \in Nat /\ extents[j].start <= U64Max
      <4>1. extents \in Seq(GapSweep!Extent)
        BY DEF ScanInv
      <4>2. \A x \in GapSweep!Extent : x.start \in Nat /\ x.start <= U64Max
        BY WidthAssumption DEF GapSweep!Extent
      <4> QED
        BY <4>1, <4>2
    <3>5. gaps[k].lba_end <= U64Max
      BY <2>3, <3>2, <3>3, <3>4, WidthAssumption
    <3>6. ASSUME gaps[k].kind = "Between" PROVE Found("InterPartitionGap")'
      <4> DEFINE q == Len(gaps)
                 fs == [m \in 1..q |-> Finding(GapAnomalyKind(gaps[m]), gaps[m])]
      <4>1. fs = [m \in 1..q |-> fs[m]] /\ fs[k] = Finding(GapAnomalyKind(gaps[k]), gaps[k])
        OBVIOUS
      <4>2. findings' = findings \o fs /\ Proper(findings) /\ k \in 1..q /\ q \in Nat
        BY <2>1, <2>4 DEF ShareInv
      <4>3. GapAnomalyKind(gaps[k]) = "InterPartitionGap"
        BY <3>6 DEF GapAnomalyKind
      <4> HIDE DEF fs, q
      <4>4. Proper(fs) /\ Among(fs[k], fs)
        BY <4>1, <4>2, EachAmong
      <4>5. Among(fs[k], findings')
        BY <4>2, <4>4, ConcatAmong
      <4>6. fs[k].kind = "InterPartitionGap"
        BY <4>1, <4>3 DEF Finding
      <4> QED
        BY <4>5, <4>6, FoundAmongNext
    <3> QED
      BY <3>1, <3>2, <3>5, <3>6
  <2>9. GP!Gap' = GapSweep!Gap /\ GP!Gap = GapSweep!Gap /\ GapSweep!Gap' = GapSweep!Gap
        /\ \A g : GP!Fits(g)' <=> GP!Fits(g)
    BY DEF GP!Gap, GapSweep!Gap, GP!Fits
  <2> QED
    BY <1>1, <1>3, <1>4, <2>3, <2>5, <2>7, <2>8, <2>9 DEF LeftInv
<1> QED
  BY <1>2, <1>5, <1>6

-----------------------------------------------------------------------------
(* Bytes and sectors. *)

\* Multiplying by a sector size is monotonic.
LEMMA TimesMonotonic ==
  ASSUME NEW a \in Nat, NEW b \in Nat, NEW s \in Nat, a <= b
  PROVE  a * s <= b * s
<1>1. PICK d \in Nat : b = a + d
  <2>1. b - a \in Nat /\ b = a + (b - a)
    OBVIOUS
  <2> QED
    BY <2>1
<1>2. b * s = a * s + d * s
  BY <1>1
<1>3. d * s \in Nat /\ a * s \in Nat
  OBVIOUS
<1> QED
  BY <1>2, <1>3

\* The sector of a byte between two sector boundaries.
LEMMA SectorBounds ==
  ASSUME NEW s \in Nat \ {0}, NEW a \in Nat, NEW b \in Nat, NEW o \in Nat,
         a * s <= o, o < (b + 1) * s
  PROVE  o \div s \in a..b
<1> DEFINE q == o \div s
           r == o % s
<1>1. q \in Nat /\ r \in 0..(s - 1) /\ o = q * s + r
  OBVIOUS
<1> HIDE DEF q, r
<1>2. a <= q
  <2> SUFFICES ASSUME q + 1 <= a PROVE FALSE
    BY <1>1
  <2>1. (q + 1) * s <= a * s
    BY <1>1, TimesMonotonic
  <2>2. (q + 1) * s = q * s + s
    BY <1>1
  <2>3. q * s \in Nat /\ a * s \in Nat
    BY <1>1
  <2> QED
    BY <1>1, <2>1, <2>2, <2>3
<1>3. q <= b
  <2> SUFFICES ASSUME b + 1 <= q PROVE FALSE
    BY <1>1
  <2>1. (b + 1) * s <= q * s
    BY <1>1, TimesMonotonic
  <2>2. q * s \in Nat /\ (b + 1) * s \in Nat
    BY <1>1
  <2> QED
    BY <1>1, <2>1, <2>2
<1> QED
  BY <1>1, <1>2, <1>3 DEF q

\* The last sector of the disk starts on it.
LEMMA LastSectorOnDisk ==
  ASSUME NEW size \in Nat, size > 0, NEW l \in Nat, l <= GapSweep!DiskLastLba(size)
  PROVE  l * SectorSize <= size
<1> DEFINE q == size \div SectorSize
           r == size % SectorSize
<1>1. SectorSize \in Nat \ {0}
  BY WidthAssumption
<1>2. q \in Nat /\ r \in Nat /\ size = q * SectorSize + r
  BY <1>1
<1>3. GapSweep!DiskLastLba(size) = IF q = 0 THEN 0 ELSE q - 1
  BY DEF GapSweep!DiskLastLba
<1> HIDE DEF q, r
<1>4. l <= q
  BY <1>2, <1>3
<1>5. l * SectorSize <= q * SectorSize
  BY <1>1, <1>2, <1>4, TimesMonotonic
<1>6. q * SectorSize \in Nat /\ l * SectorSize \in Nat
  BY <1>1, <1>2
<1> QED
  BY <1>2, <1>5, <1>6

\* No byte offset of a gap saturates: the sample of a gap lies in its sectors.
LEMMA SampleInGap ==
  ASSUME ShareInv, ScanInv, LeftInv, stage = "content", NEW k \in 1..Len(gaps),
         3 * U32Max * SectorSize <= U64Max
  PROVE  LET g == gaps[k]  base == LbaToByte(g.lba_start) IN
         /\ ~Claimed(g.lba_start)
         /\ \A o \in base..(base + SampleLen(g) - 1) : ~Claimed(SectorOf(o))
<1> DEFINE g == gaps[k]
           first == g.lba_start
           last == g.lba_end
           size == image.size
           bytes == (last - first + 1) * SectorSize
<1>1. gaps \in Seq(GapSweep!Gap) /\ Len(gaps) \in Nat
  BY DEF LeftInv, Gapped
<1>2. g \in GapSweep!Gap
  BY <1>1
<1>3. first \in Nat /\ last \in Nat /\ g.byte_size \in Nat
  BY <1>2, WidthAssumption DEF GapSweep!Gap
<1>4. /\ first >= FIRST_USABLE /\ first <= last /\ last <= U64Max
      /\ g.byte_size <= bytes
  BY DEF LeftInv, Gapped, GP!Fits
<1>5. SectorSize \in Nat \ {0} /\ U64Max \in Nat /\ FIRST_USABLE \in Nat
  BY WidthAssumption
<1>6. size \in 0..U64Max /\ size # 0
  BY <1>1, ImageTypes DEF ShareInv, LeftInv, Gapped
<1>7. \A l \in FIRST_USABLE..U64Max :
        InGap(l) <=> /\ ~Claimed(l)
                     /\ \/ l <= last_lba
                        \/ \E n \in 1..Len(summaries) : l < summaries[n].lba_start
  BY <1>6 DEF LeftInv, Gapped
<1>8. \A l \in first..last : /\ l \in FIRST_USABLE..U64Max /\ InGap(l)
  <2> TAKE l \in first..last
  <2>1. l \in FIRST_USABLE..U64Max
    BY <1>3, <1>4, <1>5
  <2>2. InGap(l)
    BY <1>3 DEF InGap
  <2> QED
    BY <2>1, <2>2
<1>9. \A l \in first..last : ~Claimed(l)
  BY <1>7, <1>8
<1> DEFINE S == SectorSize
<1>10. first * S <= U64Max
  <2>1. first \in first..last
    BY <1>3, <1>4
  <2>2. CASE first <= last_lba
    <3>1. last_lba = GapSweep!DiskLastLba(size)
      BY DEF ShareInv
    <3>2. size \in Nat /\ size > 0
      BY <1>5, <1>6
    <3> HIDE DEF size, first
    <3>3. first * S <= size
      BY <1>3, <2>2, <3>1, <3>2, LastSectorOnDisk
    <3>4. first * S \in Nat
      BY <1>3, <1>5
    <3> QED
      BY <1>5, <1>6, <3>3, <3>4
  <2>3. CASE \E n \in 1..Len(summaries) : first < summaries[n].lba_start
    <3>1. PICK n \in 1..Len(summaries) : first < summaries[n].lba_start
      BY <2>3
    <3>2. summaries \in Seq(Listing)
      BY DEF ScanInv
    <3>3. summaries[n] \in Listing
      BY <3>2
    <3>4. summaries[n].lba_start \in Nat /\ summaries[n].lba_start <= 3 * U32Max
      BY <3>3, WidthAssumption DEF Listing, PartitionSummary
    <3>5. first <= 3 * U32Max /\ 3 * U32Max \in Nat
      BY <1>3, <3>1, <3>4, U32Assumption
    <3> HIDE DEF first
    <3>6. first * S <= (3 * U32Max) * S
      BY <1>3, <1>5, <3>5, TimesMonotonic
    <3>7. first * S \in Nat /\ (3 * U32Max) * S \in Nat
      BY <1>3, <1>5, <3>5
    <3> QED
      BY <1>5, <3>6, <3>7
  <2> QED
    BY <1>7, <1>8, <2>1, <2>2, <2>3
<1>11. LbaToByte(first) = first * S /\ first * S \in Nat
  BY <1>3, <1>5, <1>10 DEF LbaToByte
<1>12. SampleLen(g) \in Nat /\ SampleLen(g) <= g.byte_size
  BY <1>3, WidthAssumption DEF SampleLen
<1>13. bytes = (last + 1) * S - first * S /\ (last + 1) * S \in Nat /\ bytes \in Int
  <2> HIDE DEF first, last
  <2>1. (last - first + 1) * S = (last + 1) * S - first * S
    BY <1>3, <1>5
  <2>2. (last + 1) * S \in Nat /\ first * S \in Nat
    BY <1>3, <1>5
  <2> QED
    BY <2>1, <2>2
<1>14. ASSUME NEW o \in LbaToByte(first)..(LbaToByte(first) + SampleLen(g) - 1)
       PROVE  ~Claimed(SectorOf(o))
  <2> HIDE DEF g, first, last, bytes, S
  <2>1. o \in Nat /\ first * S <= o /\ o < (last + 1) * S
    BY <1>3, <1>4, <1>11, <1>12, <1>13
  <2>2. o \div S \in first..last
    BY <1>3, <1>5, <2>1, SectorBounds DEF S
  <2> QED
    BY <1>9, <2>2 DEF SectorOf, S
<1>15. ~Claimed(first)
  <2>1. first \in first..last
    BY <1>3, <1>4
  <2> QED
    BY <1>9, <2>1
<1> QED
  BY <1>14, <1>15

\* A trace is found where the sample of a gap was taken.
LEMMA TracesStep ==
  ASSUME 3 * U32Max * SectorSize <= U64Max
  PROVE  /\ ShareInv /\ CalleeInv /\ ScanInv /\ LeftInv /\ TraceStageInv
         /\ TracesLieOutsidePartitions /\ [Next]_vars
         => TracesLieOutsidePartitions'
<1> DEFINE Outside(f) == /\ f.kind = "WipedRegion" => ~Claimed(f.about)
                         /\ f.kind = "CarvedArtifact" => ~Claimed(SectorOf(f.about))
<1> SUFFICES ASSUME ShareInv, CalleeInv, ScanInv, LeftInv, TraceStageInv,
                    TracesLieOutsidePartitions, [Next]_vars
             PROVE  TracesLieOutsidePartitions'
  OBVIOUS
<1>1. \A f : Among(f, findings) => Outside(f)
  BY DEF TracesLieOutsidePartitions, Among
<1>2. ASSUME summaries' = summaries, \A f : Among(f, findings') => Outside(f)
      PROVE  TracesLieOutsidePartitions'
  <2>1. \A l : Claimed(l)' <=> Claimed(l)
    BY <1>2 DEF Claimed
  <2>2. \A k \in 1..Len(findings') : Outside(findings'[k])
    BY <1>2 DEF Among
  <2>3. ASSUME NEW k \in 1..Len(findings')
        PROVE  /\ findings'[k].kind = "WipedRegion" => ~Claimed(findings[k].about)'
               /\ findings'[k].kind = "CarvedArtifact" => ~Claimed(SectorOf(findings[k].about))'
    BY <1>2, <2>2 DEF Claimed, SectorOf
  <2> QED
    BY <2>3 DEF TracesLieOutsidePartitions
<1>3. CASE SampleGap
  <2> DEFINE g == gaps[i]
             fs == SampleFindings(g)
             base == LbaToByte(g.lba_start)
  <2>1. /\ findings' = findings \o fs /\ stage = "content" /\ summaries' = summaries
        /\ i \in 1..Len(gaps) /\ Proper(findings)
    BY <1>3 DEF SampleGap, Record, scan, ShareInv, LeftInv, Gapped
  <2>2. g.lba_start \in Nat /\ g.byte_size \in Nat
    <3>1. gaps \in Seq(GapSweep!Gap)
      BY <2>1 DEF LeftInv, Gapped
    <3>2. g \in GapSweep!Gap
      BY <2>1, <3>1
    <3> QED
      BY <3>2, WidthAssumption DEF GapSweep!Gap
  <2>3. /\ ~Claimed(g.lba_start)
        /\ \A o \in base..(base + SampleLen(g) - 1) : ~Claimed(SectorOf(o))
    BY <2>1, SampleInGap
  <2> HIDE DEF g
  <2>4. /\ Proper(fs)
        /\ \A f : Among(f, fs) =>
             \/ f = Finding("WipedRegion", g.lba_start)
             \/ \E o \in base..(base + SampleLen(g) - 1) : f = Finding("CarvedArtifact", o)
    BY <2>2, GapSampleFindings
  <2> HIDE DEF fs, base
  <2>5. ASSUME NEW f, Among(f, fs) PROVE Outside(f)
    BY <2>3, <2>4, <2>5 DEF Finding
  <2>6. \A f : Among(f, findings') => Among(f, findings) \/ Among(f, fs)
    BY <2>1, <2>4, ConcatAmong
  <2> HIDE DEF Outside
  <2> QED
    BY <1>1, <1>2, <2>1, <2>5, <2>6
<1>4. CASE ~SampleGap
  <2>1. \A f : Among(f, findings') /\ f.kind \in Traces => Among(f, findings)
    BY <1>4, FindingsGrow DEF Attributed
  <2>2. CASE summaries' = summaries
    <3>1. ASSUME NEW f, Among(f, findings') PROVE Outside(f)
      BY <1>1, <2>1, <3>1 DEF Traces
    <3> HIDE DEF Outside
    <3> QED
      BY <1>2, <2>2, <3>1
  <2>3. CASE ScanEntry \/ AddLogical
    <3>1. stage \notin Gapped
      BY <2>3 DEF ScanEntry, ScanStep, AddLogical, Gapped
    <3>2. \A f : Among(f, findings) => f.kind \notin Traces
      BY <3>1, FoundAmong DEF TraceStageInv, Traces
    <3>3. \A k \in 1..Len(findings') : findings'[k].kind \notin Traces
      BY <2>1, <3>2 DEF Among
    <3> QED
      BY <3>3 DEF TracesLieOutsidePartitions, Traces
  <2> QED
    BY <2>2, <2>3, Frame
<1> QED
  BY <1>3, <1>4

-----------------------------------------------------------------------------
(* The inductive invariant. *)

PipelineInv == /\ ShareInv /\ FreshInv /\ CalleeInv /\ ScanInv /\ IndexInv /\ PrimariesInv
               /\ DataInv /\ AboutListed /\ NothingBehind /\ MismatchesAgreeWithSummaries
               /\ AllBefore /\ BoundsInv /\ GptInv /\ OverlapInv /\ LeftInv /\ LogicalsInv /\ TraceStageInv

\* The pipeline starts in it.
LEMMA PipelineInit == Init => PipelineInv /\ TracesLieOutsidePartitions
<1> SUFFICES ASSUME Init PROVE PipelineInv /\ TracesLieOutsidePartitions
  OBVIOUS
<1>1. /\ image \in Images /\ stage = "read_mbr" /\ findings = <<>> /\ Len(findings) = 0
      /\ Len(summaries) = 0 /\ Len(extents) = 0 /\ Len(overlap_extents) = 0 /\ i = 1
      /\ gpt_header = FALSE
  BY DEF Init
<1>2. ShareInv
  <2>1. Proper(findings)
    BY <1>1, NoneAmong
  <2>2. stage \in Stages /\ stage \in {"read_mbr", "failed"}
    BY <1>1 DEF Stages, TableStages
  <2>3. last_lba = 0 /\ era = "Unknown"
    BY DEF Init
  <2>4. last_lba = IF stage \in {"read_mbr", "failed"} THEN 0
                   ELSE GapSweep!DiskLastLba(image.size)
    BY <2>2, <2>3, Zenon
  <2>5. i \in Nat \ {0} /\ era \in {"Modern", "LegacyCylinder", "Unknown"}
    BY <1>1, <2>3
  <2>6. gpt_header \in BOOLEAN
    BY <1>1, Zenon
  <2> QED
    BY <1>1, <2>1, <2>2, <2>4, <2>5, <2>6, Zenon DEF ShareInv
<1>3. FreshInv
  BY <1>1 DEF Init, FreshInv, TableStages, Swept
<1>4. CalleeInv
  BY <1>1 DEF CalleeInv
<1>5. ScanInv
  <2>1. /\ summaries \in Seq(Listing) /\ extents \in Seq(GapSweep!Extent)
        /\ overlap_extents \in Seq([id : Nat, start : 0..U64Max, end : 0..U64Max])
    BY DEF Init
  <2> QED
    BY <1>1, <2>1 DEF ScanInv
<1>6. IndexInv /\ PrimariesInv /\ DataInv
  BY <1>1 DEF IndexInv, PrimariesInv, DataInv, Scanned
<1>7. /\ AboutListed /\ NothingBehind /\ AllBefore /\ MismatchesAgreeWithSummaries
      /\ BoundsInv
  BY <1>1 DEF AboutListed, NothingBehind, AllBefore, MismatchesAgreeWithSummaries, BoundsInv
<1>8. GptInv
  BY <1>1 DEF GptInv, Found, OnGptDisk
<1>9. OverlapInv /\ LeftInv /\ LogicalsInv /\ TraceStageInv
  BY <1>1 DEF OverlapInv, LeftInv, LogicalsInv, TraceStageInv, Found, Swept, Gapped, Walked
<1>10. TracesLieOutsidePartitions
  BY <1>1 DEF TracesLieOutsidePartitions
<1> QED
  BY <1>2, <1>3, <1>4, <1>5, <1>6, <1>7, <1>8, <1>9, <1>10 DEF PipelineInv

\* Every step of the analysis keeps it.
LEMMA PipelineStep == PipelineInv /\ [Next]_vars => PipelineInv'
<1> SUFFICES ASSUME PipelineInv, [Next]_vars PROVE PipelineInv'
  OBVIOUS
<1> USE DEF PipelineInv
<1>1. ShareInv' /\ FreshInv' /\ CalleeInv'
  BY ShareStep, FreshStep, CalleeStep
<1>2. ScanInv' /\ IndexInv' /\ PrimariesInv' /\ DataInv'
  BY ScanInvStep, IndexStep, PrimariesStep, DataStep
<1>3. AboutListed' /\ NothingBehind' /\ AllBefore' /\ MismatchesAgreeWithSummaries'
  BY <1>2, ContentStep, AllBeforeStep
<1>4. BoundsInv' /\ GptInv' /\ OverlapInv'
  BY BoundsStep, GptStep, OverlapStepInv
<1>5. LeftInv' /\ LogicalsInv' /\ TraceStageInv'
  BY LeftStep, LogicalsStep, TraceStageStep
<1> QED
  BY <1>1, <1>2, <1>3, <1>4, <1>5

\* PipelineInv is an invariant of the analysis.
THEOREM PipelineInvariant == Spec => []PipelineInv
<1>1. Init => PipelineInv
  BY PipelineInit
<1> QED
  BY <1>1, PipelineStep, PTL DEF Spec

-----------------------------------------------------------------------------
(* The theorems. *)

\* The facts about one summary that the arguments below use.
LEMMA SummaryTypes ==
  ASSUME ScanInv, NEW n \in 1..Len(summaries)
  PROVE  /\ summaries[n] \in Listing /\ summaries[n].index \in Nat
         /\ summaries[n].lba_start \in Nat /\ summaries[n].lba_end \in Nat
<1>1. summaries \in Seq(Listing)
  BY DEF ScanInv
<1>2. summaries[n] \in Listing
  BY <1>1
<1> QED
  BY <1>2, WidthAssumption DEF Listing, PartitionSummary

\* Type correctness: every LBA and byte offset handed on fits a u64.
THEOREM AnalysisTypes == Spec => []TypeOK
<1>1. PipelineInv => TypeOK
  <2> SUFFICES ASSUME PipelineInv PROVE TypeOK
    OBVIOUS
  <2>1. ShareInv /\ ScanInv
    BY DEF PipelineInv
  <2>2. last_lba \in 0..U64Max
    <3>1. image.size \in 0..U64Max
      BY <2>1, ImageTypes DEF ShareInv
    <3>2. GP!DiskLastLba(image.size) \in 0..U64Max
      BY <3>1, CalleeAssumptions, GP!LastLbaType
    <3>3. GapSweep!DiskLastLba(image.size) = GP!DiskLastLba(image.size)
      BY DEF GapSweep!DiskLastLba, GP!DiskLastLba
    <3> QED
      BY <2>1, <3>2, <3>3, WidthAssumption DEF ShareInv
  <2>3. extents \in Seq([start : 0..U64Max, end : 0..U64Max])
    <3> DEFINE E == [start : 0..U64Max, end : 0..U64Max]
    <3>1. extents \in Seq(GapSweep!Extent)
      BY <2>1 DEF ScanInv
    <3>2. GapSweep!Extent \subseteq E
      BY WidthAssumption DEF GapSweep!Extent
    <3> HIDE DEF E
    <3>3. extents \in Seq(E)
      BY <3>1, <3>2
    <3> QED
      BY <3>3 DEF E
  <2>4. summaries \in Seq(PartitionSummary)
    <3>1. summaries \in Seq(Listing)
      BY <2>1 DEF ScanInv
    <3>2. Listing \subseteq PartitionSummary
      BY DEF Listing
    <3> QED
      BY <3>1, <3>2
  <2> QED
    BY <2>1, <2>2, <2>3, <2>4 DEF TypeOK, ShareInv, ScanInv
<1> QED
  BY <1>1, PipelineInvariant, PTL

\* An index names one partition, in the summaries, in the table and in the
\* overlap stage, however the logicals are numbered.
THEOREM IndicesIdentifyPartitions == Spec => []IndicesIdentify
<1>1. PipelineInv => IndicesIdentify
  <2> SUFFICES ASSUME PipelineInv PROVE IndicesIdentify
    OBVIOUS
  <2>1. ScanInv /\ IndexInv /\ DataInv
    BY DEF PipelineInv
  <2>2. \A m, n \in 1..Len(summaries) : summaries[m].index = summaries[n].index => m = n
    BY <2>1, IndexUnique
  <2>3. ASSUME NEW n \in 1..Len(summaries), summaries[n].index < EBR_INDEX_BASE
        PROVE  mbr.entries[summaries[n].index + 1].lba_start = summaries[n].lba_start
    <3>1. OfPrimary(summaries[n])
      <4>1. n \in Nat \ {0}
        BY <2>1 DEF ScanInv
      <4> QED
        BY <2>1, <2>3, <4>1, WidthAssumption DEF IndexInv
    <3> QED
      BY <3>1 DEF OfPrimary
  <2> QED
    BY <2>1, <2>2, <2>3 DEF IndicesIdentify, DataInv, SameExtent
<1> QED
  BY <1>1, PipelineInvariant, PTL

\* A sector that starts at or behind the end of the disk is behind the last LBA.
LEMMA BytesEndWithSectors ==
  ASSUME NEW size \in Nat, size > 0, size <= U64Max, NEW l \in Nat, LbaToByte(l) >= size
  PROVE  l > GapSweep!DiskLastLba(size)
<1> DEFINE q == size \div SectorSize
           r == size % SectorSize
<1>1. SectorSize \in Nat \ {0} /\ U64Max \in Nat
  BY WidthAssumption
<1>2. q \in Nat /\ r \in Nat /\ size = q * SectorSize + r
  BY <1>1
<1>3. GapSweep!DiskLastLba(size) = IF q = 0 THEN 0 ELSE q - 1
  BY DEF GapSweep!DiskLastLba
<1>4. l * SectorSize \in Nat
  BY <1>1
<1>5. l * SectorSize >= size
  <2> DEFINE p == l * SectorSize
  <2>1. p \in Nat /\ (IF p > U64Max THEN U64Max ELSE p) >= size
    BY <1>4 DEF LbaToByte
  <2> HIDE DEF p
  <2>2. p >= size
    BY <1>1, <2>1
  <2> QED
    BY <2>2 DEF p
<1>6. l # 0
  BY <1>1, <1>5
<1> HIDE DEF q, r
<1>7. q <= l
  <2> SUFFICES ASSUME l + 1 <= q PROVE FALSE
    BY <1>2
  <2>1. (l + 1) * SectorSize <= q * SectorSize
    BY <1>1, <1>2, TimesMonotonic
  <2>2. (l + 1) * SectorSize = l * SectorSize + SectorSize
    BY <1>1
  <2>3. q * SectorSize \in Nat
    BY <1>1, <1>2
  <2> QED
    BY <1>1, <1>2, <1>4, <1>5, <2>1, <2>2, <2>3
<1> QED
  BY <1>2, <1>3, <1>6, <1>7

\* The guards of check_vbr, detect_partition_fs and partition_volume and the
\* bounds check of the scan draw one end of the disk: behind it nothing is read
\* and primaries are reported; before it all is read that can be.
THEOREM ReadsAgree == Spec => []ContentReadsAgree
<1>1. PipelineInv => ContentReadsAgree
  <2> SUFFICES ASSUME PipelineInv PROVE ContentReadsAgree
    OBVIOUS
  <2>1. ShareInv /\ FreshInv /\ ScanInv /\ NothingBehind /\ AllBefore /\ BoundsInv
    BY DEF PipelineInv
  <2>2. ASSUME NEW n \in 1..Len(summaries), Behind(summaries[n]),
               summaries[n].index < EBR_INDEX_BASE,
               summaries[n].lba_start <= summaries[n].lba_end
        PROVE  FoundAbout("OutOfBounds", summaries[n].index)
    <3> DEFINE s == summaries[n]
    <3>1. /\ s \in Listing /\ s.lba_start \in Nat /\ s.lba_end \in Nat
          /\ s.byte_offset = LbaToByte(s.lba_start)
      BY <2>1, SummaryTypes DEF Listing
    <3>2. image.size \in Nat /\ image.size > 0 /\ image.size <= U64Max
      BY <2>1, <2>2, ImageTypes, WidthAssumption DEF ShareInv, Behind
    <3>3. last_lba = GapSweep!DiskLastLba(image.size)
      <4>1. stage \notin {"read_mbr", "failed"}
        BY <2>1, <2>2 DEF FreshInv, TableStages
      <4> QED
        BY <2>1, <4>1 DEF ShareInv
    <3>4. s.lba_start > last_lba
      BY <2>2, <3>1, <3>2, <3>3, BytesEndWithSectors DEF Behind
    <3>5. last_lba \in Nat
      BY <3>2, <3>3, WidthAssumption DEF GapSweep!DiskLastLba
    <3> HIDE DEF s
    <3>6. s.lba_end > last_lba
      BY <2>2, <3>1, <3>4, <3>5 DEF s
    <3> QED
      BY <2>1, <2>2, <3>2, <3>6 DEF BoundsInv, s
  <2> QED
    BY <2>1, <2>2 DEF ContentReadsAgree, NothingBehind, AllBefore
<1> QED
  BY <1>1, PipelineInvariant, PTL

\* Type mismatches are reported of just the partitions whose summary shows one:
\* both come from the one fingerprint detect_and_check_fs reads.
THEOREM MismatchesAgree == Spec => []MismatchesAgreeWithSummaries
<1>1. PipelineInv => MismatchesAgreeWithSummaries
  BY DEF PipelineInv
<1> QED
  BY <1>1, PipelineInvariant, PTL

\* Zeroed boot code is called benign on disks that list the protective entry
\* and nothing else, and whose GPT no stage objects to.
THEOREM BenignIsPureGpt == Spec => []BenignBootCodeIsPureGpt
<1>1. PipelineInv => BenignBootCodeIsPureGpt
  <2> SUFFICES ASSUME PipelineInv, stage = "done", Found("EmptyProtectiveBootCode")
               PROVE  /\ Len(summaries) = 1 /\ summaries[1].declared = "GptProtective"
                      /\ ~Found("HiddenGpt") /\ ~Found("SpoofedProtectiveMbr")
                      /\ ~Found("HybridMbr")
    BY DEF BenignBootCodeIsPureGpt
  <2>1. ShareInv /\ ScanInv /\ IndexInv /\ PrimariesInv /\ GptInv
    BY DEF PipelineInv
  <2>2. OnGptDisk /\ image \in Images
    BY <2>1 DEF GptInv, ShareInv
  <2>3. PICK k \in 1..4 : /\ mbr.entries[k].family = "GptProtective"
                          /\ \A j \in 1..4 : j # k => mbr.entries[j].family = "Empty"
    BY <2>2, PureGpt
  <2>4. ASSUME NEW n \in 1..Len(summaries)
        PROVE  summaries[n].index = k - 1 /\ summaries[n].declared = "GptProtective"
    <3>1. OfPrimary(summaries[n])
      BY <2>1, <2>2 DEF GptInv
    <3>2. summaries[n].index + 1 = k
      BY <2>3, <3>1 DEF OfPrimary
    <3> QED
      BY <2>1, <2>3, <3>1, <3>2, SummaryTypes DEF OfPrimary
  <2>5. \E n \in 1..Len(summaries) : summaries[n].index = k - 1
    BY <2>1, <2>3 DEF PrimariesInv, Scanned
  <2>6. Len(summaries) \in Nat
    BY <2>1 DEF ScanInv
  <2>7. Len(summaries) >= 1
    BY <2>5, <2>6
  <2>8. Len(summaries) < 2
    <3> SUFFICES ASSUME Len(summaries) >= 2 PROVE FALSE
      BY <2>6
    <3>1. 1 \in 1..Len(summaries) /\ 2 \in 1..Len(summaries)
      BY <2>6
    <3> QED
      BY <2>1, <2>4, <3>1, IndexUnique
  <2>9. Len(summaries) = 1
    <3>1. \A q \in Nat : q >= 1 /\ q < 2 => q = 1
      OBVIOUS
    <3> QED
      BY <2>6, <2>7, <2>8, <3>1, Zenon
  <2>10. 1 \in 1..Len(summaries)
    BY <2>9
  <2> QED
    BY <2>1, <2>2, <2>4, <2>9, <2>10 DEF GptInv
<1> QED
  BY <1>1, PipelineInvariant, PTL

\* On a disk of known size every sector behind the MBR is in a listed partition
\* or in a listed gap, and in one of them only.
THEOREM EverySectorAccounted == Spec => []SectorsAccounted
<1>1. PipelineInv => SectorsAccounted
  <2> SUFFICES ASSUME PipelineInv, stage = "done", image.size > 0,
                      NEW l \in FIRST_USABLE..last_lba
               PROVE  InGap(l) <=> ~Claimed(l)
    BY DEF SectorsAccounted
  <2>1. ShareInv /\ LeftInv /\ image \in Images /\ image.size \in 0..U64Max
    BY ImageTypes DEF PipelineInv, ShareInv
  <2>2. last_lba \in 0..U64Max
    <3>1. GP!DiskLastLba(image.size) \in 0..U64Max
      BY <2>1, CalleeAssumptions, GP!LastLbaType
    <3>2. last_lba = GP!DiskLastLba(image.size)
      BY <2>1 DEF ShareInv, GapSweep!DiskLastLba, GP!DiskLastLba
    <3> QED
      BY <3>1, <3>2
  <2>3. l \in FIRST_USABLE..U64Max /\ l <= last_lba /\ image.size # 0
    BY <2>1, <2>2, WidthAssumption
  <2> QED
    BY <2>1, <2>3 DEF LeftInv, Gapped
<1> QED
  BY <1>1, PipelineInvariant, PTL

\* Of two data partitions that share a sector one heads a report, however many
\* there are and in whatever order the table and the chain give them.
THEOREM OverlapsReported == Spec => []OverlapsSurface
<1>1. PipelineInv => OverlapsSurface
  BY DEF PipelineInv, OverlapInv, OverlapsSurface, Swept
<1> QED
  BY <1>1, PipelineInvariant, PTL

\* The kinds that speak against the layout of the partitions are severe.
LEMMA LayoutSeverity ==
  ASSUME NEW a, a.kind \in {"OverlappingPartitions", "OutOfBounds", "InterPartitionGap",
                            "SignatureMismatch"}
  PROVE  SeverityOf(a) >= MEDIUM
<1>1. CASE a.kind = "OverlappingPartitions"
  BY <1>1 DEF SeverityOf, CriticalKinds, HighKinds, MediumKinds, LowKinds, MEDIUM, CRITICAL
<1>2. CASE a.kind = "OutOfBounds"
  BY <1>2 DEF SeverityOf, CriticalKinds, HighKinds, MediumKinds, LowKinds, MEDIUM, HIGH
<1>3. CASE a.kind \in {"InterPartitionGap", "SignatureMismatch"}
  BY <1>3 DEF SeverityOf, CriticalKinds, HighKinds, MediumKinds, LowKinds, MEDIUM
<1> QED
  BY <1>1, <1>2, <1>3

\* The first sector of the disk behind the MBR and the last one lie in a gap
\* of the kind that begins, or ends, there: what a gap separates two listed
\* partitions by has been reported.
LEMMA SeparatedIsReported ==
  ASSUME ShareInv, LeftInv, stage = "done", image.size # 0,
         NEW k \in FIRST_USABLE..last_lba, NEW l \in FIRST_USABLE..last_lba,
         NEW m \in FIRST_USABLE..last_lba,
         k < l, l < m, Claimed(k), Claimed(m), ~Claimed(l)
  PROVE  Found("InterPartitionGap")
<1>1. last_lba \in 0..U64Max
  <2>1. GP!DiskLastLba(image.size) \in 0..U64Max
    BY ImageTypes, CalleeAssumptions, GP!LastLbaType DEF ShareInv
  <2>2. last_lba = GP!DiskLastLba(image.size)
    BY DEF ShareInv, GapSweep!DiskLastLba, GP!DiskLastLba
  <2> QED
    BY <2>1, <2>2
<1>2. /\ k \in FIRST_USABLE..U64Max /\ l \in FIRST_USABLE..U64Max
      /\ m \in FIRST_USABLE..U64Max /\ FIRST_USABLE \in Nat
      /\ k \in Int /\ l \in Int /\ m \in Int /\ l <= last_lba /\ m <= last_lba
  BY <1>1, WidthAssumption
<1>3. InGap(l) /\ ~InGap(k) /\ ~InGap(m)
  BY <1>2 DEF LeftInv, Gapped
<1>4. PICK n \in 1..Len(gaps) : gaps[n].lba_start <= l /\ l <= gaps[n].lba_end
  BY <1>3 DEF InGap
<1>5. /\ gaps[n] \in GapSweep!Gap
      /\ gaps[n].kind = "PrePartition" => gaps[n].lba_start = FIRST_USABLE
      /\ gaps[n].kind = "Between" => Found("InterPartitionGap")
      /\ gaps[n].kind = "PostPartition" => gaps[n].lba_end = last_lba
  BY DEF LeftInv, Gapped
<1>6. /\ gaps[n].kind \in {"PrePartition", "Between", "PostPartition"}
      /\ gaps[n].lba_start \in Int /\ gaps[n].lba_end \in Int
  BY <1>5, WidthAssumption DEF GapSweep!Gap
<1>7. gaps[n].kind # "PrePartition"
  BY <1>2, <1>3, <1>4, <1>5, <1>6 DEF InGap
<1>8. gaps[n].kind # "PostPartition"
  BY <1>2, <1>3, <1>4, <1>5, <1>6 DEF InGap
<1> QED
  BY <1>5, <1>6, <1>7, <1>8

\* Nothing at MEDIUM or above means that the layout is sound: no shared
\* sector, no hole between listed partitions, no primary partition that ends
\* behind the disk, no file system at odds with its type.
THEOREM LowSeverityIsSound == Spec => []LowSeverityMeansSoundLayout
<1>1. PipelineInv => LowSeverityMeansSoundLayout
  <2> SUFFICES ASSUME PipelineInv, stage = "done", image.size > 0,
                      AnomaliesAtLeast(findings, MEDIUM) = {}
               PROVE  LowSeverityMeansSoundLayout!2
    BY DEF LowSeverityMeansSoundLayout
  <2>1. /\ ShareInv /\ ScanInv /\ OverlapInv /\ LeftInv /\ BoundsInv
        /\ MismatchesAgreeWithSummaries
    BY DEF PipelineInv
  <2>2. image.size # 0
    BY ImageTypes, <2>1 DEF ShareInv
  <2>3. ASSUME NEW n \in 1..Len(findings)
        PROVE  findings[n].kind \notin {"OverlappingPartitions", "OutOfBounds",
                                        "InterPartitionGap", "SignatureMismatch"}
    <3>1. ~(SeverityOf(findings[n]) >= MEDIUM)
      BY DEF AnomaliesAtLeast
    <3> QED
      BY <3>1, LayoutSeverity
  <2>4. ASSUME NEW m \in 1..Len(summaries), NEW n \in 1..Len(summaries), m # n,
               IsData(summaries[m]), IsData(summaries[n])
        PROVE  ~Intersect(summaries[m], summaries[n])
    BY <2>1, <2>3, <2>4 DEF OverlapInv, Swept
  <2>5. ~Found("InterPartitionGap")
    BY <2>3 DEF Found
  <2>6. ASSUME NEW k \in FIRST_USABLE..last_lba, NEW l \in FIRST_USABLE..last_lba,
               NEW m \in FIRST_USABLE..last_lba, k < l, l < m, Claimed(k), Claimed(m)
        PROVE  Claimed(l)
    BY <2>1, <2>2, <2>5, <2>6, SeparatedIsReported
  <2>7. ASSUME NEW n \in 1..Len(summaries), summaries[n].index < EBR_INDEX_BASE
        PROVE  summaries[n].lba_end <= last_lba
    <3>1. last_lba \in Int
      <4>1. GP!DiskLastLba(image.size) \in 0..U64Max
        BY <2>1, ImageTypes, CalleeAssumptions, GP!LastLbaType DEF ShareInv
      <4>2. last_lba = GP!DiskLastLba(image.size)
        BY <2>1 DEF ShareInv, GapSweep!DiskLastLba, GP!DiskLastLba
      <4> QED
        BY <4>1, <4>2
    <3>2. ~FoundAbout("OutOfBounds", summaries[n].index)
      BY <2>3 DEF FoundAbout
    <3>3. ~(summaries[n].lba_end > last_lba)
      BY <2>1, <2>7, <3>2 DEF BoundsInv
    <3> QED
      BY <2>1, <3>1, <3>3, SummaryTypes
  <2>8. ASSUME NEW n \in 1..Len(summaries)
        PROVE  <<summaries[n].declared, summaries[n].detected>> \notin Conflicts
    <3>1. ~FoundAbout("SignatureMismatch", summaries[n].index)
      BY <2>3 DEF FoundAbout
    <3> QED
      BY <2>1, <3>1 DEF MismatchesAgreeWithSummaries
  <2> QED
    BY <2>4, <2>6, <2>7, <2>8
<1> QED
  BY <1>1, PipelineInvariant, PTL

\* A chain that could be walked loses no logical partition on the way into
\* the result.
THEOREM LogicalsListed == Spec => []LogicalsComplete
<1>1. PipelineInv => LogicalsComplete
  <2> SUFFICES ASSUME PipelineInv, NEW k \in 1..4, stage = "done",
                      IsExtended(mbr.entries[k]),
                      \A j \in 1..(k - 1) : ~IsExtended(mbr.entries[j]),
                      ~Found("EbrExcessiveDepth"),
                      \A l \in 0..(2 * U32Max) : AsEbr(l).io # "noseek",
                      NEW l, Readable(l),
                      \/ l = mbr.entries[k].lba_start
                      \/ \E c \in ChainLbas : /\ AsEbr(c).next # 0
                                              /\ l = mbr.entries[k].lba_start + AsEbr(c).next
               PROVE  \E n \in 1..Len(summaries) :
                        /\ summaries[n].index >= EBR_INDEX_BASE
                        /\ summaries[n].lba_start =
                             EbrWalk!SaturatingAdd(l, AsEbr(l).logical.lba_start)
    BY DEF LogicalsComplete, ChainLbas
  <2>1. ShareInv /\ LogicalsInv /\ image \in Images
    BY DEF PipelineInv, ShareInv
  <2>2. ExtendedSlot = k
    BY <2>1, FirstExtended
  <2>3. ChainComplete
    BY <2>1, <2>2 DEF LogicalsInv, Walked, NoSlot
  <2>4. \A n \in 1..Len(ebr_entries) : Described(n)
    BY <2>1 DEF LogicalsInv, Walked
  <2>5. mbr.entries[k].lba_start \in 0..U32Max
    BY <2>1, ImageTypes, EndTypes
  <2>6. l \in 0..(2 * U32Max)
    <3>1. CASE l = mbr.entries[k].lba_start
      BY <2>5, <3>1, U32Assumption
    <3>2. CASE \E c \in ChainLbas : /\ AsEbr(c).next # 0
                                    /\ l = mbr.entries[k].lba_start + AsEbr(c).next
      <4>1. PICK c \in ChainLbas : l = mbr.entries[k].lba_start + AsEbr(c).next
        BY <3>2
      <4>2. c \in 0..(2 * U32Max)
        BY <2>4 DEF ChainLbas, Described
      <4>3. c \in 0..U64Max
        BY <4>2, U32Assumption, WidthAssumption
      <4>4. AsEbr(c) \in EbrSector
        BY <2>1, <4>3, SectorTypes
      <4>5. AsEbr(c).next \in 0..U32Max
        BY <4>4 DEF EbrSector
      <4> QED
        BY <2>5, <4>1, <4>5, U32Assumption
    <3> QED
      BY <3>1, <3>2
  <2>7. l \in ChainLbas
    BY <2>2, <2>3, <2>6 DEF ChainComplete
  <2>8. PICK n \in 1..Len(ebr_entries) : l = ebr_entries[n].ebr_lba
    BY <2>7 DEF ChainLbas
  <2>9. ebr_entries[n].logical_lba_start =
          EbrWalk!SaturatingAdd(l, AsEbr(l).logical.lba_start)
    BY <2>4, <2>8 DEF Described
  <2> QED
    BY <2>1, <2>9 DEF LogicalsInv, Walked
<1> QED
  BY <1>1, PipelineInvariant, PTL

(***************************************************************************)
(* Traces are reported in unallocated space only.  The sector size is the  *)
(* caller's choice; the theorem is about one with which the byte offset of *)
(* the farthest logical partition fits a u64 (512 in all callers of the    *)
(* repository): with a larger one LbaToByte saturates and offsets of       *)
(* different sectors coincide.                                             *)
(***************************************************************************)
THEOREM TracesAreUnallocated ==
  ASSUME 3 * U32Max * SectorSize <= U64Max
  PROVE  Spec => []TracesLieOutsidePartitions
<1>1. Init => PipelineInv /\ TracesLieOutsidePartitions
  BY PipelineInit
<1>2. PipelineInv /\ TracesLieOutsidePartitions /\ [Next]_vars
        => PipelineInv' /\ TracesLieOutsidePartitions'
  BY PipelineStep, TracesStep DEF PipelineInv
<1> QED
  BY <1>1, <1>2, PTL DEF Spec
=============================================================================
