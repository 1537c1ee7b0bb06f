# mbr-partition-forensic in TLA+

TLA+ models of the analysis engine of this repository, checked with TLC on small
instances. Every invariant and both refinements are also proved with TLAPS for every
instance; liveness is model-checked. Paths are relative to the repository root.

## 1. The system

The crate reads a disk image through `Read + Seek` and returns an `MbrAnalysis`: the
parsed MBR, the partitions it lists, the EBR chain, the unpartitioned gaps, and a list of
anomalies. A call runs on one thread, keeps no state between calls and writes nothing;
everything it reads (the sectors, the declared disk size, the sector size, which reads
and seeks fail) is untrusted. What is hard is therefore not concurrency but *adversarial
data*: linked structures with loops, extents that nest, repeat, overlap, wrap or lie off
the disk, arithmetic at the edge of the integer types, I/O that fails in the middle, and
six stages that must agree on what they hand each other.

| Component | State it keeps | Operations | Correct when |
|---|---|---|---|
| EBR walk, `core/src/ebr.rs` | visited set, entries, next LBA, two flags | one loop iteration: depth check, cycle check, offset, seek, read, signature, push, link | it ends on every medium, lists the reachable EBRs in order and once each, and its flags say why it stopped |
| Overlap check, `check_overlaps` | sorted copy, window position | sort; compare neighbours | no overlap goes unreported, no report is false |
| Gaps, `check_gaps` and `forensic/src/gap.rs` | sorted copy, cursor, gaps | sort, dedup, one extent, tail | gaps are the complement of the partitions, disjoint, ascending, of the right kind |
| Partition entries, `core/src/partition.rs` | none | predicates, saturating end, CHS | stages that use different predicates agree |
| Pipeline, `forensic/src/analyse.rs` | `Findings`, `PrimaryScan` | 16 stages in a fixed order | each sector is accounted for, indices identify partitions, an I/O failure never costs more than its own region |
| MBR, VBR, GPT, signatures, boot code, provenance | none | pure recognisers | verdicts of different stages agree |
| Read loops, `read_fingerprint` and `fill` | buffer, fill level | one `read` | however the reads are cut, the caller gets the region or an error |
| VFS adapter, `core/src/vfs.rs` | volume list | `open`, `open_volume` | the volumes are the table on disk, and an index opens the volume listed under it |
| Carving and strings, wipe patterns, CHS verdicts, signature detection, NT signature collisions | none | pure functions | they agree with a declarative definition of what they look for |
| Severity, `forensic/src/findings.rs` | none | kind to severity, filter | a low severity means a sound layout |

Interaction: the pipeline calls the walk with the start of the first extended entry, turns
the EBRs it returns into further partitions, and only then hands the two extent vectors to
the sweeps; the gaps go to the content sampler. LBA 1 is read once and the answer is used
by two stages.

## 2. Modules

| Module | Models |
|---|---|
| `EbrChain` | abstract specification: which chain a medium, a start and a depth limit allow; one step, no loop |
| `EbrWalk` | `walk_ebr_chain`, one action per exit or statement group; implements `EbrChain` |
| `StableSort` | `slice::sort_by_key` as the unique stable ascending permutation (external) |
| `OverlapSweep` | `check_overlaps` |
| `GapSweep` | `disk_last_lba`, `check_gaps`, `compute_gaps` |
| `Chs` | `Chs::from_bytes`, `to_lba`, the markers, `chs_consistency` |
| `Partition` | a primary entry, its predicates, its saturating end, `check_chs_lba` |
| `PartitionTable` | what stages ask of the four entries, `type_conflicts`, `infer_era` |
| `Severity` | `AnomalyKind::severity`, `anomalies_at_least` |
| `Wipe`, `Carve` | `classify` and `is_deliberate_wipe`; `carve` |
| `Analyse` | `analyse_with_options`; runs `EbrWalk`, `OverlapSweep` and `GapSweep` as sub-machines through `INSTANCE`, and `Wipe`, `Carve` and `Severity` on their results |
| `RegionRead` | abstract specification: one atomic read of a region |
| `ReadLoop` | `read_fingerprint` and `fill`, one loop with two policies; implements `RegionRead` |
| `Volumes` | `MbrVolumes::open` and `open_volume` on top of `ReadLoop` |
| `AsciiStrings`, `DiskSignature`, `Signature` | `extract_ascii_strings`; `find_signature_collisions`; `detect` |
| `PureCalls` | a client that calls the pure functions, with the definitions they are compared with |
| `MC*` | small instances for TLC |
| `*Proofs` | theorems |

### Correspondence

`EbrWalk`. The variables are the locals of the loop (`next_ebr_lba`, `visited`, `entries`,
`had_cycle`, `depth_exceeded`) and a program counter. Each iteration is `DepthLimit` or
`CycleFound` or `Visit`; then `OffsetOverflow` (`checked_mul`), `SeekFails` (the `?`, which
returns an error) or `SeekTo`; then `ReadFails`, `NoSignature` or `Push`; then `EndOfChain`,
`LinkOverflow` or `FollowLink`. A sector is what the walk can tell of it: whether it can be
sought and read, its signature, the logical entry, the link and whether entries 2–3 are in
use. Both widths are constants, `U32Max` for fields on disk and `U64Max` for LBAs, so that
every checked or saturating operation has an instance in which it matters.

`OverlapSweep` and `GapSweep`. The vectors are sequences of records; sorting is one
action, each window or extent one more. `dedup` is `SkipRepeated`: an extent equal to its
predecessor is passed over. `Gap.byte_size` wraps, as the unchecked product does in a
release build.

`Analyse`. `image` is the reader: the MBR as parsed, LBA 1, the sectors the EBR walk can
meet, what the recognisers may say of the content at an LBA, the bytes of the readable
sectors as the gap sampler sees them, the disk size (0: unknown). The first sectors of a
partition are read three times, by `check_vbr`, `detect_partition_fs` and
`partition_volume`, and the code guards each with a comparison of its own against the end
of the disk (`analyse.rs` 653, 910 and 597). The model keeps them apart: `CheckVbr`,
`DetectPartitionFs` and `PartitionVolume` each have their own guard and their own set of
possible answers, so that a medium may fail or answer differently from one to the next, and
a guard that drifts from the others is told by `ContentReadsAgree` (each of the three has a
mutant). The file system an anomaly judges and the one a summary shows are one answer, as
`detect_and_check_fs` makes one read for both.
`stage` is the next stage, `sub` the program counter of the machine being run. A finding
is its kind and what it is about. LBA 0 as an EBR is the MBR itself, which is what the walk
reads when an extended entry starts at 0. The 446 bytes given to `boot_code::identify`
include the serial and the reserved field, so `Identified` ties the three together.

`ReadLoop`. `caller` says which loop runs. A `read` delivers any number of cells between
one and what is left (`ReadSome`), nothing at the end of the image (`ReadEof`), an
interruption, which `read_fingerprint` answers by asking again, or an error, which for
`fill` includes an interruption. `Volumes` composes it with `open`: the sector is five
cells, the four table entries and the signature, and a zeroed cell decodes to an empty
entry, as a zeroed tail does in the code.

Pure functions keep the shape of the code (a function recursive in the number of turns for
a loop, the stable sort for `sort_by_key`); the properties in `PureCalls` are written without them.

Abstractions: a type code is its family; a status byte is inactive, bootable or invalid;
the entropy comparison is a Boolean of the image, one for the boot code and one for the
slack of each EBR; the bytes a fill pattern repeats, and
offsets, codes, notes and tracing are left out. In the pipeline a sample is never dense:
that would only replace one fill that is no wipe by another. CHS and NT signatures keep
their field structure with fewer values per field.

## 3. Runs

| Run | Shows |
|---|---|
| `ebr_walk` | every medium of five addressable sectors of nine kinds: `ChainFollowsLinks`, `CompleteUnlessDepthExceeded`, `BoundedVisits`, refinement of `EbrChain`, `Terminates` |
| `overlap_sweep` | `EveryOverlapSurfaces`: of two partitions that share a sector at least one heads a report, although only neighbours are compared; `ReportsAreReal` |
| `gap_sweep` | `GapsAreTheComplement`, `GapsAscend`, `GapKindsAreTrue` for extents that overlap, nest, repeat, are empty or lie off the disk |
| `analyse` | the pipeline: `IndicesIdentify`, `BenignBootCodeIsPureGpt`, `ContentReadsAgree`, `SectorsAccounted`, `OverlapsSurface`, `LogicalsComplete`, `TracesLieOutsidePartitions`, `MismatchesAgreeWithSummaries`, `LowSeverityMeansSoundLayout`, `ReadableMbrIsAnalysed` |
| `volumes` | both read loops and the adapter: `BufferIsPrefix`, refinement of `RegionRead`, `VolumesMatchTable`, `OpenByIndex`, `EveryCallReturns` |
| `pure_calls` | `ChsVerdictIsExact`, `WipeIsShortPeriod`, `CarveFindsEveryHeader`, `StringsAreTheRuns`, `CollisionsAreTheSharedSignatures`, `PartialWindowMatches` |
| `overlap_named`, `gaps_on_disk`, `hybrid_residual`, `ebrs_kept`, `logical_bounds`, `pre_partition_severity` | disagreements, section 6 |

Bounds and why they suffice.
* The walk: with `MAX_DEPTH = 4` and five EBRs there are chains below, at and above the
  limit, self-loops, loops with a lead-in; two-byte sectors against `U64Max = 8` make the
  byte offset of every LBA above 4 overflow, and from a container at 2 the longest link
  overflows the LBA itself.
* The sweeps: three extents are the least in which a long one hides behind a short one,
  and six LBAs leave room for gaps on every side; the theorems remove the bound.
* The pipeline: seven two-byte sectors hold all the relations the stages test (inside,
  across, at and behind the end of the disk; on a primary; in the container). The images
  are every table of four entries of six kinds with known and unknown size, every boot
  code with every flag, and every EBR chain over three sectors of ten kinds, below a
  table with one container and with two, on a medium with two partition starts that answer
  differently from read to read; and chains that begin at the MBR. A sample is two
  sectors, so gaps are shorter, equal and longer. `U64Max = 48` keeps the relation of the
  real widths: four u32 add up to a u64, and the byte offset of every LBA the table and the
  links can name fits one (3 x 8 x 2 = 48).
* Reading: images of none to six cells against requests of three and five, from the start,
  the middle and behind the end, cover every way to cut a read; the theorems remove the
  bound.
* Pure functions: all packed addresses of a 4 x 2 x 3 geometry with all LBAs to two behind
  the range; all regions of up to six bytes of three values with magics that overlap
  themselves and each other; all lists of up to five signatures of four values; all
  windows of up to four cells of four values, with every cut.

The constants 2048, 63, 64, 4096, 2^32 and 2^64 are scaled down with their order kept.

Fairness. `EbrWalk` and `Analyse` assume weak fairness of their `Step`: inside a call, a
thread that can execute its next statement eventually does. In `ReadLoop` and `Volumes`
weak fairness is on the answers of the reader that are neither interruptions nor errors
(`Answered`): an interruption leaves the state as it was, so this says just that a reader
is not interrupted for ever, and termination does not lean on an error that may never
come. A read that blocks for ever is not modelled. `OverlapSweep` and `GapSweep` have no
liveness property of their own: their termination is part of `ReadableMbrIsAnalysed`.
Deadlock is checked everywhere except in `pure_calls`, whose client makes one call and
stops; elsewhere a finished call stutters.

`ContentReadsAgree` is about one line drawn four times: the three guards compare a byte
offset with the disk size, the bounds check of the scan compares a last sector with
`disk_last_lba`. Partitions at and behind the end of the disk come with content that a
missing or late guard would read, and images of unknown size with content that a guard
without its size test would not. A primary whose end saturates to one sector short, at the
largest LBA there is, claims no sector and is left out.

Every property has a mutant: an operator next to the original that makes one plausible
mistake (`Visit_OnlyPredecessor`, `Clashes_Strict`, `CursorAfter_Backwards`, ...) and under
which TLC finds the property violated.

## 4. Theorems

Proved for all values of the constants that satisfy the named assumptions.

`EbrWalkProofs`, from `BoundsAssumption`, `LogicalsAssumption` and `MediaAssumption` (the
numbers are naturals, a sector has at least a byte, a medium has a sector of the right
shape at each LBA):
* `TypeCorrect`, `FollowsLinks`, `CompleteChain`, `VisitsBounded` — the invariants of the run;
* `Refinement` — the loop implements `EbrChain`.

The inductive invariant `WalkInv` is `TypeOK`, `PathInv` and `ControlInv`. `PathInv` says
that the entries are a repetition-free path of readable EBRs along the links from the
container. `ControlInv` says for each value of the program counter what the earlier checks
of the iteration have established (below the depth limit, not met before, offset in range,
sought) and that `visited` is exactly the sectors listed, plus the one in hand, without
which the path need not stay free of repetition; at the end it says which condition
stopped the walk, and the refinement needs that to show that the result is one `EbrChain`
allows.

`VolumesProofs`, from `RequestsAssumption` (an image is a function on its cells),
`CellsAssumption` (a zeroed cell decodes to an empty entry and is no signature) and
`CallsAssumption` (`open` asks for the first sector): of `ReadLoop`, `BufferCorrect` and
`Refinement`; of the adapter, `SectorCorrect`, `SectorRefinement`, `VolumesAreTheTable` and
`IndexOpensItsVolume`. The invariant `IInv` adds to `BufferIsPrefix` that a loop that ended
without an error is full or at the end of the image (`NothingLeft`); from both follows that
what is returned is the region `RegionRead` asks for, and only the two steps that end the
loop change the abstract answer. `VInv` adds that `open` has decided only when the loop has
ended, so that the list stays that of the buffer's table and every answer to `open_volume`
is about it. That the list enumerates the entries in use in slot order is shown by
counting those up to a slot (`Upto`).

`StableSortProofs`: `SortByStartCorrect` — the result is the argument rearranged by a
bijection of the positions, starts ascend, and equal starts keep their old order. That is
multiplicity and stability as well as order; `SortByStartAscends`, which the sweeps cite,
is what is left without them. The rank of an element is the number of elements before it;
the proof is by cardinality, that ranks are distinct and fill 1..n.

`OverlapSweepProofs`, from `LayoutsAssumption`: `NoOverlapMissed`, `NoOverlapInvented`. The
invariant `SweepInv` says which windows have been reported so far. The argument for the
first: if two partitions meet, the earlier one in start order also meets its immediate
successor, whose start is no later than the other's.

`GapSweepProofs`, from `GeometryAssumption` and `LayoutsAssumption`: `GapsCorrect`,
`GapsDisjoint`, `GapKindsCorrect`, `GapTypes`. The invariant `GapInv` has a part per idea:
the copy is sorted and holds exactly the extents given (`SortedInv`); the cursor is behind
every extent passed and, unless it has not moved, just behind one of them (`CursorInv`);
below the cursor a sector is in a gap exactly when no extent claims it (`BehindInv`); until
the tail is added no gap reaches the cursor (`OpenInv`), and afterwards what lies past the
cursor is the tail (`TailInv`); no gap starts below the first usable sector (`UsableInv`);
and `GapsAscend` and `GapKindsAreTrue` themselves.

`AnalyseProofs`, from `WidthAssumption` (a u64 holds the sum of four u32; a sector has a
byte; logical indices start behind the four slots), `ImagesAssumption` (the shape of an
image) and those of the modules used. `PipelineInvariant` is the inductive invariant; from
it follow all ten invariants of the run. `PipelineInv` says what each stage may rely on:
* the callee's own invariant while a sub-machine runs (`CalleeInv`: `WalkInv`, `SweepInv` or
  `GapInv`, whose step lemmas are used through `INSTANCE` at the pipeline's variables), and
  that it starts from fresh variables (`FreshInv`), without which its initial condition
  would not hold;
* the vectors of the scan agree entry by entry (`ScanInv`, `DataInv`), every non-empty slot
  is listed (`PrimariesInv`), and indices ascend, a slot's below `EBR_INDEX_BASE` and a
  logical's counted from there (`IndexInv`); `IndicesIdentify` alone is not inductive,
  since the index of a logical is computed from the number of summaries;
* findings about content name listed partitions (`AboutListed`), so that a new summary
  cannot falsify an equivalence that held; of a partition behind the disk nothing is known
  (`NothingBehind`) and of another all that a steady reader gives (`AllBefore`);
  out-of-bounds primaries are reported (`BoundsInv`), which `ReadsAgree` joins with the two
  by the arithmetic of `BytesEndWithSectors`: a sector whose first byte is not on the disk
  is behind `disk_last_lba`, saturation included; what the boot-code stage concluded from LBA 1 is what the GPT stage sees
  (`GptInv`);
* after its stage, a sub-machine's theorem in the pipeline's terms: overlaps are among the
  findings (`OverlapInv`), gaps are what the partitions leave (`LeftInv`), and the chain is
  complete or the findings or the medium say why not, with its logicals listed
  (`ChainComplete`, `LogicalsInv`).

`TracesAreUnallocated` has one hypothesis more, `3 * U32Max * SectorSize <= U64Max`: the byte
offset of every LBA the table and the links can name fits a u64. It holds for any real
sector size (3 x 2^32 x 4096 is below 2^46). Without it `LbaToByte` saturates and two gaps
could share an offset.

`CarveProofs` holds what both users of `carve` need, from `MagicsAssumption`: the matches
lie inside the data and come out sorted. `PureCallsProofs` proves all six properties of
`PureCalls`, from `GeometryAssumption` (no part of the geometry is zero),
`MagicTableAssumption` (no magic is zero), `OnesAssumption` and `ArgumentsAssumption` (types):
* `ChsVerdicts`: division with remainder is unique, so packing and unpacking an address are
  inverse and an LBA has one address, or two when its head is 0 and there is a cylinder
  before;
* `WipesAreShortPeriods`: a region of period two is determined by its first two bytes;
* `CarveIsExact`: the matches of a magic are its occurrences, each once (`Occurrences`,
  window by window); flattening numbers the places of the lists (`Numbering`), so that
  counting files is counting hits;
* `StringsAreExact`: behind w bytes the accumulator holds the long pieces between the cuts so
  far and the run behind the last cut (`Accumulated`);
* `CollisionsAreExact`: behind w disks the groups list the carriers of each signature,
  and the order is that of their first members (`Grouped`);
* `PartialWindowsMatch`: cutting a window keeps the matches that lie within it, and so the
  first of them.

Induction. The library's induction theorems take a predicate as a parameter, which the
installed provers cannot instantiate. `NatInductionOnSets` has a set in its place and is
proved from the well-foundedness of the naturals by way of a least counterexample;
`RecursionOnSets` derives from it that a recursive function exists. Loops of pure
functions are therefore written as recursive functions of the number of turns.

Only model-checked: `Terminates`, `ReadableMbrIsAnalysed` and `EveryCallReturns` (liveness
under fairness is beyond the prover), and the disagreements of section 6, which are
violations.

## 5. Not modelled

Shannon entropy (floating point); the pattern databases of `forensicnomicon` and the
readers and byte windows of `forensic-vfs`, which are other crates; tracing; anomaly
codes, notes, evidence, labels and type names (wording); the byte layout of the MBR, EBR
and boot sectors (`parse_mbr_sector`, `parse_bpb`: fixed offsets with no state and no
choice, whose outcomes are inputs here); and what the `gpt` feature's sibling crate finds,
beyond whether it could parse the header. A sector size of zero divides by zero in
`disk_last_lba` (`forensic/src/analyse.rs:57`), and a geometry of zero underflows in
`max_chs_addressable_lba` (`core/src/partition.rs:102`); the models assume neither is zero.
`to_lba` checks for a zero geometry once more, and `ToLba` with it.

## 6. Where code and documentation disagree

1. A partition inside a long one, behind a shorter neighbour, is named by no overlap
   report (`overlap_named`). At least one of any two overlapping partitions is reported,
   which is what the code does guarantee.
2. An extent behind the end of the disk yields a gap off the disk (`gaps_on_disk`).
3. The severity of a pre-partition gap tests its start, which is always LBA 1, so the
   Medium branch for gaps beyond the reserved track is never taken
   (`pre_partition_severity`).
4. A deleted entry beside the protective one makes a hybrid MBR and turns the benign
   zeroed boot code into a wiped one (`hybrid_residual`).
5. A seek error on a later link discards the EBRs already read (`ebrs_kept`); a read error
   in the same place keeps them.
6. Logical partitions that end behind the disk raise no out-of-bounds anomaly
   (`logical_bounds`), which the README promises of partitions without distinction; the
   comment in `walk_extended` promises the other two checks only, and they are made.

Observed while modelling, in agreement with the code's own statements or undocumented:
a loop of `MAX_DEPTH` or more EBRs is reported as excessive depth and not as a cycle,
since the depth is tested first; a partition of zero sectors is reported as overlapping its
predecessor when it starts in it, and `ReportsAreReal` is stated accordingly; the inclusive
end of a partition that saturates is one sector short; residual entries count as active in
the bootable-flag check; only the first extended entry is followed; a failing read of LBA 1
counts as no GPT; the first logical partition never gets the index
`EBR_INDEX_BASE`, since the container has been counted; the byte size of a gap wraps for
sector sizes of 2^32 and more; `MbrVolumes` lists deleted entries, which are not empty, as
volumes; `fill` passes an interrupted read on as an error while `read_fingerprint` retries;
`to_lba` is documented to return `None` for all ones but does so for sector 0 only, and
`chs_consistency` catches that case before it asks; head 255, one more than the standard
geometry has, translates to an LBA of the next cylinder and is accepted; a minimum length
of zero gives an empty string at every unprintable byte; any two bytes that are not both
zero count as wiped; a magic without a `DetectedFs` does not hide the local ones; the gap sampler has no
end-of-disk guard, so a gap off the declared disk is sampled when the reader has bytes there;
a primary at LBA 2^32 - 1, whose end saturates below its start, is not reported out of
bounds on a disk of exactly 2^32 - 1 sectors, though nothing of its content is read; the
overflow markers of `chs_consistency` are those of the standard geometry, whatever geometry
the caller passes.

## 7. Plan

Done: all modules of section 2 and the theorems of section 4.

Left, if the project is taken further: what the code does guarantee in the places of
section 6, stated as properties of their own and proved (which partitions an overlap report
names, which gaps may lie off the disk); and action properties of the pipeline, that
findings are only ever appended and a stage is never entered twice.
