------------------------------ MODULE EbrWalk ------------------------------
(***************************************************************************)
(* The loop of walk_ebr_chain, core/src/ebr.rs: it follows the linked list *)
(* of Extended Boot Records of an extended partition over a medium nobody  *)
(* trusts.  A link may close a loop, run past any depth, lead off the      *)
(* image, to a sector that is no EBR, or overflow; a read may fail and so  *)
(* may a seek.                                                             *)
(*                                                                         *)
(* A sector is abstracted to the fields the loop looks at.  "io" is what   *)
(* the reader does there: "ok", "short" (read_exact fails: past the end of *)
(* a truncated image, or a bad sector) or "noseek" (the seek itself fails).*)
(* The two integer widths are the constants U32Max and U64Max.             *)
(***************************************************************************)
EXTENDS Integers, Sequences, FiniteSets

CONSTANTS MAX_DEPTH, SectorSize, U32Max, U64Max, Logicals, Disks, ExtStarts

Lba == 0..U64Max

Sector == [ io       : {"ok", "short", "noseek"},
            boot_sig : BOOLEAN,
            logical  : Logicals,
            next     : 0..U32Max,
            slack    : BOOLEAN ]

ASSUME BoundsAssumption ==
    /\ MAX_DEPTH \in Nat \ {0}
    /\ SectorSize \in Nat \ {0}
    /\ U32Max \in Nat
    /\ U64Max \in Nat
    /\ U32Max <= U64Max

ASSUME LogicalsAssumption == \A g \in Logicals : g.lba_start \in 0..U32Max

ASSUME MediaAssumption == /\ Disks \subseteq [Lba -> Sector]
                          /\ ExtStarts \subseteq Lba

VARIABLES
    disk,            \* the medium, sector by sector; never written
    ext_start_lba,   \* argument: LBA of the extended container
    next_ebr_lba,    \* the sector the loop is about to visit
    visited,         \* LBAs already visited
    entries,         \* Vec<EbrEntry>
    had_cycle, depth_exceeded,
    pc               \* "check": loop head; "read": after the seek;
                     \* "done": Ok returned; "failed": Err returned

vars == <<disk, ext_start_lba, next_ebr_lba, visited, entries, had_cycle,
          depth_exceeded, pc>>

-----------------------------------------------------------------------------
(* Integer operations of the code at the modelled widths. *)

SaturatingAdd(a, b) == IF a + b > U64Max THEN U64Max ELSE a + b

\* Mutant: the sum is not checked.
AddOverflows_Never(a, b) == a + b < 0

\* checked_add and checked_mul return None.
AddOverflows(a, b) == a + b > U64Max

\* Mutant: the last representable byte offset is refused.
MulOverflows_OffByOne(a, b) == a * b >= U64Max

MulOverflows(a, b) == a * b > U64Max

EbrEntry == [ ebr_offset        : 0..U64Max,
              ebr_lba           : Lba,
              logical           : Logicals,
              logical_lba_start : Lba,
              has_slack         : BOOLEAN ]

\* The EbrEntry pushed for the EBR at l: offsets relative to that EBR.
ParseEntry(l) ==
    [ ebr_offset        |-> l * SectorSize,
      ebr_lba           |-> l,
      logical           |-> disk[l].logical,
      logical_lba_start |-> SaturatingAdd(l, disk[l].logical.lba_start),
      has_slack         |-> disk[l].slack ]

-----------------------------------------------------------------------------
Init ==
    /\ disk \in Disks
    /\ ext_start_lba \in ExtStarts
    /\ next_ebr_lba = ext_start_lba
    /\ visited = {}
    /\ entries = <<>>
    /\ had_cycle = FALSE
    /\ depth_exceeded = FALSE
    /\ pc = "check"

\* Leave the loop with what has been collected.
Break == /\ pc' = "done"
         /\ UNCHANGED <<disk, ext_start_lba, next_ebr_lba>>

DepthLimit ==
    /\ pc = "check"
    /\ Len(entries) >= MAX_DEPTH
    /\ depth_exceeded' = TRUE
    /\ Break
    /\ UNCHANGED <<visited, entries, had_cycle>>

\* Mutant: a full list that links back counts as a cycle.
CycleFound_BeforeDepth ==
    /\ pc = "check"
    /\ next_ebr_lba \in visited
    /\ had_cycle' = TRUE
    /\ Break
    /\ UNCHANGED <<visited, entries, depth_exceeded>>

CycleFound ==
    /\ pc = "check"
    /\ Len(entries) < MAX_DEPTH
    /\ next_ebr_lba \in visited
    /\ had_cycle' = TRUE
    /\ Break
    /\ UNCHANGED <<visited, entries, depth_exceeded>>

\* Mutant: the visited set forgets all but the latest sector.
Visit_OnlyPredecessor ==
    /\ pc = "check"
    /\ Len(entries) < MAX_DEPTH
    /\ next_ebr_lba \notin visited
    /\ visited' = {next_ebr_lba}

\* Mutant: the limit lets one more sector through.
Visit_OffByOne ==
    /\ pc = "check"
    /\ Len(entries) <= MAX_DEPTH
    /\ next_ebr_lba \notin visited
    /\ visited' = visited \cup {next_ebr_lba}

\* The two guards at the loop head are passed and the LBA is remembered.
Visit ==
    /\ pc = "check"
    /\ Len(entries) < MAX_DEPTH
    /\ next_ebr_lba \notin visited
    /\ visited' = visited \cup {next_ebr_lba}

OffsetOverflow ==
    /\ Visit
    /\ MulOverflows(next_ebr_lba, SectorSize)
    /\ Break
    /\ UNCHANGED <<entries, had_cycle, depth_exceeded>>

\* `?` on the seek: the error is returned and the local entries are dropped.
SeekFails ==
    /\ Visit
    /\ ~MulOverflows(next_ebr_lba, SectorSize)
    /\ disk[next_ebr_lba].io = "noseek"
    /\ pc' = "failed"
    /\ UNCHANGED <<disk, ext_start_lba, next_ebr_lba, entries, had_cycle,
                   depth_exceeded>>

SeekTo ==
    /\ Visit
    /\ ~MulOverflows(next_ebr_lba, SectorSize)
    /\ disk[next_ebr_lba].io # "noseek"
    /\ pc' = "read"
    /\ UNCHANGED <<disk, ext_start_lba, next_ebr_lba, entries, had_cycle,
                   depth_exceeded>>

\* Mutant: a failing read is retried for ever.
ReadFails_Retries ==
    /\ pc = "read"
    /\ disk[next_ebr_lba].io = "short"
    /\ UNCHANGED vars

ReadFails ==
    /\ pc = "read"
    /\ disk[next_ebr_lba].io = "short"
    /\ Break
    /\ UNCHANGED <<visited, entries, had_cycle, depth_exceeded>>

NoSignature ==
    /\ pc = "read"
    /\ disk[next_ebr_lba].io = "ok"
    /\ ~disk[next_ebr_lba].boot_sig
    /\ Break
    /\ UNCHANGED <<visited, entries, had_cycle, depth_exceeded>>

\* The sector is an EBR: its entry is pushed.
Push ==
    /\ pc = "read"
    /\ disk[next_ebr_lba].io = "ok"
    /\ disk[next_ebr_lba].boot_sig
    /\ entries' = Append(entries, ParseEntry(next_ebr_lba))
    /\ UNCHANGED <<visited, had_cycle, depth_exceeded>>

EndOfChain ==
    /\ Push
    /\ disk[next_ebr_lba].next = 0
    /\ Break

LinkOverflow ==
    /\ Push
    /\ disk[next_ebr_lba].next # 0
    /\ AddOverflows(ext_start_lba, disk[next_ebr_lba].next)
    /\ Break

\* Mutant: the link is taken relative to the EBR that holds it.
FollowLink_RelativeToEbr ==
    /\ Push
    /\ disk[next_ebr_lba].next # 0
    /\ ~AddOverflows(next_ebr_lba, disk[next_ebr_lba].next)
    /\ next_ebr_lba' = next_ebr_lba + disk[next_ebr_lba].next
    /\ pc' = "check"
    /\ UNCHANGED <<disk, ext_start_lba>>

\* Links are relative to the container, logical starts to their own EBR.
FollowLink ==
    /\ Push
    /\ disk[next_ebr_lba].next # 0
    /\ ~AddOverflows(ext_start_lba, disk[next_ebr_lba].next)
    /\ next_ebr_lba' = ext_start_lba + disk[next_ebr_lba].next
    /\ pc' = "check"
    /\ UNCHANGED <<disk, ext_start_lba>>

Step == \/ DepthLimit
        \/ CycleFound
        \/ OffsetOverflow
        \/ SeekFails
        \/ SeekTo
        \/ ReadFails
        \/ NoSignature
        \/ EndOfChain
        \/ LinkOverflow
        \/ FollowLink

Finished == pc \in {"done", "failed"}

\* The call has returned; nothing further happens.
Returned == Finished /\ UNCHANGED vars

Next == Step \/ Returned

\* A thread inside the loop keeps running.
Spec == Init /\ [][Next]_vars /\ WF_vars(Step)

-----------------------------------------------------------------------------
(* Properties *)

\* Every variable keeps the type of the Rust value it stands for.
TypeOK ==
    /\ disk \in [Lba -> Sector]
    /\ ext_start_lba \in Lba
    /\ next_ebr_lba \in Lba
    /\ visited \subseteq Lba
    /\ entries \in Seq(EbrEntry)
    /\ had_cycle \in BOOLEAN
    /\ depth_exceeded \in BOOLEAN
    /\ pc \in {"check", "read", "done", "failed"}

Listed == { entries[i].ebr_lba : i \in 1..Len(entries) }

(***************************************************************************)
(* At every moment of the walk the entries are the EBRs of a path without  *)
(* repetition: the first is the container's own sector, each further one   *)
(* is where its predecessor's link leads, relative to the container, and   *)
(* its logical partition is placed relative to the EBR that describes it.  *)
(***************************************************************************)
ChainFollowsLinks ==
    /\ \A i \in 1..Len(entries) :
         LET e == entries[i] IN
         /\ disk[e.ebr_lba].io = "ok" /\ disk[e.ebr_lba].boot_sig
         /\ e.ebr_lba = IF i = 1 THEN ext_start_lba
                        ELSE ext_start_lba + disk[entries[i - 1].ebr_lba].next
         /\ i > 1 => disk[entries[i - 1].ebr_lba].next # 0
         /\ e.logical_lba_start =
              SaturatingAdd(e.ebr_lba, disk[e.ebr_lba].logical.lba_start)
    /\ \A i, j \in 1..Len(entries) :
         entries[i].ebr_lba = entries[j].ebr_lba => i = j

(***************************************************************************)
(* A chain returned without depth_exceeded misses nothing: wherever the    *)
(* link of a listed EBR leads, there is a listed EBR or no readable EBR,   *)
(* and an empty chain means that the container's first sector is none.     *)
(* Breaking at the cycle therefore loses no partition.                     *)
(***************************************************************************)
CompleteUnlessDepthExceeded ==
    pc = "done" /\ ~depth_exceeded =>
      \A l \in Lba :
        /\ disk[l].io = "ok" /\ disk[l].boot_sig /\ l * SectorSize <= U64Max
        /\ \/ l = ext_start_lba
           \/ \E k \in Listed : /\ disk[k].next # 0
                               /\ l = ext_start_lba + disk[k].next
        => l \in Listed

\* The walk never visits more than MAX_DEPTH sectors, whatever the links say.
BoundedVisits == Cardinality(visited) <= MAX_DEPTH

\* The loop ends on every medium: cycles, self-links and failing reads too.
Terminates == <>Finished

(***************************************************************************)
(* The loop implements the declarative specification: what it returns, the *)
(* two flags and the error included, is an answer EbrChain allows.         *)
(***************************************************************************)
Answer == CASE pc = "done"   -> [status |-> "ok", entries |-> entries,
                                 had_cycle |-> had_cycle,
                                 depth_exceeded |-> depth_exceeded]
            [] pc = "failed" -> [status |-> "io_error"]
            [] OTHER         -> [status |-> "pending"]

Promise == INSTANCE EbrChain WITH answer <- Answer
ImplementsEbrChain == Promise!ASpec
=============================================================================
