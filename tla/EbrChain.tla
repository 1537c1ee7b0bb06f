------------------------------ MODULE EbrChain ------------------------------
(***************************************************************************)
(* What walking an EBR chain promises, with no loop, no visited set and no *)
(* order of checks: the answer lists the EBRs of the simple pointer path   *)
(* that starts at the extended container, it is as long as the medium and  *)
(* the depth limit allow, and its two flags say why it ends where it does. *)
(* EbrWalk, the loop of core/src/ebr.rs, is shown to implement this.       *)
(***************************************************************************)
EXTENDS Integers, Sequences

CONSTANTS MAX_DEPTH,   \* longest chain listed
          SectorSize,  \* bytes per logical sector
          U64Max       \* largest in-memory LBA or byte offset

VARIABLES disk, ext_start_lba, answer

avars == <<disk, ext_start_lba, answer>>

Pending == [status |-> "pending"]
IoError == [status |-> "io_error"]

NoLba == -1   \* "there is no next EBR"

(***************************************************************************)
(* Where an EBR's link leads: nowhere for a zero link or one whose sum     *)
(* leaves the integer range, else relative to the container.               *)
(***************************************************************************)
LinkOf(l) ==
    IF disk[l].next = 0 \/ ext_start_lba + disk[l].next > U64Max
      THEN NoLba
      ELSE ext_start_lba + disk[l].next

\* A sector the reader can address, read, and recognise as an EBR.
IsEbr(l) == /\ l * SectorSize <= U64Max
            /\ disk[l].io = "ok"
            /\ disk[l].boot_sig

\* A sector whose byte offset exists but to which the reader cannot seek.
Unseekable(l) == l * SectorSize <= U64Max /\ disk[l].io = "noseek"

EntryAt(l) ==
    [ ebr_offset        |-> l * SectorSize,
      ebr_lba           |-> l,
      logical           |-> disk[l].logical,
      logical_lba_start |-> IF l + disk[l].logical.lba_start > U64Max
                              THEN U64Max ELSE l + disk[l].logical.lba_start,
      has_slack         |-> disk[l].slack ]

(***************************************************************************)
(* p is a simple path of EBRs: it starts at the container, each element is *)
(* the one its predecessor links to, and none occurs twice.                *)
(***************************************************************************)
IsPath(p) ==
    /\ Len(p) <= MAX_DEPTH
    /\ \A i \in 1..Len(p) : /\ IsEbr(p[i])
                            /\ p[i] = IF i = 1 THEN ext_start_lba
                                      ELSE LinkOf(p[i - 1])
    /\ \A i, j \in 1..Len(p) : p[i] = p[j] => i = j

\* Where a path would continue, and the sectors already on it.
Target(p) == IF Len(p) = 0 THEN ext_start_lba ELSE LinkOf(p[Len(p)])
Listed(p) == { p[i] : i \in 1..Len(p) }

Lbas(es) == [i \in 1..Len(es) |-> es[i].ebr_lba]

(***************************************************************************)
(* The chain a caller may get for path p.  A chain with neither flag set   *)
(* is complete: it stops at a zero link, or before a sector that is no     *)
(* readable EBR.                                                           *)
(***************************************************************************)
CorrectFlags(p, cyc, deep) ==
    /\ deep <=> Len(p) = MAX_DEPTH /\ Target(p) # NoLba
    /\ cyc <=> Len(p) < MAX_DEPTH /\ Target(p) \in Listed(p)
    /\ \/ deep \/ cyc
       \/ Target(p) = NoLba
       \/ ~IsEbr(Target(p)) /\ ~Unseekable(Target(p))

CorrectChain(a) ==
    /\ a.status = "ok"
    /\ IsPath(Lbas(a.entries))
    /\ \A i \in 1..Len(a.entries) : a.entries[i] = EntryAt(a.entries[i].ebr_lba)
    /\ CorrectFlags(Lbas(a.entries), a.had_cycle, a.depth_exceeded)

\* The medium and the container are given, whatever they are.
AInit == answer = Pending

DeliverChain == /\ answer = Pending
                /\ CorrectChain(answer')
                /\ UNCHANGED <<disk, ext_start_lba>>

\* An I/O error is an answer only when a path really runs into a failing seek.
DeliverError ==
    /\ answer = Pending
    /\ answer' = IoError
    /\ \E n \in 0..(MAX_DEPTH - 1) : \E p \in [1..n -> 0..U64Max] :
          /\ IsPath(p)
          /\ Target(p) # NoLba
          /\ Unseekable(Target(p))
    /\ UNCHANGED <<disk, ext_start_lba>>

ANext == DeliverChain \/ DeliverError

ASpec == AInit /\ [][ANext]_avars
=============================================================================
