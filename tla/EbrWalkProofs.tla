--------------------------- MODULE EbrWalkProofs ---------------------------
(***************************************************************************)
(* Proofs about EbrWalk for every depth limit, sector size, integer width  *)
(* and medium: the type invariant, the safety properties of the walk, and  *)
(* the refinement of EbrChain.                                             *)
(***************************************************************************)
EXTENDS EbrWalk, FiniteSetTheorems, TLAPS

-----------------------------------------------------------------------------
(* The inductive invariant, in named parts. *)

(***************************************************************************)
(* The entries are the parsed EBRs of a simple path of addressable sectors *)
(* (ChainFollowsLinks, and what it needs to be preserved).                 *)
(***************************************************************************)
PathInv ==
    /\ Len(entries) <= MAX_DEPTH
    /\ \A i \in 1..Len(entries) :
         /\ disk[entries[i].ebr_lba].io = "ok"
         /\ disk[entries[i].ebr_lba].boot_sig
         /\ entries[i].ebr_lba * SectorSize <= U64Max
         /\ entries[i] = ParseEntry(entries[i].ebr_lba)
         /\ i = 1 => entries[i].ebr_lba = ext_start_lba
         /\ i > 1 => /\ disk[entries[i - 1].ebr_lba].next # 0
                     /\ entries[i].ebr_lba =
                          ext_start_lba + disk[entries[i - 1].ebr_lba].next
    /\ \A i, j \in 1..Len(entries) :
         entries[i].ebr_lba = entries[j].ebr_lba => i = j

\* p is the sector the path entered so far leads to.
LeadsTo(p) ==
    /\ Len(entries) = 0 => p = ext_start_lba
    /\ Len(entries) > 0 =>
         /\ disk[entries[Len(entries)].ebr_lba].next # 0
         /\ p = ext_start_lba + disk[entries[Len(entries)].ebr_lba].next

\* The path ends: its last link is zero or overflows.
EndsHere ==
    /\ Len(entries) > 0
    /\ \/ disk[entries[Len(entries)].ebr_lba].next = 0
       \/ AddOverflows(ext_start_lba, disk[entries[Len(entries)].ebr_lba].next)

\* A sector that is not an EBR for the walk, other than by a failing seek.
NotAnEbr(l) == \/ MulOverflows(l, SectorSize)
               \/ disk[l].io = "short"
               \/ disk[l].io = "ok" /\ ~disk[l].boot_sig

\* What holds at each control point of the loop.
ControlInv ==
    /\ pc # "done" => /\ LeadsTo(next_ebr_lba)
                      /\ ~had_cycle /\ ~depth_exceeded
    /\ pc = "check" => visited = Listed
    /\ pc \in {"read", "failed"} =>
         /\ Len(entries) < MAX_DEPTH
         /\ next_ebr_lba \notin Listed
         /\ visited = Listed \cup {next_ebr_lba}
         /\ ~MulOverflows(next_ebr_lba, SectorSize)
    /\ pc = "read" => disk[next_ebr_lba].io # "noseek"
    /\ pc = "failed" => disk[next_ebr_lba].io = "noseek"
    /\ pc = "done" =>
         /\ visited \subseteq Listed \cup {next_ebr_lba}
         /\ Len(entries) = MAX_DEPTH => visited = Listed
         /\ \/ /\ depth_exceeded /\ ~had_cycle
               /\ Len(entries) = MAX_DEPTH
               /\ LeadsTo(next_ebr_lba)
            \/ /\ had_cycle /\ ~depth_exceeded
               /\ Len(entries) < MAX_DEPTH
               /\ LeadsTo(next_ebr_lba)
               /\ next_ebr_lba \in Listed
            \/ /\ ~had_cycle /\ ~depth_exceeded
               /\ EndsHere
            \/ /\ ~had_cycle /\ ~depth_exceeded
               /\ Len(entries) < MAX_DEPTH
               /\ LeadsTo(next_ebr_lba)
               /\ next_ebr_lba \notin Listed
               /\ NotAnEbr(next_ebr_lba)

WalkInv == TypeOK /\ PathInv /\ ControlInv

-----------------------------------------------------------------------------
(* Lemmas about the operators of the model. *)

\* Parsing an EBR at an addressable LBA yields a well-typed entry for that LBA.
LEMMA ParseEntryType ==
  ASSUME TypeOK, NEW l \in Lba, ~MulOverflows(l, SectorSize)
  PROVE  ParseEntry(l) \in EbrEntry /\ ParseEntry(l).ebr_lba = l
<1>1. disk[l].logical \in Logicals /\ disk[l].slack \in BOOLEAN
  BY DEF TypeOK, Sector
<1>2. disk[l].logical.lba_start \in 0..U32Max
  BY <1>1, LogicalsAssumption
<1>3. SaturatingAdd(l, disk[l].logical.lba_start) \in Lba
  BY <1>2, BoundsAssumption DEF SaturatingAdd, Lba
<1>4. l * SectorSize \in 0..U64Max
  BY BoundsAssumption DEF MulOverflows, Lba
<1> QED
  BY <1>1, <1>3, <1>4 DEF ParseEntry, EbrEntry

\* Pushing an entry lists exactly one more LBA.
LEMMA ListedAppend ==
  ASSUME TypeOK, NEW e \in EbrEntry, entries' = Append(entries, e)
  PROVE  Listed' = Listed \cup {e.ebr_lba}
<1>1. /\ Len(entries') = Len(entries) + 1
      /\ entries'[Len(entries) + 1] = e
      /\ \A i \in 1..Len(entries) : entries'[i] = entries[i]
      /\ Len(entries) \in Nat
  BY DEF TypeOK
<1>2. 1..Len(entries') = (1..Len(entries)) \cup {Len(entries) + 1}
  BY <1>1
<1> QED
  BY <1>1, <1>2 DEF Listed

\* A path of n entries lists at most n LBAs.
LEMMA ListedCardinality ==
  ASSUME TypeOK
  PROVE  IsFiniteSet(Listed) /\ Cardinality(Listed) <= Len(entries)
<1> DEFINE n == Len(entries)
           f == [i \in 1..n |-> entries[i].ebr_lba]
<1>1. n \in Nat
  BY DEF TypeOK
<1>2. IsFiniteSet(1..n) /\ Cardinality(1..n) = n
  <2>1. /\ IsFiniteSet(1..n)
        /\ Cardinality(1..n) = IF 1 > n THEN 0 ELSE n - 1 + 1
    <3>1. 1 \in Int /\ n \in Int
      BY <1>1
    <3> QED
      BY <3>1, FS_Interval, Zenon
  <2> QED
    BY <1>1, <2>1
<1>3. f \in Surjection(1..n, Listed)
  BY DEF Surjection, Listed
<1> QED
  BY <1>2, <1>3, FS_Surjection

-----------------------------------------------------------------------------
(* Type correctness. *)

\* Every reachable state of the walk is well typed: no entry, offset or LBA
\* leaves the u64 range although links and starts are arbitrary.
LEMMA TypeStep ==
  ASSUME TypeOK, ControlInv, [Next]_vars
  PROVE  TypeOK'
<1> USE BoundsAssumption
<1>1. CASE UNCHANGED vars
  BY <1>1 DEF TypeOK, vars
<1>2. CASE DepthLimit
  BY <1>2 DEF DepthLimit, Break, TypeOK
<1>3. CASE CycleFound
  BY <1>3 DEF CycleFound, Break, TypeOK
<1>4. CASE OffsetOverflow
  BY <1>4 DEF OffsetOverflow, Visit, Break, TypeOK
<1>5. CASE SeekFails
  BY <1>5 DEF SeekFails, Visit, TypeOK
<1>6. CASE SeekTo
  BY <1>6 DEF SeekTo, Visit, TypeOK
<1>7. CASE ReadFails
  BY <1>7 DEF ReadFails, Break, TypeOK
<1>8. CASE NoSignature
  BY <1>8 DEF NoSignature, Break, TypeOK
<1>9. ASSUME Push PROVE entries' \in Seq(EbrEntry)
  <2>1. ~MulOverflows(next_ebr_lba, SectorSize)
    BY <1>9 DEF Push, ControlInv
  <2>2. ParseEntry(next_ebr_lba) \in EbrEntry
    BY <2>1, ParseEntryType DEF TypeOK
  <2> QED
    BY <1>9, <2>2 DEF Push, TypeOK
<1>10. CASE EndOfChain
  BY <1>9, <1>10 DEF EndOfChain, Push, Break, TypeOK
<1>11. CASE LinkOverflow
  BY <1>9, <1>11 DEF LinkOverflow, Push, Break, TypeOK
<1>12. CASE FollowLink
  <2>1. disk[next_ebr_lba].next \in 0..U32Max
    BY DEF TypeOK, Sector
  <2>2. next_ebr_lba' \in Lba
    BY <1>12, <2>1 DEF FollowLink, AddOverflows, Lba, TypeOK
  <2> QED
    BY <1>9, <1>12, <2>2 DEF FollowLink, Push, TypeOK
<1>13. CASE Returned
  BY <1>13 DEF Returned, TypeOK, vars
<1> QED
  BY <1>1, <1>2, <1>3, <1>4, <1>5, <1>6, <1>7, <1>8, <1>10, <1>11, <1>12, <1>13
  DEF Next, Step

-----------------------------------------------------------------------------
(* The path is preserved. *)

\* A step of the walk keeps what is known of the path it has taken.
LEMMA PathStep ==
  ASSUME WalkInv, [Next]_vars
  PROVE  PathInv'
<1> USE BoundsAssumption DEF WalkInv
<1>1. ASSUME UNCHANGED <<disk, ext_start_lba, entries>>
      PROVE  PathInv'
  BY <1>1 DEF PathInv, ParseEntry
<1>2. ASSUME Push, UNCHANGED <<disk, ext_start_lba>>
      PROVE  PathInv'
  <2> DEFINE n == Len(entries)
             l == next_ebr_lba
             e == ParseEntry(l)
  <2>1. /\ n < MAX_DEPTH /\ LeadsTo(l) /\ l \notin Listed
        /\ ~MulOverflows(l, SectorSize)
    BY <1>2 DEF Push, ControlInv
  <2>2. l \in Lba /\ e \in EbrEntry /\ e.ebr_lba = l
    BY <2>1, ParseEntryType DEF TypeOK
  <2>3. /\ n \in Nat
        /\ Len(entries') = n + 1
        /\ entries'[n + 1] = e
        /\ \A i \in 1..n : entries'[i] = entries[i]
    BY <1>2, <2>2 DEF Push, TypeOK
  <2>4. Len(entries') <= MAX_DEPTH
    BY <2>1, <2>3
  <2>5. ASSUME NEW i \in 1..Len(entries')
        PROVE  /\ disk[entries'[i].ebr_lba].io = "ok"
               /\ disk[entries'[i].ebr_lba].boot_sig
               /\ entries'[i].ebr_lba * SectorSize <= U64Max
               /\ entries'[i] = ParseEntry(entries'[i].ebr_lba)
               /\ i = 1 => entries'[i].ebr_lba = ext_start_lba
               /\ i > 1 => /\ disk[entries'[i - 1].ebr_lba].next # 0
                           /\ entries'[i].ebr_lba =
                                ext_start_lba + disk[entries'[i - 1].ebr_lba].next
    <3>1. CASE i \in 1..n
      <4>1. i > 1 => i - 1 \in 1..n
        BY <2>3, <3>1
      <4>2. entries'[i] = entries[i] /\ (i > 1 => entries'[i - 1] = entries[i - 1])
        BY <2>3, <3>1, <4>1
      <4> HIDE DEF e, l
      <4> QED
        BY ONLY <3>1, <4>2, PathInv DEF PathInv
    <3>2. CASE i = n + 1
      <4>1. l * SectorSize <= U64Max
        BY <2>1, <2>2 DEF MulOverflows, Lba
      <4>2. i > 1 => i - 1 = n /\ n \in 1..n /\ n > 0
        BY <2>3, <3>2
      <4>3. i = 1 => n = 0
        BY <2>3, <3>2
      <4> QED
        BY <1>2, <2>1, <2>2, <2>3, <3>2, <4>1, <4>2, <4>3 DEF Push, LeadsTo
    <3> QED
      BY <2>3, <3>1, <3>2
  <2>6. ASSUME NEW i \in 1..Len(entries'), NEW j \in 1..Len(entries'),
               entries'[i].ebr_lba = entries'[j].ebr_lba
        PROVE  i = j
    <3>1. \A k \in 1..n : entries[k].ebr_lba # l
      BY <2>1 DEF Listed
    <3> QED
      BY <2>2, <2>3, <2>6, <3>1 DEF PathInv
  <2> QED
    BY <1>2, <2>4, <2>5, <2>6 DEF PathInv, ParseEntry
<1> QED
  BY <1>1, <1>2 DEF Next, Step, DepthLimit, CycleFound, OffsetOverflow, SeekFails,
     SeekTo, ReadFails, NoSignature, EndOfChain, LinkOverflow, FollowLink,
     Returned, Break, Visit, vars

-----------------------------------------------------------------------------
(* The control points are preserved. *)

\* A step of the walk keeps the relation between the program counter, the
\* count of EBRs and the flags.
LEMMA ControlStep ==
  ASSUME WalkInv, [Next]_vars
  PROVE  ControlInv'
<1> USE BoundsAssumption DEF WalkInv
<1>0. /\ Len(entries) \in Nat
      /\ Len(entries) <= MAX_DEPTH
      /\ next_ebr_lba \in Lba
  BY DEF TypeOK, PathInv
<1>1. CASE UNCHANGED vars
  BY <1>1 DEF ControlInv, LeadsTo, EndsHere, NotAnEbr, Listed, vars
<1>2. CASE DepthLimit
  BY <1>0, <1>2 DEF DepthLimit, Break, ControlInv, LeadsTo, Listed
<1>3. CASE CycleFound
  BY <1>0, <1>3 DEF CycleFound, Break, ControlInv, LeadsTo, Listed
<1>4. CASE OffsetOverflow
  BY <1>0, <1>4 DEF OffsetOverflow, Visit, Break, ControlInv, LeadsTo, Listed, NotAnEbr
<1>5. CASE SeekFails
  BY <1>0, <1>5 DEF SeekFails, Visit, ControlInv, LeadsTo, Listed
<1>6. CASE SeekTo
  BY <1>0, <1>6 DEF SeekTo, Visit, ControlInv, LeadsTo, Listed
<1>7. CASE ReadFails
  BY <1>0, <1>7 DEF ReadFails, Break, ControlInv, LeadsTo, Listed, NotAnEbr
<1>8. CASE NoSignature
  BY <1>0, <1>8 DEF NoSignature, Break, ControlInv, LeadsTo, Listed, NotAnEbr
<1>9. ASSUME Push
      PROVE  /\ Len(entries') \in Nat /\ Len(entries') > 0
             /\ Len(entries') <= MAX_DEPTH
             /\ entries'[Len(entries')].ebr_lba = next_ebr_lba
             /\ Listed' = Listed \cup {next_ebr_lba}
             /\ visited' = Listed'
             /\ ~had_cycle' /\ ~depth_exceeded'
  <2>1. /\ ~MulOverflows(next_ebr_lba, SectorSize)
        /\ Len(entries) < MAX_DEPTH
        /\ visited = Listed \cup {next_ebr_lba}
        /\ ~had_cycle /\ ~depth_exceeded
    BY <1>9 DEF Push, ControlInv
  <2>2. /\ ParseEntry(next_ebr_lba) \in EbrEntry
        /\ ParseEntry(next_ebr_lba).ebr_lba = next_ebr_lba
    BY <1>0, <2>1, ParseEntryType
  <2>3. Listed' = Listed \cup {next_ebr_lba}
    BY <1>9, <2>2, ListedAppend DEF Push
  <2> QED
    BY <1>0, <1>9, <2>1, <2>2, <2>3 DEF Push, TypeOK
<1>10. CASE EndOfChain
  BY <1>0, <1>9, <1>10 DEF EndOfChain, Break, ControlInv, EndsHere
<1>11. CASE LinkOverflow
  BY <1>0, <1>9, <1>11 DEF LinkOverflow, Break, ControlInv, EndsHere
<1>12. CASE FollowLink
  BY <1>0, <1>9, <1>12 DEF FollowLink, ControlInv, LeadsTo
<1>13. CASE Returned
  BY <1>13 DEF Returned, ControlInv, LeadsTo, EndsHere, NotAnEbr, Listed, vars
<1> QED
  BY <1>1, <1>2, <1>3, <1>4, <1>5, <1>6, <1>7, <1>8, <1>10, <1>11, <1>12, <1>13
  DEF Next, Step

-----------------------------------------------------------------------------
(* The theorems. *)

\* The walk starts in WalkInv ...
LEMMA WalkInit == Init => WalkInv
<1> SUFFICES ASSUME Init PROVE WalkInv
  OBVIOUS
<1>1. TypeOK
  <2>1. disk \in [Lba -> Sector] /\ ext_start_lba \in Lba
    BY MediaAssumption, Zenon DEF Init
  <2>2. entries \in Seq(EbrEntry)
    BY DEF Init
  <2>3. next_ebr_lba \in Lba /\ visited \subseteq Lba
    BY <2>1 DEF Init
  <2> QED
    BY <2>1, <2>2, <2>3 DEF Init, TypeOK
<1>2. Len(entries) = 0 /\ Listed = {}
  BY DEF Init, Listed
<1>3. PathInv
  BY <1>2, BoundsAssumption DEF PathInv
<1>4. ControlInv
  BY <1>2 DEF Init, ControlInv, LeadsTo
<1> QED
  BY <1>1, <1>3, <1>4 DEF WalkInv

\* ... and every step of it preserves WalkInv.
LEMMA WalkInvStep == WalkInv /\ [Next]_vars => WalkInv'
BY TypeStep, PathStep, ControlStep DEF WalkInv

\* WalkInv holds of every state the loop of walk_ebr_chain can reach.
THEOREM WalkInvariant == Spec => []WalkInv
<1> QED
  BY WalkInit, WalkInvStep, PTL DEF Spec

\* Type correctness: whatever the links and starts on the medium, every
\* LBA and byte offset walk_ebr_chain computes stays in the u64 range.
THEOREM TypeCorrect == Spec => []TypeOK
<1>1. WalkInv => TypeOK
  BY DEF WalkInv
<1> QED
  BY <1>1, WalkInvariant, PTL

\* The entries are at every moment the EBRs of one simple path that
\* follows the links, each logical partition placed relative to its EBR.
THEOREM FollowsLinks == Spec => []ChainFollowsLinks
<1>1. WalkInv => ChainFollowsLinks
  <2> SUFFICES ASSUME WalkInv PROVE ChainFollowsLinks
    OBVIOUS
  <2>1. \A i \in 1..Len(entries) :
          entries[i].logical_lba_start =
            SaturatingAdd(entries[i].ebr_lba, disk[entries[i].ebr_lba].logical.lba_start)
    <3> TAKE i \in 1..Len(entries)
    <3>1. entries[i] = ParseEntry(entries[i].ebr_lba)
      BY DEF WalkInv, PathInv
    <3> QED
      BY ONLY <3>1 DEF ParseEntry
  <2>2. \A i \in 1..Len(entries) : i = 1 \/ i > 1
    BY DEF WalkInv, TypeOK
  <2> QED
    BY <2>1, <2>2 DEF WalkInv, PathInv, ChainFollowsLinks
<1> QED
  BY <1>1, WalkInvariant, PTL

\* WalkInv implies that the chain returned is complete.
LEMMA WalkInvComplete == WalkInv => CompleteUnlessDepthExceeded
<1> SUFFICES ASSUME WalkInv, pc = "done", ~depth_exceeded,
                    NEW l \in Lba,
                    disk[l].io = "ok", disk[l].boot_sig,
                    l * SectorSize <= U64Max,
                    \/ l = ext_start_lba
                    \/ \E k \in Listed : /\ disk[k].next # 0
                                        /\ l = ext_start_lba + disk[k].next
             PROVE  l \in Listed
  BY DEF CompleteUnlessDepthExceeded
<1> USE BoundsAssumption
<1>1. /\ Len(entries) \in Nat
      /\ ~NotAnEbr(l)
      /\ ~AddOverflows(0, l)
      /\ \A i \in 1..Len(entries) : entries[i].ebr_lba \in Listed
  BY DEF WalkInv, TypeOK, NotAnEbr, MulOverflows, AddOverflows, Lba, Listed
<1>2. CASE l = ext_start_lba
  <2>1. CASE Len(entries) = 0
    BY <1>1, <1>2, <2>1 DEF WalkInv, ControlInv, LeadsTo, EndsHere, Listed
  <2>2. CASE Len(entries) # 0
    <3>1. 1 \in 1..Len(entries)
      BY <1>1, <2>2
    <3> QED
      BY <1>1, <1>2, <3>1 DEF WalkInv, PathInv
  <2> QED
    BY <2>1, <2>2
<1>3. ASSUME NEW i \in 1..Len(entries),
             disk[entries[i].ebr_lba].next # 0,
             l = ext_start_lba + disk[entries[i].ebr_lba].next
      PROVE  l \in Listed
  <2>1. CASE i < Len(entries)
    <3>1. i + 1 \in 1..Len(entries) /\ i + 1 > 1 /\ (i + 1) - 1 = i
      BY <1>1, <2>1
    <3>2. entries[i + 1].ebr_lba = l
      BY <1>3, <3>1 DEF WalkInv, PathInv
    <3> QED
      BY <1>1, <3>1, <3>2
  <2>2. CASE i = Len(entries)
    <3>1. ~EndsHere
      BY <1>1, <1>3, <2>2 DEF EndsHere, AddOverflows, Lba
    <3> QED
      BY <1>1, <1>3, <2>2, <3>1 DEF WalkInv, ControlInv, LeadsTo
  <2> QED
    BY <1>1, <2>1, <2>2
<1> QED
  BY <1>2, <1>3 DEF Listed

\* A chain returned without depth_exceeded lists every readable EBR that
\* the container or a listed EBR links to: stopping at a repeated link or
\* at a bad sector drops no partition the walk could have reached.
THEOREM CompleteChain == Spec => []CompleteUnlessDepthExceeded
<1> QED
  BY WalkInvComplete, WalkInvariant, PTL

\* At most MAX_DEPTH sectors are read, however long or tangled the chain.
THEOREM VisitsBounded == Spec => []BoundedVisits
<1>1. WalkInv => BoundedVisits
  <2> SUFFICES ASSUME WalkInv PROVE BoundedVisits
    OBVIOUS
  <2> DEFINE S == Listed \cup {next_ebr_lba}
  <2>1. /\ IsFiniteSet(Listed) /\ Cardinality(Listed) <= Len(entries)
        /\ Len(entries) \in Nat /\ Len(entries) <= MAX_DEPTH
    BY ListedCardinality DEF WalkInv, TypeOK, PathInv
  <2>2. /\ IsFiniteSet(S)
        /\ Cardinality(S) = IF next_ebr_lba \in Listed THEN Cardinality(Listed)
                                                     ELSE Cardinality(Listed) + 1
    BY <2>1, FS_AddElement, Zenon
  <2>3. Cardinality(Listed) \in Nat /\ Cardinality(S) \in Nat
    BY <2>1, <2>2, FS_CardinalityType, Zenon
  <2>4. visited \in SUBSET S
    BY DEF WalkInv, ControlInv, TypeOK
  <2>5. IsFiniteSet(visited) /\ Cardinality(visited) <= Cardinality(S)
    BY <2>2, <2>4, FS_Subset, Zenon
  <2>6. Cardinality(visited) \in Nat
    BY <2>5, FS_CardinalityType, Zenon
  <2>7. CASE Len(entries) < MAX_DEPTH
    BY <2>1, <2>2, <2>3, <2>5, <2>6, <2>7, BoundsAssumption DEF BoundedVisits
  <2>8. CASE Len(entries) = MAX_DEPTH
    <3>1. visited = Listed
      BY <2>1, <2>8, BoundsAssumption DEF WalkInv, ControlInv, TypeOK
    <3> QED
      BY <2>1, <3>1, <2>8 DEF BoundedVisits
  <2> QED
    BY <2>1, <2>7, <2>8, BoundsAssumption
<1> QED
  BY <1>1, WalkInvariant, PTL

-----------------------------------------------------------------------------
(* Refinement. *)

\* The entries' LBAs are a path in EbrChain's sense, and the sector the loop
\* is about to visit is where that path continues.
LEMMA PathFacts ==
  ASSUME WalkInv
  PROVE  LET p == Promise!Lbas(entries)
             n == Len(entries)
         IN  /\ n \in Nat /\ n <= MAX_DEPTH /\ Len(p) = n
             /\ p \in [1..n -> Lba]
             /\ \A i \in 1..n : entries[i] = Promise!EntryAt(entries[i].ebr_lba)
             /\ Promise!Listed(p) = Listed
             /\ Promise!IsPath(p)
             /\ LeadsTo(next_ebr_lba) => Promise!Target(p) = next_ebr_lba
             /\ EndsHere => Promise!Target(p) = Promise!NoLba
<1> USE BoundsAssumption
<1> DEFINE p == Promise!Lbas(entries)
           n == Len(entries)
<1>1. n \in Nat /\ n <= MAX_DEPTH
  BY DEF WalkInv, TypeOK, PathInv
<1>2. \A i \in 1..n : entries[i].ebr_lba \in Lba
  <2> TAKE i \in 1..n
  <2>1. entries[i] \in EbrEntry
    BY DEF WalkInv, TypeOK
  <2> QED
    BY <2>1 DEF EbrEntry
<1>3. p \in [1..n -> Lba] /\ \A i \in 1..n : p[i] = entries[i].ebr_lba
  BY <1>2 DEF Promise!Lbas
<1>4. Len(p) = n
  BY <1>1, <1>3
<1>5. \A i \in 1..n : entries[i] = Promise!EntryAt(entries[i].ebr_lba)
  <2> TAKE i \in 1..n
  <2>1. entries[i] = ParseEntry(entries[i].ebr_lba)
    BY DEF WalkInv, PathInv
  <2> QED
    BY ONLY <2>1 DEF ParseEntry, Promise!EntryAt, SaturatingAdd
<1>6. Promise!Listed(p) = Listed
  BY <1>3, <1>4 DEF Promise!Listed, Listed
<1>7. \A i \in 1..n : disk[p[i]].next \in 0..U32Max
  BY <1>3 DEF WalkInv, TypeOK, Sector
<1> HIDE DEF p
<1>8. n > 0 => n \in 1..n
  BY <1>1
<1>9. LeadsTo(next_ebr_lba) => Promise!Target(p) = next_ebr_lba
  <2>1. next_ebr_lba \in 0..U64Max /\ ext_start_lba \in 0..U64Max
    BY DEF WalkInv, TypeOK, Lba
  <2> QED
    BY <1>1, <1>3, <1>4, <1>7, <1>8, <2>1
    DEF LeadsTo, Promise!Target, Promise!LinkOf
<1>10. EndsHere => Promise!Target(p) = Promise!NoLba
  BY <1>1, <1>3, <1>4, <1>7, <1>8
  DEF EndsHere, AddOverflows, Promise!Target, Promise!LinkOf, Promise!NoLba
<1>11. Promise!IsPath(p)
  <2>1. ASSUME NEW i \in 1..n
        PROVE  /\ Promise!IsEbr(p[i])
               /\ p[i] = IF i = 1 THEN ext_start_lba ELSE Promise!LinkOf(p[i - 1])
    <3>1. Promise!IsEbr(p[i])
      BY <1>3 DEF WalkInv, PathInv, Promise!IsEbr
    <3>2. CASE i = 1
      BY <1>3, <3>1, <3>2 DEF WalkInv, PathInv
    <3>3. CASE i > 1
      <4>1. i - 1 \in 1..n
        BY <1>1, <3>3
      <4>2. p[i] = ext_start_lba + disk[p[i - 1]].next /\ disk[p[i - 1]].next # 0
        BY <1>3, <3>3, <4>1 DEF WalkInv, PathInv
      <4>3. p[i] = Promise!LinkOf(p[i - 1])
        BY <1>3, <1>7, <4>1, <4>2 DEF Promise!LinkOf, Lba
      <4> QED
        BY <3>1, <3>3, <4>3
    <3> QED
      BY <1>1, <3>2, <3>3
  <2>2. \A i, j \in 1..n : p[i] = p[j] => i = j
    BY <1>3 DEF WalkInv, PathInv
  <2> QED
    BY <1>1, <1>4, <2>1, <2>2 DEF Promise!IsPath
<1> QED
  BY <1>1, <1>3, <1>4, <1>5, <1>6, <1>9, <1>10, <1>11 DEF p

\* A returned chain is one EbrChain allows, flags included.
LEMMA DoneIsCorrect == WalkInv /\ pc = "done" => Promise!CorrectChain(Answer)
<1> SUFFICES ASSUME WalkInv, pc = "done" PROVE Promise!CorrectChain(Answer)
  OBVIOUS
<1> DEFINE p == Promise!Lbas(entries)
           n == Len(entries)
<1>1. /\ Answer.status = "ok" /\ Answer.entries = entries
      /\ Answer.had_cycle = had_cycle /\ Answer.depth_exceeded = depth_exceeded
  BY DEF Answer
<1>2. /\ n \in Nat /\ n <= MAX_DEPTH /\ Len(p) = n
      /\ \A i \in 1..n : entries[i] = Promise!EntryAt(entries[i].ebr_lba)
      /\ Promise!Listed(p) = Listed
      /\ Promise!IsPath(p)
      /\ LeadsTo(next_ebr_lba) => Promise!Target(p) = next_ebr_lba
      /\ EndsHere => Promise!Target(p) = Promise!NoLba
  BY PathFacts
<1> HIDE DEF p
<1>3. NotAnEbr(next_ebr_lba) =>
        ~Promise!IsEbr(next_ebr_lba) /\ ~Promise!Unseekable(next_ebr_lba)
  BY BoundsAssumption
  DEF NotAnEbr, MulOverflows, Promise!IsEbr, Promise!Unseekable, Lba, WalkInv, TypeOK
<1>4. Promise!CorrectFlags(p, had_cycle, depth_exceeded)
  <2>1. /\ next_ebr_lba # Promise!NoLba
        /\ had_cycle \in BOOLEAN /\ depth_exceeded \in BOOLEAN
    BY BoundsAssumption DEF WalkInv, TypeOK, Promise!NoLba, Lba
  <2>2. Promise!NoLba \notin Listed
    <3>1. \A i \in 1..n : entries[i] \in EbrEntry
      BY DEF WalkInv, TypeOK
    <3> QED
      BY <3>1, BoundsAssumption DEF Listed, EbrEntry, Lba, Promise!NoLba
  <2>3. CASE /\ depth_exceeded /\ ~had_cycle
             /\ n = MAX_DEPTH /\ LeadsTo(next_ebr_lba)
    BY <1>2, <2>1, <2>3, BoundsAssumption DEF Promise!CorrectFlags
  <2>4. CASE /\ had_cycle /\ ~depth_exceeded
             /\ n < MAX_DEPTH /\ LeadsTo(next_ebr_lba) /\ next_ebr_lba \in Listed
    BY <1>2, <2>1, <2>4, BoundsAssumption DEF Promise!CorrectFlags
  <2>5. CASE ~had_cycle /\ ~depth_exceeded /\ EndsHere
    BY <1>2, <2>1, <2>2, <2>5 DEF Promise!CorrectFlags
  <2>6. CASE /\ ~had_cycle /\ ~depth_exceeded /\ n < MAX_DEPTH
             /\ LeadsTo(next_ebr_lba) /\ next_ebr_lba \notin Listed
             /\ NotAnEbr(next_ebr_lba)
    BY <1>2, <1>3, <2>1, <2>6, BoundsAssumption DEF Promise!CorrectFlags
  <2> QED
    BY <2>3, <2>4, <2>5, <2>6 DEF WalkInv, ControlInv
<1> QED
  BY <1>1, <1>2, <1>4 DEF Promise!CorrectChain, p

\* A returned error is one EbrChain allows: the path really meets that sector.
LEMMA FailedIsCorrect ==
  WalkInv /\ pc = "failed" =>
    \E n \in 0..(MAX_DEPTH - 1) : \E p \in [1..n -> 0..U64Max] :
       /\ Promise!IsPath(p)
       /\ Promise!Target(p) # Promise!NoLba
       /\ Promise!Unseekable(Promise!Target(p))
<1> SUFFICES ASSUME WalkInv, pc = "failed"
             PROVE  \E n \in 0..(MAX_DEPTH - 1) : \E p \in [1..n -> 0..U64Max] :
                       /\ Promise!IsPath(p)
                       /\ Promise!Target(p) # Promise!NoLba
                       /\ Promise!Unseekable(Promise!Target(p))
  OBVIOUS
<1> DEFINE q == Promise!Lbas(entries)
           m == Len(entries)
<1>1. /\ m \in Nat /\ q \in [1..m -> Lba] /\ Promise!IsPath(q)
      /\ LeadsTo(next_ebr_lba) => Promise!Target(q) = next_ebr_lba
  BY PathFacts
<1> HIDE DEF q
<1>2. /\ m < MAX_DEPTH /\ LeadsTo(next_ebr_lba)
      /\ ~MulOverflows(next_ebr_lba, SectorSize)
      /\ disk[next_ebr_lba].io = "noseek"
      /\ next_ebr_lba \in Lba
  BY DEF WalkInv, ControlInv, TypeOK
<1>3. m \in 0..(MAX_DEPTH - 1)
  BY <1>1, <1>2, BoundsAssumption
<1>4. Promise!Target(q) # Promise!NoLba /\ Promise!Unseekable(Promise!Target(q))
  BY <1>1, <1>2, BoundsAssumption DEF Promise!NoLba, Promise!Unseekable, MulOverflows, Lba
<1> QED
  BY <1>1, <1>3, <1>4 DEF Lba

(***************************************************************************)
(* The loop of walk_ebr_chain implements EbrChain: every state of the walk *)
(* maps to one of the abstract specification, the steps inside the loop to *)
(* stuttering, and the step that returns to the delivery of an answer that *)
(* is correct for the medium.                                              *)
(***************************************************************************)
THEOREM Refinement == Spec => ImplementsEbrChain
<1>1. Init => Promise!AInit
  BY DEF Init, Promise!AInit, Promise!Pending, Answer
<1>2. (WalkInv /\ pc = "done" => Promise!CorrectChain(Answer))'
  BY DoneIsCorrect, PTL
<1>3. (WalkInv /\ pc = "failed" =>
         \E n \in 0..(MAX_DEPTH - 1) : \E p \in [1..n -> 0..U64Max] :
            /\ Promise!IsPath(p)
            /\ Promise!Target(p) # Promise!NoLba
            /\ Promise!Unseekable(Promise!Target(p)))'
  BY FailedIsCorrect, PTL
<1>4. WalkInv' /\ [Next]_vars => [Promise!ANext]_(Promise!avars)
  <2> SUFFICES ASSUME WalkInv', [Next]_vars
               PROVE  [Promise!ANext]_(Promise!avars)
    OBVIOUS
  <2>1. CASE pc' = pc
    <3>1. UNCHANGED vars
      BY <2>1 DEF Next, Step, DepthLimit, CycleFound, OffsetOverflow, SeekFails,
         SeekTo, ReadFails, NoSignature, EndOfChain, LinkOverflow, FollowLink,
         Returned, Break, Visit, Push
    <3> QED
      BY <3>1 DEF vars, Answer, Promise!avars
  <2>2. CASE pc' # pc
    <3>1. UNCHANGED <<disk, ext_start_lba>> /\ pc \in {"check", "read"}
      BY <2>2 DEF Next, Step, DepthLimit, CycleFound, OffsetOverflow, SeekFails,
         SeekTo, ReadFails, NoSignature, EndOfChain, LinkOverflow, FollowLink,
         Returned, Break, Visit, Push, vars
    <3>2. Answer = Promise!Pending
      BY <3>1 DEF Answer, Promise!Pending
    <3>3. CASE pc' \in {"check", "read"}
      BY <3>1, <3>2, <3>3 DEF Answer, Promise!Pending, Promise!avars
    <3>4. CASE pc' = "done"
      <4> DEFINE a == Answer'
                 p == Promise!Lbas(a.entries)
      <4>1. Promise!CorrectChain(Answer)'
        BY <1>2, <3>4
      <4>2. a.status = "ok"
        BY <4>1 DEF Promise!CorrectChain
      <4>3. Promise!IsPath(p)
        <5>1. Promise!IsPath(Promise!Lbas(Answer.entries))'
          BY <4>1 DEF Promise!CorrectChain
        <5>2. Len(p) <= MAX_DEPTH /\ \A i, j \in 1..Len(p) : p[i] = p[j] => i = j
          BY <5>1 DEF Promise!IsPath, Promise!Lbas
        <5>3. ASSUME NEW i \in 1..Len(p)
              PROVE  Promise!IsEbr(p[i])
          BY <3>1, <5>1, Zenon DEF Promise!IsPath, Promise!IsEbr, Promise!Lbas
        <5>4. ASSUME NEW i \in 1..Len(p)
              PROVE  p[i] = IF i = 1 THEN ext_start_lba ELSE Promise!LinkOf(p[i - 1])
          BY <3>1, <5>1 DEF Promise!IsPath, Promise!LinkOf, Promise!Lbas, Promise!NoLba
        <5> QED
          BY <5>2, <5>3, <5>4 DEF Promise!IsPath
      <4>4. \A i \in 1..Len(a.entries) : a.entries[i] = Promise!EntryAt(a.entries[i].ebr_lba)
        BY <3>1, <4>1 DEF Promise!CorrectChain, Promise!EntryAt
      <4>5. Promise!CorrectFlags(p, a.had_cycle, a.depth_exceeded)
        BY <3>1, <4>1
        DEF Promise!CorrectChain, Promise!CorrectFlags, Promise!Target, Promise!Listed,
            Promise!LinkOf, Promise!IsEbr, Promise!Unseekable, Promise!Lbas, Promise!NoLba
      <4>6. Promise!CorrectChain(Answer')
        BY <4>2, <4>3, <4>4, <4>5 DEF Promise!CorrectChain
      <4> QED
        BY <3>1, <3>2, <4>6 DEF Promise!ANext, Promise!DeliverChain
    <3>5. CASE pc' = "failed"
      <4>1. Answer' = Promise!IoError
        BY <3>5 DEF Answer, Promise!IoError
      <4>2. \E n \in 0..(MAX_DEPTH - 1) : \E p \in [1..n -> 0..U64Max] :
               /\ Promise!IsPath(p)
               /\ Promise!Target(p) # Promise!NoLba
               /\ Promise!Unseekable(Promise!Target(p))
        BY <1>3, <3>1, <3>5
        DEF Promise!IsPath, Promise!Target, Promise!LinkOf, Promise!IsEbr,
            Promise!Unseekable, Promise!NoLba
      <4> QED
        BY <3>1, <3>2, <4>1, <4>2 DEF Promise!ANext, Promise!DeliverError
    <3> QED
      BY <3>3, <3>4, <3>5 DEF WalkInv, TypeOK
  <2> QED
    BY <2>1, <2>2
<1> QED
  BY <1>1, <1>4, WalkInvariant, PTL DEF Spec, ImplementsEbrChain, Promise!ASpec
=============================================================================
