--------------------------- MODULE VolumesProofs ---------------------------
(***************************************************************************)
(* Proofs about ReadLoop and Volumes, for every image, offset, length and  *)
(* way of cutting the reads, and every table of partitions.  The inductive *)
(* invariant of the loops adds to the prefix property what an ended loop   *)
(* knows: it is full, or the image has no more cells.  That of the volumes *)
(* adds that what open decided was decided on the buffer as it still is.   *)
(***************************************************************************)
EXTENDS Volumes, SequenceTheorems, FiniteSetTheorems, TLAPS

-----------------------------------------------------------------------------
(* The read loops. *)

\* An ended loop has got all it asked for, or all there is.
NothingLeft == pc = "done" => filled = len \/ Position >= medium.size

IInv == TypeOK /\ BufferIsPrefix /\ NothingLeft

\* A fresh buffer satisfies the invariant.
LEMMA InitInv == Init => IInv
<1> SUFFICES ASSUME Init PROVE IInv
  OBVIOUS
<1>1. PICK r \in Requests : /\ medium = r.medium /\ caller = r.caller
                            /\ offset = r.offset /\ len = r.len
  BY DEF Init
<1>2. Request(r) /\ Zero \in Cells
  BY RequestsAssumption
<1>3. TypeOK
  BY <1>1, <1>2 DEF Init, Request, TypeOK
<1>4. BufferIsPrefix
  BY <1>3 DEF Init, TypeOK, BufferIsPrefix
<1>5. NothingLeft
  BY DEF Init, NothingLeft
<1> QED
  BY <1>3, <1>4, <1>5 DEF IInv

\* Only ReadSome touches the buffer; every other step moves pc or nothing.
LEMMA StepInv == IInv /\ [Next]_vars => IInv'
<1> SUFFICES ASSUME IInv, [Next]_vars PROVE IInv'
  OBVIOUS
<1> USE DEF IInv
<1>1. ASSUME NEW n \in 1..len, ReadSome(n) PROVE IInv'
  <2>1. filled + n <= len /\ offset + (filled + n) <= medium.size /\ n \in Nat
    BY <1>1 DEF ReadSome, Reading, Position, TypeOK
  <2>2. \A k \in 0..(filled + n - 1) : medium.cell[offset + k] \in Cells
    BY <2>1 DEF TypeOK
  <2>3. TypeOK'
    <3>1. (filled \in 0..len)'
      BY <1>1, <2>1 DEF ReadSome, TypeOK, call
    <3>2. (buf \in [0..(len - 1) -> Cells])'
      <4>1. ASSUME NEW k \in 0..(len - 1)
            PROVE  (IF filled <= k /\ k < filled + n
                      THEN medium.cell[offset + k] ELSE buf[k]) \in Cells
        <5>1. CASE filled <= k /\ k < filled + n
          BY <2>1, <2>2, <5>1 DEF TypeOK
        <5>2. CASE ~(filled <= k /\ k < filled + n)
          BY <5>2 DEF TypeOK
        <5> QED
          BY <5>1, <5>2
      <4>2. len' = len
        BY <1>1 DEF ReadSome, call
      <4> QED
        BY <1>1, <4>1, <4>2 DEF ReadSome
    <3> QED
      BY <1>1, <3>1, <3>2 DEF ReadSome, TypeOK, call
  <2>4. BufferIsPrefix'
    BY <1>1, <2>1 DEF ReadSome, BufferIsPrefix, TypeOK, call
  <2>5. NothingLeft'
    BY <1>1 DEF ReadSome, Reading, NothingLeft, call
  <2> QED
    BY <2>3, <2>4, <2>5
<1>2. CASE Seek \/ SeekFails \/ ReadFails
  BY <1>2 DEF Seek, SeekFails, ReadFails, Reading, TypeOK, BufferIsPrefix, NothingLeft, call
<1>3. CASE ReadEof
  BY <1>3 DEF ReadEof, Reading, Position, TypeOK, BufferIsPrefix, NothingLeft, call
<1>4. CASE LoopEnds
  BY <1>4 DEF LoopEnds, Position, TypeOK, BufferIsPrefix, NothingLeft, call
<1>5. CASE UNCHANGED vars
  BY <1>5 DEF vars, Position, TypeOK, BufferIsPrefix, NothingLeft
<1> QED
  BY <1>1, <1>2, <1>3, <1>4, <1>5 DEF Next, Step, Answered, ReadInterrupted

(***************************************************************************)
(* The loops of read_fingerprint and fill never misplace, repeat or drop a *)
(* cell, however the reader cuts its answers.                              *)
(***************************************************************************)
THEOREM BufferCorrect == Spec => []BufferIsPrefix
<1>1. IInv => BufferIsPrefix
  BY DEF IInv
<1> QED
  BY InitInv, StepInv, <1>1, PTL DEF Spec

-----------------------------------------------------------------------------
\* What an ended loop returns is the region the image holds.
LEMMA ReturnedIsRegion == IInv /\ pc = "done" => Returned = Promise!Region
<1> SUFFICES ASSUME IInv, pc = "done" PROVE Returned = Promise!Region
  OBVIOUS
<1> USE DEF IInv
<1>1. \A k \in 0..(len - 1) : k < filled <=> Promise!Held(k)
  BY DEF TypeOK, BufferIsPrefix, NothingLeft, Position, Promise!Held
<1>2. CASE caller = "fill"
  <2>1. buf = [k \in 0..(len - 1) |-> buf[k]]
    BY DEF TypeOK
  <2>2. \A k \in 0..(len - 1) :
          buf[k] = IF Promise!Held(k) THEN medium.cell[offset + k] ELSE Zero
    BY <1>1 DEF BufferIsPrefix
  <2> QED
    BY <1>2, <2>1, <2>2 DEF Returned, Promise!Region
<1>3. CASE caller # "fill"
  <2>1. 0..(filled - 1) = { j \in 0..(len - 1) : Promise!Held(j) }
    BY <1>1 DEF TypeOK
  <2>2. \A k \in 0..(filled - 1) : buf[k] = medium.cell[offset + k]
    BY DEF TypeOK, BufferIsPrefix
  <2> QED
    BY <1>3, <2>1, <2>2 DEF Returned, Promise!Region
<1> QED
  BY <1>2, <1>3

\* A fresh call is pending.
LEMMA LoopStarts == Init => Promise!RInit
BY DEF Init, Promise!RInit, Promise!Pending, Reply

\* A step of a loop delivers the region, reports the error, or does not show.
LEMMA LoopDelivers ==
  IInv /\ IInv' /\ [Next]_vars => [Promise!Deliver \/ Promise!Fail]_(Promise!rvars)
<1>1. (IInv /\ pc = "done" => Returned = Promise!Region)'
  BY ReturnedIsRegion, PTL
<1>2. IInv /\ IInv' /\ [Next]_vars => [Promise!Deliver \/ Promise!Fail]_(Promise!rvars)
  <2> SUFFICES ASSUME IInv, IInv', [Next]_vars
               PROVE  [Promise!Deliver \/ Promise!Fail]_(Promise!rvars)
    OBVIOUS
  <2>1. CASE ReadEof \/ LoopEnds
    <3>1. pc = "read" /\ pc' = "done" /\ UNCHANGED call
      BY <2>1 DEF ReadEof, LoopEnds, Reading
    <3>2. Returned' = (Promise!Region)'
      BY <1>1, <3>1
    <3>3. Reply = Promise!Pending /\ Reply' = [status |-> "ok", cells |-> (Promise!Region)']
      BY <3>1, <3>2 DEF Reply, Promise!Pending
    <3>4. (Promise!Region)' = Promise!Region
      BY <3>1 DEF call, Promise!Region, Promise!Held
    <3> QED
      BY <3>1, <3>3, <3>4 DEF call, Promise!Deliver
  <2>2. CASE SeekFails \/ ReadFails
    BY <2>2 DEF SeekFails, ReadFails, Reading, call, Reply,
                Promise!Fail, Promise!Pending, Promise!IoError
  <2>3. CASE Seek \/ (\E n \in 1..len : ReadSome(n)) \/ UNCHANGED vars
    BY <2>3 DEF Seek, ReadSome, Reading, call, vars, Reply, Returned, Promise!rvars
  <2> QED
    BY <2>1, <2>2, <2>3 DEF Next, Step, Answered, ReadInterrupted
<1> QED
  BY <1>2

(***************************************************************************)
(* Both loops implement RegionRead: one atomic answer, the region as far   *)
(* as the image holds it, or an error; short reads and interruptions do    *)
(* not show.                                                               *)
(***************************************************************************)
THEOREM Refinement == Spec => ImplementsRegionRead
<1>1. Init => Promise!RInit
  BY LoopStarts
<1>2. IInv /\ IInv' /\ [Next]_vars => [Promise!Deliver \/ Promise!Fail]_(Promise!rvars)
  BY LoopDelivers
<1> QED
  BY InitInv, StepInv, <1>1, <1>2, PTL DEF Spec, ImplementsRegionRead, Promise!RSpec

-----------------------------------------------------------------------------
(* The list of volumes. *)

\* The used slots up to the k-th.
Upto(S, k) == { j \in S : j <= k }

\* Counting the used slots, slot by slot.
LEMMA RankStep ==
  ASSUME NEW S \in SUBSET (1..4), NEW k \in 1..4
  PROVE  /\ IsFiniteSet(Upto(S, k)) /\ Cardinality(Upto(S, k)) \in Nat
         /\ Cardinality(Upto(S, k)) =
              (IF k = 1 THEN 0 ELSE Cardinality(Upto(S, k - 1))) + (IF k \in S THEN 1 ELSE 0)
<1>1. ASSUME NEW T \in SUBSET (1..4) PROVE IsFiniteSet(T) /\ Cardinality(T) \in Nat
  <2>1. IsFiniteSet(1..4)
    <3>1. 1 \in Int /\ 4 \in Int
      OBVIOUS
    <3> QED
      BY <3>1, FS_Interval, Zenon
  <2>2. IsFiniteSet(T)
    BY <2>1, FS_Subset
  <2> QED
    BY <2>2, FS_CardinalityType
<1>2. Upto(S, k - 1) \in SUBSET (1..4) /\ Upto(S, k) \in SUBSET (1..4)
  BY DEF Upto
<1>3. IsFiniteSet(Upto(S, k - 1))
  BY <1>1, <1>2
<1>4. k \notin Upto(S, k - 1)
  BY DEF Upto
<1>5. Upto(S, k) = IF k \in S THEN Upto(S, k - 1) \cup {k} ELSE Upto(S, k - 1)
  <2>1. \A j \in S : j <= k <=> j <= k - 1 \/ j = k
    OBVIOUS
  <2>2. \A j : j \in Upto(S, k) <=> j \in Upto(S, k - 1) \/ (j = k /\ k \in S)
    BY <2>1 DEF Upto
  <2> QED
    BY <2>2
<1>6. k = 1 => Upto(S, k - 1) = {}
  <2>1. k = 1 => \A j \in S : ~(j <= k - 1)
    OBVIOUS
  <2> QED
    BY <2>1, Zenon DEF Upto
<1>7. Cardinality({}) = 0
  BY FS_EmptySet, Zenon
<1>8. Cardinality(Upto(S, k - 1) \cup {k}) = Cardinality(Upto(S, k - 1)) + 1
  BY <1>3, <1>4, FS_AddElement
<1>9. Cardinality(Upto(S, k - 1)) = IF k = 1 THEN 0 ELSE Cardinality(Upto(S, k - 1))
  BY <1>6, <1>7
<1>10. Cardinality(Upto(S, k)) \in Nat /\ Cardinality(Upto(S, k - 1)) \in Nat
  BY <1>1, <1>2
<1>11. CASE k \in S
  BY <1>1, <1>2, <1>5, <1>8, <1>9, <1>10, <1>11
<1>12. CASE k \notin S
  BY <1>1, <1>2, <1>5, <1>9, <1>10, <1>12
<1> QED
  BY <1>11, <1>12

\* Appending what is kept of one more slot: the places before stay, and what is
\* kept comes last.
LEMMA KeepOneMore ==
  ASSUME NEW E, NEW u \in Seq(E), NEW e \in E, NEW c \in BOOLEAN
  PROVE  LET w == u \o (IF c THEN <<>> ELSE <<e>>) IN
         /\ w \in Seq(E)
         /\ Len(w) = Len(u) + (IF c THEN 0 ELSE 1)
         /\ ~c => w[Len(w)] = e
         /\ \A n \in 1..Len(u) : w[n] = u[n]
<1>1. CASE c
  BY <1>1
<1>2. CASE ~c
  BY <1>2
<1> QED
  BY <1>1, <1>2

(***************************************************************************)
(* filter and enumerate: the list has as many volumes as there are used    *)
(* slots, numbers them from 0, and has each slot at its rank among them.   *)
(***************************************************************************)
LEMMA ListInOrder ==
  ASSUME NEW entries
  PROVE  LET S == { k \in 1..4 : ~IsEmpty(entries[k]) }
             v == VolumeList(entries)
         IN  /\ Len(v) = Cardinality(S) /\ Len(v) \in Nat
             /\ \A n \in 1..Len(v) : v[n].index = n - 1
             /\ \A k \in S : LET r == Cardinality(Upto(S, k)) IN
                             /\ v[r].start = ToBytes(entries[k].lba_start)
                             /\ v[r].len = ToBytes(entries[k].lba_count)
<1> DEFINE S == { k \in 1..4 : ~IsEmpty(entries[k]) }
           E == { entries[k] : k \in 1..4 }
           R(k) == Cardinality(Upto(S, k))
           Kept(k) == IF IsEmpty(entries[k]) THEN <<>> ELSE << entries[k] >>
           u1 == Kept(1)
           u2 == u1 \o Kept(2)
           u3 == u2 \o Kept(3)
           u4 == u3 \o Kept(4)
           v == VolumeList(entries)
<1>1. \A k \in 1..4 : entries[k] \in E /\ (k \in S <=> ~IsEmpty(entries[k]))
  OBVIOUS
<1>2. v = [n \in 1..Len(u4) |-> VolumeDesc(n - 1, u4[n])]
  BY DEF VolumeList
<1>3. S \in SUBSET (1..4)
  OBVIOUS
<1>4. \A k \in 1..4 : IsEmpty(entries[k]) \in BOOLEAN
  BY DEF IsEmpty
<1> HIDE DEF E, S, v
<1>5. /\ u1 \in Seq(E) /\ Len(u1) = (IF 1 \in S THEN 1 ELSE 0)
      /\ 1 \in S => u1[Len(u1)] = entries[1]
  BY <1>1
<1>6. /\ u2 \in Seq(E) /\ Len(u2) = Len(u1) + (IF 2 \in S THEN 1 ELSE 0)
      /\ 2 \in S => u2[Len(u2)] = entries[2]
      /\ \A n \in 1..Len(u1) : u2[n] = u1[n]
  <2> HIDE DEF u1
  <2>1. u1 \in Seq(E) /\ entries[2] \in E /\ IsEmpty(entries[2]) \in BOOLEAN
    BY <1>1, <1>4, <1>5
  <2> QED
    BY <1>1, <2>1, KeepOneMore
<1>7. /\ u3 \in Seq(E) /\ Len(u3) = Len(u2) + (IF 3 \in S THEN 1 ELSE 0)
      /\ 3 \in S => u3[Len(u3)] = entries[3]
      /\ \A n \in 1..Len(u2) : u3[n] = u2[n]
  <2> HIDE DEF u2
  <2> QED
    BY <1>1, <1>4, <1>6, KeepOneMore
<1>8. /\ u4 \in Seq(E) /\ Len(u4) = Len(u3) + (IF 4 \in S THEN 1 ELSE 0)
      /\ 4 \in S => u4[Len(u4)] = entries[4]
      /\ \A n \in 1..Len(u3) : u4[n] = u3[n]
  <2> HIDE DEF u3
  <2> QED
    BY <1>1, <1>4, <1>7, KeepOneMore
<1> HIDE DEF u1, u2, u3, u4, Kept
<1>9. /\ R(1) = IF 1 \in S THEN 1 ELSE 0
      /\ R(2) = R(1) + (IF 2 \in S THEN 1 ELSE 0)
      /\ R(3) = R(2) + (IF 3 \in S THEN 1 ELSE 0)
      /\ R(4) = R(3) + (IF 4 \in S THEN 1 ELSE 0)
  <2>1. \A k \in 1..4 : R(k) \in Nat /\ R(k) = (IF k = 1 THEN 0 ELSE R(k - 1))
                                                + (IF k \in S THEN 1 ELSE 0)
    BY <1>3, RankStep
  <2> HIDE DEF R
  <2> QED
    BY <2>1
<1>10. S = Upto(S, 4)
  <2>1. \A j \in S : j <= 4
    BY <1>3
  <2> QED
    BY <2>1, Zenon DEF Upto
<1>11. /\ Len(u1) = R(1) /\ Len(u2) = R(2) /\ Len(u3) = R(3) /\ Len(u4) = R(4)
       /\ Len(u1) \in Nat /\ Len(u2) \in Nat /\ Len(u3) \in Nat /\ Len(u4) \in Nat
  <2>1. Len(u1) \in Nat /\ Len(u2) \in Nat /\ Len(u3) \in Nat /\ Len(u4) \in Nat
    BY <1>5, <1>6, <1>7, <1>8
  <2> HIDE DEF R
  <2> QED
    BY <1>5, <1>6, <1>7, <1>8, <1>9, <2>1
<1>12. ASSUME NEW k \in S PROVE R(k) \in 1..Len(u4) /\ u4[R(k)] = entries[k]
  <2>1. k \in {1, 2, 3, 4}
    BY <1>3
  <2>2. \A n \in 1..Len(u2) : u4[n] = u2[n]
    BY <1>7, <1>8, <1>11
  <2>3. \A n \in 1..Len(u1) : u4[n] = u1[n]
    BY <1>6, <1>11, <2>2
  <2> HIDE DEF R
  <2>4. CASE k = 1
    BY <1>5, <1>6, <1>7, <1>8, <1>11, <2>3, <2>4
  <2>5. CASE k = 2
    BY <1>6, <1>7, <1>8, <1>11, <2>2, <2>5
  <2>6. CASE k = 3
    BY <1>7, <1>8, <1>11, <2>6
  <2>7. CASE k = 4
    BY <1>8, <1>11, <2>7
  <2> QED
    BY <2>1, <2>4, <2>5, <2>6, <2>7
<1>13. Len(v) = Len(u4)
  BY <1>2, <1>11
<1>14. \A n \in 1..Len(u4) : v[n] = VolumeDesc(n - 1, u4[n])
  BY <1>2
<1>15. Len(v) = Cardinality(S) /\ Len(v) \in Nat
  BY <1>10, <1>11, <1>13
<1>16. \A k, e : /\ VolumeDesc(k, e).index = k
                 /\ VolumeDesc(k, e).start = ToBytes(e.lba_start)
                 /\ VolumeDesc(k, e).len = ToBytes(e.lba_count)
  BY DEF VolumeDesc
<1>17. \A n \in 1..Len(v) : v[n].index = n - 1
  BY <1>13, <1>14, <1>16
<1>18. \A k \in S : /\ v[R(k)].start = ToBytes(entries[k].lba_start)
                    /\ v[R(k)].len = ToBytes(entries[k].lba_count)
  <2> HIDE DEF R
  <2> QED
    BY <1>12, <1>14, <1>16
<1> QED
  BY <1>15, <1>17, <1>18 DEF S, v

-----------------------------------------------------------------------------
(* Opening. *)

\* The table as open decodes it from the buffer.
Parsed == [k \in 1..4 |-> EntryOf[buf[k - 1]]]

\* The answer given to open_volume is one about the list as it is.
Answer ==
    \/ opened = NothingOpened
    \/ /\ opened.index \in Nat
       /\ IF opened.index < Len(volumes)
            THEN /\ opened.status = "ok"
                 /\ opened.start = volumes[opened.index + 1].start
                 /\ opened.len = volumes[opened.index + 1].len
            ELSE opened.status = "out_of_range"

(***************************************************************************)
(* open decides when the loop has ended, on a buffer nobody writes again:  *)
(* the list is that of the buffer's table for as long as it lives, and     *)
(* answers to open_volume exist only for an open system.                   *)
(***************************************************************************)
VInv ==
    /\ IInv
    /\ caller = "fill" => offset = 0 /\ len = SECTOR_CELLS
    /\ system \in {"opening", "failed", "unsupported", "open"}
    /\ system \in {"unsupported", "open"} => caller = "fill" /\ pc = "done"
    /\ system = "unsupported" => ~SignatureValid
    /\ system = "open" => SignatureValid /\ volumes = VolumeList(Parsed)
    /\ system # "open" => opened = NothingOpened
    /\ Answer

\* Nothing is open in the beginning.
LEMMA VInitInv == VInit => VInv
<1> SUFFICES ASSUME VInit PROVE VInv
  OBVIOUS
<1>1. Init /\ system = "opening" /\ opened = NothingOpened
  BY DEF VInit
<1>2. IInv
  BY <1>1, InitInv
<1>3. caller = "fill" => offset = 0 /\ len = SECTOR_CELLS
  BY <1>1, CallsAssumption DEF Init
<1> QED
  BY <1>1, <1>2, <1>3 DEF VInv, Answer

\* What the volumes do is invisible to the loop.
LEMMA VStepsLoop == [VNext]_vvars => [Next]_vars
<1> SUFFICES ASSUME [VNext]_vvars PROVE [Next]_vars
  OBVIOUS
<1>1. CASE Step
  BY <1>1 DEF Next
<1>2. CASE Open
  BY <1>2 DEF Open, OpenFails, OpenUnsupported, OpenSucceeds
<1>3. CASE \E index \in Indices : OpenVolume(index) \/ OpenOutOfRange(index)
  BY <1>3 DEF OpenVolume, OpenOutOfRange
<1>4. CASE VReturned \/ UNCHANGED vvars
  BY <1>4 DEF VReturned, vvars
<1> QED
  BY <1>1, <1>2, <1>3, <1>4 DEF VNext

\* An ended loop takes no step: its buffer is final.
LEMMA EndedIsFinal == pc = "done" /\ Step => FALSE
BY DEF Step, Answered, Seek, SeekFails, ReadSome, ReadEof, ReadFails, ReadInterrupted,
       LoopEnds, Reading

\* Every step keeps VInv.
LEMMA VStepInv == VInv /\ [VNext]_vvars => VInv'
<1> SUFFICES ASSUME VInv, [VNext]_vvars PROVE VInv'
  OBVIOUS
<1>1. IInv'
  BY VStepsLoop, StepInv DEF VInv
<1>2. UNCHANGED call
  BY VStepsLoop DEF Next, Step, Answered, Seek, SeekFails, ReadSome, ReadEof, ReadFails,
                    ReadInterrupted, LoopEnds, vars, call
<1>3. (caller = "fill" => offset = 0 /\ len = SECTOR_CELLS)'
  BY <1>2 DEF VInv, call, SECTOR_CELLS
<1>4. CASE Step /\ UNCHANGED vfs
  <2>1. system \notin {"unsupported", "open"}
    BY <1>4, EndedIsFinal DEF VInv
  <2> QED
    BY <1>1, <1>3, <1>4, <2>1 DEF VInv, vfs, Answer
<1>5. CASE OpenFails
  BY <1>1, <1>3, <1>5 DEF VInv, OpenFails, Opening, Answer
<1>6. CASE OpenUnsupported
  <2>1. ~SignatureValid'
    BY <1>6 DEF OpenUnsupported, SignatureValid, vars
  <2>2. caller' = "fill" /\ pc' = "done" /\ system' = "unsupported" /\ opened' = NothingOpened
    BY <1>6 DEF OpenUnsupported, Opening, VInv, vars
  <2> QED
    BY <1>1, <1>3, <2>1, <2>2 DEF VInv, Answer, NothingOpened
<1>7. CASE OpenSucceeds
  <2>1. SignatureValid' /\ Parsed' = Parsed
    BY <1>7 DEF OpenSucceeds, SignatureValid, Parsed, vars
  <2>2. volumes' = VolumeList(Parsed)
    BY <1>7 DEF OpenSucceeds, Parsed
  <2>3. caller' = "fill" /\ pc' = "done" /\ system' = "open" /\ opened' = NothingOpened
    BY <1>7 DEF OpenSucceeds, Opening, VInv, vars
  <2> QED
    BY <1>1, <1>3, <2>1, <2>2, <2>3 DEF VInv, Answer, NothingOpened
<1>8. ASSUME NEW index \in Indices, OpenVolume(index) \/ OpenOutOfRange(index)
      PROVE  VInv'
  <2>1. index \in Nat /\ system = "open" /\ UNCHANGED <<vars, system, volumes>>
    BY <1>8, CallsAssumption DEF OpenVolume, OpenOutOfRange
  <2>2. SignatureValid' = SignatureValid /\ Parsed' = Parsed
    BY <2>1 DEF SignatureValid, Parsed, vars
  <2>3. Answer'
    <3>1. Len(volumes) \in Nat
      BY <2>1, ListInOrder DEF VInv
    <3>2. CASE OpenVolume(index)
      BY <2>1, <3>1, <3>2 DEF OpenVolume, Answer
    <3>3. CASE OpenOutOfRange(index)
      BY <2>1, <3>1, <3>3 DEF OpenOutOfRange, Answer
    <3> QED
      BY <1>8, <3>2, <3>3
  <2>4. caller' = caller /\ pc' = pc
    BY <2>1 DEF vars
  <2> QED
    BY <1>1, <1>3, <2>1, <2>2, <2>3, <2>4 DEF VInv
<1>9. CASE VReturned \/ UNCHANGED vvars
  <2>1. UNCHANGED <<vars, system, volumes, opened>>
    BY <1>9 DEF VReturned, vvars, vfs
  <2>2. SignatureValid' = SignatureValid /\ Parsed' = Parsed /\ Answer' = Answer
    BY <2>1 DEF SignatureValid, Parsed, Answer, vars
  <2>3. caller' = caller /\ pc' = pc
    BY <2>1 DEF vars
  <2> QED
    BY <1>1, <1>3, <2>1, <2>2, <2>3 DEF VInv
<1> QED
  BY <1>4, <1>5, <1>6, <1>7, <1>8, <1>9 DEF VNext, Open

\* VInv is an invariant of the volume system.
THEOREM VolumesInvariant == VSpec => []VInv
BY VInitInv, VStepInv, PTL DEF VSpec

\* The buffer open parses, too, is the prefix of the image.
THEOREM SectorCorrect == VSpec => []BufferIsPrefix
<1>1. VInv => BufferIsPrefix
  BY DEF VInv, IInv
<1> QED
  BY <1>1, VolumesInvariant, PTL

\* The read inside open, and read_fingerprint beside it, implement RegionRead.
THEOREM SectorRefinement == VSpec => ImplementsRegionRead
<1>1. VInit => Promise!RInit
  BY LoopStarts DEF VInit
<1>2. VInv => IInv
  BY DEF VInv
<1> QED
  BY <1>1, <1>2, VInitInv, VStepInv, VStepsLoop, LoopDelivers, PTL
  DEF VSpec, ImplementsRegionRead, Promise!RSpec

\* An index opens the volume listed under it, and no other.
THEOREM IndexOpensItsVolume == VSpec => []OpenByIndex
<1>1. VInv => OpenByIndex
  <2> SUFFICES ASSUME VInv, opened # NothingOpened PROVE OpenByIndex
    BY DEF OpenByIndex
  <2> DEFINE listed == { n \in 1..Len(volumes) : volumes[n].index = opened.index }
  <2>1. volumes = VolumeList(Parsed)
    BY DEF VInv
  <2>2. Len(volumes) \in Nat /\ \A n \in 1..Len(volumes) : volumes[n].index = n - 1
    BY <2>1, ListInOrder
  <2>3. /\ opened.index \in Nat
        /\ IF opened.index < Len(volumes)
             THEN /\ opened.status = "ok"
                  /\ opened.start = volumes[opened.index + 1].start
                  /\ opened.len = volumes[opened.index + 1].len
             ELSE opened.status = "out_of_range"
    BY DEF VInv, Answer
  <2>4. \A n \in 1..Len(volumes) : n \in listed <=> n = opened.index + 1
    BY <2>2, <2>3
  <2>5. CASE opened.index < Len(volumes)
    <3>1. opened.index + 1 \in listed /\ \A n \in listed : n = opened.index + 1
      BY <2>2, <2>3, <2>4, <2>5
    <3> HIDE DEF listed
    <3>2. listed # {} /\ \A n \in listed : /\ opened.status = "ok"
                                           /\ opened.start = volumes[n].start
                                           /\ opened.len = volumes[n].len
      BY <2>3, <2>5, <3>1
    <3> QED
      BY <3>2, Zenon DEF OpenByIndex, listed
  <2>6. CASE ~(opened.index < Len(volumes))
    <3>1. listed = {}
      BY <2>2, <2>3, <2>4, <2>6
    <3>2. opened.status = "out_of_range"
      BY <2>3, <2>6
    <3> HIDE DEF listed
    <3> QED
      BY <3>1, <3>2, Zenon DEF OpenByIndex, listed
  <2> QED
    BY <2>5, <2>6
<1> QED
  BY <1>1, VolumesInvariant, PTL

(***************************************************************************)
(* open succeeds on a whole sector with the signature only, refuses as     *)
(* unsupported only an image without one, and lists the used slots of the  *)
(* table on disk in their order.                                           *)
(***************************************************************************)
THEOREM VolumesAreTheTable == VSpec => []VolumesMatchTable
<1>1. VInv => VolumesMatchTable
  <2> SUFFICES ASSUME VInv PROVE VolumesMatchTable
    OBVIOUS
  <2>1. TypeOK /\ BufferIsPrefix /\ NothingLeft
    BY DEF VInv, IInv
  <2>2. ASSUME caller = "fill", pc = "done"
        PROVE  /\ ValidMbr <=> SignatureValid
               /\ ValidMbr => \A k \in 0..4 : buf[k] = medium.cell[k]
    <3>1. offset = 0 /\ len = 5 /\ filled \in 0..5 /\ medium.size \in Nat
      BY <2>1, <2>2 DEF VInv, TypeOK, SECTOR_CELLS
    <3>2. filled = 5 \/ filled >= medium.size
      BY <2>1, <2>2, <3>1 DEF NothingLeft, Position
    <3>3. filled > 0 => filled <= medium.size
      BY <2>1, <3>1 DEF BufferIsPrefix
    <3>4. \A k \in 0..4 : buf[k] = IF k < filled THEN medium.cell[k] ELSE Zero
      BY <2>1, <3>1 DEF BufferIsPrefix
    <3>5. medium.size >= 5 <=> filled = 5
      BY <3>1, <3>2, <3>3
    <3>6. filled = 5 => \A k \in 0..4 : buf[k] = medium.cell[k]
      BY <3>4
    <3>7. filled # 5 => buf[4] = Zero
      BY <3>1, <3>4
    <3>8. BOOT_SIG # Zero
      BY CellsAssumption
    <3> QED
      BY <3>5, <3>6, <3>7, <3>8 DEF ValidMbr, SignatureValid, SECTOR_CELLS
  <2>3. ASSUME system = "unsupported" PROVE ~ValidMbr
    BY <2>2, <2>3 DEF VInv
  <2>4. ASSUME system = "open" PROVE VolumesMatchTable
    <3> DEFINE slots == { k \in 1..4 : ~IsEmpty(OnDisk(k)) }
    <3>1. ValidMbr /\ volumes = VolumeList(Parsed)
      BY <2>2, <2>4 DEF VInv
    <3>2. \A k \in 0..4 : buf[k] = medium.cell[k]
      BY <2>2, <2>4, <3>1 DEF VInv
    <3>3. \A k \in 1..4 : Parsed[k] = OnDisk(k)
      BY <3>2 DEF Parsed, OnDisk
    <3>4. slots = { k \in 1..4 : ~IsEmpty(Parsed[k]) }
      BY <3>3
    <3>5. \A k \in slots : k \in 1..4
      OBVIOUS
    <3> HIDE DEF slots
    <3>6. Len(volumes) = Cardinality(slots)
      BY <3>1, <3>4, ListInOrder
    <3>7. ASSUME NEW k \in slots
          PROVE  LET v == volumes[Cardinality({ j \in slots : j <= k })] IN
                 /\ v.start = ToBytes(OnDisk(k).lba_start)
                 /\ v.len = ToBytes(OnDisk(k).lba_count)
      <4>1. LET v == volumes[Cardinality(Upto(slots, k))] IN
            /\ v.start = ToBytes(Parsed[k].lba_start)
            /\ v.len = ToBytes(Parsed[k].lba_count)
        BY <3>1, <3>4, ListInOrder
      <4> QED
        BY <3>3, <3>5, <4>1 DEF Upto
    <3> QED
      BY <2>4, <3>1, <3>6, <3>7 DEF VolumesMatchTable, slots
  <2> QED
    BY <2>3, <2>4 DEF VolumesMatchTable
<1> QED
  BY <1>1, VolumesInvariant, PTL
=============================================================================
