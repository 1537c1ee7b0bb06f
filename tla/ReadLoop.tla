------------------------------ MODULE ReadLoop ------------------------------
(***************************************************************************)
(* The two hand-written read loops: read_fingerprint of                    *)
(* forensic/src/analyse.rs, and fill of core/src/vfs.rs.  A reader may     *)
(* deliver any part of what is asked for, fail, or be interrupted.         *)
(* read_fingerprint seeks first, retries an interrupted read and truncates *)
(* its buffer to what it got; fill reads at explicit offsets, passes every *)
(* error on, an interruption too, and leaves the tail zero.                *)
(*                                                                         *)
(* A cell is a byte, or a group of bytes that a parser looks at as one.    *)
(***************************************************************************)
EXTENDS Integers

CONSTANTS Cells,     \* what a cell may hold
          Zero,      \* the cell of a fresh buffer
          Requests   \* the calls considered

Request(r) == /\ r.caller \in {"read_fingerprint", "fill"}
              /\ r.offset \in Nat
              /\ r.len \in Nat
              /\ r.medium.size \in Nat
              /\ r.medium = [size |-> r.medium.size, cell |-> r.medium.cell]
              /\ r.medium.cell \in [0..(r.medium.size - 1) -> Cells]

ASSUME RequestsAssumption == Zero \in Cells /\ \A r \in Requests : Request(r)

VARIABLES
    medium,   \* the image; never written
    caller,   \* which of the two loops runs
    offset,   \* byte_offset of the region
    len,      \* max, or the length of the buffer
    filled,   \* cells read so far
    buf,
    pc        \* "seek", "read", "done", "failed"

call == <<medium, caller, offset, len>>
vars == <<medium, caller, offset, len, filled, buf, pc>>

Init ==
    /\ \E r \in Requests : /\ medium = r.medium /\ caller = r.caller
                           /\ offset = r.offset /\ len = r.len
    /\ filled = 0
    /\ buf = [k \in 0..(len - 1) |-> Zero]
    /\ pc = IF caller = "fill" THEN "read" ELSE "seek"

\* Seeking past the end is no error; the reads then deliver nothing.
Seek == /\ pc = "seek"
        /\ pc' = "read"
        /\ UNCHANGED <<call, filled, buf>>

SeekFails == /\ pc = "seek"
             /\ pc' = "failed"
             /\ UNCHANGED <<call, filled, buf>>

\* The next cell of the image the loop has not got yet.
Position == offset + filled

Reading == pc = "read" /\ filled < len

\* Mutant: every read goes to the start of the buffer.
ReadSome_AtStart(n) ==
    /\ Reading
    /\ n <= len - filled /\ n <= medium.size - Position
    /\ buf' = [k \in 0..(len - 1) |-> IF k < n THEN medium.cell[Position + k] ELSE buf[k]]
    /\ filled' = filled + n
    /\ UNCHANGED <<call, pc>>

\* Ok(n): the reader delivers n cells, perhaps fewer than it could.
ReadSome(n) ==
    /\ Reading
    /\ n <= len - filled /\ n <= medium.size - Position
    /\ buf' = [k \in 0..(len - 1) |->
                 IF filled <= k /\ k < filled + n THEN medium.cell[offset + k] ELSE buf[k]]
    /\ filled' = filled + n
    /\ UNCHANGED <<call, pc>>

\* Mutant: an empty read is not taken for the end of the image.
ReadEof_Retries ==
    /\ Reading
    /\ Position >= medium.size
    /\ UNCHANGED vars

\* Ok(0): nothing is left behind the position.
ReadEof ==
    /\ Reading
    /\ Position >= medium.size
    /\ pc' = "done"
    /\ UNCHANGED <<call, filled, buf>>

\* Mutant: an interrupted read is taken for the end of the image.
ReadInterrupted_Ends ==
    /\ Reading
    /\ caller = "read_fingerprint"
    /\ pc' = "done"
    /\ UNCHANGED <<call, filled, buf>>

\* ErrorKind::Interrupted: nothing has changed, the loop asks again.
ReadInterrupted ==
    /\ Reading
    /\ caller = "read_fingerprint"
    /\ UNCHANGED vars

\* Any other error; for fill an interruption as well.
ReadFails ==
    /\ Reading
    /\ pc' = "failed"
    /\ UNCHANGED <<call, filled, buf>>

LoopEnds ==
    /\ pc = "read"
    /\ filled >= len
    /\ pc' = "done"
    /\ UNCHANGED <<call, filled, buf>>

\* The reader answers, and without an error.
Answered == Seek \/ (\E n \in 1..len : ReadSome(n)) \/ ReadEof \/ LoopEnds

Finished == pc \in {"done", "failed"}

Step == Answered \/ SeekFails \/ ReadFails \/ ReadInterrupted

Next == Step \/ (Finished /\ UNCHANGED vars)

\* A reader is not interrupted for ever; that the loop ends does not rest on errors.
Spec == Init /\ [][Next]_vars /\ WF_vars(Answered)

-----------------------------------------------------------------------------
(* Properties *)

TypeOK ==
    /\ caller \in {"read_fingerprint", "fill"}
    /\ offset \in Nat /\ len \in Nat
    /\ medium.size \in Nat
    /\ medium.cell \in [0..(medium.size - 1) -> Cells]
    /\ filled \in 0..len
    /\ buf \in [0..(len - 1) -> Cells]
    /\ pc \in {"seek", "read", "done", "failed"}

(***************************************************************************)
(* However the reads are cut, the buffer holds the image from the offset   *)
(* on as far as it is filled, each cell in its place, and zeroes behind.   *)
(***************************************************************************)
BufferIsPrefix ==
    /\ filled > 0 => offset + filled <= medium.size
    /\ \A k \in 0..(len - 1) :
         buf[k] = IF k < filled THEN medium.cell[offset + k] ELSE Zero

\* buf.truncate(filled); fill hands its whole buffer on.
Returned == IF caller = "fill" THEN buf ELSE [k \in 0..(filled - 1) |-> buf[k]]

Reply == IF pc = "done" THEN [status |-> "ok", cells |-> Returned]
         ELSE IF pc = "failed" THEN [status |-> "error"]
         ELSE [status |-> "pending"]

(***************************************************************************)
(* The loops implement one atomic read: short reads and interruptions are  *)
(* invisible, and an answer is never shorter than what the image holds.    *)
(***************************************************************************)
Promise == INSTANCE RegionRead WITH reply <- Reply
ImplementsRegionRead == Promise!RSpec
=============================================================================
