----------------------------- MODULE RegionRead -----------------------------
(***************************************************************************)
(* What reading a region of an image promises its caller, however many     *)
(* pieces the reader delivers it in: one answer, the bytes of the region   *)
(* as far as the image holds them, or an error.  read_fingerprint returns  *)
(* just those bytes; fill leaves them in a buffer of fixed length whose    *)
(* tail is zero.  ReadLoop, the two loops of the code, implements this.    *)
(***************************************************************************)
EXTENDS Integers

CONSTANT Zero   \* a zeroed cell of a buffer

VARIABLES medium, caller, offset, len, reply

rvars == <<medium, caller, offset, len, reply>>

Pending == [status |-> "pending"]
IoError == [status |-> "error"]

\* The image holds the k-th cell of the region.
Held(k) == offset + k < medium.size

Region ==
    IF caller = "fill"
      THEN [k \in 0..(len - 1) |-> IF Held(k) THEN medium.cell[offset + k] ELSE Zero]
      ELSE [k \in { j \in 0..(len - 1) : Held(j) } |-> medium.cell[offset + k]]

RInit == reply = Pending

Deliver == /\ reply = Pending
           /\ reply' = [status |-> "ok", cells |-> Region]
           /\ UNCHANGED <<medium, caller, offset, len>>

Fail == /\ reply = Pending
        /\ reply' = IoError
        /\ UNCHANGED <<medium, caller, offset, len>>

RSpec == RInit /\ [][Deliver \/ Fail]_rvars
=============================================================================
