--------------------------- MODULE DiskSignature ---------------------------
(***************************************************************************)
(* find_signature_collisions of core/src/disk_signature.rs: one pass that  *)
(* groups the disks by signature and remembers the order in which the      *)
(* signatures appear, then a pass over that order.                         *)
(***************************************************************************)
EXTENDS Integers, Sequences

NoGroups == [order |-> <<>>, groups |-> <<>>]

\* The group of sig; groups is a function of the signatures seen so far.
GroupOf(acc, sig) == IF sig \in DOMAIN acc.groups THEN acc.groups[sig] ELSE <<>>

\* Mutant: the unset signature is grouped like the others.
Group_WithZero(signatures, acc, k) ==
    LET sig == signatures[k]  members == GroupOf(acc, sig) IN
    [ order  |-> IF members = <<>> THEN Append(acc.order, sig) ELSE acc.order,
      groups |-> [s \in DOMAIN acc.groups \cup {sig} |->
                    IF s = sig THEN Append(members, k - 1) ELSE acc.groups[s]] ]

\* One turn of the first loop, for disk k - 1.
Group(signatures, acc, k) ==
    LET sig == signatures[k]  members == GroupOf(acc, sig) IN
    IF sig = 0 THEN acc
    ELSE [ order  |-> IF members = <<>> THEN Append(acc.order, sig) ELSE acc.order,
           groups |-> [s \in DOMAIN acc.groups \cup {sig} |->
                         IF s = sig THEN Append(members, k - 1) ELSE acc.groups[s]] ]

\* One turn of the second loop: a group of two disks or more is a collision.
Tell(told, sig, members) ==
    IF Len(members) >= 2 THEN Append(told, [signature |-> sig, members |-> members]) ELSE told

\* seen[n] and told[n] are what n turns of the first and the second loop leave.
FindSignatureCollisions(signatures) ==
    LET seen[n \in 0..Len(signatures)] ==
          IF n = 0 THEN NoGroups ELSE Group(signatures, seen[n - 1], n)
        all == seen[Len(signatures)]
        told[n \in 0..Len(all.order)] ==
          IF n = 0 THEN <<>> ELSE Tell(told[n - 1], all.order[n], all.groups[all.order[n]])
    IN  told[Len(all.order)]
=============================================================================
