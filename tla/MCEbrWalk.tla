----------------------------- MODULE MCEbrWalk -----------------------------
(***************************************************************************)
(* EbrWalk over every medium of five addressable two-byte sectors whose    *)
(* sectors are of nine kinds: an EBR with each of six links, one without   *)
(* signature, one that cannot be read, one that cannot be sought.  There   *)
(* are self-loops, loops of two below the limit with a lead-in, and chains *)
(* of five EBRs against a limit of four.  Behind sector 4 the byte offset  *)
(* of an LBA overflows U64Max = 8; from a container at LBA 2 the longest   *)
(* link overflows the LBA itself.                                          *)
(***************************************************************************)
EXTENDS EbrWalk, TLC

MCLogicals == { [lba_start |-> 1], [lba_start |-> 3] }

Ebr(n) == [io |-> "ok", boot_sig |-> TRUE, logical |-> [lba_start |-> 1 + 2 * (n % 2)],
           next |-> n, slack |-> n = 2]
Other(io, sig) == [io |-> io, boot_sig |-> sig, logical |-> [lba_start |-> 1],
                   next |-> 1, slack |-> FALSE]

SectorKinds == { Ebr(n) : n \in {0, 1, 2, 3, 4, 7} }
                 \cup {Other("ok", FALSE), Other("short", TRUE), Other("noseek", TRUE)}

\* The LBAs with a byte offset; what the others hold is never looked at.
Addressable == { l \in Lba : l * SectorSize <= U64Max }

MCDisks == { d @@ [l \in Lba \ Addressable |-> Ebr(0)] : d \in [Addressable -> SectorKinds] }
MCExtStarts == {0, 2}
=============================================================================
