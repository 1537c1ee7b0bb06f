---------------------------- MODULE MCPureCalls ----------------------------
(***************************************************************************)
(* Every packed address of a disk of four cylinders, two heads and three   *)
(* sectors with every LBA up to two behind the range; regions of up to six *)
(* bytes of three values with magics that overlap, repeat themselves and   *)
(* share a prefix; every list of up to five signatures of four values;     *)
(* windows of four cells with a magic in each.                             *)
(***************************************************************************)
EXTENDS PureCalls

Upto(n, S) == UNION { [1..k -> S] : k \in 0..n }

MCChsCases == [bytes : ChsBytes, lba : 0..(Addressable + 1)]
MCRegions == Upto(6, {0, 1, 3})
MCMagics == << [kind |-> "A", magic |-> <<1, 3>>], [kind |-> "B", magic |-> <<1, 1>>],
               [kind |-> "C", magic |-> <<1, 3, 1>>], [kind |-> "B", magic |-> <<3>>] >>
MCPrintable == {1}
MCMinLens == 0..3
MCBases == {0, 7}
MCSignatureLists == Upto(5, 0..3)
MCKbMagics == << [fs |-> "Ext", at |-> 3, value |-> 1], [fs |-> "Ntfs", at |-> 2, value |-> 2],
                 [fs |-> "None", at |-> 3, value |-> 2], [fs |-> "Btrfs", at |-> 4, value |-> 1] >>
MCOemIds == {1, 3}
MCWindows == Upto(4, 0..3)
=============================================================================
