----------------------------- MODULE MCAnalyse -----------------------------
(***************************************************************************)
(* Images for Analyse on a disk of seven two-byte sectors (or of unknown   *)
(* size), seen three ways: every table of four entries of six kinds; every *)
(* boot code with every flag; and every EBR chain over three sectors of    *)
(* ten kinds, on a disk with two places that answer differently from read  *)
(* to read.  CHS reaches LBA 3.                                            *)
(***************************************************************************)
EXTENDS Analyse

\* The address a partitioning tool writes for an LBA.
Address(l) == IF l <= MaxChsAddressableLba(STD_HEADS_PER_CYL, STD_SECTORS_PER_TRACK)
                THEN [cylinder |-> l \div 2, head |-> l % 2, sector |-> 1]
                ELSE [cylinder |-> CHS_MAX_CYLINDER, head |-> 1, sector |-> 1]

Entry(st, fam, start, count) ==
    [ status |-> st, family |-> fam, chs_first |-> Address(start),
      chs_last |-> Address(IF count = 0 THEN start ELSE start + count - 1),
      lba_start |-> start, lba_count |-> count ]

Forged(e) == [e EXCEPT !.chs_last = [cylinder |-> 0, head |-> 1, sector |-> 1]]
NoChs(e) == [e EXCEPT !.chs_first = [cylinder |-> 0, head |-> 0, sector |-> 0]]

E0  == ZeroEntry
Res == Entry("inactive", "Empty", 3, 1)              \* deleted
A   == Entry("bootable", "Ntfs", 1, 2)
B   == Entry("inactive", "Linux", 2, 4)              \* across A and X
X   == NoChs(Entry("inactive", "ExtendedMbr", 4, 2))
X0  == Entry("inactive", "ExtendedMbr", 0, 2)        \* starts at the MBR
P   == Entry("inactive", "GptProtective", 1, U32Max)
S   == Entry("inactive", "GptProtective", 1, 1)      \* covers too little
F   == Forged(Entry("invalid", "Fat", 7, 1))         \* behind the disk
Sat == Entry("inactive", "Other", 7, U32Max)         \* its end saturates
Z   == Entry("inactive", "Other", 0, 0)              \* a type and nothing else

Answers(hidden, fs, volume) == [hidden |-> hidden, fs |-> fs, volume |-> volume]

Steady == [ l \in {1, 3, 5, 7} |->
    CASE l = 1 -> Answers({5}, {"Ext"}, {TRUE})
      [] l = 3 -> Answers({NoBpb}, {"Unknown"}, {TRUE})
      [] l = 5 -> Answers({5}, {"Ntfs"}, {TRUE})
      [] l = 7 -> Answers({3}, {"Ntfs"}, {TRUE}) ]

\* Sectors 1 and 5 answer differently from read to read.
Flaky == [ l \in {1, 3, 5, 7} |->
    CASE l = 1 -> Answers({5, NoBpb}, {"Ext", "Ntfs"}, {TRUE})
      [] l = 5 -> Answers({5}, {"Ntfs", "None"}, {FALSE})
      [] OTHER -> Steady[l] ]

\* A magic in sectors 1, 2, 4 and 5, zeroes in 3, a bad sector 6.
MCData == [l \in 1..5 |-> IF l = 3 THEN <<0, 0>> ELSE <<1, 2>>]
MCMagics == << [kind |-> "A", magic |-> <<1, 2>>], [kind |-> "B", magic |-> <<2, 1, 2>>] >>

Mbr(io, boot, dense, markers, serial, reserved, entries) ==
    [io |-> io, boot |-> boot, dense |-> dense, markers |-> markers, serial |-> serial,
     reserved |-> reserved, entries |-> entries]

Image(m, lba1, ebrs, content, size) ==
    [mbr |-> m, lba1 |-> lba1, ebrs |-> ebrs,
     dense |-> { l \in DOMAIN ebrs : ebrs[l].logical.lba_start = 3 },
     content |-> content, data |-> MCData, size |-> size]

Ebr(next, logical) == [io |-> "ok", boot_sig |-> TRUE, logical |-> logical, next |-> next,
                       slack |-> next = 2]
NotEbr(io) == [io |-> io, boot_sig |-> FALSE, logical |-> E0, next |-> 1, slack |-> FALSE]

OneEbr == [l \in {4} |-> Ebr(0, Entry("inactive", "Linux", 1, 1))]

TableImages ==
    { Image(Mbr("ok", "AllZeros", FALSE, 0, 0, 0, t), c[1], OneEbr, Steady, c[2]) :
        t \in [1..4 -> {E0, Res, A, X, P, F}],
        c \in { <<"gpt", 14>>, <<"unreadable", 0>> } }

BootImages ==
    { Image(m, lba1, OneEbr, Steady, 14) : lba1 \in {"other", "bad_gpt"},
        m \in { Mbr(io, boot, dense, k, serial, reserved, t) :
                  io \in {"ok", "io_error", "bad_signature"}, boot \in BootCodeIds,
                  dense \in BOOLEAN, k \in {0, 2}, serial \in {0, 1}, reserved \in {0, 1},
                  t \in { << S, E0, E0, E0 >>, << A, Sat, A, Z >> } } }

ChainKinds ==
    { Ebr(n, g) : n \in 0..2, g \in { Entry("inactive", "Linux", 1, 1),
                                      Entry("inactive", "Fat", 3, 3) } }
    \cup { Ebr(0, E0), NotEbr("ok"), NotEbr("short"), NotEbr("noseek") }

Chains == [4..6 -> ChainKinds]
FromMbr == { [l \in {1} |-> k] : k \in ChainKinds }

\* Also with a second container behind the first.
Tables == { << A, X, E0, E0 >>, << X, F, B, X0 >> }

ChainImages ==
    { Image(Mbr("ok", "Grub2", FALSE, 0, 1, 0, t), "other", c, Flaky, 14) :
        t \in Tables, c \in Chains }
    \cup { Image(Mbr("ok", "GrubLegacy", FALSE, 0, 1, 0, << X0, A, E0, E0 >>), "other", c,
                  Flaky, size) : c \in FromMbr, size \in {0, 14} }

MCImages == TableImages \cup { m \in BootImages : Identified(m.mbr) } \cup ChainImages
=============================================================================
