----------------------------- MODULE PureCalls -----------------------------
(***************************************************************************)
(* A client of the library's pure functions: it makes one call after       *)
(* another, and each answer is compared with a definition of what the      *)
(* function is for that shares no step with its loop.                      *)
(***************************************************************************)
EXTENDS Chs, Wipe, Carve, AsciiStrings, DiskSignature, Signature

CONSTANTS ChsCases, Regions, MinLens, Bases, SignatureLists, Windows

\* What the functions may be called with.
ASSUME ArgumentsAssumption ==
    /\ ChsCases \subseteq [bytes : ChsBytes, lba : Nat]
    /\ \A data \in Regions \cup Windows : data \in Seq(Nat)
    /\ MinLens \cup Bases \subseteq Nat
    /\ \A signatures \in SignatureLists : signatures \in Seq(Nat)

VARIABLES fn, args, result   \* the latest call and its answer

vars == <<fn, args, result>>

Init == fn = "none" /\ args = <<>> /\ result = "none"

CallChs ==
    \E c \in ChsCases :
      /\ fn' = "chs_consistency" /\ args' = c
      /\ result' = ChsConsistency(FromBytes(c.bytes), c.lba,
                                  STD_HEADS_PER_CYL, STD_SECTORS_PER_TRACK)

CallClassify ==
    \E data \in Regions, dense \in BOOLEAN :
      /\ fn' = "classify" /\ args' = [data |-> data]
      /\ result' = Classify(data, dense)

CallCarve ==
    \E data \in Regions, base \in Bases :
      /\ fn' = "carve" /\ args' = [data |-> data, base |-> base]
      /\ result' = CarveFiles(data, base)

CallStrings ==
    \E data \in Regions, min_len \in MinLens :
      /\ fn' = "strings" /\ args' = [data |-> data, min_len |-> min_len]
      /\ result' = ExtractAsciiStrings(data, min_len)

CallCollisions ==
    \E signatures \in SignatureLists :
      /\ fn' = "collisions" /\ args' = [signatures |-> signatures]
      /\ result' = FindSignatureCollisions(signatures)

\* The window is read once in full and once cut short by the end of the disk.
CallDetect ==
    \E sector \in Windows : \E n \in 0..Len(sector) :
      /\ fn' = "detect" /\ args' = [sector |-> sector, n |-> n]
      /\ result' = [full |-> Detect(sector), short |-> Detect(SubSeq(sector, 1, n))]

\* Calls do not depend on each other: each is made from the initial state.
Next == fn = "none" /\ ( \/ CallChs \/ CallClassify \/ CallCarve
                         \/ CallStrings \/ CallCollisions \/ CallDetect )

Spec == Init /\ [][Next]_vars

-----------------------------------------------------------------------------
(* Properties *)

\* The bytes a partitioning tool writes for an LBA within the CHS range.
Encode(lba) ==
    LET cylinder == lba \div (STD_HEADS_PER_CYL * STD_SECTORS_PER_TRACK)
        head     == (lba \div STD_SECTORS_PER_TRACK) % STD_HEADS_PER_CYL
        sector   == (lba % STD_SECTORS_PER_TRACK) + 1
    IN  << head, (cylinder \div CYL_LOW) * SectorValues + sector, cylinder % CYL_LOW >>

\* The one other address that translates to the LBA: head 255 of the cylinder before.
Alias(lba) ==
    LET cylinder == lba \div (STD_HEADS_PER_CYL * STD_SECTORS_PER_TRACK) - 1
        sector   == (lba % STD_SECTORS_PER_TRACK) + 1
    IN  IF cylinder < 0 \/ Encode(lba)[1] # 0 THEN {}
        ELSE { << STD_HEADS_PER_CYL, (cylinder \div CYL_LOW) * SectorValues + sector,
                  cylinder % CYL_LOW >> }

Markers == { << head, CYL_HIGH * SectorValues - 1, CYL_LOW - 1 >> :
               head \in {STD_HEADS_PER_CYL - 1, STD_HEADS_PER_CYL} }

Addressable == CYL_HIGH * CYL_LOW * STD_HEADS_PER_CYL * STD_SECTORS_PER_TRACK

(***************************************************************************)
(* A table written by a tool is never called inconsistent, whichever of    *)
(* the three conventions it uses, and every other address is: no address   *)
(* passes for an LBA it does not encode, except the alias with one head    *)
(* too many.                                                               *)
(***************************************************************************)
ChsVerdictIsExact ==
    fn = "chs_consistency" =>
      LET written == IF args.lba < Addressable THEN {Encode(args.lba)} \cup Alias(args.lba)
                     ELSE {}
      IN  /\ result = "Inconsistent" <=>
               args.bytes \notin {<<0, 0, 0>>} \cup Markers \cup written
          /\ result = "Unused" <=> args.bytes = <<0, 0, 0>>

\* The region repeats with a period of at most two and is not all zero.
Overwritten(data) == /\ \E k \in 1..Len(data) : data[k] # 0
                     /\ \A k \in 1..(Len(data) - 2) : data[k] = data[k + 2]

\* Exactly the regions some one- or two-byte pattern was written over count
\* as deliberately wiped; untouched zero space never does.
WipeIsShortPeriod ==
    fn = "classify" => (IsDeliberateWipe(result) <=> Overwritten(args.data))

\* The magic m stands in the data at offset p.
OccursAt(m, data, p) == /\ m # <<>>
                        /\ p + Len(m) <= Len(data)
                        /\ \A k \in 1..Len(m) : data[p + k] = m[k]

(***************************************************************************)
(* Carving finds every occurrence of every magic, overlapping ones and one *)
(* that ends the region included, reports each once at its absolute        *)
(* offset, and in ascending order.                                         *)
(***************************************************************************)
CarveFindsEveryHeader ==
    fn = "carve" =>
      LET hits == { h \in (1..Len(FILE_MAGICS)) \X (0..Len(args.data)) :
                      OccursAt(FILE_MAGICS[h[1]].magic, args.data, h[2]) }
      IN  /\ Len(result) = Cardinality(hits)
          /\ { <<r.kind, r.offset>> : r \in { result[n] : n \in 1..Len(result) } }
               = { <<FILE_MAGICS[h[1]].kind, args.base + h[2]>> : h \in hits }
          /\ \A n \in 1..(Len(result) - 1) : result[n].offset <= result[n + 1].offset

(***************************************************************************)
(* The strings are the pieces between unprintable bytes that are long      *)
(* enough, in their order; a minimum of zero also gives the empty piece at *)
(* every unprintable byte and at the end.                                  *)
(***************************************************************************)
StringsAreTheRuns ==
    fn = "strings" =>
      LET data == args.data
          cuts == {0, Len(data) + 1} \cup { k \in 1..Len(data) : data[k] \notin Printable }
          Piece(p) == LET q == CHOOSE c \in cuts : c > p /\ \A d \in cuts : d > p => c <= d
                      IN  SubSeq(data, p + 1, q - 1)
          long == { p \in cuts \ {Len(data) + 1} : Len(Piece(p)) >= args.min_len }
      IN  /\ Len(result) = Cardinality(long)
          /\ \A p \in long : result[Cardinality({ o \in long : o <= p })] = Piece(p)

(***************************************************************************)
(* There is one collision per non-zero signature that two disks share, its *)
(* members are all the disks that carry it, ascending, and the collisions  *)
(* come in the order of first appearance, whatever order a hash map has.   *)
(***************************************************************************)
CollisionsAreTheSharedSignatures ==
    fn = "collisions" =>
      LET sigs == args.signatures
          Carriers(s) == { k - 1 : k \in { j \in 1..Len(sigs) : sigs[j] = s } }
          shared == { s \in { sigs[k] : k \in 1..Len(sigs) } \ {0} : Cardinality(Carriers(s)) > 1 }
          Members(n) == { result[n].members[k] : k \in 1..Len(result[n].members) }
      IN  /\ { result[n].signature : n \in 1..Len(result) } = shared
          /\ Len(result) = Cardinality(shared)
          /\ \A n \in 1..Len(result) :
               /\ Members(n) = Carriers(result[n].signature)
               /\ \A k \in 1..(Len(result[n].members) - 1) :
                    result[n].members[k] < result[n].members[k + 1]
          /\ \A n \in 1..(Len(result) - 1) : result[n].members[1] < result[n + 1].members[1]

\* Where the magic that gave a window its name stands.
MagicAt(sector, fs) ==
    { m.at : m \in { KbMagics[n] : n \in { k \in 1..Len(KbMagics) : KbMagics[k].fs = fs
                       /\ KbMagics[k].at <= Len(sector)
                       /\ sector[KbMagics[k].at] = KbMagics[k].value } } }
    \cup (IF fs = "Fat" THEN {FAT_AT} ELSE {})
    \cup (IF fs = "LinuxSwap" THEN {PAGE_AT} ELSE {})

(***************************************************************************)
(* A window cut short by the end of the disk is still recognised by a      *)
(* magic that lies within it, unless the knowledge base names the full     *)
(* window after a system without a DetectedFs.                             *)
(***************************************************************************)
PartialWindowMatches ==
    fn = "detect" /\ result.full \notin {"Unknown", "AllZeros"}
      /\ MagicAt(args.sector, "None") = {}
      /\ (\A at \in MagicAt(args.sector, result.full) : at <= args.n) =>
      result.short = result.full
=============================================================================
