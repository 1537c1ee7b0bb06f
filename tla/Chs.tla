-------------------------------- MODULE Chs --------------------------------
(***************************************************************************)
(* Packed CHS addresses, core/src/partition.rs: decoding the three bytes,  *)
(* translation to an LBA, and the verdict on an address beside its LBA.    *)
(* The field widths are constants: 6 bits of sector and 8 of head leave    *)
(* exactly the values 0..63 and 0..255 of the standard geometry, and the   *)
(* cylinder is split into two high bits and a low byte.                    *)
(***************************************************************************)
EXTENDS Integers

CONSTANTS STD_HEADS_PER_CYL,      \* 255 in the code
          STD_SECTORS_PER_TRACK,  \* 63
          CYL_HIGH,               \* 4 values of the high bits of the cylinder
          CYL_LOW                 \* 256 values of its low byte

ASSUME GeometryAssumption ==
    {STD_HEADS_PER_CYL, STD_SECTORS_PER_TRACK, CYL_HIGH, CYL_LOW} \subseteq Nat \ {0}

CHS_MAX_CYLINDER == CYL_HIGH * CYL_LOW - 1

\* A head byte may be one more than the geometry has heads (255 of 0..254).
ChsAddress == [ cylinder : 0..CHS_MAX_CYLINDER,
                head     : 0..STD_HEADS_PER_CYL,
                sector   : 0..STD_SECTORS_PER_TRACK ]

SectorValues == STD_SECTORS_PER_TRACK + 1

ChsBytes == (0..STD_HEADS_PER_CYL) \X (0..(CYL_HIGH * SectorValues - 1)) \X (0..(CYL_LOW - 1))

FromBytes(b) == [ head     |-> b[1],
                  sector   |-> b[2] % SectorValues,
                  cylinder |-> (b[2] \div SectorValues) * CYL_LOW + b[3] ]

NoLba == -1

\* Mutant: sectors are counted from zero.
ToLba_ZeroBased(c, hpc, spt) ==
    IF c.sector = 0 \/ hpc = 0 \/ spt = 0 THEN NoLba
    ELSE c.cylinder * hpc * spt + c.head * spt + c.sector

\* Translation under a geometry; None for sector 0 and for no geometry.
ToLba(c, hpc, spt) ==
    IF c.sector = 0 \/ hpc = 0 \/ spt = 0 THEN NoLba
    ELSE c.cylinder * hpc * spt + c.head * spt + c.sector - 1

IsUnused(c) == c.cylinder = 0 /\ c.head = 0 /\ c.sector = 0

\* The markers are those of the standard geometry, whatever the caller's is.
IsOverflowMarker(c) ==
    /\ c.cylinder = CHS_MAX_CYLINDER
    /\ c.sector = STD_SECTORS_PER_TRACK
    /\ c.head \in {STD_HEADS_PER_CYL - 1, STD_HEADS_PER_CYL}

MaxChsAddressableLba(hpc, spt) == (CHS_MAX_CYLINDER + 1) * hpc * spt - 1

ChsConsistency(c, lba, hpc, spt) ==
    CASE IsUnused(c) -> "Unused"
      [] ~IsUnused(c) /\ IsOverflowMarker(c) -> "Consistent"
      [] OTHER -> IF lba <= MaxChsAddressableLba(hpc, spt) /\ ToLba(c, hpc, spt) = lba
                    THEN "Consistent" ELSE "Inconsistent"
=============================================================================
