------------------------------ MODULE Severity ------------------------------
(***************************************************************************)
(* The severity of an anomaly, and what a caller filters by it:            *)
(* forensic/src/findings.rs.  An anomaly is a record of its kind and of    *)
(* what it is about; codes, notes and evidence are wording.                *)
(***************************************************************************)
EXTENDS Integers, Sequences

CONSTANT PRE_PARTITION_BENIGN_LBA   \* 63 in the code

INFO == 0
LOW == 1
MEDIUM == 2
HIGH == 3
CRITICAL == 4

CriticalKinds == {"OverlappingPartitions", "EbrCycle", "KnownBootkit"}

HighKinds == { "OutOfBounds", "EbrExcessiveDepth", "WipedBootCode", "ErasedBootCode",
               "HybridMbr", "ProtectiveMbrUndersized", "HiddenGpt", "SpoofedProtectiveMbr",
               "WipedRegion", "VbrHiddenSectorsMismatch", "HighEntropySlack" }

\* Mutant: space between partitions is as harmless as space behind them.
MediumKinds_NoGap == { "NonZeroReserved", "MultipleBootable", "ResidualEntry",
                       "ChsLbaInconsistency", "InvalidPartitionStatus",
                       "DuplicatePartitionEntry", "ZeroDiskSignature", "SignatureMismatch" }

MediumKinds == { "NonZeroReserved", "MultipleBootable", "ResidualEntry",
                 "ChsLbaInconsistency", "InvalidPartitionStatus", "DuplicatePartitionEntry",
                 "ZeroDiskSignature", "InterPartitionGap", "SignatureMismatch" }

LowKinds == {"UnknownBootCode", "CarvedArtifact"}

\* The other kinds: NoBootablePartition, PostPartitionSpace, EmptyProtectiveBootCode.
SeverityOf(a) ==
    CASE a.kind \in CriticalKinds -> CRITICAL
      [] a.kind \in HighKinds     -> HIGH
      [] a.kind = "EbrSlackData"  -> IF a.about.dense THEN HIGH ELSE MEDIUM
      [] a.kind = "PrePartitionSpace" ->
           IF a.about.lba_start < PRE_PARTITION_BENIGN_LBA THEN LOW ELSE MEDIUM
      [] a.kind \in MediumKinds   -> MEDIUM
      [] a.kind \in LowKinds      -> LOW
      [] OTHER                    -> INFO

\* The places of the anomalies the iterator yields; it goes through them in order.
AnomaliesAtLeast(anomalies, min) ==
    { n \in 1..Len(anomalies) : SeverityOf(anomalies[n]) >= min }
=============================================================================
