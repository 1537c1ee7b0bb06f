-------------------------------- MODULE Wipe --------------------------------
(***************************************************************************)
(* classify and is_deliberate_wipe of forensic/src/wipe.rs.  The bytes a   *)
(* pattern repeats are left out of it; "dense" stands for the floating     *)
(* point comparison of the Shannon entropy with its threshold.             *)
(***************************************************************************)
EXTENDS Integers, Sequences

CONSTANT ONES   \* the byte 0xFF

ASSUME OnesAssumption == ONES \in Nat \ {0}

AllEqual(data) == \A k \in 1..Len(data) : data[k] = data[1]

\* Mutant: only every other byte is compared.
Alternates_EvenOnly(data) ==
    /\ Len(data) >= 2
    /\ data[1] # data[2]
    /\ \A k \in 1..Len(data) : k % 2 = 1 => data[k] = data[1]

\* The pair of the first two bytes, which differ, over and over.
Alternates(data) ==
    /\ Len(data) >= 2
    /\ data[1] # data[2]
    /\ \A k \in 1..Len(data) : data[k] = data[IF k % 2 = 1 THEN 1 ELSE 2]

Classify(data, dense) ==
    IF data = <<>> THEN "Mixed"
    ELSE IF AllEqual(data) THEN CASE data[1] = 0    -> "Zeros"
                                  [] data[1] = ONES -> "Ones"
                                  [] OTHER          -> "Uniform"
    ELSE IF Alternates(data) THEN "Alternating"
    ELSE IF dense THEN "HighEntropy"
    ELSE "Mixed"

IsDeliberateWipe(pattern) == pattern \in {"Ones", "Uniform", "Alternating"}
=============================================================================
