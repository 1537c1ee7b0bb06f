-------------------------- MODULE PureCallsProofs --------------------------
(***************************************************************************)
(* Proofs about the pure functions, for every argument: what the loop of a *)
(* function delivers is what the function is for.                          *)
(***************************************************************************)
EXTENDS PureCalls, CarveProofs, FunctionTheorems

-----------------------------------------------------------------------------
(* Wiped regions. *)

\* A period of two, read from its start.
LEMMA PeriodTwo ==
  ASSUME NEW data \in Seq(Nat), \A k \in 1..(Len(data) - 2) : data[k] = data[k + 2]
  PROVE  \A k \in 1..Len(data) : data[k] = data[IF k % 2 = 1 THEN 1 ELSE 2]
<1> DEFINE N == Len(data)
           Like(k) == data[k] = data[IF k % 2 = 1 THEN 1 ELSE 2]
           S == { n \in Nat : \A k \in 1..N : k <= n => Like(k) }
<1>1. N \in Nat
  OBVIOUS
<1>2. 0 \in S
  BY <1>1
<1>3. ASSUME NEW n \in Nat, n \in S PROVE n + 1 \in S
  <2> SUFFICES ASSUME NEW k \in 1..N, k <= n + 1 PROVE Like(k)
    BY <1>3
  <2>1. CASE k = 1 \/ k = 2
    <3>1. 1 % 2 = 1 /\ 2 % 2 = 0
      OBVIOUS
    <3>2. CASE k = 1
      BY <3>1, <3>2
    <3>3. CASE k = 2
      BY <3>1, <3>3
    <3> QED
      BY <2>1, <3>2, <3>3
  <2>2. CASE k > 2
    <3>1. k - 2 \in 1..(N - 2) /\ k - 2 \in 1..N /\ k - 2 <= n /\ (k - 2) + 2 = k
      BY <1>1, <2>2
    <3>2. data[k - 2] = data[k]
      BY <3>1
    <3>3. Like(k - 2)
      BY <1>3, <3>1
    <3>4. (k - 2) % 2 = k % 2
      BY <2>2
    <3> QED
      BY <3>2, <3>3, <3>4
  <2> QED
    BY <1>1, <2>1, <2>2
<1> HIDE DEF S
<1>4. Nat \subseteq S
  BY <1>2, <1>3, NatInductionOnSets
<1> SUFFICES ASSUME NEW k \in 1..N PROVE Like(k)
  OBVIOUS
<1>5. k \in S /\ k <= k
  BY <1>1, <1>4
<1> QED
  BY <1>5 DEF S

\* classify says "wiped" of the regions with a short period.
LEMMA ClassifyExact ==
  ASSUME NEW data \in Seq(Nat), NEW dense \in BOOLEAN
  PROVE  IsDeliberateWipe(Classify(data, dense)) <=> Overwritten(data)
<1> DEFINE N == Len(data)
           r == Classify(data, dense)
<1>1. N \in Nat /\ (data = <<>> <=> N = 0) /\ \A k \in 1..N : data[k] \in Nat
  OBVIOUS
<1>2. CASE data = <<>>
  BY <1>1, <1>2 DEF Classify, IsDeliberateWipe, Overwritten
<1>3. CASE data # <<>> /\ AllEqual(data)
  <2>1. N >= 1 /\ 1 \in 1..N
    BY <1>1, <1>3
  <2>2. \A k \in 1..N : data[k] = data[1]
    BY <1>3 DEF AllEqual
  <2>3. Overwritten(data) <=> data[1] # 0
    BY <1>1, <2>1, <2>2 DEF Overwritten
  <2>4. r = CASE data[1] = 0 -> "Zeros" [] data[1] = ONES -> "Ones" [] OTHER -> "Uniform"
    BY <1>3 DEF Classify
  <2>5. CASE data[1] = 0
    BY <2>3, <2>4, <2>5, OnesAssumption DEF IsDeliberateWipe
  <2>6. CASE data[1] # 0
    BY <2>3, <2>4, <2>6 DEF IsDeliberateWipe
  <2> QED
    BY <2>5, <2>6
<1>4. CASE data # <<>> /\ ~AllEqual(data) /\ Alternates(data)
  <2>1. r = "Alternating"
    BY <1>4 DEF Classify
  <2>2. /\ N >= 2 /\ data[1] # data[2]
        /\ \A k \in 1..N : data[k] = data[IF k % 2 = 1 THEN 1 ELSE 2]
    BY <1>4 DEF Alternates
  <2>3. \E k \in 1..N : data[k] # 0
    BY <1>1, <2>2
  <2>4. ASSUME NEW k \in 1..(N - 2) PROVE data[k] = data[k + 2]
    <3>1. k \in 1..N /\ k + 2 \in 1..N /\ (k + 2) % 2 = k % 2
      BY <1>1
    <3> QED
      BY <2>2, <3>1
  <2> QED
    BY <2>1, <2>3, <2>4 DEF IsDeliberateWipe, Overwritten
<1>5. CASE data # <<>> /\ ~AllEqual(data) /\ ~Alternates(data)
  <2>1. r \in {"HighEntropy", "Mixed"}
    BY <1>5 DEF Classify
  <2>2. ~Overwritten(data)
    <3> SUFFICES ASSUME Overwritten(data) PROVE FALSE
      OBVIOUS
    <3>1. \A k \in 1..N : data[k] = data[IF k % 2 = 1 THEN 1 ELSE 2]
      BY PeriodTwo DEF Overwritten
    <3>2. N >= 2 /\ data[1] = data[2]
      <4>1. N # 1
        BY <1>5 DEF AllEqual
      <4>2. N >= 2
        <5>1. N # 0
          BY <1>1, <1>5
        <5> HIDE DEF N
        <5> QED
          BY <1>1, <4>1, <5>1
      <4> QED
        BY <1>5, <3>1, <4>2 DEF Alternates
    <3>3. AllEqual(data)
      BY <3>1, <3>2 DEF AllEqual
    <3> QED
      BY <1>5, <3>3
  <2> QED
    BY <2>1, <2>2 DEF IsDeliberateWipe
<1> QED
  BY <1>2, <1>3, <1>4, <1>5

\* Exactly the regions a one- or two-byte pattern was written over count as
\* deliberately wiped, whatever their length.
THEOREM WipesAreShortPeriods == Spec => []WipeIsShortPeriod
<1>1. Init => WipeIsShortPeriod
  BY DEF Init, WipeIsShortPeriod
<1>2. WipeIsShortPeriod /\ [Next]_vars => WipeIsShortPeriod'
  <2> SUFFICES ASSUME WipeIsShortPeriod, [Next]_vars PROVE WipeIsShortPeriod'
    OBVIOUS
  <2>1. CASE CallClassify
    <3>1. PICK data \in Regions, dense \in BOOLEAN :
            args' = [data |-> data] /\ result' = Classify(data, dense)
      BY <2>1 DEF CallClassify
    <3>2. IsDeliberateWipe(Classify(data, dense)) <=> Overwritten(data)
      BY ArgumentsAssumption, ClassifyExact
    <3> QED
      BY <3>1, <3>2 DEF WipeIsShortPeriod
  <2>2. CASE UNCHANGED vars
    BY <2>2 DEF vars, WipeIsShortPeriod
  <2>3. CASE CallChs \/ CallCarve \/ CallStrings \/ CallCollisions \/ CallDetect
    BY <2>3 DEF CallChs, CallCarve, CallStrings, CallCollisions, CallDetect, WipeIsShortPeriod
  <2> QED
    BY <2>1, <2>2, <2>3 DEF Next
<1> QED
  BY <1>1, <1>2, PTL DEF Spec

-----------------------------------------------------------------------------
(* Windows cut short. *)

\* Min is the least element of a set of naturals.
LEMMA LeastNat ==
  ASSUME NEW S \in SUBSET Nat, S # {}
  PROVE  Min(S) \in S /\ \A y \in S : Min(S) <= y
<1> DEFINE Below == { n \in Nat : \A y \in S : n <= y }
<1>1. \E x \in S : \A y \in S : x <= y
  <2> SUFFICES ASSUME \A x \in S : \E y \in S : ~(x <= y) PROVE FALSE
    OBVIOUS
  <2>1. 0 \in Below
    OBVIOUS
  <2>2. ASSUME NEW n \in Nat, n \in Below PROVE n + 1 \in Below
    <3>1. n \notin S
      BY <2>2
    <3> QED
      BY <2>2, <3>1
  <2> HIDE DEF Below
  <2>3. Nat \subseteq Below
    BY <2>1, <2>2, NatInductionOnSets
  <2>4. PICK x \in S : TRUE
    OBVIOUS
  <2>5. x + 1 \in Below
    BY <2>3, <2>4
  <2> QED
    BY <2>4, <2>5 DEF Below
<1> QED
  BY <1>1 DEF Min

\* The magics of the knowledge base that stand in a window.
KbFound(sector) == { k \in 1..Len(KbMagics) : /\ KbMagics[k].at <= Len(sector)
                                              /\ sector[KbMagics[k].at] = KbMagics[k].value }

\* The types of one magic.
LEMMA KbTypes ==
  ASSUME NEW k \in 1..Len(KbMagics)
  PROVE  KbMagics[k].at \in Nat \ {0} /\ KbMagics[k].value \in Nat \ {0}
<1> DEFINE M == [fs : STRING, at : Nat \ {0}, value : Nat \ {0}]
<1>1. \A m \in M : m.at \in Nat \ {0} /\ m.value \in Nat \ {0}
  OBVIOUS
<1>2. KbMagics \in Seq(M)
  BY MagicTableAssumption
<1> HIDE DEF M
<1>3. KbMagics[k] \in M
  BY <1>2
<1> QED
  BY <1>1, <1>3

\* detect_name in terms of them.
LEMMA KbNameFound ==
  ASSUME NEW sector
  PROVE  /\ KbFound(sector) = {} => KbName(sector) = "None"
         /\ KbFound(sector) # {} =>
              /\ Min(KbFound(sector)) \in KbFound(sector)
              /\ \A k \in KbFound(sector) : Min(KbFound(sector)) <= k
              /\ KbName(sector) = KbMagics[Min(KbFound(sector))].fs
<1>1. KbFound(sector) \in SUBSET Nat
  BY MagicTableAssumption DEF KbFound
<1>2. KbName(sector) = IF KbFound(sector) = {} THEN "None"
                       ELSE KbMagics[Min(KbFound(sector))].fs
  BY DEF KbName, KbFound
<1> HIDE DEF KbFound
<1> QED
  BY <1>1, <1>2, LeastNat

\* What a window cut short still shows: the cells, and the magics, before the cut.
LEMMA CutWindow ==
  ASSUME NEW sector \in Seq(Nat), NEW n \in 0..Len(sector)
  PROVE  LET short == SubSeq(sector, 1, n) IN
         /\ short \in Seq(Nat) /\ Len(short) = n
         /\ \A k \in 1..n : short[k] = sector[k]
         /\ \A k \in 1..Len(KbMagics) :
              k \in KbFound(short) <=> k \in KbFound(sector) /\ KbMagics[k].at <= n
<1> DEFINE short == SubSeq(sector, 1, n)
<1>1. short \in Seq(Nat) /\ Len(short) = n /\ \A k \in 1..n : short[k] = sector[k]
  OBVIOUS
<1>2. n <= Len(sector) /\ n \in Nat /\ Len(sector) \in Nat
  OBVIOUS
<1> HIDE DEF short
<1>3. ASSUME NEW k \in 1..Len(KbMagics)
      PROVE  k \in KbFound(short) <=> k \in KbFound(sector) /\ KbMagics[k].at <= n
  <2>1. KbMagics[k].at \in Nat \ {0}
    BY KbTypes
  <2> QED
    BY <1>1, <1>2, <2>1 DEF KbFound
<1> QED
  BY <1>1, <1>3 DEF short

\* A window with a non-zero cell is named after its magics.
LEMMA DetectNonZero ==
  ASSUME NEW sector \in Seq(Nat), NEW k \in 1..Len(sector), sector[k] # 0
  PROVE  Detect(sector) = IF KbName(sector) # "None" THEN KbName(sector)
                          ELSE IF IsFat(sector) THEN "Fat"
                          ELSE IF IsPageSpace(sector) THEN "LinuxSwap"
                          ELSE "Unknown"
BY DEF Detect

\* detect gives a window and its cut the same name, if the magic is in both.
LEMMA DetectCut ==
  ASSUME NEW sector \in Seq(Nat), NEW n \in 0..Len(sector),
         Detect(sector) \notin {"Unknown", "AllZeros"},
         MagicAt(sector, "None") = {},
         \A at \in MagicAt(sector, Detect(sector)) : at <= n
  PROVE  Detect(SubSeq(sector, 1, n)) = Detect(sector)
<1> DEFINE short == SubSeq(sector, 1, n)
           F == Detect(sector)
<1>1. /\ short \in Seq(Nat) /\ Len(short) = n
      /\ \A k \in 1..n : short[k] = sector[k]
      /\ \A k \in 1..Len(KbMagics) :
           k \in KbFound(short) <=> k \in KbFound(sector) /\ KbMagics[k].at <= n
  BY CutWindow
<1>2. n <= Len(sector) /\ n \in Nat /\ Len(sector) \in Nat
  OBVIOUS
<1>3. \A k \in KbFound(sector) : /\ k \in 1..Len(KbMagics)
                                 /\ KbMagics[k].at \in MagicAt(sector, KbMagics[k].fs)
                                 /\ KbMagics[k].at \in 1..Len(sector)
                                 /\ sector[KbMagics[k].at] # 0
  <2> SUFFICES ASSUME NEW k \in KbFound(sector)
               PROVE  /\ k \in 1..Len(KbMagics)
                      /\ KbMagics[k].at \in MagicAt(sector, KbMagics[k].fs)
                      /\ KbMagics[k].at \in 1..Len(sector)
                      /\ sector[KbMagics[k].at] # 0
    OBVIOUS
  <2>1. /\ k \in 1..Len(KbMagics) /\ KbMagics[k].at <= Len(sector)
        /\ sector[KbMagics[k].at] = KbMagics[k].value
    BY DEF KbFound
  <2>2. KbMagics[k].at \in Nat \ {0} /\ KbMagics[k].value \in Nat \ {0}
    BY <2>1, KbTypes
  <2>3. KbMagics[k].at \in MagicAt(sector, KbMagics[k].fs)
    BY <2>1, Zenon DEF MagicAt
  <2> QED
    BY <1>2, <2>1, <2>2, <2>3
<1>4. FAT_AT \in MagicAt(sector, "Fat") /\ PAGE_AT \in MagicAt(sector, "LinuxSwap")
  BY DEF MagicAt
<1>5. \A k \in KbFound(sector) : KbMagics[k].fs # "None"
  BY <1>3
<1>6. KbFound(short) \subseteq KbFound(sector)
  BY <1>1 DEF KbFound
<1>7. sector # <<>> /\ ~(\A k \in 1..Len(sector) : sector[k] = 0)
  BY DEF Detect
<1>8. F = IF KbName(sector) # "None" THEN KbName(sector)
          ELSE IF IsFat(sector) THEN "Fat"
          ELSE IF IsPageSpace(sector) THEN "LinuxSwap"
          ELSE "Unknown"
  BY <1>7, DetectNonZero
<1> HIDE DEF short, F
<1>9. ASSUME NEW k \in 1..n, sector[k] # 0
      PROVE  Detect(short) = IF KbName(short) # "None" THEN KbName(short)
                             ELSE IF IsFat(short) THEN "Fat"
                             ELSE IF IsPageSpace(short) THEN "LinuxSwap"
                             ELSE "Unknown"
  BY <1>1, <1>9, DetectNonZero
<1>10. CASE KbFound(sector) # {}
  <2> DEFINE m == Min(KbFound(sector))
  <2>1. m \in KbFound(sector) /\ KbName(sector) = KbMagics[m].fs
    BY <1>10, KbNameFound
  <2>2. \A k \in KbFound(sector) : m <= k
    BY <1>10, KbNameFound
  <2> HIDE DEF m
  <2>3. F = KbMagics[m].fs /\ F # "None"
    BY <1>5, <1>8, <2>1
  <2>4. KbMagics[m].at <= n /\ KbMagics[m].at \in 1..n /\ sector[KbMagics[m].at] # 0
    BY <1>2, <1>3, <2>1, <2>3 DEF F
  <2>5. m \in KbFound(short)
    BY <1>1, <1>3, <2>1, <2>4
  <2> DEFINE q == Min(KbFound(short))
  <2>6. q \in KbFound(short) /\ q <= m /\ KbName(short) = KbMagics[q].fs
    BY <2>5, KbNameFound
  <2> HIDE DEF q
  <2>7. q = m
    BY <1>3, <1>6, <2>1, <2>2, <2>6
  <2>8. KbName(short) = F /\ KbName(short) # "None"
    BY <2>3, <2>6, <2>7
  <2> QED
    BY <1>9, <2>4, <2>8 DEF short, F
<1>11. CASE KbFound(sector) = {}
  <2>1. KbName(sector) = "None" /\ KbName(short) = "None"
    BY <1>6, <1>11, KbNameFound
  <2>2. CASE IsFat(sector)
    <3>1. F = "Fat"
      BY <1>8, <2>1, <2>2
    <3>2. FAT_AT \in 1..n /\ sector[FAT_AT] # 0
      BY <1>2, <1>4, <2>2, <3>1, MagicTableAssumption DEF F, IsFat
    <3>3. IsFat(short)
      BY <1>1, <2>2, <3>2 DEF IsFat
    <3> QED
      BY <1>9, <2>1, <3>1, <3>2, <3>3 DEF short, F
  <2>3. CASE ~IsFat(sector)
    <3>1. F = "LinuxSwap" /\ IsPageSpace(sector)
      BY <1>8, <2>1, <2>3 DEF F
    <3>2. PAGE_AT \in 1..n /\ sector[PAGE_AT] # 0
      BY <1>2, <1>4, <3>1, MagicTableAssumption DEF F, IsPageSpace
    <3>3. IsPageSpace(short)
      BY <1>1, <3>1, <3>2 DEF IsPageSpace
    <3>4. ~IsFat(short)
      BY <1>1, <1>2, <2>3, MagicTableAssumption DEF IsFat
    <3> QED
      BY <1>9, <2>1, <3>1, <3>2, <3>3, <3>4 DEF short, F
  <2> QED
    BY <2>2, <2>3
<1> QED
  BY <1>10, <1>11

\* A window that the end of the disk cuts short keeps its name, for every
\* table of magics and every window.
THEOREM PartialWindowsMatch == Spec => []PartialWindowMatches
<1>1. Init => PartialWindowMatches
  BY DEF Init, PartialWindowMatches
<1>2. PartialWindowMatches /\ [Next]_vars => PartialWindowMatches'
  <2> SUFFICES ASSUME PartialWindowMatches, [Next]_vars PROVE PartialWindowMatches'
    OBVIOUS
  <2>1. CASE CallDetect
    <3>1. PICK sector \in Windows : \E n \in 0..Len(sector) :
            /\ args' = [sector |-> sector, n |-> n]
            /\ result' = [full |-> Detect(sector), short |-> Detect(SubSeq(sector, 1, n))]
      BY <2>1 DEF CallDetect
    <3>2. PICK n \in 0..Len(sector) :
            /\ args' = [sector |-> sector, n |-> n]
            /\ result' = [full |-> Detect(sector), short |-> Detect(SubSeq(sector, 1, n))]
      BY <3>1
    <3>3. sector \in Seq(Nat)
      BY ArgumentsAssumption
    <3>4. /\ args'.sector = sector /\ args'.n = n
          /\ result'.full = Detect(sector) /\ result'.short = Detect(SubSeq(sector, 1, n))
      BY <3>2
    <3>5. /\ Detect(sector) \notin {"Unknown", "AllZeros"}
          /\ MagicAt(sector, "None") = {}
          /\ \A at \in MagicAt(sector, Detect(sector)) : at <= n
          => Detect(SubSeq(sector, 1, n)) = Detect(sector)
      BY <3>3, DetectCut
    <3> QED
      BY <3>4, <3>5 DEF PartialWindowMatches
  <2>2. CASE UNCHANGED vars
    BY <2>2 DEF vars, PartialWindowMatches
  <2>3. CASE CallChs \/ CallClassify \/ CallCarve \/ CallStrings \/ CallCollisions
    BY <2>3 DEF CallChs, CallClassify, CallCarve, CallStrings, CallCollisions,
                PartialWindowMatches
  <2> QED
    BY <2>1, <2>2, <2>3 DEF Next
<1> QED
  BY <1>1, <1>2, PTL DEF Spec

-----------------------------------------------------------------------------
(* Packed CHS addresses. *)

\* Division with remainder.
LEMMA DivMod ==
  ASSUME NEW a \in Nat, NEW b \in Nat \ {0}
  PROVE  a \div b \in Nat /\ a % b \in 0..(b - 1) /\ a = (a \div b) * b + (a % b)
OBVIOUS

\* There is one way to divide.
LEMMA DivModUnique ==
  ASSUME NEW b \in Nat \ {0}, NEW q \in Nat, NEW r \in 0..(b - 1)
  PROVE  (q * b + r) \div b = q /\ (q * b + r) % b = r
<1> DEFINE a == q * b + r
           p == a \div b
           t == a % b
<1>1. a \in Nat
  OBVIOUS
<1>2. p \in Nat /\ t \in 0..(b - 1) /\ a = p * b + t
  BY <1>1, DivMod
<1>3. \A m, n \in Nat : m < n => m * b + b <= n * b
  OBVIOUS
<1>4. p * b \in Nat /\ q * b \in Nat
  BY <1>2
<1> HIDE DEF p, t
<1>5. p * b + t = q * b + r
  BY <1>2
<1>6. ~(p < q) /\ ~(q < p)
  BY <1>2, <1>3, <1>4, <1>5
<1>7. p = q
  BY <1>2, <1>6
<1>8. t = r
  BY <1>2, <1>4, <1>5, <1>7
<1> QED
  BY <1>7, <1>8 DEF p, t

\* Dividing by two factors, one after the other.
LEMMA DivTwice ==
  ASSUME NEW a \in Nat, NEW b \in Nat \ {0}, NEW c \in Nat \ {0}
  PROVE  a \div (b * c) = (a \div c) \div b
<1> DEFINE t == a \div c
           u == t \div b
           w == t % b
           r == a % c
<1>1. t \in Nat /\ r \in 0..(c - 1) /\ a = t * c + r
  BY DivMod
<1>2. u \in Nat /\ w \in 0..(b - 1) /\ t = u * b + w
  BY <1>1, DivMod
<1> HIDE DEF t, u, w, r
<1>3. b * c \in Nat \ {0} /\ w * c \in Nat
  BY <1>2
<1>4. w * c + c <= b * c
  BY <1>2
<1>5. w * c + r \in 0..(b * c - 1)
  BY <1>1, <1>3, <1>4
<1>6. t * c = u * (b * c) + w * c
  BY <1>2
<1>7. u * (b * c) \in Nat
  BY <1>2, <1>3
<1>8. a = u * (b * c) + (w * c + r)
  BY <1>1, <1>3, <1>6, <1>7
<1>9. a \div (b * c) = u
  BY <1>2, <1>3, <1>5, <1>8, DivModUnique
<1> QED
  BY <1>9 DEF u, t

\* The bytes of an address.
Pack(head, cylinder, sector) ==
    << head, (cylinder \div CYL_LOW) * SectorValues + sector, cylinder % CYL_LOW >>

\* Unpacking undoes packing.
LEMMA Unpack ==
  ASSUME NEW head, NEW cylinder \in Nat, NEW sector \in 0..STD_SECTORS_PER_TRACK
  PROVE  FromBytes(Pack(head, cylinder, sector)) =
           [head |-> head, sector |-> sector, cylinder |-> cylinder]
<1> DEFINE q == cylinder \div CYL_LOW
           x == q * SectorValues + sector
<1>1. SectorValues \in Nat \ {0} /\ sector \in 0..(SectorValues - 1) /\ CYL_LOW \in Nat \ {0}
  BY GeometryAssumption DEF SectorValues
<1>2. q \in Nat /\ cylinder = q * CYL_LOW + (cylinder % CYL_LOW)
  BY <1>1, DivMod
<1> HIDE DEF q
<1>3. x \div SectorValues = q /\ x % SectorValues = sector
  BY <1>1, <1>2, DivModUnique
<1>4. Pack(head, cylinder, sector) = <<head, x, cylinder % CYL_LOW>>
  BY DEF Pack, q
<1> HIDE DEF x
<1> QED
  BY <1>2, <1>3, <1>4 DEF FromBytes

\* Packing undoes unpacking.
LEMMA Repack ==
  ASSUME NEW b \in ChsBytes
  PROVE  LET c == FromBytes(b) IN
         /\ c.head \in 0..STD_HEADS_PER_CYL /\ c.cylinder \in Nat
         /\ c.sector \in 0..STD_SECTORS_PER_TRACK
         /\ b = Pack(c.head, c.cylinder, c.sector)
<1> DEFINE c == FromBytes(b)
           q == b[2] \div SectorValues
<1>1. SectorValues \in Nat \ {0} /\ CYL_LOW \in Nat \ {0} /\ STD_SECTORS_PER_TRACK \in Nat
  BY GeometryAssumption DEF SectorValues
<1>2. /\ b = <<b[1], b[2], b[3]>>
      /\ b[1] \in 0..STD_HEADS_PER_CYL /\ b[2] \in Nat /\ b[3] \in 0..(CYL_LOW - 1)
  BY <1>1, GeometryAssumption DEF ChsBytes
<1>3. /\ q \in Nat /\ b[2] % SectorValues \in 0..(SectorValues - 1)
      /\ b[2] = q * SectorValues + (b[2] % SectorValues)
  BY <1>1, <1>2, DivMod
<1>4. c.head = b[1] /\ c.sector = b[2] % SectorValues /\ c.cylinder = q * CYL_LOW + b[3]
  BY DEF FromBytes
<1> HIDE DEF c, q
<1>5. c.cylinder \div CYL_LOW = q /\ c.cylinder % CYL_LOW = b[3]
  BY <1>1, <1>2, <1>3, <1>4, DivModUnique
<1>6. c.cylinder \in Nat
  BY <1>1, <1>2, <1>3, <1>4
<1>7. c.sector \in 0..STD_SECTORS_PER_TRACK
  BY <1>1, <1>3, <1>4 DEF SectorValues
<1>8. b = Pack(c.head, c.cylinder, c.sector)
  BY <1>2, <1>3, <1>4, <1>5 DEF Pack
<1> QED
  BY <1>2, <1>4, <1>6, <1>7, <1>8 DEF c

\* The one address that encodes an LBA, and the alias with one head too many.
LEMMA AddressOf ==
  ASSUME NEW cylinder \in Nat, NEW head \in 0..STD_HEADS_PER_CYL,
         NEW sector \in 1..STD_SECTORS_PER_TRACK, NEW lba \in Nat
  PROVE  LET track == lba \div STD_SECTORS_PER_TRACK
             cyl   == lba \div (STD_HEADS_PER_CYL * STD_SECTORS_PER_TRACK)
         IN  cylinder * STD_HEADS_PER_CYL * STD_SECTORS_PER_TRACK
               + head * STD_SECTORS_PER_TRACK + sector - 1 = lba
             <=> /\ sector = (lba % STD_SECTORS_PER_TRACK) + 1
                 /\ \/ head = track % STD_HEADS_PER_CYL /\ cylinder = cyl
                    \/ /\ head = STD_HEADS_PER_CYL
                       /\ track % STD_HEADS_PER_CYL = 0
                       /\ cylinder = cyl - 1
<1> DEFINE H == STD_HEADS_PER_CYL
           T == STD_SECTORS_PER_TRACK
           track == lba \div T
           cyl == lba \div (H * T)
           rest == lba % T
           hd == track % H
           t == cylinder * H + head
<1>1. H \in Nat \ {0} /\ T \in Nat \ {0} /\ head \in 0..H /\ sector \in 1..T
  BY GeometryAssumption
<1> HIDE DEF H, T
<1>2. track \in Nat /\ rest \in 0..(T - 1) /\ lba = track * T + rest
  BY <1>1, DivMod
<1>3. cyl = track \div H
  BY <1>1, DivTwice
<1> HIDE DEF cyl
<1>4. cyl \in Nat /\ hd \in 0..(H - 1) /\ track = cyl * H + hd
  BY <1>1, <1>2, <1>3, DivMod
<1>5. t \in Nat /\ cylinder * H \in Nat /\ t * T \in Nat
  BY <1>1
<1>6. cylinder * H * T + head * T + sector - 1 = t * T + (sector - 1)
  <2>1. t * T = cylinder * H * T + head * T
    BY <1>1, <1>5
  <2>2. cylinder * H * T \in Nat /\ head * T \in Nat
    BY <1>1, <1>5
  <2> QED
    BY <1>1, <2>1, <2>2
<1>7. t * T + (sector - 1) = lba <=> t = track /\ sector - 1 = rest
  <2>1. sector - 1 \in 0..(T - 1)
    BY <1>1
  <2>2. (t * T + (sector - 1)) \div T = t /\ (t * T + (sector - 1)) % T = sector - 1
    BY <1>1, <1>5, <2>1, DivModUnique
  <2> HIDE DEF t
  <2> QED
    BY <1>2, <2>2
<1> HIDE DEF track, rest, hd
<1>8. t = track <=> \/ head = hd /\ cylinder = cyl
                    \/ head = H /\ hd = 0 /\ cylinder = cyl - 1
  <2>1. CASE head < H
    <3>1. head \in 0..(H - 1)
      BY <1>1, <2>1
    <3>2. (cylinder * H + head) \div H = cylinder /\ (cylinder * H + head) % H = head
      BY <1>1, <3>1, DivModUnique
    <3>3. (cyl * H + hd) \div H = cyl /\ (cyl * H + hd) % H = hd
      BY <1>1, <1>4, DivModUnique
    <3>4. head # H
      BY <1>1, <2>1
    <3>5. t = track => head = hd /\ cylinder = cyl
      BY <1>4, <3>2, <3>3
    <3>6. head = hd /\ cylinder = cyl => t = track
      BY <1>4
    <3> QED
      BY <3>4, <3>5, <3>6
  <2>2. CASE head = H
    <3>1. t = (cylinder + 1) * H + 0 /\ cylinder + 1 \in Nat /\ 0 \in 0..(H - 1)
      BY <1>1, <2>2
    <3>2. ((cylinder + 1) * H + 0) \div H = cylinder + 1 /\ ((cylinder + 1) * H + 0) % H = 0
      BY <1>1, <3>1, DivModUnique
    <3>3. (cyl * H + hd) \div H = cyl /\ (cyl * H + hd) % H = hd
      BY <1>1, <1>4, DivModUnique
    <3>4. head # hd
      BY <1>1, <1>4, <2>2
    <3>5. t = track => hd = 0 /\ cylinder + 1 = cyl
      BY <1>4, <3>1, <3>2, <3>3
    <3>6. hd = 0 /\ cylinder + 1 = cyl => t = track
      BY <1>4, <3>1
    <3>7. cylinder + 1 = cyl <=> cylinder = cyl - 1
      BY <1>4
    <3> QED
      BY <2>2, <3>4, <3>5, <3>6, <3>7
  <2> QED
    BY <1>1, <2>1, <2>2
<1>9. sector - 1 = rest <=> sector = rest + 1
  BY <1>1, <1>2
<1> HIDE DEF t
<1> QED
  BY <1>6, <1>7, <1>8, <1>9 DEF H, T, track, cyl, rest, hd

\* What the functions say under the standard geometry, which check_chs_lba passes.
StdMaxLba == MaxChsAddressableLba(STD_HEADS_PER_CYL, STD_SECTORS_PER_TRACK)
StdLba(c) == ToLba(c, STD_HEADS_PER_CYL, STD_SECTORS_PER_TRACK)
StdVerdict(c, lba) == ChsConsistency(c, lba, STD_HEADS_PER_CYL, STD_SECTORS_PER_TRACK)

\* The address that a tool writes for an LBA, and its alias.
Written(lba) == IF lba < Addressable THEN {Encode(lba)} \cup Alias(lba) ELSE {}

\* An address translates to an LBA in range exactly when it is written for it.
LEMMA TranslatesExactly ==
  ASSUME NEW b \in ChsBytes, NEW lba \in Nat
  PROVE  lba <= StdMaxLba /\ StdLba(FromBytes(b)) = lba <=> b \in Written(lba)
<1> DEFINE c == FromBytes(b)
           cyl == lba \div (STD_HEADS_PER_CYL * STD_SECTORS_PER_TRACK)
           hd == (lba \div STD_SECTORS_PER_TRACK) % STD_HEADS_PER_CYL
           sec == (lba % STD_SECTORS_PER_TRACK) + 1
<1>1. /\ STD_HEADS_PER_CYL \in Nat \ {0} /\ STD_SECTORS_PER_TRACK \in Nat \ {0}
      /\ CYL_HIGH \in Nat \ {0} /\ CYL_LOW \in Nat \ {0}
  BY GeometryAssumption
<1>2. lba <= StdMaxLba <=> lba < Addressable
  <2>1. CYL_HIGH * CYL_LOW \in Nat
    BY <1>1
  <2>2. CYL_HIGH * CYL_LOW - 1 + 1 = CYL_HIGH * CYL_LOW
    BY <2>1
  <2>3. Addressable \in Nat
    BY <1>1, <2>1 DEF Addressable
  <2>4. StdMaxLba = Addressable - 1
    BY <2>2 DEF StdMaxLba, MaxChsAddressableLba, CHS_MAX_CYLINDER, Addressable
  <2> QED
    BY <2>3, <2>4
<1>3. /\ c.head \in 0..STD_HEADS_PER_CYL /\ c.cylinder \in Nat
      /\ c.sector \in 0..STD_SECTORS_PER_TRACK /\ b = Pack(c.head, c.cylinder, c.sector)
  BY Repack
<1>4. /\ lba \div STD_SECTORS_PER_TRACK \in Nat
      /\ hd \in 0..(STD_HEADS_PER_CYL - 1)
      /\ lba % STD_SECTORS_PER_TRACK \in 0..(STD_SECTORS_PER_TRACK - 1)
  BY <1>1, DivMod
<1>5. cyl \in Nat
  <2>1. STD_HEADS_PER_CYL * STD_SECTORS_PER_TRACK \in Nat \ {0}
    BY <1>1
  <2> QED
    BY <2>1, DivMod
<1>6. sec \in 1..STD_SECTORS_PER_TRACK /\ sec \in 0..STD_SECTORS_PER_TRACK
  BY <1>1, <1>4
<1>7. Encode(lba) = Pack(hd, cyl, sec) /\ Encode(lba)[1] = hd
  BY DEF Encode, Pack
<1>8. Alias(lba) = IF cyl - 1 < 0 \/ hd # 0 THEN {}
                   ELSE {Pack(STD_HEADS_PER_CYL, cyl - 1, sec)}
  BY <1>7 DEF Alias, Pack
<1> HIDE DEF c, cyl, hd, sec
<1>9. \A h : \A k \in Nat : \A s \in 0..STD_SECTORS_PER_TRACK :
        b = Pack(h, k, s) <=> c.head = h /\ c.cylinder = k /\ c.sector = s
  <2> SUFFICES ASSUME NEW h, NEW k \in Nat, NEW s \in 0..STD_SECTORS_PER_TRACK
               PROVE  b = Pack(h, k, s) <=> c.head = h /\ c.cylinder = k /\ c.sector = s
    OBVIOUS
  <2>1. FromBytes(Pack(h, k, s)) = [head |-> h, sector |-> s, cylinder |-> k]
    BY Unpack
  <2> QED
    BY <1>3, <2>1 DEF c
<1>10. StdLba(c) = lba <=>
         /\ c.sector = sec
         /\ \/ c.head = hd /\ c.cylinder = cyl
            \/ c.head = STD_HEADS_PER_CYL /\ hd = 0 /\ c.cylinder = cyl - 1
  <2>1. CASE c.sector = 0
    <3>1. StdLba(c) = -1
      BY <2>1 DEF StdLba, ToLba, NoLba
    <3> QED
      BY <1>6, <2>1, <3>1
  <2>2. CASE c.sector # 0
    <3>1. c.sector \in 1..STD_SECTORS_PER_TRACK
      BY <1>1, <1>3, <2>2
    <3>2. StdLba(c) = c.cylinder * STD_HEADS_PER_CYL * STD_SECTORS_PER_TRACK
                       + c.head * STD_SECTORS_PER_TRACK + c.sector - 1
      BY <1>1, <2>2 DEF StdLba, ToLba
    <3> QED
      BY <1>3, <3>1, <3>2, AddressOf DEF cyl, hd, sec
  <2> QED
    BY <2>1, <2>2
<1>11. b = Encode(lba) <=> c.head = hd /\ c.cylinder = cyl /\ c.sector = sec
  BY <1>5, <1>6, <1>7, <1>9
<1>12. b \in Alias(lba) <=> /\ c.head = STD_HEADS_PER_CYL /\ hd = 0
                            /\ c.cylinder = cyl - 1 /\ c.sector = sec
  <2>1. CASE cyl - 1 < 0 \/ hd # 0
    BY <1>3, <1>5, <1>8, <2>1
  <2>2. CASE cyl - 1 >= 0 /\ hd = 0
    <3>1. cyl - 1 \in Nat /\ ~(cyl - 1 < 0)
      BY <1>5, <2>2
    <3>2. Alias(lba) = {Pack(STD_HEADS_PER_CYL, cyl - 1, sec)}
      BY <1>8, <2>2, <3>1
    <3> QED
      BY <1>6, <1>9, <2>2, <3>1, <3>2
  <2> QED
    BY <1>5, <2>1, <2>2
<1>13. StdLba(c) = lba <=> b \in {Encode(lba)} \cup Alias(lba)
  BY <1>10, <1>11, <1>12
<1> QED
  BY <1>2, <1>13 DEF Written, c

\* The verdict is the one the three conventions of the tools call for.
LEMMA VerdictExact ==
  ASSUME NEW b \in ChsBytes, NEW lba \in Nat
  PROVE  LET verdict == StdVerdict(FromBytes(b), lba) IN
         /\ verdict = "Inconsistent" <=>
              b \notin {<<0, 0, 0>>} \cup Markers \cup Written(lba)
         /\ verdict = "Unused" <=> b = <<0, 0, 0>>
<1> DEFINE c == FromBytes(b)
           last == CYL_HIGH * CYL_LOW - 1
           Fits == lba <= StdMaxLba /\ StdLba(c) = lba
<1>1. /\ STD_HEADS_PER_CYL \in Nat \ {0} /\ STD_SECTORS_PER_TRACK \in Nat \ {0}
      /\ CYL_HIGH \in Nat \ {0} /\ CYL_LOW \in Nat \ {0}
  BY GeometryAssumption
<1>2. b = Pack(c.head, c.cylinder, c.sector)
  BY Repack
<1> HIDE DEF c
<1>3. \A h : \A k \in Nat : \A s \in 0..STD_SECTORS_PER_TRACK :
        b = Pack(h, k, s) <=> c.head = h /\ c.cylinder = k /\ c.sector = s
  <2> SUFFICES ASSUME NEW h, NEW k \in Nat, NEW s \in 0..STD_SECTORS_PER_TRACK
               PROVE  b = Pack(h, k, s) <=> c.head = h /\ c.cylinder = k /\ c.sector = s
    OBVIOUS
  <2>1. FromBytes(Pack(h, k, s)) = [head |-> h, sector |-> s, cylinder |-> k]
    BY Unpack
  <2> QED
    BY <1>2, <2>1 DEF c
<1>4. IsUnused(c) <=> b = <<0, 0, 0>>
  <2>1. 0 \div CYL_LOW = 0 /\ 0 % CYL_LOW = 0
    BY <1>1
  <2>2. Pack(0, 0, 0) = <<0, 0, 0>>
    BY <1>1, <2>1 DEF Pack, SectorValues
  <2>3. 0 \in 0..STD_SECTORS_PER_TRACK
    BY <1>1
  <2> QED
    BY <1>3, <2>2, <2>3 DEF IsUnused
<1>5. IsOverflowMarker(c) <=> b \in Markers
  <2>1. /\ last \in Nat
        /\ last = (CYL_HIGH - 1) * CYL_LOW + (CYL_LOW - 1)
        /\ CYL_HIGH - 1 \in Nat /\ CYL_LOW - 1 \in 0..(CYL_LOW - 1)
    BY <1>1
  <2> HIDE DEF last
  <2>2. last \div CYL_LOW = CYL_HIGH - 1 /\ last % CYL_LOW = CYL_LOW - 1
    BY <1>1, <2>1, DivModUnique
  <2>3. (CYL_HIGH - 1) * SectorValues + STD_SECTORS_PER_TRACK = CYL_HIGH * SectorValues - 1
    BY <1>1 DEF SectorValues
  <2>4. \A h : Pack(h, last, STD_SECTORS_PER_TRACK) =
                 << h, CYL_HIGH * SectorValues - 1, CYL_LOW - 1 >>
    BY <2>2, <2>3 DEF Pack
  <2>5. b \in Markers <=> \E h \in {STD_HEADS_PER_CYL - 1, STD_HEADS_PER_CYL} :
                            b = Pack(h, last, STD_SECTORS_PER_TRACK)
    BY <2>4, Zenon DEF Markers
  <2>6. STD_SECTORS_PER_TRACK \in 0..STD_SECTORS_PER_TRACK
    BY <1>1
  <2>7. IsOverflowMarker(c) <=> /\ c.cylinder = last /\ c.sector = STD_SECTORS_PER_TRACK
                                /\ c.head \in {STD_HEADS_PER_CYL - 1, STD_HEADS_PER_CYL}
    BY DEF IsOverflowMarker, CHS_MAX_CYLINDER, last
  <2>8. \A h : b = Pack(h, last, STD_SECTORS_PER_TRACK) <=>
                 c.head = h /\ c.cylinder = last /\ c.sector = STD_SECTORS_PER_TRACK
    BY <1>3, <2>1, <2>6
  <2> QED
    BY <2>5, <2>7, <2>8, Zenon
<1>6. Fits <=> b \in Written(lba)
  BY TranslatesExactly DEF c
<1> HIDE DEF Fits
<1> DEFINE verdict == StdVerdict(c, lba)
<1>7. verdict = CASE IsUnused(c) -> "Unused"
                  [] ~IsUnused(c) /\ IsOverflowMarker(c) -> "Consistent"
                  [] OTHER -> IF Fits THEN "Consistent" ELSE "Inconsistent"
  BY DEF StdVerdict, StdMaxLba, StdLba, ChsConsistency, Fits
<1> HIDE DEF verdict
<1>8. CASE IsUnused(c)
  BY <1>4, <1>7, <1>8 DEF verdict, c
<1>9. CASE ~IsUnused(c) /\ IsOverflowMarker(c)
  BY <1>4, <1>5, <1>7, <1>9 DEF verdict, c
<1>10. CASE ~IsUnused(c) /\ ~IsOverflowMarker(c)
  <2>1. verdict = IF Fits THEN "Consistent" ELSE "Inconsistent"
    BY <1>7, <1>10
  <2> QED
    BY <1>4, <1>5, <1>6, <1>10, <2>1 DEF verdict, c
<1> QED
  BY <1>8, <1>9, <1>10

(***************************************************************************)
(* The verdict on a packed address is exact, whatever the size of the      *)
(* standard geometry and of the fields: unused, overflow marker, the       *)
(* encoding of the LBA, or its alias, and nothing else, passes.            *)
(***************************************************************************)
THEOREM ChsVerdicts == Spec => []ChsVerdictIsExact
<1>1. Init => ChsVerdictIsExact
  BY DEF Init, ChsVerdictIsExact
<1>2. ChsVerdictIsExact /\ [Next]_vars => ChsVerdictIsExact'
  <2> SUFFICES ASSUME ChsVerdictIsExact, [Next]_vars PROVE ChsVerdictIsExact'
    OBVIOUS
  <2>1. CASE CallChs
    <3>1. PICK c \in ChsCases : /\ args' = c
                                /\ result' = StdVerdict(FromBytes(c.bytes), c.lba)
      BY <2>1 DEF CallChs, StdVerdict
    <3>2. c.bytes \in ChsBytes /\ c.lba \in Nat
      BY ArgumentsAssumption
    <3>3. /\ result' = "Inconsistent" <=>
               c.bytes \notin {<<0, 0, 0>>} \cup Markers \cup Written(c.lba)
          /\ result' = "Unused" <=> c.bytes = <<0, 0, 0>>
      BY <3>1, <3>2, VerdictExact
    <3> QED
      BY <3>1, <3>3 DEF ChsVerdictIsExact, Written
  <2>2. CASE UNCHANGED vars
    BY <2>2 DEF vars, ChsVerdictIsExact
  <2>3. CASE CallClassify \/ CallCarve \/ CallStrings \/ CallCollisions \/ CallDetect
    BY <2>3 DEF CallClassify, CallCarve, CallStrings, CallCollisions, CallDetect,
                ChsVerdictIsExact
  <2> QED
    BY <2>1, <2>2, <2>3 DEF Next
<1> QED
  BY <1>1, <1>2, PTL DEF Spec

-----------------------------------------------------------------------------
(* Carving. *)

\* The window of data at n is the magic exactly when the magic occurs there.
LEMMA WindowOccurs ==
  ASSUME NEW data \in Seq(Nat), NEW m \in Seq(Nat), m # <<>>,
         NEW n \in 1..(Len(data) - Len(m) + 1)
  PROVE  SubSeq(data, n, n + Len(m) - 1) = m <=> OccursAt(m, data, n - 1)
<1> DEFINE w == SubSeq(data, n, n + Len(m) - 1)
           L == Len(m)
<1>1. L \in Nat \ {0} /\ Len(data) \in Nat /\ n \in Nat \ {0} /\ n + L - 1 <= Len(data)
  OBVIOUS
<1>2. w \in Seq(Nat) /\ Len(w) = L
  BY <1>1
<1>3. \A k \in 1..L : w[k] = data[(n - 1) + k]
  <2> TAKE k \in 1..L
  <2>1. w[k] = data[n + k - 1]
    BY <1>1
  <2>2. n + k - 1 = (n - 1) + k
    BY <1>1
  <2> QED
    BY <2>1, <2>2
<1> HIDE DEF w
<1>4. w = m <=> \A k \in 1..L : w[k] = m[k]
  BY <1>1, <1>2, SeqEqual
<1>5. (n - 1) + L <= Len(data)
  BY <1>1
<1> QED
  BY <1>3, <1>4, <1>5 DEF OccursAt, w

\* r lists the places below w where m occurs, ascending.
Occurrences(r, m, data, w) ==
    /\ r \in Seq(Nat)
    /\ \A k \in 1..Len(r) : r[k] < w /\ OccursAt(m, data, r[k])
    /\ \A p \in 0..(w - 1) : OccursAt(m, data, p) => \E k \in 1..Len(r) : r[k] = p
    /\ \A j, k \in 1..Len(r) : j < k => r[j] < r[k]

\* One window more.
LEMMA OneWindow ==
  ASSUME NEW data, NEW m, NEW w \in Nat, NEW r, Occurrences(r, m, data, w)
  PROVE  /\ OccursAt(m, data, w) => Occurrences(Append(r, w), m, data, w + 1)
         /\ ~OccursAt(m, data, w) => Occurrences(r, m, data, w + 1)
<1>1. r \in Seq(Nat) /\ Len(r) \in Nat /\ \A k \in 1..Len(r) : r[k] \in Nat
  BY DEF Occurrences
<1>2. \A p \in 0..((w + 1) - 1) : p = w \/ p \in 0..(w - 1)
  OBVIOUS
<1>3. ASSUME OccursAt(m, data, w) PROVE Occurrences(Append(r, w), m, data, w + 1)
  <2> DEFINE q == Append(r, w)
  <2>1. /\ q \in Seq(Nat) /\ Len(q) = Len(r) + 1 /\ q[Len(r) + 1] = w
        /\ \A k \in 1..Len(r) : q[k] = r[k]
    BY <1>1
  <2>2. \A k \in 1..Len(q) : k \in 1..Len(r) \/ k = Len(r) + 1
    BY <1>1, <2>1
  <2> HIDE DEF q
  <2>3. \A k \in 1..Len(q) : q[k] < w + 1 /\ OccursAt(m, data, q[k])
    <3> TAKE k \in 1..Len(q)
    <3>1. CASE k \in 1..Len(r)
      <4>1. q[k] = r[k] /\ r[k] \in Nat /\ r[k] < w /\ OccursAt(m, data, r[k])
        BY <1>1, <2>1, <3>1 DEF Occurrences
      <4> QED
        BY <4>1
    <3>2. CASE k = Len(r) + 1
      <4>1. q[k] = w
        BY <2>1, <3>2
      <4> QED
        BY <1>3, <4>1
    <3> QED
      BY <2>2, <3>1, <3>2
  <2>4. ASSUME NEW p \in 0..((w + 1) - 1), OccursAt(m, data, p)
        PROVE  \E k \in 1..Len(q) : q[k] = p
    <3>1. CASE p = w
      <4>1. Len(r) + 1 \in 1..Len(q)
        BY <1>1, <2>1
      <4> QED
        BY <2>1, <3>1, <4>1
    <3>2. CASE p \in 0..(w - 1)
      <4>1. PICK k \in 1..Len(r) : r[k] = p
        BY <2>4, <3>2 DEF Occurrences
      <4>2. k \in 1..Len(q) /\ q[k] = p
        BY <1>1, <2>1, <4>1
      <4> QED
        BY <4>2
    <3> QED
      BY <1>2, <3>1, <3>2
  <2>5. ASSUME NEW j \in 1..Len(q), NEW k \in 1..Len(q), j < k
        PROVE  q[j] < q[k]
    <3>1. j \in 1..Len(r)
      BY <1>1, <2>1, <2>5
    <3>2. CASE k \in 1..Len(r)
      BY <2>1, <2>5, <3>1, <3>2 DEF Occurrences
    <3>3. CASE k = Len(r) + 1
      BY <2>1, <3>1, <3>3 DEF Occurrences
    <3> QED
      BY <2>2, <3>2, <3>3
  <2>6. Occurrences(q, m, data, w + 1)
    BY <2>1, <2>3, <2>4, <2>5 DEF Occurrences
  <2> QED
    BY <2>6 DEF q
<1>4. ASSUME ~OccursAt(m, data, w) PROVE Occurrences(r, m, data, w + 1)
  <2>1. \A k \in 1..Len(r) : r[k] < w + 1 /\ OccursAt(m, data, r[k])
    BY <1>1 DEF Occurrences
  <2>2. \A p \in 0..((w + 1) - 1) : OccursAt(m, data, p) => \E k \in 1..Len(r) : r[k] = p
    BY <1>2, <1>4 DEF Occurrences
  <2> QED
    BY <2>1, <2>2 DEF Occurrences
<1> QED
  BY <1>3, <1>4

\* The matches are the occurrences, all of them.
LEMMA MatchesExact ==
  ASSUME NEW data \in Seq(Nat), NEW m \in Seq(Nat)
  PROVE  Occurrences(Matches(m, data), m, data, Len(data) + 1)
<1>0. Len(data) \in Nat /\ Len(m) \in Nat
  OBVIOUS
<1>1. CASE TooLong(m, data)
  <2>1. Matches(m, data) = <<>>
    BY <1>1 DEF Matches
  <2>2. \A p \in 0..((Len(data) + 1) - 1) : ~OccursAt(m, data, p)
    BY <1>0, <1>1 DEF TooLong, OccursAt
  <2>3. <<>> \in Seq(Nat) /\ Len(<<>>) = 0
    OBVIOUS
  <2> QED
    BY <2>1, <2>2, <2>3 DEF Occurrences
<1>2. CASE ~TooLong(m, data)
  <2> DEFINE W == Len(data) - Len(m) + 1
  <2>1. W \in Nat /\ W <= Len(data) /\ Len(m) \in Nat \ {0}
    BY <1>0, <1>2, MatchesRec
  <2>2. PICK found :
          /\ Matches(m, data) = found[W]
          /\ found[0] = <<>>
          /\ \A n \in 1..W : found[n] = IF SubSeq(data, n, n + Len(m) - 1) = m
                                        THEN Append(found[n - 1], n - 1)
                                        ELSE found[n - 1]
    BY <1>0, <1>2, MatchesRec
  <2>3. \A n \in 1..W : found[n] = IF OccursAt(m, data, n - 1)
                                   THEN Append(found[n - 1], n - 1) ELSE found[n - 1]
    BY <1>2, <2>2, WindowOccurs DEF TooLong
  <2> DEFINE S == { w \in Nat : w <= W => Occurrences(found[w], m, data, w) }
  <2> HIDE DEF W
  <2>4. 0 \in S
    <3>1. <<>> \in Seq(Nat) /\ Len(<<>>) = 0
      OBVIOUS
    <3>2. Occurrences(found[0], m, data, 0)
      BY <2>2, <3>1 DEF Occurrences
    <3> QED
      BY <3>2
  <2>5. ASSUME NEW w \in Nat, w \in S PROVE w + 1 \in S
    <3> SUFFICES ASSUME w + 1 <= W PROVE Occurrences(found[w + 1], m, data, w + 1)
      OBVIOUS
    <3>1. w + 1 \in 1..W /\ (w + 1) - 1 = w /\ Occurrences(found[w], m, data, w)
      BY <2>1, <2>5
    <3>2. found[w + 1] = IF OccursAt(m, data, w) THEN Append(found[w], w) ELSE found[w]
      BY <2>3, <3>1
    <3> QED
      BY <3>1, <3>2, OneWindow
  <2> HIDE DEF S
  <2>6. W \in S
    BY <2>1, <2>4, <2>5, NatInductionOnSets
  <2>7. Occurrences(Matches(m, data), m, data, W)
    BY <2>1, <2>2, <2>6 DEF S
  <2>8. \A p \in 0..((Len(data) + 1) - 1) : OccursAt(m, data, p) => p \in 0..(W - 1)
    BY <1>0, <2>1 DEF OccursAt, W
  <2>9. W <= Len(data) + 1
    BY <1>0, <2>1
  <2> DEFINE r == Matches(m, data)
  <2> HIDE DEF r
  <2>10. r \in Seq(Nat) /\ \A k \in 1..Len(r) : r[k] \in Nat
    BY <2>7 DEF Occurrences, r
  <2>11. \A k \in 1..Len(r) : r[k] < Len(data) + 1 /\ OccursAt(m, data, r[k])
    BY <1>0, <2>1, <2>7, <2>9, <2>10 DEF Occurrences, r
  <2>12. \A p \in 0..((Len(data) + 1) - 1) :
           OccursAt(m, data, p) => \E k \in 1..Len(r) : r[k] = p
    BY <2>7, <2>8 DEF Occurrences, r
  <2>13. \A j, k \in 1..Len(r) : j < k => r[j] < r[k]
    BY <2>7 DEF Occurrences, r
  <2>14. Occurrences(r, m, data, Len(data) + 1)
    BY <2>10, <2>11, <2>12, <2>13 DEF Occurrences
  <2> QED
    BY <2>14 DEF r
<1> QED
  BY <1>1, <1>2

\* The places of the first w sequences of s, and a numbering of them by the
\* places of the sequence u.
Places(s, w) == { x \in (1..w) \X Nat : x[2] \in 1..Len(s[x[1]]) }
Numbering(f, s, w, u) ==
    /\ f \in [Places(s, w) -> 1..Len(u)]
    /\ \A x, y \in Places(s, w) : f[x] = f[y] => x = y
    /\ \A k \in 1..Len(u) : \E x \in Places(s, w) : f[x] = k
    /\ \A x \in Places(s, w) : u[f[x]] = s[x[1]][x[2]]

\* One sequence more is numbered behind the others.
LEMMA NumberOneMore ==
  ASSUME NEW T, NEW s, NEW w \in Nat, NEW u \in Seq(T), s[w + 1] \in Seq(T),
         NEW f, Numbering(f, s, w, u)
  PROVE  \E g : Numbering(g, s, w + 1, u \o s[w + 1])
<1> DEFINE v == s[w + 1]
           P == Places(s, w)
           Q == Places(s, w + 1)
           z == u \o v
           g == [x \in Q |-> IF x[1] = w + 1 THEN Len(u) + x[2] ELSE f[x]]
<1>1. Len(u) \in Nat /\ Len(v) \in Nat
  OBVIOUS
<1>2. /\ Len(z) = Len(u) + Len(v)
      /\ \A k \in 1..Len(u) : z[k] = u[k]
      /\ \A k \in 1..Len(v) : z[Len(u) + k] = v[k]
  <2>1. v \in Seq(T)
    OBVIOUS
  <2> HIDE DEF v
  <2> QED
    BY <1>1, <2>1
<1>3. \A x : x \in P <=> x \in Q /\ x[1] # w + 1
  <2> TAKE x
  <2>1. ASSUME x \in P PROVE x \in Q /\ x[1] # w + 1
    BY <2>1 DEF Places
  <2>2. ASSUME x \in Q, x[1] # w + 1 PROVE x \in P
    <3>1. x \in (1..(w + 1)) \X Nat /\ x[2] \in 1..Len(s[x[1]])
      BY <2>2 DEF Places
    <3>2. x[1] \in 1..w /\ x[2] \in Nat /\ x = <<x[1], x[2]>>
      BY <2>2, <3>1
    <3> QED
      BY <3>1, <3>2 DEF Places
  <2> QED
    BY <2>1, <2>2
<1>4. \A x \in Q : x = <<x[1], x[2]>> /\ x[2] \in Nat /\ (x[1] = w + 1 => x[2] \in 1..Len(v))
  BY DEF Places
<1>5. \A k \in 1..Len(v) : <<w + 1, k>> \in Q
  <2> TAKE k \in 1..Len(v)
  <2>1. <<w + 1, k>> \in (1..(w + 1)) \X Nat
    BY <1>1
  <2> QED
    BY <2>1 DEF Places
<1> HIDE DEF v, z, P, Q
<1>6. /\ \A x \in P : f[x] \in 1..Len(u) /\ u[f[x]] = s[x[1]][x[2]]
      /\ \A x, y \in P : f[x] = f[y] => x = y
      /\ \A k \in 1..Len(u) : \E x \in P : f[x] = k
  BY DEF Numbering, P
<1>7. \A x \in Q : g[x] = IF x \in P THEN f[x] ELSE Len(u) + x[2]
  BY <1>3
<1>8. \A x \in Q : x \notin P => x[1] = w + 1 /\ x[2] \in 1..Len(v)
  BY <1>3, <1>4
<1>9. g \in [Q -> 1..Len(z)]
  <2>1. ASSUME NEW x \in Q PROVE g[x] \in 1..Len(z)
    <3>1. CASE x \in P
      <4>1. g[x] = f[x] /\ f[x] \in 1..Len(u)
        BY <1>6, <1>7, <3>1
      <4> QED
        BY <1>1, <1>2, <4>1
    <3>2. CASE x \notin P
      <4>1. g[x] = Len(u) + x[2] /\ x[2] \in 1..Len(v)
        BY <1>7, <1>8, <3>2
      <4> QED
        BY <1>1, <1>2, <4>1
    <3> QED
      BY <3>1, <3>2
  <2>2. g = [x \in Q |-> g[x]]
    OBVIOUS
  <2> HIDE DEF g
  <2> QED
    BY <2>1, <2>2
<1> HIDE DEF g
<1>10. ASSUME NEW x \in Q, NEW y \in Q, g[x] = g[y] PROVE x = y
  <2>1. CASE x \in P /\ y \in P
    BY <1>6, <1>7, <1>10, <2>1
  <2>2. CASE x \in P /\ y \notin P
    <3>1. g[x] \in 1..Len(u) /\ g[y] = Len(u) + y[2] /\ y[2] \in 1..Len(v)
      BY <1>6, <1>7, <1>8, <2>2
    <3> QED
      BY <1>1, <1>10, <3>1
  <2>3. CASE x \notin P /\ y \in P
    <3>1. g[y] \in 1..Len(u) /\ g[x] = Len(u) + x[2] /\ x[2] \in 1..Len(v)
      BY <1>6, <1>7, <1>8, <2>3
    <3> QED
      BY <1>1, <1>10, <3>1
  <2>4. CASE x \notin P /\ y \notin P
    <3>1. /\ x[1] = w + 1 /\ y[1] = w + 1 /\ x[2] \in Nat /\ y[2] \in Nat
          /\ g[x] = Len(u) + x[2] /\ g[y] = Len(u) + y[2]
      BY <1>4, <1>7, <1>8, <2>4
    <3>2. \A a, b, c \in Nat : c + a = c + b => a = b
      OBVIOUS
    <3>3. x[2] = y[2]
      BY <1>1, <1>10, <3>1, <3>2, Zenon
    <3> QED
      BY <1>4, <3>1, <3>3, Zenon
  <2> QED
    BY <2>1, <2>2, <2>3, <2>4
<1>11. ASSUME NEW k \in 1..Len(z) PROVE \E x \in Q : g[x] = k
  <2>1. CASE k <= Len(u)
    <3>1. k \in 1..Len(u)
      BY <1>1, <1>2, <2>1
    <3>2. PICK x \in P : f[x] = k
      BY <1>6, <3>1
    <3>3. x \in Q /\ g[x] = k
      BY <1>3, <1>7, <3>2
    <3> QED
      BY <3>3
  <2>2. CASE k > Len(u)
    <3> DEFINE x == <<w + 1, k - Len(u)>>
    <3>1. k - Len(u) \in 1..Len(v) /\ Len(u) + (k - Len(u)) = k
      BY <1>1, <1>2, <2>2
    <3>2. x \in Q /\ x[1] = w + 1 /\ x[2] = k - Len(u)
      BY <1>5, <3>1
    <3> HIDE DEF x
    <3>3. x \notin P
      BY <1>3, <3>2
    <3>4. g[x] = k
      BY <1>7, <3>1, <3>2, <3>3
    <3> QED
      BY <3>2, <3>4
  <2> QED
    BY <1>1, <1>2, <2>1, <2>2
<1>12. ASSUME NEW x \in Q PROVE z[g[x]] = s[x[1]][x[2]]
  <2>1. CASE x \in P
    BY <1>2, <1>6, <1>7, <2>1
  <2>2. CASE x \notin P
    <3>1. x[1] = w + 1 /\ x[2] \in 1..Len(v) /\ g[x] = Len(u) + x[2]
      BY <1>7, <1>8, <2>2
    <3>2. z[g[x]] = v[x[2]]
      BY <1>2, <3>1
    <3> QED
      BY <3>1, <3>2 DEF v
  <2> QED
    BY <2>1, <2>2
<1>13. Numbering(g, s, w + 1, z)
  BY <1>9, <1>10, <1>11, <1>12 DEF Numbering, Q
<1> QED
  BY <1>13 DEF z, v

\* The places of a flattened sequence are those of its parts.
LEMMA FlattenNumbering ==
  ASSUME NEW T, NEW s \in Seq(Seq(T))
  PROVE  \E f : Numbering(f, s, Len(s), FlattenSeq(s))
<1>1. Places(s, 0) = {}
  BY DEF Places
<1> DEFINE e == [x \in {} |-> 0]
<1>2. Numbering(e, s, 0, <<>>)
  <2>1. 1..Len(<<>>) = {}
    OBVIOUS
  <2>2. e \in [{} -> 1..Len(<<>>)]
    OBVIOUS
  <2> HIDE DEF e
  <2> QED
    BY <1>1, <2>1, <2>2 DEF Numbering
<1> HIDE DEF e
<1>3. Len(s) \in Nat /\ \A n \in 1..Len(s) : s[n] \in Seq(T)
  OBVIOUS
<1>4. CASE Len(s) = 0
  <2>1. FlattenSeq(s) = <<>>
    BY <1>4 DEF FlattenSeq
  <2> QED
    BY <1>2, <1>4, <2>1
<1>5. CASE Len(s) # 0
  <2>1. PICK flat : /\ FlattenSeq(s) = flat[Len(s)]
                    /\ flat[1] = s[1]
                    /\ \A n \in 2..Len(s) : flat[n] = flat[n - 1] \o s[n]
    BY <1>5, FlattenRec
  <2> DEFINE S == { w \in Nat : w + 1 \in 1..Len(s) =>
                      /\ flat[w + 1] \in Seq(T)
                      /\ \E f : Numbering(f, s, w + 1, flat[w + 1]) }
  <2>2. 0 \in S
    <3>1. s[0 + 1] \in Seq(T) /\ <<>> \in Seq(T) /\ flat[0 + 1] = s[0 + 1]
      BY <1>3, <1>5, <2>1
    <3>2. \E g : Numbering(g, s, 0 + 1, <<>> \o s[0 + 1])
      BY <1>2, <3>1, NumberOneMore
    <3>3. <<>> \o s[0 + 1] = s[0 + 1]
      BY <3>1
    <3> QED
      BY <3>1, <3>2, <3>3
  <2>3. ASSUME NEW w \in Nat, w \in S PROVE w + 1 \in S
    <3> SUFFICES ASSUME (w + 1) + 1 \in 1..Len(s)
                 PROVE  /\ flat[(w + 1) + 1] \in Seq(T)
                        /\ \E f : Numbering(f, s, (w + 1) + 1, flat[(w + 1) + 1])
      OBVIOUS
    <3>1. w + 1 \in 1..Len(s) /\ (w + 1) + 1 \in 2..Len(s) /\ ((w + 1) + 1) - 1 = w + 1
      BY <1>3
    <3>2. /\ flat[w + 1] \in Seq(T) /\ s[(w + 1) + 1] \in Seq(T)
          /\ flat[(w + 1) + 1] = flat[w + 1] \o s[(w + 1) + 1]
      BY <1>3, <2>1, <2>3, <3>1
    <3>3. PICK f : Numbering(f, s, w + 1, flat[w + 1])
      BY <2>3, <3>1
    <3>4. \E g : Numbering(g, s, (w + 1) + 1, flat[w + 1] \o s[(w + 1) + 1])
      BY <3>2, <3>3, NumberOneMore
    <3> QED
      BY <3>2, <3>4
  <2> HIDE DEF S
  <2>4. Len(s) - 1 \in S
    <3>1. Len(s) - 1 \in Nat
      BY <1>3, <1>5
    <3> QED
      BY <2>2, <2>3, <3>1, NatInductionOnSets
  <2>5. (Len(s) - 1) + 1 = Len(s) /\ Len(s) \in 1..Len(s)
    BY <1>3, <1>5
  <2> QED
    BY <2>1, <2>4, <2>5 DEF S
<1> QED
  BY <1>4, <1>5

\* The magics that stand in the data, with where each stands, and the one that
\* a place of the matches is for.
Hits(data) == { h \in (1..Len(FILE_MAGICS)) \X (0..Len(data)) :
                  OccursAt(FILE_MAGICS[h[1]].magic, data, h[2]) }
HitOf(data, x) == <<x[1], Matches(FILE_MAGICS[x[1]].magic, data)[x[2]]>>

\* Every hit has exactly one place among the matches, with its kind and offset.
LEMMA HitsHavePlaces ==
  ASSUME NEW data \in Seq(Nat), NEW base \in Nat
  PROVE  LET parts == Parts(data, base)
             P == Places(parts, Len(FILE_MAGICS))
         IN  /\ \A x \in P : HitOf(data, x) \in Hits(data)
             /\ \A x, y \in P : HitOf(data, x) = HitOf(data, y) => x = y
             /\ \A h \in Hits(data) : \E x \in P : HitOf(data, x) = h
             /\ \A x \in P : /\ parts[x[1]][x[2]].kind = FILE_MAGICS[x[1]].kind
                             /\ parts[x[1]][x[2]].offset = base + HitOf(data, x)[2]
<1> DEFINE N == Len(FILE_MAGICS)
           parts == Parts(data, base)
           P == Places(parts, N)
           M(n) == Matches(FILE_MAGICS[n].magic, data)
<1>1. Len(data) \in Nat
  OBVIOUS
<1>2. N \in Nat /\ \A n \in 1..N : FILE_MAGICS[n].magic \in Seq(Nat)
  BY <1>1, CarvedTypes
<1>3. \A n \in 1..N : Occurrences(M(n), FILE_MAGICS[n].magic, data, Len(data) + 1)
  BY <1>2, MatchesExact
<1>4. ASSUME NEW n \in 1..N
      PROVE  /\ M(n) \in Seq(Nat) /\ Len(M(n)) \in Nat
             /\ Len(parts[n]) = Len(M(n))
             /\ \A k \in 1..Len(M(n)) : /\ parts[n][k].kind = FILE_MAGICS[n].kind
                                        /\ parts[n][k].offset = base + M(n)[k]
  <2> DEFINE hits == M(n)
  <2>1. hits \in Seq(Nat)
    BY <1>3 DEF Occurrences
  <2>2. parts[n] = [k \in 1..Len(hits) |->
                      [kind |-> FILE_MAGICS[n].kind, offset |-> base + hits[k]]]
    BY DEF Parts, CarvedFile
  <2> HIDE DEF hits, parts
  <2>3. Len(hits) \in Nat
    BY <2>1
  <2>4. /\ Len(parts[n]) = Len(hits)
        /\ \A k \in 1..Len(hits) : /\ parts[n][k].kind = FILE_MAGICS[n].kind
                                   /\ parts[n][k].offset = base + hits[k]
    BY <2>2, <2>3
  <2> QED
    BY <2>1, <2>3, <2>4 DEF hits
<1>5. \A x : x \in P <=> x \in (1..N) \X Nat /\ x[2] \in 1..Len(M(x[1]))
  <2> TAKE x
  <2>1. x \in (1..N) \X Nat => Len(parts[x[1]]) = Len(M(x[1]))
    BY <1>4
  <2> HIDE DEF M, parts, N
  <2> QED
    BY <2>1 DEF Places
<1>6. ASSUME NEW n \in 1..N
      PROVE  /\ \A k \in 1..Len(M(n)) : M(n)[k] \in 0..Len(data)
                                        /\ OccursAt(FILE_MAGICS[n].magic, data, M(n)[k])
             /\ \A p \in 0..Len(data) : OccursAt(FILE_MAGICS[n].magic, data, p) =>
                  \E k \in 1..Len(M(n)) : M(n)[k] = p
             /\ \A j, k \in 1..Len(M(n)) : M(n)[j] = M(n)[k] => j = k
  <2> DEFINE r == M(n)
  <2>1. Occurrences(r, FILE_MAGICS[n].magic, data, Len(data) + 1)
    BY <1>3
  <2>2. r \in Seq(Nat) /\ Len(r) \in Nat
    BY <1>4
  <2> HIDE DEF r
  <2>3. \A k \in 1..Len(r) : r[k] \in Nat
    BY <2>2
  <2>4. \A k \in 1..Len(r) : r[k] \in 0..Len(data) /\ OccursAt(FILE_MAGICS[n].magic, data, r[k])
    BY <1>1, <2>1, <2>3 DEF Occurrences
  <2>5. \A p \in 0..Len(data) : OccursAt(FILE_MAGICS[n].magic, data, p) =>
          \E k \in 1..Len(r) : r[k] = p
    <3>1. 0..Len(data) = 0..((Len(data) + 1) - 1)
      BY <1>1
    <3> QED
      BY <2>1, <3>1, Zenon DEF Occurrences
  <2>6. \A j, k \in 1..Len(r) : r[j] = r[k] => j = k
    <3>1. \A j, k \in 1..Len(r) : j < k => r[j] < r[k]
      BY <2>1 DEF Occurrences
    <3> QED
      BY <2>2, <2>3, <3>1
  <2> QED
    BY <2>4, <2>5, <2>6 DEF r
<1>7. \A x \in P : x[1] \in 1..N /\ x[2] \in 1..Len(M(x[1])) /\ x = <<x[1], x[2]>>
  BY <1>5
<1> HIDE DEF P, N
<1>8. \A x : HitOf(data, x) = <<x[1], M(x[1])[x[2]]>>
  BY DEF HitOf
<1>9. \A h : h \in Hits(data) <=> /\ h \in (1..N) \X (0..Len(data))
                                  /\ OccursAt(FILE_MAGICS[h[1]].magic, data, h[2])
  BY DEF Hits, N
<1> HIDE DEF M, parts
<1>10. ASSUME NEW x \in P PROVE HitOf(data, x) \in Hits(data)
  <2> DEFINE p == M(x[1])[x[2]]
  <2>1. p \in 0..Len(data) /\ OccursAt(FILE_MAGICS[x[1]].magic, data, p) /\ x[1] \in 1..N
    BY <1>6, <1>7
  <2> HIDE DEF p
  <2>2. <<x[1], p>> \in Hits(data)
    BY <1>9, <2>1
  <2> QED
    BY <1>8, <2>2 DEF p
<1>11. ASSUME NEW x \in P, NEW y \in P, HitOf(data, x) = HitOf(data, y) PROVE x = y
  <2>1. <<x[1], M(x[1])[x[2]]>> = <<y[1], M(y[1])[y[2]]>>
    BY <1>8, <1>11
  <2>2. x[1] = y[1] /\ M(x[1])[x[2]] = M(y[1])[y[2]]
    BY <2>1
  <2>3. x[2] = y[2]
    BY <1>6, <1>7, <2>2
  <2> QED
    BY <1>7, <2>2, <2>3, Zenon
<1>12. ASSUME NEW h \in Hits(data) PROVE \E x \in P : HitOf(data, x) = h
  <2>1. /\ h[1] \in 1..N /\ h[2] \in 0..Len(data) /\ h = <<h[1], h[2]>>
        /\ OccursAt(FILE_MAGICS[h[1]].magic, data, h[2])
    BY <1>9
  <2>2. PICK k \in 1..Len(M(h[1])) : M(h[1])[k] = h[2]
    BY <1>6, <2>1
  <2> DEFINE x == <<h[1], k>>
  <2>3. x[1] = h[1] /\ x[2] = k
    OBVIOUS
  <2>4. k \in Nat
    BY <1>4, <2>1
  <2>5. x \in (1..N) \X Nat
    BY <2>1, <2>4
  <2> HIDE DEF x
  <2>6. x \in P
    BY <1>5, <2>2, <2>3, <2>5
  <2>7. HitOf(data, x) = h
    BY <1>8, <2>1, <2>2, <2>3
  <2> QED
    BY <2>6, <2>7
<1>13. ASSUME NEW x \in P
       PROVE  /\ parts[x[1]][x[2]].kind = FILE_MAGICS[x[1]].kind
              /\ parts[x[1]][x[2]].offset = base + HitOf(data, x)[2]
  <2> DEFINE p == M(x[1])[x[2]]
  <2>1. HitOf(data, x) = <<x[1], p>>
    BY <1>8
  <2>2. /\ parts[x[1]][x[2]].kind = FILE_MAGICS[x[1]].kind
        /\ parts[x[1]][x[2]].offset = base + p
    BY <1>4, <1>7
  <2> HIDE DEF p
  <2> QED
    BY <2>1, <2>2
<1> QED
  BY <1>10, <1>11, <1>12, <1>13 DEF P, parts, N

\* What carve delivers: as many files as there are hits, one for each, ascending.
LEMMA CarveExact ==
  ASSUME NEW data \in Seq(Nat), NEW base \in Nat
  PROVE  LET files == CarveFiles(data, base)
         IN  /\ Len(files) = Cardinality(Hits(data))
             /\ \A n \in 1..Len(files) : \E h \in Hits(data) :
                  <<files[n].kind, files[n].offset>> = <<FILE_MAGICS[h[1]].kind, base + h[2]>>
             /\ \A h \in Hits(data) : \E n \in 1..Len(files) :
                  <<files[n].kind, files[n].offset>> = <<FILE_MAGICS[h[1]].kind, base + h[2]>>
             /\ \A n \in 1..(Len(files) - 1) : files[n].offset <= files[n + 1].offset
<1> DEFINE N == Len(FILE_MAGICS)
           parts == Parts(data, base)
           P == Places(parts, N)
           out == Carved(data, base)
           H == Hits(data)
           files == CarveFiles(data, base)
           Same(file, h) == <<file.kind, file.offset>> = <<FILE_MAGICS[h[1]].kind, base + h[2]>>
<1>1. Len(data) \in Nat
  OBVIOUS
<1>2. PICK perm \in [1..Len(out) -> 1..Len(out)] :
        /\ files = [n \in 1..Len(out) |-> out[perm[n]]]
        /\ \A j \in 1..Len(out) : \E k \in 1..Len(out) : perm[k] = j
        /\ \A k, l \in 1..Len(out) : k < l => out[perm[k]].offset <= out[perm[l]].offset
  BY <1>1, CarvedSorted
<1>3. Len(out) \in Nat
  BY <1>1, CarvedTypes
<1>4. /\ \A x \in P : HitOf(data, x) \in H
      /\ \A x, y \in P : HitOf(data, x) = HitOf(data, y) => x = y
      /\ \A h \in H : \E x \in P : HitOf(data, x) = h
      /\ \A x \in P : /\ parts[x[1]][x[2]].kind = FILE_MAGICS[x[1]].kind
                      /\ parts[x[1]][x[2]].offset = base + HitOf(data, x)[2]
  BY HitsHavePlaces
<1>5. PICK f : Numbering(f, parts, N, out)
  <2>1. parts \in Seq(Seq(Inside(data, base))) /\ N \in Nat
    BY <1>1, CarvedTypes
  <2>2. Len(parts) = N
    BY <2>1 DEF Parts
  <2>3. \E f : Numbering(f, parts, Len(parts), FlattenSeq(parts))
    BY <2>1, FlattenNumbering
  <2> QED
    BY <2>2, <2>3 DEF Carved
<1> HIDE DEF N, parts, out, H, files
<1>6. /\ f \in [P -> 1..Len(out)]
      /\ \A x, y \in P : f[x] = f[y] => x = y
      /\ \A k \in 1..Len(out) : \E x \in P : f[x] = k
      /\ \A x \in P : out[f[x]] = parts[x[1]][x[2]]
  BY <1>5 DEF Numbering
<1> HIDE DEF P
<1>7. Len(out) = Cardinality(H)
  <2> DEFINE hit == [x \in P |-> HitOf(data, x)]
  <2>1. f \in Bijection(P, 1..Len(out))
    BY <1>6, Fun_IsBij, Zenon
  <2>2. hit \in [P -> H] /\ \A x \in P : hit[x] = HitOf(data, x)
    BY <1>4
  <2> HIDE DEF hit
  <2>3. hit \in Bijection(P, H)
    <3>1. \A x, y \in P : hit[x] = hit[y] => x = y
      BY <1>4, <2>2
    <3>2. ASSUME NEW h \in H PROVE \E x \in P : hit[x] = h
      <4>1. PICK x \in P : HitOf(data, x) = h
        BY <1>4
      <4> QED
        BY <2>2, <4>1
    <3> QED
      BY <2>2, <3>1, <3>2, Fun_IsBij, Zenon
  <2>4. ExistsBijection(P, 1..Len(out)) /\ ExistsBijection(P, H)
    BY <2>1, <2>3 DEF ExistsBijection
  <2>5. ExistsBijection(1..Len(out), H)
    BY <2>4, Fun_ExistsBijSymmetric, Fun_ExistsBijTransitive, Zenon
  <2>6. IsFiniteSet(1..Len(out)) /\ Cardinality(1..Len(out)) = Len(out)
    <3>1. 1 \in Int /\ Len(out) \in Int
      BY <1>3
    <3>2. /\ IsFiniteSet(1..Len(out))
          /\ Cardinality(1..Len(out)) = IF 1 > Len(out) THEN 0 ELSE Len(out) - 1 + 1
      BY <3>1, FS_Interval, Zenon
    <3> QED
      BY <1>3, <3>2
  <2> QED
    BY <2>5, <2>6, FS_Bijection, Zenon
<1>8. Len(files) = Len(out) /\ \A n \in 1..Len(out) : files[n] = out[perm[n]]
  BY <1>2, <1>3
<1>9. \A x \in P : Same(out[f[x]], HitOf(data, x))
  <2> TAKE x \in P
  <2>1. HitOf(data, x)[1] = x[1]
    BY DEF HitOf
  <2>2. out[f[x]].kind = FILE_MAGICS[HitOf(data, x)[1]].kind
        /\ out[f[x]].offset = base + HitOf(data, x)[2]
    BY <1>4, <1>6, <2>1, Zenon
  <2> QED
    BY <2>2, Zenon
<1> HIDE DEF Same
<1>10. ASSUME NEW n \in 1..Len(out) PROVE \E h \in H : Same(files[n], h)
  <2>1. perm[n] \in 1..Len(out)
    BY <1>2
  <2>2. PICK x \in P : f[x] = perm[n]
    BY <1>6, <2>1
  <2>3. Same(files[n], HitOf(data, x))
    BY <1>8, <1>9, <2>2, Zenon
  <2> QED
    BY <1>4, <2>3
<1>11. ASSUME NEW h \in H PROVE \E n \in 1..Len(out) : Same(files[n], h)
  <2>1. PICK x \in P : HitOf(data, x) = h
    BY <1>4
  <2>2. f[x] \in 1..Len(out)
    BY <1>6
  <2>3. PICK n \in 1..Len(out) : perm[n] = f[x]
    BY <1>2, <2>2
  <2>4. Same(files[n], h)
    BY <1>8, <1>9, <2>1, <2>3, Zenon
  <2> QED
    BY <2>4
<1>12. ASSUME NEW n \in 1..(Len(out) - 1) PROVE files[n].offset <= files[n + 1].offset
  <2>1. n \in 1..Len(out) /\ n + 1 \in 1..Len(out) /\ n < n + 1
    BY <1>3
  <2> QED
    BY <1>2, <1>8, <2>1
<1> QED
  BY <1>7, <1>8, <1>10, <1>11, <1>12 DEF H, files, Same

\* The files told of are the hits in the data.
AreTheHits(files, data, base) ==
    /\ Len(files) = Cardinality(Hits(data))
    /\ { <<r.kind, r.offset>> : r \in { files[n] : n \in 1..Len(files) } }
         = { <<FILE_MAGICS[h[1]].kind, base + h[2]>> : h \in Hits(data) }
    /\ \A n \in 1..(Len(files) - 1) : files[n].offset <= files[n + 1].offset

\* carve reports every occurrence of every magic of the table, each once, at
\* its absolute offset and in ascending order, for every region and table.
THEOREM CarveIsExact == Spec => []CarveFindsEveryHeader
<1>1. Init => CarveFindsEveryHeader
  BY DEF Init, CarveFindsEveryHeader
<1>2. CarveFindsEveryHeader /\ [Next]_vars => CarveFindsEveryHeader'
  <2> SUFFICES ASSUME CarveFindsEveryHeader, [Next]_vars PROVE CarveFindsEveryHeader'
    OBVIOUS
  <2>1. CASE CallCarve
    <3>1. PICK data \in Regions, base \in Bases :
            /\ args' = [data |-> data, base |-> base]
            /\ result' = CarveFiles(data, base)
      BY <2>1 DEF CallCarve
    <3>2. data \in Seq(Nat) /\ base \in Nat /\ args'.data = data /\ args'.base = base
      BY <3>1, ArgumentsAssumption
    <3> DEFINE files == CarveFiles(data, base)
    <3>3. /\ Len(files) = Cardinality(Hits(data))
          /\ \A n \in 1..Len(files) : \E h \in Hits(data) :
               <<files[n].kind, files[n].offset>> = <<FILE_MAGICS[h[1]].kind, base + h[2]>>
          /\ \A h \in Hits(data) : \E n \in 1..Len(files) :
               <<files[n].kind, files[n].offset>> = <<FILE_MAGICS[h[1]].kind, base + h[2]>>
          /\ \A n \in 1..(Len(files) - 1) : files[n].offset <= files[n + 1].offset
      BY <3>2, CarveExact
    <3>4. files = result'
      BY <3>1
    <3> HIDE DEF files
    <3> DEFINE Told == { <<r.kind, r.offset>> : r \in { files[n] : n \in 1..Len(files) } }
               There == { <<FILE_MAGICS[h[1]].kind, base + h[2]>> : h \in Hits(data) }
    <3>5. Told = There
      <4>1. ASSUME NEW v \in Told PROVE v \in There
        <5>1. PICK n \in 1..Len(files) : v = <<files[n].kind, files[n].offset>>
          BY <4>1
        <5>2. PICK h \in Hits(data) :
                <<files[n].kind, files[n].offset>> = <<FILE_MAGICS[h[1]].kind, base + h[2]>>
          BY <3>3, <5>1, Zenon
        <5> QED
          BY <5>1, <5>2, Zenon
      <4>2. ASSUME NEW v \in There PROVE v \in Told
        <5>1. PICK h \in Hits(data) : v = <<FILE_MAGICS[h[1]].kind, base + h[2]>>
          BY <4>2
        <5>2. PICK n \in 1..Len(files) :
                <<files[n].kind, files[n].offset>> = <<FILE_MAGICS[h[1]].kind, base + h[2]>>
          BY <3>3, <5>1, Zenon
        <5> QED
          BY <5>1, <5>2, Zenon
      <4> QED
        BY <4>1, <4>2, Zenon
    <3>6. AreTheHits(files, data, base)
      BY <3>3, <3>5, Zenon DEF AreTheHits
    <3>7. AreTheHits(result', args'.data, args'.base)
      BY <3>2, <3>4, <3>6, Zenon
    <3> QED
      BY <3>7, Zenon DEF AreTheHits, CarveFindsEveryHeader, Hits
  <2>2. CASE UNCHANGED vars
    BY <2>2 DEF vars, CarveFindsEveryHeader
  <2>3. CASE CallChs \/ CallClassify \/ CallStrings \/ CallCollisions \/ CallDetect
    BY <2>3 DEF CallChs, CallClassify, CallStrings, CallCollisions, CallDetect,
                CarveFindsEveryHeader
  <2> QED
    BY <2>1, <2>2, <2>3 DEF Next
<1> QED
  BY <1>1, <1>2, PTL DEF Spec

-----------------------------------------------------------------------------
(* Strings. *)

\* The solution f of a recursion of N steps with values in V.
StepsIn(N, V) == [(1..N) \X V -> V]
Solution(f, N, V, first, next) ==
    /\ f \in [0..N -> V]
    /\ f[0] = first
    /\ \A n \in 1..N : f[n] = next[<<n, f[n - 1]>>]

\* A recursion that stays inside a set of values has a solution.
LEMMA RecursionOnSets ==
  ASSUME NEW N \in Nat, NEW V, NEW first \in V, NEW next \in StepsIn(N, V)
  PROVE  \E f : Solution(f, N, V, first, next)
<1> USE DEF StepsIn
<1> DEFINE Solves(f, w) == f[0] = first /\ \A n \in 1..w : f[n] = next[<<n, f[n - 1]>>]
           S == { w \in Nat : w <= N => \E f \in [0..w -> V] : Solves(f, w) }
<1>1. 0 \in S
  <2> DEFINE f == [n \in 0..0 |-> first]
  <2>1. f \in [0..0 -> V] /\ Solves(f, 0)
    OBVIOUS
  <2> QED
    BY <2>1
<1>2. ASSUME NEW w \in Nat, w \in S PROVE w + 1 \in S
  <2> SUFFICES ASSUME w + 1 <= N PROVE \E f \in [0..(w + 1) -> V] : Solves(f, w + 1)
    OBVIOUS
  <2>1. PICK g \in [0..w -> V] : Solves(g, w)
    BY <1>2
  <2> DEFINE v == next[<<w + 1, g[w]>>]
             f == [n \in 0..(w + 1) |-> IF n = w + 1 THEN v ELSE g[n]]
  <2>2. v \in V
    <3>1. <<w + 1, g[w]>> \in (1..N) \X V
      OBVIOUS
    <3> QED
      BY <3>1
  <2> HIDE DEF v
  <2>3. f \in [0..(w + 1) -> V]
    BY <2>2
  <2>4. f[w + 1] = v /\ \A n \in 0..w : f[n] = g[n]
    OBVIOUS
  <2> HIDE DEF f
  <2>5. ASSUME NEW n \in 1..(w + 1) PROVE f[n] = next[<<n, f[n - 1]>>]
    <3>1. CASE n = w + 1
      <4>1. n - 1 = w /\ w \in 0..w
        BY <3>1
      <4>2. f[n - 1] = g[w]
        BY <2>4, <4>1
      <4> QED
        BY <2>4, <3>1, <4>2 DEF v
    <3>2. CASE n \in 1..w
      <4>1. n \in 0..w /\ n - 1 \in 0..w
        BY <3>2
      <4>2. f[n] = g[n] /\ f[n - 1] = g[n - 1]
        BY <2>4, <4>1
      <4>3. g[n] = next[<<n, g[n - 1]>>]
        BY <2>1, <3>2
      <4> QED
        BY <4>2, <4>3
    <3> QED
      BY <3>1, <3>2
  <2>6. f[0] = first
    <3>1. 0 \in 0..w
      OBVIOUS
    <3> QED
      BY <2>1, <2>4, <3>1
  <2> QED
    BY <2>3, <2>5, <2>6
<1> HIDE DEF S
<1>3. N \in S
  BY <1>1, <1>2, NatInductionOnSets
<1> QED
  BY <1>3 DEF S, Solution

\* The type of the accumulator.
LEMMA TakeType ==
  ASSUME NEW min_len \in Nat, NEW b \in Nat,
         NEW acc \in [run : Seq(Nat), out : Seq(Seq(Nat))]
  PROVE  Take(acc, b, min_len) \in [run : Seq(Nat), out : Seq(Seq(Nat))]
<1> DEFINE V == [run : Seq(Nat), out : Seq(Seq(Nat))]
<1>1. acc.run \in Seq(Nat) /\ acc.out \in Seq(Seq(Nat))
  OBVIOUS
<1>2. Append(acc.run, b) \in Seq(Nat) /\ <<>> \in Seq(Nat)
  BY <1>1
<1>3. Append(acc.out, acc.run) \in Seq(Seq(Nat))
  BY <1>1
<1>4. [acc EXCEPT !.run = Append(@, b)] \in V
  BY <1>1, <1>2
<1>5. Flush(acc, min_len) \in V
  BY <1>1, <1>2, <1>3 DEF Flush
<1> HIDE DEF V
<1>6. Take(acc, b, min_len) \in V
  BY <1>4, <1>5 DEF Take
<1> QED
  BY <1>6 DEF V

\* The accumulator of the strings, byte by byte.
LEMMA StringsRec ==
  ASSUME NEW data \in Seq(Nat), NEW min_len \in Nat
  PROVE  \E after : /\ ExtractAsciiStrings(data, min_len) = Flush(after[Len(data)], min_len).out
                    /\ after[0] = [run |-> <<>>, out |-> <<>>]
                    /\ \A n \in 1..Len(data) : after[n] = Take(after[n - 1], data[n], min_len)
<1> DEFINE N == Len(data)
           V == [run : Seq(Nat), out : Seq(Seq(Nat))]
           first == [run |-> <<>>, out |-> <<>>]
           next == [x \in (1..N) \X V |-> Take(x[2], data[x[1]], min_len)]
           Def(g, n) == IF n = 0 THEN first ELSE Take(g[n - 1], data[n], min_len)
           after == CHOOSE g : g = [n \in 0..N |-> Def(g, n)]
<1>1. N \in Nat /\ \A n \in 1..N : data[n] \in Nat
  OBVIOUS
<1>2. ExtractAsciiStrings(data, min_len) = Flush(after[N], min_len).out
  BY DEF ExtractAsciiStrings
<1>3. first \in V
  OBVIOUS
<1>4. \A n \in 1..N, acc \in V : Take(acc, data[n], min_len) \in V
  BY <1>1, TakeType
<1> HIDE DEF N, V
<1>5. next \in StepsIn(N, V)
  BY <1>4 DEF StepsIn
<1>6. \A n \in 1..N, acc \in V : next[<<n, acc>>] = Take(acc, data[n], min_len)
  OBVIOUS
<1> HIDE DEF first, next
<1>7. PICK f : Solution(f, N, V, first, next)
  BY <1>1, <1>3, <1>5, RecursionOnSets
<1>8. \A n \in 0..N : f[n] = Def(f, n)
  <2> TAKE n \in 0..N
  <2>1. CASE n = 0
    BY <1>7, <2>1 DEF Solution
  <2>2. CASE n # 0
    <3>1. n \in 1..N /\ n - 1 \in 0..N
      BY <1>1, <2>2
    <3> QED
      BY <1>6, <1>7, <2>2, <3>1 DEF Solution
  <2> QED
    BY <2>1, <2>2
<1> HIDE DEF Def
<1>9. f = [n \in 0..N |-> Def(f, n)]
  BY <1>7, <1>8 DEF Solution
<1>10. after = [n \in 0..N |-> Def(after, n)]
  BY <1>9
<1> HIDE DEF after
<1>11. \A n \in 0..N : after[n] = Def(after, n)
  BY <1>10
<1>12. after[0] = first
  BY <1>1, <1>11 DEF Def
<1>13. \A n \in 1..N : after[n] = Take(after[n - 1], data[n], min_len)
  <2> TAKE n \in 1..N
  <2>1. n \in 0..N /\ n # 0
    BY <1>1
  <2> QED
    BY <1>11, <2>1 DEF Def
<1> QED
  BY <1>2, <1>12, <1>13 DEF N, first

\* The cuts of the data, the piece behind a cut, and the cuts before c that a
\* long enough piece follows.
Cuts(data) == {0, Len(data) + 1} \cup { k \in 1..Len(data) : data[k] \notin Printable }
PieceAfter(data, p) ==
    LET q == CHOOSE c \in Cuts(data) : c > p /\ \A d \in Cuts(data) : d > p => c <= d
    IN  SubSeq(data, p + 1, q - 1)
LongBefore(data, min_len, c) ==
    { p \in Cuts(data) : p < c /\ Len(PieceAfter(data, p)) >= min_len }
UpTo(S, p) == { o \in S : o <= p }

\* The pieces that follow the cuts in S are what out holds, in their order.
Holds(out, data, S) ==
    /\ out \in Seq(Seq(Nat))
    /\ Len(out) = Cardinality(S)
    /\ \A p \in S : out[Cardinality(UpTo(S, p))] = PieceAfter(data, p)

\* The place of a member of a finite set of numbers in their order.
LEMMA PlaceInOrder ==
  ASSUME NEW S, IsFiniteSet(S), \A o \in S : o \in Nat, NEW p \in S
  PROVE  Cardinality(S) \in Nat /\ Cardinality(UpTo(S, p)) \in 1..Cardinality(S)
<1>1. UpTo(S, p) \subseteq S /\ p \in UpTo(S, p)
  BY DEF UpTo
<1>2. IsFiniteSet(UpTo(S, p)) /\ Cardinality(UpTo(S, p)) <= Cardinality(S)
  BY <1>1, FS_Subset, Zenon
<1>3. Cardinality(UpTo(S, p)) \in Nat /\ Cardinality(S) \in Nat
  BY <1>2, FS_CardinalityType, Zenon
<1>4. Cardinality(UpTo(S, p)) # 0
  BY <1>1, <1>2, FS_EmptySet
<1> QED
  BY <1>2, <1>3, <1>4

\* One piece more, behind all the others.
LEMMA HoldsOneMore ==
  ASSUME NEW data \in Seq(Nat), NEW S, IsFiniteSet(S), \A o \in S : o \in Nat,
         NEW c \in Nat, \A o \in S : o < c,
         NEW out, Holds(out, data, S), PieceAfter(data, c) \in Seq(Nat)
  PROVE  Holds(Append(out, PieceAfter(data, c)), data, S \cup {c})
<1> DEFINE T == S \cup {c}
           piece == PieceAfter(data, c)
           longer == Append(out, piece)
<1>1. c \notin S /\ \A o \in T : o \in Nat
  OBVIOUS
<1>2. IsFiniteSet(T) /\ Cardinality(T) = Cardinality(S) + 1
  BY <1>1, FS_AddElement, Zenon
<1>3. Cardinality(S) \in Nat
  BY FS_CardinalityType, Zenon
<1>4. out \in Seq(Seq(Nat)) /\ Len(out) = Cardinality(S)
  BY DEF Holds
<1> HIDE DEF piece
<1>5. piece \in Seq(Nat)
  BY DEF piece
<1> DEFINE L == Seq(Nat)
<1> HIDE DEF L
<1>6. /\ longer \in Seq(L) /\ Len(longer) = Len(out) + 1 /\ longer[Len(out) + 1] = piece
      /\ \A k \in 1..Len(out) : longer[k] = out[k]
  <2>1. out \in Seq(L) /\ piece \in L
    BY <1>4, <1>5 DEF L
  <2> QED
    BY <2>1
<1> HIDE DEF longer
<1>7. ASSUME NEW p \in T PROVE longer[Cardinality(UpTo(T, p))] = PieceAfter(data, p)
  <2>1. CASE p \in S
    <3>1. UpTo(T, p) = UpTo(S, p)
      BY <2>1 DEF UpTo
    <3>2. Cardinality(UpTo(S, p)) \in 1..Len(out)
      BY <1>4, <2>1, PlaceInOrder
    <3>3. out[Cardinality(UpTo(S, p))] = PieceAfter(data, p)
      BY <2>1 DEF Holds
    <3> QED
      BY <1>6, <3>1, <3>2, <3>3
  <2>2. CASE p = c
    <3>1. \A o \in T : o <= p
      BY <2>2
    <3>2. UpTo(T, p) = T
      BY <3>1, Zenon DEF UpTo
    <3> QED
      BY <1>2, <1>4, <1>6, <2>2, <3>2 DEF piece
  <2> QED
    BY <2>1, <2>2
<1>8. Holds(longer, data, T)
  BY <1>2, <1>4, <1>6, <1>7 DEF Holds, L
<1> QED
  BY <1>8 DEF longer, piece

\* A flush at the cut n + 1, when c is the cut before it and the accumulated
\* run is what lies between them.
LEMMA FlushAtCut ==
  ASSUME NEW data \in Seq(Nat), NEW min_len \in Nat, NEW c \in Cuts(data),
         NEW n \in Nat, c <= n, n <= Len(data), n + 1 \in Cuts(data),
         \A d \in Cuts(data) : d > c => n + 1 <= d,
         NEW acc, acc.run = SubSeq(data, c + 1, n),
         Holds(acc.out, data, LongBefore(data, min_len, c))
  PROVE  Holds(Flush(acc, min_len).out, data, LongBefore(data, min_len, n + 1))
<1> DEFINE S == LongBefore(data, min_len, c)
           T == LongBefore(data, min_len, n + 1)
<1>1. Len(data) \in Nat /\ \A d \in Cuts(data) : d \in 0..(Len(data) + 1)
  BY DEF Cuts
<1>2. c \in Nat
  BY <1>1
<1>3. PieceAfter(data, c) = SubSeq(data, c + 1, n)
  <2> DEFINE IsNext(q) == q > c /\ \A d \in Cuts(data) : d > c => q <= d
             q == CHOOSE x \in Cuts(data) : IsNext(x)
  <2>1. n + 1 \in Cuts(data) /\ IsNext(n + 1)
    BY <1>2
  <2>2. q \in Cuts(data) /\ IsNext(q)
    <3> HIDE DEF IsNext
    <3> QED
      BY <2>1
  <2>3. q = n + 1
    <3>1. q \in Nat /\ q <= n + 1 /\ n + 1 <= q
      BY <1>1, <2>1, <2>2
    <3> QED
      BY <3>1
  <2>4. PieceAfter(data, c) = SubSeq(data, c + 1, q - 1)
    BY DEF PieceAfter
  <2> HIDE DEF q
  <2>5. q - 1 = n
    BY <2>3
  <2> QED
    BY <2>4, <2>5
<1>4. SubSeq(data, c + 1, n) \in Seq(Nat)
  BY <1>1, <1>2
<1>5. IsFiniteSet(S)
  <2>1. S \in SUBSET Nat /\ \A o \in S : o <= Len(data) + 1
    BY <1>1 DEF LongBefore
  <2>2. Len(data) + 1 \in Nat
    BY <1>1
  <2> HIDE DEF S
  <2> QED
    BY <2>1, <2>2, FS_BoundedSetOfNaturals, Zenon
<1>6. \A o \in S : o \in Nat /\ o < c
  BY <1>1 DEF LongBefore
<1>7. \A p \in Cuts(data) : p < n + 1 <=> p < c \/ p = c
  BY <1>1, <1>2
<1>8. CASE Len(acc.run) >= min_len
  <2>1. T = S \cup {c}
    <3>1. Len(PieceAfter(data, c)) >= min_len
      BY <1>3, <1>8
    <3> QED
      BY <1>7, <3>1, Zenon DEF LongBefore
  <2>2. Flush(acc, min_len).out = Append(acc.out, PieceAfter(data, c))
    BY <1>3, <1>8 DEF Flush
  <2> HIDE DEF S, T
  <2>3. Holds(acc.out, data, S)
    BY DEF S
  <2>4. Holds(Append(acc.out, PieceAfter(data, c)), data, S \cup {c})
    BY <1>2, <1>3, <1>4, <1>5, <1>6, <2>3, HoldsOneMore
  <2> QED
    BY <2>1, <2>2, <2>4 DEF T
<1>9. CASE ~(Len(acc.run) >= min_len)
  <2>1. T = S
    <3>1. ~(Len(PieceAfter(data, c)) >= min_len)
      BY <1>3, <1>9
    <3> QED
      BY <1>7, <3>1, Zenon DEF LongBefore
  <2>2. Flush(acc, min_len).out = acc.out
    BY <1>9 DEF Flush
  <2> QED
    BY <2>1, <2>2
<1> QED
  BY <1>8, <1>9

\* What the accumulator holds behind the first w bytes: the long pieces that a
\* cut ended, and the run behind the last cut c.
Accumulated(acc, data, min_len, w) ==
    \E c \in Cuts(data) : /\ c <= w
                          /\ \A k \in (c + 1)..w : k \notin Cuts(data)
                          /\ acc.run = SubSeq(data, c + 1, w)
                          /\ Holds(acc.out, data, LongBefore(data, min_len, c))

\* One byte more.
LEMMA TakeAccumulates ==
  ASSUME NEW data \in Seq(Nat), NEW min_len \in Nat, NEW w \in Nat, w + 1 <= Len(data),
         NEW acc \in [run : Seq(Nat), out : Seq(Seq(Nat))],
         Accumulated(acc, data, min_len, w)
  PROVE  Accumulated(Take(acc, data[w + 1], min_len), data, min_len, w + 1)
<1>1. PICK c \in Cuts(data) :
        /\ c <= w
        /\ \A k \in (c + 1)..w : k \notin Cuts(data)
        /\ acc.run = SubSeq(data, c + 1, w)
        /\ Holds(acc.out, data, LongBefore(data, min_len, c))
  BY DEF Accumulated
<1>2. Len(data) \in Nat /\ \A d \in Cuts(data) : d \in 0..(Len(data) + 1)
  BY DEF Cuts
<1>3. c \in Nat
  BY <1>1, <1>2
<1>4. w + 1 \in Cuts(data) <=> data[w + 1] \notin Printable
  BY <1>2 DEF Cuts
<1> DEFINE b == data[w + 1]
           next == Take(acc, b, min_len)
<1>5. CASE b \in Printable
  <2>1. next.run = Append(acc.run, b) /\ next.out = acc.out
    BY <1>5 DEF Take
  <2>2. Append(SubSeq(data, c + 1, w), data[w + 1]) = SubSeq(data, c + 1, w + 1)
    <3> DEFINE s == SubSeq(data, c + 1, w)
    <3>1. c + 1 \in 1..Len(data) /\ w + 1 \in (c + 1)..Len(data) /\ (w + 1) - 1 = w
      BY <1>1, <1>2, <1>3
    <3>2. SubSeq(data, c + 1, w + 1) = s \o <<data[w + 1]>>
      BY <3>1, SubSeqRecursiveSecond
    <3>3. s \in Seq(Nat) /\ data[w + 1] \in Nat
      <4>1. s = acc.run /\ acc.run \in Seq(Nat)
        BY <1>1
      <4>2. w + 1 \in 1..Len(data)
        BY <1>2
      <4>3. data[w + 1] \in Nat
        BY <4>2
      <4> QED
        BY <4>1, <4>3
    <3> HIDE DEF s
    <3>4. \A e \in Nat : Append(s, e) = s \o <<e>>
      BY <3>3
    <3> QED
      BY <3>2, <3>3, <3>4 DEF s
  <2>3. \A k \in (c + 1)..(w + 1) : k \notin Cuts(data)
    <3>1. \A k \in (c + 1)..(w + 1) : k \in (c + 1)..w \/ k = w + 1
      BY <1>3
    <3> QED
      BY <1>1, <1>4, <1>5, <3>1, Zenon
  <2>4. c <= w + 1
    BY <1>1, <1>3
  <2> HIDE DEF next
  <2>5. Accumulated(next, data, min_len, w + 1)
    BY <1>1, <2>1, <2>2, <2>3, <2>4, Zenon DEF Accumulated
  <2> QED
    BY <2>5 DEF next
<1>6. CASE b \notin Printable
  <2>1. next = Flush(acc, min_len)
    BY <1>6 DEF Take
  <2>2. w + 1 \in Cuts(data) /\ w <= Len(data)
    BY <1>2, <1>4, <1>6
  <2>3. \A d \in Cuts(data) : d > c => w + 1 <= d
    <3> SUFFICES ASSUME NEW d \in Cuts(data), d > c, ~(w + 1 <= d) PROVE FALSE
      OBVIOUS
    <3>1. d \in (c + 1)..w
      BY <1>2, <1>3
    <3> QED
      BY <1>1, <3>1
  <2>4. Holds(Flush(acc, min_len).out, data, LongBefore(data, min_len, w + 1))
    BY <1>1, <2>2, <2>3, FlushAtCut
  <2>5. next.run = SubSeq(data, (w + 1) + 1, w + 1)
    <3>1. SubSeq(data, (w + 1) + 1, w + 1) = <<>>
      BY <1>2, SubSeqEmpty
    <3> QED
      BY <2>1, <3>1 DEF Flush
  <2>6. w + 1 <= w + 1 /\ \A k \in ((w + 1) + 1)..(w + 1) : k \notin Cuts(data)
    OBVIOUS
  <2>7. Holds(next.out, data, LongBefore(data, min_len, w + 1))
    BY <2>1, <2>4
  <2> HIDE DEF next
  <2>8. Accumulated(next, data, min_len, w + 1)
    BY <2>2, <2>5, <2>6, <2>7, Zenon DEF Accumulated
  <2> QED
    BY <2>8 DEF next
<1> QED
  BY <1>5, <1>6

\* The strings are the long pieces.
LEMMA StringsExact ==
  ASSUME NEW data \in Seq(Nat), NEW min_len \in Nat
  PROVE  Holds(ExtractAsciiStrings(data, min_len), data,
               LongBefore(data, min_len, Len(data) + 1))
<1> DEFINE N == Len(data)
           V == [run : Seq(Nat), out : Seq(Seq(Nat))]
<1>1. PICK after : /\ ExtractAsciiStrings(data, min_len) = Flush(after[N], min_len).out
                   /\ after[0] = [run |-> <<>>, out |-> <<>>]
                   /\ \A n \in 1..N : after[n] = Take(after[n - 1], data[n], min_len)
  BY StringsRec
<1>2. N \in Nat /\ \A n \in 1..N : data[n] \in Nat
  OBVIOUS
<1> DEFINE S == { w \in Nat : w <= N => /\ after[w] \in V
                                        /\ Accumulated(after[w], data, min_len, w) }
<1>3. 0 \in S
  <2>1. after[0] \in V
    BY <1>1
  <2>2. 0 \in Cuts(data) /\ \A d \in Cuts(data) : d \in Nat
    BY <1>2 DEF Cuts
  <2>3. SubSeq(data, 0 + 1, 0) = <<>>
    BY <1>2, SubSeqEmpty
  <2>4. LongBefore(data, min_len, 0) = {}
    BY <2>2 DEF LongBefore
  <2>5. Holds(<<>>, data, {})
    <3>1. <<>> \in Seq(Seq(Nat)) /\ Len(<<>>) = 0
      OBVIOUS
    <3> QED
      BY <3>1, FS_EmptySet DEF Holds
  <2>6. 0 <= 0 /\ \A k \in (0 + 1)..0 : k \notin Cuts(data)
    OBVIOUS
  <2>7. after[0].run = <<>> /\ after[0].out = <<>>
    BY <1>1
  <2>8. Accumulated(after[0], data, min_len, 0)
    BY <2>2, <2>3, <2>4, <2>5, <2>6, <2>7, Zenon DEF Accumulated
  <2> QED
    BY <2>1, <2>8
<1>4. ASSUME NEW w \in Nat, w \in S PROVE w + 1 \in S
  <2> SUFFICES ASSUME w + 1 <= N
               PROVE  after[w + 1] \in V /\ Accumulated(after[w + 1], data, min_len, w + 1)
    OBVIOUS
  <2>1. after[w] \in V /\ Accumulated(after[w], data, min_len, w)
    BY <1>2, <1>4
  <2>2. w + 1 \in 1..N /\ (w + 1) - 1 = w
    BY <1>2
  <2>3. after[w + 1] = Take(after[w], data[w + 1], min_len)
    BY <1>1, <2>2
  <2>4. Take(after[w], data[w + 1], min_len) \in V
    BY <1>2, <2>1, <2>2, TakeType
  <2>5. Accumulated(after[w + 1], data, min_len, w + 1)
    BY <2>1, <2>3, TakeAccumulates
  <2> QED
    BY <2>3, <2>4, <2>5
<1> HIDE DEF S
<1>5. N \in S
  BY <1>2, <1>3, <1>4, NatInductionOnSets
<1>6. Accumulated(after[N], data, min_len, N)
  BY <1>2, <1>5 DEF S
<1>7. PICK c \in Cuts(data) :
        /\ c <= N
        /\ \A k \in (c + 1)..N : k \notin Cuts(data)
        /\ after[N].run = SubSeq(data, c + 1, N)
        /\ Holds(after[N].out, data, LongBefore(data, min_len, c))
  BY <1>6 DEF Accumulated
<1>8. N + 1 \in Cuts(data) /\ N <= N /\ \A d \in Cuts(data) : d \in Nat
  BY <1>2 DEF Cuts
<1>9. \A d \in Cuts(data) : d > c => N + 1 <= d
  <2> SUFFICES ASSUME NEW d \in Cuts(data), d > c, ~(N + 1 <= d) PROVE FALSE
    OBVIOUS
  <2>1. d \in (c + 1)..N
    BY <1>2, <1>8
  <2> QED
    BY <1>7, <2>1
<1>10. Holds(Flush(after[N], min_len).out, data, LongBefore(data, min_len, N + 1))
  BY <1>2, <1>7, <1>8, <1>9, FlushAtCut
<1> QED
  BY <1>1, <1>10

\* The runs of the data are the strings told of.
AreTheRuns(strings, data, min_len) ==
    LET long == { p \in Cuts(data) \ {Len(data) + 1} : Len(PieceAfter(data, p)) >= min_len }
    IN  /\ Len(strings) = Cardinality(long)
        /\ \A p \in long :
             strings[Cardinality({ o \in long : o <= p })] = PieceAfter(data, p)

\* The same, with the cuts before the end of the data.
LEMMA RunsAreStrings ==
  ASSUME NEW data \in Seq(Nat), NEW min_len \in Nat
  PROVE  AreTheRuns(ExtractAsciiStrings(data, min_len), data, min_len)
<1> DEFINE long == { p \in Cuts(data) \ {Len(data) + 1} : Len(PieceAfter(data, p)) >= min_len }
<1>1. \A p \in Cuts(data) : p < Len(data) + 1 <=> p # Len(data) + 1
  BY DEF Cuts
<1>2. long = LongBefore(data, min_len, Len(data) + 1)
  BY <1>1, Zenon DEF LongBefore
<1> HIDE DEF long
<1>3. Holds(ExtractAsciiStrings(data, min_len), data, long)
  BY <1>2, StringsExact
<1> QED
  BY <1>3 DEF Holds, UpTo, AreTheRuns, long

\* extract_ascii_strings yields the printable pieces that are long enough, in
\* their order, for every region and every minimum, zero included.
THEOREM StringsAreExact == Spec => []StringsAreTheRuns
<1>1. Init => StringsAreTheRuns
  BY DEF Init, StringsAreTheRuns
<1>2. StringsAreTheRuns /\ [Next]_vars => StringsAreTheRuns'
  <2> SUFFICES ASSUME StringsAreTheRuns, [Next]_vars PROVE StringsAreTheRuns'
    OBVIOUS
  <2>1. CASE CallStrings
    <3>1. PICK data \in Regions, min_len \in MinLens :
            /\ args' = [data |-> data, min_len |-> min_len]
            /\ result' = ExtractAsciiStrings(data, min_len)
      BY <2>1 DEF CallStrings
    <3>2. data \in Seq(Nat) /\ min_len \in Nat /\ args'.data = data /\ args'.min_len = min_len
      BY <3>1, ArgumentsAssumption
    <3>3. AreTheRuns(result', data, min_len)
      BY <3>1, <3>2, RunsAreStrings
    <3>4. AreTheRuns(result', args'.data, args'.min_len)
      BY <3>2, <3>3, Zenon
    <3> QED
      BY <3>4 DEF AreTheRuns, StringsAreTheRuns, Cuts, PieceAfter
  <2>2. CASE UNCHANGED vars
    <3>1. fn = "strings" => AreTheRuns(result, args.data, args.min_len)
      BY DEF AreTheRuns, StringsAreTheRuns, Cuts, PieceAfter
    <3>2. fn' = "strings" => AreTheRuns(result', args'.data, args'.min_len)
      BY <2>2, <3>1 DEF vars
    <3> QED
      BY <3>2 DEF AreTheRuns, StringsAreTheRuns, Cuts, PieceAfter
  <2>3. CASE CallChs \/ CallClassify \/ CallCarve \/ CallCollisions \/ CallDetect
    BY <2>3 DEF CallChs, CallClassify, CallCarve, CallCollisions, CallDetect,
                StringsAreTheRuns
  <2> QED
    BY <2>1, <2>2, <2>3 DEF Next
<1> QED
  BY <1>1, <1>2, PTL DEF Spec

-----------------------------------------------------------------------------
(* Disk signatures. *)

\* A set numbered from 1 to n has n elements.
LEMMA CountedBy ==
  ASSUME NEW n \in Nat, NEW T, NEW f \in [1..n -> T],
         \A i, j \in 1..n : f[i] = f[j] => i = j, \A t \in T : \E i \in 1..n : f[i] = t
  PROVE  Cardinality(T) = n
<1>1. f \in Bijection(1..n, T)
  BY Fun_IsBij, Zenon
<1>2. ExistsBijection(1..n, T)
  BY <1>1 DEF ExistsBijection
<1>3. IsFiniteSet(1..n) /\ Cardinality(1..n) = n
  <2>1. 1 \in Int /\ n \in Int
    OBVIOUS
  <2>2. IsFiniteSet(1..n) /\ Cardinality(1..n) = IF 1 > n THEN 0 ELSE n - 1 + 1
    BY <2>1, FS_Interval, Zenon
  <2> QED
    BY <2>2
<1> QED
  BY <1>2, <1>3, FS_Bijection, Zenon

\* m lists the disks among the first w that carry s, ascending.
Lists(m, sigs, s, w) ==
    /\ m \in Seq(Nat)
    /\ \A k \in 1..Len(m) : m[k] + 1 \in 1..w /\ sigs[m[k] + 1] = s
    /\ \A j \in 1..w : sigs[j] = s => \E k \in 1..Len(m) : m[k] = j - 1
    /\ \A i, j \in 1..Len(m) : i < j => m[i] < m[j]

\* One disk more, which carries s or does not.
LEMMA ListsOneMore ==
  ASSUME NEW sigs \in Seq(Nat), NEW s, NEW w \in Nat, w + 1 <= Len(sigs),
         NEW m, Lists(m, sigs, s, w)
  PROVE  /\ sigs[w + 1] = s => Lists(Append(m, w), sigs, s, w + 1)
         /\ sigs[w + 1] # s => Lists(m, sigs, s, w + 1)
<1>1. m \in Seq(Nat) /\ Len(m) \in Nat /\ \A k \in 1..Len(m) : m[k] \in Nat
  BY DEF Lists
<1>2. \A j \in 1..(w + 1) : j \in 1..w \/ j = w + 1
  OBVIOUS
<1>3. \A k \in 1..Len(m) : m[k] + 1 \in 1..(w + 1) /\ m[k] < w /\ sigs[m[k] + 1] = s
  <2>1. \A q \in Nat : q + 1 \in 1..w => q + 1 \in 1..(w + 1) /\ q < w
    OBVIOUS
  <2>2. \A k \in 1..Len(m) : m[k] + 1 \in 1..w /\ sigs[m[k] + 1] = s
    BY DEF Lists
  <2> QED
    BY <1>1, <2>1, <2>2, Zenon
<1>4. ASSUME sigs[w + 1] = s PROVE Lists(Append(m, w), sigs, s, w + 1)
  <2> DEFINE q == Append(m, w)
  <2>1. /\ q \in Seq(Nat) /\ Len(q) = Len(m) + 1 /\ q[Len(m) + 1] = w
        /\ \A k \in 1..Len(m) : q[k] = m[k]
    BY <1>1
  <2> HIDE DEF q
  <2>2. \A k \in 1..Len(q) : k \in 1..Len(m) \/ k = Len(m) + 1
    BY <1>1, <2>1
  <2>3. ASSUME NEW k \in 1..Len(q) PROVE q[k] + 1 \in 1..(w + 1) /\ sigs[q[k] + 1] = s
    <3>1. CASE k \in 1..Len(m)
      BY <1>3, <2>1, <3>1
    <3>2. CASE k = Len(m) + 1
      BY <1>4, <2>1, <3>2
    <3> QED
      BY <2>2, <3>1, <3>2
  <2>4. ASSUME NEW j \in 1..(w + 1), sigs[j] = s PROVE \E k \in 1..Len(q) : q[k] = j - 1
    <3>1. CASE j \in 1..w
      <4>1. PICK k \in 1..Len(m) : m[k] = j - 1
        BY <2>4, <3>1 DEF Lists
      <4>2. k \in 1..Len(q) /\ q[k] = j - 1
        BY <1>1, <2>1, <4>1
      <4> QED
        BY <4>2
    <3>2. CASE j = w + 1
      <4>1. Len(m) + 1 \in 1..Len(q) /\ q[Len(m) + 1] = j - 1
        BY <1>1, <2>1, <3>2
      <4> QED
        BY <4>1
    <3> QED
      BY <1>2, <3>1, <3>2
  <2>5. ASSUME NEW i \in 1..Len(q), NEW j \in 1..Len(q), i < j PROVE q[i] < q[j]
    <3>1. i \in 1..Len(m)
      BY <1>1, <2>1, <2>5
    <3>2. CASE j \in 1..Len(m)
      BY <2>1, <2>5, <3>1, <3>2 DEF Lists
    <3>3. CASE j = Len(m) + 1
      BY <1>3, <2>1, <3>1, <3>3
    <3> QED
      BY <2>2, <3>2, <3>3
  <2>6. Lists(q, sigs, s, w + 1)
    BY <2>1, <2>3, <2>4, <2>5 DEF Lists
  <2> QED
    BY <2>6 DEF q
<1>5. ASSUME sigs[w + 1] # s PROVE Lists(m, sigs, s, w + 1)
  <2>1. \A j \in 1..(w + 1) : sigs[j] = s => \E k \in 1..Len(m) : m[k] = j - 1
    BY <1>2, <1>5 DEF Lists
  <2> QED
    BY <1>1, <1>3, <2>1 DEF Lists
<1> QED
  BY <1>4, <1>5

\* What the first loop holds behind w disks: the groups of the set signatures
\* among them, and these in the order of their first disks.
Grouped(acc, sigs, w) ==
    /\ acc.order \in Seq(Nat)
    /\ DOMAIN acc.groups \subseteq Nat
    /\ \A s : s \in DOMAIN acc.groups <=> s # 0 /\ \E k \in 1..w : sigs[k] = s
    /\ \A s \in DOMAIN acc.groups : Lists(acc.groups[s], sigs, s, w)
    /\ \A n \in 1..Len(acc.order) : acc.order[n] \in DOMAIN acc.groups
    /\ \A s \in DOMAIN acc.groups : \E n \in 1..Len(acc.order) : acc.order[n] = s
    /\ \A i, j \in 1..Len(acc.order) :
         i < j => acc.groups[acc.order[i]][1] < acc.groups[acc.order[j]][1]

\* The group of a signature, seen or not.
LEMMA GroupLists ==
  ASSUME NEW sigs \in Seq(Nat), NEW w \in Nat, NEW acc, Grouped(acc, sigs, w),
         NEW s, s # 0
  PROVE  /\ Lists(GroupOf(acc, s), sigs, s, w)
         /\ GroupOf(acc, s) = <<>> <=> s \notin DOMAIN acc.groups
<1>1. CASE s \in DOMAIN acc.groups
  <2>1. GroupOf(acc, s) = acc.groups[s] /\ Lists(acc.groups[s], sigs, s, w)
    BY <1>1 DEF GroupOf, Grouped
  <2>2. PICK k \in 1..w : sigs[k] = s
    BY <1>1 DEF Grouped
  <2>3. acc.groups[s] # <<>>
    <3>1. PICK j \in 1..Len(acc.groups[s]) : acc.groups[s][j] = k - 1
      BY <2>1, <2>2 DEF Lists
    <3>2. Len(<<>>) = 0 /\ 1..0 = {}
      OBVIOUS
    <3> QED
      BY <3>1, <3>2
  <2> QED
    BY <1>1, <2>1, <2>3
<1>2. CASE s \notin DOMAIN acc.groups
  <2>1. GroupOf(acc, s) = <<>>
    BY <1>2 DEF GroupOf
  <2>2. \A k \in 1..w : sigs[k] # s
    BY <1>2 DEF Grouped
  <2>3. <<>> \in Seq(Nat) /\ Len(<<>>) = 0 /\ 1..0 = {}
    OBVIOUS
  <2>4. Lists(<<>>, sigs, s, w)
    BY <2>2, <2>3, Zenon DEF Lists
  <2> QED
    BY <1>2, <2>1, <2>4
<1> QED
  BY <1>1, <1>2

\* One turn of the first loop.
LEMMA GroupOneMore ==
  ASSUME NEW sigs \in Seq(Nat), NEW w \in Nat, w + 1 <= Len(sigs),
         NEW acc, Grouped(acc, sigs, w)
  PROVE  Grouped(Group(sigs, acc, w + 1), sigs, w + 1)
<1> DEFINE sig == sigs[w + 1]
           D == DOMAIN acc.groups
           G == acc.groups
           O == acc.order
           next == Group(sigs, acc, w + 1)
<1>1. Len(sigs) \in Nat /\ sig \in Nat /\ w + 1 \in 1..(w + 1)
  OBVIOUS
<1>2. \A k \in 1..(w + 1) : k \in 1..w \/ k = w + 1
  OBVIOUS
<1>3. \A k \in 1..w : k \in 1..(w + 1)
  OBVIOUS
<1>4. /\ O \in Seq(Nat) /\ D \subseteq Nat
      /\ \A s : s \in D <=> s # 0 /\ \E k \in 1..w : sigs[k] = s
      /\ \A s \in D : Lists(G[s], sigs, s, w)
      /\ \A n \in 1..Len(O) : O[n] \in D
      /\ \A s \in D : \E n \in 1..Len(O) : O[n] = s
      /\ \A i, j \in 1..Len(O) : i < j => G[O[i]][1] < G[O[j]][1]
  BY DEF Grouped
<1>5. CASE sig = 0
  <2>1. next = acc
    BY <1>5 DEF Group
  <2>2. \A s : s \in D <=> s # 0 /\ \E k \in 1..(w + 1) : sigs[k] = s
    BY <1>2, <1>3, <1>4, <1>5
  <2>3. \A s \in D : Lists(G[s], sigs, s, w + 1)
    <3> TAKE s \in D
    <3>1. s # 0 /\ Lists(G[s], sigs, s, w)
      BY <1>4
    <3> QED
      BY <1>5, <3>1, ListsOneMore
  <2>4. Grouped(acc, sigs, w + 1)
    BY <1>4, <2>2, <2>3, Zenon DEF Grouped
  <2> QED
    BY <2>1, <2>4
<1>6. CASE sig # 0
  <2> DEFINE members == GroupOf(acc, sig)
             H == [s \in D \cup {sig} |-> IF s = sig THEN Append(members, w) ELSE G[s]]
             P == IF members = <<>> THEN Append(O, sig) ELSE O
  <2>1. next = [order |-> P, groups |-> H]
    <3>1. (w + 1) - 1 = w
      OBVIOUS
    <3> QED
      BY <1>6, <3>1 DEF Group
  <2>2. next.order = P /\ next.groups = H
    <3> HIDE DEF next, P, H
    <3> QED
      BY <2>1
  <2>3. Lists(members, sigs, sig, w) /\ (members = <<>> <=> sig \notin D)
    BY <1>6, GroupLists
  <2> HIDE DEF members, D
  <2>4. /\ DOMAIN H = D \cup {sig}
        /\ H[sig] = Append(members, w)
        /\ \A s \in D : s # sig => H[s] = G[s]
    OBVIOUS
  <2> HIDE DEF H
  <2>5. \A s : s \in DOMAIN H <=> s # 0 /\ \E k \in 1..(w + 1) : sigs[k] = s
    BY <1>1, <1>2, <1>3, <1>4, <1>6, <2>4
  <2>6. \A s \in DOMAIN H : Lists(H[s], sigs, s, w + 1)
    <3> TAKE s \in DOMAIN H
    <3>1. CASE s = sig
      BY <2>3, <2>4, <3>1, ListsOneMore
    <3>2. CASE s # sig
      <4>1. s \in D /\ H[s] = G[s] /\ Lists(G[s], sigs, s, w)
        BY <1>4, <2>4, <3>2
      <4> QED
        BY <3>2, <4>1, ListsOneMore
    <3> QED
      BY <3>1, <3>2
  <2>7. \A s \in D : H[s][1] = G[s][1] /\ H[s][1] \in Nat /\ H[s][1] < w
    <3> TAKE s \in D
    <3>1. s # 0 /\ GroupOf(acc, s) = G[s]
      BY <1>4 DEF GroupOf, D
    <3>2. G[s] # <<>> /\ Lists(G[s], sigs, s, w)
      BY <3>1, GroupLists DEF D
    <3>3. G[s] \in Seq(Nat) /\ \A k \in 1..Len(G[s]) : G[s][k] + 1 \in 1..w
      BY <3>2 DEF Lists
    <3>4. 1 \in 1..Len(G[s]) /\ G[s][1] \in Nat
      <4> DEFINE g == G[s]
      <4> HIDE DEF g
      <4>1. g \in Seq(Nat) /\ g # <<>>
        BY <3>2, <3>3 DEF g
      <4>2. 1 \in 1..Len(g) /\ g[1] \in Nat
        BY <4>1
      <4> QED
        BY <4>2 DEF g
    <3>5. G[s][1] < w
      <4>1. G[s][1] + 1 \in 1..w
        BY <3>3, <3>4
      <4>2. \A q \in Nat : q + 1 \in 1..w => q < w
        OBVIOUS
      <4> QED
        BY <3>4, <4>1, <4>2, Zenon
    <3>6. H[s][1] = G[s][1]
      <4>1. CASE s = sig
        <5> DEFINE g == G[s]
        <5>1. H[s] = Append(g, w) /\ g \in Seq(Nat) /\ 1 \in 1..Len(g)
          BY <2>4, <3>1, <3>3, <3>4, <4>1 DEF members
        <5> HIDE DEF g
        <5>2. Append(g, w)[1] = g[1]
          BY <5>1
        <5> QED
          BY <5>1, <5>2 DEF g
      <4>2. CASE s # sig
        BY <2>4, <4>2
      <4> QED
        BY <4>1, <4>2
    <3> QED
      BY <3>4, <3>5, <3>6
  <2>8. /\ P \in Seq(Nat)
        /\ \A n \in 1..Len(P) : P[n] \in DOMAIN H
        /\ \A s \in DOMAIN H : \E n \in 1..Len(P) : P[n] = s
        /\ \A i, j \in 1..Len(P) : i < j => H[P[i]][1] < H[P[j]][1]
    <3>1. CASE sig \in D
      <4>1. P = O /\ DOMAIN H = D
        BY <2>3, <2>4, <3>1
      <4>2. \A i, j \in 1..Len(O) : i < j => H[O[i]][1] < H[O[j]][1]
        BY <1>4, <2>7
      <4> QED
        BY <1>4, <4>1, <4>2
    <3>2. CASE sig \notin D
      <4>1. members = <<>> /\ P = Append(O, sig)
        BY <2>3, <3>2
      <4>2. /\ P \in Seq(Nat) /\ Len(P) = Len(O) + 1 /\ P[Len(O) + 1] = sig /\ Len(O) \in Nat
            /\ \A n \in 1..Len(O) : P[n] = O[n]
        BY <1>1, <1>4, <4>1
      <4> HIDE DEF P, O, G
      <4>3. \A n \in 1..Len(P) : n \in 1..Len(O) \/ n = Len(O) + 1
        BY <4>2
      <4>4. H[sig][1] = w
        BY <2>4, <4>1
      <4>5. \A n \in 1..Len(P) : P[n] \in DOMAIN H
        BY <1>4, <2>4, <4>2, <4>3
      <4>6. ASSUME NEW s \in DOMAIN H PROVE \E n \in 1..Len(P) : P[n] = s
        <5>1. CASE s \in D
          <6>1. PICK n \in 1..Len(O) : O[n] = s
            BY <1>4, <5>1
          <6>2. n \in 1..Len(P) /\ P[n] = s
            BY <4>2, <6>1
          <6> QED
            BY <6>2
        <5>2. CASE s = sig
          <6>1. Len(O) + 1 \in 1..Len(P) /\ P[Len(O) + 1] = s
            BY <4>2, <5>2
          <6> QED
            BY <6>1
        <5> QED
          BY <2>4, <5>1, <5>2
      <4>7. ASSUME NEW i \in 1..Len(P), NEW j \in 1..Len(P), i < j
            PROVE  H[P[i]][1] < H[P[j]][1]
        <5>1. i \in 1..Len(O) /\ P[i] = O[i] /\ O[i] \in D
          <6>1. i \in 1..Len(O)
            BY <4>2, <4>7
          <6> QED
            BY <1>4, <4>2, <6>1
        <5>2. CASE j \in 1..Len(O)
          <6>1. P[j] = O[j] /\ O[j] \in D /\ G[O[i]][1] < G[O[j]][1]
            BY <1>4, <4>2, <4>7, <5>1, <5>2
          <6>2. H[O[i]][1] = G[O[i]][1] /\ H[O[j]][1] = G[O[j]][1]
            BY <2>7, <5>1, <6>1
          <6> QED
            BY <5>1, <6>1, <6>2
        <5>3. CASE j = Len(O) + 1
          <6>1. P[j] = sig
            BY <4>2, <5>3
          <6> QED
            BY <2>7, <4>4, <5>1, <6>1
        <5> QED
          BY <4>3, <5>2, <5>3
      <4> QED
        BY <4>2, <4>5, <4>6, <4>7
    <3> QED
      BY <3>1, <3>2
  <2> HIDE DEF P, next
  <2>9. DOMAIN H \subseteq Nat
    BY <1>1, <1>4, <2>4
  <2>10. Grouped(next, sigs, w + 1)
    BY <2>2, <2>5, <2>6, <2>8, <2>9, Zenon DEF Grouped
  <2> QED
    BY <2>10 DEF next
<1> QED
  BY <1>5, <1>6

\* The values of the first loop.
Accumulators == [order : Seq(Nat), groups : UNION { [D -> Seq(Nat)] : D \in SUBSET Nat }]

\* The type of a turn.
LEMMA GroupType ==
  ASSUME NEW sigs \in Seq(Nat), NEW k \in 1..Len(sigs), NEW acc \in Accumulators
  PROVE  Group(sigs, acc, k) \in Accumulators
<1> DEFINE sig == sigs[k]
           members == GroupOf(acc, sig)
<1>1. sig \in Nat /\ k - 1 \in Nat
  OBVIOUS
<1>2. PICK D \in SUBSET Nat : acc.groups \in [D -> Seq(Nat)]
  BY DEF Accumulators
<1>3. acc.order \in Seq(Nat) /\ DOMAIN acc.groups = D
  BY <1>2 DEF Accumulators
<1>4. members \in Seq(Nat)
  BY <1>2, <1>3 DEF GroupOf
<1> HIDE DEF sig, members
<1>5. Append(members, k - 1) \in Seq(Nat) /\ Append(acc.order, sig) \in Seq(Nat)
  BY <1>1, <1>3, <1>4
<1> DEFINE H == [s \in DOMAIN acc.groups \cup {sig} |->
                   IF s = sig THEN Append(members, k - 1) ELSE acc.groups[s]]
           P == IF members = <<>> THEN Append(acc.order, sig) ELSE acc.order
<1>6. H \in [D \cup {sig} -> Seq(Nat)]
  BY <1>2, <1>3, <1>5
<1>7. P \in Seq(Nat) /\ D \cup {sig} \in SUBSET Nat
  BY <1>1, <1>3, <1>5
<1>8. Group(sigs, acc, k) = IF sig = 0 THEN acc ELSE [order |-> P, groups |-> H]
  BY DEF Group, sig, members
<1> HIDE DEF H, P
<1>9. [order |-> P, groups |-> H] \in Accumulators
  BY <1>6, <1>7 DEF Accumulators
<1> QED
  BY <1>8, <1>9

\* The two loops, turn by turn.
LEMMA CollisionsRec ==
  ASSUME NEW sigs \in Seq(Nat)
  PROVE  \E seen :
           /\ seen[0] = NoGroups
           /\ \A n \in 1..Len(sigs) : seen[n] = Group(sigs, seen[n - 1], n)
           /\ FindSignatureCollisions(sigs) =
                LET all == seen[Len(sigs)]
                    told == CHOOSE g : g = [n \in 0..Len(all.order) |->
                              IF n = 0 THEN <<>>
                              ELSE Tell(g[n - 1], all.order[n], all.groups[all.order[n]])]
                IN  told[Len(all.order)]
<1> DEFINE N == Len(sigs)
           V == Accumulators
           first == NoGroups
           next == [x \in (1..N) \X V |-> Group(sigs, x[2], x[1])]
           Def(g, n) == IF n = 0 THEN first ELSE Group(sigs, g[n - 1], n)
           seen == CHOOSE g : g = [n \in 0..N |-> Def(g, n)]
<1>1. N \in Nat
  OBVIOUS
<1>2. FindSignatureCollisions(sigs) =
        LET all == seen[N]
            told == CHOOSE g : g = [n \in 0..Len(all.order) |->
                      IF n = 0 THEN <<>>
                      ELSE Tell(g[n - 1], all.order[n], all.groups[all.order[n]])]
        IN  told[Len(all.order)]
  BY DEF FindSignatureCollisions
<1>3. first \in V
  <2>1. <<>> \in [{} -> Seq(Nat)] /\ {} \in SUBSET Nat /\ <<>> \in Seq(Nat)
    OBVIOUS
  <2> QED
    BY <2>1 DEF NoGroups, Accumulators
<1>4. \A n \in 1..N, acc \in V : Group(sigs, acc, n) \in V
  BY GroupType
<1> HIDE DEF N, V
<1>5. next \in StepsIn(N, V)
  BY <1>4 DEF StepsIn
<1>6. \A n \in 1..N, acc \in V : next[<<n, acc>>] = Group(sigs, acc, n)
  OBVIOUS
<1> HIDE DEF first, next
<1>7. PICK f : Solution(f, N, V, first, next)
  BY <1>1, <1>3, <1>5, RecursionOnSets
<1>8. \A n \in 0..N : f[n] = Def(f, n)
  <2> TAKE n \in 0..N
  <2>1. CASE n = 0
    BY <1>7, <2>1 DEF Solution
  <2>2. CASE n # 0
    <3>1. n \in 1..N /\ n - 1 \in 0..N
      BY <1>1, <2>2
    <3> QED
      BY <1>6, <1>7, <2>2, <3>1 DEF Solution
  <2> QED
    BY <2>1, <2>2
<1> HIDE DEF Def
<1>9. f = [n \in 0..N |-> Def(f, n)]
  BY <1>7, <1>8 DEF Solution
<1>10. seen = [n \in 0..N |-> Def(seen, n)]
  BY <1>9
<1> HIDE DEF seen
<1>11. \A n \in 0..N : seen[n] = Def(seen, n)
  BY <1>10
<1>12. seen[0] = first
  BY <1>1, <1>11 DEF Def
<1>13. \A n \in 1..N : seen[n] = Group(sigs, seen[n - 1], n)
  <2> TAKE n \in 1..N
  <2>1. n \in 0..N /\ n # 0
    BY <1>1
  <2> QED
    BY <1>11, <2>1 DEF Def
<1> QED
  BY <1>2, <1>12, <1>13 DEF N, first

\* The groups that w disks leave, and the signatures in their order.
LEMMA AllGrouped ==
  ASSUME NEW sigs \in Seq(Nat), NEW seen, seen[0] = NoGroups,
         \A n \in 1..Len(sigs) : seen[n] = Group(sigs, seen[n - 1], n)
  PROVE  Grouped(seen[Len(sigs)], sigs, Len(sigs))
<1> DEFINE S == { w \in Nat : w <= Len(sigs) => Grouped(seen[w], sigs, w) }
<1>1. Len(sigs) \in Nat
  OBVIOUS
<1>2. 0 \in S
  <2>1. seen[0].order = <<>> /\ seen[0].groups = <<>>
    BY DEF NoGroups
  <2>2. /\ <<>> \in Seq(Nat) /\ Len(<<>>) = 0 /\ DOMAIN <<>> = {} /\ 1..0 = {}
    OBVIOUS
  <2>3. Grouped(seen[0], sigs, 0)
    BY <2>1, <2>2, Zenon DEF Grouped
  <2> QED
    BY <2>3
<1>3. ASSUME NEW w \in Nat, w \in S PROVE w + 1 \in S
  <2> SUFFICES ASSUME w + 1 <= Len(sigs) PROVE Grouped(seen[w + 1], sigs, w + 1)
    OBVIOUS
  <2>1. Grouped(seen[w], sigs, w) /\ w + 1 \in 1..Len(sigs) /\ (w + 1) - 1 = w
    BY <1>1, <1>3
  <2>2. seen[w + 1] = Group(sigs, seen[w], w + 1)
    BY <2>1
  <2> QED
    BY <2>1, <2>2, GroupOneMore
<1> HIDE DEF S
<1>4. Len(sigs) \in S
  BY <1>1, <1>2, <1>3, NatInductionOnSets
<1> QED
  BY <1>1, <1>4 DEF S

\* What the second loop tells of the first w signatures of the order O.
Told(out, O, G, w) ==
    /\ out \in Seq([signature : Nat, members : Seq(Nat)])
    /\ \A n \in 1..Len(out) : \E k \in 1..w : /\ out[n].signature = O[k]
                                              /\ out[n].members = G[O[k]]
                                              /\ Len(G[O[k]]) >= 2
    /\ \A k \in 1..w : Len(G[O[k]]) >= 2 => \E n \in 1..Len(out) : out[n].signature = O[k]
    /\ \A i, j \in 1..Len(out) : i < j => out[i].members[1] < out[j].members[1]

\* One turn of the second loop.
LEMMA TellOneMore ==
  ASSUME NEW O \in Seq(Nat), NEW G, NEW w \in Nat, w + 1 <= Len(O), NEW out,
         \A n \in 1..Len(O) : G[O[n]] \in Seq(Nat),
         \A i, j \in 1..Len(O) : i < j => G[O[i]][1] < G[O[j]][1],
         Told(out, O, G, w)
  PROVE  Told(Tell(out, O[w + 1], G[O[w + 1]]), O, G, w + 1)
<1> DEFINE R == [signature : Nat, members : Seq(Nat)]
           s == O[w + 1]
           m == G[s]
           r == [signature |-> s, members |-> m]
<1>1. /\ out \in Seq(R) /\ Len(out) \in Nat
      /\ \A k \in 1..(w + 1) : k \in 1..w \/ k = w + 1
      /\ \A k \in 1..w : k \in 1..(w + 1)
  BY DEF Told
<1>2. /\ \A n \in 1..Len(out) : \E k \in 1..w : /\ out[n].signature = O[k]
                                                /\ out[n].members = G[O[k]]
                                                /\ Len(G[O[k]]) >= 2
      /\ \A k \in 1..w : Len(G[O[k]]) >= 2 => \E n \in 1..Len(out) : out[n].signature = O[k]
      /\ \A i, j \in 1..Len(out) : i < j => out[i].members[1] < out[j].members[1]
  BY DEF Told
<1>3. s \in Nat /\ m \in Seq(Nat) /\ w + 1 \in 1..Len(O)
  OBVIOUS
<1>4. r \in R /\ r.signature = s /\ r.members = m
  BY <1>3
<1>5. CASE Len(m) >= 2
  <2> DEFINE q == Append(out, r)
  <2>1. Tell(out, s, m) = q
    BY <1>5 DEF Tell
  <2> HIDE DEF R, r
  <2>2. /\ q \in Seq(R) /\ Len(q) = Len(out) + 1 /\ q[Len(out) + 1] = r
        /\ \A n \in 1..Len(out) : q[n] = out[n]
    BY <1>1, <1>4
  <2> HIDE DEF q
  <2>3. /\ \A n \in 1..Len(q) : n \in 1..Len(out) \/ n = Len(out) + 1
        /\ \A n \in 1..Len(out) : n \in 1..Len(q)
        /\ Len(out) + 1 \in 1..Len(q)
    BY <1>1, <2>2
  <2>4. ASSUME NEW n \in 1..Len(q)
        PROVE  \E k \in 1..(w + 1) : /\ q[n].signature = O[k]
                                     /\ q[n].members = G[O[k]]
                                     /\ Len(G[O[k]]) >= 2
    <3>1. CASE n \in 1..Len(out)
      BY <1>1, <1>2, <2>2, <3>1, Zenon
    <3>2. CASE n = Len(out) + 1
      <4>1. q[n].signature = O[w + 1] /\ q[n].members = G[O[w + 1]]
        BY <1>4, <2>2, <3>2
      <4>2. w + 1 \in 1..(w + 1)
        OBVIOUS
      <4> QED
        BY <1>5, <4>1, <4>2
    <3> QED
      BY <2>3, <3>1, <3>2
  <2>5. ASSUME NEW k \in 1..(w + 1), Len(G[O[k]]) >= 2
        PROVE  \E n \in 1..Len(q) : q[n].signature = O[k]
    <3>1. CASE k \in 1..w
      <4>1. PICK n \in 1..Len(out) : out[n].signature = O[k]
        BY <1>2, <2>5, <3>1
      <4> QED
        BY <2>2, <2>3, <4>1
    <3>2. CASE k = w + 1
      BY <1>4, <2>2, <2>3, <3>2
    <3> QED
      BY <1>1, <3>1, <3>2
  <2>6. ASSUME NEW i \in 1..Len(q), NEW j \in 1..Len(q), i < j
        PROVE  q[i].members[1] < q[j].members[1]
    <3>1. i \in 1..Len(out) /\ q[i] = out[i]
      BY <1>1, <2>2, <2>6
    <3>2. CASE j \in 1..Len(out)
      BY <1>2, <2>2, <2>6, <3>1, <3>2
    <3>3. CASE j = Len(out) + 1
      <4>1. PICK k \in 1..w : out[i].members = G[O[k]]
        BY <1>2, <3>1
      <4>2. k \in 1..Len(O) /\ k < w + 1
        BY <1>3
      <4>3. G[O[k]][1] < m[1]
        BY <1>3, <4>2
      <4>4. q[j].members = m
        BY <1>4, <2>2, <3>3
      <4> QED
        BY <3>1, <4>1, <4>3, <4>4
    <3> QED
      BY <2>3, <3>2, <3>3
  <2>7. Told(q, O, G, w + 1)
    BY <2>2, <2>4, <2>5, <2>6, Zenon DEF Told, R
  <2> QED
    BY <2>1, <2>7
<1>6. CASE ~(Len(m) >= 2)
  <2>1. Tell(out, s, m) = out
    BY <1>6 DEF Tell
  <2>2. \A k \in 1..(w + 1) : Len(G[O[k]]) >= 2 => k \in 1..w
    BY <1>1, <1>6
  <2>3. Told(out, O, G, w + 1)
    BY <1>1, <1>2, <2>2, Zenon DEF Told
  <2> QED
    BY <2>1, <2>3
<1> QED
  BY <1>5, <1>6

\* The second loop over all the signatures.
LEMMA AllTold ==
  ASSUME NEW O \in Seq(Nat), NEW G,
         \A n \in 1..Len(O) : G[O[n]] \in Seq(Nat),
         \A i, j \in 1..Len(O) : i < j => G[O[i]][1] < G[O[j]][1]
  PROVE  LET told == CHOOSE g : g = [n \in 0..Len(O) |->
                       IF n = 0 THEN <<>> ELSE Tell(g[n - 1], O[n], G[O[n]])]
         IN  Told(told[Len(O)], O, G, Len(O))
<1> DEFINE N == Len(O)
           R == [signature : Nat, members : Seq(Nat)]
           V == Seq(R)
           next == [x \in (1..N) \X V |-> Tell(x[2], O[x[1]], G[O[x[1]]])]
           Def(g, n) == IF n = 0 THEN <<>> ELSE Tell(g[n - 1], O[n], G[O[n]])
           told == CHOOSE g : g = [n \in 0..N |-> Def(g, n)]
<1>1. N \in Nat /\ \A n \in 1..N : O[n] \in Nat
  OBVIOUS
<1>2. \A n \in 1..N : [signature |-> O[n], members |-> G[O[n]]] \in R
  BY <1>1
<1> HIDE DEF R
<1>3. <<>> \in V
  OBVIOUS
<1>4. \A n \in 1..N, out \in V : Tell(out, O[n], G[O[n]]) \in V
  BY <1>2 DEF Tell
<1> HIDE DEF N, V
<1>5. next \in StepsIn(N, V)
  BY <1>4 DEF StepsIn
<1>6. \A n \in 1..N, out \in V : next[<<n, out>>] = Tell(out, O[n], G[O[n]])
  OBVIOUS
<1> HIDE DEF next
<1>7. PICK f : Solution(f, N, V, <<>>, next)
  BY <1>1, <1>3, <1>5, RecursionOnSets
<1>8. \A n \in 0..N : f[n] = Def(f, n)
  <2> TAKE n \in 0..N
  <2>1. CASE n = 0
    BY <1>7, <2>1 DEF Solution
  <2>2. CASE n # 0
    <3>1. n \in 1..N /\ n - 1 \in 0..N
      BY <1>1, <2>2
    <3> QED
      BY <1>6, <1>7, <2>2, <3>1 DEF Solution
  <2> QED
    BY <2>1, <2>2
<1> HIDE DEF Def
<1>9. f = [n \in 0..N |-> Def(f, n)]
  BY <1>7, <1>8 DEF Solution
<1>10. told = [n \in 0..N |-> Def(told, n)]
  BY <1>9
<1> DEFINE S == { w \in Nat : w <= N => Told(told[w], O, G, w) }
<1> HIDE DEF told
<1>11. \A n \in 0..N : told[n] = Def(told, n)
  BY <1>10
<1>12. 0 \in S
  <2>1. told[0] = <<>>
    BY <1>1, <1>11 DEF Def
  <2>2. /\ <<>> \in Seq([signature : Nat, members : Seq(Nat)])
        /\ Len(<<>>) = 0 /\ 1..0 = {}
    OBVIOUS
  <2>3. Told(told[0], O, G, 0)
    BY <2>1, <2>2, Zenon DEF Told
  <2> QED
    BY <2>3
<1>13. ASSUME NEW w \in Nat, w \in S PROVE w + 1 \in S
  <2> SUFFICES ASSUME w + 1 <= N PROVE Told(told[w + 1], O, G, w + 1)
    OBVIOUS
  <2>1. Told(told[w], O, G, w) /\ w + 1 \in 0..N /\ w + 1 # 0 /\ (w + 1) - 1 = w
    BY <1>1, <1>13
  <2>2. told[w + 1] = Tell(told[w], O[w + 1], G[O[w + 1]])
    BY <1>11, <2>1 DEF Def
  <2>3. Told(Tell(told[w], O[w + 1], G[O[w + 1]]), O, G, w + 1)
    BY <2>1, TellOneMore DEF N
  <2> QED
    BY <2>2, <2>3
<1> HIDE DEF S
<1>14. N \in S
  BY <1>1, <1>12, <1>13, NatInductionOnSets
<1>15. Told(told[N], O, G, N)
  BY <1>1, <1>14 DEF S
<1> QED
  BY <1>15 DEF told, Def, N

\* The disks that carry s, the signatures that two of them share, and the
\* collisions that tell of them.
CarriersOf(sigs, s) == { k - 1 : k \in { j \in 1..Len(sigs) : sigs[j] = s } }
SharedBy(sigs) == { s \in { sigs[k] : k \in 1..Len(sigs) } \ {0} :
                      Cardinality(CarriersOf(sigs, s)) > 1 }
AreTheShared(told, sigs) ==
    /\ { told[n].signature : n \in 1..Len(told) } = SharedBy(sigs)
    /\ Len(told) = Cardinality(SharedBy(sigs))
    /\ \A n \in 1..Len(told) :
         /\ { told[n].members[k] : k \in 1..Len(told[n].members) }
              = CarriersOf(sigs, told[n].signature)
         /\ \A k \in 1..(Len(told[n].members) - 1) :
              told[n].members[k] < told[n].members[k + 1]
    /\ \A n \in 1..(Len(told) - 1) : told[n].members[1] < told[n + 1].members[1]

\* A list of the disks that carry s has them all, once each.
LEMMA ListsCarriers ==
  ASSUME NEW sigs \in Seq(Nat), NEW s, NEW m, Lists(m, sigs, s, Len(sigs))
  PROVE  /\ { m[k] : k \in 1..Len(m) } = CarriersOf(sigs, s)
         /\ Cardinality(CarriersOf(sigs, s)) = Len(m)
         /\ \A k \in 1..(Len(m) - 1) : m[k] < m[k + 1]
<1> DEFINE C == CarriersOf(sigs, s)
<1>1. m \in Seq(Nat) /\ Len(m) \in Nat /\ \A k \in 1..Len(m) : m[k] \in Nat
  BY DEF Lists
<1>2. ASSUME NEW k \in 1..Len(m) PROVE m[k] \in C
  <2>1. m[k] \in Nat /\ m[k] + 1 \in 1..Len(sigs) /\ sigs[m[k] + 1] = s
    BY <1>1 DEF Lists
  <2>2. (m[k] + 1) - 1 = m[k]
    BY <2>1
  <2> QED
    BY <2>1, <2>2 DEF CarriersOf
<1>3. ASSUME NEW c \in C PROVE \E k \in 1..Len(m) : m[k] = c
  <2>1. PICK j \in 1..Len(sigs) : sigs[j] = s /\ c = j - 1
    BY <1>3 DEF CarriersOf
  <2> QED
    BY <2>1 DEF Lists
<1>4. { m[k] : k \in 1..Len(m) } = C
  BY <1>2, <1>3, Zenon
<1>5. \A i, j \in 1..Len(m) : i < j => m[i] < m[j]
  BY DEF Lists
<1>6. Cardinality(C) = Len(m)
  <2> DEFINE f == [k \in 1..Len(m) |-> m[k]]
  <2> HIDE DEF C
  <2>1. f \in [1..Len(m) -> C] /\ \A k \in 1..Len(m) : f[k] = m[k]
    BY <1>2
  <2> HIDE DEF f
  <2>2. \A i, j \in 1..Len(m) : f[i] = f[j] => i = j
    <3> TAKE i, j \in 1..Len(m)
    <3> HAVE f[i] = f[j]
    <3>1. m[i] = m[j] /\ m[i] \in Nat
      BY <1>1, <2>1
    <3>2. ~(i < j) /\ ~(j < i)
      BY <1>5, <3>1
    <3> QED
      BY <1>1, <3>2
  <2>3. \A c \in C : \E k \in 1..Len(m) : f[k] = c
    BY <1>3, <2>1
  <2> QED
    BY <1>1, <2>1, <2>2, <2>3, CountedBy
<1>7. \A k \in 1..(Len(m) - 1) : m[k] < m[k + 1]
  <2> TAKE k \in 1..(Len(m) - 1)
  <2>1. k \in 1..Len(m) /\ k + 1 \in 1..Len(m) /\ k < k + 1
    BY <1>1
  <2> QED
    BY <1>5, <2>1
<1> QED
  BY <1>4, <1>6, <1>7

\* What find_signature_collisions delivers.
LEMMA CollisionsExact ==
  ASSUME NEW sigs \in Seq(Nat)
  PROVE  AreTheShared(FindSignatureCollisions(sigs), sigs)
<1> DEFINE N == Len(sigs)
           found == FindSignatureCollisions(sigs)
           C(s) == CarriersOf(sigs, s)
           Sh == SharedBy(sigs)
<1>1. PICK seen :
        /\ seen[0] = NoGroups
        /\ \A n \in 1..Len(sigs) : seen[n] = Group(sigs, seen[n - 1], n)
        /\ FindSignatureCollisions(sigs) =
             LET all == seen[Len(sigs)]
                 told == CHOOSE g : g = [n \in 0..Len(all.order) |->
                           IF n = 0 THEN <<>>
                           ELSE Tell(g[n - 1], all.order[n], all.groups[all.order[n]])]
             IN  told[Len(all.order)]
  BY CollisionsRec
<1> DEFINE all == seen[N]
           O == all.order
           G == all.groups
<1>2. Grouped(all, sigs, N)
  BY <1>1, AllGrouped
<1>3. /\ O \in Seq(Nat)
      /\ \A s : s \in DOMAIN G <=> s # 0 /\ \E k \in 1..N : sigs[k] = s
      /\ \A s \in DOMAIN G : Lists(G[s], sigs, s, N)
      /\ \A n \in 1..Len(O) : O[n] \in DOMAIN G
      /\ \A s \in DOMAIN G : \E n \in 1..Len(O) : O[n] = s
      /\ \A i, j \in 1..Len(O) : i < j => G[O[i]][1] < G[O[j]][1]
  BY <1>2 DEF Grouped
<1>4. \A n \in 1..Len(O) : G[O[n]] \in Seq(Nat)
  BY <1>3 DEF Lists
<1>5. found = LET told == CHOOSE g : g = [n \in 0..Len(O) |->
                            IF n = 0 THEN <<>> ELSE Tell(g[n - 1], O[n], G[O[n]])]
              IN  told[Len(O)]
  BY <1>1
<1> HIDE DEF O, G, found
<1>6. Told(found, O, G, Len(O))
  BY <1>3, <1>4, <1>5, AllTold
<1>7. /\ found \in Seq([signature : Nat, members : Seq(Nat)]) /\ Len(found) \in Nat
      /\ \A n \in 1..Len(found) : \E k \in 1..Len(O) : /\ found[n].signature = O[k]
                                                       /\ found[n].members = G[O[k]]
                                                       /\ Len(G[O[k]]) >= 2
      /\ \A k \in 1..Len(O) : Len(G[O[k]]) >= 2 =>
           \E n \in 1..Len(found) : found[n].signature = O[k]
      /\ \A i, j \in 1..Len(found) : i < j => found[i].members[1] < found[j].members[1]
  BY <1>6 DEF Told
<1>8. \A n \in 1..Len(found) : /\ found[n].signature \in DOMAIN G
                               /\ found[n].members = G[found[n].signature]
                               /\ Len(found[n].members) >= 2
  <2> TAKE n \in 1..Len(found)
  <2>1. PICK k \in 1..Len(O) : /\ found[n].signature = O[k]
                               /\ found[n].members = G[O[k]]
                               /\ Len(G[O[k]]) >= 2
    BY <1>7
  <2> QED
    BY <1>3, <2>1
<1>9. \A s \in DOMAIN G : /\ { G[s][k] : k \in 1..Len(G[s]) } = C(s)
                          /\ Cardinality(C(s)) = Len(G[s])
                          /\ \A k \in 1..(Len(G[s]) - 1) : G[s][k] < G[s][k + 1]
  BY <1>3, ListsCarriers
<1>10. \A s : s \in Sh <=> s \in DOMAIN G /\ Len(G[s]) >= 2
  <2> TAKE s
  <2>1. s \in Sh <=> s \in DOMAIN G /\ Cardinality(C(s)) > 1
    BY <1>3 DEF SharedBy
  <2>2. ASSUME s \in DOMAIN G PROVE Cardinality(C(s)) > 1 <=> Len(G[s]) >= 2
    <3>1. Cardinality(C(s)) = Len(G[s]) /\ G[s] \in Seq(Nat)
      BY <1>3, <1>9, <2>2 DEF Lists
    <3>2. Len(G[s]) \in Nat
      BY <3>1
    <3>3. \A q \in Nat : q > 1 <=> q >= 2
      OBVIOUS
    <3> QED
      BY <3>1, <3>2, <3>3, Zenon
  <2> QED
    BY <2>1, <2>2, Zenon
<1> HIDE DEF Sh
<1>11. ASSUME NEW n \in 1..Len(found) PROVE found[n].signature \in Sh
  BY <1>8, <1>10
<1>12. ASSUME NEW s \in Sh PROVE \E n \in 1..Len(found) : found[n].signature = s
  <2>1. s \in DOMAIN G /\ Len(G[s]) >= 2
    BY <1>10
  <2>2. PICK k \in 1..Len(O) : O[k] = s
    BY <1>3, <2>1
  <2> QED
    BY <1>7, <2>1, <2>2
<1>13. { found[n].signature : n \in 1..Len(found) } = Sh
  BY <1>11, <1>12, Zenon
<1>14. Len(found) = Cardinality(Sh)
  <2> DEFINE f == [n \in 1..Len(found) |-> found[n].signature]
  <2>1. f \in [1..Len(found) -> Sh] /\ \A n \in 1..Len(found) : f[n] = found[n].signature
    BY <1>11
  <2> HIDE DEF f
  <2>2. \A i, j \in 1..Len(found) : f[i] = f[j] => i = j
    <3> TAKE i, j \in 1..Len(found)
    <3> HAVE f[i] = f[j]
    <3>1. found[i].members = found[j].members
      BY <1>8, <2>1
    <3>2. found[i].members[1] \in Nat
      <4> DEFINE m == found[i].members
      <4>1. m \in Seq(Nat) /\ Len(m) >= 2
        <5>1. found[i].signature \in DOMAIN G /\ m = G[found[i].signature] /\ Len(m) >= 2
          BY <1>8
        <5> QED
          BY <1>3, <5>1 DEF Lists
      <4> HIDE DEF m
      <4>2. m[1] \in Nat
        BY <4>1
      <4> QED
        BY <4>2 DEF m
    <3>3. \A q \in Nat : ~(q < q)
      OBVIOUS
    <3>4. ~(i < j) /\ ~(j < i)
      BY <1>7, <3>1, <3>2, <3>3, Zenon
    <3> QED
      BY <1>7, <3>4
  <2>3. \A s \in Sh : \E n \in 1..Len(found) : f[n] = s
    BY <1>12, <2>1
  <2> DEFINE L == Len(found)
  <2>4. /\ L \in Nat /\ f \in [1..L -> Sh]
        /\ \A i, j \in 1..L : f[i] = f[j] => i = j
        /\ \A s \in Sh : \E n \in 1..L : f[n] = s
    BY <1>7, <2>1, <2>2, <2>3
  <2> HIDE DEF L
  <2>5. Cardinality(Sh) = L
    BY <2>4, CountedBy
  <2> QED
    BY <2>5 DEF L
<1>15. ASSUME NEW n \in 1..Len(found)
       PROVE  /\ { found[n].members[k] : k \in 1..Len(found[n].members) }
                   = C(found[n].signature)
              /\ \A k \in 1..(Len(found[n].members) - 1) :
                   found[n].members[k] < found[n].members[k + 1]
  BY <1>8, <1>9, Zenon
<1>16. \A n \in 1..(Len(found) - 1) : found[n].members[1] < found[n + 1].members[1]
  <2> TAKE n \in 1..(Len(found) - 1)
  <2>1. n \in 1..Len(found) /\ n + 1 \in 1..Len(found) /\ n < n + 1
    BY <1>7
  <2> QED
    BY <1>7, <2>1, Zenon
<1>17. AreTheShared(found, sigs)
  BY <1>13, <1>14, <1>15, <1>16, Zenon DEF AreTheShared, Sh
<1> QED
  BY <1>17 DEF found

\* find_signature_collisions tells of exactly the set signatures that two disks
\* or more share, with all their disks, in the order of first appearance.
THEOREM CollisionsAreExact == Spec => []CollisionsAreTheSharedSignatures
<1>1. Init => CollisionsAreTheSharedSignatures
  BY DEF Init, CollisionsAreTheSharedSignatures
<1>2. CollisionsAreTheSharedSignatures /\ [Next]_vars => CollisionsAreTheSharedSignatures'
  <2> SUFFICES ASSUME CollisionsAreTheSharedSignatures, [Next]_vars
               PROVE  CollisionsAreTheSharedSignatures'
    OBVIOUS
  <2>1. CASE CallCollisions
    <3>1. PICK sigs \in SignatureLists : /\ args' = [signatures |-> sigs]
                                         /\ result' = FindSignatureCollisions(sigs)
      BY <2>1 DEF CallCollisions
    <3>2. sigs \in Seq(Nat) /\ args'.signatures = sigs
      BY <3>1, ArgumentsAssumption
    <3>3. AreTheShared(result', args'.signatures)
      BY <3>1, <3>2, CollisionsExact
    <3> QED
      BY <3>3 DEF AreTheShared, CollisionsAreTheSharedSignatures, CarriersOf, SharedBy
  <2>2. CASE UNCHANGED vars
    <3>1. fn = "collisions" => AreTheShared(result, args.signatures)
      BY DEF AreTheShared, CollisionsAreTheSharedSignatures, CarriersOf, SharedBy
    <3>2. fn' = "collisions" => AreTheShared(result', args'.signatures)
      BY <2>2, <3>1 DEF vars
    <3> QED
      BY <3>2 DEF AreTheShared, CollisionsAreTheSharedSignatures, CarriersOf, SharedBy
  <2>3. CASE CallChs \/ CallClassify \/ CallCarve \/ CallStrings \/ CallDetect
    BY <2>3 DEF CallChs, CallClassify, CallCarve, CallStrings, CallDetect,
                CollisionsAreTheSharedSignatures
  <2> QED
    BY <2>1, <2>2, <2>3 DEF Next
<1> QED
  BY <1>1, <1>2, PTL DEF Spec
=============================================================================
