---------------------------- MODULE CarveProofs ----------------------------
(***************************************************************************)
(* What carve delivers, for every table of file headers and every data:    *)
(* offsets inside the data.  The matches of a magic and the concatenation  *)
(* of the lists of matches are recursive functions; facts about them are   *)
(* proved by induction with a set in the place of a predicate.             *)
(***************************************************************************)
EXTENDS Carve, StableSortProofs, WellFoundedInduction, SequenceTheorems, TLAPS

\* Induction over the naturals with a set in the place of a predicate: the
\* least natural number outside S cannot exist.
LEMMA NatInductionOnSets ==
  ASSUME NEW S, 0 \in S, \A n \in Nat : n \in S => n + 1 \in S
  PROVE  Nat \subseteq S
<1> DEFINE R == { ss \in Nat \X Nat : ss[1] < ss[2] }
           T == Nat \ S
<1> SUFFICES ASSUME T # {} PROVE FALSE
  OBVIOUS
<1>1. IsWellFoundedOn(R, Nat)
  BY NatLessThanWellFounded DEF OpToRel
<1>2. \A x, y \in Nat : x < y => <<x, y>> \in R
  OBVIOUS
<1> HIDE DEF R
<1>3. PICK x \in T : \A y \in T : <<y, x>> \notin R
  BY <1>1, WFMin
<1>4. x - 1 \in Nat /\ x - 1 < x
  BY <1>3
<1>5. x - 1 \in S
  BY <1>2, <1>3, <1>4
<1> QED
  BY <1>3, <1>4, <1>5

\* The list of matches, window by window.
LEMMA MatchesRec ==
  ASSUME NEW m \in Seq(Nat), NEW data, Len(data) \in Nat, ~TooLong(m, data)
  PROVE  LET W == Len(data) - Len(m) + 1 IN
         /\ W \in Nat /\ W <= Len(data) /\ Len(m) \in Nat \ {0}
         /\ \E found :
              /\ Matches(m, data) = found[W]
              /\ found[0] = <<>>
              /\ \A n \in 1..W : found[n] = IF SubSeq(data, n, n + Len(m) - 1) = m
                                            THEN Append(found[n - 1], n - 1)
                                            ELSE found[n - 1]
<1> DEFINE W == Len(data) - Len(m) + 1
           Hit(n) == SubSeq(data, n, n + Len(m) - 1) = m
           Def(g, n) == IF n = 0 THEN <<>>
                        ELSE IF Hit(n) THEN Append(g[n - 1], n - 1)
                        ELSE g[n - 1]
           found == CHOOSE g : g = [n \in 0..W |-> Def(g, n)]
           Good == { w \in Nat : \E g : g = [n \in 0..w |-> Def(g, n)] }
<1>1. W \in Nat /\ W <= Len(data) /\ Len(m) \in Nat \ {0}
  BY DEF TooLong
<1>2. Matches(m, data) = found[W]
  BY DEF Matches
<1> HIDE DEF W
<1>3. \A g, h, n : (n # 0 => g[n - 1] = h[n - 1]) => Def(g, n) = Def(h, n)
  <2> HIDE DEF Hit
  <2> QED
    OBVIOUS
<1>4. \A g : Def(g, 0) = <<>>
  OBVIOUS
<1> HIDE DEF Def
<1>5. 0 \in Good
  <2> DEFINE g == [n \in 0..0 |-> <<>>]
  <2>1. \A n \in 0..0 : Def(g, n) = <<>>
    BY <1>4
  <2>2. g = [n \in 0..0 |-> Def(g, n)]
    BY <2>1
  <2> QED
    BY <2>2
<1>6. ASSUME NEW w \in Nat, w \in Good
      PROVE  w + 1 \in Good
  <2>1. PICK g : g = [n \in 0..w |-> Def(g, n)]
    BY <1>6
  <2> DEFINE h == [n \in 0..(w + 1) |-> IF n = w + 1 THEN Def(g, n) ELSE g[n]]
  <2>2. \A n \in 0..w : g[n] = Def(g, n)
    BY <2>1
  <2>3. \A n \in 0..(w + 1) : h[n] = Def(g, n)
    BY <2>2
  <2>4. \A n \in 0..w : h[n] = g[n]
    OBVIOUS
  <2> HIDE DEF h
  <2>5. \A n \in 0..(w + 1) : Def(h, n) = Def(g, n)
    <3> TAKE n \in 0..(w + 1)
    <3>1. n # 0 => n - 1 \in 0..w
      OBVIOUS
    <3> QED
      BY <1>3, <2>4, <3>1
  <2>6. h = [n \in 0..(w + 1) |-> Def(h, n)]
    <3>1. h = [n \in 0..(w + 1) |-> h[n]]
      BY DEF h
    <3> QED
      BY <2>3, <2>5, <3>1
  <2> QED
    BY <2>6
<1>7. W \in Good
  <2> HIDE DEF Good
  <2> QED
    BY <1>1, <1>5, <1>6, NatInductionOnSets
<1>8. found = [n \in 0..W |-> Def(found, n)]
  BY <1>7
<1> HIDE DEF found
<1>9. \A n \in 0..W : found[n] = Def(found, n)
  BY <1>8
<1>10. found[0] = <<>>
  BY <1>1, <1>4, <1>9
<1>11. \A n \in 1..W : found[n] = IF Hit(n) THEN Append(found[n - 1], n - 1) ELSE found[n - 1]
  <2> TAKE n \in 1..W
  <2>1. n \in 0..W /\ n # 0
    BY <1>1
  <2> QED
    BY <1>9, <2>1 DEF Def
<1> QED
  BY <1>1, <1>2, <1>10, <1>11 DEF W

\* The windows that match a magic lie inside the data.
LEMMA MatchesType ==
  ASSUME NEW m \in Seq(Nat), NEW data, Len(data) \in Nat
  PROVE  Matches(m, data) \in Seq(0..(Len(data) - 1))
<1> DEFINE W == Len(data) - Len(m) + 1
           D == 0..(Len(data) - 1)
<1>1. CASE TooLong(m, data)
  BY <1>1 DEF Matches
<1>2. CASE ~TooLong(m, data)
  <2>1. W \in Nat /\ W <= Len(data)
    BY <1>2, MatchesRec
  <2>2. PICK found :
          /\ Matches(m, data) = found[W]
          /\ found[0] = <<>>
          /\ \A n \in 1..W : found[n] = IF SubSeq(data, n, n + Len(m) - 1) = m
                                        THEN Append(found[n - 1], n - 1)
                                        ELSE found[n - 1]
    BY <1>2, MatchesRec
  <2> DEFINE Typed == { w \in Nat : w <= W => found[w] \in Seq(D) }
  <2> HIDE DEF W
  <2>3. 0 \in Typed
    <3>1. <<>> \in Seq(D)
      OBVIOUS
    <3> HIDE DEF D
    <3> QED
      BY <2>2, <3>1
  <2>4. ASSUME NEW w \in Nat, w \in Typed
        PROVE  w + 1 \in Typed
    <3> SUFFICES ASSUME w + 1 <= W PROVE found[w + 1] \in Seq(D)
      OBVIOUS
    <3>1. found[w] \in Seq(D) /\ w + 1 \in 1..W /\ (w + 1) - 1 = w /\ w \in D
      BY <2>1, <2>4
    <3>2. found[w + 1] = Append(found[w], w) \/ found[w + 1] = found[w]
      BY <2>2, <3>1, Zenon
    <3> HIDE DEF D
    <3>3. Append(found[w], w) \in Seq(D)
      BY <3>1
    <3> QED
      BY <3>1, <3>2, <3>3
  <2> HIDE DEF Typed
  <2>5. W \in Typed
    BY <2>1, <2>3, <2>4, NatInductionOnSets
  <2> QED
    BY <2>1, <2>2, <2>5 DEF Typed
<1> QED
  BY <1>1, <1>2

\* Flattening appends one sequence after the other.
LEMMA FlattenRec ==
  ASSUME NEW T, NEW s \in Seq(Seq(T)), Len(s) # 0
  PROVE  \E flat : /\ FlattenSeq(s) = flat[Len(s)]
                   /\ flat[1] = s[1]
                   /\ \A n \in 2..Len(s) : flat[n] = flat[n - 1] \o s[n]
<1> DEFINE N == Len(s)
           Def(g, n) == IF n = 1 THEN s[n] ELSE g[n - 1] \o s[n]
           flat == CHOOSE g : g = [n \in 1..N |-> Def(g, n)]
           Good == { w \in Nat : \E g : g = [n \in 1..w |-> Def(g, n)] }
<1>1. N \in Nat \ {0} /\ FlattenSeq(s) = flat[N]
  BY DEF FlattenSeq
<1> HIDE DEF N
<1>2. \A g, h, n : (n # 1 => g[n - 1] = h[n - 1]) => Def(g, n) = Def(h, n)
  OBVIOUS
<1> HIDE DEF Def
<1>3. 0 \in Good
  <2> DEFINE g == [n \in 1..0 |-> <<>>]
  <2>1. g = [n \in 1..0 |-> Def(g, n)]
    OBVIOUS
  <2> QED
    BY <2>1
<1>4. ASSUME NEW w \in Nat, w \in Good
      PROVE  w + 1 \in Good
  <2>1. PICK g : g = [n \in 1..w |-> Def(g, n)]
    BY <1>4
  <2> DEFINE h == [n \in 1..(w + 1) |-> IF n = w + 1 THEN Def(g, n) ELSE g[n]]
  <2>2. \A n \in 1..w : g[n] = Def(g, n)
    BY <2>1
  <2>3. \A n \in 1..(w + 1) : h[n] = Def(g, n)
    BY <2>2
  <2>4. \A n \in 1..w : h[n] = g[n]
    OBVIOUS
  <2> HIDE DEF h
  <2>5. \A n \in 1..(w + 1) : Def(h, n) = Def(g, n)
    <3> TAKE n \in 1..(w + 1)
    <3>1. n # 1 => n - 1 \in 1..w
      OBVIOUS
    <3> QED
      BY <1>2, <2>4, <3>1
  <2>6. h = [n \in 1..(w + 1) |-> Def(h, n)]
    <3>1. h = [n \in 1..(w + 1) |-> h[n]]
      BY DEF h
    <3> QED
      BY <2>3, <2>5, <3>1
  <2> QED
    BY <2>6
<1>5. N \in Good
  <2> HIDE DEF Good
  <2> QED
    BY <1>1, <1>3, <1>4, NatInductionOnSets
<1>6. flat = [n \in 1..N |-> Def(flat, n)]
  BY <1>5
<1> HIDE DEF flat
<1>7. \A n \in 1..N : flat[n] = Def(flat, n)
  BY <1>6
<1>8. flat[1] = s[1]
  <2>1. 1 \in 1..N
    BY <1>1
  <2> QED
    BY <1>7, <2>1 DEF Def
<1>9. \A n \in 2..N : flat[n] = flat[n - 1] \o s[n]
  <2> TAKE n \in 2..N
  <2>1. n \in 1..N /\ n # 1
    BY <1>1
  <2> QED
    BY <1>7, <2>1 DEF Def
<1> QED
  BY <1>1, <1>8, <1>9 DEF N

\* Flattening a sequence of sequences over T gives a sequence over T.
LEMMA FlattenType ==
  ASSUME NEW T, NEW s \in Seq(Seq(T))
  PROVE  FlattenSeq(s) \in Seq(T)
<1>1. CASE Len(s) = 0
  <2>1. s = <<>>
    BY <1>1
  <2>2. FlattenSeq(s) = <<>>
    BY <1>1, <2>1 DEF FlattenSeq
  <2>3. <<>> \in Seq(T)
    OBVIOUS
  <2> QED
    BY <2>2, <2>3
<1>2. CASE Len(s) # 0
  <2>1. PICK flat : /\ FlattenSeq(s) = flat[Len(s)]
                    /\ flat[1] = s[1]
                    /\ \A n \in 2..Len(s) : flat[n] = flat[n - 1] \o s[n]
    BY <1>2, FlattenRec
  <2> DEFINE Typed == { w \in Nat : w + 1 \in 1..Len(s) => flat[w + 1] \in Seq(T) }
  <2>2. Len(s) \in Nat \ {0} /\ \A n \in 1..Len(s) : s[n] \in Seq(T)
    BY <1>2
  <2>3. 0 \in Typed
    BY <2>1, <2>2
  <2>4. ASSUME NEW w \in Nat, w \in Typed
        PROVE  w + 1 \in Typed
    <3> SUFFICES ASSUME w + 2 \in 1..Len(s) PROVE flat[w + 2] \in Seq(T)
      BY <2>2
    <3>1. w + 1 \in 1..Len(s) /\ w + 2 \in 2..Len(s) /\ (w + 2) - 1 = w + 1
      BY <2>2
    <3>2. flat[w + 1] \in Seq(T) /\ flat[w + 2] = flat[w + 1] \o s[w + 2]
      BY <2>1, <2>4, <3>1
    <3> QED
      BY <2>2, <3>2
  <2> HIDE DEF Typed
  <2>5. Len(s) - 1 \in Typed
    <3>1. Len(s) - 1 \in Nat
      BY <2>2
    <3> QED
      BY <2>3, <2>4, <3>1, NatInductionOnSets
  <2> QED
    BY <2>1, <2>2, <2>5 DEF Typed
<1> QED
  BY <1>1, <1>2

\* The matches of every magic, and all of them before they are sorted.
Parts(data, base) ==
    [n \in 1..Len(FILE_MAGICS) |-> CarvedFile(FILE_MAGICS[n], base, data)]
Carved(data, base) == FlattenSeq(Parts(data, base))

\* A carved file that starts inside the data.
Inside(data, base) == [kind : STRING, offset : base..(base + Len(data) - 1)]

\* The types of both.
LEMMA CarvedTypes ==
  ASSUME NEW data, Len(data) \in Nat, NEW base \in Nat
  PROVE  /\ Len(FILE_MAGICS) \in Nat
         /\ Parts(data, base) \in Seq(Seq(Inside(data, base)))
         /\ Carved(data, base) \in Seq(Inside(data, base))
         /\ \A n \in 1..Len(FILE_MAGICS) : FILE_MAGICS[n].magic \in Seq(Nat)
<1> DEFINE H == Inside(data, base)
           N == Len(FILE_MAGICS)
<1>1. \A n \in 1..N : FILE_MAGICS[n] \in [kind : STRING, magic : Seq(Nat)]
  BY MagicsAssumption, ElementOfSeq
<1>2. ASSUME NEW n \in 1..N
      PROVE  CarvedFile(FILE_MAGICS[n], base, data) \in Seq(H)
  <2> DEFINE sig == FILE_MAGICS[n]
             hits == Matches(sig.magic, data)
  <2>1. sig \in [kind : STRING, magic : Seq(Nat)]
    BY <1>1
  <2>2. hits \in Seq(0..(Len(data) - 1))
    BY <2>1, MatchesType
  <2> HIDE DEF hits, sig
  <2>3. \A k \in 1..Len(hits) : [kind |-> sig.kind, offset |-> base + hits[k]] \in H
    BY <2>1, <2>2 DEF Inside
  <2>4. CarvedFile(sig, base, data)
          = [k \in 1..Len(hits) |-> [kind |-> sig.kind, offset |-> base + hits[k]]]
    BY DEF CarvedFile, hits
  <2>5. Len(hits) \in Nat
    BY <2>2
  <2> HIDE DEF H
  <2>6. CarvedFile(sig, base, data) \in Seq(H)
    BY <2>3, <2>4, <2>5
  <2> QED
    BY <2>6 DEF sig
<1>3. N \in Nat
  BY MagicsAssumption, LenProperties
<1>4. Parts(data, base) \in Seq(Seq(H))
  <2> HIDE DEF H
  <2> QED
    BY <1>2, <1>3 DEF Parts
<1>5. Carved(data, base) \in Seq(H)
  <2> HIDE DEF H
  <2> QED
    BY <1>4, FlattenType DEF Carved
<1> QED
  BY <1>1, <1>3, <1>4, <1>5

\* carve delivers a permutation of them that ascends.
LEMMA CarvedSorted ==
  ASSUME NEW data, Len(data) \in Nat, NEW base \in Nat
  PROVE  LET out == Carved(data, base) IN
         /\ Len(out) \in Nat
         /\ \E perm \in [1..Len(out) -> 1..Len(out)] :
              /\ CarveFiles(data, base) = [n \in 1..Len(out) |-> out[perm[n]]]
              /\ \A j \in 1..Len(out) : \E k \in 1..Len(out) : perm[k] = j
              /\ \A k, l \in 1..Len(out) : k < l => out[perm[k]].offset <= out[perm[l]].offset
<1> DEFINE H == Inside(data, base)
           out == Carved(data, base)
           keys == [n \in 1..Len(out) |-> out[n].offset]
           perm == SortPerm(keys)
<1>1. out \in Seq(H)
  BY CarvedTypes
<1>2. CarveFiles(data, base) = [n \in 1..Len(out) |-> out[perm[n]]]
  BY DEF CarveFiles, Carved, Parts
<1> HIDE DEF out, H
<1>3. Len(out) \in Nat
  BY <1>1
<1>4. \A n \in 1..Len(out) : out[n].offset \in Int
  <2> TAKE n \in 1..Len(out)
  <2>1. out[n] \in H
    BY <1>1
  <2> QED
    BY <2>1 DEF H, Inside
<1>5. keys \in Seq(Int) /\ Len(keys) = Len(out)
  BY <1>3, <1>4
<1>6. \A n \in 1..Len(out) : keys[n] = out[n].offset
  OBVIOUS
<1> HIDE DEF keys
<1>7. /\ perm \in [1..Len(out) -> 1..Len(out)]
      /\ \A j \in 1..Len(out) : \E k \in 1..Len(out) : perm[k] = j
      /\ \A k, l \in 1..Len(out) : k < l => Before(keys, perm[k], perm[l])
  BY <1>5, SortPermCorrect
<1> HIDE DEF perm
<1>8. ASSUME NEW k \in 1..Len(out), NEW l \in 1..Len(out), k < l
      PROVE  out[perm[k]].offset <= out[perm[l]].offset
  <2>1. perm[k] \in 1..Len(out) /\ perm[l] \in 1..Len(out)
    BY <1>7
  <2>2. /\ keys[perm[k]] = out[perm[k]].offset /\ keys[perm[l]] = out[perm[l]].offset
        /\ out[perm[k]].offset \in Int /\ out[perm[l]].offset \in Int
    BY <1>4, <1>6, <2>1
  <2>3. Before(keys, perm[k], perm[l])
    BY <1>7, <1>8
  <2> QED
    BY <2>2, <2>3 DEF Before
<1> QED
  BY <1>2, <1>3, <1>7, <1>8 DEF out

\* Every carved file starts inside the data, whatever the table of magics.
LEMMA CarvedInside ==
  ASSUME NEW data, Len(data) \in Nat, NEW base \in Nat
  PROVE  CarveFiles(data, base) \in
           Seq([kind : STRING, offset : base..(base + Len(data) - 1)])
<1> DEFINE out == Carved(data, base)
           H == Inside(data, base)
<1>1. out \in Seq(H)
  BY CarvedTypes
<1>2. PICK perm \in [1..Len(out) -> 1..Len(out)] :
        /\ CarveFiles(data, base) = [n \in 1..Len(out) |-> out[perm[n]]]
        /\ \A j \in 1..Len(out) : \E k \in 1..Len(out) : perm[k] = j
        /\ \A k, l \in 1..Len(out) : k < l => out[perm[k]].offset <= out[perm[l]].offset
  BY CarvedSorted
<1> HIDE DEF out, H
<1>3. CarveFiles(data, base) \in Seq(H)
  BY <1>1, <1>2
<1> QED
  BY <1>3 DEF H, Inside
=============================================================================
