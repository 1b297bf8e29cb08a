------------------------- MODULE TranslationsProofs -------------------------
(***************************************************************************)
(* What the reading of Meta's webhooks promises, for any payload: any      *)
(* number of entries, changes and items, whichever of their parts are      *)
(* missing or broken (MCTranslations, WebhookBatch, InstagramBatch).       *)
(*                                                                         *)
(* A batch is read by flattening sequences of sequences and by adding up   *)
(* results in turn.  Both are recursive functions of an index; the first   *)
(* sections show, by induction on it, which elements they hold and how     *)
(* many.  The others follow a payload down to its items.                   *)
(***************************************************************************)
EXTENDS MCTranslations, SequenceTheorems, FiniteSetTheorems, WellFoundedInduction, TLAPS

---------------------------------------------------------------------------
(* Induction.                                                              *)

(* The least number of a set: the well-foundedness of Nat without an        *)
(* operator for a parameter.                                               *)
LEMMA LeastNumber ==
  ASSUME NEW S, S \subseteq Nat, S # {}
  PROVE  \E m \in S : \A k \in S : m <= k
<1> DEFINE R == StrictSubsetOrdering(Nat)
           upTo == {0 .. k : k \in S}
<1>1. upTo \subseteq FiniteSubsetsOf(Nat) /\ upTo # {}
  <2>1. \A k \in S : 0 .. k \in FiniteSubsetsOf(Nat)
    <3> SUFFICES ASSUME NEW k \in S
                 PROVE  0 .. k \in SUBSET Nat /\ IsFiniteSet(0 .. k)
      BY DEF FiniteSubsetsOf
    <3>1. IsFiniteSet(0 .. k)
      BY FS_Interval
    <3> QED
      BY <3>1
  <2> QED
    BY <2>1
<1>2. PICK u \in upTo : \A v \in upTo : <<v, u>> \notin R
  BY <1>1, FS_StrictSubsetOrderingWellFounded, WFMin
<1>3. PICK m \in S : u = 0 .. m
  OBVIOUS
<1>4. ASSUME NEW k \in S, k < m
      PROVE  FALSE
  <2>1. 0 .. k \in SUBSET Nat /\ 0 .. m \in SUBSET Nat /\ 0 .. k \subseteq 0 .. m
    BY <1>4
  <2>2. m \in 0 .. m /\ m \notin 0 .. k
    BY <1>4
  <2>3. <<0 .. k, 0 .. m>> \in R
    BY <2>1, <2>2 DEF StrictSubsetOrdering
  <2> QED
    BY <1>2, <1>3, <2>3
<1> QED
  BY <1>4

(* A set that has 0 and, with a number below a bound, the next one. *)
LEMMA CountingUp ==
  ASSUME NEW T, NEW n \in Nat, 0 \in T, \A i \in 1..n : i - 1 \in T => i \in T
  PROVE  \A i \in 0..n : i \in T
<1> SUFFICES ASSUME {i \in 0..n : i \notin T} # {}
             PROVE  FALSE
  OBVIOUS
<1> DEFINE Missing == {i \in 0..n : i \notin T}
<1>1. PICK m \in Missing : \A k \in Missing : m <= k
  <2>1. Missing \subseteq Nat /\ Missing # {}
    OBVIOUS
  <2> HIDE DEF Missing
  <2> QED
    BY <2>1, LeastNumber
<1>2. m \in 1..n /\ m - 1 \in 0..n /\ m \notin T
  BY <1>1
<1>3. m - 1 \notin Missing
  BY <1>1, <1>2
<1>4. m - 1 \in T
  BY <1>2, <1>3
<1> QED
  BY <1>2, <1>4

---------------------------------------------------------------------------
(* Sequences.                                                              *)

Elements(s) == {s[i] : i \in DOMAIN s}
IsSeq(s) == s \in Seq(Elements(s))

LEMMA SequenceOf ==
  ASSUME NEW S, NEW s \in Seq(S)
  PROVE  /\ IsSeq(s) /\ Len(s) \in Nat /\ DOMAIN s = 1..Len(s) /\ Elements(s) \subseteq S
         /\ s = [i \in 1..Len(s) |-> s[i]]
<1>1. Len(s) \in Nat /\ DOMAIN s = 1..Len(s) /\ s \in [1..Len(s) -> S]
  OBVIOUS
<1>2. s \in [1..Len(s) -> Elements(s)]
  BY <1>1 DEF Elements
<1>3. IsSeq(s)
  BY <1>1, <1>2 DEF IsSeq
<1>4. Elements(s) \subseteq S
  BY <1>1 DEF Elements
<1>5. s = [i \in 1..Len(s) |-> s[i]]
  BY <1>1
<1> QED
  BY <1>1, <1>3, <1>4, <1>5

LEMMA SequenceFacts ==
  ASSUME NEW s, IsSeq(s)
  PROVE  /\ Len(s) \in Nat /\ DOMAIN s = 1..Len(s) /\ s = [i \in 1..Len(s) |-> s[i]]
         /\ Elements(s) = {s[i] : i \in 1..Len(s)}
         /\ s = <<>> <=> Elements(s) = {}
         /\ s = <<>> <=> Len(s) = 0
<1>1. /\ Len(s) \in Nat /\ DOMAIN s = 1..Len(s) /\ s = [i \in 1..Len(s) |-> s[i]]
      /\ Elements(s) = {s[i] : i \in 1..Len(s)}
  BY SequenceOf DEF IsSeq, Elements
<1>2. s = <<>> <=> Len(s) = 0
  <2>1. s \in Seq(Elements(s))
    BY DEF IsSeq
  <2>2. s # <<>> => Len(s) # 0
    BY <2>1, EmptySeq
  <2>3. Len(<<>>) = 0
    OBVIOUS
  <2> QED
    BY <2>2, <2>3
<1>3. Elements(s) = {} <=> Len(s) = 0
  <2>1. Len(s) # 0 => s[1] \in Elements(s)
    BY <1>1
  <2>2. Len(s) = 0 => DOMAIN s = {}
    BY <1>1
  <2> QED
    BY <2>1, <2>2 DEF Elements
<1> QED
  BY <1>1, <1>2, <1>3

(* A function of the numbers up to one of them is a sequence. *)
LEMMA Enumerated ==
  ASSUME NEW n \in Nat, NEW s, s = [i \in 1..n |-> s[i]]
  PROVE  IsSeq(s) /\ Len(s) = n /\ DOMAIN s = 1..n
<1>1. s \in [1..n -> Elements(s)]
  BY DEF Elements
<1> QED
  BY <1>1 DEF IsSeq

LEMMA NoElements == IsSeq(<<>>) /\ Elements(<<>>) = {}
<1>1. \A S : <<>> \in Seq(S)
  BY EmptySeq
<1>2. IsSeq(<<>>)
  BY <1>1 DEF IsSeq
<1> QED
  BY <1>2, SequenceFacts

LEMMA OneElement ==
  ASSUME NEW x
  PROVE  IsSeq(<<x>>) /\ Elements(<<x>>) = {x} /\ <<x>> # <<>> /\ Len(<<x>>) = 1
<1>1. <<x>> \in Seq({x}) /\ Len(<<x>>) = 1 /\ <<x>>[1] = x
  OBVIOUS
<1>2. IsSeq(<<x>>) /\ DOMAIN <<x>> = 1..1
  BY <1>1, SequenceOf
<1>3. Elements(<<x>>) = {x}
  BY <1>1, <1>2 DEF Elements
<1>4. <<x>> # <<>>
  BY <1>2, <1>3, SequenceFacts
<1> QED
  BY <1>1, <1>2, <1>3, <1>4

LEMMA Concatenated ==
  ASSUME NEW s, NEW t, IsSeq(s), IsSeq(t)
  PROVE  /\ IsSeq(s \o t) /\ Elements(s \o t) = Elements(s) \cup Elements(t)
         /\ Len(s \o t) = Len(s) + Len(t)
         /\ <<>> \o s = s /\ s \o <<>> = s
<1> DEFINE S == Elements(s) \cup Elements(t)
<1>1. s \in Seq(S) /\ t \in Seq(S)
  BY SeqMonotonic DEF IsSeq
<1>2. s \o t \in Seq(S) /\ Len(s \o t) = Len(s) + Len(t)
  BY <1>1
<1>3. Range(s \o t) = Range(s) \cup Range(t)
  BY <1>1, RangeConcatenation
<1>4. <<>> \o s = s /\ s \o <<>> = s
  BY <1>1, ConcatEmptySeq
<1> QED
  BY <1>2, <1>3, <1>4, SequenceOf DEF Range, Elements

---------------------------------------------------------------------------
(* Flattening a sequence of sequences.                                     *)

(* FlattenSeq, which each of the two batches takes with its own instance of *)
(* WebhookParts.                                                           *)
Stages(s) ==
  CHOOSE f : f = [i \in 1..Len(s) |-> IF i = 1 THEN s[i] ELSE f[i-1] \o s[i]]
Flat(s) == IF Len(s) = 0 THEN s ELSE Stages(s)[Len(s)]

LEMMA FlattenSeqIsFlat ==
  ASSUME NEW s
  PROVE  W!FlattenSeq(s) = Flat(s) /\ G!FlattenSeq(s) = Flat(s)
  BY DEF W!FlattenSeq, G!FlattenSeq, Flat, Stages

IsSeqOfSeqs(s) == IsSeq(s) /\ \A i \in 1..Len(s) : IsSeq(s[i])

(* The recursive function exists: one more index extends it. *)
LEMMA StagesExist ==
  ASSUME NEW s, NEW n \in Nat
  PROVE  \E f : f = [i \in 1..n |-> IF i = 1 THEN s[i] ELSE f[i-1] \o s[i]]
<1> DEFINE IsStages(f, k) == f = [i \in 1..k |-> IF i = 1 THEN s[i] ELSE f[i-1] \o s[i]]
           T == {k \in Nat : \E f : IsStages(f, k)}
<1>1. 0 \in T
  <2>1. IsStages([i \in 1..0 |-> s], 0)
    OBVIOUS
  <2> QED
    BY <2>1
<1>2. ASSUME NEW k \in 1..n, k - 1 \in T
      PROVE  k \in T
  <2>1. PICK f : IsStages(f, k - 1)
    BY <1>2
  <2>0. \A i \in 1..(k-1) : f[i] = IF i = 1 THEN s[i] ELSE f[i-1] \o s[i]
    BY <2>1
  <2> DEFINE g == [i \in 1..k |-> IF i < k THEN f[i]
                                  ELSE IF k = 1 THEN s[k] ELSE f[k-1] \o s[k]]
  <2>2. ASSUME NEW i \in 1..k
        PROVE  g[i] = IF i = 1 THEN s[i] ELSE g[i-1] \o s[i]
    <3>1. CASE i = k
      <4>1. i # 1 => g[i-1] = f[i-1]
        BY <3>1
      <4> QED
        BY <3>1, <4>1
    <3>2. CASE i < k
      <4>1. f[i] = IF i = 1 THEN s[i] ELSE f[i-1] \o s[i]
        BY <2>0, <3>2
      <4>2. g[i] = f[i] /\ (i # 1 => g[i-1] = f[i-1])
        BY <3>2
      <4> QED
        BY <4>1, <4>2
    <3> QED
      BY <3>1, <3>2
  <2>3. IsStages(g, k)
    <3>1. g = [i \in 1..k |-> g[i]]
      OBVIOUS
    <3> HIDE DEF g
    <3> QED
      BY <2>2, <3>1
  <2> HIDE DEF g, IsStages
  <2> QED
    BY <2>3
<1> HIDE DEF T
<1>3. n \in T
  BY <1>1, <1>2, CountingUp
<1> QED
  BY <1>3 DEF T

(* What has been flattened so far, from nothing to everything. *)
LEMMA FlatInStages ==
  ASSUME NEW s, IsSeqOfSeqs(s)
  PROVE  \E f : /\ f[0] = <<>> /\ f[Len(s)] = Flat(s)
                /\ \A i \in 1..Len(s) : f[i] = f[i-1] \o s[i]
                /\ \A i \in 0..Len(s) : IsSeq(f[i])
<1> DEFINE h == Stages(s)
           f == [i \in 0..Len(s) |-> IF i = 0 THEN <<>> ELSE h[i]]
<1>0. Len(s) \in Nat
  BY SequenceFacts DEF IsSeqOfSeqs
<1>1. h = [i \in 1..Len(s) |-> IF i = 1 THEN s[i] ELSE h[i-1] \o s[i]]
  BY <1>0, StagesExist DEF Stages
<1>2. \A i \in 1..Len(s) : h[i] = IF i = 1 THEN s[i] ELSE h[i-1] \o s[i]
  <2> HIDE DEF h
  <2> QED
    BY <1>1
<1> HIDE DEF h
<1>3. ASSUME NEW i \in 1..Len(s)
      PROVE  f[i] = f[i-1] \o s[i]
  <2>1. CASE i = 1
    <3>1. f[i-1] = <<>> /\ f[i] = s[i]
      BY <1>0, <1>2, <2>1
    <3>2. <<>> \o s[i] = s[i]
      BY Concatenated DEF IsSeqOfSeqs
    <3> QED
      BY <3>1, <3>2
  <2>2. CASE i # 1
    <3>1. f[i-1] = h[i-1] /\ f[i] = h[i]
      BY <1>0, <2>2
    <3>2. h[i] = h[i-1] \o s[i]
      BY <1>2, <2>2
    <3> QED
      BY <3>1, <3>2
  <2> QED
    BY <2>1, <2>2
<1>4. f[0] = <<>>
  BY <1>0
<1>5. f[Len(s)] = Flat(s)
  <2>1. CASE Len(s) = 0
    BY <1>4, <2>1, SequenceFacts DEF IsSeqOfSeqs, Flat
  <2>2. CASE Len(s) # 0
    BY <1>0, <2>2 DEF Flat, h
  <2> QED
    BY <2>1, <2>2
<1> HIDE DEF f
<1>6. \A i \in 0..Len(s) : IsSeq(f[i])
  <2> DEFINE T == {n \in Nat : IsSeq(f[n])}
  <2>1. 0 \in T
    BY <1>4, NoElements
  <2>2. ASSUME NEW n \in 1..Len(s), n - 1 \in T
        PROVE  n \in T
    <3>1. IsSeq(f[n-1]) /\ IsSeq(s[n]) /\ n \in Nat
      BY <2>2 DEF IsSeqOfSeqs
    <3>2. IsSeq(f[n-1] \o s[n])
      BY <3>1, Concatenated
    <3>3. f[n] = f[n-1] \o s[n]
      BY <1>3
    <3>4. IsSeq(f[n])
      BY <3>2, <3>3
    <3> QED
      BY <3>1, <3>4
  <2> HIDE DEF T
  <2>3. \A n \in 0..Len(s) : n \in T
    BY <1>0, <2>1, <2>2, CountingUp
  <2> QED
    BY <2>3 DEF T
<1> QED
  BY <1>3, <1>4, <1>5, <1>6

(* Its elements are those of the sequences. *)
LEMMA FlatElements ==
  ASSUME NEW s, IsSeqOfSeqs(s)
  PROVE  IsSeq(Flat(s)) /\ Elements(Flat(s)) = UNION {Elements(s[i]) : i \in 1..Len(s)}
<1>0. Len(s) \in Nat
  BY SequenceFacts DEF IsSeqOfSeqs
<1>1. PICK f : /\ f[0] = <<>> /\ f[Len(s)] = Flat(s)
               /\ \A i \in 1..Len(s) : f[i] = f[i-1] \o s[i]
  BY FlatInStages
<1> DEFINE Upto(n) == UNION {Elements(s[i]) : i \in 1..n}
           T == {n \in Nat : IsSeq(f[n]) /\ Elements(f[n]) = Upto(n)}
<1>2. 0 \in T
  <2>1. Upto(0) = {}
    OBVIOUS
  <2> QED
    BY <1>1, <2>1, NoElements
<1>3. ASSUME NEW n \in 1..Len(s), n - 1 \in T
      PROVE  n \in T
  <2>1. f[n] = f[n-1] \o s[n] /\ IsSeq(f[n-1]) /\ IsSeq(s[n])
    BY <1>1, <1>3 DEF IsSeqOfSeqs
  <2>2. IsSeq(f[n]) /\ Elements(f[n]) = Elements(f[n-1]) \cup Elements(s[n])
    BY <2>1, Concatenated
  <2>3. 1..n = (1..n-1) \cup {n}
    BY <1>0
  <2>4. Upto(n) = Upto(n-1) \cup Elements(s[n])
    BY <2>3
  <2>5. Elements(f[n-1]) = Upto(n-1) /\ n \in Nat
    BY <1>3
  <2> HIDE DEF Upto
  <2> QED
    BY <2>2, <2>4, <2>5
<1> HIDE DEF T
<1> HIDE DEF Upto
<1>4. Len(s) \in T
  <2>1. \A n \in 1..Len(s) : n - 1 \in T => n \in T
    BY <1>3
  <2>2. \A n \in 0..Len(s) : n \in T
    BY ONLY <1>0, <1>2, <2>1, CountingUp
  <2> QED
    BY <1>0, <2>2
<1> QED
  BY <1>1, <1>4 DEF T, Upto

LEMMA FlatOfOne ==
  ASSUME NEW s, IsSeqOfSeqs(s), Len(s) = 1
  PROVE  Flat(s) = s[1]
<1>1. PICK f : /\ f[0] = <<>> /\ f[Len(s)] = Flat(s)
               /\ \A i \in 1..Len(s) : f[i] = f[i-1] \o s[i]
  BY FlatInStages
<1>2. 1 \in 1..Len(s) /\ 1 - 1 = 0
  OBVIOUS
<1>3. f[1] = <<>> \o s[1]
  BY <1>1, <1>2
<1>4. <<>> \o s[1] = s[1]
  BY <1>2, Concatenated DEF IsSeqOfSeqs
<1> QED
  BY <1>1, <1>3, <1>4

---------------------------------------------------------------------------
(* Counting.                                                               *)

(* A number that grows by the size of each set, none sharing an element with *)
(* another, ends as the size of their union.                               *)
LEMMA DisjointSum ==
  ASSUME NEW n \in Nat, NEW C, NEW m, m[0] = 0,
         \A i \in 1..n : IsFiniteSet(C[i]) /\ m[i] = m[i-1] + Cardinality(C[i]),
         \A i, j \in 1..n : i # j => C[i] \cap C[j] = {}
  PROVE  /\ IsFiniteSet(UNION {C[i] : i \in 1..n})
         /\ Cardinality(UNION {C[i] : i \in 1..n}) = m[n]
<1> DEFINE Upto(k) == UNION {C[i] : i \in 1..k}
           T == {k \in 0..n : IsFiniteSet(Upto(k)) /\ Cardinality(Upto(k)) = m[k]}
<1>1. 0 \in T
  <2>1. Upto(0) = {}
    OBVIOUS
  <2> QED
    BY <2>1, FS_EmptySet
<1>2. ASSUME NEW k \in 1..n, k - 1 \in T
      PROVE  k \in T
  <2>1. 1..k = (1..(k-1)) \cup {k}
    OBVIOUS
  <2>2. Upto(k) = Upto(k-1) \cup C[k]
    BY <2>1
  <2>3. Upto(k-1) \cap C[k] = {}
    <3>1. \A i \in 1..(k-1) : C[i] \cap C[k] = {}
      OBVIOUS
    <3> QED
      BY <3>1
  <2>4. IsFiniteSet(Upto(k-1)) /\ Cardinality(Upto(k-1)) = m[k-1] /\ IsFiniteSet(C[k])
    BY <1>2
  <2> HIDE DEF Upto
  <2>5. /\ IsFiniteSet(Upto(k-1) \cup C[k])
        /\ Cardinality(Upto(k-1) \cup C[k])
             = Cardinality(Upto(k-1)) + Cardinality(C[k]) - Cardinality(Upto(k-1) \cap C[k])
    BY <2>4, FS_Union
  <2>6. Cardinality(Upto(k-1) \cap C[k]) = 0
    BY <2>3, FS_EmptySet
  <2>7. Cardinality(C[k]) \in Nat /\ Cardinality(Upto(k-1)) \in Nat
    BY <2>4, FS_CardinalityType
  <2>8. Cardinality(Upto(k)) = m[k]
    BY <2>2, <2>4, <2>5, <2>6, <2>7
  <2>9. k \in 0..n /\ IsFiniteSet(Upto(k))
    BY <2>2, <2>5
  <2> QED
    BY <2>8, <2>9
<1> HIDE DEF T
<1>3. n \in T
  BY <1>1, <1>2, CountingUp
<1> QED
  BY <1>3 DEF T

LEMMA FlatLength ==
  ASSUME NEW s, IsSeqOfSeqs(s), NEW C,
         \A i \in 1..Len(s) : IsFiniteSet(C[i]) /\ Cardinality(C[i]) = Len(s[i]),
         \A i, j \in 1..Len(s) : i # j => C[i] \cap C[j] = {}
  PROVE  /\ IsFiniteSet(UNION {C[i] : i \in 1..Len(s)})
         /\ Cardinality(UNION {C[i] : i \in 1..Len(s)}) = Len(Flat(s))
<1>0. Len(s) \in Nat
  BY SequenceFacts DEF IsSeqOfSeqs
<1>1. PICK f : /\ f[0] = <<>> /\ f[Len(s)] = Flat(s)
               /\ \A i \in 1..Len(s) : f[i] = f[i-1] \o s[i]
               /\ \A i \in 0..Len(s) : IsSeq(f[i])
  BY FlatInStages
<1> DEFINE m == [i \in 0..Len(s) |-> Len(f[i])]
<1>3. m[0] = 0 /\ m[Len(s)] = Len(Flat(s))
  BY <1>0, <1>1
<1>4. ASSUME NEW i \in 1..Len(s)
      PROVE  m[i] = m[i-1] + Cardinality(C[i])
  <2>1. i - 1 \in 0..Len(s) /\ i \in 0..Len(s)
    BY <1>0
  <2>2. Len(f[i-1] \o s[i]) = Len(f[i-1]) + Len(s[i])
    BY <1>1, <2>1, Concatenated DEF IsSeqOfSeqs
  <2>3. m[i] = Len(f[i]) /\ m[i-1] = Len(f[i-1])
    BY <2>1
  <2>4. f[i] = f[i-1] \o s[i] /\ Cardinality(C[i]) = Len(s[i])
    BY <1>1
  <2> QED
    BY ONLY <2>2, <2>3, <2>4
<1> HIDE DEF m
<1> QED
  BY <1>0, <1>3, <1>4, DisjointSum, ZenonT(40)

---------------------------------------------------------------------------
(* The results of one kind.                                                *)

Kept(r, kind) == Flat([i \in DOMAIN r |-> IF r[i].is = kind THEN <<r[i]>> ELSE <<>>])
OfKind(r, kind) == {i \in 1..Len(r) : r[i].is = kind}

LEMMA ThoseAreKept ==
  ASSUME NEW r, NEW kind
  PROVE  G!Those(r, kind) = Kept(r, kind)
  BY FlattenSeqIsFlat DEF G!Those, Kept

LEMMA KeptFacts ==
  ASSUME NEW r, IsSeq(r), NEW kind
  PROVE  /\ IsSeq(Kept(r, kind))
         /\ Elements(Kept(r, kind)) = {x \in Elements(r) : x.is = kind}
         /\ IsFiniteSet(OfKind(r, kind)) /\ Cardinality(OfKind(r, kind)) = Len(Kept(r, kind))
<1> DEFINE s == [i \in DOMAIN r |-> IF r[i].is = kind THEN <<r[i]>> ELSE <<>>]
           C == [i \in DOMAIN r |-> IF r[i].is = kind THEN {i} ELSE {}]
<1>0. Len(r) \in Nat /\ DOMAIN r = 1..Len(r)
  BY SequenceFacts
<1>1. IsSeq(s) /\ Len(s) = Len(r)
  <2>1. s = [i \in 1..Len(r) |-> s[i]]
    BY <1>0
  <2> HIDE DEF s
  <2> QED
    BY <1>0, <2>1, Enumerated
<1>2. ASSUME NEW i \in 1..Len(r)
      PROVE  /\ IsSeq(s[i]) /\ Elements(s[i]) = {x \in {r[i]} : x.is = kind}
             /\ IsFiniteSet(C[i]) /\ Cardinality(C[i]) = Len(s[i])
             /\ C[i] = {j \in {i} : r[j].is = kind}
  <2>1. CASE r[i].is = kind
    <3>1. s[i] = <<r[i]>> /\ C[i] = {i}
      BY <1>0, <2>1
    <3>2. IsFiniteSet({i}) /\ Cardinality({i}) = 1
      BY FS_Singleton
    <3> QED
      BY <2>1, <3>1, <3>2, OneElement
  <2>2. CASE r[i].is # kind
    <3>1. s[i] = <<>> /\ C[i] = {}
      BY <1>0, <2>2
    <3>2. Len(<<>>) = 0
      OBVIOUS
    <3> QED
      BY <2>2, <3>1, <3>2, NoElements, FS_EmptySet
  <2> QED
    BY <2>1, <2>2
<1> HIDE DEF s, C
<1>3. IsSeqOfSeqs(s)
  BY <1>1, <1>2 DEF IsSeqOfSeqs
<1>4. Kept(r, kind) = Flat(s)
  BY DEF Kept, s
<1>5. UNION {Elements(s[i]) : i \in 1..Len(s)} = {x \in Elements(r) : x.is = kind}
  BY <1>0, <1>1, <1>2 DEF Elements
<1>6. UNION {C[i] : i \in 1..Len(s)} = OfKind(r, kind)
  BY <1>0, <1>1, <1>2 DEF OfKind
<1>7. \A i, j \in 1..Len(s) : i # j => C[i] \cap C[j] = {}
  BY <1>1, <1>2
<1>8. \A i \in 1..Len(s) : IsFiniteSet(C[i]) /\ Cardinality(C[i]) = Len(s[i])
  BY <1>1, <1>2
<1>9. IsSeq(Flat(s)) /\ Elements(Flat(s)) = {x \in Elements(r) : x.is = kind}
  BY <1>3, <1>5, FlatElements
<1>10. /\ IsFiniteSet(UNION {C[i] : i \in 1..Len(s)})
       /\ Cardinality(UNION {C[i] : i \in 1..Len(s)}) = Len(Flat(s))
  BY <1>3, <1>7, <1>8, FlatLength
<1> QED
  BY <1>4, <1>6, <1>9, <1>10

LEMMA KeptOfConcatenated ==
  ASSUME NEW r, NEW t, IsSeq(r), IsSeq(t), NEW kind
  PROVE  Len(Kept(r \o t, kind)) = Len(Kept(r, kind)) + Len(Kept(t, kind))
<1> DEFINE n == Len(r)
           moved == [i \in OfKind(t, kind) |-> i + n]
           Later == {i \in (n+1)..(n + Len(t)) : (r \o t)[i].is = kind}
<1>0. n \in Nat /\ Len(t) \in Nat /\ IsSeq(r \o t) /\ Len(r \o t) = n + Len(t)
  BY SequenceFacts, Concatenated
<1>1. \A i \in 1..(n + Len(t)) : (r \o t)[i] = IF i <= n THEN r[i] ELSE t[i - n]
  <2>1. r \in Seq(Elements(r) \cup Elements(t)) /\ t \in Seq(Elements(r) \cup Elements(t))
    BY SeqMonotonic DEF IsSeq
  <2> QED
    BY <2>1, ConcatProperties
<1>2. OfKind(r \o t, kind) = OfKind(r, kind) \cup Later /\ OfKind(r, kind) \cap Later = {}
  BY <1>0, <1>1 DEF OfKind
<1>3. ExistsBijection(OfKind(t, kind), Later)
  <2>1. moved \in [OfKind(t, kind) -> Later]
    BY <1>0, <1>1 DEF OfKind
  <2>2. \A a, b \in OfKind(t, kind) : moved[a] = moved[b] => a = b
    BY <1>0 DEF OfKind
  <2>3. \A b \in Later : \E a \in OfKind(t, kind) : moved[a] = b
    <3> SUFFICES ASSUME NEW b \in Later
                 PROVE  b - n \in OfKind(t, kind) /\ moved[b - n] = b
      OBVIOUS
    <3>1. b - n \in OfKind(t, kind)
      BY <1>0, <1>1 DEF OfKind
    <3> QED
      BY <1>0, <3>1
  <2>4. moved \in Bijection(OfKind(t, kind), Later)
    BY <2>1, <2>2, <2>3 DEF Bijection, Injection, Surjection, IsInjective
  <2> QED
    BY <2>4 DEF ExistsBijection
<1>4. /\ IsFiniteSet(OfKind(t, kind)) /\ Cardinality(OfKind(t, kind)) = Len(Kept(t, kind))
      /\ IsFiniteSet(OfKind(r, kind)) /\ Cardinality(OfKind(r, kind)) = Len(Kept(r, kind))
      /\ Cardinality(OfKind(r \o t, kind)) = Len(Kept(r \o t, kind))
  BY <1>0, KeptFacts
<1>5. IsFiniteSet(Later) /\ Cardinality(Later) = Cardinality(OfKind(t, kind))
  BY <1>3, <1>4, FS_Bijection
<1> HIDE DEF Later
<1>6. Cardinality(OfKind(r, kind) \cup Later)
        = Cardinality(OfKind(r, kind)) + Cardinality(Later)
            - Cardinality(OfKind(r, kind) \cap Later)
  BY <1>4, <1>5, FS_Union
<1>7. Cardinality(OfKind(r, kind) \cap Later) = 0
  BY <1>2, FS_EmptySet
<1>8. Cardinality(OfKind(r, kind)) \in Nat /\ Cardinality(Later) \in Nat
  BY <1>4, <1>5, FS_CardinalityType
<1> QED
  BY <1>2, <1>4, <1>5, <1>6, <1>7, <1>8

LEMMA KeptOfFlat ==
  ASSUME NEW s, IsSeqOfSeqs(s), NEW kind, NEW C,
         \A i \in 1..Len(s) : IsFiniteSet(C[i]) /\ Cardinality(C[i]) = Len(Kept(s[i], kind)),
         \A i, j \in 1..Len(s) : i # j => C[i] \cap C[j] = {}
  PROVE  /\ IsFiniteSet(UNION {C[i] : i \in 1..Len(s)})
         /\ Cardinality(UNION {C[i] : i \in 1..Len(s)}) = Len(Kept(Flat(s), kind))
<1>0. Len(s) \in Nat
  BY SequenceFacts DEF IsSeqOfSeqs
<1>1. PICK f : /\ f[0] = <<>> /\ f[Len(s)] = Flat(s)
               /\ \A i \in 1..Len(s) : f[i] = f[i-1] \o s[i]
               /\ \A i \in 0..Len(s) : IsSeq(f[i])
  BY FlatInStages
<1> DEFINE m == [i \in 0..Len(s) |-> Len(Kept(f[i], kind))]
<1>3. m[0] = 0 /\ m[Len(s)] = Len(Kept(Flat(s), kind))
  <2>1. Elements(Kept(<<>>, kind)) = {} /\ IsSeq(Kept(<<>>, kind))
    BY NoElements, KeptFacts
  <2>2. Len(Kept(<<>>, kind)) = 0
    BY <2>1, SequenceFacts
  <2> QED
    BY <1>0, <1>1, <2>2
<1>4. ASSUME NEW i \in 1..Len(s)
      PROVE  m[i] = m[i-1] + Cardinality(C[i])
  <2>1. i - 1 \in 0..Len(s) /\ i \in 0..Len(s)
    BY <1>0
  <2>2. Len(Kept(f[i-1] \o s[i], kind)) = Len(Kept(f[i-1], kind)) + Len(Kept(s[i], kind))
    BY <1>1, <2>1, KeptOfConcatenated DEF IsSeqOfSeqs
  <2>3. m[i] = Len(Kept(f[i], kind)) /\ m[i-1] = Len(Kept(f[i-1], kind))
    BY <2>1
  <2>4. f[i] = f[i-1] \o s[i] /\ Cardinality(C[i]) = Len(Kept(s[i], kind))
    BY <1>1
  <2> QED
    BY ONLY <2>2, <2>3, <2>4
<1> HIDE DEF m
<1> QED
  BY <1>0, <1>3, <1>4, DisjointSum, ZenonT(40)

---------------------------------------------------------------------------
(* Results of the parts of a batch, in turn (WebhookBatch).                *)

IsResult(x) == IsSeq(x.events) /\ x.ignored \in Nat

LEMMA ResultsOfNothing ==
  /\ IsResult(W!Nothing) /\ Elements(W!Nothing.events) = {} /\ W!Nothing.ignored = 0
  /\ IsResult(W!Lost) /\ Elements(W!Lost.events) = {} /\ W!Lost.ignored = 1
  BY NoElements DEF IsResult, W!Nothing, W!Lost

LEMMA BothResults ==
  ASSUME NEW a, NEW b, IsResult(a), IsResult(b)
  PROVE  /\ IsResult(W!Both(a, b))
         /\ Elements(W!Both(a, b).events) = Elements(a.events) \cup Elements(b.events)
         /\ W!Both(a, b).ignored > 0 <=> a.ignored > 0 \/ b.ignored > 0
<1>1. /\ W!Both(a, b).events = a.events \o b.events
      /\ W!Both(a, b).ignored = a.ignored + b.ignored
  BY DEF W!Both
<1>2. /\ IsSeq(a.events \o b.events)
      /\ Elements(a.events \o b.events) = Elements(a.events) \cup Elements(b.events)
  BY Concatenated DEF IsResult
<1>3. a.ignored \in Nat /\ b.ignored \in Nat
  BY DEF IsResult
<1> QED
  BY <1>1, <1>2, <1>3 DEF IsResult

(* The recursive function of InTurn exists. *)
LEMMA TurnsExist ==
  ASSUME NEW r, NEW n \in Nat
  PROVE  \E f : f = [i \in 0..n |-> IF i = 0 THEN W!Nothing ELSE W!Both(f[i-1], r[i])]
<1> DEFINE IsTurns(f, k) ==
             f = [i \in 0..k |-> IF i = 0 THEN W!Nothing ELSE W!Both(f[i-1], r[i])]
           T == {k \in Nat : \E f : IsTurns(f, k)}
<1>1. 0 \in T
  <2> DEFINE g == [i \in 0..0 |-> W!Nothing]
  <2>1. IsTurns(g, 0)
    OBVIOUS
  <2> HIDE DEF g
  <2> QED
    BY <2>1
<1>2. ASSUME NEW k \in 1..n, k - 1 \in T
      PROVE  k \in T
  <2>1. PICK f : IsTurns(f, k - 1)
    BY <1>2
  <2>2. \A i \in 0..(k-1) : f[i] = IF i = 0 THEN W!Nothing ELSE W!Both(f[i-1], r[i])
    BY <2>1
  <2> DEFINE g == [i \in 0..k |-> IF i < k THEN f[i] ELSE W!Both(f[k-1], r[k])]
  <2>3. ASSUME NEW i \in 0..k
        PROVE  g[i] = IF i = 0 THEN W!Nothing ELSE W!Both(g[i-1], r[i])
    <3>1. i # 0 => g[i-1] = f[i-1]
      OBVIOUS
    <3>2. CASE i = k
      BY <3>1, <3>2
    <3>3. CASE i < k
      <4>1. f[i] = IF i = 0 THEN W!Nothing ELSE W!Both(f[i-1], r[i])
        BY <2>2, <3>3
      <4>2. g[i] = f[i]
        BY <3>3
      <4> QED
        BY <3>1, <4>1, <4>2
    <3> QED
      BY <3>2, <3>3
  <2>4. IsTurns(g, k)
    <3>1. g = [i \in 0..k |-> g[i]]
      OBVIOUS
    <3> HIDE DEF g
    <3> QED
      BY <2>3, <3>1
  <2> HIDE DEF g, IsTurns
  <2> QED
    BY <2>4
<1> HIDE DEF T
<1>3. n \in T
  BY <1>1, <1>2, CountingUp
<1> QED
  BY <1>3 DEF T

(* Nothing is lost in turn: every event is there, and something was ignored *)
(* exactly when one of the parts ignored something.                        *)
LEMMA InTurnFacts ==
  ASSUME NEW r, IsSeq(r), \A i \in 1..Len(r) : IsResult(r[i])
  PROVE  /\ IsResult(W!InTurn(r))
         /\ Elements(W!InTurn(r).events) = UNION {Elements(r[i].events) : i \in 1..Len(r)}
         /\ W!InTurn(r).ignored > 0 <=> \E i \in 1..Len(r) : r[i].ignored > 0
<1>0. Len(r) \in Nat
  BY SequenceFacts
<1> DEFINE h == CHOOSE f : f = [i \in 0..Len(r) |->
                                 IF i = 0 THEN W!Nothing ELSE W!Both(f[i-1], r[i])]
<1>1. W!InTurn(r) = h[Len(r)]
  BY DEF W!InTurn
<1>2. h = [i \in 0..Len(r) |-> IF i = 0 THEN W!Nothing ELSE W!Both(h[i-1], r[i])]
  BY <1>0, TurnsExist
<1> HIDE DEF h
<1>3. h[0] = W!Nothing /\ \A i \in 1..Len(r) : h[i] = W!Both(h[i-1], r[i])
  BY <1>0, <1>2
<1> DEFINE Upto(n) == UNION {Elements(r[i].events) : i \in 1..n}
           Holds(n) == /\ IsResult(h[n])
                       /\ Elements(h[n].events) = Upto(n)
                       /\ h[n].ignored > 0 <=> \E i \in 1..n : r[i].ignored > 0
           T == {n \in Nat : Holds(n)}
<1>4. 0 \in T
  <2>1. Upto(0) = {} /\ ~\E i \in 1..0 : r[i].ignored > 0
    OBVIOUS
  <2>2. IsResult(h[0]) /\ Elements(h[0].events) = {} /\ ~(h[0].ignored > 0)
    BY <1>3, ResultsOfNothing
  <2> HIDE DEF Upto
  <2> QED
    BY <2>1, <2>2
<1>5. ASSUME NEW n \in 1..Len(r), n - 1 \in T
      PROVE  n \in T
  <2>1. h[n] = W!Both(h[n-1], r[n]) /\ IsResult(h[n-1]) /\ IsResult(r[n])
    BY <1>3, <1>5
  <2>2. /\ IsResult(h[n])
        /\ Elements(h[n].events) = Elements(h[n-1].events) \cup Elements(r[n].events)
        /\ h[n].ignored > 0 <=> h[n-1].ignored > 0 \/ r[n].ignored > 0
    BY <2>1, BothResults
  <2>3. 1..n = (1..(n-1)) \cup {n} /\ n \in Nat
    BY <1>0
  <2>4. Upto(n) = Upto(n-1) \cup Elements(r[n].events)
    BY <2>3
  <2>5. (\E i \in 1..n : r[i].ignored > 0)
          <=> (\E i \in 1..(n-1) : r[i].ignored > 0) \/ r[n].ignored > 0
    BY <2>3
  <2>6. /\ Elements(h[n-1].events) = Upto(n-1)
        /\ h[n-1].ignored > 0 <=> \E i \in 1..(n-1) : r[i].ignored > 0
    BY <1>5
  <2> HIDE DEF Upto
  <2> QED
    BY <2>2, <2>3, <2>4, <2>5, <2>6
<1> HIDE DEF T, Holds, Upto
<1>6. Len(r) \in T
  <2>1. \A n \in 1..Len(r) : n - 1 \in T => n \in T
    BY <1>5
  <2>2. \A n \in 0..Len(r) : n \in T
    BY <1>0, <1>4, <2>1, CountingUp
  <2> QED
    BY <1>0, <2>2
<1>7. Holds(Len(r))
  BY <1>6 DEF T
<1> QED
  BY <1>1, <1>7 DEF Holds, Upto

(* One part: what it comes to. *)
LEMMA InTurnOfOne ==
  ASSUME NEW r, IsSeq(r), Len(r) = 1, IsResult(r[1])
  PROVE  /\ Elements(W!InTurn(r).events) = Elements(r[1].events)
         /\ W!InTurn(r).ignored > 0 <=> r[1].ignored > 0
<1>1. 1..Len(r) = {1}
  OBVIOUS
<1>2. \A i \in 1..Len(r) : IsResult(r[i])
  BY <1>1
<1>3. /\ Elements(W!InTurn(r).events) = UNION {Elements(r[i].events) : i \in 1..Len(r)}
      /\ W!InTurn(r).ignored > 0 <=> \E i \in 1..Len(r) : r[i].ignored > 0
  BY <1>2, InTurnFacts
<1>4. UNION {Elements(r[i].events) : i \in 1..Len(r)} = Elements(r[1].events)
  BY <1>1
<1>5. (\E i \in 1..Len(r) : r[i].ignored > 0) <=> r[1].ignored > 0
  BY <1>1
<1> QED
  BY <1>3, <1>4, <1>5

---------------------------------------------------------------------------
(* A message and a status: one event, or one loss.                         *)

ListOf(part) == W!messageBlock(part, <<>>)

LEMMA ListIsSeq ==
  ASSUME NEW part, W!IsList(part)
  PROVE  /\ IsSeq(ListOf(part)) /\ DOMAIN ListOf(part) = 1..Len(ListOf(part))
         /\ W!Broken(part) => ListOf(part) = <<>>
<1>1. CASE part.state = "read"
  <2>1. ListOf(part) = part.is /\ IsSeq(part.is) /\ ~W!Broken(part)
    BY <1>1 DEF ListOf, W!messageBlock, W!IsList, W!ToSet, IsSeq, Elements, W!Broken
  <2> QED
    BY <2>1, SequenceFacts
<1>2. CASE part.state # "read"
  <2>1. ListOf(part) = <<>>
    BY <1>2 DEF ListOf, W!messageBlock
  <2> QED
    BY <2>1, NoElements, SequenceFacts
<1> QED
  BY <1>1, <1>2

(* An event there is names the number it was read for. *)
LEMMA EventOfItem ==
  ASSUME NEW list, NEW item, NEW ent, NEW number
  PROVE  \/ W!itemEvent(list, item, ent, number) = <<>>
         \/ \E x : /\ W!itemEvent(list, item, ent, number) = <<x>>
                   /\ x.number = number
<1>1. \/ W!messageEvent(item, ent.waba, number) = <<>>
      \/ \E x : W!messageEvent(item, ent.waba, number) = <<x>> /\ x.number = number
  <2> DEFINE x == [id |-> <<"msg", W!messageBlock(item.id, "")>>, number |-> number,
                   waba |-> ent.waba,
                   told |-> {b \in {"text", "reaction", "location"} : item[b].state = "read"}]
  <2>1. W!messageEvent(item, ent.waba, number) \in {<<>>, <<x>>}
    BY DEF W!messageEvent
  <2>2. x.number = number
    OBVIOUS
  <2> HIDE DEF x
  <2> QED
    BY <2>1, <2>2
<1>2. \/ W!statusEvent(item, ent.waba, number) = <<>>
      \/ \E x : W!statusEvent(item, ent.waba, number) = <<x>> /\ x.number = number
  <2> DEFINE x == [id |-> <<"status", W!messageBlock(item.id, ""),
                            W!messageBlock(item.status, "")>>,
                   number |-> number, waba |-> ent.waba,
                   told |-> {b \in {"pricing"} : item[b].state = "read"}]
  <2>1. W!statusEvent(item, ent.waba, number) \in {<<>>, <<x>>}
    BY DEF W!statusEvent
  <2>2. x.number = number
    OBVIOUS
  <2> HIDE DEF x
  <2> QED
    BY <2>1, <2>2
<1> QED
  BY <1>1, <1>2 DEF W!itemEvent

LEMMA EventOfAccount ==
  ASSUME NEW field, NEW value, NEW waba, NEW when
  PROVE  \/ W!accountEvent(field, value, waba, when) = <<>>
         \/ \E x : W!accountEvent(field, value, waba, when) = <<x>>
  BY DEF W!accountEvent

LEMMA BecameResult ==
  ASSUME NEW e, e = <<>> \/ \E x : e = <<x>>
  PROVE  /\ IsResult(W!Became(e)) /\ W!Became(e).events = e
         /\ W!Became(e).ignored > 0 <=> W!Became(e).events = <<>>
<1>1. CASE e = <<>>
  BY <1>1, ResultsOfNothing DEF W!Became, W!Lost
<1>2. CASE e # <<>>
  <2>1. IsSeq(e)
    BY <1>2, OneElement
  <2>2. W!Became(e) = [events |-> e, ignored |-> 0]
    BY <1>2 DEF W!Became
  <2> QED
    BY <1>2, <2>1, <2>2 DEF IsResult
<1> QED
  BY <1>1, <1>2

ItemComesTo(list, item, ent, number) ==
  IF item.state = "read" THEN W!Became(W!itemEvent(list, item.is, ent, number)) ELSE W!Lost

LEMMA ItemResult ==
  ASSUME NEW list, NEW item, NEW ent, NEW number
  PROVE  /\ IsResult(ItemComesTo(list, item, ent, number))
         /\ ItemComesTo(list, item, ent, number).ignored > 0
              <=> ItemComesTo(list, item, ent, number).events = <<>>
         /\ \A x \in Elements(ItemComesTo(list, item, ent, number).events) : x.number = number
<1>1. CASE item.state = "read"
  <2> DEFINE e == W!itemEvent(list, item.is, ent, number)
  <2>1. e = <<>> \/ \E x : e = <<x>> /\ x.number = number
    BY EventOfItem
  <2>2. ItemComesTo(list, item, ent, number) = W!Became(e)
    BY <1>1 DEF ItemComesTo
  <2> HIDE DEF e
  <2>3. /\ IsResult(W!Became(e)) /\ W!Became(e).events = e
        /\ W!Became(e).ignored > 0 <=> W!Became(e).events = <<>>
    BY <2>1, BecameResult
  <2>4. \A x \in Elements(e) : x.number = number
    BY <2>1, OneElement, NoElements
  <2> QED
    BY <2>2, <2>3, <2>4
<1>2. CASE item.state # "read"
  <2>1. ItemComesTo(list, item, ent, number) = W!Lost /\ W!Lost.events = <<>>
    BY <1>2 DEF ItemComesTo, W!Lost
  <2> QED
    BY <2>1, ResultsOfNothing
<1> QED
  BY <1>1, <1>2

---------------------------------------------------------------------------
(* The lists of a value, and the value.                                    *)

LEMMA ListResult ==
  ASSUME NEW value, NEW list, W!IsList(value[list]), NEW ent, NEW number
  PROVE  /\ IsResult(W!readItems(value, list, ent, number))
         /\ \A x : x \in Elements(W!readItems(value, list, ent, number).events) <=>
              \E i \in DOMAIN ListOf(value[list]) :
                x \in Elements(ItemComesTo(list, ListOf(value[list])[i], ent, number).events)
         /\ W!readItems(value, list, ent, number).ignored > 0 <=>
              \/ W!Broken(value[list])
              \/ \E i \in DOMAIN ListOf(value[list]) :
                   ItemComesTo(list, ListOf(value[list])[i], ent, number).ignored > 0
<1> DEFINE items == ListOf(value[list])
           r == [i \in DOMAIN items |-> ItemComesTo(list, items[i], ent, number)]
<1>0. /\ Len(items) \in Nat /\ DOMAIN items = 1..Len(items)
      /\ W!Broken(value[list]) => items = <<>>
  BY ListIsSeq, SequenceFacts
<1>1. CASE W!Broken(value[list])
  <2>1. W!readItems(value, list, ent, number) = W!Lost
    BY <1>1 DEF W!readItems
  <2>2. DOMAIN items = {}
    BY <1>0, <1>1
  <2> QED
    BY <1>1, <2>1, <2>2, ResultsOfNothing
<1>2. CASE ~W!Broken(value[list])
  <2>1. W!readItems(value, list, ent, number) = W!InTurn(r)
    BY <1>2 DEF W!readItems, ItemComesTo, ListOf
  <2>2. r = [i \in 1..Len(items) |-> r[i]]
    BY <1>0
  <2>3. \A i \in 1..Len(items) : r[i] = ItemComesTo(list, items[i], ent, number)
    BY <1>0
  <2> HIDE DEF r, items
  <2>4. IsSeq(r) /\ Len(r) = Len(items)
    BY <1>0, <2>2, Enumerated
  <2>5. \A i \in 1..Len(r) : IsResult(r[i])
    BY <2>3, <2>4, ItemResult
  <2>6. /\ IsResult(W!InTurn(r))
        /\ Elements(W!InTurn(r).events) = UNION {Elements(r[i].events) : i \in 1..Len(r)}
        /\ W!InTurn(r).ignored > 0 <=> \E i \in 1..Len(r) : r[i].ignored > 0
    BY <2>4, <2>5, InTurnFacts
  <2>7. \A x : x \in Elements(W!InTurn(r).events) <=>
                 \E i \in 1..Len(r) : x \in Elements(r[i].events)
    BY <2>6
  <2>8. /\ IsResult(W!InTurn(r))
        /\ \A x : x \in Elements(W!InTurn(r).events) <=>
             \E i \in DOMAIN items : x \in Elements(ItemComesTo(list, items[i], ent, number).events)
        /\ W!InTurn(r).ignored > 0 <=>
             \E i \in DOMAIN items : ItemComesTo(list, items[i], ent, number).ignored > 0
    BY <1>0, <2>3, <2>4, <2>6, <2>7
  <2> QED
    BY <1>2, <2>1, <2>8 DEF items
<1> QED
  BY <1>1, <1>2

Number(value) == W!messageBlock(value.is.metadata, "")

(* What an item of a list of a value comes to. *)
AnItem(value, list, i, ent) ==
  ItemComesTo(list, ListOf(value.is[list])[i], ent, Number(value))

LEMMA ValueResult ==
  ASSUME NEW value, NEW field, W!IsValue(value, field), NEW ent
  PROVE  /\ IsResult(W!readValue(ent, value))
         /\ value.state # "read" => W!readValue(ent, value).events = <<>>
         /\ value.state # "read" => (W!readValue(ent, value).ignored > 0 <=> W!Broken(value))
         /\ value.state = "read" =>
              /\ \A x : x \in Elements(W!readValue(ent, value).events) <=>
                   \E list \in W!Lists : \E i \in DOMAIN ListOf(value.is[list]) :
                     x \in Elements(AnItem(value, list, i, ent).events)
              /\ W!readValue(ent, value).ignored > 0 <=>
                   \E list \in W!Lists :
                     \/ W!Broken(value.is[list])
                     \/ \E i \in DOMAIN ListOf(value.is[list]) :
                          AnItem(value, list, i, ent).ignored > 0
<1>1. CASE value.state # "read"
  <2>1. value \in {W!Absent, W!Unreadable}
    <3>1. W!IsPart(value)
      BY DEF W!IsValue, W!IsBlock
    <3> QED
      BY <1>1, <3>1 DEF W!IsPart, W!Read
  <2>2. value.state = "unreadable" \/ value.state = "absent"
    BY <2>1 DEF W!Absent, W!Unreadable
  <2>3. CASE value.state = "unreadable"
    <3>1. W!readValue(ent, value) = W!Lost
      BY <2>3 DEF W!readValue
    <3> QED
      BY <1>1, <2>3, <3>1, ResultsOfNothing DEF W!Broken, W!Lost
  <2>4. CASE value.state = "absent"
    <3>1. W!readValue(ent, value) = W!Nothing
      BY <2>4 DEF W!readValue
    <3> QED
      BY <1>1, <2>4, <3>1, ResultsOfNothing DEF W!Broken, W!Nothing
  <2> QED
    BY <2>2, <2>3, <2>4
<1>2. CASE value.state = "read"
  <2> DEFINE m == W!readItems(value.is, "messages", ent, Number(value))
             s == W!readItems(value.is, "statuses", ent, Number(value))
  <2>1. W!readValue(ent, value) = W!Both(m, s)
    BY <1>2 DEF W!readValue, Number
  <2>2. W!IsList(value.is["messages"]) /\ W!IsList(value.is["statuses"])
    BY <1>2 DEF W!IsValue, W!Lists
  <2>3. /\ IsResult(m)
        /\ \A x : x \in Elements(m.events) <=>
             \E i \in DOMAIN ListOf(value.is["messages"]) :
               x \in Elements(AnItem(value, "messages", i, ent).events)
        /\ m.ignored > 0 <=>
             \/ W!Broken(value.is["messages"])
             \/ \E i \in DOMAIN ListOf(value.is["messages"]) :
                  AnItem(value, "messages", i, ent).ignored > 0
    BY <2>2, ListResult DEF AnItem
  <2>4. /\ IsResult(s)
        /\ \A x : x \in Elements(s.events) <=>
             \E i \in DOMAIN ListOf(value.is["statuses"]) :
               x \in Elements(AnItem(value, "statuses", i, ent).events)
        /\ s.ignored > 0 <=>
             \/ W!Broken(value.is["statuses"])
             \/ \E i \in DOMAIN ListOf(value.is["statuses"]) :
                  AnItem(value, "statuses", i, ent).ignored > 0
    BY <2>2, ListResult DEF AnItem
  <2> HIDE DEF m, s
  <2>5. /\ IsResult(W!Both(m, s))
        /\ Elements(W!Both(m, s).events) = Elements(m.events) \cup Elements(s.events)
        /\ W!Both(m, s).ignored > 0 <=> m.ignored > 0 \/ s.ignored > 0
    BY <2>3, <2>4, BothResults
  <2>6. \A x : x \in Elements(W!Both(m, s).events) <=>
                 \E list \in W!Lists : \E i \in DOMAIN ListOf(value.is[list]) :
                   x \in Elements(AnItem(value, list, i, ent).events)
    BY <2>3, <2>4, <2>5 DEF W!Lists
  <2>7. W!Both(m, s).ignored > 0 <=>
          \E list \in W!Lists :
            \/ W!Broken(value.is[list])
            \/ \E i \in DOMAIN ListOf(value.is[list]) : AnItem(value, list, i, ent).ignored > 0
    BY <2>3, <2>4, <2>5 DEF W!Lists
  <2> QED
    BY <1>2, <2>1, <2>5, <2>6, <2>7
<1> QED
  BY <1>1, <1>2

LEMMA VisitResult ==
  ASSUME NEW value, NEW field, W!IsValue(value, field), NEW ent
  PROVE  /\ IsResult(W!visit(ent, field, value))
         /\ field \in DOMAIN W!Pieces =>
              (W!visit(ent, field, value).ignored > 0 <=> W!visit(ent, field, value).events = <<>>)
<1>1. CASE field \in DOMAIN W!Pieces
  <2>1. W!visit(ent, field, value) = W!Became(W!accountEvent(field, value, ent.waba, ent.when))
    BY <1>1 DEF W!visit
  <2> QED
    BY <2>1, EventOfAccount, BecameResult
<1>2. CASE field \notin DOMAIN W!Pieces
  BY <1>2, ValueResult DEF W!visit
<1> QED
  BY <1>1, <1>2

---------------------------------------------------------------------------
(* The walk over entries and changes.                                      *)

Field(change) == W!messageBlock(change.is.field, "")
ChangesOf(entry) == W!changesOf(entry)

(* What a change that was read comes to. *)
ComesTo(entry, change) == W!visit(W!entryRead(entry), Field(change), change.is.value)

ReadingOf(ent, change) ==
  [read |-> TRUE, ent |-> ent, field |-> Field(change), value |-> change.is.value]

LEMMA UnreadElements ==
  ASSUME NEW part
  PROVE  /\ IsSeq(W!UnreadIf(part))
         /\ \A w : w \in Elements(W!UnreadIf(part)) <=> W!Broken(part) /\ w = W!Unread
<1>1. CASE W!Broken(part)
  BY <1>1, OneElement DEF W!UnreadIf
<1>2. CASE ~W!Broken(part)
  BY <1>2, NoElements DEF W!UnreadIf
<1> QED
  BY <1>1, <1>2

LEMMA ChangeWalk ==
  ASSUME NEW ent, NEW change
  PROVE  /\ IsSeq(W!walkChange(ent, change))
         /\ \A w : w \in Elements(W!walkChange(ent, change)) <=>
              \/ change.state # "read" /\ w = W!Unread
              \/ change.state = "read" /\ W!Broken(change.is.field) /\ w = W!Unread
              \/ change.state = "read" /\ w = ReadingOf(ent, change)
<1>1. CASE change.state # "read"
  BY <1>1, OneElement DEF W!walkChange
<1>2. CASE change.state = "read"
  <2> DEFINE u == W!UnreadIf(change.is.field)
             r == ReadingOf(ent, change)
  <2>1. W!walkChange(ent, change) = u \o <<r>>
    BY <1>2 DEF W!walkChange, ReadingOf, Field
  <2>2. IsSeq(u) /\ IsSeq(<<r>>) /\ Elements(<<r>>) = {r}
    BY UnreadElements, OneElement
  <2>3. \A w : w \in Elements(u) <=> W!Broken(change.is.field) /\ w = W!Unread
    BY UnreadElements
  <2> HIDE DEF u, r
  <2>4. IsSeq(u \o <<r>>) /\ Elements(u \o <<r>>) = Elements(u) \cup {r}
    BY <2>2, Concatenated
  <2>5. r = ReadingOf(ent, change)
    BY DEF r
  <2> QED
    BY <1>2, <2>1, <2>3, <2>4, <2>5
<1> QED
  BY <1>1, <1>2

LEMMA EntryWalk ==
  ASSUME NEW entry, W!IsEntry(entry)
  PROVE  /\ IsSeq(W!walkEntry(entry))
         /\ \A w : w \in Elements(W!walkEntry(entry)) <=>
              \/ entry.state # "read" /\ w = W!Unread
              \/ entry.state = "read" /\ W!Broken(entry.is.changes) /\ w = W!Unread
              \/ /\ entry.state = "read"
                 /\ \E c \in DOMAIN ChangesOf(entry) :
                      w \in Elements(W!walkChange(W!entryRead(entry), ChangesOf(entry)[c]))
<1>1. CASE entry.state # "read"
  BY <1>1, OneElement DEF W!walkEntry
<1>2. CASE entry.state = "read"
  <2> DEFINE u == W!UnreadIf(entry.is.changes)
             changes == ChangesOf(entry)
             s == [c \in DOMAIN changes |-> W!walkChange(W!entryRead(entry), changes[c])]
  <2>1. W!walkEntry(entry) = u \o Flat(s)
    BY <1>2, FlattenSeqIsFlat DEF W!walkEntry, ChangesOf
  <2>2. IsSeq(changes) /\ DOMAIN changes = 1..Len(changes) /\ Len(changes) \in Nat
    BY <1>2, ListIsSeq, SequenceFacts DEF W!IsEntry, ChangesOf, W!changesOf, ListOf
  <2>3. \A c \in 1..Len(changes) : s[c] = W!walkChange(W!entryRead(entry), changes[c])
    BY <2>2
  <2>4. s = [c \in 1..Len(changes) |-> s[c]]
    BY <2>2
  <2>5. IsSeq(u) /\ \A w : w \in Elements(u) <=> W!Broken(entry.is.changes) /\ w = W!Unread
    BY UnreadElements
  <2> HIDE DEF u, s, changes
  <2>6. IsSeqOfSeqs(s) /\ Len(s) = Len(changes)
    <3>1. IsSeq(s) /\ Len(s) = Len(changes)
      BY <2>2, <2>4, Enumerated
    <3>2. \A c \in 1..Len(changes) : IsSeq(s[c])
      BY <2>3, ChangeWalk
    <3> QED
      BY <3>1, <3>2 DEF IsSeqOfSeqs
  <2>7. IsSeq(Flat(s)) /\ Elements(Flat(s)) = UNION {Elements(s[c]) : c \in 1..Len(s)}
    BY <2>6, FlatElements
  <2>8. IsSeq(u \o Flat(s)) /\ Elements(u \o Flat(s)) = Elements(u) \cup Elements(Flat(s))
    BY <2>5, <2>7, Concatenated
  <2>9. \A w : w \in Elements(Flat(s)) <=>
                 \E c \in DOMAIN changes :
                   w \in Elements(W!walkChange(W!entryRead(entry), changes[c]))
    BY <2>2, <2>3, <2>6, <2>7
  <2> QED
    BY <1>2, <2>1, <2>5, <2>8, <2>9 DEF changes
<1> QED
  BY <1>1, <1>2

IsBatch(p) == W!IsPayload(p) /\ p.object

LEMMA BatchShape ==
  ASSUME NEW p, IsBatch(p)
  PROVE  /\ p = [object |-> TRUE, entry |-> p.entry] /\ W!IsList(p.entry)
         /\ \A e \in DOMAIN W!entriesOf(p) : W!IsEntry(W!entriesOf(p)[e])
         /\ IsSeq(W!entriesOf(p)) /\ Len(W!entriesOf(p)) \in Nat
         /\ DOMAIN W!entriesOf(p) = 1..Len(W!entriesOf(p))
<1>1. /\ p = [object |-> TRUE, entry |-> p.entry] /\ W!IsList(p.entry)
      /\ \A e \in DOMAIN W!entriesOf(p) : W!IsEntry(W!entriesOf(p)[e])
  BY DEF IsBatch, W!IsPayload
<1> QED
  BY <1>1, ListIsSeq, SequenceFacts DEF W!entriesOf, ListOf

LEMMA BatchWalk ==
  ASSUME NEW p, IsBatch(p)
  PROVE  /\ IsSeq(W!forEachChange(p))
         /\ \A w : w \in Elements(W!forEachChange(p)) <=>
              \/ W!Broken(p.entry) /\ w = W!Unread
              \/ \E e \in DOMAIN W!entriesOf(p) : w \in Elements(W!walkEntry(W!entriesOf(p)[e]))
<1> DEFINE u == W!UnreadIf(p.entry)
           entries == W!entriesOf(p)
           s == [e \in DOMAIN entries |-> W!walkEntry(entries[e])]
<1>1. W!forEachChange(p) = u \o Flat(s)
  BY FlattenSeqIsFlat DEF W!forEachChange, IsBatch
<1>2. DOMAIN entries = 1..Len(entries) /\ Len(entries) \in Nat
  BY BatchShape
<1>3. \A e \in 1..Len(entries) : s[e] = W!walkEntry(entries[e])
  BY <1>2
<1>4. s = [e \in 1..Len(entries) |-> s[e]]
  BY <1>2
<1>5. IsSeq(u) /\ \A w : w \in Elements(u) <=> W!Broken(p.entry) /\ w = W!Unread
  BY UnreadElements
<1>6. \A e \in 1..Len(entries) : IsSeq(W!walkEntry(entries[e]))
  BY <1>2, BatchShape, EntryWalk
<1> HIDE DEF u, s, entries
<1>7. IsSeqOfSeqs(s) /\ Len(s) = Len(entries)
  <2>1. IsSeq(s) /\ Len(s) = Len(entries)
    BY <1>2, <1>4, Enumerated
  <2> QED
    BY <1>3, <1>6, <2>1 DEF IsSeqOfSeqs
<1>8. IsSeq(Flat(s)) /\ Elements(Flat(s)) = UNION {Elements(s[e]) : e \in 1..Len(s)}
  BY <1>7, FlatElements
<1>9. IsSeq(u \o Flat(s)) /\ Elements(u \o Flat(s)) = Elements(u) \cup Elements(Flat(s))
  BY <1>5, <1>8, Concatenated
<1>10. \A w : w \in Elements(Flat(s)) <=>
                \E e \in DOMAIN entries : w \in Elements(W!walkEntry(entries[e]))
  BY <1>2, <1>3, <1>7, <1>8
<1> QED
  BY <1>1, <1>5, <1>9, <1>10 DEF entries

(* What was read of a batch: every change of every entry that could be read. *)
IsReadChange(p, e, c) ==
  /\ e \in DOMAIN W!entriesOf(p) /\ W!entriesOf(p)[e].state = "read"
  /\ c \in DOMAIN ChangesOf(W!entriesOf(p)[e])
  /\ ChangesOf(W!entriesOf(p)[e])[c].state = "read"

ReadingAt(p, e, c) ==
  ReadingOf(W!entryRead(W!entriesOf(p)[e]), ChangesOf(W!entriesOf(p)[e])[c])

UnreadPart(p) ==
  \/ W!Broken(p.entry)
  \/ \E e \in DOMAIN W!entriesOf(p) :
       LET entry == W!entriesOf(p)[e]
       IN \/ entry.state # "read"
          \/ /\ entry.state = "read"
             /\ \/ W!Broken(entry.is.changes)
                \/ \E c \in DOMAIN ChangesOf(entry) :
                     \/ ChangesOf(entry)[c].state # "read"
                     \/ /\ ChangesOf(entry)[c].state = "read"
                        /\ W!Broken(ChangesOf(entry)[c].is.field)

LEMMA WalkIsReading ==
  ASSUME NEW p, IsBatch(p)
  PROVE  \A w : w \in Elements(W!forEachChange(p)) <=>
           \/ UnreadPart(p) /\ w = W!Unread
           \/ \E e, c : IsReadChange(p, e, c) /\ w = ReadingAt(p, e, c)
<1> SUFFICES ASSUME NEW w
             PROVE  w \in Elements(W!forEachChange(p)) <=>
                      \/ UnreadPart(p) /\ w = W!Unread
                      \/ \E e, c : IsReadChange(p, e, c) /\ w = ReadingAt(p, e, c)
  OBVIOUS
<1>1. w \in Elements(W!forEachChange(p)) <=>
        \/ W!Broken(p.entry) /\ w = W!Unread
        \/ \E e \in DOMAIN W!entriesOf(p) : w \in Elements(W!walkEntry(W!entriesOf(p)[e]))
  BY BatchWalk
<1>2. \A e \in DOMAIN W!entriesOf(p) :
        w \in Elements(W!walkEntry(W!entriesOf(p)[e])) <=>
          \/ W!entriesOf(p)[e].state # "read" /\ w = W!Unread
          \/ /\ W!entriesOf(p)[e].state = "read"
             /\ W!Broken(W!entriesOf(p)[e].is.changes) /\ w = W!Unread
          \/ /\ W!entriesOf(p)[e].state = "read"
             /\ \E c \in DOMAIN ChangesOf(W!entriesOf(p)[e]) :
                  w \in Elements(W!walkChange(W!entryRead(W!entriesOf(p)[e]),
                                              ChangesOf(W!entriesOf(p)[e])[c]))
  BY BatchShape, EntryWalk
<1>3. \A e, c :
        w \in Elements(W!walkChange(W!entryRead(W!entriesOf(p)[e]),
                                    ChangesOf(W!entriesOf(p)[e])[c])) <=>
          \/ ChangesOf(W!entriesOf(p)[e])[c].state # "read" /\ w = W!Unread
          \/ /\ ChangesOf(W!entriesOf(p)[e])[c].state = "read"
             /\ W!Broken(ChangesOf(W!entriesOf(p)[e])[c].is.field) /\ w = W!Unread
          \/ ChangesOf(W!entriesOf(p)[e])[c].state = "read" /\ w = ReadingAt(p, e, c)
  BY ChangeWalk DEF ReadingAt
<1> QED
  BY <1>1, <1>2, <1>3 DEF UnreadPart, IsReadChange

---------------------------------------------------------------------------
(* What a batch comes to.                                                  *)

ComesToAt(p, e, c) == ComesTo(W!entriesOf(p)[e], ChangesOf(W!entriesOf(p)[e])[c])

Visited(w) == IF w.read THEN W!visit(w.ent, w.field, w.value) ELSE W!Lost

LEMMA ChangeShape ==
  ASSUME NEW p, IsBatch(p), NEW e, NEW c, IsReadChange(p, e, c)
  PROVE  /\ W!IsEntry(W!entriesOf(p)[e])
         /\ W!IsChange(ChangesOf(W!entriesOf(p)[e])[c])
         /\ W!IsValue(ChangesOf(W!entriesOf(p)[e])[c].is.value,
                      Field(ChangesOf(W!entriesOf(p)[e])[c]))
<1>1. W!IsEntry(W!entriesOf(p)[e])
  BY BatchShape DEF IsReadChange
<1>2. W!IsChange(ChangesOf(W!entriesOf(p)[e])[c])
  BY <1>1 DEF W!IsEntry, IsReadChange, ChangesOf
<1> QED
  BY <1>1, <1>2 DEF W!IsChange, IsReadChange, Field

LEMMA VisitedAt ==
  ASSUME NEW p, IsBatch(p), NEW e, NEW c, IsReadChange(p, e, c)
  PROVE  /\ Visited(ReadingAt(p, e, c)) = ComesToAt(p, e, c)
         /\ IsResult(ComesToAt(p, e, c))
<1>1. Visited(ReadingAt(p, e, c)) = ComesToAt(p, e, c)
  BY DEF Visited, ReadingAt, ReadingOf, ComesToAt, ComesTo
<1>2. IsResult(ComesToAt(p, e, c))
  BY ChangeShape, VisitResult DEF ComesToAt, ComesTo
<1> QED
  BY <1>1, <1>2

(* The events are those of the changes that were read, and nothing that was *)
(* not read goes untold.                                                   *)
LEMMA ParsedBatch ==
  ASSUME NEW p, IsBatch(p)
  PROVE  /\ IsResult(W!ParseWebhook(p))
         /\ \A x : x \in Elements(W!ParseWebhook(p).events) <=>
              \E e, c : IsReadChange(p, e, c) /\ x \in Elements(ComesToAt(p, e, c).events)
         /\ W!ParseWebhook(p).ignored > 0 <=>
              UnreadPart(p) \/ \E e, c : IsReadChange(p, e, c) /\ ComesToAt(p, e, c).ignored > 0
<1> DEFINE walk == W!forEachChange(p)
           r == [i \in DOMAIN walk |-> Visited(walk[i])]
<1>1. W!ParseWebhook(p) = W!InTurn(r)
  BY DEF W!ParseWebhook, Visited
<1>2. /\ IsSeq(walk) /\ Len(walk) \in Nat /\ DOMAIN walk = 1..Len(walk)
      /\ Elements(walk) = {walk[i] : i \in 1..Len(walk)}
  BY BatchWalk, SequenceFacts
<1>3. \A w : w \in Elements(walk) <=>
               \/ UnreadPart(p) /\ w = W!Unread
               \/ \E e, c : IsReadChange(p, e, c) /\ w = ReadingAt(p, e, c)
  BY WalkIsReading
<1>4. r = [i \in 1..Len(walk) |-> r[i]] /\ \A i \in 1..Len(walk) : r[i] = Visited(walk[i])
  BY <1>2
<1> HIDE DEF walk, r
<1>5. Visited(W!Unread) = W!Lost
  BY DEF Visited, W!Unread
<1>6. \A w \in Elements(walk) : IsResult(Visited(w))
  BY <1>3, <1>5, VisitedAt, ResultsOfNothing
<1>7. IsSeq(r) /\ Len(r) = Len(walk)
  BY <1>2, <1>4, Enumerated
<1>8. \A i \in 1..Len(r) : IsResult(r[i])
  BY <1>2, <1>4, <1>6, <1>7
<1>9. /\ IsResult(W!InTurn(r))
      /\ Elements(W!InTurn(r).events) = UNION {Elements(r[i].events) : i \in 1..Len(r)}
      /\ W!InTurn(r).ignored > 0 <=> \E i \in 1..Len(r) : r[i].ignored > 0
  BY <1>7, <1>8, InTurnFacts
<1>10. \A x : x \in Elements(W!InTurn(r).events) <=>
                \E w \in Elements(walk) : x \in Elements(Visited(w).events)
  <2>1. \A x : x \in Elements(W!InTurn(r).events) <=>
                 \E i \in 1..Len(walk) : x \in Elements(r[i].events)
    BY <1>7, <1>9
  <2>2. \A x : x \in Elements(W!InTurn(r).events) <=>
                 \E i \in 1..Len(walk) : x \in Elements(Visited(walk[i]).events)
    BY <1>4, <2>1
  <2> QED
    BY <1>2, <2>2
<1>11. W!InTurn(r).ignored > 0 <=> \E w \in Elements(walk) : Visited(w).ignored > 0
  BY <1>2, <1>4, <1>7, <1>9
<1>12. \A x : (\E w \in Elements(walk) : x \in Elements(Visited(w).events)) <=>
                \E e, c : IsReadChange(p, e, c) /\ x \in Elements(ComesToAt(p, e, c).events)
  BY <1>3, <1>5, VisitedAt, ResultsOfNothing
<1>13. (\E w \in Elements(walk) : Visited(w).ignored > 0) <=>
         UnreadPart(p) \/ \E e, c : IsReadChange(p, e, c) /\ ComesToAt(p, e, c).ignored > 0
  <2>1. W!Lost.ignored > 0
    BY ResultsOfNothing
  <2> QED
    BY <1>3, <1>5, <2>1, VisitedAt
<1> QED
  BY <1>1, <1>9, <1>10, <1>11, <1>12, <1>13

(* The accounts that are compared. *)
LEMMA AccountsOfBatch ==
  ASSUME NEW p, IsBatch(p)
  PROVE  \A e, c : /\ IsReadChange(p, e, c)
                   /\ Field(ChangesOf(W!entriesOf(p)[e])[c]) # "messages"
                   => W!entryRead(W!entriesOf(p)[e]).waba \in W!AccountWabaIDsInPayload(p)
<1> SUFFICES ASSUME NEW e, NEW c, IsReadChange(p, e, c),
                    Field(ChangesOf(W!entriesOf(p)[e])[c]) # "messages"
             PROVE  W!entryRead(W!entriesOf(p)[e]).waba \in W!AccountWabaIDsInPayload(p)
  OBVIOUS
<1> DEFINE walk == W!forEachChange(p)
           w == ReadingAt(p, e, c)
<1>1. w \in Elements(walk)
  BY WalkIsReading
<1>2. PICK i \in DOMAIN walk : walk[i] = w
  BY <1>1 DEF Elements
<1>3. w.read /\ w.field # "messages" /\ w.ent.waba = W!entryRead(W!entriesOf(p)[e]).waba
  BY DEF ReadingAt, ReadingOf
<1> HIDE DEF w
<1> QED
  BY <1>2, <1>3 DEF W!AccountWabaIDsInPayload

---------------------------------------------------------------------------
(* A change alone.                                                         *)

(* The batch of one entry with one change. *)
Single(entry, change) ==
  [object |-> TRUE,
   entry |-> W!Read(<<[state |-> "read", is |-> [entry.is EXCEPT !.changes = W!Read(<<change>>)]]>>)]

LEMMA ListOfOne ==
  ASSUME NEW x
  PROVE  W!IsList(W!Read(<<x>>)) /\ ListOf(W!Read(<<x>>)) = <<x>> /\ <<x>>[1] = x
<1>1. IsSeq(<<x>>)
  BY OneElement
<1>2. <<x>>[1] = x
  OBVIOUS
<1> QED
  BY <1>1, <1>2
  DEF W!IsList, W!IsPart, W!Read, W!ToSet, IsSeq, Elements, ListOf, W!messageBlock

LEMMA SingleShape ==
  ASSUME NEW entry, W!IsEntry(entry), entry.state = "read", NEW change, W!IsChange(change)
  PROVE  /\ IsBatch(Single(entry, change))
         /\ DOMAIN W!entriesOf(Single(entry, change)) = {1}
         /\ LET one == W!entriesOf(Single(entry, change))[1]
            IN /\ one.state = "read" /\ W!entryRead(one) = W!entryRead(entry)
               /\ DOMAIN ChangesOf(one) = {1} /\ ChangesOf(one)[1] = change
<1> DEFINE is == [entry.is EXCEPT !.changes = W!Read(<<change>>)]
           one == [state |-> "read", is |-> is]
           p == [object |-> TRUE, entry |-> W!Read(<<one>>)]
<1>1. /\ entry.is = [k \in DOMAIN entry.is |-> entry.is[k]]
      /\ {"id", "time", "changes"} \subseteq DOMAIN entry.is
  BY DEF W!IsEntry, W!IsBlock
<1>2. /\ DOMAIN is = DOMAIN entry.is /\ is.changes = W!Read(<<change>>)
      /\ is.id = entry.is.id /\ is.time = entry.is.time
      /\ is = [k \in DOMAIN is |-> is[k]]
  BY <1>1
<1> HIDE DEF is
<1>3. W!IsBlock(one, {"id", "time", "changes"})
  BY <1>1, <1>2 DEF W!IsBlock, W!IsPart, W!Read
<1>4. ChangesOf(one) = <<change>>
  BY <1>2, ListOfOne DEF ChangesOf, W!changesOf, ListOf
<1>5. W!IsEntry(one)
  BY <1>2, <1>3, <1>4, ListOfOne, OneElement DEF W!IsEntry, ChangesOf
<1>6. W!entryRead(one) = W!entryRead(entry)
  BY <1>2 DEF W!entryRead
<1>7. W!entriesOf(p) = <<one>>
  BY ListOfOne DEF W!entriesOf, ListOf
<1>8. IsBatch(p)
  <2>1. DOMAIN <<one>> = {1} /\ <<one>>[1] = one
    OBVIOUS
  <2>2. \A e \in DOMAIN W!entriesOf(p) : W!IsEntry(W!entriesOf(p)[e])
    BY <1>5, <1>7, <2>1
  <2>3. p.object /\ p = [object |-> TRUE, entry |-> p.entry] /\ W!IsList(p.entry)
    BY ListOfOne
  <2> HIDE DEF p
  <2> QED
    BY <2>2, <2>3 DEF IsBatch, W!IsPayload
<1>9. p = Single(entry, change)
  BY DEF is, Single
<1>10. /\ DOMAIN <<one>> = {1} /\ <<one>>[1] = one
       /\ DOMAIN <<change>> = {1} /\ <<change>>[1] = change
  OBVIOUS
<1> HIDE DEF p
<1> QED
  BY <1>4, <1>6, <1>7, <1>8, <1>9, <1>10

LEMMA SingleParsed ==
  ASSUME NEW entry, W!IsEntry(entry), entry.state = "read", NEW change, W!IsChange(change)
  PROVE  /\ IsSeq(W!ParseWebhook(Single(entry, change)).events)
         /\ \A x : x \in Elements(W!ParseWebhook(Single(entry, change)).events) <=>
              change.state = "read" /\ x \in Elements(ComesTo(entry, change).events)
<1> DEFINE p == Single(entry, change)
           one == W!entriesOf(p)[1]
<1>1. /\ IsBatch(p) /\ DOMAIN W!entriesOf(p) = {1}
      /\ one.state = "read" /\ W!entryRead(one) = W!entryRead(entry)
      /\ DOMAIN ChangesOf(one) = {1} /\ ChangesOf(one)[1] = change
  BY SingleShape
<1> HIDE DEF p
<1>2. \A e, c : IsReadChange(p, e, c) <=> e = 1 /\ c = 1 /\ change.state = "read"
  BY <1>1 DEF IsReadChange
<1>3. ComesToAt(p, 1, 1) = ComesTo(entry, change)
  BY <1>1 DEF ComesToAt, ComesTo
<1>4. /\ IsResult(W!ParseWebhook(p))
      /\ \A x : x \in Elements(W!ParseWebhook(p).events) <=>
           \E e, c : IsReadChange(p, e, c) /\ x \in Elements(ComesToAt(p, e, c).events)
  BY <1>1, ParsedBatch
<1> QED
  BY <1>2, <1>3, <1>4 DEF p, IsResult

---------------------------------------------------------------------------
(* An item alone.                                                          *)

(* An item of a list of the value of a change that was read. *)
IsItem(change, list, i) ==
  /\ change.state = "read" /\ change.is.value.state = "read"
  /\ list \in W!Lists /\ i \in DOMAIN ListOf(change.is.value.is[list])

LEMMA ItemsOfChange ==
  ASSUME NEW change
  PROVE  /\ \A y \in W!Items(change) : IsItem(change, y[1], y[2])
         /\ \A list, i : IsItem(change, list, i) =>
              \E y \in W!Items(change) : y[1] = list /\ y[2] = i
<1>1. \A y : y \in W!Items(change) <=> \E list, i : y = <<list, i>> /\ IsItem(change, list, i)
  BY DEF W!Items, IsItem, ListOf
<1>2. \A list, i : <<list, i>>[1] = list /\ <<list, i>>[2] = i
  OBVIOUS
<1>3. ASSUME NEW y \in W!Items(change)
      PROVE  IsItem(change, y[1], y[2])
  <2>1. PICK list, i : y = <<list, i>> /\ IsItem(change, list, i)
    BY <1>1
  <2> QED
    BY <2>1
<1>4. ASSUME NEW list, NEW i, IsItem(change, list, i)
      PROVE  \E y \in W!Items(change) : y[1] = list /\ y[2] = i
  <2>1. <<list, i>> \in W!Items(change)
    BY <1>1, <1>4
  <2> QED
    BY <1>2, <2>1
<1> QED
  BY <1>3, <1>4

(* What is left of the value. *)
Rest(value, list, i) ==
  [k \in DOMAIN value.is |-> IF k = list THEN W!Read(<<value.is[k].is[i]>>)
                             ELSE IF k \in W!Lists THEN W!Absent ELSE value.is[k]]

RestIs(value, list, i, rest) ==
  /\ rest = [k \in DOMAIN rest |-> rest[k]] /\ DOMAIN rest = DOMAIN value.is
  /\ W!Lists \cup {"metadata"} \subseteq DOMAIN value.is
  /\ rest[list] = W!Read(<<ListOf(value.is[list])[i]>>)
  /\ \A k \in W!Lists : k # list => rest[k] = W!Absent
  /\ \A k \in DOMAIN value.is : k \notin W!Lists => rest[k] = value.is[k]

LEMMA RestFacts ==
  ASSUME NEW change, W!IsChange(change), NEW list, NEW i, IsItem(change, list, i)
  PROVE  RestIs(change.is.value, list, i, Rest(change.is.value, list, i))
<1> DEFINE value == change.is.value
           rest == Rest(value, list, i)
<1>1. W!IsValue(value, Field(change)) /\ value.state = "read"
  BY DEF W!IsChange, IsItem, Field
<1>2. W!Lists \cup {"metadata"} \subseteq DOMAIN value.is
  BY <1>1 DEF W!IsValue, W!IsBlock
<1>3. ListOf(value.is[list]) = value.is[list].is
  <2>1. value.is[list].state = "read"
    <3>1. i \in DOMAIN ListOf(value.is[list])
      BY DEF IsItem
    <3>2. DOMAIN <<>> = {}
      OBVIOUS
    <3> QED
      BY <3>1, <3>2 DEF ListOf, W!messageBlock
  <2> QED
    BY <2>1 DEF ListOf, W!messageBlock
<1>4. list \in W!Lists
  BY DEF IsItem
<1> HIDE DEF value
<1>5. /\ rest = [k \in DOMAIN rest |-> rest[k]] /\ DOMAIN rest = DOMAIN value.is
      /\ rest[list] = W!Read(<<value.is[list].is[i]>>)
      /\ \A k \in W!Lists : k # list => rest[k] = W!Absent
      /\ \A k \in DOMAIN value.is : k \notin W!Lists => rest[k] = value.is[k]
  BY <1>2, <1>4 DEF Rest
<1>6. RestIs(value, list, i, rest)
  BY <1>2, <1>3, <1>5 DEF RestIs
<1> QED
  BY <1>6 DEF value

LEMMA OnlyItemFacts ==
  ASSUME NEW change, W!IsChange(change), NEW list, NEW i, IsItem(change, list, i)
  PROVE  /\ W!IsChange(W!OnlyItem(change, list, i))
         /\ W!OnlyItem(change, list, i).state = "read"
         /\ Field(W!OnlyItem(change, list, i)) = Field(change)
         /\ W!OnlyItem(change, list, i).is.value = W!Read(Rest(change.is.value, list, i))
<1> DEFINE only == W!OnlyItem(change, list, i)
           value == change.is.value
           rest == Rest(value, list, i)
<1>1. change.state = "read" /\ value.state = "read" /\ list \in W!Lists
  BY DEF IsItem
<1>2. /\ change = W!Read(change.is) /\ {"field", "value"} \subseteq DOMAIN change.is
      /\ change.is = [k \in DOMAIN change.is |-> change.is[k]]
  <2>1. W!IsBlock(change, {"field", "value"})
    BY DEF W!IsChange
  <2>2. W!IsPart(change)
    BY <2>1 DEF W!IsBlock
  <2>3. change # W!Absent /\ change # W!Unreadable
    BY <1>1 DEF W!Absent, W!Unreadable
  <2> QED
    BY <1>1, <2>1, <2>2, <2>3 DEF W!IsBlock, W!IsPart
<1>3. W!IsValue(value, Field(change))
  BY <1>1 DEF W!IsChange, Field
<1>4. value = W!Read(value.is)
  BY <1>1, <1>3 DEF W!IsValue, W!IsBlock, W!IsPart, W!Absent, W!Unreadable
<1>5. only = W!Read([change.is EXCEPT !.value = W!Read(rest)])
  <2>1. [value EXCEPT !.is = rest] = W!Read(rest)
    BY <1>4 DEF W!Read
  <2>2. [change EXCEPT !.is = [change.is EXCEPT !.value = W!Read(rest)]]
          = W!Read([change.is EXCEPT !.value = W!Read(rest)])
    BY <1>2 DEF W!Read
  <2>3. only = [change EXCEPT !.is.value.is = rest]
    BY DEF W!OnlyItem, Rest
  <2>4. only = [change EXCEPT !.is = [change.is EXCEPT !.value = [value EXCEPT !.is = rest]]]
    BY <2>3
  <2> QED
    BY <2>1, <2>2, <2>4
<1> DEFINE is == [change.is EXCEPT !.value = W!Read(rest)]
<1>6. /\ is = [k \in DOMAIN is |-> is[k]] /\ DOMAIN is = DOMAIN change.is
      /\ is.value = W!Read(rest) /\ is.field = change.is.field
  BY <1>2
<1>7. only = W!Read(is)
  BY <1>5
<1> HIDE DEF only, is
<1>8. only.state = "read" /\ only.is = is
  BY <1>7 DEF W!Read
<1>9. Field(only) = Field(change)
  BY <1>6, <1>8 DEF Field
<1>10. W!IsValue(W!Read(rest), Field(change))
  <2>1. /\ rest = [k \in DOMAIN rest |-> rest[k]] /\ DOMAIN rest = DOMAIN value.is
        /\ rest[list] = W!Read(<<ListOf(value.is[list])[i]>>)
        /\ \A k \in W!Lists : k # list => rest[k] = W!Absent
    BY RestFacts DEF RestIs
  <2> HIDE DEF rest, value
  <2>2. \A k \in W!Lists : W!IsList(rest[k])
    <3>1. W!IsList(rest[list])
      BY <2>1, ListOfOne
    <3>2. W!IsList(W!Absent)
      BY DEF W!IsList, W!IsPart, W!Absent
    <3> QED
      BY <2>1, <3>1, <3>2
  <2>3. W!Read(rest).state = "read" /\ W!Read(rest).is = rest
    BY DEF W!Read
  <2>4. W!IsPart(W!Read(rest))
    BY <2>3 DEF W!IsPart
  <2> QED
    BY <1>1, <1>3, <2>1, <2>2, <2>3, <2>4 DEF W!IsValue, W!IsBlock
<1>11. W!IsChange(only)
  <2>1. W!IsPart(only)
    BY <1>7, <1>8 DEF W!IsPart
  <2>2. W!IsBlock(only, {"field", "value"})
    BY <1>2, <1>6, <1>8, <2>1 DEF W!IsBlock
  <2> QED
    BY <1>6, <1>8, <1>9, <1>10, <2>2 DEF W!IsChange, Field
<1>12. only.is.value = W!Read(rest)
  BY <1>6, <1>8
<1> QED
  BY <1>8, <1>9, <1>11, <1>12 DEF only

(* An account's change is the same with its lists and without; of the others *)
(* an item alone comes to what it comes to among its neighbours.           *)
LEMMA OnlyItemComesTo ==
  ASSUME NEW entry, NEW change, W!IsChange(change), NEW list, NEW i, IsItem(change, list, i)
  PROVE  /\ Field(change) \in DOMAIN W!Pieces =>
              ComesTo(entry, W!OnlyItem(change, list, i)) = ComesTo(entry, change)
         /\ Field(change) \notin DOMAIN W!Pieces =>
              \A x : x \in Elements(ComesTo(entry, W!OnlyItem(change, list, i)).events) <=>
                x \in Elements(AnItem(change.is.value, list, i, W!entryRead(entry)).events)
<1> DEFINE only == W!OnlyItem(change, list, i)
           value == change.is.value
           rest == Rest(value, list, i)
           ent == W!entryRead(entry)
<1>1. /\ W!IsChange(only) /\ only.state = "read" /\ Field(only) = Field(change)
      /\ only.is.value = W!Read(rest)
  BY OnlyItemFacts
<1>2. /\ DOMAIN rest = DOMAIN value.is
      /\ W!Lists \cup {"metadata"} \subseteq DOMAIN value.is
      /\ rest[list] = W!Read(<<ListOf(value.is[list])[i]>>)
      /\ \A k \in W!Lists : k # list => rest[k] = W!Absent
      /\ \A k \in DOMAIN value.is : k \notin W!Lists => rest[k] = value.is[k]
  <2>1. RestIs(value, list, i, rest)
    BY RestFacts
  <2> QED
    BY <2>1 DEF RestIs
<1>3. /\ W!Read(rest).state = "read" /\ W!Read(rest).is = rest
      /\ value.state = "read" /\ list \in W!Lists
  BY DEF W!Read, IsItem
<1>4. W!IsValue(value, Field(change)) /\ W!IsValue(W!Read(rest), Field(change))
  BY <1>1, <1>3 DEF W!IsChange, Field, IsItem
<1> HIDE DEF rest, only, value
<1>5. ASSUME Field(change) \in DOMAIN W!Pieces
      PROVE  ComesTo(entry, only) = ComesTo(entry, change)
  <2>1. W!ToSet(W!Pieces[Field(change)]) \subseteq DOMAIN value.is
    BY <1>3, <1>4, <1>5 DEF W!IsValue, W!IsBlock
  <2>2. W!ToSet(W!Pieces[Field(change)]) \cap W!Lists = {}
    BY <1>5 DEF W!ToSet, W!Pieces, W!Lists
  <2>3. \A k \in W!ToSet(W!Pieces[Field(change)]) : rest[k] = value.is[k]
    BY <1>2, <2>1, <2>2
  <2>4. [k \in W!ToSet(W!Pieces[Field(change)]) |-> W!textFromNumberOrString(rest[k])]
          = [k \in W!ToSet(W!Pieces[Field(change)]) |-> W!textFromNumberOrString(value.is[k])]
    BY <2>3
  <2>5. W!accountEvent(Field(change), W!Read(rest), ent.waba, ent.when)
          = W!accountEvent(Field(change), value, ent.waba, ent.when)
    BY <1>3, <2>4 DEF W!accountEvent
  <2> QED
    BY <1>1, <1>5, <2>5 DEF ComesTo, W!visit, value
<1>6. ASSUME Field(change) \notin DOMAIN W!Pieces
      PROVE  \A x : x \in Elements(ComesTo(entry, only).events) <=>
                      x \in Elements(AnItem(value, list, i, ent).events)
  <2>1. ComesTo(entry, only) = W!readValue(ent, W!Read(rest))
    BY <1>1, <1>6 DEF ComesTo, W!visit
  <2>2. \A x : x \in Elements(W!readValue(ent, W!Read(rest)).events) <=>
                 \E l \in W!Lists : \E j \in DOMAIN ListOf(rest[l]) :
                   x \in Elements(AnItem(W!Read(rest), l, j, ent).events)
    BY <1>3, <1>4, ValueResult
  <2>3. Number(W!Read(rest)) = Number(value)
    BY <1>2, <1>3 DEF Number, W!Lists
  <2> DEFINE item == ListOf(value.is[list])[i]
  <2>4. /\ DOMAIN ListOf(rest[list]) = {1} /\ ListOf(rest[list])[1] = item
        /\ \A l \in W!Lists : l # list => DOMAIN ListOf(rest[l]) = {}
    <3>1. ListOf(rest[list]) = <<item>>
      BY <1>2, ListOfOne
    <3>2. ListOf(W!Absent) = <<>>
      BY DEF ListOf, W!messageBlock, W!Absent
    <3>3. DOMAIN <<item>> = {1} /\ <<item>>[1] = item /\ DOMAIN <<>> = {}
      OBVIOUS
    <3> QED
      BY <1>2, <3>1, <3>2, <3>3
  <2>5. AnItem(W!Read(rest), list, 1, ent) = AnItem(value, list, i, ent)
    BY <1>3, <2>3, <2>4 DEF AnItem
  <2>6. \A x : x \in Elements(W!readValue(ent, W!Read(rest)).events) <=>
                 x \in Elements(AnItem(W!Read(rest), list, 1, ent).events)
    BY <1>3, <2>2, <2>4
  <2> QED
    BY <2>1, <2>5, <2>6
<1> QED
  BY <1>5, <1>6 DEF only, value

---------------------------------------------------------------------------
(* The properties of a batch.                                              *)

EntryAt(e) == W!entriesOf(payload)[e]
ChangeAt(e, c) == ChangesOf(EntryAt(e))[c]

(* A change, read or not, of an entry that was read. *)
IsChangeAt(e, c) ==
  /\ e \in DOMAIN W!entriesOf(payload) /\ EntryAt(e).state = "read"
  /\ c \in DOMAIN ChangesOf(EntryAt(e))

LEMMA ChangesAt ==
  /\ \A y \in W!Changes : IsChangeAt(y[1], y[2])
  /\ \A e, c : IsChangeAt(e, c) => \E y \in W!Changes : y[1] = e /\ y[2] = c
<1>1. \A y : y \in W!Changes <=> \E e, c : y = <<e, c>> /\ IsChangeAt(e, c)
  BY DEF W!Changes, IsChangeAt, EntryAt, ChangesOf
<1>2. \A e, c : <<e, c>>[1] = e /\ <<e, c>>[2] = c
  OBVIOUS
<1>3. ASSUME NEW y \in W!Changes
      PROVE  IsChangeAt(y[1], y[2])
  <2>1. PICK e, c : y = <<e, c>> /\ IsChangeAt(e, c)
    BY <1>1
  <2> QED
    BY <2>1
<1>4. ASSUME NEW e, NEW c, IsChangeAt(e, c)
      PROVE  \E y \in W!Changes : y[1] = e /\ y[2] = c
  <2>1. <<e, c>> \in W!Changes
    BY <1>1, <1>4
  <2> QED
    BY <1>2, <2>1
<1> QED
  BY <1>3, <1>4

LEMMA ShapeAt ==
  ASSUME IsBatch(payload), NEW e, NEW c, IsChangeAt(e, c)
  PROVE  W!IsEntry(EntryAt(e)) /\ EntryAt(e).state = "read" /\ W!IsChange(ChangeAt(e, c))
<1>1. W!IsEntry(EntryAt(e)) /\ EntryAt(e).state = "read"
  BY BatchShape DEF IsChangeAt, EntryAt
<1> QED
  BY <1>1 DEF W!IsEntry, IsChangeAt, ChangeAt, ChangesOf

LEMMA EntryReplaced ==
  \A t, y, z : [[object |-> t, entry |-> y] EXCEPT !.entry = z] = [object |-> t, entry |-> z]
  OBVIOUS

LEMMA OnlyIsSingle ==
  ASSUME IsBatch(payload), NEW e, NEW c, IsChangeAt(e, c), NEW change
  PROVE  W!Only(e, change) = Single(EntryAt(e), change)
<1> DEFINE entry == EntryAt(e)
           only == W!Read(<<change>>)
<1>1. entry = [state |-> "read", is |-> entry.is]
  <2>1. W!IsPart(entry) /\ entry.state = "read"
    BY ShapeAt DEF W!IsEntry, W!IsBlock
  <2> HIDE DEF entry
  <2>2. entry # W!Absent /\ entry # W!Unreadable
    BY <2>1 DEF W!Absent, W!Unreadable
  <2> QED
    BY <2>1, <2>2 DEF W!IsPart, W!Read
<1>2. payload = [object |-> TRUE, entry |-> payload.entry]
  BY BatchShape
<1>3. W!Only(e, change) = [payload EXCEPT !.entry = W!Read(<<[entry EXCEPT !.is.changes = only]>>)]
  BY DEF W!Only, EntryAt
<1> HIDE DEF entry, only
<1>4. [entry EXCEPT !.is.changes = only]
        = [state |-> "read", is |-> [entry.is EXCEPT !.changes = only]]
  BY <1>1
<1> DEFINE one == W!Read(<<[entry EXCEPT !.is.changes = only]>>)
<1>5. W!Only(e, change) = [payload EXCEPT !.entry = one]
  BY <1>3
<1> HIDE DEF one
<1>6. [payload EXCEPT !.entry = one] = [object |-> TRUE, entry |-> one]
  <2>1. \E y : payload = [object |-> TRUE, entry |-> y]
    BY <1>2
  <2>2. PICK y : payload = [object |-> TRUE, entry |-> y]
    BY <2>1
  <2> QED
    BY <2>2, EntryReplaced
<1> QED
  BY <1>4, <1>5, <1>6 DEF one, entry, only, Single

LEMMA OneItemParsed ==
  ASSUME NEW entry, W!IsEntry(entry), entry.state = "read", NEW change, W!IsChange(change),
         NEW list, NEW i, IsItem(change, list, i)
  PROVE  /\ IsSeq(W!ParseWebhook(Single(entry, W!OnlyItem(change, list, i))).events)
         /\ Field(change) \in DOMAIN W!Pieces =>
              \A x : x \in Elements(W!ParseWebhook(Single(entry, W!OnlyItem(change, list, i))).events)
                       <=> x \in Elements(ComesTo(entry, change).events)
         /\ Field(change) \notin DOMAIN W!Pieces =>
              \A x : x \in Elements(W!ParseWebhook(Single(entry, W!OnlyItem(change, list, i))).events)
                       <=> x \in Elements(AnItem(change.is.value, list, i,
                                                 W!entryRead(entry)).events)
<1> DEFINE only == W!OnlyItem(change, list, i)
<1>1. W!IsChange(only) /\ only.state = "read"
  BY OnlyItemFacts
<1>2. /\ Field(change) \in DOMAIN W!Pieces => ComesTo(entry, only) = ComesTo(entry, change)
      /\ Field(change) \notin DOMAIN W!Pieces =>
           \A x : x \in Elements(ComesTo(entry, only).events) <=>
             x \in Elements(AnItem(change.is.value, list, i, W!entryRead(entry)).events)
  BY OnlyItemComesTo
<1> HIDE DEF only
<1>3. /\ IsSeq(W!ParseWebhook(Single(entry, only)).events)
      /\ \A x : x \in Elements(W!ParseWebhook(Single(entry, only)).events) <=>
           only.state = "read" /\ x \in Elements(ComesTo(entry, only).events)
  BY <1>1, SingleParsed
<1> QED
  BY <1>1, <1>2, <1>3 DEF only

(* The events of what is left of a change are those of the change. *)
LEMMA AloneEvents ==
  ASSUME IsBatch(payload), NEW e, NEW c, IsChangeAt(e, c), NEW x
  PROVE  (\E q \in W!Alone(e, c) : x \in Elements(W!ParseWebhook(q).events)) <=>
           /\ ChangeAt(e, c).state = "read"
           /\ x \in Elements(ComesTo(EntryAt(e), ChangeAt(e, c)).events)
<1> DEFINE entry == EntryAt(e)
           change == ChangeAt(e, c)
           value == change.is.value
           ent == W!entryRead(entry)
<1>1. W!IsEntry(entry) /\ entry.state = "read" /\ W!IsChange(change)
  BY ShapeAt
<1>2. /\ \A y \in W!Items(change) : IsItem(change, y[1], y[2])
      /\ \A list, i : IsItem(change, list, i) =>
           \E y \in W!Items(change) : y[1] = list /\ y[2] = i
  BY ItemsOfChange
<1>3. /\ W!Items(change) = {} => W!Alone(e, c) = {Single(entry, change)}
      /\ W!Items(change) # {} =>
           \A q : q \in W!Alone(e, c) <=>
             \E y \in W!Items(change) : q = Single(entry, W!OnlyItem(change, y[1], y[2]))
  <2>1. change = W!changesOf(W!entriesOf(payload)[e])[c]
    BY DEF ChangeAt, ChangesOf, EntryAt
  <2>2. \A only : W!Only(e, only) = Single(entry, only)
    BY OnlyIsSingle
  <2> HIDE DEF change, entry
  <2> QED
    BY <2>1, <2>2 DEF W!Alone
<1> HIDE DEF entry, change
<1>4. \A x1 : x1 \in Elements(W!ParseWebhook(Single(entry, change)).events) <=>
         change.state = "read" /\ x1 \in Elements(ComesTo(entry, change).events)
  BY <1>1, SingleParsed
<1>5. CASE W!Items(change) = {}
  <2>1. W!Alone(e, c) = {Single(entry, change)}
    BY <1>3, <1>5
  <2> QED
    BY <1>4, <2>1 DEF entry, change
<1>6. CASE W!Items(change) # {}
  <2>1. PICK list0, i0 : IsItem(change, list0, i0)
    BY <1>2, <1>6
  <2>2. change.state = "read" /\ value.state = "read"
    BY <2>1 DEF IsItem
  <2>3. (\E q \in W!Alone(e, c) : x \in Elements(W!ParseWebhook(q).events)) <=>
          \E list, i : /\ IsItem(change, list, i)
                       /\ x \in Elements(W!ParseWebhook(
                                  Single(entry, W!OnlyItem(change, list, i))).events)
    <3>1. \A q : q \in W!Alone(e, c) <=>
            \E list, i : IsItem(change, list, i) /\ q = Single(entry, W!OnlyItem(change, list, i))
      BY <1>2, <1>3, <1>6
    <3> QED
      BY <3>1
  <2>4. CASE Field(change) \in DOMAIN W!Pieces
    <3>1. \A list, i : IsItem(change, list, i) =>
            (x \in Elements(W!ParseWebhook(Single(entry, W!OnlyItem(change, list, i))).events)
               <=> x \in Elements(ComesTo(entry, change).events))
      BY <1>1, <2>4, OneItemParsed
    <3> QED
      BY <2>1, <2>2, <2>3, <3>1 DEF entry, change
  <2>5. CASE Field(change) \notin DOMAIN W!Pieces
    <3>1. \A list, i : IsItem(change, list, i) =>
            (x \in Elements(W!ParseWebhook(Single(entry, W!OnlyItem(change, list, i))).events)
               <=> x \in Elements(AnItem(value, list, i, ent).events))
      BY <1>1, <2>5, OneItemParsed
    <3>2. W!IsValue(value, Field(change))
      BY <1>1, <2>2 DEF W!IsChange, Field
    <3>3. ComesTo(entry, change) = W!readValue(ent, value)
      BY <2>5 DEF ComesTo, W!visit
    <3>4. x \in Elements(W!readValue(ent, value).events) <=>
            \E list \in W!Lists : \E i \in DOMAIN ListOf(value.is[list]) :
              x \in Elements(AnItem(value, list, i, ent).events)
      BY <2>2, <3>2, ValueResult
    <3>5. \A list, i : IsItem(change, list, i) <=>
                         list \in W!Lists /\ i \in DOMAIN ListOf(value.is[list])
      BY <2>2 DEF IsItem
    <3> QED
      BY <2>2, <2>3, <3>1, <3>3, <3>4, <3>5 DEF entry, change
  <2> QED
    BY <2>4, <2>5
<1> QED
  BY <1>5, <1>6

LEMMA ReadAloneHolds ==
  ASSUME IsBatch(payload), evs = W!ParseWebhook(payload).events
  PROVE  W!ItemsAreReadAlone
<1>1. \A x : x \in Elements(evs) <=>
        \E e, c : IsReadChange(payload, e, c) /\ x \in Elements(ComesToAt(payload, e, c).events)
  BY ParsedBatch
<1>2. \A x : x \in Elements(evs) <=>
        \E e, c : /\ IsChangeAt(e, c) /\ ChangeAt(e, c).state = "read"
                  /\ x \in Elements(ComesTo(EntryAt(e), ChangeAt(e, c)).events)
  BY <1>1 DEF IsReadChange, ComesToAt, IsChangeAt, ChangeAt, EntryAt
<1>3. \A x : x \in Elements(evs) <=>
        \E e, c : /\ IsChangeAt(e, c)
                  /\ \E q \in W!Alone(e, c) : x \in Elements(W!ParseWebhook(q).events)
  BY <1>2, AloneEvents
<1>4. \A x : x \in Elements(evs) <=>
        \E y \in W!Changes : \E q \in W!Alone(y[1], y[2]) : x \in Elements(W!ParseWebhook(q).events)
  BY <1>3, ChangesAt
<1>5. \A s : W!ToSet(s) = Elements(s)
  BY DEF W!ToSet, Elements
<1> DEFINE told(q) == W!ToSet(W!ParseWebhook(q).events)
<1>6. \A x : x \in UNION {UNION {told(q) : q \in W!Alone(y[1], y[2])} : y \in W!Changes} <=>
        \E y \in W!Changes : \E q \in W!Alone(y[1], y[2]) : x \in told(q)
  OBVIOUS
<1>7. W!ToSet(evs) = UNION {UNION {told(q) : q \in W!Alone(y[1], y[2])} : y \in W!Changes}
  BY <1>4, <1>5, <1>6
<1> QED
  BY <1>7 DEF W!ItemsAreReadAlone

(* A change that was read loses something where its parts say so. *)
LEMMA BrokenAt ==
  ASSUME IsBatch(payload), NEW e, NEW c, IsChangeAt(e, c)
  PROVE  W!BrokenChange(e, c) <=>
           \/ ChangeAt(e, c).state # "read"
           \/ /\ ChangeAt(e, c).state = "read"
              /\ \/ W!Broken(ChangeAt(e, c).is.field)
                 \/ ComesTo(EntryAt(e), ChangeAt(e, c)).ignored > 0
<1> DEFINE entry == EntryAt(e)
           change == ChangeAt(e, c)
           value == change.is.value
           ent == W!entryRead(entry)
<1>1. W!IsEntry(entry) /\ entry.state = "read" /\ W!IsChange(change)
  BY ShapeAt
<1>2. change = W!changesOf(W!entriesOf(payload)[e])[c]
  BY DEF ChangeAt, ChangesOf, EntryAt
<1>3. \A only : W!Only(e, only) = Single(entry, only)
  BY OnlyIsSingle
<1> HIDE DEF entry, change
<1>4. W!BrokenChange(e, c) <=>
        \/ change.state # "read"
        \/ /\ change.state = "read"
           /\ \/ W!Broken(change.is.field)
              \/ W!Broken(value)
              \/ \E y \in W!Items(change) :
                   W!ParseWebhook(Single(entry, W!OnlyItem(change, y[1], y[2]))).events = <<>>
              \/ /\ Field(change) \in DOMAIN W!Pieces
                 /\ W!ParseWebhook(Single(entry, change)).events = <<>>
              \/ /\ Field(change) \notin DOMAIN W!Pieces
                 /\ value.state = "read"
                 /\ \E list \in W!Lists : W!Broken(value.is[list])
  BY <1>2, <1>3 DEF W!BrokenChange, Field
<1>5. (\E y \in W!Items(change) :
         W!ParseWebhook(Single(entry, W!OnlyItem(change, y[1], y[2]))).events = <<>>) <=>
      \E list, i : /\ IsItem(change, list, i)
                   /\ W!ParseWebhook(Single(entry, W!OnlyItem(change, list, i))).events = <<>>
  BY ItemsOfChange
<1>6. CASE change.state # "read"
  BY <1>4, <1>6 DEF change
<1>7. CASE change.state = "read" /\ Field(change) \in DOMAIN W!Pieces
  <2> DEFINE all == ComesTo(entry, change)
             single == W!ParseWebhook(Single(entry, change)).events
  <2>1. W!IsValue(value, Field(change))
    BY <1>1, <1>7 DEF W!IsChange, Field
  <2>2. IsResult(all) /\ (all.ignored > 0 <=> all.events = <<>>)
    BY <1>7, <2>1, VisitResult DEF ComesTo
  <2>3. IsSeq(single) /\ \A x : x \in Elements(single) <=> x \in Elements(all.events)
    BY <1>1, <1>7, SingleParsed
  <2>4. \A list, i : IsItem(change, list, i) =>
          /\ IsSeq(W!ParseWebhook(Single(entry, W!OnlyItem(change, list, i))).events)
          /\ \A x : x \in Elements(W!ParseWebhook(Single(entry, W!OnlyItem(change, list, i))).events)
                      <=> x \in Elements(all.events)
    BY <1>1, <1>7, OneItemParsed
  <2>5. W!Broken(value) => all.events = <<>>
    <3>1. ASSUME W!Broken(value)
          PROVE  W!accountEvent(Field(change), value, ent.waba, ent.when) = <<>>
      BY <3>1 DEF W!accountEvent, W!Broken
    <3>2. all = W!Became(W!accountEvent(Field(change), value, ent.waba, ent.when))
      BY <1>7 DEF ComesTo, W!visit
    <3> QED
      BY <3>1, <3>2, BecameResult
  <2> HIDE DEF all, single
  <2>6. single = <<>> <=> all.events = <<>>
    <3>1. (single = <<>> <=> Elements(single) = {}) /\ (all.events = <<>> <=> Elements(all.events) = {})
      BY <2>2, <2>3, SequenceFacts DEF IsResult
    <3> QED
      BY <2>3, <3>1
  <2>7. \A list, i : IsItem(change, list, i) =>
          (W!ParseWebhook(Single(entry, W!OnlyItem(change, list, i))).events = <<>>
             <=> all.events = <<>>)
    <3> SUFFICES ASSUME NEW list, NEW i, IsItem(change, list, i)
                 PROVE  W!ParseWebhook(Single(entry, W!OnlyItem(change, list, i))).events = <<>>
                          <=> all.events = <<>>
      OBVIOUS
    <3> DEFINE alone == W!ParseWebhook(Single(entry, W!OnlyItem(change, list, i))).events
    <3>1. IsSeq(alone) /\ \A x : x \in Elements(alone) <=> x \in Elements(all.events)
      BY <2>4
    <3> HIDE DEF alone
    <3>2. (alone = <<>> <=> Elements(alone) = {}) /\ (all.events = <<>> <=> Elements(all.events) = {})
      BY <2>2, <3>1, SequenceFacts DEF IsResult
    <3>3. alone = <<>> <=> all.events = <<>>
      BY <3>1, <3>2
    <3> QED
      BY <3>3 DEF alone
  <2>8. W!BrokenChange(e, c) <=> W!Broken(change.is.field) \/ all.ignored > 0
    BY <1>4, <1>5, <1>7, <2>2, <2>5, <2>6, <2>7 DEF single
  <2> QED
    BY <1>7, <2>8 DEF all, change, entry
<1>8. CASE change.state = "read" /\ Field(change) \notin DOMAIN W!Pieces
  <2> DEFINE all == W!readValue(ent, value)
  <2>1. W!IsValue(value, Field(change))
    BY <1>1, <1>8 DEF W!IsChange, Field
  <2>2. ComesTo(entry, change) = all
    BY <1>8 DEF ComesTo, W!visit
  <2>3. /\ value.state # "read" => (all.ignored > 0 <=> W!Broken(value))
        /\ value.state = "read" =>
             (all.ignored > 0 <=>
                \E list \in W!Lists :
                  \/ W!Broken(value.is[list])
                  \/ \E i \in DOMAIN ListOf(value.is[list]) : AnItem(value, list, i, ent).ignored > 0)
    BY <2>1, ValueResult
  <2>4. ASSUME NEW list, NEW i, IsItem(change, list, i)
        PROVE  W!ParseWebhook(Single(entry, W!OnlyItem(change, list, i))).events = <<>>
                 <=> AnItem(value, list, i, ent).ignored > 0
    <3> DEFINE alone == W!ParseWebhook(Single(entry, W!OnlyItem(change, list, i))).events
               one == AnItem(value, list, i, ent)
    <3>1. IsSeq(alone) /\ \A x : x \in Elements(alone) <=> x \in Elements(one.events)
      BY <1>1, <1>8, <2>4, OneItemParsed
    <3>2. IsResult(one) /\ (one.ignored > 0 <=> one.events = <<>>)
      BY ItemResult DEF AnItem
    <3> HIDE DEF alone, one
    <3>3. (alone = <<>> <=> Elements(alone) = {}) /\ (one.events = <<>> <=> Elements(one.events) = {})
      BY <3>1, <3>2, SequenceFacts DEF IsResult
    <3>4. alone = <<>> <=> one.ignored > 0
      BY <3>1, <3>2, <3>3
    <3> QED
      BY <3>4 DEF alone, one
  <2>5. \A list, i : IsItem(change, list, i) <=>
          value.state = "read" /\ list \in W!Lists /\ i \in DOMAIN ListOf(value.is[list])
    BY <1>8 DEF IsItem
  <2>6. W!Broken(value) => value.state # "read"
    BY DEF W!Broken
  <2> HIDE DEF all
  <2>7. W!BrokenChange(e, c) <=> W!Broken(change.is.field) \/ all.ignored > 0
    BY <1>4, <1>5, <1>8, <2>3, <2>4, <2>5, <2>6
  <2> QED
    BY <1>8, <2>2, <2>7 DEF change, entry
<1> QED
  BY <1>6, <1>7, <1>8

LEMMA LossToldHolds ==
  ASSUME IsBatch(payload), ignored = W!ParseWebhook(payload).ignored
  PROVE  W!LossIsTold
<1>1. ignored > 0 <=>
        \/ UnreadPart(payload)
        \/ \E e, c : IsReadChange(payload, e, c) /\ ComesToAt(payload, e, c).ignored > 0
  BY ParsedBatch
<1>2. \A e, c : IsReadChange(payload, e, c) /\ ComesToAt(payload, e, c).ignored > 0 <=>
        /\ IsChangeAt(e, c) /\ ChangeAt(e, c).state = "read"
        /\ ComesTo(EntryAt(e), ChangeAt(e, c)).ignored > 0
  BY DEF IsReadChange, ComesToAt, IsChangeAt, ChangeAt, EntryAt
<1> DEFINE unread == \/ W!Broken(payload.entry)
                     \/ \E e \in DOMAIN W!entriesOf(payload) :
                          \/ EntryAt(e).state # "read"
                          \/ EntryAt(e).state = "read" /\ W!Broken(EntryAt(e).is.changes)
<1>3. UnreadPart(payload) <=>
        \/ unread
        \/ \E e, c : /\ IsChangeAt(e, c)
                     /\ \/ ChangeAt(e, c).state # "read"
                        \/ /\ ChangeAt(e, c).state = "read"
                           /\ W!Broken(ChangeAt(e, c).is.field)
  BY DEF UnreadPart, IsChangeAt, EntryAt, ChangeAt
<1>4. (\E y \in W!Changes : W!BrokenChange(y[1], y[2])) <=>
        \E e, c : IsChangeAt(e, c) /\ W!BrokenChange(e, c)
  BY ChangesAt
<1>5. W!LossIsTold <=>
        (answer # "none" /\ payload.object =>
           (ignored > 0 <=> unread \/ \E y \in W!Changes : W!BrokenChange(y[1], y[2])))
  BY DEF W!LossIsTold, EntryAt
<1> HIDE DEF unread
<1>6. ignored > 0 <=> unread \/ \E e, c : IsChangeAt(e, c) /\ W!BrokenChange(e, c)
  BY <1>1, <1>2, <1>3, BrokenAt
<1> QED
  BY <1>4, <1>5, <1>6

LEMMA ProvenHolds ==
  ASSUME IsBatch(payload), evs = W!ParseWebhook(payload).events,
         ~W!ForeignNumber, ~W!ForeignAccount
  PROVE  W!DeliveredIsProven
<1>1. ASSUME NEW e, NEW c, IsChangeAt(e, c), ChangeAt(e, c).state = "read",
             W!ParseWebhook(W!Only(e, ChangeAt(e, c))).events # <<>>
      PROVE  \/ W!messageBlock(EntryAt(e).is.id, "") = own
             \/ /\ Field(ChangeAt(e, c)) = "messages"
                /\ Number(ChangeAt(e, c).is.value) \in {own, ""}
                /\ ChangeAt(e, c).is.value.state = "read"
  <2> DEFINE entry == EntryAt(e)
             change == ChangeAt(e, c)
             value == change.is.value
  <2>1. W!IsEntry(entry) /\ entry.state = "read" /\ W!IsChange(change)
    BY <1>1, ShapeAt
  <2>2. /\ W!IsValue(value, Field(change))
        /\ IsReadChange(payload, e, c) /\ ComesToAt(payload, e, c) = ComesTo(entry, change)
    BY <1>1, <2>1 DEF W!IsChange, Field, IsReadChange, ComesToAt, IsChangeAt, EntryAt, ChangeAt
  <2>3. CASE Field(change) # "messages"
    <3>1. W!entryRead(entry).waba \in W!AccountWabaIDsInPayload(payload)
      BY <2>2, <2>3, AccountsOfBatch DEF EntryAt, ChangeAt
    <3>2. W!entryRead(entry).waba = own
      BY <3>1 DEF W!ForeignAccount
    <3> QED
      BY <3>2 DEF W!entryRead
  <2>4. CASE Field(change) = "messages"
    <3> DEFINE all == W!readValue(W!entryRead(entry), value)
               single == W!ParseWebhook(Single(entry, change)).events
    <3>1. Field(change) \notin DOMAIN W!Pieces
      BY <2>4 DEF W!Pieces
    <3>2. ComesTo(entry, change) = all
      BY <3>1 DEF ComesTo, W!visit
    <3>3. /\ single # <<>> /\ IsSeq(single)
          /\ \A x : x \in Elements(single) <=> x \in Elements(all.events)
      <4>1. W!Only(e, change) = Single(entry, change)
        BY <1>1, OnlyIsSingle
      <4> QED
        BY <1>1, <2>1, <3>2, <4>1, SingleParsed
    <3>4. PICK x : x \in Elements(all.events)
      <4> HIDE DEF single, all
      <4> QED
        BY <3>3, SequenceFacts
    <3>5. value.state = "read"
      <4>1. value.state # "read" => all.events = <<>>
        BY <2>2, ValueResult
      <4> HIDE DEF all
      <4> QED
        BY <3>4, <4>1, NoElements
    <3>6. x.number = Number(value)
      <4>1. \E list \in W!Lists : \E i \in DOMAIN ListOf(value.is[list]) :
              x \in Elements(AnItem(value, list, i, W!entryRead(entry)).events)
        BY <2>2, <3>4, <3>5, ValueResult
      <4>2. PICK list, i : x \in Elements(AnItem(value, list, i, W!entryRead(entry)).events)
        BY <4>1
      <4> QED
        BY <4>2, ItemResult DEF AnItem
    <3>7. x \in Elements(evs)
      BY <2>2, <3>2, <3>4, ParsedBatch
    <3>8. x.number \in {"", own}
      BY <3>7 DEF W!ForeignNumber, Elements
    <3> QED
      BY <2>4, <3>5, <3>6, <3>8
  <2> QED
    BY <2>3, <2>4
<1>2. ASSUME NEW y \in W!Changes, ChangeAt(y[1], y[2]).state = "read",
             W!ParseWebhook(W!Only(y[1], ChangeAt(y[1], y[2]))).events # <<>>
      PROVE  \/ W!messageBlock(EntryAt(y[1]).is.id, "") = own
             \/ /\ Field(ChangeAt(y[1], y[2])) = "messages"
                /\ Number(ChangeAt(y[1], y[2]).is.value) \in {own, ""}
                /\ ChangeAt(y[1], y[2]).is.value.state = "read"
  <2>1. IsChangeAt(y[1], y[2])
    BY ChangesAt
  <2> QED
    BY <1>1, <1>2, <2>1
<1>3. [waba |-> own, number |-> own].waba = own /\ [waba |-> own, number |-> own].number = own
  OBVIOUS
<1> QED
  BY <1>2, <1>3
  DEF W!DeliveredIsProven, W!NamesNoNumber, EntryAt, ChangeAt, ChangesOf, Field, Number

---------------------------------------------------------------------------
(* Instagram: what an item and an entry come to.                           *)

DMComesTo(item, igID) ==
  IF item.state = "read" THEN G!instagramMessageEvent(item.is, igID) ELSE G!Is("unreadable")

LEMMA KindOfDM ==
  ASSUME NEW item, NEW igID
  PROVE  /\ DMComesTo(item, igID).is \in {"event", "echo", "unmodeled", "unreadable"}
         /\ DMComesTo(item, igID).is = "event" => DMComesTo(item, igID).account = igID
         /\ DMComesTo(item, igID).is = "unreadable" <=>
              \/ item.state # "read"
              \/ item.state = "read" /\ G!Broken(item.is.message)
         /\ DMComesTo(item, igID).is = "echo" <=>
              /\ item.state = "read"
              /\ G!messageBlock(item.is.message, [echo |-> FALSE]).echo
<1>1. \A kind : G!Is(kind).is = kind
  BY DEF G!Is
<1>2. \A mid, from, at : /\ G!Event(mid, from, igID, at).is = "event"
                         /\ G!Event(mid, from, igID, at).account = igID
  BY DEF G!Event
<1>3. CASE item.state # "read"
  BY <1>1, <1>3 DEF DMComesTo
<1>4. CASE item.state = "read" /\ G!Broken(item.is.message)
  <2>1. DMComesTo(item, igID) = G!Is("unreadable")
    BY <1>4 DEF DMComesTo, G!instagramMessageEvent
  <2>2. ~G!messageBlock(item.is.message, [echo |-> FALSE]).echo
    BY <1>4 DEF G!messageBlock, G!Broken
  <2> QED
    BY <1>1, <1>4, <2>1, <2>2
<1>5. CASE item.state = "read" /\ ~G!Broken(item.is.message)
  <2> DEFINE msg == G!messageBlock(item.is.message, [echo |-> FALSE, mid |-> "", text |-> ""])
             said == G!messageBlock(item.is.message, [echo |-> FALSE])
  <2>1. said.echo <=> msg.echo
    BY DEF G!messageBlock
  <2>2. DMComesTo(item, igID) =
          IF msg.echo THEN G!Is("echo")
          ELSE IF msg.mid = "" \/ msg.text = "" THEN G!Is("unmodeled")
          ELSE G!Event(msg.mid, G!messageBlock(item.is.sender, ""), igID,
                       G!toUnix(item.is.timestamp))
    BY <1>5 DEF DMComesTo, G!instagramMessageEvent
  <2> DEFINE r == DMComesTo(item, igID)
             event == G!Event(msg.mid, G!messageBlock(item.is.sender, ""), igID,
                              G!toUnix(item.is.timestamp))
  <2>3. event.is = "event" /\ event.account = igID
    BY <1>2
  <2> HIDE DEF msg, event, r
  <2>4. CASE msg.echo
    <3>1. r.is = "echo"
      BY <1>1, <2>2, <2>4 DEF event, r
    <3> HIDE DEF said
    <3> QED
      BY <1>5, <2>1, <2>4, <3>1 DEF said, r
  <2>5. CASE ~msg.echo
    <3>1. r \in {G!Is("unmodeled"), event}
      BY <2>2, <2>5 DEF event, r
    <3>2. /\ r.is \in {"event", "unmodeled"}
          /\ r.is = "event" => r.account = igID
      BY <1>1, <2>3, <3>1
    <3> QED
      BY <1>5, <2>1, <2>5, <3>2 DEF said, r
  <2> QED
    BY <2>4, <2>5
<1> QED
  BY <1>3, <1>4, <1>5

DMs(entry) == G!messageBlock(entry.is.messaging, <<>>)
AccountOf(entry) == G!messageBlock(entry.is.id, "")

LEMMA SameParts ==
  ASSUME NEW part
  PROVE  /\ G!IsList(part) <=> W!IsList(part)
         /\ G!IsPart(part) <=> W!IsPart(part)
         /\ G!messageBlock(part, <<>>) = ListOf(part)
         /\ G!Broken(part) <=> W!Broken(part)
  BY DEF G!IsList, W!IsList, G!IsPart, W!IsPart, G!Absent, W!Absent, G!Unreadable, W!Unreadable,
         G!Read, W!Read, G!ToSet, W!ToSet, G!messageBlock, W!messageBlock, ListOf,
         G!Broken, W!Broken

LEMMA EntryOfDMs ==
  ASSUME NEW entry, G!IsEntry(entry)
  PROVE  /\ IsSeq(G!readEntry(entry))
         /\ entry.state = "read" =>
              /\ IsSeq(DMs(entry)) /\ DOMAIN DMs(entry) = 1..Len(DMs(entry))
              /\ Len(DMs(entry)) \in Nat
              /\ G!Broken(entry.is.messaging) => DOMAIN DMs(entry) = {}
         /\ entry.state = "read" /\ ~G!Broken(entry.is.messaging) =>
              /\ Len(G!readEntry(entry)) = Len(DMs(entry))
              /\ \A i \in 1..Len(DMs(entry)) :
                   G!readEntry(entry)[i] = DMComesTo(DMs(entry)[i], AccountOf(entry))
         /\ ~(entry.state = "read" /\ ~G!Broken(entry.is.messaging)) =>
              G!readEntry(entry) = <<G!Is("unreadable")>>
<1> DEFINE items == DMs(entry)
           r == [i \in DOMAIN items |-> DMComesTo(items[i], AccountOf(entry))]
<1>1. CASE entry.state # "read"
  <2>1. G!readEntry(entry) = <<G!Is("unreadable")>>
    BY <1>1 DEF G!readEntry
  <2> QED
    BY <1>1, <2>1, OneElement
<1>2. CASE entry.state = "read"
  <2>1. W!IsList(entry.is.messaging) /\ items = ListOf(entry.is.messaging)
        /\ (G!Broken(entry.is.messaging) <=> W!Broken(entry.is.messaging))
    BY <1>2, SameParts DEF G!IsEntry, DMs
  <2>2. G!readEntry(entry) = G!IfBroken(entry.is.messaging) \o r
    BY <1>2 DEF G!readEntry, DMs, AccountOf, DMComesTo
  <2> HIDE DEF items
  <2>3. /\ IsSeq(items) /\ DOMAIN items = 1..Len(items) /\ Len(items) \in Nat
        /\ G!Broken(entry.is.messaging) => items = <<>>
    BY <2>1, ListIsSeq, SequenceFacts
  <2>4. r = [i \in 1..Len(items) |-> r[i]]
        /\ \A i \in 1..Len(items) : r[i] = DMComesTo(items[i], AccountOf(entry))
    BY <2>3
  <2> HIDE DEF r
  <2>5. IsSeq(r) /\ Len(r) = Len(items) /\ DOMAIN r = 1..Len(items)
    BY <2>3, <2>4, Enumerated
  <2>6. CASE G!Broken(entry.is.messaging)
    <3>1. DOMAIN items = {} /\ Len(items) = 0
      BY <2>3, <2>6
    <3>2. r = <<>>
      BY <2>5, <3>1, SequenceFacts
    <3>3. G!IfBroken(entry.is.messaging) = <<G!Is("unreadable")>>
      BY <2>6 DEF G!IfBroken
    <3>4. G!readEntry(entry) = <<G!Is("unreadable")>>
      BY <2>2, <3>2, <3>3, OneElement, NoElements, Concatenated
    <3> QED
      BY <1>2, <2>3, <2>6, <3>1, <3>4, OneElement DEF items
  <2>7. CASE ~G!Broken(entry.is.messaging)
    <3>1. G!readEntry(entry) = r
      BY <2>2, <2>5, <2>7, NoElements, Concatenated DEF G!IfBroken
    <3> QED
      BY <1>2, <2>3, <2>4, <2>5, <2>7, <3>1 DEF items
  <2> QED
    BY <2>6, <2>7
<1> QED
  BY <1>1, <1>2

IsDMBatch(p) == G!IsPayload(p) /\ p.object

(* What each entry comes to. *)
ReadEntries(p) == [e \in DOMAIN G!entriesOf(p) |-> G!readEntry(G!entriesOf(p)[e])]

LEMMA DMBatchShape ==
  ASSUME NEW p, IsDMBatch(p)
  PROVE  /\ \E y : p = [object |-> TRUE, entry |-> y]
         /\ \A e \in DOMAIN G!entriesOf(p) : G!IsEntry(G!entriesOf(p)[e])
         /\ Len(G!entriesOf(p)) \in Nat /\ DOMAIN G!entriesOf(p) = 1..Len(G!entriesOf(p))
         /\ IsSeqOfSeqs(ReadEntries(p)) /\ Len(ReadEntries(p)) = Len(G!entriesOf(p))
         /\ \A e \in 1..Len(G!entriesOf(p)) : ReadEntries(p)[e] = G!readEntry(G!entriesOf(p)[e])
         /\ G!ParseInstagramWebhook(p) = G!IfBroken(p.entry) \o Flat(ReadEntries(p))
<1> DEFINE entries == G!entriesOf(p)
           s == ReadEntries(p)
<1>1. /\ p = [object |-> TRUE, entry |-> p.entry] /\ G!IsList(p.entry)
      /\ \A e \in DOMAIN entries : G!IsEntry(entries[e])
  BY DEF IsDMBatch, G!IsPayload
<1>2. \E y : p = [object |-> TRUE, entry |-> y]
  BY <1>1
<1>3. Len(entries) \in Nat /\ DOMAIN entries = 1..Len(entries)
  BY <1>1, SameParts, ListIsSeq, SequenceFacts DEF G!entriesOf
<1>4. G!ParseInstagramWebhook(p) = G!IfBroken(p.entry) \o Flat(s)
  BY FlattenSeqIsFlat DEF G!ParseInstagramWebhook, ReadEntries, IsDMBatch
<1>5. s = [e \in 1..Len(entries) |-> s[e]]
      /\ \A e \in 1..Len(entries) : s[e] = G!readEntry(entries[e])
  BY <1>3 DEF ReadEntries
<1> HIDE DEF entries, s
<1>6. IsSeq(s) /\ Len(s) = Len(entries)
  BY <1>3, <1>5, Enumerated
<1>7. IsSeqOfSeqs(s)
  BY <1>1, <1>3, <1>5, <1>6, EntryOfDMs DEF IsSeqOfSeqs
<1> QED
  BY <1>1, <1>2, <1>3, <1>4, <1>5, <1>6, <1>7 DEF entries, s

---------------------------------------------------------------------------
(* Instagram: what a batch comes to.                                       *)

DMEntryAt(e) == G!entriesOf(payload)[e]
IsDM(e, i) ==
  /\ e \in DOMAIN G!entriesOf(payload) /\ DMEntryAt(e).state = "read"
  /\ i \in DOMAIN DMs(DMEntryAt(e))
BecomesAt(e, i) == DMComesTo(G!Item(e, i), AccountOf(DMEntryAt(e)))

LEMMA DMItems ==
  /\ \A y \in G!Items : IsDM(y[1], y[2]) /\ y = <<y[1], y[2]>>
  /\ \A e, i : IsDM(e, i) => <<e, i>> \in G!Items
  /\ \A e, i : IsDM(e, i) => \E y \in G!Items : y[1] = e /\ y[2] = i
  /\ \A e, i : IsDM(e, i) => G!Item(e, i) = DMs(DMEntryAt(e))[i]
<1>1. \A y : y \in G!Items <=> \E e, i : y = <<e, i>> /\ IsDM(e, i)
  BY DEF G!Items, IsDM, DMEntryAt, DMs
<1>2. \A e, i : <<e, i>>[1] = e /\ <<e, i>>[2] = i
  OBVIOUS
<1>3. ASSUME NEW y \in G!Items
      PROVE  IsDM(y[1], y[2]) /\ y = <<y[1], y[2]>>
  <2>1. PICK e, i : y = <<e, i>> /\ IsDM(e, i)
    BY <1>1
  <2> QED
    BY <2>1
<1>4. ASSUME NEW e, NEW i, IsDM(e, i)
      PROVE  /\ <<e, i>> \in G!Items
             /\ G!Item(e, i) = DMs(DMEntryAt(e))[i]
  <2>1. <<e, i>> \in G!Items
    BY <1>1, <1>4
  <2>2. DMs(DMEntryAt(e)) = DMEntryAt(e).is.messaging.is
    <3>1. i \in DOMAIN DMs(DMEntryAt(e))
      BY <1>4 DEF IsDM
    <3>2. DOMAIN <<>> = {}
      OBVIOUS
    <3> QED
      BY <3>1, <3>2 DEF DMs, G!messageBlock
  <2> QED
    BY <2>1, <2>2 DEF G!Item, DMEntryAt
<1>5. \A e, i : IsDM(e, i) => <<e, i>> \in G!Items
  BY <1>4
<1>6. ASSUME NEW e, NEW i, IsDM(e, i)
      PROVE  \E y \in G!Items : y[1] = e /\ y[2] = i
  <2>1. <<e, i>> \in G!Items
    BY <1>5, <1>6
  <2> QED
    BY <1>2, <2>1
<1>7. \A e, i : IsDM(e, i) => G!Item(e, i) = DMs(DMEntryAt(e))[i]
  BY <1>4
<1>8. \A y \in G!Items : IsDM(y[1], y[2]) /\ y = <<y[1], y[2]>>
  BY <1>3
<1> QED
  BY <1>5, <1>6, <1>7, <1>8

UnreadDMs ==
  \/ G!Broken(payload.entry)
  \/ \E e \in DOMAIN G!entriesOf(payload) :
       \/ DMEntryAt(e).state # "read"
       \/ DMEntryAt(e).state = "read" /\ G!Broken(DMEntryAt(e).is.messaging)

Unread == G!Is("unreadable")

LEMMA BrokenResult ==
  ASSUME NEW part
  PROVE  /\ IsSeq(G!IfBroken(part))
         /\ \A x : x \in Elements(G!IfBroken(part)) <=> G!Broken(part) /\ x = Unread
<1>1. CASE G!Broken(part)
  BY <1>1, OneElement DEF G!IfBroken, Unread
<1>2. CASE ~G!Broken(part)
  BY <1>2, NoElements DEF G!IfBroken
<1> QED
  BY <1>1, <1>2

LEMMA ResultsOfEntry ==
  ASSUME IsDMBatch(payload), NEW e \in DOMAIN G!entriesOf(payload)
  PROVE  /\ IsSeq(G!readEntry(DMEntryAt(e)))
         /\ ~(DMEntryAt(e).state = "read" /\ ~G!Broken(DMEntryAt(e).is.messaging)) =>
              G!readEntry(DMEntryAt(e)) = <<Unread>> /\ \A i : ~IsDM(e, i)
         /\ DMEntryAt(e).state = "read" /\ ~G!Broken(DMEntryAt(e).is.messaging) =>
              \A i : /\ i \in 1..Len(G!readEntry(DMEntryAt(e))) <=> IsDM(e, i)
                     /\ IsDM(e, i) => G!readEntry(DMEntryAt(e))[i] = BecomesAt(e, i)
<1> DEFINE entry == DMEntryAt(e)
<1>1. G!IsEntry(entry)
  BY DMBatchShape DEF DMEntryAt
<1>2. \A i : IsDM(e, i) <=> entry.state = "read" /\ i \in DOMAIN DMs(entry)
  BY DEF IsDM
<1>3. \A i : IsDM(e, i) => BecomesAt(e, i) = DMComesTo(DMs(entry)[i], AccountOf(entry))
  BY DMItems DEF BecomesAt
<1> HIDE DEF entry
<1> QED
  BY <1>1, <1>2, <1>3, EntryOfDMs DEF entry, Unread

LEMMA DMResults ==
  ASSUME IsDMBatch(payload)
  PROVE  /\ IsSeq(G!ParseInstagramWebhook(payload))
         /\ \A x : x \in Elements(G!ParseInstagramWebhook(payload)) <=>
              \/ UnreadDMs /\ x = Unread
              \/ \E e, i : IsDM(e, i) /\ x = BecomesAt(e, i)
<1> DEFINE u == G!IfBroken(payload.entry)
           s == ReadEntries(payload)
           n == Len(G!entriesOf(payload))
<1>1. /\ IsSeqOfSeqs(s) /\ Len(s) = n /\ DOMAIN G!entriesOf(payload) = 1..n
      /\ \A e \in 1..n : s[e] = G!readEntry(DMEntryAt(e))
      /\ G!ParseInstagramWebhook(payload) = u \o Flat(s)
  BY DMBatchShape DEF DMEntryAt
<1>2. IsSeq(u) /\ \A x : x \in Elements(u) <=> G!Broken(payload.entry) /\ x = Unread
  BY BrokenResult
<1>3. ASSUME NEW e \in 1..n, NEW x
      PROVE  x \in Elements(s[e]) <=>
               \/ /\ ~(DMEntryAt(e).state = "read" /\ ~G!Broken(DMEntryAt(e).is.messaging))
                  /\ x = Unread
               \/ \E i : IsDM(e, i) /\ x = BecomesAt(e, i)
  <2> DEFINE r == G!readEntry(DMEntryAt(e))
  <2>1. /\ IsSeq(r)
        /\ ~(DMEntryAt(e).state = "read" /\ ~G!Broken(DMEntryAt(e).is.messaging)) =>
             r = <<Unread>> /\ \A i : ~IsDM(e, i)
        /\ DMEntryAt(e).state = "read" /\ ~G!Broken(DMEntryAt(e).is.messaging) =>
             \A i : /\ i \in 1..Len(r) <=> IsDM(e, i)
                    /\ IsDM(e, i) => r[i] = BecomesAt(e, i)
    BY <1>1, ResultsOfEntry
  <2>2. s[e] = r
    BY <1>1
  <2> HIDE DEF r, s
  <2>3. Elements(r) = {r[i] : i \in 1..Len(r)}
    BY <2>1, SequenceFacts
  <2> QED
    BY <2>1, <2>2, <2>3, OneElement
<1> HIDE DEF u, s, n
<1>4. IsSeq(Flat(s)) /\ Elements(Flat(s)) = UNION {Elements(s[e]) : e \in 1..Len(s)}
  BY <1>1, FlatElements
<1>5. IsSeq(u \o Flat(s)) /\ Elements(u \o Flat(s)) = Elements(u) \cup Elements(Flat(s))
  BY <1>2, <1>4, Concatenated
<1>6. \A x : x \in Elements(Flat(s)) <=> \E e \in 1..n : x \in Elements(s[e])
  BY <1>1, <1>4
<1>7. \A e, i : IsDM(e, i) => e \in 1..n
  BY <1>1 DEF IsDM
<1> QED
  BY <1>1, <1>2, <1>3, <1>5, <1>6, <1>7 DEF UnreadDMs

DMsOfKind(kind) == {y \in G!Items : BecomesAt(y[1], y[2]).is = kind}

(* As many results of a kind as items that came to it; more, where parts of *)
(* the batch could not be read.                                            *)
LEMMA DMsCounted ==
  ASSUME IsDMBatch(payload), NEW kind
  PROVE  LET counted == Len(Kept(G!ParseInstagramWebhook(payload), kind))
         IN /\ IsFiniteSet(DMsOfKind(kind)) /\ counted \in Nat
            /\ Cardinality(DMsOfKind(kind)) <= counted
            /\ kind # "unreadable" => Cardinality(DMsOfKind(kind)) = counted
<1> DEFINE u == G!IfBroken(payload.entry)
           s == ReadEntries(payload)
           C == [e \in 1..Len(s) |-> {e} \X OfKind(s[e], kind)]
           places == UNION {C[e] : e \in 1..Len(s)}
<1>1. /\ IsSeqOfSeqs(s) /\ DOMAIN G!entriesOf(payload) = 1..Len(s)
      /\ \A e \in 1..Len(s) : s[e] = G!readEntry(DMEntryAt(e))
      /\ G!ParseInstagramWebhook(payload) = u \o Flat(s)
  BY DMBatchShape DEF DMEntryAt
<1>2. IsSeq(u) /\ \A x : x \in Elements(u) <=> G!Broken(payload.entry) /\ x = Unread
  BY BrokenResult
<1> HIDE DEF u, s
<1>3. \A e \in 1..Len(s) : IsFiniteSet(C[e]) /\ Cardinality(C[e]) = Len(Kept(s[e], kind))
  <2> SUFFICES ASSUME NEW e \in 1..Len(s)
               PROVE  /\ IsFiniteSet({e} \X OfKind(s[e], kind))
                      /\ Cardinality({e} \X OfKind(s[e], kind)) = Len(Kept(s[e], kind))
    OBVIOUS
  <2>1. /\ IsFiniteSet(OfKind(s[e], kind))
        /\ Cardinality(OfKind(s[e], kind)) = Len(Kept(s[e], kind))
    BY <1>1, KeptFacts DEF IsSeqOfSeqs
  <2>2. IsFiniteSet({e}) /\ Cardinality({e}) = 1
    BY FS_Singleton
  <2>3. Cardinality(OfKind(s[e], kind)) \in Nat
    BY <2>1, FS_CardinalityType
  <2>4. /\ IsFiniteSet({e} \X OfKind(s[e], kind))
        /\ Cardinality({e} \X OfKind(s[e], kind)) = Cardinality({e}) * Cardinality(OfKind(s[e], kind))
    BY <2>1, <2>2, FS_Product
  <2>5. Cardinality({e} \X OfKind(s[e], kind)) = Cardinality(OfKind(s[e], kind))
    BY <2>2, <2>3, <2>4
  <2>6. C[e] = {e} \X OfKind(s[e], kind)
    OBVIOUS
  <2> HIDE DEF C
  <2> QED
    BY <2>1, <2>4, <2>5, <2>6
<1>4. \A e, f \in 1..Len(s) : e # f => C[e] \cap C[f] = {}
  OBVIOUS
<1>5. IsFiniteSet(places) /\ Cardinality(places) = Len(Kept(Flat(s), kind))
  <2> HIDE DEF C
  <2> QED
    BY <1>1, <1>3, <1>4, KeptOfFlat, ZenonT(40)
<1>6. \A y : y \in places <=> \E e \in 1..Len(s) : \E i \in OfKind(s[e], kind) : y = <<e, i>>
  OBVIOUS
<1>7. \A y \in DMsOfKind(kind) : y \in places
  <2> SUFFICES ASSUME NEW y \in DMsOfKind(kind)
               PROVE  y \in places
    OBVIOUS
  <2>1. /\ IsDM(y[1], y[2]) /\ y = <<y[1], y[2]>>
        /\ BecomesAt(y[1], y[2]).is = kind
    BY DMItems DEF DMsOfKind
  <2>2. y[1] \in 1..Len(s)
    BY <1>1, <2>1 DEF IsDM
  <2>3. y[2] \in OfKind(s[y[1]], kind)
    BY <1>1, <2>1, <2>2, ResultsOfEntry DEF OfKind
  <2> HIDE DEF places
  <2> QED
    BY <1>6, <2>1, <2>2, <2>3
<1>8. kind # "unreadable" => \A y \in places : y \in DMsOfKind(kind)
  <2> SUFFICES ASSUME kind # "unreadable", NEW e \in 1..Len(s), NEW i \in OfKind(s[e], kind)
               PROVE  <<e, i>> \in DMsOfKind(kind)
    <3> HIDE DEF places
    <3> QED
      BY <1>6
  <2>1. s[e] = G!readEntry(DMEntryAt(e)) /\ i \in 1..Len(s[e]) /\ s[e][i].is = kind
    BY <1>1 DEF OfKind
  <2>2. s[e] # <<Unread>>
    <3>1. \A j \in 1..Len(<<Unread>>) : <<Unread>>[j] = Unread
      OBVIOUS
    <3>2. Unread.is = "unreadable"
      BY DEF Unread, G!Is
    <3> QED
      BY <2>1, <3>1, <3>2
  <2>3. IsDM(e, i) /\ s[e][i] = BecomesAt(e, i)
    BY <1>1, <2>1, <2>2, ResultsOfEntry
  <2>4. <<e, i>> \in G!Items
    BY <2>3, DMItems
  <2> QED
    BY <2>1, <2>3, <2>4 DEF DMsOfKind
<1> HIDE DEF places
<1>9. /\ IsFiniteSet(DMsOfKind(kind)) /\ Cardinality(DMsOfKind(kind)) <= Cardinality(places)
      /\ kind # "unreadable" => DMsOfKind(kind) = places
  <2>1. DMsOfKind(kind) \in SUBSET places
    BY <1>7
  <2> QED
    BY <1>5, <1>7, <1>8, <2>1, FS_Subset
<1>10. IsSeq(Flat(s))
  BY <1>1, FlatElements
<1>11. Len(Kept(u \o Flat(s), kind)) = Len(Kept(u, kind)) + Len(Kept(Flat(s), kind))
  BY <1>2, <1>10, KeptOfConcatenated
<1>12. /\ Len(Kept(u, kind)) \in Nat /\ Len(Kept(Flat(s), kind)) \in Nat
       /\ kind # "unreadable" => Len(Kept(u, kind)) = 0
  <2>1. /\ IsSeq(Kept(u, kind)) /\ IsSeq(Kept(Flat(s), kind))
        /\ Elements(Kept(u, kind)) = {x \in Elements(u) : x.is = kind}
    BY <1>2, <1>10, KeptFacts
  <2>2. Unread.is = "unreadable"
    BY DEF Unread, G!Is
  <2>3. kind # "unreadable" => Elements(Kept(u, kind)) = {}
    BY <1>2, <2>1, <2>2
  <2> QED
    BY <2>1, <2>3, SequenceFacts
<1>13. Cardinality(DMsOfKind(kind)) \in Nat
  BY <1>9, FS_CardinalityType
<1> QED
  BY <1>1, <1>5, <1>9, <1>11, <1>12, <1>13

---------------------------------------------------------------------------
(* Instagram: the properties.                                              *)

LEMMA DMAlone ==
  ASSUME IsDMBatch(payload), NEW e, NEW i, IsDM(e, i)
  PROVE  G!ParseInstagramWebhook(G!OnlyItem(e, i)) = <<BecomesAt(e, i)>>
<1> DEFINE entry == DMEntryAt(e)
           item == G!Item(e, i)
           list == G!Read(<<item>>)
           is == [entry.is EXCEPT !.messaging = list]
           one == [state |-> "read", is |-> is]
           part == G!Read(<<one>>)
           p == [object |-> TRUE, entry |-> part]
<1>1. G!IsEntry(entry) /\ entry.state = "read"
  BY DMBatchShape DEF IsDM, DMEntryAt
<1>2. entry = [state |-> "read", is |-> entry.is]
  <2>1. G!IsPart(entry)
    BY <1>1 DEF G!IsEntry, G!IsBlock
  <2> HIDE DEF entry
  <2>2. entry # G!Absent /\ entry # G!Unreadable
    BY <1>1 DEF G!Absent, G!Unreadable
  <2> QED
    BY <2>1, <2>2 DEF G!IsPart, G!Read
<1>3. /\ entry.is = [k \in DOMAIN entry.is |-> entry.is[k]]
      /\ {"id", "messaging"} \subseteq DOMAIN entry.is
  BY <1>1 DEF G!IsEntry, G!IsBlock
<1>4. G!OnlyItem(e, i) = p
  <2>1. G!OnlyItem(e, i) = [payload EXCEPT !.entry = G!Read(<<[entry EXCEPT !.is.messaging = list]>>)]
    BY DEF G!OnlyItem, DMEntryAt
  <2>2. [entry EXCEPT !.is.messaging = list] = one
    <3> HIDE DEF entry, list
    <3> QED
      BY <1>2
  <2>3. PICK y : payload = [object |-> TRUE, entry |-> y]
    BY DMBatchShape
  <2> HIDE DEF one, entry, list
  <2> QED
    BY <2>1, <2>2, <2>3, EntryReplaced
<1>5. is.messaging = list /\ is.id = entry.is.id
  <2> HIDE DEF entry, list
  <2> QED
    BY <1>3
<1> DEFINE r == DMComesTo(item, AccountOf(entry))
<1>6. G!readEntry(one) = <<r>>
  <2>1. /\ one.state = "read" /\ one.is = is
        /\ G!messageBlock(list, <<>>) = <<item>> /\ ~G!Broken(list)
    BY DEF G!Read, G!messageBlock, G!Broken
  <2> HIDE DEF list, is, one, item, entry
  <2>2. G!readEntry(one) = G!IfBroken(list) \o
          [j \in DOMAIN <<item>> |-> DMComesTo(<<item>>[j], AccountOf(entry))]
    BY <1>5, <2>1 DEF G!readEntry, DMComesTo, AccountOf
  <2>3. G!IfBroken(list) = <<>>
    BY <2>1 DEF G!IfBroken
  <2>4. [j \in DOMAIN <<item>> |-> DMComesTo(<<item>>[j], AccountOf(entry))] = <<r>>
    <3>1. DOMAIN <<item>> = {1} /\ <<item>>[1] = item
      OBVIOUS
    <3> HIDE DEF r
    <3>2. \A j \in DOMAIN <<item>> : DMComesTo(<<item>>[j], AccountOf(entry)) = r
      BY <3>1 DEF r
    <3> QED
      BY <3>1, <3>2
  <2> QED
    BY <2>2, <2>3, <2>4, OneElement, Concatenated
<1>7. G!ParseInstagramWebhook(p) = <<r>>
  <2>1. /\ p.object /\ p.entry = part
        /\ G!entriesOf(p) = <<one>> /\ ~G!Broken(part)
    BY DEF G!Read, G!messageBlock, G!Broken, G!entriesOf
  <2> HIDE DEF part, one, p, r
  <2> DEFINE s == [j \in DOMAIN <<one>> |-> G!readEntry(<<one>>[j])]
  <2>2. G!ParseInstagramWebhook(p) = G!IfBroken(part) \o Flat(s)
    BY <2>1, FlattenSeqIsFlat DEF G!ParseInstagramWebhook
  <2>3. G!IfBroken(part) = <<>>
    BY <2>1 DEF G!IfBroken
  <2>4. DOMAIN <<one>> = 1..1 /\ <<one>>[1] = one
    OBVIOUS
  <2>5. s = [j \in 1..1 |-> s[j]] /\ s[1] = <<r>>
    BY <1>6, <2>4
  <2> HIDE DEF s
  <2>6. IsSeq(s) /\ Len(s) = 1
    BY <2>5, Enumerated
  <2>7. IsSeqOfSeqs(s)
    BY <2>5, <2>6, OneElement DEF IsSeqOfSeqs
  <2>8. Flat(s) = <<r>>
    BY <2>5, <2>6, <2>7, FlatOfOne
  <2> QED
    BY <2>2, <2>3, <2>8, OneElement, Concatenated
<1>8. r = BecomesAt(e, i)
  BY DEF BecomesAt
<1> HIDE DEF r, p
<1> QED
  BY <1>4, <1>7, <1>8

LEMMA DMReadAlone ==
  ASSUME IsDMBatch(payload), NEW e, NEW i, IsDM(e, i)
  PROVE  /\ G!ReadAlone(e, i) = <<>> <=> BecomesAt(e, i).is # "event"
         /\ \A x : x \in G!ToSet(G!ReadAlone(e, i)) <=>
                     x = BecomesAt(e, i) /\ BecomesAt(e, i).is = "event"
<1> DEFINE r == BecomesAt(e, i)
           alone == G!ReadAlone(e, i)
<1>1. alone = Kept(<<r>>, "event")
  BY DMAlone, ThoseAreKept DEF G!ReadAlone
<1>2. IsSeq(<<r>>) /\ Elements(<<r>>) = {r}
  BY OneElement
<1>3. G!ToSet(alone) = Elements(alone)
  BY DEF G!ToSet, Elements
<1> HIDE DEF r, alone
<1>4. IsSeq(alone) /\ Elements(alone) = {x \in {r} : x.is = "event"}
  BY <1>1, <1>2, KeptFacts
<1>5. alone = <<>> <=> Elements(alone) = {}
  BY <1>4, SequenceFacts
<1> QED
  BY <1>3, <1>4, <1>5 DEF r, alone

LEMMA KindAt ==
  ASSUME NEW e, NEW i
  PROVE  /\ BecomesAt(e, i).is \in {"event", "echo", "unmodeled", "unreadable"}
         /\ BecomesAt(e, i).is = "event" => BecomesAt(e, i).account = AccountOf(DMEntryAt(e))
         /\ BecomesAt(e, i).is = "unreadable" <=>
              \/ G!Item(e, i).state # "read"
              \/ G!Item(e, i).state = "read" /\ G!Broken(G!Item(e, i).is.message)
         /\ BecomesAt(e, i).is = "echo" <=> G!Echo(e, i)
  BY KindOfDM DEF BecomesAt, G!Echo

LEMMA SameCardinality ==
  \A S : G!Cardinality(S) = Cardinality(S)
  BY DEF G!Cardinality, Cardinality

LEMMA DMsReadAloneHolds ==
  ASSUME IsDMBatch(payload), evs = G!Those(G!ParseInstagramWebhook(payload), "event")
  PROVE  G!ItemsAreReadAlone
<1> DEFINE results == G!ParseInstagramWebhook(payload)
<1>1. IsSeq(results)
  BY DMResults
<1>2. evs = Kept(results, "event")
  BY ThoseAreKept
<1>3. \A x : x \in Elements(results) <=>
               \/ UnreadDMs /\ x = Unread
               \/ \E e, i : IsDM(e, i) /\ x = BecomesAt(e, i)
  BY DMResults
<1> HIDE DEF results
<1>4. \A y \in G!Items : G!Echo(y[1], y[2]) => G!ReadAlone(y[1], y[2]) = <<>>
  BY DMItems, DMReadAlone, KindAt
<1>5. G!ToSet(evs) = UNION {G!ToSet(G!ReadAlone(y[1], y[2])) : y \in G!Items}
  <2>1. Elements(evs) = {x \in Elements(results) : x.is = "event"}
    BY <1>1, <1>2, KeptFacts
  <2>2. Unread.is # "event"
    BY DEF Unread, G!Is
  <2>3. \A x : x \in Elements(evs) <=>
                 \E e, i : IsDM(e, i) /\ x = BecomesAt(e, i) /\ BecomesAt(e, i).is = "event"
    BY <1>3, <2>1, <2>2
  <2>4. \A x : x \in Elements(evs) <=>
                 \E e, i : IsDM(e, i) /\ x \in G!ToSet(G!ReadAlone(e, i))
    BY <2>3, DMReadAlone
  <2>5. \A x : x \in Elements(evs) <=>
                 \E y \in G!Items : x \in G!ToSet(G!ReadAlone(y[1], y[2]))
    BY <2>4, DMItems
  <2>6. G!ToSet(evs) = Elements(evs)
    BY DEF G!ToSet, Elements
  <2> QED
    BY <2>5, <2>6
<1>6. Len(evs) = Cardinality({y \in G!Items : G!ReadAlone(y[1], y[2]) # <<>>})
  <2>1. {y \in G!Items : G!ReadAlone(y[1], y[2]) # <<>>} = DMsOfKind("event")
    BY DMItems, DMReadAlone DEF DMsOfKind
  <2>2. Cardinality(DMsOfKind("event")) = Len(Kept(results, "event"))
    BY DMsCounted DEF results
  <2> QED
    BY <1>2, <2>1, <2>2
<1> QED
  BY <1>4, <1>5, <1>6, SameCardinality DEF G!ItemsAreReadAlone

LEMMA DMLossToldHolds ==
  ASSUME IsDMBatch(payload), evs = G!Those(G!ParseInstagramWebhook(payload), "event"),
         ignored = Len(G!Those(G!ParseInstagramWebhook(payload), "unreadable")),
         unmodeled = Len(G!Those(G!ParseInstagramWebhook(payload), "unmodeled"))
  PROVE  G!LossIsTold
<1> DEFINE results == G!ParseInstagramWebhook(payload)
           kept(kind) == Kept(results, kind)
<1>1. IsSeq(results)
  BY DMResults
<1>2. /\ evs = Kept(results, "event") /\ ignored = Len(Kept(results, "unreadable"))
      /\ unmodeled = Len(Kept(results, "unmodeled"))
  BY ThoseAreKept
<1>3. \A x : x \in Elements(results) <=>
               \/ UnreadDMs /\ x = Unread
               \/ \E e, i : IsDM(e, i) /\ x = BecomesAt(e, i)
  BY DMResults
<1>4. \A kind : /\ IsFiniteSet(DMsOfKind(kind)) /\ Len(Kept(results, kind)) \in Nat
                /\ Cardinality(DMsOfKind(kind)) <= Len(Kept(results, kind))
                /\ kind # "unreadable" =>
                     Cardinality(DMsOfKind(kind)) = Len(Kept(results, kind))
  BY DMsCounted
<1> HIDE DEF results
<1>5. \A kind : Len(Kept(results, kind)) > 0 <=> \E x \in Elements(results) : x.is = kind
  <2> SUFFICES ASSUME NEW kind
               PROVE  Len(Kept(results, kind)) > 0 <=> \E x \in Elements(results) : x.is = kind
    OBVIOUS
  <2>1. /\ IsSeq(Kept(results, kind))
        /\ Elements(Kept(results, kind)) = {x \in Elements(results) : x.is = kind}
    BY <1>1, KeptFacts
  <2>2. /\ Kept(results, kind) = <<>> <=> Elements(Kept(results, kind)) = {}
        /\ Kept(results, kind) = <<>> <=> Len(Kept(results, kind)) = 0
    BY <2>1, SequenceFacts
  <2> QED
    BY <1>4, <2>1, <2>2
<1>6. Unread.is = "unreadable"
  BY DEF Unread, G!Is
<1>7. ignored > 0 <=>
        \/ UnreadDMs
        \/ \E y \in G!Items : \/ G!Item(y[1], y[2]).state # "read"
                              \/ /\ G!Item(y[1], y[2]).state = "read"
                                 /\ G!Broken(G!Item(y[1], y[2]).is.message)
  <2>1. ignored > 0 <=>
          UnreadDMs \/ \E e, i : IsDM(e, i) /\ BecomesAt(e, i).is = "unreadable"
    BY <1>2, <1>3, <1>5, <1>6
  <2>2. ignored > 0 <=>
          UnreadDMs \/ \E y \in G!Items : BecomesAt(y[1], y[2]).is = "unreadable"
    BY <2>1, DMItems
  <2> QED
    BY <2>2, KindAt
<1>8. unmodeled > 0 <=>
        \E y \in G!Items : /\ G!Item(y[1], y[2]).state = "read"
                           /\ ~G!Broken(G!Item(y[1], y[2]).is.message)
                           /\ ~G!Echo(y[1], y[2]) /\ G!ReadAlone(y[1], y[2]) = <<>>
  <2>1. unmodeled > 0 <=> \E e, i : IsDM(e, i) /\ BecomesAt(e, i).is = "unmodeled"
    BY <1>2, <1>3, <1>5, <1>6
  <2>2. unmodeled > 0 <=> \E y \in G!Items : BecomesAt(y[1], y[2]).is = "unmodeled"
    BY <2>1, DMItems
  <2>3. \A y \in G!Items :
          BecomesAt(y[1], y[2]).is = "unmodeled" <=>
            /\ G!Item(y[1], y[2]).state = "read" /\ ~G!Broken(G!Item(y[1], y[2]).is.message)
            /\ ~G!Echo(y[1], y[2]) /\ G!ReadAlone(y[1], y[2]) = <<>>
    <3> SUFFICES ASSUME NEW y \in G!Items
                 PROVE  BecomesAt(y[1], y[2]).is = "unmodeled" <=>
                          /\ G!Item(y[1], y[2]).state = "read"
                          /\ ~G!Broken(G!Item(y[1], y[2]).is.message)
                          /\ ~G!Echo(y[1], y[2]) /\ G!ReadAlone(y[1], y[2]) = <<>>
      OBVIOUS
    <3>1. G!ReadAlone(y[1], y[2]) = <<>> <=> BecomesAt(y[1], y[2]).is # "event"
      BY DMItems, DMReadAlone
    <3> QED
      BY <3>1, KindAt
  <2> QED
    BY <2>2, <2>3
<1>9. ignored + unmodeled + Len(evs) >= Cardinality({y \in G!Items : ~G!Echo(y[1], y[2])})
  <2> DEFINE A == DMsOfKind("unreadable")
             B == DMsOfKind("unmodeled")
             D == DMsOfKind("event")
  <2>1. {y \in G!Items : ~G!Echo(y[1], y[2])} = A \cup B \cup D
    BY KindAt DEF DMsOfKind
  <2>2. /\ IsFiniteSet(A) /\ IsFiniteSet(B) /\ IsFiniteSet(D)
        /\ Cardinality(A) <= ignored /\ Cardinality(B) <= unmodeled
        /\ Cardinality(D) <= Len(evs)
        /\ ignored \in Nat /\ unmodeled \in Nat /\ Len(evs) \in Nat
    BY <1>2, <1>4
  <2> HIDE DEF A, B, D
  <2>3. /\ IsFiniteSet(A \cup B)
        /\ Cardinality(A \cup B) = Cardinality(A) + Cardinality(B) - Cardinality(A \cap B)
    BY <2>2, FS_Union
  <2>4. Cardinality(A \cup B \cup D)
          = Cardinality(A \cup B) + Cardinality(D) - Cardinality((A \cup B) \cap D)
    BY <2>2, <2>3, FS_Union
  <2>5. IsFiniteSet(A \cap B) /\ IsFiniteSet((A \cup B) \cap D)
    <3>1. A \cap B \in SUBSET A /\ (A \cup B) \cap D \in SUBSET D
      OBVIOUS
    <3> QED
      BY <2>2, <3>1, FS_Subset
  <2>6. /\ Cardinality(A) \in Nat /\ Cardinality(B) \in Nat /\ Cardinality(D) \in Nat
        /\ Cardinality(A \cap B) \in Nat /\ Cardinality((A \cup B) \cap D) \in Nat
    BY <2>2, <2>5, FS_CardinalityType
  <2>7. Cardinality(A \cup B \cup D) <= Cardinality(A) + Cardinality(B) + Cardinality(D)
    BY <2>3, <2>4, <2>6
  <2>8. Cardinality(A \cup B \cup D) <= ignored + unmodeled + Len(evs)
    BY <2>2, <2>3, <2>4, <2>6, <2>7
  <2> QED
    BY <2>1, <2>2, <2>8
<1>10. UnreadDMs <=>
         \/ G!Broken(payload.entry)
         \/ \E e \in DOMAIN G!entriesOf(payload) :
              LET entry == G!entriesOf(payload)[e]
              IN entry.state # "read" \/ (entry.state = "read" /\ G!Broken(entry.is.messaging))
  BY DEF UnreadDMs, DMEntryAt
<1> QED
  BY <1>7, <1>8, <1>9, <1>10, SameCardinality DEF G!LossIsTold

LEMMA DMProvenHolds ==
  ASSUME IsDMBatch(payload), evs = G!Those(G!ParseInstagramWebhook(payload), "event"), ~G!Foreign
  PROVE  G!DeliveredIsProven
<1>1. ASSUME NEW e \in DOMAIN G!entriesOf(payload)
      PROVE  DMEntryAt(e).state = "read" /\ AccountOf(DMEntryAt(e)) = own
  <2>1. DMEntryAt(e) \in G!ToSet(G!entriesOf(payload))
    BY DEF G!ToSet, DMEntryAt
  <2>2. (IF DMEntryAt(e).state = "read" THEN G!messageBlock(DMEntryAt(e).is.id, "") ELSE "")
          \in G!IgIDsInPayload(payload)
    BY <2>1 DEF G!IgIDsInPayload, IsDMBatch
  <2>3. \A igID \in G!IgIDsInPayload(payload) : igID # "" /\ igID = own
    BY DEF G!Foreign
  <2> QED
    BY <2>2, <2>3 DEF AccountOf
<1>2. ASSUME NEW i \in DOMAIN evs
      PROVE  evs[i].account = own
  <2>1. IsSeq(G!ParseInstagramWebhook(payload))
    BY DMResults
  <2>2. Elements(evs) = {x \in Elements(G!ParseInstagramWebhook(payload)) : x.is = "event"}
    BY <2>1, ThoseAreKept, KeptFacts
  <2>3. evs[i] \in Elements(evs)
    BY DEF Elements
  <2>4. evs[i] \in Elements(G!ParseInstagramWebhook(payload)) /\ evs[i].is = "event"
    BY <2>2, <2>3
  <2>5. Unread.is # "event"
    BY DEF Unread, G!Is
  <2>6. PICK e, j : IsDM(e, j) /\ evs[i] = BecomesAt(e, j)
    BY <2>4, <2>5, DMResults
  <2>7. e \in DOMAIN G!entriesOf(payload)
    BY <2>6 DEF IsDM
  <2> QED
    BY <1>1, <2>4, <2>6, <2>7, KindAt
<1> QED
  BY <1>1, <1>2 DEF G!DeliveredIsProven, DMEntryAt, AccountOf

---------------------------------------------------------------------------
(* The inductive invariant: once a body was read, what the handler holds   *)
(* is what its reading gives; and nothing it delivered is foreign.         *)
ReadByWebhook ==
  /\ payload \in Arriving
  /\ answer # "none" =>
       /\ evs = W!ParseWebhook(payload).events
       /\ ignored = W!ParseWebhook(payload).ignored
  /\ answer = "delivered" => ~W!ForeignNumber /\ ~W!ForeignAccount

ReadByInstagram ==
  /\ payload \in ArrivingInstagram
  /\ answer # "none" =>
       /\ evs = G!Those(G!ParseInstagramWebhook(payload), "event")
       /\ ignored = Len(G!Those(G!ParseInstagramWebhook(payload), "unreadable"))
       /\ unmodeled = Len(G!Those(G!ParseInstagramWebhook(payload), "unmodeled"))
  /\ answer = "delivered" => ~G!Foreign

WhatWasRead ==
  /\ side \in {"send", "webhook", "instagram"}
  /\ side = "webhook" => ReadByWebhook
  /\ side = "instagram" => ReadByInstagram

LEMMA ReadAtFirst == SidesInit => WhatWasRead
  BY DEF SidesInit, WhatWasRead, ReadByWebhook, ReadByInstagram, W!Init, G!Init

LEMMA WebhookStep ==
  ASSUME ReadByWebhook, W!Next
  PROVE  ReadByWebhook'
<1> USE DEF ReadByWebhook
<1>1. CASE W!Parse
  BY <1>1 DEF W!Parse
<1>2. CASE W!DiscardNumber
  BY <1>2 DEF W!DiscardNumber
<1>3. CASE W!DiscardAccount
  BY <1>3 DEF W!DiscardAccount
<1>4. CASE W!Deliver
  BY <1>4 DEF W!Deliver, W!ForeignNumber, W!ForeignAccount
<1> QED
  BY <1>1, <1>2, <1>3, <1>4 DEF W!Next

LEMMA InstagramStep ==
  ASSUME ReadByInstagram, G!Next
  PROVE  ReadByInstagram'
<1> USE DEF ReadByInstagram
<1>1. CASE G!Parse
  BY <1>1 DEF G!Parse
<1>2. CASE G!Discard
  BY <1>2 DEF G!Discard
<1>3. CASE G!Deliver
  BY <1>3 DEF G!Deliver, G!Foreign
<1> QED
  BY <1>1, <1>2, <1>3 DEF G!Next

LEMMA ReadThroughout == WhatWasRead /\ [SidesNext]_allVars => WhatWasRead'
<1> SUFFICES ASSUME WhatWasRead, [SidesNext]_allVars
             PROVE  WhatWasRead'
  OBVIOUS
<1>1. CASE side = "send" /\ Next /\ UNCHANGED <<side, webhookVars>>
  BY <1>1 DEF WhatWasRead
<1>2. CASE side = "webhook" /\ W!Next /\ UNCHANGED <<side, unmodeled, vars>>
  BY <1>2, WebhookStep DEF WhatWasRead
<1>3. CASE side = "instagram" /\ G!Next /\ UNCHANGED <<side, vars>>
  BY <1>3, InstagramStep DEF WhatWasRead
<1>4. CASE UNCHANGED allVars
  BY <1>4 DEF allVars, webhookVars, WhatWasRead, ReadByWebhook, ReadByInstagram,
              W!ForeignNumber, W!ForeignAccount, G!Foreign
<1> QED
  BY <1>1, <1>2, <1>3, <1>4 DEF SidesNext

LEMMA AlwaysRead == SidesSpec => []WhatWasRead
  BY ReadAtFirst, ReadThroughout, PTL DEF SidesSpec

(* What arrives has the shape of a payload. *)
LEMMA BatchesArrive ==
  ASSUME WhatWasRead, payload.object
  PROVE  /\ side = "webhook" => IsBatch(payload) /\ ReadByWebhook
         /\ side = "instagram" => IsDMBatch(payload) /\ ReadByInstagram
  BY TranslationsAssumption
  DEF WhatWasRead, ReadByWebhook, ReadByInstagram, IsBatch, IsDMBatch, W!BatchAssumption,
      G!BatchAssumption

(* An event that cannot be read never discards the ones after it, in either *)
(* webhook: whatever the batch, its events are those of its items, each     *)
(* read with nothing but what contains it (internal/meta/parse.go,          *)
(* instagram.go).                                                           *)
THEOREM ItemsAlwaysReadAlone == SidesSpec => []ItemsAreReadAlone
<1>1. WhatWasRead => ItemsAreReadAlone
  <2> SUFFICES ASSUME WhatWasRead
               PROVE  ItemsAreReadAlone
    OBVIOUS
  <2>1. CASE answer # "none" /\ payload.object
    <3>1. side = "webhook" => W!ItemsAreReadAlone
      BY <2>1, BatchesArrive, ReadAloneHolds DEF ReadByWebhook
    <3>2. side = "instagram" => G!ItemsAreReadAlone
      BY <2>1, BatchesArrive, DMsReadAloneHolds DEF ReadByInstagram
    <3> QED
      BY <3>1, <3>2 DEF ItemsAreReadAlone
  <2>2. CASE ~(answer # "none" /\ payload.object)
    BY <2>2 DEF ItemsAreReadAlone, W!ItemsAreReadAlone, G!ItemsAreReadAlone
  <2> QED
    BY <2>1, <2>2
<1> QED
  BY <1>1, AlwaysRead, PTL

(* A delivery says that something was lost exactly when something was: a    *)
(* part of the batch that cannot be read, or an item that gives no event    *)
(* (internal/meta/parse.go, instagram.go).                                  *)
THEOREM LossAlwaysTold == SidesSpec => []LossIsTold
<1>1. WhatWasRead => LossIsTold
  <2> SUFFICES ASSUME WhatWasRead
               PROVE  LossIsTold
    OBVIOUS
  <2>1. CASE answer # "none" /\ payload.object
    <3>1. side = "webhook" => W!LossIsTold
      BY <2>1, BatchesArrive, LossToldHolds DEF ReadByWebhook
    <3>2. side = "instagram" => G!LossIsTold
      BY <2>1, BatchesArrive, DMLossToldHolds DEF ReadByInstagram
    <3> QED
      BY <3>1, <3>2 DEF LossIsTold
  <2>2. CASE ~(answer # "none" /\ payload.object)
    BY <2>2 DEF LossIsTold, W!LossIsTold, G!LossIsTold
  <2> QED
    BY <2>1, <2>2
<1> QED
  BY <1>1, AlwaysRead, PTL

(* Nothing of another number or another account is delivered, as an event   *)
(* or in the raw body that goes along, in a batch of any size               *)
(* (internal/inbound/handler.go, steps 5, 5a and 5b).                       *)
THEOREM DeliveredAlwaysProven == SidesSpec => []DeliveredIsProven
<1>1. WhatWasRead => DeliveredIsProven
  <2> SUFFICES ASSUME WhatWasRead
               PROVE  DeliveredIsProven
    OBVIOUS
  <2>1. CASE answer = "delivered" /\ payload.object
    <3>1. side = "webhook" => W!DeliveredIsProven
      BY <2>1, BatchesArrive, ProvenHolds DEF ReadByWebhook
    <3>2. side = "instagram" => G!DeliveredIsProven
      BY <2>1, BatchesArrive, DMProvenHolds DEF ReadByInstagram
    <3> QED
      BY <3>1, <3>2 DEF DeliveredIsProven
  <2>2. CASE ~(answer = "delivered" /\ payload.object)
    BY <2>2 DEF DeliveredIsProven, W!DeliveredIsProven, G!DeliveredIsProven
  <2> QED
    BY <2>1, <2>2
<1> QED
  BY <1>1, AlwaysRead, PTL
=============================================================================
