----------------------------- MODULE CountingFacts -----------------------------
(***************************************************************************)
(* Lemmas about natural numbers, sequences and counting, for the proofs of *)
(* the other modules: least elements, remainders, what is at the ends of a *)
(* sequence and what is left without one element, how many elements of a   *)
(* kind a sequence holds, and how many a family of sequences holds.        *)
(***************************************************************************)
EXTENDS Integers, SequencesExt, SequenceTheorems, FiniteSetTheorems,
        FunctionTheorems, WellFoundedInduction, TLAPS

(* Every non-empty set of naturals has a least element: the strict order   *)
(* of the initial segments 0 .. n is well founded.                         *)
LEMMA LeastExists ==
    ASSUME NEW S \in SUBSET Nat, S # {}
    PROVE  \E m \in S : \A n \in S : m <= n
<1> DEFINE Segments == {0 .. n : n \in S}
           Below == StrictSubsetOrdering(Nat)
<1>1. Segments \subseteq FiniteSubsetsOf(Nat)
  <2>1. \A n \in S : IsFiniteSet(0 .. n)  BY FS_Interval
  <2>2. QED  BY <2>1 DEF FiniteSubsetsOf
<1>2. PICK x \in Segments : \A y \in Segments : <<y, x>> \notin Below
  <2>1. IsWellFoundedOn(Below, FiniteSubsetsOf(Nat))
        BY FS_StrictSubsetOrderingWellFounded
  <2>2. Segments # {}  OBVIOUS
  <2> HIDE DEF Segments, Below
  <2>3. QED  BY <1>1, <2>1, <2>2, WFMin, Zenon
<1>3. PICK m \in S : x = 0 .. m  OBVIOUS
<1>4. ASSUME NEW n \in S, n < m PROVE FALSE
  <2>1. 0 .. n \subseteq 0 .. m /\ 0 .. n # 0 .. m  BY <1>4
  <2>2. <<0 .. n, 0 .. m>> \in Below  BY <2>1 DEF StrictSubsetOrdering
  <2>3. QED  BY <1>2, <1>3, <2>2
<1>5. QED  BY <1>4

(* Induction up to a bound, for a set.                                     *)
LEMMA UpToInduction ==
    ASSUME NEW n \in Nat, NEW G, 0 \in G, \A m \in 1 .. n : m - 1 \in G => m \in G
    PROVE  \A m \in 0 .. n : m \in G
<1> DEFINE Bad == {m \in 0 .. n : m \notin G}
<1> SUFFICES ASSUME Bad # {} PROVE FALSE  OBVIOUS
<1>1. Bad \in SUBSET Nat  OBVIOUS
<1>2. PICK m \in Bad : \A k \in Bad : m <= k
  <2> HIDE DEF Bad
  <2>1. QED  BY <1>1, LeastExists
<1>3. m \in 1 .. n /\ m - 1 \in 0 .. n /\ ~(m <= m - 1)  OBVIOUS
<1>4. m - 1 \in G  BY <1>2, <1>3
<1>5. QED  BY <1>3, <1>4

LEMMA ProductType ==
    ASSUME NEW m \in Nat \ {0}, NEW n \in Nat \ {0}
    PROVE  m * n \in Nat \ {0}
OBVIOUS

LEMMA QuotientType ==
    ASSUME NEW m \in Nat, NEW n \in Nat \ {0}
    PROVE  m \div n \in Nat
OBVIOUS

LEMMA RemainderType ==
    ASSUME NEW m \in Nat, NEW n \in Nat \ {0}
    PROVE  m % n \in 0 .. n - 1
OBVIOUS

LEMMA IntRemainderType ==
    ASSUME NEW m \in Int, NEW n \in Nat \ {0}
    PROVE  m % n \in 0 .. n - 1
OBVIOUS

(* A number below twice the divisor.                                       *)
LEMMA RemainderOfSum ==
    ASSUME NEW n \in Nat \ {0}, NEW m \in 0 .. n - 1
    PROVE  m % n = m /\ (m + n) % n = m
OBVIOUS

(* The place of each element in a finite set of naturals is a bijection.   *)
Rank(S) == [n \in S |-> Cardinality({m \in S : m <= n})]

LEMMA RankIsBijective ==
    ASSUME NEW S \in SUBSET Nat, IsFiniteSet(S)
    PROVE  /\ Rank(S) \in [S -> 1 .. Cardinality(S)]
           /\ \A m, n \in S : Rank(S)[m] = Rank(S)[n] => m = n
           /\ \A i \in 1 .. Cardinality(S) : \E n \in S : Rank(S)[n] = i
<1> DEFINE rank == Rank(S)
<1> DEFINE UpTo(n) == {m \in S : m <= n}
<1>1. /\ Cardinality(S) \in Nat
      /\ \A n \in S : /\ IsFiniteSet(UpTo(n)) /\ Cardinality(UpTo(n)) \in Nat
                      /\ Cardinality(UpTo(n)) <= Cardinality(S)
                      /\ Cardinality(UpTo(n)) # 0
  <2>1. Cardinality(S) \in Nat  BY FS_CardinalityType
  <2>2. ASSUME NEW n \in S
        PROVE  /\ IsFiniteSet(UpTo(n)) /\ Cardinality(UpTo(n)) \in Nat
               /\ Cardinality(UpTo(n)) <= Cardinality(S)
               /\ Cardinality(UpTo(n)) # 0
    <3>1. UpTo(n) \in SUBSET S /\ n \in UpTo(n)  OBVIOUS
    <3> HIDE DEF UpTo
    <3>2. IsFiniteSet(UpTo(n)) /\ Cardinality(UpTo(n)) <= Cardinality(S)
          BY <3>1, FS_Subset
    <3>3. QED  BY <3>1, <3>2, FS_CardinalityType, FS_EmptySet
  <2>3. QED  BY <2>1, <2>2
<1>2. ASSUME NEW m \in S, NEW n \in S, m < n
      PROVE  Cardinality(UpTo(m)) # Cardinality(UpTo(n))
  <2>1. UpTo(m) \in SUBSET UpTo(n) /\ n \in UpTo(n) /\ n \notin UpTo(m)
    <3>1. m \in Nat /\ n \in Nat /\ \A k \in S : k \in Nat  OBVIOUS
    <3>2. n <= n /\ ~(n <= m) /\ \A k \in S : k <= m => k <= n  BY <1>2, <3>1
    <3>3. QED  BY <3>2, Zenon
  <2> HIDE DEF UpTo
  <2>2. Cardinality(UpTo(n)) = Cardinality(UpTo(m)) => UpTo(n) = UpTo(m)
        BY <1>1, <2>1, FS_Subset
  <2>3. QED  BY <2>1, <2>2
<1>3. rank = [n \in S |-> Cardinality(UpTo(n))]  BY DEF Rank
<1>4. rank \in [S -> 1 .. Cardinality(S)]
  <2> HIDE DEF UpTo, rank
  <2>1. \A n \in S : Cardinality(UpTo(n)) \in 1 .. Cardinality(S)  BY <1>1
  <2>2. QED  BY <1>3, <2>1
<1>5. ASSUME NEW m \in S, NEW n \in S, rank[m] = rank[n]  PROVE m = n
  <2>1. m < n \/ n < m \/ m = n  OBVIOUS
  <2> HIDE DEF UpTo, rank
  <2>2. QED  BY <1>2, <1>3, <1>5, <2>1
<1>6. \A i \in 1 .. Cardinality(S) : \E n \in S : rank[n] = i
  <2>1. rank \in Injection(S, 1 .. Cardinality(S))
        BY <1>4, <1>5 DEF Injection, IsInjective
  <2>2. /\ IsFiniteSet(1 .. Cardinality(S))
        /\ Cardinality(1 .. Cardinality(S)) = Cardinality(S)
        BY <1>1, FS_Interval
  <2>3. rank \in Surjection(S, 1 .. Cardinality(S))  BY <2>1, <2>2, FS_Injection
  <2>4. QED  BY <2>3 DEF Surjection
<1>7. QED  BY <1>4, <1>5, <1>6
-----------------------------------------------------------------------------
(* Sequences.                                                              *)

LEMMA RemoveAtProperties ==
    ASSUME NEW S, NEW s \in Seq(S), NEW i \in 1 .. Len(s)
    PROVE  /\ RemoveAt(s, i) \in Seq(S)
           /\ Len(RemoveAt(s, i)) = Len(s) - 1
           /\ \A j \in 1 .. Len(s) - 1 :
                 RemoveAt(s, i)[j] = IF j < i THEN s[j] ELSE s[j + 1]
<1> DEFINE front == SubSeq(s, 1, i - 1)
           back == SubSeq(s, i + 1, Len(s))
<1>1. /\ Len(s) \in Nat /\ i \in Int /\ i - 1 \in Int /\ i + 1 \in Int
      /\ \A k \in 1 .. Len(s) : s[k] \in S
      BY LenProperties, ElementOfSeq
<1>2. /\ front \in Seq(S) /\ Len(front) = i - 1
      /\ \A k \in 1 .. i - 1 : front[k] = s[k]
  <2>1. \A k \in 1 .. i - 1 : s[k] \in S  BY <1>1
  <2>2. /\ front \in Seq(S)
        /\ Len(front) = IF 1 <= i - 1 THEN i - 1 - 1 + 1 ELSE 0
        /\ \A k \in 1 .. i - 1 - 1 + 1 : front[k] = s[1 + k - 1]
        BY <1>1, <2>1, SubSeqProperties
  <2> HIDE DEF front
  <2>3. QED  BY <1>1, <2>2
<1>3. /\ back \in Seq(S) /\ Len(back) = Len(s) - i
      /\ \A k \in 1 .. Len(s) - i : back[k] = s[i + k]
  <2>1. \A k \in i + 1 .. Len(s) : s[k] \in S  BY <1>1
  <2>2. /\ back \in Seq(S)
        /\ Len(back) = IF i + 1 <= Len(s) THEN Len(s) - (i + 1) + 1 ELSE 0
        /\ \A k \in 1 .. Len(s) - (i + 1) + 1 : back[k] = s[(i + 1) + k - 1]
        BY <1>1, <2>1, SubSeqProperties
  <2> HIDE DEF back
  <2>3. QED  BY <1>1, <2>2
<1>4. RemoveAt(s, i) = front \o back  BY DEF RemoveAt
<1> HIDE DEF front, back
<1>5. /\ front \o back \in Seq(S)
      /\ Len(front \o back) = Len(front) + Len(back)
      /\ \A k \in 1 .. Len(front) + Len(back) : (front \o back)[k] =
            IF k <= Len(front) THEN front[k] ELSE back[k - Len(front)]
      BY <1>2, <1>3, ConcatProperties
<1>6. ASSUME NEW j \in 1 .. Len(s) - 1
      PROVE  (front \o back)[j] = IF j < i THEN s[j] ELSE s[j + 1]
  <2>1. CASE j < i  BY <1>1, <1>2, <1>3, <1>5, <2>1
  <2>2. CASE ~(j < i)
    <3>1. /\ j - (i - 1) \in 1 .. Len(s) - i /\ ~(j <= i - 1)
          /\ j \in 1 .. Len(front) + Len(back)
          BY <1>1, <1>2, <1>3, <2>2
    <3>2. (front \o back)[j] = back[j - (i - 1)]  BY <1>2, <1>5, <3>1
    <3>3. i + (j - (i - 1)) = j + 1  BY <1>1
    <3>4. back[j - (i - 1)] = s[i + (j - (i - 1))]  BY <1>3, <3>1
    <3>5. QED  BY <2>2, <3>2, <3>3, <3>4
  <2>3. QED  BY <2>1, <2>2
<1>7. QED  BY <1>1, <1>2, <1>3, <1>4, <1>5, <1>6

LEMMA HeadTailConcat ==
    ASSUME NEW S, NEW s \in Seq(S), NEW r \in Seq(S), s # <<>>
    PROVE  /\ s \o r # <<>>
           /\ Head(s \o r) = Head(s)
           /\ Tail(s \o r) = Tail(s) \o r
<1>1. Len(s) \in Nat \ {0} /\ Len(r) \in Nat  BY EmptySeq, LenProperties
<1>2. /\ s \o r \in Seq(S) /\ Len(s \o r) = Len(s) + Len(r)
      /\ \A i \in 1 .. Len(s) + Len(r) :
            (s \o r)[i] = IF i <= Len(s) THEN s[i] ELSE r[i - Len(s)]
      BY ConcatProperties
<1>3. s \o r # <<>>  BY <1>1, <1>2, EmptySeq
<1>4. Head(s \o r) = Head(s)
  <2>1. Head(s \o r) = (s \o r)[1] /\ Head(s) = s[1]  BY <1>2, <1>3
  <2>2. QED  BY <1>1, <1>2, <2>1
<1>5. /\ Tail(s) \in Seq(S) /\ Len(Tail(s)) = Len(s) - 1
      /\ \A i \in 1 .. Len(s) - 1 : Tail(s)[i] = s[i + 1]
      BY HeadTailProperties
<1>6. /\ Tail(s \o r) \in Seq(S) /\ Len(Tail(s \o r)) = Len(s) + Len(r) - 1
      /\ \A i \in 1 .. Len(s) + Len(r) - 1 : Tail(s \o r)[i] = (s \o r)[i + 1]
  <2>1. /\ Tail(s \o r) \in Seq(S) /\ Len(Tail(s \o r)) = Len(s \o r) - 1
        /\ \A i \in 1 .. Len(Tail(s \o r)) : Tail(s \o r)[i] = (s \o r)[i + 1]
        BY <1>2, <1>3, HeadTailProperties
  <2>2. QED  BY <1>2, <2>1
<1>7. /\ Tail(s) \o r \in Seq(S) /\ Len(Tail(s) \o r) = Len(s) - 1 + Len(r)
      /\ \A i \in 1 .. Len(s) - 1 + Len(r) :
            (Tail(s) \o r)[i] = IF i <= Len(s) - 1 THEN Tail(s)[i] ELSE r[i - (Len(s) - 1)]
  <2>1. /\ Tail(s) \o r \in Seq(S) /\ Len(Tail(s) \o r) = Len(Tail(s)) + Len(r)
        /\ \A i \in 1 .. Len(Tail(s)) + Len(r) : (Tail(s) \o r)[i] =
              IF i <= Len(Tail(s)) THEN Tail(s)[i] ELSE r[i - Len(Tail(s))]
        BY <1>5, ConcatProperties
  <2>2. QED  BY <1>5, <2>1
<1>8. ASSUME NEW i \in 1 .. Len(s) + Len(r) - 1
      PROVE  Tail(s \o r)[i] = (Tail(s) \o r)[i]
  <2>1. CASE i <= Len(s) - 1
    <3>1. i \in 1 .. Len(s) - 1 /\ i + 1 <= Len(s) /\ i + 1 \in 1 .. Len(s) + Len(r)
          /\ i \in 1 .. Len(s) - 1 + Len(r)
          BY <1>1, <2>1
    <3>2. QED  BY <1>2, <1>5, <1>6, <1>7, <2>1, <3>1
  <2>2. CASE ~(i <= Len(s) - 1)
    <3>1. /\ ~(i + 1 <= Len(s)) /\ i + 1 \in 1 .. Len(s) + Len(r)
          /\ i \in 1 .. Len(s) - 1 + Len(r)
          /\ i + 1 - Len(s) = i - (Len(s) - 1)
          BY <1>1, <2>2
    <3>2. Tail(s \o r)[i] = r[i + 1 - Len(s)]  BY <1>2, <1>6, <3>1
    <3>3. (Tail(s) \o r)[i] = r[i - (Len(s) - 1)]  BY <1>7, <2>2, <3>1
    <3>4. QED  BY <3>1, <3>2, <3>3
  <2>3. QED  BY <2>1, <2>2
<1>9. Tail(s \o r) = Tail(s) \o r
  <2>1. Len(Tail(s \o r)) = Len(Tail(s) \o r)  BY <1>1, <1>6, <1>7
  <2>2. \A i \in 1 .. Len(Tail(s \o r)) : Tail(s \o r)[i] = (Tail(s) \o r)[i]
        BY <1>1, <1>6, <1>8
  <2>3. QED  BY <1>6, <1>7, <2>1, <2>2, SeqEqual
<1>10. QED  BY <1>3, <1>4, <1>9

LEMMA SingletonSeq ==
    ASSUME NEW S, NEW e \in S
    PROVE  /\ <<e>> \in Seq(S) /\ <<e>> # <<>>
           /\ Head(<<e>>) = e /\ Tail(<<e>>) = <<>>
<1>1. <<e>> = Append(<<>>, e)
  <2>1. <<>> \in Seq(S)  BY EmptySeq
  <2>2. Append(<<>>, e) = <<>> \o <<e>>  BY <2>1, AppendIsConcat
  <2>3. QED  BY <2>2
<1>2. <<>> \in Seq(S)  BY EmptySeq
<1>3. <<e>> \in Seq(S) /\ <<e>> # <<>>  BY <1>1, <1>2, AppendProperties
<1>4. Head(<<e>>) = e /\ Tail(<<e>>) = <<>>  BY <1>1, <1>2, HeadTailAppend
<1>5. QED  BY <1>3, <1>4

LEMMA HeadOfConcat ==
    ASSUME NEW S, NEW e \in S, NEW s \in Seq(S)
    PROVE  /\ <<e>> \o s \in Seq(S) /\ <<e>> \o s # <<>>
           /\ Head(<<e>> \o s) = e /\ Tail(<<e>> \o s) = s
<1> DEFINE a == <<e>>
<1>1. a \in Seq(S) /\ a # <<>> /\ Head(a) = e /\ Tail(a) = <<>>  BY SingletonSeq
<1> HIDE DEF a
<1>2. a \o s \in Seq(S)  BY <1>1, ConcatProperties
<1>3. a \o s # <<>> /\ Head(a \o s) = Head(a) /\ Tail(a \o s) = Tail(a) \o s
      BY <1>1, HeadTailConcat
<1>4. <<>> \o s = s  BY ConcatEmptySeq
<1>5. QED  BY <1>1, <1>2, <1>3, <1>4 DEF a

LEMMA SplitHead ==
    ASSUME NEW S, NEW s \in Seq(S), s # <<>>
    PROVE  /\ Head(s) \in S /\ Tail(s) \in Seq(S)
           /\ s = <<Head(s)>> \o Tail(s)
           /\ Head(s) = s[1]
<1>1. Len(s) \in Nat \ {0}  BY EmptySeq
<1>2. Head(s) \in S /\ Tail(s) \in Seq(S) /\ Head(s) = s[1]
      BY HeadTailProperties
<1>3. 1 \in 1 .. Len(s) /\ Len(s) \in 1 .. Len(s)  BY <1>1
<1>4. SubSeq(s, 1, Len(s)) = <<s[1]>> \o SubSeq(s, 1 + 1, Len(s))
      BY <1>3, SubSeqRecursiveFirst
<1>5. SubSeq(s, 1, Len(s)) = s  BY SubSeqFull
<1>6. Tail(s) = SubSeq(s, 2, Len(s))  BY TailIsSubSeq
<1>7. QED  BY <1>2, <1>4, <1>5, <1>6

LEMMA RemoveAtHead ==
    ASSUME NEW S, NEW s \in Seq(S), s # <<>>
    PROVE  RemoveAt(s, 1) = Tail(s)
<1>1. SubSeq(s, 1, 1 - 1) = <<>>  BY SubSeqEmpty
<1>2. Tail(s) = SubSeq(s, 2, Len(s)) /\ Tail(s) \in Seq(S)
      BY TailIsSubSeq, HeadTailProperties
<1>3. <<>> \o Tail(s) = Tail(s)  BY <1>2, ConcatEmptySeq
<1>4. RemoveAt(s, 1) = SubSeq(s, 1, 1 - 1) \o SubSeq(s, 1 + 1, Len(s))
      BY DEF RemoveAt
<1>5. SubSeq(s, 1 + 1, Len(s)) = SubSeq(s, 2, Len(s))  BY 1 + 1 = 2
<1>6. QED  BY <1>1, <1>2, <1>3, <1>4, <1>5

-----------------------------------------------------------------------------
(* Counting.                                                               *)

(* Two sets of places that one renaming takes to each other.               *)
LEMMA Renamed ==
    ASSUME NEW S, NEW T, IsFiniteSet(S), NEW F \in [S -> T],
           \A i, j \in S : F[i] = F[j] => i = j,
           \A k \in T : \E i \in S : F[i] = k
    PROVE  IsFiniteSet(T) /\ Cardinality(T) = Cardinality(S)
<1>1. F \in Bijection(S, T)  BY Fun_IsBij
<1>2. ExistsBijection(S, T)  BY <1>1 DEF ExistsBijection
<1>3. QED  BY <1>2, FS_Bijection

LEMMA DisjointUnion ==
    ASSUME NEW S, NEW T, IsFiniteSet(S), IsFiniteSet(T), S \cap T = {}
    PROVE  Cardinality(S \cup T) = Cardinality(S) + Cardinality(T)
<1>1. Cardinality(S \cup T) = Cardinality(S) + Cardinality(T) - Cardinality(S \cap T)
      BY FS_Union
<1>2. Cardinality(S \cap T) = 0  BY FS_EmptySet
<1>3. Cardinality(S) \in Nat /\ Cardinality(T) \in Nat  BY FS_CardinalityType
<1>4. QED  BY <1>1, <1>2, <1>3

(* The places of a sequence that hold a member of T.                       *)
Places(s, T) == {i \in DOMAIN s : s[i] \in T}
CountIn(s, T) == Cardinality(Places(s, T))
OneIf(test) == IF test THEN 1 ELSE 0

LEMMA CountType ==
    ASSUME NEW S, NEW s \in Seq(S), NEW T
    PROVE  /\ IsFiniteSet(Places(s, T))
           /\ CountIn(s, T) \in Nat
           /\ Places(s, T) \subseteq 1 .. Len(s)
<1>1. DOMAIN s = 1 .. Len(s) /\ Len(s) \in Nat  BY LenProperties
<1>2. IsFiniteSet(1 .. Len(s))  BY <1>1, FS_Interval
<1>3. Places(s, T) \in SUBSET (1 .. Len(s))  BY <1>1 DEF Places
<1>4. IsFiniteSet(Places(s, T))  BY <1>2, <1>3, FS_Subset
<1>5. QED  BY <1>3, <1>4, FS_CardinalityType DEF CountIn

(* None is counted just where there is none.                               *)
LEMMA CountPositive ==
    ASSUME NEW S, NEW s \in Seq(S), NEW T
    PROVE  CountIn(s, T) > 0 <=> \E i \in 1 .. Len(s) : s[i] \in T
<1>1. DOMAIN s = 1 .. Len(s)  BY LenProperties
<1>2. IsFiniteSet(Places(s, T)) /\ CountIn(s, T) \in Nat  BY CountType
<1>3. CountIn(s, T) = 0 <=> Places(s, T) = {}  BY <1>2, FS_EmptySet DEF CountIn
<1>4. Places(s, T) # {} <=> \E i \in 1 .. Len(s) : s[i] \in T  BY <1>1 DEF Places
<1>5. QED  BY <1>2, <1>3, <1>4

LEMMA CountEmpty == \A T : CountIn(<<>>, T) = 0
<1>1. ASSUME NEW T  PROVE CountIn(<<>>, T) = 0
  <2>1. Places(<<>>, T) = {}  BY DEF Places
  <2>2. QED  BY <2>1, FS_EmptySet DEF CountIn
<1>2. QED  BY <1>1

LEMMA CountConcat ==
    ASSUME NEW S, NEW s \in Seq(S), NEW r \in Seq(S), NEW T
    PROVE  CountIn(s \o r, T) = CountIn(s, T) + CountIn(r, T)
<1> DEFINE high == {j \in Len(s) + 1 .. Len(s) + Len(r) : r[j - Len(s)] \in T}
           F == [i \in Places(r, T) |-> i + Len(s)]
<1>1. /\ Len(s) \in Nat /\ DOMAIN s = 1 .. Len(s)
      /\ Len(r) \in Nat /\ DOMAIN r = 1 .. Len(r)
      BY LenProperties
<1>2. /\ s \o r \in Seq(S) /\ DOMAIN (s \o r) = 1 .. Len(s) + Len(r)
      /\ \A i \in 1 .. Len(s) + Len(r) :
            (s \o r)[i] = IF i <= Len(s) THEN s[i] ELSE r[i - Len(s)]
      BY ConcatProperties, LenProperties
<1>3. Places(s \o r, T) = Places(s, T) \cup high
  <2>1. ASSUME NEW i \in Places(s \o r, T)  PROVE i \in Places(s, T) \cup high
    <3>1. i \in 1 .. Len(s) + Len(r) /\ (s \o r)[i] \in T  BY <1>2 DEF Places
    <3>2. CASE i <= Len(s)  BY <1>1, <1>2, <3>1, <3>2 DEF Places
    <3>3. CASE ~(i <= Len(s))
      <4>1. i \in Len(s) + 1 .. Len(s) + Len(r)  BY <1>1, <3>1, <3>3
      <4>2. QED  BY <1>2, <3>1, <3>3, <4>1
    <3>4. QED  BY <3>2, <3>3
  <2>2. ASSUME NEW i \in Places(s, T)  PROVE i \in Places(s \o r, T)
    <3>1. i \in 1 .. Len(s) /\ s[i] \in T  BY <1>1 DEF Places
    <3>2. i \in 1 .. Len(s) + Len(r) /\ i <= Len(s)  BY <1>1, <3>1
    <3>3. QED  BY <1>2, <3>1, <3>2 DEF Places
  <2>3. ASSUME NEW i \in high  PROVE i \in Places(s \o r, T)
    <3>1. i \in 1 .. Len(s) + Len(r) /\ ~(i <= Len(s)) /\ r[i - Len(s)] \in T
          BY <1>1
    <3>2. QED  BY <1>2, <3>1 DEF Places
  <2> HIDE DEF high
  <2>4. QED  BY <2>1, <2>2, <2>3
<1>4. Places(s, T) \cap high = {}  BY <1>1 DEF Places
<1>5. IsFiniteSet(high) /\ Cardinality(high) = Cardinality(Places(r, T))
  <2>1. F \in [Places(r, T) -> high]
    <3>1. ASSUME NEW i \in Places(r, T)  PROVE i + Len(s) \in high
      <4>1. i \in 1 .. Len(r) /\ r[i] \in T  BY <1>1 DEF Places
      <4>2. i + Len(s) \in Len(s) + 1 .. Len(s) + Len(r) /\ (i + Len(s)) - Len(s) = i
            BY <1>1, <4>1
      <4>3. QED  BY <4>1, <4>2
    <3> HIDE DEF high
    <3>2. QED  BY <3>1
  <2>2. \A i, j \in Places(r, T) : F[i] = F[j] => i = j  BY <1>1 DEF Places
  <2>3. ASSUME NEW k \in high  PROVE \E i \in Places(r, T) : F[i] = k
    <3>1. k - Len(s) \in 1 .. Len(r) /\ (k - Len(s)) + Len(s) = k  BY <1>1
    <3>2. k - Len(s) \in Places(r, T)  BY <1>1, <3>1 DEF Places
    <3>3. F[k - Len(s)] = k  BY <3>1, <3>2
    <3>4. QED  BY <3>2, <3>3
  <2>4. IsFiniteSet(Places(r, T))  BY CountType
  <2> HIDE DEF high, F
  <2>5. QED  BY <2>1, <2>2, <2>3, <2>4, Renamed
<1> HIDE DEF high, F
<1>6. QED
  <2>1. IsFiniteSet(Places(s, T))  BY CountType
  <2>2. Cardinality(Places(s, T) \cup high) = Cardinality(Places(s, T)) + Cardinality(high)
        BY <1>4, <1>5, <2>1, DisjointUnion
  <2>3. QED  BY <1>3, <1>5, <2>2 DEF CountIn

LEMMA CountOne ==
    ASSUME NEW t, NEW T
    PROVE  CountIn(<<t>>, T) = OneIf(t \in T)
<1>1. DOMAIN <<t>> = {1} /\ <<t>>[1] = t  OBVIOUS
<1>2. CASE t \in T
  <2>1. Places(<<t>>, T) = {1}  BY <1>1, <1>2 DEF Places
  <2>2. QED  BY <1>2, <2>1, FS_Singleton DEF CountIn, OneIf
<1>3. CASE t \notin T
  <2>1. Places(<<t>>, T) = {}  BY <1>1, <1>3 DEF Places
  <2>2. QED  BY <1>3, <2>1, FS_EmptySet DEF CountIn, OneIf
<1>4. QED  BY <1>2, <1>3

LEMMA CountAppend ==
    ASSUME NEW S, NEW s \in Seq(S), NEW t \in S, NEW T
    PROVE  CountIn(Append(s, t), T) = CountIn(s, T) + OneIf(t \in T)
<1>1. Append(s, t) = s \o <<t>> /\ <<t>> \in Seq(S)  BY AppendIsConcat, SingletonSeq
<1>2. CountIn(s \o <<t>>, T) = CountIn(s, T) + CountIn(<<t>>, T)
      BY <1>1, CountConcat
<1>3. QED  BY <1>1, <1>2, CountOne

LEMMA CountHeadTail ==
    ASSUME NEW S, NEW s \in Seq(S), s # <<>>, NEW T
    PROVE  CountIn(s, T) = OneIf(Head(s) \in T) + CountIn(Tail(s), T)
<1>1. /\ Head(s) \in S /\ Tail(s) \in Seq(S) /\ s = <<Head(s)>> \o Tail(s)
      /\ <<Head(s)>> \in Seq(S)
      BY SplitHead, SingletonSeq
<1>2. CountIn(<<Head(s)>> \o Tail(s), T) = CountIn(<<Head(s)>>, T) + CountIn(Tail(s), T)
      BY <1>1, CountConcat
<1>3. QED  BY <1>1, <1>2, CountOne

LEMMA SplitAt ==
    ASSUME NEW S, NEW s \in Seq(S), NEW i \in 1 .. Len(s)
    PROVE  /\ SubSeq(s, 1, i - 1) \in Seq(S) /\ SubSeq(s, i + 1, Len(s)) \in Seq(S)
           /\ s[i] \in S
           /\ s = SubSeq(s, 1, i - 1) \o (<<s[i]>> \o SubSeq(s, i + 1, Len(s)))
<1>1. /\ Len(s) \in Nat /\ i - 1 \in Int /\ i + 1 \in Int /\ Len(s) \in Int
      /\ 1 \in 1 .. Len(s) + 1 /\ i - 1 \in 0 .. Len(s) /\ Len(s) \in i - 1 .. Len(s)
      /\ Len(s) \in i .. Len(s) /\ i - 1 + 1 = i /\ 1 - 1 = 0
      BY LenProperties
<1>2. \A k \in 1 .. Len(s) : s[k] \in S  BY ElementOfSeq
<1>3. SubSeq(s, 1, i - 1) \in Seq(S)
  <2>1. \A k \in 1 .. i - 1 : s[k] \in S  BY <1>1, <1>2
  <2>2. QED  BY <1>1, <2>1, SubSeqProperties
<1>4. SubSeq(s, i + 1, Len(s)) \in Seq(S)
  <2>1. \A k \in i + 1 .. Len(s) : s[k] \in S  BY <1>1, <1>2
  <2>2. QED  BY <1>1, <2>1, SubSeqProperties
<1>5. SubSeq(s, i, Len(s)) = <<s[i]>> \o SubSeq(s, i + 1, Len(s))
      BY <1>1, SubSeqRecursiveFirst
<1>6. SubSeq(s, 1, i - 1) \o SubSeq(s, i - 1 + 1, Len(s)) = SubSeq(s, 1, Len(s))
      BY <1>1, ConcatAdjacentSubSeq
<1>7. SubSeq(s, 1, Len(s)) = s  BY SubSeqFull
<1>8. QED  BY <1>1, <1>2, <1>3, <1>4, <1>5, <1>6, <1>7

LEMMA CountRemoveAt ==
    ASSUME NEW S, NEW s \in Seq(S), NEW i \in 1 .. Len(s), NEW T
    PROVE  CountIn(s, T) = CountIn(RemoveAt(s, i), T) + OneIf(s[i] \in T)
<1> DEFINE front == SubSeq(s, 1, i - 1)
           back == SubSeq(s, i + 1, Len(s))
<1>1. /\ front \in Seq(S) /\ back \in Seq(S) /\ s[i] \in S
      /\ s = front \o (<<s[i]>> \o back)
      BY SplitAt
<1>2. RemoveAt(s, i) = front \o back  BY DEF RemoveAt
<1> HIDE DEF front, back
<1>3. <<s[i]>> \in Seq(S) /\ <<s[i]>> \o back \in Seq(S)
      BY <1>1, SingletonSeq, ConcatProperties
<1>4. CountIn(front \o (<<s[i]>> \o back), T)
        = CountIn(front, T) + CountIn(<<s[i]>> \o back, T)
      BY <1>1, <1>3, CountConcat
<1>5. CountIn(<<s[i]>> \o back, T) = CountIn(<<s[i]>>, T) + CountIn(back, T)
      BY <1>1, <1>3, CountConcat
<1>6. CountIn(front \o back, T) = CountIn(front, T) + CountIn(back, T)
      BY <1>1, CountConcat
<1>7. CountIn(front, T) \in Nat /\ CountIn(back, T) \in Nat  BY <1>1, CountType
<1>8. CountIn(<<s[i]>>, T) = OneIf(s[i] \in T) /\ OneIf(s[i] \in T) \in Nat
      BY CountOne DEF OneIf
<1>9. CountIn(s, T) = CountIn(front \o (<<s[i]>> \o back), T)  BY <1>1, Zenon
<1>10. QED  BY <1>2, <1>4, <1>5, <1>6, <1>7, <1>8, <1>9

LEMMA ReverseProperties ==
    ASSUME NEW S, NEW s \in Seq(S)
    PROVE  /\ Reverse(s) \in Seq(S) /\ Len(Reverse(s)) = Len(s)
           /\ \A T : CountIn(Reverse(s), T) = CountIn(s, T)
<1> DEFINE n == Len(s)
           r == Reverse(s)
<1>1. n \in Nat /\ DOMAIN s = 1 .. n /\ \A i \in 1 .. n : s[i] \in S
      BY LenProperties, ElementOfSeq
<1>2. \A i \in 1 .. n : n - i + 1 \in 1 .. n /\ n - (n - i + 1) + 1 = i  BY <1>1
<1>3. r = [i \in 1 .. n |-> s[(n - i) + 1]]  BY DEF Reverse
<1> HIDE DEF r
<1>4. r \in [1 .. n -> S]  BY <1>1, <1>2, <1>3
<1>5. r \in Seq(S) /\ Len(r) = n /\ DOMAIN r = 1 .. n  BY <1>1, <1>4
<1>6. \A i \in 1 .. n : r[i] = s[n - i + 1]  BY <1>3
<1>7. ASSUME NEW T  PROVE CountIn(r, T) = CountIn(s, T)
  <2> DEFINE F == [i \in Places(s, T) |-> n - i + 1]
  <2>1. \A i \in 1 .. n : i \in Places(s, T) <=> n - i + 1 \in Places(r, T)
        BY <1>1, <1>2, <1>5, <1>6 DEF Places
  <2>2. Places(s, T) \subseteq 1 .. n /\ Places(r, T) \subseteq 1 .. n
        BY <1>1, <1>5 DEF Places
  <2>3. F \in [Places(s, T) -> Places(r, T)]  BY <2>1, <2>2
  <2>4. \A i, j \in Places(s, T) : F[i] = F[j] => i = j  BY <1>1, <2>2
  <2>5. ASSUME NEW k \in Places(r, T)  PROVE \E i \in Places(s, T) : F[i] = k
    <3>1. k \in 1 .. n /\ n - k + 1 \in 1 .. n /\ n - (n - k + 1) + 1 = k  BY <1>2, <2>2
    <3>2. n - k + 1 \in Places(s, T)  BY <2>1, <3>1
    <3>3. F[n - k + 1] = k  BY <3>1, <3>2
    <3>4. QED  BY <3>2, <3>3
  <2>6. IsFiniteSet(Places(s, T))  BY CountType
  <2> HIDE DEF F
  <2>7. QED  BY <2>3, <2>4, <2>5, <2>6, Renamed DEF CountIn
<1>8. QED  BY <1>5, <1>7 DEF r

(* Sequences of the same length whose elements correspond count alike.     *)
LEMMA CountSame ==
    ASSUME NEW S, NEW s \in Seq(S), NEW R, NEW r \in Seq(R), Len(s) = Len(r), NEW T, NEW U,
           \A i \in 1 .. Len(s) : s[i] \in T <=> r[i] \in U
    PROVE  CountIn(s, T) = CountIn(r, U)
<1>1. DOMAIN s = 1 .. Len(s) /\ DOMAIN r = 1 .. Len(s)  BY LenProperties
<1>2. Places(s, T) = Places(r, U)  BY <1>1 DEF Places
<1>3. QED  BY <1>2 DEF CountIn

(* How many a family of sequences holds.                                   *)
PlacesAmong(q, D, T) == UNION {{d} \X Places(q[d], T) : d \in D}
CountAmong(q, D, T) == Cardinality(PlacesAmong(q, D, T))

LEMMA CountAmongType ==
    ASSUME NEW S, NEW D, IsFiniteSet(D), NEW q \in [D -> Seq(S)], NEW T
    PROVE  IsFiniteSet(PlacesAmong(q, D, T)) /\ CountAmong(q, D, T) \in Nat
<1>1. ASSUME NEW d \in D  PROVE IsFiniteSet({d} \X Places(q[d], T))
  <2>1. q[d] \in Seq(S)  OBVIOUS
  <2>2. IsFiniteSet({d}) /\ IsFiniteSet(Places(q[d], T))
        BY <2>1, CountType, FS_Singleton
  <2>3. QED  BY <2>2, FS_Product
<1> DEFINE F == [d \in D |-> {d} \X Places(q[d], T)]
           Family == {{d} \X Places(q[d], T) : d \in D}
<1>2. IsFiniteSet(Family)
  <2>1. F \in Surjection(D, Family)  BY DEF Surjection
  <2>2. QED  BY <2>1, FS_Surjection
<1>3. \A P \in Family : IsFiniteSet(P)  BY <1>1
<1>4. IsFiniteSet(UNION Family)  BY <1>2, <1>3, FS_UNION
<1>5. QED  BY <1>4, FS_CardinalityType DEF PlacesAmong, CountAmong

(* Only the sequence at d may differ between q and r.                      *)
CountsDifferAtOne(S, D, T) ==
    \A q, r \in [D -> Seq(S)] : \A d \in D :
       (\A e \in D \ {d} : r[e] = q[e]) =>
          CountAmong(r, D, T) + CountIn(q[d], T) = CountAmong(q, D, T) + CountIn(r[d], T)

LEMMA CountAmongStep ==
    ASSUME NEW S, NEW D, IsFiniteSet(D), NEW T
    PROVE  CountsDifferAtOne(S, D, T)
<1> SUFFICES ASSUME NEW q \in [D -> Seq(S)], NEW r \in [D -> Seq(S)], NEW d \in D,
                    \A e \in D \ {d} : r[e] = q[e]
             PROVE  CountAmong(r, D, T) + CountIn(q[d], T) = CountAmong(q, D, T) + CountIn(r[d], T)
    BY DEF CountsDifferAtOne
<1> DEFINE Rest == PlacesAmong(q, D \ {d}, T)
           At(s) == {d} \X Places(s, T)
<1>1. ASSUME NEW f \in [D -> Seq(S)], \A e \in D \ {d} : f[e] = q[e]
      PROVE  /\ CountAmong(f, D, T) = Cardinality(Rest) + CountIn(f[d], T)
             /\ Cardinality(Rest) \in Nat /\ CountIn(f[d], T) \in Nat
  <2>1. PlacesAmong(f, D, T) = Rest \cup At(f[d])  BY <1>1 DEF PlacesAmong
  <2>2. Rest \cap At(f[d]) = {}  BY DEF PlacesAmong
  <2>3. f[d] \in Seq(S)  OBVIOUS
  <2>4. IsFiniteSet(Places(f[d], T)) /\ CountIn(f[d], T) \in Nat  BY <2>3, CountType
  <2>5. IsFiniteSet(At(f[d])) /\ Cardinality(At(f[d])) = CountIn(f[d], T)
    <3>1. IsFiniteSet({d}) /\ Cardinality({d}) = 1  BY FS_Singleton
    <3>2. /\ IsFiniteSet(At(f[d]))
          /\ Cardinality(At(f[d])) = Cardinality({d}) * Cardinality(Places(f[d], T))
          BY <2>4, <3>1, FS_Product
    <3>3. QED  BY <2>4, <3>1, <3>2 DEF CountIn
  <2>6. IsFiniteSet(PlacesAmong(f, D, T))  BY CountAmongType
  <2>7. IsFiniteSet(Rest) /\ Cardinality(Rest) \in Nat
        BY <2>1, <2>6, FS_Subset, FS_CardinalityType
  <2> HIDE DEF Rest, At
  <2>8. Cardinality(Rest \cup At(f[d])) = Cardinality(Rest) + Cardinality(At(f[d]))
        BY <2>2, <2>5, <2>7, DisjointUnion
  <2>9. QED  BY <2>1, <2>4, <2>5, <2>7, <2>8 DEF CountAmong
<1> HIDE DEF Rest
<1>2. /\ CountAmong(q, D, T) = Cardinality(Rest) + CountIn(q[d], T)
      /\ Cardinality(Rest) \in Nat /\ CountIn(q[d], T) \in Nat
      BY <1>1
<1>3. /\ CountAmong(r, D, T) = Cardinality(Rest) + CountIn(r[d], T)
      /\ CountIn(r[d], T) \in Nat
      BY <1>1
<1>4. QED  BY <1>2, <1>3

(* The sequences that FlattenSeq builds one after the other.               *)
Flattens(f, seqs, S) ==
    /\ f \in [0 .. Len(seqs) -> Seq(S)]
    /\ f[0] = <<>>
    /\ \A m \in 1 .. Len(seqs) : f[m] = f[m - 1] \o seqs[m]
    /\ FlattenSeq(seqs) = f[Len(seqs)]

LEMMA FlattenSeqSteps ==
    ASSUME NEW S, NEW seqs \in Seq(Seq(S))
    PROVE  \E f : Flattens(f, seqs, S)
<1> DEFINE n == Len(seqs)
<1>1. n \in Nat /\ \A i \in 1 .. n : seqs[i] \in Seq(S)  BY LenProperties, ElementOfSeq
<1>2. CASE n = 0
  <2> DEFINE f == [m \in 0 .. n |-> <<>>]
  <2>1. seqs = <<>>  BY <1>2, EmptySeq
  <2>2. FlattenSeq(seqs) = <<>>  BY <1>2, <2>1 DEF FlattenSeq
  <2>3. f \in [0 .. n -> Seq(S)] /\ f[0] = <<>> /\ f[n] = <<>>  BY <1>2, EmptySeq
  <2>4. \A m \in 1 .. n : FALSE  BY <1>2
  <2> HIDE DEF f
  <2>5. QED  BY <2>2, <2>3, <2>4 DEF Flattens
<1>3. CASE n # 0
  <2> DEFINE Step(g, i) == IF i = 1 THEN seqs[i] ELSE g[i - 1] \o seqs[i]
             Solves(g, m) == \A i \in 1 .. m : g[i] = Step(g, i)
             G == {m \in 0 .. n : \E g \in [1 .. m -> Seq(S)] : Solves(g, m)}
  <2>1. 0 \in G
    <3> DEFINE none == [i \in 1 .. 0 |-> <<>>]
    <3>1. \A i \in 1 .. 0 : FALSE  OBVIOUS
    <3>2. none \in [1 .. 0 -> Seq(S)]  BY <3>1
    <3> HIDE DEF none, Step
    <3>3. Solves(none, 0)  BY <3>1
    <3> HIDE DEF Solves
    <3>4. 0 \in 0 .. n  BY <1>1
    <3>5. QED  BY <3>2, <3>3, <3>4
  <2>2. ASSUME NEW m \in 1 .. n, m - 1 \in G  PROVE m \in G
    <3>1. PICK g \in [1 .. m - 1 -> Seq(S)] : Solves(g, m - 1)  BY <2>2
    <3> DEFINE h == [i \in 1 .. m |-> IF i < m THEN g[i] ELSE Step(g, m)]
    <3>2. Step(g, m) \in Seq(S)
      <4>1. CASE m = 1  BY <1>1, <4>1
      <4>2. CASE m # 1
        <5>1. m - 1 \in 1 .. m - 1  BY <1>1, <4>2
        <5>2. g[m - 1] \in Seq(S) /\ seqs[m] \in Seq(S)  BY <1>1, <5>1
        <5>3. QED  BY <4>2, <5>2, ConcatProperties
      <4>3. QED  BY <4>1, <4>2
    <3>3. h \in [1 .. m -> Seq(S)]
      <4> HIDE DEF Step
      <4>1. \A i \in 1 .. m : i < m => i \in 1 .. m - 1  BY <1>1
      <4>2. QED  BY <3>2, <4>1
    <3>4. \A i \in 1 .. m : Step(h, i) = Step(g, i)
      <4>1. \A i \in 1 .. m : i # 1 => i - 1 \in 1 .. m /\ i - 1 < m /\ i - 1 \in 1 .. m - 1
            BY <1>1
      <4>2. QED  BY <4>1
    <3>5. \A i \in 1 .. m : h[i] = Step(g, i)
      <4> HIDE DEF Step
      <4>1. \A i \in 1 .. m : i = m \/ (i < m /\ i \in 1 .. m - 1)  BY <1>1
      <4>2. QED  BY <3>1, <4>1
    <3> HIDE DEF Step, h
    <3>6. Solves(h, m)  BY <3>4, <3>5
    <3> HIDE DEF Solves
    <3>7. QED  BY <1>1, <3>3, <3>6
  <2> HIDE DEF G
  <2>3. n \in G
    <3>1. \A m \in 0 .. n : m \in G  BY <1>1, <2>1, <2>2, UpToInduction
    <3>2. QED  BY <1>1, <3>1
  <2> USE DEF G
  <2>4. PICK g \in [1 .. n -> Seq(S)] : Solves(g, n)  BY <2>3
  <2> HIDE DEF G
  <2>5. g = [i \in 1 .. n |-> Step(g, i)]
    <3> HIDE DEF Step
    <3>1. QED  BY <2>4
  <2> DEFINE flatten == CHOOSE h : h = [i \in 1 .. n |-> Step(h, i)]
  <2>6. flatten = [i \in 1 .. n |-> Step(flatten, i)]
    <3> HIDE DEF Step
    <3>1. QED  BY <2>5
  <2>7. FlattenSeq(seqs) = flatten[n]
        BY <1>3 DEF FlattenSeq
  <2>8. \A i \in 1 .. n : flatten[i] = Step(flatten, i)
    <3> DEFINE F == [i \in 1 .. n |-> Step(flatten, i)]
    <3>1. \A i \in 1 .. n : F[i] = Step(flatten, i)
      <4> HIDE DEF Step, flatten
      <4>1. QED  OBVIOUS
    <3>2. flatten = F  BY <2>6
    <3> HIDE DEF flatten, F
    <3>3. QED  BY <3>1, <3>2
  <2> HIDE DEF flatten
  <2> DEFINE Typed == {m \in 0 .. n : m = 0 \/ flatten[m] \in Seq(S)}
  <2>9. \A m \in 1 .. n : flatten[m] \in Seq(S)
    <3>1. 0 \in Typed  BY <1>1
    <3>2. ASSUME NEW m \in 1 .. n, m - 1 \in Typed  PROVE m \in Typed
      <4>1. CASE m = 1  BY <1>1, <2>8, <4>1
      <4>2. CASE m # 1
        <5>1. flatten[m - 1] \in Seq(S) /\ seqs[m] \in Seq(S)  BY <1>1, <3>2, <4>2
        <5>2. flatten[m] = flatten[m - 1] \o seqs[m]  BY <2>8, <4>2
        <5>3. flatten[m] \in Seq(S)  BY <5>1, <5>2, ConcatProperties
        <5>4. QED  BY <5>3
      <4>3. QED  BY <4>1, <4>2
    <3>3. \A m \in 0 .. n : m \in Typed
      <4> HIDE DEF Typed
      <4>1. QED  BY <1>1, <3>1, <3>2, UpToInduction
    <3>4. QED  BY <1>1, <3>3
  <2> DEFINE f == [m \in 0 .. n |-> IF m = 0 THEN <<>> ELSE flatten[m]]
  <2>10. f \in [0 .. n -> Seq(S)]
    <3>1. \A m \in 0 .. n : m # 0 => m \in 1 .. n  BY <1>1
    <3>2. QED  BY <2>9, <3>1
  <2>11. f[0] = <<>> /\ FlattenSeq(seqs) = f[n]  BY <1>1, <1>3, <2>7
  <2>12. ASSUME NEW m \in 1 .. n  PROVE f[m] = f[m - 1] \o seqs[m]
    <3>1. CASE m = 1
      <4>1. f[m] = seqs[m] /\ f[m - 1] = <<>> /\ seqs[m] \in Seq(S)  BY <1>1, <2>8, <3>1
      <4>2. QED  BY <4>1, ConcatEmptySeq
    <3>2. CASE m # 1
      <4>1. m - 1 \in 0 .. n /\ m - 1 # 0 /\ m \in 0 .. n /\ m # 0  BY <1>1, <3>2
      <4>2. f[m] = flatten[m] /\ f[m - 1] = flatten[m - 1]  BY <4>1
      <4>3. flatten[m] = flatten[m - 1] \o seqs[m]  BY <2>8, <3>2
      <4>4. QED  BY <4>2, <4>3
    <3>3. QED  BY <3>1, <3>2
  <2> HIDE DEF f
  <2>13. QED  BY <2>10, <2>11, <2>12 DEF Flattens
<1>4. QED  BY <1>2, <1>3

LEMMA FlattenStepType ==
    ASSUME NEW S, NEW seqs \in Seq(Seq(S)), NEW f, Flattens(f, seqs, S),
           NEW m \in 1 .. Len(seqs)
    PROVE  /\ m - 1 \in 0 .. Len(seqs)
           /\ f[m - 1] \in Seq(S) /\ seqs[m] \in Seq(S) /\ f[m] = f[m - 1] \o seqs[m]
           /\ Len(f[m]) = Len(f[m - 1]) + Len(seqs[m])
           /\ Len(f[m - 1]) \in Nat /\ Len(seqs[m]) \in Nat
<1>1. m - 1 \in 0 .. Len(seqs) /\ seqs[m] \in Seq(S)  BY LenProperties, ElementOfSeq
<1>2. f[m - 1] \in Seq(S) /\ f[m] = f[m - 1] \o seqs[m]  BY <1>1 DEF Flattens
<1>3. Len(f[m - 1] \o seqs[m]) = Len(f[m - 1]) + Len(seqs[m])  BY <1>1, <1>2, ConcatProperties
<1>4. QED  BY <1>1, <1>2, <1>3, LenProperties

LEMMA FlattenStepCount ==
    ASSUME NEW S, NEW seqs \in Seq(Seq(S)), NEW f, Flattens(f, seqs, S),
           NEW m \in 1 .. Len(seqs), NEW T
    PROVE  /\ CountIn(f[m], T) = CountIn(f[m - 1], T) + CountIn(seqs[m], T)
           /\ CountIn(f[m - 1], T) \in Nat /\ CountIn(seqs[m], T) \in Nat
<1>1. f[m - 1] \in Seq(S) /\ seqs[m] \in Seq(S) /\ f[m] = f[m - 1] \o seqs[m]
      BY FlattenStepType
<1>2. CountIn(f[m - 1] \o seqs[m], T) = CountIn(f[m - 1], T) + CountIn(seqs[m], T)
      BY <1>1, CountConcat
<1>3. CountIn(f[m - 1], T) \in Nat /\ CountIn(seqs[m], T) \in Nat  BY <1>1, CountType
<1>4. QED  BY <1>1, <1>2, <1>3

LEMMA FlattenType ==
    ASSUME NEW S, NEW seqs \in Seq(Seq(S))
    PROVE  /\ FlattenSeq(seqs) \in Seq(S)
           /\ seqs # <<>> /\ (\A m \in 1 .. Len(seqs) : seqs[m] # <<>>) => FlattenSeq(seqs) # <<>>
<1> DEFINE n == Len(seqs)
<1>1. n \in Nat /\ n \in 0 .. n /\ (seqs # <<>> => n \in 1 .. n)  BY LenProperties, EmptySeq
<1>2. PICK f : Flattens(f, seqs, S)  BY FlattenSeqSteps
<1>3. FlattenSeq(seqs) = f[n] /\ f[n] \in Seq(S)  BY <1>1, <1>2 DEF Flattens
<1> HIDE DEF n
<1>4. ASSUME seqs # <<>>, \A m \in 1 .. n : seqs[m] # <<>>  PROVE f[n] # <<>>
  <2>1. n \in 1 .. n /\ seqs[n] # <<>>  BY <1>1, <1>4
  <2>2. n \in 1 .. Len(seqs)  BY <2>1 DEF n
  <2>3. f[n - 1] \in Seq(S) /\ seqs[n] \in Seq(S) /\ f[n] = f[n - 1] \o seqs[n]
        BY <1>2, <2>2, FlattenStepType
  <2>4. QED  BY <2>1, <2>3, ConcatEqualIffEmpty
<1>5. QED  BY <1>3, <1>4 DEF n

(* Counts that hold of every part hold of the whole.                       *)
LEMMA FlattenOneEach ==
    ASSUME NEW S, NEW ws \in Seq(Seq(S)), NEW R, NEW es \in Seq(Seq(R)), Len(ws) = Len(es), NEW T,
           \A i \in 1 .. Len(ws) : CountIn(ws[i], T) + Len(es[i]) = 1
    PROVE  CountIn(FlattenSeq(ws), T) + Len(FlattenSeq(es)) = Len(ws)
<1>1. PICK f : Flattens(f, ws, S)  BY FlattenSeqSteps
<1>2. PICK g : Flattens(g, es, R)  BY FlattenSeqSteps
<1>3. Len(ws) \in Nat  BY LenProperties
<1> DEFINE n == Len(ws)
           G == {m \in 0 .. n : CountIn(f[m], T) + Len(g[m]) = m}
<1>4. 0 \in G
  <2>1. f[0] = <<>> /\ g[0] = <<>>  BY <1>1, <1>2 DEF Flattens
  <2>2. CountIn(f[0], T) = 0 /\ Len(g[0]) = 0  BY <2>1, CountEmpty, EmptySeq
  <2>3. QED  BY <1>3, <2>2
<1>5. ASSUME NEW m \in 1 .. n, m - 1 \in G  PROVE m \in G
  <2>1. CountIn(f[m - 1], T) + Len(g[m - 1]) = m - 1 /\ CountIn(ws[m], T) + Len(es[m]) = 1
        BY <1>5
  <2>2. /\ CountIn(f[m], T) = CountIn(f[m - 1], T) + CountIn(ws[m], T)
        /\ CountIn(f[m - 1], T) \in Nat /\ CountIn(ws[m], T) \in Nat
        BY <1>1, FlattenStepCount
  <2> HIDE DEF G
  <2>3. /\ Len(g[m]) = Len(g[m - 1]) + Len(es[m]) /\ Len(g[m - 1]) \in Nat /\ Len(es[m]) \in Nat
    <3>1. m \in 1 .. Len(es)  OBVIOUS
    <3>2. /\ m - 1 \in 0 .. Len(es)
          /\ g[m - 1] \in Seq(R) /\ es[m] \in Seq(R) /\ g[m] = g[m - 1] \o es[m]
          /\ Len(g[m]) = Len(g[m - 1]) + Len(es[m])
          /\ Len(g[m - 1]) \in Nat /\ Len(es[m]) \in Nat
          BY <1>2, <3>1, FlattenStepType
    <3>3. QED  BY <3>2
  <2> USE DEF G
  <2>4. m \in 0 .. n /\ m \in Nat  BY <1>3
  <2>5. ASSUME NEW i \in Nat, NEW j \in Nat, NEW k \in Nat, NEW l \in Nat, NEW x, NEW y,
               i + j = m - 1, k + l = 1, x = i + k, y = j + l
        PROVE  x + y = m
        BY <2>4, <2>5
  <2>6. CountIn(f[m], T) + Len(g[m]) = m
    <3> DEFINE i == CountIn(f[m - 1], T)
               j == Len(g[m - 1])
               k == CountIn(ws[m], T)
               l == Len(es[m])
               x == CountIn(f[m], T)
               y == Len(g[m])
    <3>1. i \in Nat /\ j \in Nat /\ k \in Nat /\ l \in Nat  BY <2>2, <2>3
    <3>2. i + j = m - 1 /\ k + l = 1 /\ x = i + k /\ y = j + l  BY <2>1, <2>2, <2>3
    <3> HIDE DEF i, j, k, l, x, y
    <3>3. x + y = m  BY <2>5, <3>1, <3>2
    <3>4. QED  BY <3>3 DEF x, y
  <2>7. QED  BY <2>4, <2>6
<1>6. n \in G
  <2> HIDE DEF G
  <2>1. \A m \in 0 .. n : m \in G  BY <1>3, <1>4, <1>5, UpToInduction
  <2>2. QED  BY <1>3, <2>1
<1>7. FlattenSeq(ws) = f[n] /\ FlattenSeq(es) = g[n]  BY <1>1, <1>2 DEF Flattens
<1>8. QED  BY <1>6, <1>7

LEMMA FlattenFewer ==
    ASSUME NEW S, NEW ws \in Seq(Seq(S)), NEW R, NEW es \in Seq(Seq(R)), Len(ws) = Len(es),
           NEW T, NEW U, \A i \in 1 .. Len(ws) : CountIn(es[i], U) <= CountIn(ws[i], T)
    PROVE  CountIn(FlattenSeq(es), U) <= CountIn(FlattenSeq(ws), T)
<1>1. PICK f : Flattens(f, ws, S)  BY FlattenSeqSteps
<1>2. PICK g : Flattens(g, es, R)  BY FlattenSeqSteps
<1>3. Len(ws) \in Nat  BY LenProperties
<1> DEFINE n == Len(ws)
           G == {m \in 0 .. n : CountIn(g[m], U) <= CountIn(f[m], T)}
<1>4. 0 \in G
  <2>1. f[0] = <<>> /\ g[0] = <<>>  BY <1>1, <1>2 DEF Flattens
  <2>2. CountIn(f[0], T) = 0 /\ CountIn(g[0], U) = 0  BY <2>1, CountEmpty
  <2>3. QED  BY <1>3, <2>2
<1>5. ASSUME NEW m \in 1 .. n, m - 1 \in G  PROVE m \in G
  <2>1. CountIn(g[m - 1], U) <= CountIn(f[m - 1], T) /\ CountIn(es[m], U) <= CountIn(ws[m], T)
        BY <1>5
  <2>2. /\ CountIn(f[m], T) = CountIn(f[m - 1], T) + CountIn(ws[m], T)
        /\ CountIn(f[m - 1], T) \in Nat /\ CountIn(ws[m], T) \in Nat
        BY <1>1, FlattenStepCount
  <2>3. /\ CountIn(g[m], U) = CountIn(g[m - 1], U) + CountIn(es[m], U)
        /\ CountIn(g[m - 1], U) \in Nat /\ CountIn(es[m], U) \in Nat
        BY <1>2, FlattenStepCount
  <2>4. QED  BY <1>3, <2>1, <2>2, <2>3
<1>6. n \in G
  <2> HIDE DEF G
  <2>1. \A m \in 0 .. n : m \in G  BY <1>3, <1>4, <1>5, UpToInduction
  <2>2. QED  BY <1>3, <2>1
<1>7. FlattenSeq(ws) = f[n] /\ FlattenSeq(es) = g[n]  BY <1>1, <1>2 DEF Flattens
<1>8. QED  BY <1>6, <1>7

(* Flattening part by part, and when all parts but one are empty.          *)
LEMMA FlattenConcat ==
    ASSUME NEW S, NEW a \in Seq(Seq(S)), NEW b \in Seq(Seq(S))
    PROVE  FlattenSeq(a \o b) = FlattenSeq(a) \o FlattenSeq(b)
<1> DEFINE c == a \o b
           n == Len(a)
           k == Len(b)
<1>1. c \in Seq(Seq(S)) /\ Len(c) = n + k /\ n \in Nat /\ k \in Nat
      BY ConcatProperties, LenProperties
<1>2. /\ \A i \in 1 .. n : c[i] = a[i]
      /\ \A i \in 1 .. k : c[n + i] = b[i]
  <2>1. \A i \in 1 .. n + k : c[i] = IF i <= n THEN a[i] ELSE b[i - n]  BY ConcatProperties
  <2> HIDE DEF c, n, k
  <2>2. QED  BY <1>1, <2>1
<1> HIDE DEF c
<1>3. PICK f : Flattens(f, c, S)  BY <1>1, FlattenSeqSteps
<1>4. PICK g : Flattens(g, a, S)  BY FlattenSeqSteps
<1>5. PICK h : Flattens(h, b, S)  BY FlattenSeqSteps
<1>6. /\ f[0] = <<>> /\ g[0] = <<>> /\ h[0] = <<>>
      /\ FlattenSeq(c) = f[n + k] /\ FlattenSeq(a) = g[n] /\ FlattenSeq(b) = h[k]
      /\ \A m \in 0 .. n : g[m] \in Seq(S)
      /\ \A m \in 0 .. k : h[m] \in Seq(S)
      /\ \A m \in 1 .. n + k : f[m] = f[m - 1] \o c[m]
      /\ \A m \in 1 .. n : g[m] = g[m - 1] \o a[m]
      /\ \A m \in 1 .. k : h[m] = h[m - 1] \o b[m]
      BY <1>1, <1>3, <1>4, <1>5 DEF Flattens
<1>7. \A i \in 1 .. k : b[i] \in Seq(S)  BY ElementOfSeq
<1> HIDE DEF n, k
<1> DEFINE G == {m \in 0 .. n : f[m] = g[m]}
           H == {m \in 0 .. k : f[n + m] = g[n] \o h[m]}
<1>8. \A m \in 0 .. n : m \in G
  <2>1. 0 \in G  BY <1>1, <1>6
  <2>2. ASSUME NEW m \in 1 .. n, m - 1 \in G  PROVE m \in G
    <3>1. m \in 0 .. n /\ m \in 1 .. n + k  BY <1>1
    <3>2. f[m] = f[m - 1] \o c[m] /\ g[m] = g[m - 1] \o a[m] /\ c[m] = a[m]
          BY <1>2, <1>6, <3>1
    <3>3. QED  BY <2>2, <3>1, <3>2
  <2> HIDE DEF G
  <2>3. QED  BY <1>1, <2>1, <2>2, UpToInduction
<1>9. f[n] = g[n] /\ g[n] \in Seq(S)
  <2>1. n \in 0 .. n  BY <1>1
  <2>2. QED  BY <1>6, <1>8, <2>1
<1>10. \A m \in 0 .. k : m \in H
  <2>1. 0 \in H
    <3>1. n + 0 = n /\ 0 \in 0 .. k  BY <1>1
    <3>2. g[n] \o <<>> = g[n]  BY <1>9, ConcatEmptySeq
    <3>3. QED  BY <1>6, <1>9, <3>1, <3>2
  <2>2. ASSUME NEW m \in 1 .. k, m - 1 \in H  PROVE m \in H
    <3>1. m - 1 \in 0 .. k /\ n + m \in 1 .. n + k /\ n + m - 1 = n + (m - 1) /\ m \in 0 .. k
          BY <1>1
    <3>2. f[n + m] = f[n + (m - 1)] \o b[m]
      <4> DEFINE j == n + m
      <4>1. j \in 1 .. n + k /\ j - 1 = n + (m - 1)  BY <1>1, <3>1
      <4> HIDE DEF G, H
      <4>2. c[j] = b[m]  BY <1>2
      <4> HIDE DEF j
      <4>3. f[j] = f[j - 1] \o c[j]  BY <1>6, <4>1
      <4>4. QED  BY <4>1, <4>2, <4>3 DEF j
    <3>3. f[n + (m - 1)] = g[n] \o h[m - 1]  BY <2>2
    <3>4. h[m - 1] \in Seq(S) /\ b[m] \in Seq(S) /\ h[m] = h[m - 1] \o b[m]
          BY <1>6, <1>7, <3>1
    <3>5. (g[n] \o h[m - 1]) \o b[m] = g[n] \o (h[m - 1] \o b[m])
      <4> DEFINE x == g[n]
                 y == h[m - 1]
                 z == b[m]
      <4>1. x \in Seq(S) /\ y \in Seq(S) /\ z \in Seq(S)  BY <1>9, <3>4
      <4> HIDE DEF x, y, z
      <4>2. (x \o y) \o z = x \o (y \o z)  BY <4>1, SMTT(30)
      <4>3. QED  BY <4>2 DEF x, y, z
    <3>6. QED  BY <3>1, <3>2, <3>3, <3>4, <3>5
  <2> HIDE DEF H
  <2>3. QED  BY <1>1, <2>1, <2>2, UpToInduction
<1>11. k \in 0 .. k  BY <1>1
<1>12. QED  BY <1>6, <1>10, <1>11 DEF c

LEMMA FlattenOnly ==
    ASSUME NEW S, NEW seqs \in Seq(Seq(S)), NEW k \in 0 .. Len(seqs),
           \A i \in 1 .. Len(seqs) : i # k => seqs[i] = <<>>
    PROVE  FlattenSeq(seqs) = IF k = 0 THEN <<>> ELSE seqs[k]
<1> DEFINE n == Len(seqs)
           part == IF k = 0 THEN <<>> ELSE seqs[k]
<1>1. PICK f : Flattens(f, seqs, S)  BY FlattenSeqSteps
<1>2. /\ n \in Nat /\ f[0] = <<>> /\ FlattenSeq(seqs) = f[n]
      /\ \A m \in 1 .. n : f[m] = f[m - 1] \o seqs[m]
      BY <1>1, LenProperties DEF Flattens
<1>3. k # 0 => k \in 1 .. n /\ seqs[k] \in Seq(S)
  <2>1. k # 0 => k \in 1 .. n  BY <1>2
  <2>2. QED  BY <2>1, ElementOfSeq
<1>4. part \in Seq(S)  BY <1>3, EmptySeq
<1> HIDE DEF n, part
<1> DEFINE G == {m \in 0 .. n : f[m] = IF m < k THEN <<>> ELSE part}
<1>5. 0 \in G
  <2>1. 0 \in 0 .. n /\ (~(0 < k) => k = 0)  BY <1>2 DEF n
  <2>2. k = 0 => part = <<>>  BY DEF part
  <2>3. QED  BY <1>2, <2>1, <2>2
<1>6. ASSUME NEW m \in 1 .. n, m - 1 \in G  PROVE m \in G
  <2>1. m \in 0 .. n /\ f[m] = f[m - 1] \o seqs[m]
    <3>1. m \in 0 .. n  BY <1>2
    <3>2. f[m] = f[m - 1] \o seqs[m]
      <4> HIDE DEF G
      <4>1. QED  BY <1>2
    <3>3. QED  BY <3>1, <3>2
  <2>2. CASE m = k
    <3>1. m - 1 < k /\ ~(m < k) /\ part = seqs[m]  BY <1>2, <2>2 DEF part
    <3>2. f[m - 1] = <<>>  BY <1>6, <3>1
    <3>3. <<>> \o part = part  BY <1>4, ConcatEmptySeq
    <3>4. QED  BY <2>1, <3>1, <3>2, <3>3
  <2>3. CASE m # k
    <3>1. seqs[m] = <<>>  BY <2>3 DEF n
    <3>2. m - 1 < k <=> m < k  BY <1>2, <2>3 DEF n
    <3>3. part \o <<>> = part /\ <<>> \o <<>> = <<>>  BY <1>4, EmptySeq, ConcatEmptySeq
    <3>4. QED  BY <1>6, <2>1, <3>1, <3>2, <3>3
  <2>4. QED  BY <2>2, <2>3
<1>7. n \in G
  <2> HIDE DEF G
  <2>1. \A m \in 0 .. n : m \in G  BY <1>2, <1>5, <1>6, UpToInduction
  <2>2. QED  BY <1>2, <2>1
<1>8. ~(n < k)  BY <1>2 DEF n
<1>9. QED  BY <1>2, <1>7, <1>8 DEF part
=============================================================================
