--------------------------- MODULE EpochLogProofs ---------------------------
(***************************************************************************)
(* Proofs about EpochLog, for the four loggers with and without            *)
(* RUNTIME_WRITE, any number of accesses, epochs and cycles.               *)
(***************************************************************************)
EXTENDS EpochLog, CountingFacts

-----------------------------------------------------------------------------
(* The sum of a sequence of integers, one after the other.                 *)

Sums(g, w) ==
    /\ g \in [0 .. Len(w) -> Int]
    /\ g[0] = 0
    /\ \A m \in 1 .. Len(w) : g[m] = g[m - 1] + w[m]
    /\ Total(w) = g[Len(w)]

LEMMA LargestUpTo ==
    ASSUME NEW m \in Nat, NEW s \in SUBSET (1 .. m), s # {}
    PROVE  Max(s) \in s /\ \A i \in s : i <= Max(s)
<1> DEFINE Above == {m - i : i \in s}
<1>1. Above \in SUBSET Nat /\ Above # {}
  <2>1. \A i \in s : m - i \in Nat
    <3>1. \A i \in s : i \in Int /\ 1 <= i /\ i <= m  OBVIOUS
    <3>2. QED  BY <3>1
  <2>2. Above # {}  OBVIOUS
  <2>3. QED  BY <2>1, <2>2
<1>2. PICK a \in Above : \A b \in Above : a <= b
  <2> HIDE DEF Above
  <2>1. QED  BY <1>1, LeastExists
<1>3. PICK i \in s : a = m - i  BY <1>2
<1>4. \A j \in s : i >= j
  <2> SUFFICES ASSUME NEW j \in s PROVE i >= j  OBVIOUS
  <2>1. i \in Int /\ j \in Int /\ m - i <= m - j  BY <1>2, <1>3
  <2>2. QED  BY <2>1
<1>5. Max(s) \in s /\ \A j \in s : Max(s) >= j  BY <1>3, <1>4 DEF Max
<1>6. QED  BY <1>5

LEMMA LargestOfSegment ==
    ASSUME NEW m \in Nat \ {0}
    PROVE  Max(1 .. m) = m
<1> DEFINE s == 1 .. m
<1>1. s \in SUBSET (1 .. m) /\ s # {} /\ m \in s /\ m \in Nat  OBVIOUS
<1> HIDE DEF s
<1>2. Max(s) \in s /\ \A i \in s : i <= Max(s)  BY <1>1, LargestUpTo
<1>3. m <= Max(s)  BY <1>1, <1>2
<1>4. Max(s) \in 1 .. m  BY <1>1, <1>2
<1>5. QED  BY <1>3, <1>4 DEF s

LEMMA TotalSteps ==
    ASSUME NEW w \in Seq(Int)
    PROVE  \E g : Sums(g, w)
<1> DEFINE n == Len(w)
           Step(h, s) == IF s = {} THEN 0 ELSE h[s \ {Max(s)}] + w[Max(s)]
           Solves(h, m) == \A s \in SUBSET (1 .. m) : h[s] = Step(h, s)
           G == {m \in 0 .. n : \E h \in [SUBSET (1 .. m) -> Int] : Solves(h, m)}
<1>1. n \in Nat /\ DOMAIN w = 1 .. n /\ \A i \in 1 .. n : w[i] \in Int
      BY LenProperties, ElementOfSeq
<1>2. 0 \in G
  <2> DEFINE h == [s \in SUBSET (1 .. 0) |-> 0]
  <2>1. \A s \in SUBSET (1 .. 0) : s = {}  OBVIOUS
  <2>2. h \in [SUBSET (1 .. 0) -> Int]  OBVIOUS
  <2>3. \A s \in SUBSET (1 .. 0) : h[s] = 0  OBVIOUS
  <2>4. 0 \in 0 .. n  BY <1>1
  <2> HIDE DEF h
  <2>5. Solves(h, 0)  BY <2>1, <2>3
  <2> HIDE DEF Solves
  <2>6. QED  BY <2>2, <2>4, <2>5
<1>3. ASSUME NEW m \in 1 .. n, m - 1 \in G  PROVE m \in G
  <2>1. PICK h \in [SUBSET (1 .. m - 1) -> Int] : Solves(h, m - 1)  BY <1>3
  <2> DEFINE k == [s \in SUBSET (1 .. m) |-> IF m \in s THEN h[s \ {m}] + w[m] ELSE h[s]]
  <2>2. m \in Nat /\ m - 1 \in Nat /\ w[m] \in Int  BY <1>1
  <2>3. \A s \in SUBSET (1 .. m) : s \ {m} \in SUBSET (1 .. m - 1)
    <3>1. \A i \in 1 .. m : i # m => i \in 1 .. m - 1  BY <2>2
    <3>2. QED  BY <3>1
  <2>4. \A s \in SUBSET (1 .. m) : m \notin s => s \in SUBSET (1 .. m - 1)
    <3>1. \A i \in 1 .. m : i # m => i \in 1 .. m - 1  BY <2>2
    <3>2. QED  BY <3>1
  <2>5. k \in [SUBSET (1 .. m) -> Int]
    <3>1. \A s \in SUBSET (1 .. m) : h[s \ {m}] \in Int /\ (m \notin s => h[s] \in Int)
          BY <2>1, <2>3, <2>4
    <3>2. QED  BY <2>2, <3>1
  <2>6. ASSUME NEW s \in SUBSET (1 .. m)  PROVE k[s] = Step(k, s)
    <3>1. k[s] = IF m \in s THEN h[s \ {m}] + w[m] ELSE h[s]  OBVIOUS
    <3>2. CASE m \in s
      <4>1. Max(s) \in s /\ \A i \in s : i <= Max(s)  BY <2>2, <3>2, LargestUpTo
      <4>2. Max(s) = m
        <5>1. Max(s) \in 1 .. m /\ m <= Max(s)  BY <3>2, <4>1
        <5>2. QED  BY <2>2, <5>1
      <4>3. s \ {m} \in SUBSET (1 .. m) /\ m \notin s \ {m}  OBVIOUS
      <4>4. k[s \ {m}] = h[s \ {m}]  BY <4>3
      <4> HIDE DEF k
      <4>5. QED  BY <3>1, <3>2, <4>2, <4>4
    <3>3. CASE m \notin s /\ s # {}
      <4>1. s \in SUBSET (1 .. m - 1)  BY <2>4, <3>3
      <4>2. Max(s) \in s /\ s \ {Max(s)} \in SUBSET (1 .. m)
            /\ m \notin s \ {Max(s)}
            BY <2>2, <3>3, LargestUpTo
      <4>3. k[s \ {Max(s)}] = h[s \ {Max(s)}]  BY <4>2
      <4>4. h[s] = h[s \ {Max(s)}] + w[Max(s)]  BY <2>1, <3>3, <4>1
      <4> HIDE DEF k
      <4>5. QED  BY <3>1, <3>3, <4>3, <4>4
    <3>4. CASE s = {}
      <4>1. s \in SUBSET (1 .. m - 1)  BY <3>4
      <4>2. h[s] = 0  BY <2>1, <3>4, <4>1
      <4> HIDE DEF k
      <4>3. QED  BY <3>1, <3>4, <4>2
    <3>5. QED  BY <3>2, <3>3, <3>4
  <2> HIDE DEF k, Step
  <2>7. Solves(k, m)  BY <2>6
  <2> HIDE DEF Solves
  <2>8. m \in 0 .. n  BY <1>1
  <2>9. QED  BY <2>5, <2>7, <2>8
<1> HIDE DEF G
<1>4. n \in G
  <2>1. \A m \in 0 .. n : m \in G  BY <1>1, <1>2, <1>3, UpToInduction
  <2>2. QED  BY <1>1, <2>1
<1> USE DEF G
<1>5. PICK h \in [SUBSET (1 .. n) -> Int] : Solves(h, n)  BY <1>4
<1> HIDE DEF G
<1>6. h = [s \in SUBSET (1 .. n) |-> Step(h, s)]
  <2> HIDE DEF Step
  <2>1. QED  BY <1>5
<1> DEFINE iter == CHOOSE k : k = [s \in SUBSET (1 .. n) |-> Step(k, s)]
<1>7. iter = [s \in SUBSET (1 .. n) |-> Step(iter, s)]
  <2> HIDE DEF Step
  <2>1. QED  BY <1>6
<1>8. Total(w) = iter[1 .. n]
      BY <1>1 DEF Total, FoldLeft, MapThenFoldSet
<1> DEFINE F == [s \in SUBSET (1 .. n) |-> Step(iter, s)]
<1>9. \A s \in SUBSET (1 .. n) : iter[s] = Step(iter, s)
  <2>1. \A s \in SUBSET (1 .. n) : F[s] = Step(iter, s)
    <3> HIDE DEF Step, iter
    <3>1. QED  OBVIOUS
  <2>2. iter = F  BY <1>7
  <2> HIDE DEF iter, F
  <2>3. QED  BY <2>1, <2>2
<1> HIDE DEF iter, F
<1> DEFINE Typed == {m \in 0 .. n : iter[1 .. m] \in Int}
<1>10. iter[1 .. 0] = 0
  <2>1. 1 .. 0 = {} /\ {} \in SUBSET (1 .. n)  OBVIOUS
  <2>2. iter[{}] = 0  BY <1>9, <2>1
  <2>3. QED  BY <2>1, <2>2
<1>11. ASSUME NEW m \in 1 .. n  PROVE iter[1 .. m] = iter[1 .. m - 1] + w[m]
  <2>1. m \in Nat \ {0} /\ 1 .. m \in SUBSET (1 .. n) /\ 1 .. m # {}  BY <1>1
  <2>2. Max(1 .. m) = m  BY <2>1, LargestOfSegment
  <2>3. (1 .. m) \ {m} = 1 .. m - 1  BY <2>1
  <2>4. QED  BY <1>9, <2>1, <2>2, <2>3
<1>12. \A m \in 0 .. n : iter[1 .. m] \in Int
  <2>1. 0 \in Typed  BY <1>1, <1>10
  <2>2. ASSUME NEW m \in 1 .. n, m - 1 \in Typed  PROVE m \in Typed
    <3>1. w[m] \in Int /\ iter[1 .. m - 1] \in Int /\ m \in 0 .. n  BY <1>1, <2>2
    <3>2. QED  BY <1>11, <3>1
  <2>3. \A m \in 0 .. n : m \in Typed
    <3> HIDE DEF Typed
    <3>1. QED  BY <1>1, <2>1, <2>2, UpToInduction
  <2>4. QED  BY <2>3
<1> DEFINE g == [m \in 0 .. n |-> iter[1 .. m]]
<1>13. g \in [0 .. n -> Int]  BY <1>12
<1>14. g[0] = 0 /\ g[n] = Total(w)  BY <1>1, <1>8, <1>10
<1>15. \A m \in 1 .. n : g[m] = g[m - 1] + w[m]
  <2> SUFFICES ASSUME NEW m \in 1 .. n PROVE g[m] = g[m - 1] + w[m]  OBVIOUS
  <2>1. m \in 0 .. n /\ m - 1 \in 0 .. n  BY <1>1
  <2>2. QED  BY <1>11, <2>1
<1> HIDE DEF g
<1>16. QED  BY <1>13, <1>14, <1>15 DEF Sums

LEMMA TotalType ==
    ASSUME NEW w \in Seq(Int)
    PROVE  Total(w) \in Int /\ (w = <<>> => Total(w) = 0)
<1>1. PICK g : Sums(g, w)  BY TotalSteps
<1>2. Len(w) \in Nat /\ (w = <<>> => Len(w) = 0)  BY LenProperties, EmptySeq
<1>3. QED  BY <1>1, <1>2 DEF Sums

LEMMA TotalAppend ==
    ASSUME NEW w \in Seq(Int), NEW x \in Int
    PROVE  Total(Append(w, x)) = Total(w) + x
<1> DEFINE v == Append(w, x)
           n == Len(w)
<1>1. /\ v \in Seq(Int) /\ n \in Nat /\ Len(v) = n + 1
      /\ v[n + 1] = x /\ \A i \in 1 .. n : v[i] = w[i]
      BY LenProperties, AppendProperties
<1> HIDE DEF v
<1>2. PICK g : Sums(g, w)  BY TotalSteps
<1>3. PICK h : Sums(h, v)  BY <1>1, TotalSteps
<1> HIDE DEF n
<1>4. /\ g \in [0 .. n -> Int] /\ g[0] = 0 /\ Total(w) = g[n]
      /\ \A m \in 1 .. n : g[m] = g[m - 1] + w[m]
      BY <1>2 DEF Sums, n
<1>5. /\ h \in [0 .. n + 1 -> Int] /\ h[0] = 0 /\ Total(v) = h[n + 1]
      /\ \A m \in 1 .. n + 1 : h[m] = h[m - 1] + v[m]
      BY <1>1, <1>3 DEF Sums
<1> DEFINE G == {m \in 0 .. n : g[m] = h[m]}
<1>6. 0 \in G  BY <1>1, <1>4, <1>5
<1>7. ASSUME NEW m \in 1 .. n, m - 1 \in G  PROVE m \in G
  <2>1. m \in 0 .. n /\ m \in 1 .. n + 1 /\ g[m - 1] = h[m - 1] /\ w[m] = v[m]
        BY <1>1, <1>7
  <2>2. g[m] = g[m - 1] + w[m] /\ h[m] = h[m - 1] + v[m]  BY <1>4, <1>5, <2>1
  <2>3. QED  BY <2>1, <2>2
<1>8. g[n] = h[n]
  <2> HIDE DEF G
  <2>1. \A m \in 0 .. n : m \in G  BY <1>1, <1>6, <1>7, UpToInduction
  <2> USE DEF G
  <2>2. QED  BY <1>1, <2>1
<1>9. n + 1 \in 1 .. n + 1 /\ (n + 1) - 1 = n  BY <1>1
<1>10. h[n + 1] = h[n] + x  BY <1>1, <1>5, <1>9
<1>11. QED  BY <1>4, <1>5, <1>8, <1>10 DEF v

LEMMA TotalCons ==
    ASSUME NEW w \in Seq(Int), NEW x \in Int
    PROVE  Total(<<x>> \o w) = Total(w) + x
<1> DEFINE v == <<x>> \o w
           n == Len(w)
<1>1. /\ v \in Seq(Int) /\ n \in Nat /\ Len(v) = n + 1
      /\ v[1] = x /\ \A i \in 1 .. n : v[i + 1] = w[i] /\ w[i] \in Int
  <2>1. <<x>> \in Seq(Int) /\ Len(<<x>>) = 1 /\ <<x>>[1] = x  BY SingletonSeq
  <2>2. n \in Nat /\ \A i \in 1 .. n : w[i] \in Int  BY LenProperties, ElementOfSeq
  <2>3. /\ v \in Seq(Int) /\ Len(v) = 1 + n
        /\ \A i \in 1 .. 1 + n : v[i] = IF i <= 1 THEN <<x>>[i] ELSE w[i - 1]
        BY <2>1, ConcatProperties
  <2>4. v[1] = x  BY <2>1, <2>2, <2>3
  <2> HIDE DEF v
  <2>5. ASSUME NEW i \in 1 .. n  PROVE v[i + 1] = w[i]
    <3>1. i + 1 \in 1 .. 1 + n /\ ~(i + 1 <= 1) /\ (i + 1) - 1 = i  BY <2>2
    <3>2. QED  BY <2>3, <3>1
  <2>6. QED  BY <2>2, <2>3, <2>4, <2>5
<1> HIDE DEF v
<1>2. PICK g : Sums(g, w)  BY TotalSteps
<1>3. PICK h : Sums(h, v)  BY <1>1, TotalSteps
<1> HIDE DEF n
<1>4. /\ g \in [0 .. n -> Int] /\ g[0] = 0 /\ Total(w) = g[n]
      /\ \A m \in 1 .. n : g[m] = g[m - 1] + w[m]
      BY <1>2 DEF Sums, n
<1>5. /\ h \in [0 .. n + 1 -> Int] /\ h[0] = 0 /\ Total(v) = h[n + 1]
      /\ \A m \in 1 .. n + 1 : h[m] = h[m - 1] + v[m]
      BY <1>1, <1>3 DEF Sums
<1> DEFINE G == {m \in 0 .. n : h[m + 1] = g[m] + x}
<1>6. 0 \in G
  <2>1. 1 \in 1 .. n + 1 /\ 0 \in 0 .. n  BY <1>1
  <2>2. h[1] = h[1 - 1] + v[1]  BY <1>5, <2>1
  <2>3. h[0 + 1] = g[0] + x  BY <1>1, <1>4, <1>5, <2>2
  <2>4. QED  BY <2>1, <2>3
<1>7. ASSUME NEW m \in 1 .. n, m - 1 \in G  PROVE m \in G
  <2>1. /\ m \in 0 .. n /\ m - 1 \in 0 .. n /\ m + 1 \in 1 .. n + 1
        /\ (m - 1) + 1 = m /\ (m + 1) - 1 = m
        BY <1>1
  <2>2. h[m] = g[m - 1] + x  BY <1>7, <2>1
  <2>3. h[m + 1] = h[m] + v[m + 1]  BY <1>5, <2>1
  <2>4. g[m] = g[m - 1] + w[m] /\ v[m + 1] = w[m] /\ w[m] \in Int /\ g[m - 1] \in Int
        BY <1>1, <1>4, <2>1
  <2>5. h[m + 1] = g[m] + x  BY <2>2, <2>3, <2>4
  <2>6. QED  BY <2>1, <2>5
<1>8. n \in G
  <2> HIDE DEF G
  <2>1. \A m \in 0 .. n : m \in G  BY <1>1, <1>6, <1>7, UpToInduction
  <2>2. QED  BY <1>1, <2>1
<1>9. QED  BY <1>4, <1>5, <1>8 DEF v

-----------------------------------------------------------------------------
(* The cycles of a sequence of accesses until time t.                      *)

Cells(s, t) == UNION {{i} \X (s[i].start .. t - 1) : i \in DOMAIN s}
StartBy(s, t) == \A i \in 1 .. Len(s) : s[i].start \in 0 .. t

LEMMA IntervalSize ==
    ASSUME NEW t \in Nat, NEW b \in 0 .. t, NEW i
    PROVE  /\ IsFiniteSet({i} \X (b .. t - 1))
           /\ Cardinality({i} \X (b .. t - 1)) = t - b
<1>1. b \in Int /\ t - 1 \in Int /\ b <= t  OBVIOUS
<1>2. /\ IsFiniteSet(b .. t - 1)
      /\ Cardinality(b .. t - 1) = IF b > t - 1 THEN 0 ELSE (t - 1) - b + 1
      BY <1>1, FS_Interval
<1>3. IsFiniteSet({i}) /\ Cardinality({i}) = 1  BY FS_Singleton
<1> DEFINE I == b .. t - 1
<1> HIDE DEF I
<1>4. /\ IsFiniteSet({i} \X I)
      /\ Cardinality({i} \X I) = Cardinality({i}) * Cardinality(I)
      BY <1>2, <1>3, FS_Product DEF I
<1>5. Cardinality(I) = t - b  BY <1>1, <1>2 DEF I
<1>6. QED  BY <1>1, <1>3, <1>4, <1>5 DEF I

LEMMA CellsType ==
    ASSUME NEW R, NEW s \in Seq(R), NEW t \in Nat, StartBy(s, t)
    PROVE  IsFiniteSet(Cells(s, t)) /\ Cardinality(Cells(s, t)) \in Nat
<1>1. DOMAIN s = 1 .. Len(s) /\ Len(s) \in Nat  BY LenProperties
<1> DEFINE All == (1 .. Len(s)) \X (0 .. t - 1)
<1>2. IsFiniteSet(1 .. Len(s)) /\ IsFiniteSet(0 .. t - 1)  BY <1>1, FS_Interval
<1>3. IsFiniteSet(All)  BY <1>2, FS_Product
<1>4. ASSUME NEW i \in 1 .. Len(s)
      PROVE  {i} \X (s[i].start .. t - 1) \subseteq All
  <2>1. s[i].start \in 0 .. t  BY DEF StartBy
  <2>2. s[i].start .. t - 1 \subseteq 0 .. t - 1  BY <2>1
  <2>3. QED  BY <2>2
<1>5. Cells(s, t) \subseteq All  BY <1>1, <1>4 DEF Cells
<1>6. QED  BY <1>3, <1>5, FS_Subset, FS_CardinalityType

LEMMA CellsAppend ==
    ASSUME NEW R, NEW s \in Seq(R), NEW t \in Nat, StartBy(s, t),
           NEW x \in R, x.start \in 0 .. t
    PROVE  /\ Cardinality(Cells(Append(s, x), t)) = Cardinality(Cells(s, t)) + (t - x.start)
           /\ StartBy(Append(s, x), t)
<1> DEFINE v == Append(s, x)
           n == Len(s)
           new == {n + 1} \X (x.start .. t - 1)
<1>1. /\ v \in Seq(R) /\ n \in Nat /\ Len(v) = n + 1
      /\ v[n + 1] = x /\ \A i \in 1 .. n : v[i] = s[i]
      /\ DOMAIN v = 1 .. n + 1 /\ DOMAIN s = 1 .. n
      BY LenProperties, AppendProperties
<1> HIDE DEF v
<1>2. 1 .. n + 1 = 1 .. n \cup {n + 1}  BY <1>1
<1>3. Cells(v, t) = Cells(s, t) \cup new
  <2> HIDE DEF n
  <2>1. QED  BY <1>1, <1>2 DEF Cells
<1>4. Cells(s, t) \cap new = {}
  <2>1. n + 1 \notin 1 .. n  BY <1>1
  <2> HIDE DEF n
  <2>2. \A p \in Cells(s, t) : p[1] \in 1 .. n  BY <1>1 DEF Cells
  <2>3. \A p \in new : p[1] = n + 1  OBVIOUS
  <2>4. QED  BY <2>1, <2>2, <2>3
<1>5. IsFiniteSet(new) /\ Cardinality(new) = t - x.start  BY IntervalSize
<1>6. IsFiniteSet(Cells(s, t))  BY CellsType
<1>7. Cardinality(Cells(v, t)) = Cardinality(Cells(s, t)) + Cardinality(new)
  <2> HIDE DEF new
  <2>1. QED  BY <1>3, <1>4, <1>5, <1>6, DisjointUnion
<1>8. StartBy(v, t)
  <2>1. \A i \in 1 .. n + 1 : i \in 1 .. n \/ i = n + 1  BY <1>2
  <2>2. QED  BY <1>1, <2>1 DEF StartBy
<1>9. QED  BY <1>5, <1>7, <1>8 DEF v

LEMMA CellsRemoveAt ==
    ASSUME NEW R, NEW s \in Seq(R), NEW t \in Nat, StartBy(s, t), NEW i \in 1 .. Len(s)
    PROVE  /\ Cardinality(Cells(RemoveAt(s, i), t)) + (t - s[i].start) = Cardinality(Cells(s, t))
           /\ StartBy(RemoveAt(s, i), t)
<1> DEFINE v == RemoveAt(s, i)
           n == Len(s)
           Index(j) == IF j < i THEN j ELSE j + 1
           gone == {i} \X (s[i].start .. t - 1)
           Rest == UNION {{j} \X (s[j].start .. t - 1) : j \in (1 .. n) \ {i}}
<1>1. /\ v \in Seq(R) /\ Len(v) = n - 1 /\ n \in Nat /\ i \in 1 .. n
      /\ \A j \in 1 .. n - 1 : v[j] = s[Index(j)]
      /\ DOMAIN v = 1 .. n - 1 /\ DOMAIN s = 1 .. n
  <2>1. /\ v \in Seq(R) /\ Len(v) = n - 1
        /\ \A j \in 1 .. n - 1 : v[j] = IF j < i THEN s[j] ELSE s[j + 1]
        BY RemoveAtProperties
  <2> HIDE DEF v
  <2>2. QED  BY <2>1, LenProperties
<1> HIDE DEF v, n
<1>2. \A j \in 1 .. n - 1 : Index(j) \in (1 .. n) \ {i}  BY <1>1
<1>3. \A j, k \in 1 .. n - 1 : Index(j) = Index(k) => j = k  BY <1>1
<1>4. \A k \in (1 .. n) \ {i} : \E j \in 1 .. n - 1 : Index(j) = k
  <2> SUFFICES ASSUME NEW k \in (1 .. n) \ {i} PROVE \E j \in 1 .. n - 1 : Index(j) = k
      OBVIOUS
  <2>1. CASE k < i
    <3>1. k \in 1 .. n - 1 /\ Index(k) = k  BY <1>1, <2>1
    <3>2. QED  BY <3>1
  <2>2. CASE ~(k < i)
    <3>1. k - 1 \in 1 .. n - 1 /\ ~(k - 1 < i) /\ (k - 1) + 1 = k  BY <1>1, <2>2
    <3>2. Index(k - 1) = k  BY <3>1
    <3>3. QED  BY <3>1, <3>2
  <2>3. QED  BY <2>1, <2>2
<1>5. StartBy(v, t)
  <2>1. ASSUME NEW j \in 1 .. Len(v)  PROVE v[j].start \in 0 .. t
    <3>1. j \in 1 .. n - 1  BY <1>1
    <3>2. v[j] = s[Index(j)] /\ Index(j) \in 1 .. n  BY <1>1, <1>2, <3>1
    <3> HIDE DEF Index
    <3>3. QED  BY <3>2 DEF StartBy, n
  <2>2. QED  BY <2>1 DEF StartBy
<1> HIDE DEF Index
<1>6. Cells(s, t) = gone \cup Rest
  <2>1. 1 .. n = {i} \cup ((1 .. n) \ {i})  BY <1>1
  <2>2. QED  BY <1>1, <2>1 DEF Cells
<1>7. gone \cap Rest = {}
  <2>1. \A p \in gone : p[1] = i  OBVIOUS
  <2>2. \A p \in Rest : p[1] # i  OBVIOUS
  <2>3. QED  BY <2>1, <2>2
<1>8. IsFiniteSet(gone) /\ Cardinality(gone) = t - s[i].start
  <2>1. s[i].start \in 0 .. t  BY DEF StartBy
  <2>2. QED  BY <2>1, IntervalSize
<1>9. IsFiniteSet(Cells(s, t)) /\ IsFiniteSet(Cells(v, t))
      /\ Cardinality(Cells(v, t)) \in Nat
      BY <1>1, <1>5, CellsType
<1>10. IsFiniteSet(Rest)
  <2>1. Rest \subseteq Cells(s, t)  BY <1>6
  <2> HIDE DEF Rest
  <2>2. QED  BY <1>9, <2>1, FS_Subset
<1> DEFINE F == [p \in Cells(v, t) |-> <<Index(p[1]), p[2]>>]
<1>11. \A p \in Cells(v, t) : /\ p = <<p[1], p[2]>> /\ p[1] \in 1 .. n - 1
                              /\ p[2] \in v[p[1]].start .. t - 1
       BY <1>1 DEF Cells
<1>12. \A r \in Rest : /\ r = <<r[1], r[2]>> /\ r[1] \in (1 .. n) \ {i}
                       /\ r[2] \in s[r[1]].start .. t - 1
       OBVIOUS
<1>13. F \in [Cells(v, t) -> Rest]
  <2> SUFFICES ASSUME NEW p \in Cells(v, t) PROVE <<Index(p[1]), p[2]>> \in Rest  OBVIOUS
  <2>1. Index(p[1]) \in (1 .. n) \ {i} /\ p[2] \in s[Index(p[1])].start .. t - 1
        BY <1>1, <1>2, <1>11
  <2>2. QED  BY <2>1
<1>14. \A p, q \in Cells(v, t) : F[p] = F[q] => p = q
  <2> SUFFICES ASSUME NEW p \in Cells(v, t), NEW q \in Cells(v, t), F[p] = F[q]
               PROVE  p = q
      OBVIOUS
  <2>1. Index(p[1]) = Index(q[1]) /\ p[2] = q[2]  OBVIOUS
  <2>2. p[1] = q[1]  BY <1>3, <1>11, <2>1
  <2>3. QED  BY <1>11, <2>1, <2>2
<1>15. \A r \in Rest : \E p \in Cells(v, t) : F[p] = r
  <2> SUFFICES ASSUME NEW r \in Rest PROVE \E p \in Cells(v, t) : F[p] = r  OBVIOUS
  <2>1. PICK j \in 1 .. n - 1 : Index(j) = r[1]  BY <1>4, <1>12
  <2>2. r[2] \in v[j].start .. t - 1  BY <1>1, <1>12, <2>1
  <2>3. <<j, r[2]>> \in Cells(v, t)  BY <1>1, <2>2 DEF Cells
  <2>4. F[<<j, r[2]>>] = r  BY <1>12, <2>1, <2>3
  <2>5. QED  BY <2>3, <2>4
<1>16. Cardinality(Rest) = Cardinality(Cells(v, t))
  <2> HIDE DEF F, Rest
  <2>1. QED  BY <1>9, <1>13, <1>14, <1>15, Renamed
<1>17. Cardinality(Cells(s, t)) = Cardinality(gone) + Cardinality(Rest)
  <2> HIDE DEF gone, Rest
  <2>1. QED  BY <1>6, <1>7, <1>8, <1>10, DisjointUnion
<1>18. t - s[i].start \in Int
  <2>1. s[i].start \in 0 .. t  BY DEF StartBy
  <2>2. QED  BY <2>1
<1> HIDE DEF gone, Rest
<1>19. QED  BY <1>5, <1>8, <1>9, <1>16, <1>17, <1>18 DEF v

(* A cycle later.                                                          *)
LEMMA CellsTick ==
    ASSUME NEW R, NEW s \in Seq(R), NEW t \in Nat, StartBy(s, t)
    PROVE  /\ Cells(s, t + 1) = Cells(s, t) \cup ((1 .. Len(s)) \X {t})
           /\ Cells(s, t) \cap ((1 .. Len(s)) \X {t}) = {}
           /\ Cardinality(Cells(s, t + 1)) = Cardinality(Cells(s, t)) + Len(s)
           /\ StartBy(s, t + 1)
<1> DEFINE n == Len(s)
           new == (1 .. n) \X {t}
<1>1. n \in Nat /\ DOMAIN s = 1 .. n /\ (t + 1) - 1 = t  BY LenProperties
<1>2. \A i \in 1 .. n : s[i].start \in 0 .. t  BY DEF StartBy
<1> HIDE DEF n
<1>3. \A b \in 0 .. t : b .. t = b .. t - 1 \cup {t} /\ t \notin b .. t - 1  OBVIOUS
<1>4. Cells(s, t) = UNION {{i} \X (s[i].start .. t - 1) : i \in 1 .. n}  BY <1>1 DEF Cells
<1>5. Cells(s, t + 1) = UNION {{i} \X (s[i].start .. t) : i \in 1 .. n}  BY <1>1 DEF Cells
<1>6. Cells(s, t + 1) = Cells(s, t) \cup new
  <2>1. ASSUME NEW i \in 1 .. n
        PROVE  {i} \X (s[i].start .. t) = {i} \X (s[i].start .. t - 1) \cup {i} \X {t}
    <3>1. s[i].start .. t = s[i].start .. t - 1 \cup {t}  BY <1>2, <1>3
    <3>2. QED  BY <3>1, Zenon
  <2>2. new = UNION {{i} \X {t} : i \in 1 .. n}  OBVIOUS
  <2>3. QED  BY <1>4, <1>5, <2>1, <2>2
<1>7. Cells(s, t) \cap new = {}
  <2>1. \A p \in Cells(s, t) : p[2] # t
    <3>1. \A i \in 1 .. n : \A c \in s[i].start .. t - 1 : c # t  BY <1>2, <1>3
    <3>2. QED  BY <1>4, <3>1
  <2>2. \A p \in new : p[2] = t  OBVIOUS
  <2>3. QED  BY <2>1, <2>2
<1>8. IsFiniteSet(new) /\ Cardinality(new) = n
  <2>1. IsFiniteSet(1 .. n) /\ Cardinality(1 .. n) = n  BY <1>1, FS_Interval
  <2>2. IsFiniteSet({t}) /\ Cardinality({t}) = 1  BY FS_Singleton
  <2>3. IsFiniteSet(new) /\ Cardinality(new) = n * 1  BY <2>1, <2>2, FS_Product
  <2>4. QED  BY <1>1, <2>3
<1>9. IsFiniteSet(Cells(s, t))  BY CellsType
<1>10. Cardinality(Cells(s, t + 1)) = Cardinality(Cells(s, t)) + n
  <2> HIDE DEF new
  <2>1. QED  BY <1>6, <1>7, <1>8, <1>9, DisjointUnion
<1>11. StartBy(s, t + 1)
  <2>1. \A b \in 0 .. t : b \in 0 .. t + 1  OBVIOUS
  <2>2. QED  BY <1>2, <2>1 DEF StartBy, n
<1>12. QED  BY <1>6, <1>7, <1>10, <1>11 DEF n

-----------------------------------------------------------------------------
(* A family of sets of which one changes.                                  *)

Tagged(A, K) == UNION {{k} \X A[k] : k \in K}
SizesDifferAt(A, B, K, k) ==
    Cardinality(Tagged(B, K)) + Cardinality(A[k]) = Cardinality(Tagged(A, K)) + Cardinality(B[k])

LEMMA TaggedStep ==
    ASSUME NEW K, NEW A, NEW B, NEW k \in K, \A e \in K \ {k} : B[e] = A[e],
           IsFiniteSet(A[k]), IsFiniteSet(B[k]), IsFiniteSet(Tagged(A, K))
    PROVE  IsFiniteSet(Tagged(B, K)) /\ SizesDifferAt(A, B, K, k)
<1> DEFINE Rest == Tagged(A, K \ {k})
           At(S) == {k} \X S
<1>1. Tagged(A, K) = Rest \cup At(A[k]) /\ Tagged(B, K) = Rest \cup At(B[k])
      BY DEF Tagged
<1>2. \A S : Rest \cap At(S) = {}
  <2>1. \A p \in Rest : p[1] # k  BY DEF Tagged
  <2>2. QED  BY <2>1
<1>3. ASSUME NEW S, IsFiniteSet(S)
      PROVE  IsFiniteSet(At(S)) /\ Cardinality(At(S)) = Cardinality(S)
             /\ Cardinality(S) \in Nat
  <2>1. IsFiniteSet({k}) /\ Cardinality({k}) = 1  BY FS_Singleton
  <2>2. IsFiniteSet(At(S)) /\ Cardinality(At(S)) = 1 * Cardinality(S)
        BY <1>3, <2>1, FS_Product
  <2>3. Cardinality(S) \in Nat  BY <1>3, FS_CardinalityType
  <2>4. QED  BY <2>2, <2>3
<1>4. IsFiniteSet(Rest)
  <2>1. Rest \subseteq Tagged(A, K)  BY <1>1
  <2> HIDE DEF Rest
  <2>2. QED  BY <2>1, FS_Subset
<1> HIDE DEF Rest, At
<1>5. /\ Cardinality(Tagged(A, K)) = Cardinality(Rest) + Cardinality(A[k])
      /\ Cardinality(Tagged(B, K)) = Cardinality(Rest) + Cardinality(B[k])
      BY <1>1, <1>2, <1>3, <1>4, DisjointUnion
<1>6. IsFiniteSet(Tagged(B, K))  BY <1>1, <1>3, <1>4, FS_Union
<1>7. Cardinality(Rest) \in Nat /\ Cardinality(A[k]) \in Nat /\ Cardinality(B[k]) \in Nat
      BY <1>3, <1>4, FS_CardinalityType
<1>8. SizesDifferAt(A, B, K, k)  BY <1>5, <1>7 DEF SizesDifferAt
<1>9. QED  BY <1>6, <1>8

(* The cycles and the places of accesses under several keys.               *)
CellsAmong(m, K, t) == UNION {{k} \X Cells(m[k], t) : k \in K}
AccessesAmong(m, K) == UNION {{k} \X DOMAIN m[k] : k \in K}
FiniteAmong(m, K, t) ==
    IsFiniteSet(CellsAmong(m, K, t)) /\ IsFiniteSet(AccessesAmong(m, K))

CellsDifferAt(m, r, K, k, t) ==
    Cardinality(CellsAmong(r, K, t)) + Cardinality(Cells(m[k], t))
        = Cardinality(CellsAmong(m, K, t)) + Cardinality(Cells(r[k], t))

LEMMA CellsAmongStep ==
    ASSUME NEW R, NEW K, NEW m \in [K -> Seq(R)], NEW r \in [K -> Seq(R)],
           NEW k \in K, \A e \in K \ {k} : r[e] = m[e], NEW t \in Nat,
           StartBy(m[k], t), StartBy(r[k], t), FiniteAmong(m, K, t)
    PROVE  FiniteAmong(r, K, t) /\ CellsDifferAt(m, r, K, k, t)
<1> DEFINE A == [e \in K |-> Cells(m[e], t)]
           B == [e \in K |-> Cells(r[e], t)]
           C == [e \in K |-> DOMAIN m[e]]
           D == [e \in K |-> DOMAIN r[e]]
<1>1. /\ CellsAmong(m, K, t) = Tagged(A, K) /\ CellsAmong(r, K, t) = Tagged(B, K)
      /\ AccessesAmong(m, K) = Tagged(C, K) /\ AccessesAmong(r, K) = Tagged(D, K)
      BY DEF CellsAmong, AccessesAmong, Tagged
<1>2. /\ \A e \in K \ {k} : B[e] = A[e] /\ D[e] = C[e]
      /\ A[k] = Cells(m[k], t) /\ B[k] = Cells(r[k], t)
      /\ C[k] = DOMAIN m[k] /\ D[k] = DOMAIN r[k]
      OBVIOUS
<1>3. m[k] \in Seq(R) /\ r[k] \in Seq(R)  OBVIOUS
<1>4. IsFiniteSet(A[k]) /\ IsFiniteSet(B[k])  BY <1>2, <1>3, CellsType
<1>5. IsFiniteSet(C[k]) /\ IsFiniteSet(D[k])
  <2>1. /\ DOMAIN m[k] = 1 .. Len(m[k]) /\ DOMAIN r[k] = 1 .. Len(r[k])
        /\ Len(m[k]) \in Nat /\ Len(r[k]) \in Nat
        BY <1>3, LenProperties
  <2>2. QED  BY <1>2, <2>1, FS_Interval
<1>6. IsFiniteSet(Tagged(A, K)) /\ IsFiniteSet(Tagged(C, K))  BY <1>1 DEF FiniteAmong
<1> HIDE DEF A, B, C, D
<1>7. /\ IsFiniteSet(Tagged(B, K))
      /\ Cardinality(Tagged(B, K)) + Cardinality(A[k])
             = Cardinality(Tagged(A, K)) + Cardinality(B[k])
  <2>1. \A e \in K \ {k} : B[e] = A[e]  BY <1>2
  <2>2. IsFiniteSet(Tagged(B, K)) /\ SizesDifferAt(A, B, K, k)
        BY <1>4, <1>6, <2>1, TaggedStep
  <2>3. QED  BY <2>2 DEF SizesDifferAt
<1>8. IsFiniteSet(Tagged(D, K))  BY <1>2, <1>5, <1>6, TaggedStep
<1>9. QED  BY <1>1, <1>2, <1>7, <1>8 DEF FiniteAmong, CellsDifferAt

LEMMA CellsAmongTick ==
    ASSUME NEW R, NEW K, NEW m \in [K -> Seq(R)], NEW t \in Nat,
           \A k \in K : StartBy(m[k], t), FiniteAmong(m, K, t)
    PROVE  /\ FiniteAmong(m, K, t + 1)
           /\ Cardinality(CellsAmong(m, K, t + 1))
                  = Cardinality(CellsAmong(m, K, t)) + Cardinality(AccessesAmong(m, K))
<1> DEFINE New(k) == (1 .. Len(m[k])) \X {t}
           old == CellsAmong(m, K, t)
           new == UNION {{k} \X New(k) : k \in K}
           all == AccessesAmong(m, K)
<1>1. \A k \in K : /\ Cells(m[k], t + 1) = Cells(m[k], t) \cup New(k)
                   /\ Cells(m[k], t) \cap New(k) = {}
                   /\ DOMAIN m[k] = 1 .. Len(m[k])
  <2> SUFFICES ASSUME NEW k \in K
               PROVE  /\ Cells(m[k], t + 1) = Cells(m[k], t) \cup New(k)
                      /\ Cells(m[k], t) \cap New(k) = {}
                      /\ DOMAIN m[k] = 1 .. Len(m[k])
      OBVIOUS
  <2>1. m[k] \in Seq(R) /\ StartBy(m[k], t)  OBVIOUS
  <2>2. DOMAIN m[k] = 1 .. Len(m[k])  BY <2>1, LenProperties
  <2>3. QED  BY <2>1, <2>2, CellsTick
<1> DEFINE F == [p \in all |-> <<p[1], <<p[2], t>>>>]
<1>2. \A p \in all : p = <<p[1], p[2]>> /\ p[1] \in K /\ p[2] \in 1 .. Len(m[p[1]])
      BY <1>1 DEF AccessesAmong
<1>3. \A k \in K : \A i \in 1 .. Len(m[k]) : <<k, i>> \in all /\ <<k, <<i, t>>>> \in new
      BY <1>1 DEF AccessesAmong
<1>4. \A p \in new : \E k \in K : \E i \in 1 .. Len(m[k]) : p = <<k, <<i, t>>>>
      OBVIOUS
<1>5. F \in [all -> new]
  <2>1. \A p \in all : <<p[1], <<p[2], t>>>> \in new
    <3> HIDE DEF all, new
    <3>1. QED  BY <1>2, <1>3
  <2> HIDE DEF all, new
  <2>2. QED  BY <2>1
<1>6. \A p, q \in all : F[p] = F[q] => p = q
  <2> HIDE DEF all
  <2>1. QED  BY <1>2
<1>7. \A q \in new : \E p \in all : F[p] = q
  <2> HIDE DEF all, new
  <2> SUFFICES ASSUME NEW q \in new PROVE \E p \in all : F[p] = q  OBVIOUS
  <2>1. PICK k \in K : \E i \in 1 .. Len(m[k]) : q = <<k, <<i, t>>>>  BY <1>4
  <2>2. PICK i \in 1 .. Len(m[k]) : q = <<k, <<i, t>>>>  BY <2>1
  <2>3. <<k, i>> \in all  BY <1>3
  <2>4. F[<<k, i>>] = q  BY <2>2, <2>3
  <2>5. QED  BY <2>3, <2>4
<1>8. IsFiniteSet(all) /\ IsFiniteSet(old)  BY DEF FiniteAmong
<1>9. IsFiniteSet(new) /\ Cardinality(new) = Cardinality(all)
  <2> HIDE DEF F, all, new
  <2>1. QED  BY <1>5, <1>6, <1>7, <1>8, Renamed
<1>10. CellsAmong(m, K, t + 1) = old \cup new
  <2> HIDE DEF New
  <2>1. CellsAmong(m, K, t + 1) = UNION {{k} \X (Cells(m[k], t) \cup New(k)) : k \in K}
        BY <1>1 DEF CellsAmong
  <2>2. \A k \in K : {k} \X (Cells(m[k], t) \cup New(k))
                        = ({k} \X Cells(m[k], t)) \cup ({k} \X New(k))
        OBVIOUS
  <2>3. QED  BY <2>1, <2>2 DEF CellsAmong
<1>11. old \cap new = {}
  <2>1. \A p \in old : p[1] \in K /\ p[2] \in Cells(m[p[1]], t)  BY DEF CellsAmong
  <2>2. \A p \in new : p[2] \in New(p[1])  OBVIOUS
  <2> HIDE DEF New, old, new
  <2>3. QED  BY <1>1, <2>1, <2>2
<1>12. IsFiniteSet(old \cup new)
       /\ Cardinality(old \cup new) = Cardinality(old) + Cardinality(new)
  <2> HIDE DEF old, new
  <2>1. QED  BY <1>8, <1>9, <1>11, DisjointUnion, FS_Union
<1>13. QED  BY <1>8, <1>9, <1>10, <1>12 DEF FiniteAmong

-----------------------------------------------------------------------------
(* What the totals become.                                                 *)

AllOps == {"READ", "WRITE", "ERASE", "GC_READ", "GC_WRITE"}
Kinds == {"Logger", "GCLogger", "P8PLogger", "P8PGCLogger"}
LatencyFields == {"average_read_latency", "average_write_latency", "average_erase_latency",
                  "average_gcread_latency", "average_gcwrite_latency"}
StopLatencies(t) ==
    t["average_read_latency"] + t["average_write_latency"] + t["average_erase_latency"]
        + t["average_gcread_latency"] + t["average_gcwrite_latency"]
Amounts(a) == \A f \in DOMAIN a : a[f] \in Int
NoLatency(a) == DOMAIN a \cap (LatencyFields \cup {"average_queue_latency"}) = {}
SameLatencies(t, u) == \A f \in LatencyFields \cup {"average_queue_latency"} : u[f] = t[f]

LEMMA ConfigType ==
    ASSUME config \in Configurations
    PROVE  kind \in Kinds /\ runtime_write \in BOOLEAN /\ Ops \subseteq AllOps
BY EpochAssumption DEF kind, runtime_write, Ops, Kinds, AllOps

LEMMA LatencyFieldsAreFields ==
    LatencyFields \cup {"average_queue_latency"} \subseteq Fields
BY DEF LatencyFields, Fields, P8PGCLoggerFields, GCLoggerFields, LoggerFields

LEMMA PlusType ==
    ASSUME NEW t \in [Fields -> Int], NEW a, Amounts(a)
    PROVE  /\ Plus(t, a) \in [Fields -> Int]
           /\ \A f \in Fields : Plus(t, a)[f] = t[f] + IF f \in DOMAIN a THEN a[f] ELSE 0
           /\ NoLatency(a) => SameLatencies(t, Plus(t, a))
<1> DEFINE add(f) == IF f \in DOMAIN a THEN a[f] ELSE 0
<1>1. \A f \in Fields : t[f] \in Int /\ add(f) \in Int  BY DEF Amounts
<1>2. Plus(t, a) = [f \in Fields |-> t[f] + add(f)]  BY DEF Plus
<1>3. NoLatency(a) => \A f \in LatencyFields \cup {"average_queue_latency"} : add(f) = 0
      BY DEF NoLatency
<1> HIDE DEF add
<1>4. Plus(t, a) \in [Fields -> Int] /\ \A f \in Fields : Plus(t, a)[f] = t[f] + add(f)
      BY <1>1, <1>2
<1>5. NoLatency(a) => SameLatencies(t, Plus(t, a))
  <2> SUFFICES ASSUME NoLatency(a), NEW f \in LatencyFields \cup {"average_queue_latency"}
               PROVE  Plus(t, a)[f] = t[f]
      BY DEF SameLatencies
  <2>1. f \in Fields  BY LatencyFieldsAreFields
  <2>2. t[f] \in Int /\ add(f) = 0  BY <1>1, <1>3, <2>1
  <2>3. QED  BY <1>4, <2>1, <2>2
<1>6. QED  BY <1>4, <1>5 DEF add

LEMMA OnesAmounts ==
    ASSUME NEW fs
    PROVE  Amounts(Ones(fs)) /\ DOMAIN Ones(fs) = fs
BY DEF Amounts, Ones

LEMMA CountedAmounts ==
    ASSUME NEW op \in AllOps
    PROVE  Amounts(Counted(op)) /\ NoLatency(Counted(op))
<1> DEFINE fs == CASE op = "READ" -> {"num_accesses", "num_reads"}
                   [] op = "WRITE" -> {"num_accesses", "num_writes"}
                   [] op = "ERASE" -> {"num_accesses", "num_erases"}
                   [] op = "GC_READ" -> {"num_gcreads"}
                   [] op = "GC_WRITE" -> {"num_gcwrites"}
<1>1. Counted(op) = Ones(fs)  BY DEF Counted
<1>2. fs \cap (LatencyFields \cup {"average_queue_latency"}) = {}
      BY DEF AllOps, LatencyFields
<1> HIDE DEF fs
<1>3. QED  BY <1>1, <1>2, OnesAmounts DEF NoLatency

LEMMA ChargeAmounts ==
    ASSUME NEW op \in AllOps, config \in Configurations
    PROVE  Amounts(Charge(op)) /\ NoLatency(Charge(op))
<1>1. OpCurrent[op] \in Int /\ OpCurrent["ERASE"] \in Int
      BY EpochAssumption DEF AllOps
<1>2. \A x \in Int : LET a == [access_energy |-> x] IN Amounts(a) /\ NoLatency(a)
      BY DEF Amounts, NoLatency, LatencyFields
<1>3. \A x \in Int : LET a == [erase_energy |-> x] IN Amounts(a) /\ NoLatency(a)
      BY DEF Amounts, NoLatency, LatencyFields
<1>4. \A x, y \in Int : LET a == [access_energy |-> x, vpp_access_energy |-> y]
                        IN  Amounts(a) /\ NoLatency(a)
      BY DEF Amounts, NoLatency, LatencyFields
<1>5. \A x, y \in Int : LET a == [erase_energy |-> x, vpp_erase_energy |-> y]
                        IN  Amounts(a) /\ NoLatency(a)
      BY DEF Amounts, NoLatency, LatencyFields
<1>6. Amounts(LoggerCharge(op)) /\ NoLatency(LoggerCharge(op))
      BY <1>1, <1>2 DEF LoggerCharge
<1>7. Amounts(GCLoggerCharge(op)) /\ NoLatency(GCLoggerCharge(op))
      BY <1>1, <1>3, <1>6 DEF GCLoggerCharge
<1>8. Amounts(P8PLoggerCharge(op)) /\ NoLatency(P8PLoggerCharge(op))
      BY <1>1, <1>4 DEF P8PLoggerCharge
<1>9. Amounts(P8PGCLoggerCharge(op)) /\ NoLatency(P8PGCLoggerCharge(op))
      BY <1>1, <1>4, <1>5 DEF P8PGCLoggerCharge
<1>10. kind \in Kinds  BY ConfigType
<1>11. \/ Charge(op) = LoggerCharge(op) \/ Charge(op) = GCLoggerCharge(op)
       \/ Charge(op) = P8PLoggerCharge(op) \/ Charge(op) = P8PGCLoggerCharge(op)
       BY <1>10 DEF Charge, Kinds
<1>12. QED  BY <1>6, <1>7, <1>8, <1>9, <1>11

LEMMA LatencyAdded ==
    ASSUME NEW t \in [Fields -> Int], NEW l \in Int, NEW g \in Fields,
           NEW u, u = Plus(t, [f \in {g} |-> l])
    PROVE  /\ u \in [Fields -> Int]
           /\ \A f \in Fields : u[f] = t[f] + IF f = g THEN l ELSE 0
<1> DEFINE a == [f \in {g} |-> l]
<1>1. DOMAIN a = {g} /\ a[g] = l  OBVIOUS
<1>2. Amounts(a)  BY <1>1 DEF Amounts
<1> HIDE DEF a
<1>3. /\ Plus(t, a) \in [Fields -> Int]
      /\ \A f \in Fields : Plus(t, a)[f] = t[f] + IF f \in DOMAIN a THEN a[f] ELSE 0
      BY <1>2, PlusType
<1>4. QED  BY <1>1, <1>3 DEF a

LEMMA StoppedAdds ==
    ASSUME NEW t \in [Fields -> Int], NEW op \in AllOps, NEW l \in Int,
           config \in Configurations
    PROVE  /\ WithStopped(t, op, l) \in [Fields -> Int]
           /\ StopLatencies(WithStopped(t, op, l)) = StopLatencies(t) + l
           /\ WithStopped(t, op, l)["average_queue_latency"] = t["average_queue_latency"]
<1> DEFINE t1 == Plus(t, Counted(op))
           t2 == Plus(t1, Charge(op))
           g == LatencyOf[op]
           t3 == Plus(t2, [f \in {g} |-> l])
<1>1. t1 \in [Fields -> Int] /\ SameLatencies(t, t1)
      BY CountedAmounts, PlusType
<1> HIDE DEF t1
<1>2. t2 \in [Fields -> Int] /\ SameLatencies(t1, t2)
      BY <1>1, ChargeAmounts, PlusType
<1> HIDE DEF t2
<1>3. g \in LatencyFields  BY DEF LatencyOf, AllOps, LatencyFields
<1> HIDE DEF g
<1>4. /\ t3 \in [Fields -> Int]
      /\ \A f \in Fields : t3[f] = t2[f] + IF f = g THEN l ELSE 0
      BY <1>2, <1>3, LatencyFieldsAreFields, LatencyAdded
<1> HIDE DEF t3
<1>5. \A f \in LatencyFields : /\ t[f] \in Int /\ t2[f] = t[f]
                               /\ t3[f] = t[f] + IF f = g THEN l ELSE 0
      BY <1>1, <1>2, <1>4, LatencyFieldsAreFields DEF SameLatencies
<1>6. StopLatencies(t3) = StopLatencies(t) + l
      BY <1>3, <1>5, SMTT(30) DEF StopLatencies, LatencyFields
<1>7. t3["average_queue_latency"] = t["average_queue_latency"]
  <2>1. "average_queue_latency" \in Fields /\ "average_queue_latency" # g
        BY <1>3, LatencyFieldsAreFields DEF LatencyFields
  <2>2. t2["average_queue_latency"] = t["average_queue_latency"]
        /\ t["average_queue_latency"] \in Int
        BY <1>1, <1>2, <2>1 DEF SameLatencies
  <2>3. QED  BY <1>4, <2>1, <2>2
<1>8. WithStopped(t, op, l) = t3  BY DEF WithStopped, t3, t2, t1, g
<1>9. QED  BY <1>4, <1>6, <1>7, <1>8

-----------------------------------------------------------------------------
(* What the log becomes, and the cycles of the accesses in it.             *)

WaitingAccesses == [addr : LogAddr, start : Nat]
Entries == [start : Nat, op : AllOps]
Logs == [queue : Seq(WaitingAccesses), map : [Keys -> Seq(Entries)], aborted : BOOLEAN]

LogSound(l, t) ==
    /\ l \in Logs
    /\ StartBy(l.queue, t) /\ \A k \in Keys : StartBy(l.map[k], t)
    /\ FiniteAmong(l.map, Keys, t)

WaitCells(l, t) == Cardinality(Cells(l.queue, t))
MapCells(l, t) == Cardinality(CellsAmong(l.map, Keys, t))

LEMMA CellsSizeTypes ==
    ASSUME NEW l, NEW t \in Nat, LogSound(l, t)
    PROVE  WaitCells(l, t) \in Nat /\ MapCells(l, t) \in Nat
<1>1. l.queue \in Seq(WaitingAccesses) /\ StartBy(l.queue, t)  BY DEF LogSound, Logs
<1>2. WaitCells(l, t) \in Nat  BY <1>1, CellsType DEF WaitCells
<1>3. MapCells(l, t) \in Nat
      BY FS_CardinalityType DEF LogSound, FiniteAmong, MapCells
<1>4. QED  BY <1>2, <1>3

LEMMA FirstWaitingType ==
    ASSUME NEW l \in Logs, NEW a \in LogAddr, Waiting(l, a) # {}
    PROVE  FirstWaiting(l, a) \in 1 .. Len(l.queue)
<1>1. l.queue \in Seq(WaitingAccesses)  BY DEF Logs
<1>2. DOMAIN l.queue = 1 .. Len(l.queue) /\ Len(l.queue) \in Nat  BY <1>1, LenProperties
<1>3. Waiting(l, a) \in SUBSET Nat /\ Waiting(l, a) \subseteq 1 .. Len(l.queue)
      BY <1>2 DEF Waiting
<1>4. \E i \in Waiting(l, a) : \A j \in Waiting(l, a) : i <= j  BY <1>3, LeastExists
<1>5. FirstWaiting(l, a) \in Waiting(l, a)  BY <1>4 DEF FirstWaiting
<1>6. QED  BY <1>3, <1>5

LEMMA StartSound ==
    ASSUME NEW l, NEW t \in Nat, LogSound(l, t), NEW a \in LogAddr,
           NEW r, r = access_start(l, a, t)
    PROVE  /\ LogSound(r, t) /\ WaitCells(r, t) = WaitCells(l, t)
           /\ MapCells(r, t) = MapCells(l, t)
<1> DEFINE x == [addr |-> a, start |-> t]
<1>1. l \in Logs /\ l.queue \in Seq(WaitingAccesses) /\ StartBy(l.queue, t)
      BY DEF LogSound, Logs
<1>2. x \in WaitingAccesses /\ x.start \in 0 .. t /\ t - x.start = 0
      BY DEF WaitingAccesses
<1>3. r.queue = Append(l.queue, x) /\ r.map = l.map /\ r.aborted = l.aborted
      /\ r = [queue |-> r.queue, map |-> r.map, aborted |-> r.aborted]
      BY <1>1 DEF access_start, Logs
<1> HIDE DEF x
<1>4. /\ Cardinality(Cells(Append(l.queue, x), t))
             = Cardinality(Cells(l.queue, t)) + (t - x.start)
      /\ StartBy(Append(l.queue, x), t)
      BY <1>1, <1>2, CellsAppend
<1>5. Append(l.queue, x) \in Seq(WaitingAccesses)  BY <1>1, <1>2, AppendProperties
<1>6. Cardinality(Cells(l.queue, t)) \in Nat  BY <1>1, CellsType
<1>7. r \in Logs  BY <1>1, <1>3, <1>5 DEF Logs
<1>8. WaitCells(r, t) = WaitCells(l, t)  BY <1>2, <1>3, <1>4, <1>6 DEF WaitCells
<1>9. QED  BY <1>3, <1>4, <1>7, <1>8 DEF LogSound, MapCells

LEMMA ProcessSound ==
    ASSUME NEW l, NEW t \in Nat, LogSound(l, t), NEW a \in LogAddr, NEW p \in LogPage,
           NEW op \in AllOps, MayProcess(l, a, p, op),
           NEW r, r = access_process(l, a, p, op),
           NEW d, d = t - l.queue[FirstWaiting(l, a)].start
    PROVE  /\ LogSound(r, t) /\ d \in Nat
           /\ WaitCells(r, t) + d = WaitCells(l, t)
           /\ MapCells(r, t) = MapCells(l, t) + d
<1> DEFINE i == FirstWaiting(l, a)
           k == <<a, p>>
           x == [start |-> l.queue[i].start, op |-> op]
<1>1. /\ l \in Logs /\ l.queue \in Seq(WaitingAccesses) /\ StartBy(l.queue, t)
      /\ l.map \in [Keys -> Seq(Entries)]
      BY DEF LogSound, Logs
<1>2. i \in 1 .. Len(l.queue)  BY <1>1, FirstWaitingType DEF MayProcess
<1>3. k \in Keys  BY DEF Keys
<1>4. /\ r.queue = RemoveAt(l.queue, i)
      /\ r.map = [l.map EXCEPT ![k] = Append(@, x)]
      /\ r = [queue |-> r.queue, map |-> r.map, aborted |-> r.aborted]
      /\ r.aborted = l.aborted
      BY <1>1 DEF access_process, Logs, WithoutWaiting, RemoveAt
<1>5. l.queue[i].start \in 0 .. t /\ d = t - l.queue[i].start
      BY <1>2 DEF StartBy, LogSound
<1> HIDE DEF i, k
<1>6. x \in Entries /\ x.start = l.queue[i].start  BY <1>5 DEF Entries
<1> HIDE DEF x
<1>7. d \in Nat /\ x.start \in 0 .. t /\ d = t - x.start  BY <1>5, <1>6
<1>8. /\ Cardinality(Cells(RemoveAt(l.queue, i), t)) + (t - l.queue[i].start)
             = Cardinality(Cells(l.queue, t))
      /\ StartBy(RemoveAt(l.queue, i), t)
      BY <1>1, <1>2, CellsRemoveAt
<1>9. RemoveAt(l.queue, i) \in Seq(WaitingAccesses)
      BY <1>1, <1>2, RemoveAtProperties
<1>10. WaitCells(r, t) + d = WaitCells(l, t)  BY <1>4, <1>5, <1>8 DEF WaitCells
<1>11. l.map[k] \in Seq(Entries) /\ StartBy(l.map[k], t)  BY <1>1, <1>3 DEF LogSound
<1>12. /\ Cardinality(Cells(Append(l.map[k], x), t))
              = Cardinality(Cells(l.map[k], t)) + (t - x.start)
       /\ StartBy(Append(l.map[k], x), t)
       /\ Append(l.map[k], x) \in Seq(Entries)
       BY <1>6, <1>7, <1>11, CellsAppend, AppendProperties
<1>13. /\ r.map \in [Keys -> Seq(Entries)] /\ r.map[k] = Append(l.map[k], x)
       /\ \A e \in Keys \ {k} : r.map[e] = l.map[e]
       BY <1>1, <1>3, <1>4, <1>12
<1>14. FiniteAmong(l.map, Keys, t)  BY DEF LogSound
<1> DEFINE m == l.map
           n == r.map
<1>15. FiniteAmong(n, Keys, t) /\ CellsDifferAt(m, n, Keys, k, t)
  <2>1. StartBy(m[k], t) /\ StartBy(n[k], t)  BY <1>11, <1>12, <1>13
  <2>2. m \in [Keys -> Seq(Entries)] /\ n \in [Keys -> Seq(Entries)]
        /\ \A e \in Keys \ {k} : n[e] = m[e]
        BY <1>1, <1>13
  <2>3. FiniteAmong(m, Keys, t)  BY <1>14
  <2> HIDE DEF m, n
  <2>4. QED  BY <1>3, <2>1, <2>2, <2>3, CellsAmongStep
<1>16. /\ Cardinality(Cells(m[k], t)) \in Nat /\ Cardinality(CellsAmong(n, Keys, t)) \in Nat
       /\ Cardinality(CellsAmong(m, Keys, t)) \in Nat
       BY <1>11, <1>14, <1>15, CellsType, FS_CardinalityType DEF FiniteAmong
<1>17. MapCells(r, t) = MapCells(l, t) + d
  <2>1. Cardinality(Cells(n[k], t)) = Cardinality(Cells(m[k], t)) + d
        BY <1>7, <1>12, <1>13
  <2>2. Cardinality(CellsAmong(n, Keys, t)) + Cardinality(Cells(m[k], t))
            = Cardinality(CellsAmong(m, Keys, t)) + Cardinality(Cells(n[k], t))
        BY <1>15 DEF CellsDifferAt
  <2> HIDE DEF m, n
  <2>3. Cardinality(CellsAmong(n, Keys, t)) = Cardinality(CellsAmong(m, Keys, t)) + d
        BY <1>7, <1>16, <2>1, <2>2
  <2>4. QED  BY <2>3 DEF MapCells, m, n
<1>18. \A e \in Keys : StartBy(r.map[e], t)
  <2> SUFFICES ASSUME NEW e \in Keys PROVE StartBy(r.map[e], t)  OBVIOUS
  <2>1. CASE e = k  BY <1>12, <1>13, <2>1
  <2>2. CASE e # k  BY <1>13, <2>2 DEF LogSound
  <2>3. QED  BY <2>1, <2>2
<1>19. r \in Logs  BY <1>1, <1>4, <1>9, <1>13 DEF Logs
<1>20. LogSound(r, t)  BY <1>4, <1>8, <1>15, <1>18, <1>19 DEF LogSound
<1>21. QED  BY <1>7, <1>10, <1>17, <1>20

LEMMA StopSound ==
    ASSUME NEW l, NEW t \in Nat, LogSound(l, t), NEW a \in LogAddr, NEW p \in LogPage,
           MayStop(l, a, p), NEW r, r = access_stop(l, a, p),
           NEW d, d = t - Head(l.map[<<a, p>>]).start
    PROVE  /\ LogSound(r, t) /\ d \in Nat
           /\ Head(l.map[<<a, p>>]).op \in AllOps
           /\ WaitCells(r, t) = WaitCells(l, t)
           /\ MapCells(r, t) + d = MapCells(l, t)
<1> DEFINE k == <<a, p>>
<1>1. l \in Logs /\ l.map \in [Keys -> Seq(Entries)] /\ k \in Keys
      BY DEF LogSound, Logs, Keys
<1>2. /\ r.queue = l.queue /\ r.map = [l.map EXCEPT ![k] = Tail(@)]
      /\ r = [queue |-> r.queue, map |-> r.map, aborted |-> r.aborted]
      /\ r.aborted = l.aborted
      BY <1>1 DEF access_stop, Logs
<1>3. l.map[k] \in Seq(Entries) /\ StartBy(l.map[k], t) /\ l.map[k] # <<>>
      BY <1>1 DEF LogSound, MayStop
<1>4. d = t - Head(l.map[k]).start  OBVIOUS
<1> HIDE DEF k
<1> DEFINE s == l.map[k]
<1>5. /\ 1 \in 1 .. Len(s) /\ Head(s) = s[1] /\ Tail(s) \in Seq(Entries)
      /\ RemoveAt(s, 1) = Tail(s) /\ s[1] \in Entries
  <2>1. s \in Seq(Entries) /\ s # <<>>  BY <1>3
  <2> HIDE DEF s
  <2>2. Len(s) \in Nat /\ Len(s) # 0  BY <2>1, LenProperties, EmptySeq
  <2>3. 1 \in 1 .. Len(s)  BY <2>2
  <2>4. Head(s) = s[1] /\ Tail(s) \in Seq(Entries)  BY <2>1, HeadTailProperties
  <2>5. RemoveAt(s, 1) = Tail(s)  BY <2>1, RemoveAtHead
  <2>6. s[1] \in Entries  BY <2>1, <2>3, ElementOfSeq
  <2>7. QED  BY <2>3, <2>4, <2>5, <2>6
<1>6. s[1].start \in 0 .. t /\ s[1].op \in AllOps  BY <1>3, <1>5 DEF StartBy, Entries
<1>7. d \in Nat /\ d = t - s[1].start  BY <1>4, <1>5, <1>6
<1>8. /\ Cardinality(Cells(Tail(s), t)) + (t - s[1].start) = Cardinality(Cells(s, t))
      /\ StartBy(Tail(s), t)
  <2>1. s \in Seq(Entries) /\ StartBy(s, t)  BY <1>3
  <2> HIDE DEF s
  <2>2. /\ Cardinality(Cells(RemoveAt(s, 1), t)) + (t - s[1].start) = Cardinality(Cells(s, t))
        /\ StartBy(RemoveAt(s, 1), t)
        BY <1>5, <2>1, CellsRemoveAt
  <2>3. QED  BY <1>5, <2>2
<1>9. /\ r.map \in [Keys -> Seq(Entries)] /\ r.map[k] = Tail(s)
      /\ \A e \in Keys \ {k} : r.map[e] = l.map[e]
      BY <1>1, <1>2, <1>5 DEF k
<1>10. FiniteAmong(l.map, Keys, t)  BY DEF LogSound
<1> DEFINE m == l.map
           n == r.map
<1>11. FiniteAmong(n, Keys, t) /\ CellsDifferAt(m, n, Keys, k, t)
  <2>1. StartBy(m[k], t) /\ StartBy(n[k], t) /\ k \in Keys  BY <1>1, <1>3, <1>8, <1>9
  <2>2. m \in [Keys -> Seq(Entries)] /\ n \in [Keys -> Seq(Entries)]
        /\ \A e \in Keys \ {k} : n[e] = m[e]
        BY <1>1, <1>9
  <2>3. FiniteAmong(m, Keys, t)  BY <1>10
  <2> HIDE DEF m, n
  <2>4. QED  BY <2>1, <2>2, <2>3, CellsAmongStep
<1>12. n[k] \in Seq(Entries) /\ StartBy(n[k], t)  BY <1>5, <1>8, <1>9
<1>13. /\ Cardinality(Cells(n[k], t)) \in Nat /\ Cardinality(CellsAmong(n, Keys, t)) \in Nat
       /\ Cardinality(CellsAmong(m, Keys, t)) \in Nat
       BY <1>10, <1>11, <1>12, CellsType, FS_CardinalityType DEF FiniteAmong
<1>14. MapCells(r, t) + d = MapCells(l, t)
  <2>1. Cardinality(Cells(n[k], t)) + d = Cardinality(Cells(m[k], t))
        BY <1>7, <1>8, <1>9
  <2>2. Cardinality(CellsAmong(n, Keys, t)) + Cardinality(Cells(m[k], t))
            = Cardinality(CellsAmong(m, Keys, t)) + Cardinality(Cells(n[k], t))
        BY <1>11 DEF CellsDifferAt
  <2> HIDE DEF m, n
  <2>3. Cardinality(CellsAmong(n, Keys, t)) + d = Cardinality(CellsAmong(m, Keys, t))
        BY <1>7, <1>13, <2>1, <2>2
  <2>4. QED  BY <2>3 DEF MapCells, m, n
<1>15. \A e \in Keys : StartBy(r.map[e], t)
  <2> SUFFICES ASSUME NEW e \in Keys PROVE StartBy(r.map[e], t)  OBVIOUS
  <2>1. CASE e = k  BY <1>8, <1>9, <2>1
  <2>2. CASE e # k  BY <1>9, <2>2 DEF LogSound
  <2>3. QED  BY <2>1, <2>2
<1>16. r \in Logs  BY <1>1, <1>2, <1>9 DEF Logs
<1>17. LogSound(r, t)  BY <1>2, <1>11, <1>15, <1>16 DEF LogSound
<1>18. WaitCells(r, t) = WaitCells(l, t)  BY <1>2 DEF WaitCells
<1>19. QED  BY <1>5, <1>6, <1>7, <1>14, <1>17, <1>18 DEF k

LEMMA TickSound ==
    ASSUME NEW l, NEW t \in Nat, LogSound(l, t)
    PROVE  /\ LogSound(l, t + 1)
           /\ WaitCells(l, t + 1) = WaitCells(l, t) + Len(l.queue)
           /\ MapCells(l, t + 1)
                  = MapCells(l, t) + Cardinality(AccessesAmong(l.map, Keys))
           /\ Cardinality(AccessesAmong(l.map, Keys)) \in Nat /\ Len(l.queue) \in Nat
<1> DEFINE q == l.queue
           m == l.map
<1>1. /\ q \in Seq(WaitingAccesses) /\ StartBy(q, t) /\ m \in [Keys -> Seq(Entries)]
      /\ \A k \in Keys : StartBy(m[k], t)
      /\ FiniteAmong(m, Keys, t)
      BY DEF LogSound, Logs
<1>2. Cardinality(Cells(q, t + 1)) = Cardinality(Cells(q, t)) + Len(q) /\ StartBy(q, t + 1)
      /\ Len(q) \in Nat
  <2> HIDE DEF q
  <2>1. QED  BY <1>1, CellsTick, LenProperties
<1>3. \A k \in Keys : StartBy(m[k], t + 1)
  <2> SUFFICES ASSUME NEW k \in Keys PROVE StartBy(m[k], t + 1)  OBVIOUS
  <2>1. m[k] \in Seq(Entries) /\ StartBy(m[k], t)  BY <1>1
  <2>2. QED  BY <2>1, CellsTick
<1>4. /\ FiniteAmong(m, Keys, t + 1)
      /\ Cardinality(CellsAmong(m, Keys, t + 1))
             = Cardinality(CellsAmong(m, Keys, t)) + Cardinality(AccessesAmong(m, Keys))
  <2> HIDE DEF m
  <2>1. QED  BY <1>1, CellsAmongTick
<1>5. Cardinality(AccessesAmong(m, Keys)) \in Nat
      BY <1>1, FS_CardinalityType DEF FiniteAmong
<1>6. QED  BY <1>2, <1>3, <1>4, <1>5 DEF LogSound, WaitCells, MapCells

-----------------------------------------------------------------------------
(* Little's law.                                                           *)

Law ==
    /\ residence.waiting = totals["average_queue_latency"] + WaitCells(log, clock)
    /\ residence.all =
           StopLatencies(totals) + WaitCells(log, clock) + MapCells(log, clock)

LawInv ==
    /\ config \in Configurations /\ clock \in Nat /\ LogSound(log, clock)
    /\ totals \in [Fields -> Int]
    /\ residence \in [all : Int, waiting : Int]
    /\ Law

LEMMA LawIs == Law => LittlesLaw
BY DEF Law, LittlesLaw, StopLatencies, WaitCells, MapCells, Cells, CellsAmong, CyclesOf

LEMMA StopLatenciesType ==
    ASSUME NEW t \in [Fields -> Int]
    PROVE  StopLatencies(t) \in Int /\ t["average_queue_latency"] \in Int
<1>1. \A f \in LatencyFields \cup {"average_queue_latency"} : t[f] \in Int
      BY LatencyFieldsAreFields
<1>2. QED  BY <1>1 DEF StopLatencies, LatencyFields

LEMMA SameStopLatencies ==
    ASSUME NEW t, NEW u, SameLatencies(t, u)
    PROVE  /\ StopLatencies(u) = StopLatencies(t)
           /\ u["average_queue_latency"] = t["average_queue_latency"]
BY DEF SameLatencies, StopLatencies, LatencyFields

LEMMA LawInit == Init => LawInv
<1> SUFFICES ASSUME Init PROVE LawInv  OBVIOUS
<1>1. /\ clock = 0 /\ log = EmptyLog /\ totals = NoTotals
      /\ residence = [all |-> 0, waiting |-> 0] /\ config \in Configurations
      BY DEF Init
<1>2. log.queue = <<>> /\ log.map = [k \in Keys |-> <<>>] /\ log.aborted = FALSE
      BY <1>1 DEF EmptyLog
<1>3. log \in Logs
  <2>1. \A k \in Keys : <<>> \in Seq(Entries)  BY EmptySeq
  <2>2. <<>> \in Seq(WaitingAccesses)  BY EmptySeq
  <2>3. QED  BY <1>1, <2>1, <2>2 DEF EmptyLog, Logs
<1>4. Len(<<>>) = 0 /\ DOMAIN <<>> = {}  BY EmptySeq
<1>5. StartBy(<<>>, 0) /\ Cells(<<>>, 0) = {}  BY <1>4 DEF StartBy, Cells
<1>6. CellsAmong(log.map, Keys, 0) = {} /\ AccessesAmong(log.map, Keys) = {}
      BY <1>2, <1>4, <1>5 DEF CellsAmong, AccessesAmong
<1>7. IsFiniteSet({}) /\ Cardinality({}) = 0  BY FS_EmptySet
<1>8. LogSound(log, clock)
      BY <1>1, <1>2, <1>3, <1>5, <1>6, <1>7 DEF LogSound, FiniteAmong
<1>9. WaitCells(log, clock) = 0 /\ MapCells(log, clock) = 0
      BY <1>1, <1>2, <1>5, <1>6, <1>7 DEF WaitCells, MapCells
<1>10. totals \in [Fields -> Int]  BY <1>1 DEF NoTotals
<1>11. StopLatencies(totals) = 0 /\ totals["average_queue_latency"] = 0
  <2>1. \A f \in LatencyFields \cup {"average_queue_latency"} : totals[f] = 0
        BY <1>1, LatencyFieldsAreFields DEF NoTotals
  <2>2. QED  BY <2>1 DEF StopLatencies, LatencyFields
<1>12. QED  BY <1>1, <1>8, <1>9, <1>10, <1>11 DEF LawInv, Law

LEMMA LawArrive ==
    ASSUME LawInv, NEW a \in LogAddr, NEW gc \in BOOLEAN, Arrive(a, gc)
    PROVE  LawInv'
<1>1. /\ log' = access_start(log, a, clock)
      /\ UNCHANGED <<config, clock, totals, residence>>
      BY DEF Arrive
<1>2. /\ LogSound(log', clock) /\ WaitCells(log', clock) = WaitCells(log, clock)
      /\ MapCells(log', clock) = MapCells(log, clock)
      BY <1>1, StartSound DEF LawInv
<1>3. QED  BY <1>1, <1>2 DEF LawInv, Law

(* An access that is processed has waited since its start.                 *)
LEMMA QueueLatencyAdded ==
    ASSUME NEW t \in [Fields -> Int], NEW fs, NEW l \in Int, NEW u,
           fs \cap (LatencyFields \cup {"average_queue_latency"}) = {},
           u = Plus(Plus(t, Ones(fs)), [average_queue_latency |-> l])
    PROVE  /\ u \in [Fields -> Int] /\ StopLatencies(u) = StopLatencies(t)
           /\ u["average_queue_latency"] = t["average_queue_latency"] + l
<1> DEFINE t1 == Plus(t, Ones(fs))
           a == [average_queue_latency |-> l]
<1>1. Amounts(Ones(fs)) /\ NoLatency(Ones(fs))  BY OnesAmounts DEF NoLatency
<1>2. t1 \in [Fields -> Int] /\ SameLatencies(t, t1)  BY <1>1, PlusType
<1>3. Amounts(a) /\ DOMAIN a = {"average_queue_latency"} /\ a["average_queue_latency"] = l
      BY DEF Amounts
<1>4. u = Plus(t1, a)  OBVIOUS
<1> HIDE DEF t1, a
<1>5. /\ u \in [Fields -> Int]
      /\ \A f \in Fields : u[f] = t1[f] + IF f \in DOMAIN a THEN a[f] ELSE 0
  <2>1. /\ Plus(t1, a) \in [Fields -> Int]
        /\ \A f \in Fields : Plus(t1, a)[f] = t1[f] + IF f \in DOMAIN a THEN a[f] ELSE 0
        BY <1>2, <1>3, PlusType
  <2>2. QED  BY <1>4, <2>1
<1>6. \A f \in LatencyFields : f \in Fields /\ t1[f] \in Int /\ f # "average_queue_latency"
      BY <1>2, LatencyFieldsAreFields DEF LatencyFields
<1>7. \A f \in LatencyFields : u[f] = t1[f]  BY <1>3, <1>5, <1>6
<1>8. StopLatencies(u) = StopLatencies(t1)  BY <1>7 DEF StopLatencies, LatencyFields
<1>9. StopLatencies(t1) = StopLatencies(t)
      /\ t1["average_queue_latency"] = t["average_queue_latency"]
      BY <1>2, SameStopLatencies
<1>10. "average_queue_latency" \in Fields  BY LatencyFieldsAreFields
<1>11. QED  BY <1>3, <1>5, <1>8, <1>9, <1>10

LEMMA LawProcess ==
    ASSUME LawInv, NEW a \in LogAddr, NEW p \in LogPage, NEW op \in Ops, Process(a, p, op)
    PROVE  LawInv'
<1> DEFINE d == clock - log.queue[FirstWaiting(log, a)].start
<1>1. /\ MayProcess(log, a, p, op) /\ log' = access_process(log, a, p, op)
      /\ UNCHANGED <<config, clock, residence>>
      BY DEF Process, Processed
<1>2. op \in AllOps  BY ConfigType DEF LawInv
<1>3. PICK fs \in MappedOrNot(op) :
          totals' = Plus(Plus(totals, Ones(fs)), [average_queue_latency |-> d])
      BY DEF Process, QueueLatency
<1> HIDE DEF d
<1>4. fs \cap (LatencyFields \cup {"average_queue_latency"}) = {}
      BY <1>2 DEF MappedOrNot, AllOps, LatencyFields
<1>5. /\ LogSound(log', clock) /\ d \in Nat
      /\ WaitCells(log', clock) + d = WaitCells(log, clock)
      /\ MapCells(log', clock) = MapCells(log, clock) + d
      BY <1>1, <1>2, ProcessSound DEF LawInv, d
<1>6. /\ totals' \in [Fields -> Int] /\ StopLatencies(totals') = StopLatencies(totals)
      /\ totals'["average_queue_latency"] = totals["average_queue_latency"] + d
      BY <1>3, <1>4, <1>5, QueueLatencyAdded DEF LawInv
<1>7. /\ WaitCells(log, clock) \in Nat /\ MapCells(log, clock) \in Nat
      /\ WaitCells(log', clock) \in Nat /\ MapCells(log', clock) \in Nat
      BY <1>5, CellsSizeTypes DEF LawInv
<1>8. StopLatencies(totals) \in Int /\ totals["average_queue_latency"] \in Int
      BY StopLatenciesType DEF LawInv
<1>9. Law'
  <2>1. residence' = residence /\ clock' = clock  BY <1>1
  <2>2. residence.waiting = totals["average_queue_latency"] + WaitCells(log, clock)
        /\ residence.all = StopLatencies(totals) + WaitCells(log, clock) + MapCells(log, clock)
        BY DEF LawInv, Law
  <2>3. residence.waiting = totals'["average_queue_latency"] + WaitCells(log', clock)
        BY <1>5, <1>6, <1>7, <1>8, <2>2
  <2>4. residence.all = StopLatencies(totals') + WaitCells(log', clock) + MapCells(log', clock)
        BY <1>5, <1>6, <1>7, <1>8, <2>2
  <2>5. QED  BY <2>1, <2>3, <2>4 DEF Law
<1>10. QED  BY <1>1, <1>5, <1>6, <1>9 DEF LawInv

LEMMA LawStop ==
    ASSUME LawInv, NEW a \in LogAddr, NEW p \in LogPage, Stop(a, p)
    PROVE  LawInv'
<1> DEFINE e == Head(log.map[<<a, p>>])
           d == clock - e.start
<1>1. /\ MayStop(log, a, p) /\ log' = access_stop(log, a, p)
      /\ totals' = WithStopped(totals, e.op, d)
      /\ UNCHANGED <<config, clock, residence>>
      BY DEF Stop
<1>2. /\ LogSound(log', clock) /\ d \in Nat /\ e.op \in AllOps
      /\ WaitCells(log', clock) = WaitCells(log, clock)
      /\ MapCells(log', clock) + d = MapCells(log, clock)
      BY <1>1, StopSound DEF LawInv
<1> HIDE DEF d, e
<1>3. /\ totals' \in [Fields -> Int] /\ StopLatencies(totals') = StopLatencies(totals) + d
      /\ totals'["average_queue_latency"] = totals["average_queue_latency"]
      BY <1>1, <1>2, StoppedAdds DEF LawInv
<1>4. /\ WaitCells(log, clock) \in Nat /\ MapCells(log, clock) \in Nat
      /\ WaitCells(log', clock) \in Nat /\ MapCells(log', clock) \in Nat
      BY <1>2, CellsSizeTypes DEF LawInv
<1>5. StopLatencies(totals) \in Int  BY StopLatenciesType DEF LawInv
<1>6. Law'
  <2>1. residence' = residence /\ clock' = clock  BY <1>1
  <2>2. residence.waiting = totals["average_queue_latency"] + WaitCells(log, clock)
        /\ residence.all = StopLatencies(totals) + WaitCells(log, clock) + MapCells(log, clock)
        BY DEF LawInv, Law
  <2>3. residence.waiting = totals'["average_queue_latency"] + WaitCells(log', clock)
        BY <1>2, <1>3, <2>2
  <2>4. residence.all = StopLatencies(totals') + WaitCells(log', clock) + MapCells(log', clock)
        BY <1>2, <1>3, <1>4, <1>5, <2>2
  <2>5. QED  BY <2>1, <2>3, <2>4 DEF Law
<1>7. QED  BY <1>1, <1>2, <1>3, <1>6 DEF LawInv

(* A read of an unmapped page is processed and stopped at once.            *)
LEMMA LawReadUnmapped ==
    ASSUME LawInv, NEW a \in LogAddr, NEW p \in LogPage, ReadUnmapped(a, p)
    PROVE  LawInv'
<1> DEFINE i == FirstWaiting(log, a)
           d == clock - log.queue[i].start
           mid == access_process(log, a, p, "READ")
           fs == {"num_unmapped", "num_read_unmapped"}
           t1 == Plus(Plus(totals, Ones(fs)), [average_queue_latency |-> d])
           k == <<a, p>>
<1>1. /\ MayProcess(log, a, p, "READ") /\ ~MayStop(log, a, p)
      /\ log' = access_stop(mid, a, p)
      /\ totals' = WithStopped(t1, "READ", d)
      /\ UNCHANGED <<config, clock, residence>>
      BY DEF ReadUnmapped, Processed, QueueLatency
<1>2. "READ" \in AllOps  BY DEF AllOps
<1>3. /\ LogSound(mid, clock) /\ d \in Nat
      /\ WaitCells(mid, clock) + d = WaitCells(log, clock)
      /\ MapCells(mid, clock) = MapCells(log, clock) + d
      BY <1>1, <1>2, ProcessSound DEF LawInv
<1>4. mid.map[k] = <<[start |-> log.queue[i].start, op |-> "READ"]>>
  <2>1. log.map[k] = <<>> /\ log \in Logs /\ k \in Keys
        BY <1>1 DEF MayStop, LawInv, LogSound, Keys
  <2>2. mid.map[k] = Append(log.map[k], [start |-> log.queue[i].start, op |-> "READ"])
        BY <1>1, <2>1 DEF access_process, Logs
  <2>3. QED  BY <2>1, <2>2
<1>5. MayStop(mid, a, p) /\ Head(mid.map[k]).start = log.queue[i].start
      BY <1>4 DEF MayStop
<1> HIDE DEF mid, i
<1>6. d = clock - Head(mid.map[<<a, p>>]).start  BY <1>5
<1>7. /\ LogSound(log', clock)
      /\ WaitCells(log', clock) = WaitCells(mid, clock)
      /\ MapCells(log', clock) + d = MapCells(mid, clock)
  <2>1. clock \in Nat  BY DEF LawInv
  <2> HIDE DEF d
  <2>2. QED  BY <1>1, <1>3, <1>5, <1>6, <2>1, StopSound
<1> HIDE DEF d
<1>8. /\ t1 \in [Fields -> Int] /\ StopLatencies(t1) = StopLatencies(totals)
      /\ t1["average_queue_latency"] = totals["average_queue_latency"] + d
  <2>1. fs \cap (LatencyFields \cup {"average_queue_latency"}) = {}  BY DEF LatencyFields
  <2> HIDE DEF fs
  <2>2. QED  BY <1>3, <2>1, QueueLatencyAdded DEF LawInv
<1> HIDE DEF t1
<1>9. /\ totals' \in [Fields -> Int] /\ StopLatencies(totals') = StopLatencies(t1) + d
      /\ totals'["average_queue_latency"] = t1["average_queue_latency"]
      BY <1>1, <1>2, <1>3, <1>8, StoppedAdds DEF LawInv
<1>10. /\ WaitCells(log, clock) \in Nat /\ MapCells(log, clock) \in Nat
       /\ WaitCells(log', clock) \in Nat /\ MapCells(log', clock) \in Nat
       BY <1>7, CellsSizeTypes DEF LawInv
<1>11. StopLatencies(totals) \in Int /\ totals["average_queue_latency"] \in Int
       BY StopLatenciesType DEF LawInv
<1>12. WaitCells(log', clock) + d = WaitCells(log, clock)
       /\ MapCells(log', clock) = MapCells(log, clock)
       BY <1>3, <1>7, <1>10
<1>13. Law'
  <2>1. residence' = residence /\ clock' = clock  BY <1>1
  <2>2. residence.waiting = totals["average_queue_latency"] + WaitCells(log, clock)
        /\ residence.all = StopLatencies(totals) + WaitCells(log, clock) + MapCells(log, clock)
        BY DEF LawInv, Law
  <2>3. residence.waiting = totals'["average_queue_latency"] + WaitCells(log', clock)
        BY <1>3, <1>8, <1>9, <1>10, <1>11, <1>12, <2>2
  <2>4. residence.all = StopLatencies(totals') + WaitCells(log', clock) + MapCells(log', clock)
        BY <1>3, <1>8, <1>9, <1>10, <1>11, <1>12, <2>2
  <2>5. QED  BY <2>1, <2>3, <2>4 DEF Law
<1>14. QED  BY <1>1, <1>7, <1>9, <1>13 DEF LawInv

LEMMA IdleAmounts == Amounts(IdleEnergy) /\ NoLatency(IdleEnergy)
<1> DEFINE fs == {"idle_energy"} \cup IF HasVpp THEN {"vpp_idle_energy"} ELSE {}
<1>1. fs \cap (LatencyFields \cup {"average_queue_latency"}) = {}  BY DEF LatencyFields
<1> HIDE DEF fs
<1>2. Amounts(Ones(fs)) /\ NoLatency(Ones(fs))  BY <1>1, OnesAmounts DEF NoLatency
<1>3. QED  BY <1>2 DEF IdleEnergy, fs

LEMMA LawTick ==
    ASSUME LawInv, Tick
    PROVE  LawInv'
<1>1. /\ clock' = clock + 1 /\ totals' = Plus(totals, IdleEnergy)
      /\ residence' = [all |-> residence.all + UnderWay,
                       waiting |-> residence.waiting + Len(log.queue)]
      /\ UNCHANGED <<config, log>>
      BY DEF Tick
<1> DEFINE under == Cardinality(AccessesAmong(log.map, Keys))
<1>2. /\ LogSound(log, clock + 1)
      /\ WaitCells(log, clock + 1) = WaitCells(log, clock) + Len(log.queue)
      /\ MapCells(log, clock + 1) = MapCells(log, clock) + under
      /\ under \in Nat /\ Len(log.queue) \in Nat
      BY TickSound DEF LawInv
<1>3. UnderWay = Len(log.queue) + under  BY DEF UnderWay, AccessesAmong
<1> HIDE DEF under
<1>4. /\ totals' \in [Fields -> Int] /\ StopLatencies(totals') = StopLatencies(totals)
      /\ totals'["average_queue_latency"] = totals["average_queue_latency"]
  <2>1. totals' \in [Fields -> Int] /\ SameLatencies(totals, totals')
        BY <1>1, IdleAmounts, PlusType DEF LawInv
  <2>2. QED  BY <2>1, SameStopLatencies
<1>5. WaitCells(log, clock) \in Nat /\ MapCells(log, clock) \in Nat
      BY CellsSizeTypes DEF LawInv
<1>6. StopLatencies(totals) \in Int /\ totals["average_queue_latency"] \in Int
      BY StopLatenciesType DEF LawInv
<1>7. /\ residence.waiting = totals["average_queue_latency"] + WaitCells(log, clock)
      /\ residence.all = StopLatencies(totals) + WaitCells(log, clock) + MapCells(log, clock)
      /\ residence.waiting \in Int /\ residence.all \in Int
      BY DEF LawInv, Law
<1>8. /\ residence'.waiting = residence.waiting + Len(log.queue)
      /\ residence'.all = residence.all + (Len(log.queue) + under)
      /\ residence' \in [all : Int, waiting : Int]
      BY <1>1, <1>2, <1>3, <1>7
<1>9. residence'.waiting = totals'["average_queue_latency"] + WaitCells(log, clock + 1)
  <2>1. residence'.waiting
            = totals["average_queue_latency"] + WaitCells(log, clock) + Len(log.queue)
        BY <1>7, <1>8
  <2>2. totals["average_queue_latency"] + (WaitCells(log, clock) + Len(log.queue))
            = totals["average_queue_latency"] + WaitCells(log, clock) + Len(log.queue)
        BY <1>2, <1>5, <1>6
  <2>3. QED  BY <1>2, <1>4, <2>1, <2>2
<1>10. residence'.all = StopLatencies(totals') + WaitCells(log, clock + 1)
                            + MapCells(log, clock + 1)
       BY <1>2, <1>4, <1>5, <1>6, <1>7, <1>8
<1>11. Law'  BY <1>1, <1>9, <1>10 DEF Law
<1>12. clock' \in Nat /\ LogSound(log', clock')  BY <1>1, <1>2 DEF LawInv
<1>13. QED  BY <1>1, <1>4, <1>8, <1>11, <1>12 DEF LawInv

LEMMA LawNext == LawInv /\ [Next]_vars => LawInv'
<1> SUFFICES ASSUME LawInv, [Next]_vars PROVE LawInv'  OBVIOUS
<1>1. ASSUME NEW a \in LogAddr, NEW gc \in BOOLEAN, Arrive(a, gc)  PROVE LawInv'
      BY <1>1, LawArrive
<1>2. ASSUME NEW a \in LogAddr, NEW p \in LogPage, NEW op \in Ops, Process(a, p, op)
      PROVE  LawInv'
      BY <1>2, LawProcess
<1>3. ASSUME NEW a \in LogAddr, NEW p \in LogPage, ReadUnmapped(a, p)  PROVE LawInv'
      BY <1>3, LawReadUnmapped
<1>4. ASSUME NEW a \in LogAddr, NEW p \in LogPage, Stop(a, p)  PROVE LawInv'
      BY <1>4, LawStop
<1>5. CASE Tick  BY <1>5, LawTick
<1>6. CASE UNCHANGED <<config, clock, log, totals, residence>>
      BY <1>6 DEF LawInv, Law
<1>7. CASE Save  BY <1>6, <1>7 DEF Save, countVars
<1>8. CASE UNCHANGED vars  BY <1>6, <1>8 DEF vars, countVars
<1>9. QED  BY <1>1, <1>2, <1>3, <1>4, <1>5, <1>7, <1>8 DEF Next

(* Little's law, for every sequence of calls: the latencies that the       *)
(* logger counts and the cycles of the accesses under way are the cycles   *)
(* that accesses spent, although equal addresses are told apart by order   *)
(* only (Logger.cpp:191-203, 245-283).                                     *)
THEOREM LittlesLawHolds == Spec => []LittlesLaw
<1>1. LawInv => LittlesLaw  BY LawIs DEF LawInv
<1>2. QED  BY <1>1, LawInit, LawNext, PTL DEF Spec

-----------------------------------------------------------------------------
(* The epochs.                                                             *)

ReportQueues == {"ftl"} \cup IF CountsGc THEN {"gc"} ELSE {}
EpochRecords == [epoch : Nat, cycle : Int, totals : [Fields -> Int], lengths : [Queues -> Nat]]
SavedRecords ==
    [epoch : Nat, cycle : Int,
     totals : UNION {[F -> Int] : F \in {G \in SUBSET Fields : Captured \subseteq G}},
     lengths : UNION {[Q -> Nat] : Q \in {P \in SUBSET Queues : ReportQueues \subseteq P}}]

LEMMA CapturedAreFields ==
    ASSUME config \in Configurations
    PROVE  Captured \subseteq Fields /\ ReportQueues \subseteq Queues
<1>1. kind \in Kinds  BY ConfigType
<1>2. Captured \subseteq Fields
      BY <1>1 DEF Captured, Kinds, Fields, P8PGCLoggerFields, GCLoggerFields, LoggerFields,
                  P8PLoggerFields, Energies
<1>3. ReportQueues \subseteq Queues  BY DEF ReportQueues, Queues
<1>4. QED  BY <1>2, <1>3

LEMMA SavedRecordFields ==
    ASSUME NEW e \in SavedRecords
    PROVE  /\ e.epoch \in Nat /\ e.cycle \in Int
           /\ \A f \in Captured : e.totals[f] \in Int
           /\ \A q \in ReportQueues : e.lengths[q] \in Nat
<1>1. /\ e.epoch \in Nat /\ e.cycle \in Int
      /\ e.totals \in UNION {[F -> Int] : F \in {G \in SUBSET Fields : Captured \subseteq G}}
      /\ e.lengths \in UNION {[Q -> Nat] : Q \in {P \in SUBSET Queues : ReportQueues \subseteq P}}
      BY DEF SavedRecords
<1>2. PICK F \in {G \in SUBSET Fields : Captured \subseteq G} : e.totals \in [F -> Int]  BY <1>1
<1>3. PICK Q \in {P \in SUBSET Queues : ReportQueues \subseteq P} : e.lengths \in [Q -> Nat]
      BY <1>1
<1>4. QED  BY <1>1, <1>2, <1>3

LEMMA EpochsAreSavedRecords ==
    ASSUME config \in Configurations, NEW e \in EpochRecords
    PROVE  e \in SavedRecords
<1>1. /\ Fields \in {G \in SUBSET Fields : Captured \subseteq G}
      /\ Queues \in {P \in SUBSET Queues : ReportQueues \subseteq P}
      BY CapturedAreFields
<1>2. e = [epoch |-> e.epoch, cycle |-> e.cycle, totals |-> e.totals, lengths |-> e.lengths]
      /\ e.epoch \in Nat /\ e.cycle \in Int
      /\ e.totals \in [Fields -> Int] /\ e.lengths \in [Queues -> Nat]
      BY DEF EpochRecords
<1>3. /\ e.totals \in UNION {[F -> Int] : F \in {G \in SUBSET Fields : Captured \subseteq G}}
      /\ e.lengths \in UNION {[Q -> Nat] : Q \in {P \in SUBSET Queues : ReportQueues \subseteq P}}
      BY <1>1, <1>2
<1>4. QED  BY <1>2, <1>3 DEF SavedRecords

(* What the file tells of an epoch.                                        *)
LEMMA ReportSound ==
    ASSUME NEW e \in EpochRecords, NEW F \in SUBSET Fields, NEW Q \in SUBSET Queues,
           Captured \subseteq F, ReportQueues \subseteq Q,
           NEW r, r = Report(e, F, Q)
    PROVE  /\ r \in SavedRecords /\ r.epoch = e.epoch /\ r.cycle = e.cycle
           /\ \A f \in Captured : r.totals[f] = e.totals[f]
           /\ \A q \in ReportQueues : r.lengths[q] = e.lengths[q]
<1>1. r = [epoch |-> e.epoch, cycle |-> e.cycle, totals |-> [f \in F |-> e.totals[f]],
           lengths |-> [q \in Q |-> e.lengths[q]]]
      BY DEF Report, EpochRecords
<1>2. /\ e.epoch \in Nat /\ e.cycle \in Int
      /\ e.totals \in [Fields -> Int] /\ e.lengths \in [Queues -> Nat]
      BY DEF EpochRecords
<1>3. [f \in F |-> e.totals[f]] \in [F -> Int] /\ [q \in Q |-> e.lengths[q]] \in [Q -> Nat]
      BY <1>2
<1>4. /\ r.epoch = e.epoch /\ r.cycle = e.cycle
      /\ r.totals = [f \in F |-> e.totals[f]] /\ r.lengths = [q \in Q |-> e.lengths[q]]
      BY <1>1
<1>5. r \in SavedRecords
  <2>1. /\ r.totals \in UNION {[G -> Int] : G \in {H \in SUBSET Fields : Captured \subseteq H}}
        /\ r.lengths \in UNION {[P -> Nat] : P \in {O \in SUBSET Queues : ReportQueues \subseteq O}}
        BY <1>3, <1>4
  <2>2. r = [epoch |-> r.epoch, cycle |-> r.cycle, totals |-> r.totals, lengths |-> r.lengths]
        BY <1>1, <1>4
  <2>3. QED  BY <1>2, <1>4, <2>1, <2>2 DEF SavedRecords
<1>6. QED  BY <1>4, <1>5

LEMMA ReportedSound ==
    ASSUME config \in Configurations, NEW e \in EpochRecords
    PROVE  /\ Reported(e) \in SavedRecords
           /\ Reported(e).epoch = e.epoch /\ Reported(e).cycle = e.cycle
           /\ \A f \in Captured : Reported(e).totals[f] = e.totals[f]
           /\ \A q \in ReportQueues : Reported(e).lengths[q] = e.lengths[q]
<1>1. kind \in Kinds  BY ConfigType
<1>2. \E F \in SUBSET Fields : \E Q \in SUBSET Queues :
          /\ Captured \subseteq F /\ ReportQueues \subseteq Q
          /\ Reported(e) = Report(e, F, Q)
  <2>1. /\ LoggerFields \subseteq Fields
        /\ GCLoggerFields \cup {"erase_energy"} \subseteq Fields
        /\ P8PLoggerFields \subseteq Fields /\ P8PGCLoggerFields \subseteq Fields
        BY DEF Fields, P8PGCLoggerFields, GCLoggerFields, LoggerFields, P8PLoggerFields, Energies
  <2>2. {"ftl"} \subseteq Queues  BY DEF Queues
  <2>3. CASE kind = "Logger"
    <3>1. Captured = LoggerFields /\ ReportQueues = {"ftl"}
          BY <2>3 DEF Captured, ReportQueues, CountsGc
    <3>2. Reported(e) = Report(e, LoggerFields, {"ftl"})
          BY <2>3 DEF Reported, LoggerReport
    <3>3. QED  BY <2>1, <2>2, <3>1, <3>2
  <2>4. CASE kind = "GCLogger"
    <3>1. Captured \subseteq GCLoggerFields \cup {"erase_energy"} /\ ReportQueues = Queues
          BY <2>4 DEF Captured, ReportQueues, CountsGc, Queues
    <3>2. Reported(e) = Report(e, GCLoggerFields \cup {"erase_energy"}, Queues)
          BY <2>4 DEF Reported, GCLoggerReport
    <3>3. QED  BY <2>1, <3>1, <3>2
  <2>5. CASE kind = "P8PLogger"
    <3>1. Captured = P8PLoggerFields /\ ReportQueues = {"ftl"}
          BY <2>5 DEF Captured, ReportQueues, CountsGc
    <3>2. Reported(e) = Report(e, P8PLoggerFields, {"ftl"})
          BY <2>5 DEF Reported, P8PLoggerReport
    <3>3. QED  BY <2>1, <2>2, <3>1, <3>2
  <2>6. CASE kind = "P8PGCLogger"
    <3>1. Captured = P8PGCLoggerFields /\ ReportQueues = Queues
          BY <2>6 DEF Captured, ReportQueues, CountsGc, Queues
    <3>2. Reported(e) = Report(e, P8PGCLoggerFields, Queues)
          BY <2>6 DEF Reported, P8PGCLoggerReport
    <3>3. QED  BY <2>1, <3>1, <3>2
  <2>7. QED  BY <1>1, <2>3, <2>4, <2>5, <2>6 DEF Kinds
<1>3. PICK F \in SUBSET Fields : \E Q \in SUBSET Queues :
          /\ Captured \subseteq F /\ ReportQueues \subseteq Q
          /\ Reported(e) = Report(e, F, Q)
      BY <1>2
<1>4. PICK Q \in SUBSET Queues :
          /\ Captured \subseteq F /\ ReportQueues \subseteq Q
          /\ Reported(e) = Report(e, F, Q)
      BY <1>3
<1>5. QED  BY <1>4, ReportSound

(* One number of each record of a sequence.                                *)
Numbers(g, s) == [i \in DOMAIN s |-> g[s[i]]]

LEMMA NumbersType ==
    ASSUME NEW R, NEW g \in [R -> Int], NEW s \in Seq(R)
    PROVE  Numbers(g, s) \in Seq(Int)
<1>1. Len(s) \in Nat /\ DOMAIN s = 1 .. Len(s) /\ \A i \in 1 .. Len(s) : s[i] \in R
      BY LenProperties, ElementOfSeq
<1>2. \A i \in 1 .. Len(s) : g[s[i]] \in Int  BY <1>1
<1>3. Numbers(g, s) \in [1 .. Len(s) -> Int]  BY <1>1, <1>2 DEF Numbers
<1>4. QED  BY <1>1, <1>3, SeqDef

TotalDiffersBy(g, s, v, e) == Total(Numbers(g, v)) = Total(Numbers(g, s)) + g[e]

LEMMA NumbersGrow ==
    ASSUME NEW R, NEW g \in [R -> Int], NEW s \in Seq(R), NEW e \in R, NEW v,
           v = Append(s, e) \/ v = <<e>> \o s
    PROVE  v \in Seq(R) /\ Len(v) = Len(s) + 1 /\ TotalDiffersBy(g, s, v, e)
<1> DEFINE n == Len(s)
           ns == Numbers(g, s)
<1>1. n \in Nat /\ DOMAIN s = 1 .. n  BY LenProperties
<1>2. ns \in Seq(Int) /\ Len(ns) = n /\ \A i \in 1 .. n : ns[i] = g[s[i]]
  <2>1. ns \in Seq(Int)  BY NumbersType
  <2>2. DOMAIN ns = 1 .. n /\ \A i \in 1 .. n : ns[i] = g[s[i]]  BY <1>1 DEF Numbers
  <2> HIDE DEF ns
  <2>3. QED  BY <1>1, <2>1, <2>2, LenProperties
<1>3. g[e] \in Int  OBVIOUS
<1>4. CASE v = Append(s, e)
  <2>1. /\ v \in Seq(R) /\ Len(v) = n + 1 /\ DOMAIN v = 1 .. n + 1
        /\ v[n + 1] = e /\ \A i \in 1 .. n : v[i] = s[i]
        BY <1>4, AppendProperties, LenProperties
  <2> HIDE DEF ns
  <2>2. /\ Append(ns, g[e]) \in Seq(Int) /\ DOMAIN Append(ns, g[e]) = 1 .. n + 1
        /\ Append(ns, g[e])[n + 1] = g[e] /\ \A i \in 1 .. n : Append(ns, g[e])[i] = ns[i]
        BY <1>2, <1>3, AppendProperties, LenProperties
  <2>3. Numbers(g, v) = Append(ns, g[e])
    <3>1. DOMAIN Numbers(g, v) = 1 .. n + 1 /\ \A i \in 1 .. n + 1 : Numbers(g, v)[i] = g[v[i]]
          BY <2>1 DEF Numbers
    <3>2. \A i \in 1 .. n + 1 : i = n + 1 \/ i \in 1 .. n  BY <1>1
    <3>3. \A i \in 1 .. n + 1 : Numbers(g, v)[i] = Append(ns, g[e])[i]
          BY <1>2, <2>1, <2>2, <3>1, <3>2
    <3>4. Numbers(g, v) \in Seq(Int)  BY <2>1, NumbersType
    <3>5. Len(Numbers(g, v)) = n + 1 /\ Len(Append(ns, g[e])) = n + 1
          BY <1>1, <2>2, <3>1, <3>4, LenProperties
    <3>6. QED  BY <2>2, <3>3, <3>4, <3>5, SeqEqual
  <2>4. QED  BY <1>2, <1>3, <2>1, <2>3, TotalAppend DEF ns, TotalDiffersBy
<1>5. CASE v = <<e>> \o s
  <2>1. <<e>> \in Seq(R) /\ Len(<<e>>) = 1 /\ <<e>>[1] = e  BY SingletonSeq
  <2>2. /\ v \in Seq(R) /\ Len(v) = 1 + n
        /\ \A i \in 1 .. 1 + n : v[i] = IF i <= 1 THEN <<e>>[i] ELSE s[i - 1]
        BY <1>5, <2>1, ConcatProperties
  <2> HIDE DEF ns
  <2>3. <<g[e]>> \in Seq(Int) /\ Len(<<g[e]>>) = 1 /\ <<g[e]>>[1] = g[e]
        BY <1>3, SingletonSeq
  <2> DEFINE c == <<g[e]>> \o ns
  <2>4. /\ c \in Seq(Int) /\ Len(c) = 1 + n
        /\ \A i \in 1 .. 1 + n : c[i] = IF i <= 1 THEN <<g[e]>>[i] ELSE ns[i - 1]
        BY <1>2, <2>3, ConcatProperties
  <2>5. Numbers(g, v) \in Seq(Int)  BY <2>2, NumbersType
  <2>6. DOMAIN v = 1 .. 1 + n  BY <2>2, LenProperties
  <2>7. DOMAIN Numbers(g, v) = 1 .. 1 + n /\ \A i \in 1 .. 1 + n : Numbers(g, v)[i] = g[v[i]]
        BY <2>6 DEF Numbers
  <2>8. Len(Numbers(g, v)) = 1 + n  BY <1>1, <2>5, <2>7, LenProperties
  <2> HIDE DEF c
  <2>9. \A i \in 1 .. 1 + n : Numbers(g, v)[i] = c[i]
    <3> SUFFICES ASSUME NEW i \in 1 .. 1 + n PROVE Numbers(g, v)[i] = c[i]  OBVIOUS
    <3>1. CASE i = 1
      <4>1. v[1] = e /\ c[1] = g[e]  BY <2>1, <2>2, <2>3, <2>4, <3>1
      <4>2. QED  BY <2>7, <3>1, <4>1
    <3>2. CASE i # 1
      <4>1. ~(i <= 1) /\ i - 1 \in 1 .. n  BY <1>1, <3>2
      <4>2. v[i] = s[i - 1] /\ c[i] = ns[i - 1] /\ ns[i - 1] = g[s[i - 1]]
            BY <1>2, <2>2, <2>4, <4>1
      <4>3. QED  BY <2>7, <4>2
    <3>3. QED  BY <3>1, <3>2
  <2>10. Numbers(g, v) = c  BY <2>4, <2>5, <2>8, <2>9, SeqEqual
  <2>11. Len(v) = n + 1  BY <1>1, <2>2
  <2>12. QED  BY <1>2, <1>3, <2>2, <2>10, <2>11, TotalCons DEF ns, c, TotalDiffersBy
<1>6. QED  BY <1>4, <1>5

EpochTypes ==
    /\ queue_length \in [Queues -> Nat] /\ max_queue_length \in [Queues -> Nat]
    /\ gc_waiting \in Int
    /\ last_epoch \in EpochRecords /\ epoch_count \in Nat
    /\ epoch_count = 0 => last_epoch = NoEpoch
    /\ epoch_queue \in Seq(EpochRecords)

RuntimeFile ==
    runtime_write =>
        IF epoch_count = 0 THEN file = <<Stale>>
        ELSE /\ file \in Seq(SavedRecords) /\ Len(file) = epoch_count
             /\ \A i \in 1 .. epoch_count : file[i].epoch = i - 1

(* epoch_queue, and the file that a save leaves.                           *)
QueueOfEpochs ==
    ~runtime_write =>
        /\ Len(epoch_queue) = epoch_count
        /\ \A i \in 1 .. epoch_count : epoch_queue[i].epoch = epoch_count - i

FileOfEpochs(f, reports) ==
    /\ f # <<>> /\ f[1] = Stale
    /\ Len(f) > 1 => f[Len(f)].epoch = 0
    /\ \A i \in 2 .. Len(f) :
          /\ f[i] \in reports
          /\ i < Len(f) /\ f[i].epoch # 0 => f[i + 1].epoch = f[i].epoch - 1
Reports == {Reported(epoch_queue[j]) : j \in DOMAIN epoch_queue}
SavedFile ==
    ~runtime_write => file \in Seq(SavedRecords \cup {Stale}) /\ FileOfEpochs(file, Reports)

FileInv == LawInv /\ EpochTypes /\ RuntimeFile /\ QueueOfEpochs /\ SavedFile

LEMMA ConfigKept ==
    ASSUME UNCHANGED config
    PROVE  /\ kind' = kind /\ runtime_write' = runtime_write
           /\ Captured' = Captured /\ ReportQueues' = ReportQueues
           /\ SavedRecords' = SavedRecords
           /\ \A e : Reported(e)' = Reported(e)
<1>1. kind' = kind /\ runtime_write' = runtime_write  BY DEF kind, runtime_write
<1>2. Captured' = Captured /\ ReportQueues' = ReportQueues
      BY <1>1 DEF Captured, ReportQueues, CountsGc
<1>3. SavedRecords' = SavedRecords  BY <1>2 DEF SavedRecords
<1>4. \A e : Reported(e)' = Reported(e)  BY <1>1 DEF Reported
<1>5. QED  BY <1>1, <1>2, <1>3, <1>4

LEMMA SavedType ==
    ASSUME FileInv
    PROVE  /\ Saved \in Seq(SavedRecords)
           /\ epoch_count = 0 => Saved = <<>>
<1>1. config \in Configurations /\ runtime_write \in BOOLEAN
      BY ConfigType DEF FileInv, LawInv
<1>2. CASE runtime_write
  <2>1. Saved = IF epoch_count = 0 THEN <<>> ELSE file  BY <1>2 DEF Saved, Written
  <2>2. QED  BY <1>2, <2>1, EmptySeq DEF FileInv, RuntimeFile
<1>3. CASE ~runtime_write
  <2>1. Saved = epoch_queue  BY <1>3 DEF Saved
  <2>2. epoch_queue \in Seq(EpochRecords) /\ EpochRecords \subseteq SavedRecords
        BY <1>1, EpochsAreSavedRecords DEF FileInv, EpochTypes
  <2>3. epoch_queue \in Seq(SavedRecords)  BY <2>2, SeqMonotonic
  <2>4. epoch_count = 0 => epoch_queue = <<>>
        BY <1>3, <2>2, EmptySeq DEF FileInv, QueueOfEpochs
  <2>5. QED  BY <2>1, <2>3, <2>4
<1>4. QED  BY <1>1, <1>2, <1>3

(* The lengths of queues.                                                  *)
LEMMA LongestType ==
    ASSUME NEW lengths \in [Queues -> Nat], NEW sample, \A q \in DOMAIN sample : sample[q] \in Int
    PROVE  Longest(lengths, sample) \in [Queues -> Nat]
<1>1. \A q \in Queues : q \in DOMAIN sample /\ sample[q] > lengths[q] => sample[q] \in Nat
  <2> SUFFICES ASSUME NEW q \in Queues, q \in DOMAIN sample, sample[q] > lengths[q]
               PROVE  sample[q] \in Nat
      OBVIOUS
  <2>1. sample[q] \in Int /\ lengths[q] \in Nat  OBVIOUS
  <2>2. QED  BY <2>1
<1>2. QED  BY <1>1 DEF Longest

LEMMA SampleType ==
    ASSUME LawInv, gc_waiting \in Int
    PROVE  \A q \in DOMAIN Sample : Sample[q] \in Int
<1>1. Len(log.queue) \in Nat
  <2>1. log.queue \in Seq(WaitingAccesses)  BY DEF LawInv, LogSound, Logs
  <2>2. QED  BY <2>1, LenProperties
<1>2. Len(log.queue) - gc_waiting \in Int  BY <1>1
<1>3. QED  BY <1>2 DEF Sample

(* The epoch that ends.                                                    *)
LEMMA ThisEpoch ==
    ASSUME FileInv, LawInv', Tick, EpochOver,
           NEW lengths, lengths = Longest(queue_length, Sample),
           NEW now, now = Snapshot(lengths), NEW this, this = SinceLast(now)
    PROVE  /\ lengths \in [Queues -> Nat]
           /\ now \in EpochRecords /\ now.cycle = clock'
           /\ \A f \in Captured : now.totals[f] = totals'[f]
           /\ this \in EpochRecords /\ this.epoch = epoch_count
           /\ this.cycle = clock' - last_epoch.cycle
           /\ \A f \in Captured : this.totals[f] = totals'[f] - last_epoch.totals[f]
           /\ this.lengths = lengths
<1>1. lengths \in [Queues -> Nat]
      BY SampleType, LongestType DEF FileInv, EpochTypes
<1>2. /\ clock' \in Nat /\ totals' \in [Fields -> Int]
      BY DEF LawInv
<1>3. UNCHANGED config  BY DEF Tick
<1>4. Captured \subseteq Fields  BY CapturedAreFields DEF FileInv, LawInv
<1> DEFINE sums == [f \in Fields |-> IF f \in Captured THEN totals'[f] ELSE 0]
<1>5. now = [epoch |-> epoch_count, cycle |-> clock', totals |-> sums, lengths |-> lengths]
      BY DEF Snapshot
<1>6. sums \in [Fields -> Int] /\ \A f \in Captured : sums[f] = totals'[f]  BY <1>2, <1>4
<1> HIDE DEF sums
<1>7. /\ epoch_count \in Nat /\ last_epoch \in EpochRecords
      /\ epoch_count = 0 => last_epoch = NoEpoch
      BY DEF FileInv, EpochTypes
<1>8. now \in EpochRecords  BY <1>1, <1>2, <1>5, <1>6, <1>7 DEF EpochRecords
<1>9. CASE epoch_count = 0
  <2>1. this = now  BY <1>5, <1>9 DEF SinceLast
  <2>2. last_epoch.cycle = 0 /\ \A f \in Fields : last_epoch.totals[f] = 0
        BY <1>7, <1>9 DEF NoEpoch, NoTotals
  <2>3. \A f \in Captured : f \in Fields /\ totals'[f] \in Int  BY <1>2, <1>4
  <2>4. QED  BY <1>1, <1>2, <1>5, <1>6, <1>8, <2>1, <2>2, <2>3
<1>10. CASE epoch_count # 0
  <2> DEFINE rest == [f \in Fields |-> sums[f] - last_epoch.totals[f]]
  <2>1. this = [epoch |-> epoch_count, cycle |-> clock' - last_epoch.cycle, totals |-> rest,
                lengths |-> lengths]
    <3>1. now.epoch = epoch_count /\ now.cycle = clock' /\ now.totals = sums
          BY <1>5
    <3>2. this = [now EXCEPT !.cycle = now.cycle - last_epoch.cycle,
                             !.totals = [f \in Fields |-> now.totals[f] - last_epoch.totals[f]]]
          BY <1>10, <3>1 DEF SinceLast
    <3>3. this = [now EXCEPT !.cycle = clock' - last_epoch.cycle, !.totals = rest]
          BY <3>1, <3>2
    <3> DEFINE c == clock'
               d == clock' - last_epoch.cycle
    <3>4. /\ now = [epoch |-> epoch_count, cycle |-> c, totals |-> sums, lengths |-> lengths]
          /\ this = [now EXCEPT !.cycle = d, !.totals = rest]
          BY <1>5, <3>3
    <3> HIDE DEF rest, c, d
    <3> DEFINE longer == [now EXCEPT !.cycle = d]
    <3>5. longer = [epoch |-> epoch_count, cycle |-> d, totals |-> sums, lengths |-> lengths]
          BY <3>4
    <3>6. this = [longer EXCEPT !.totals = rest]  BY <3>4
    <3> HIDE DEF longer
    <3>7. QED  BY <3>5, <3>6 DEF d
  <2>2. last_epoch.cycle \in Int /\ last_epoch.totals \in [Fields -> Int]
        BY <1>7 DEF EpochRecords
  <2>3. rest \in [Fields -> Int] /\ \A f \in Fields : rest[f] = sums[f] - last_epoch.totals[f]
        BY <1>6, <2>2
  <2> HIDE DEF rest
  <2>4. clock' - last_epoch.cycle \in Int  BY <1>2, <2>2
  <2>5. this \in EpochRecords  BY <1>1, <1>7, <2>1, <2>3, <2>4 DEF EpochRecords
  <2>6. \A f \in Captured : this.totals[f] = totals'[f] - last_epoch.totals[f]
        BY <1>4, <1>6, <2>1, <2>3
  <2>7. QED  BY <1>1, <1>5, <1>6, <1>8, <2>1, <2>5, <2>6
<1>11. QED  BY <1>9, <1>10

LEMMA EpochEnding ==
    ASSUME FileInv, Tick, EpochOver
    PROVE  LET lengths == Longest(queue_length, Sample)
               this == SinceLast(Snapshot(lengths))
           IN  /\ IF runtime_write THEN file' = write_epoch(file, this) /\ UNCHANGED epoch_queue
                  ELSE epoch_queue' = <<this>> \o epoch_queue /\ UNCHANGED file
               /\ last_epoch' = Snapshot(lengths)
               /\ queue_length' = [q \in Queues |-> 0]
               /\ epoch_count' = epoch_count + 1
BY DEF Tick, EpochEnds, save_epoch

(* The file with RUNTIME_WRITE, one epoch longer.                          *)
LEMMA FileGrows ==
    ASSUME FileInv, runtime_write, NEW this \in EpochRecords, this.epoch = epoch_count,
           file' = write_epoch(file, this)
    PROVE  /\ file' = Append(Saved, Reported(this))
           /\ file' \in Seq(SavedRecords) /\ Len(file') = epoch_count + 1
           /\ \A i \in 1 .. epoch_count + 1 : file'[i].epoch = i - 1
<1>1. Saved = IF epoch_count = 0 THEN <<>> ELSE file  BY DEF Saved, Written
<1>2. file' = Append(Saved, Reported(this))
  <2>1. CASE epoch_count = 0
    <3>1. Append(<<>>, Reported(this)) = <<Reported(this)>>  OBVIOUS
    <3>2. QED  BY <1>1, <2>1, <3>1 DEF write_epoch
  <2>2. CASE epoch_count # 0  BY <1>1, <2>2 DEF write_epoch
  <2>3. QED  BY <2>1, <2>2
<1>3. Reported(this) \in SavedRecords /\ Reported(this).epoch = epoch_count
      BY ReportedSound DEF FileInv, LawInv
<1>4. Saved \in Seq(SavedRecords)  BY SavedType
<1>5. epoch_count \in Nat  BY DEF FileInv, EpochTypes
<1>6. Len(Saved) = epoch_count /\ \A i \in 1 .. epoch_count : Saved[i].epoch = i - 1
  <2>1. CASE epoch_count = 0
    <3>1. Saved = <<>> /\ Len(<<>>) = 0  BY <1>1, <2>1, EmptySeq
    <3>2. QED  BY <2>1, <3>1
  <2>2. CASE epoch_count # 0  BY <1>1, <2>2 DEF FileInv, RuntimeFile
  <2>3. QED  BY <2>1, <2>2
<1> DEFINE s == Saved
           r == Reported(this)
<1> HIDE DEF s, r
<1>7. /\ Append(s, r) \in Seq(SavedRecords) /\ Len(Append(s, r)) = epoch_count + 1
      /\ Append(s, r)[epoch_count + 1] = r
      /\ \A i \in 1 .. epoch_count : Append(s, r)[i] = s[i]
      BY <1>3, <1>4, <1>6, AppendProperties DEF s, r
<1>8. \A i \in 1 .. epoch_count + 1 : i = epoch_count + 1 \/ i \in 1 .. epoch_count
      BY <1>5
<1>9. \A i \in 1 .. epoch_count + 1 : Append(s, r)[i].epoch = i - 1
  <2> SUFFICES ASSUME NEW i \in 1 .. epoch_count + 1 PROVE Append(s, r)[i].epoch = i - 1
      OBVIOUS
  <2>1. CASE i = epoch_count + 1
    <3>1. i - 1 = epoch_count  BY <1>5, <2>1
    <3>2. QED  BY <1>3, <1>7, <2>1, <3>1 DEF r
  <2>2. CASE i \in 1 .. epoch_count
    <3>1. Append(s, r)[i] = s[i] /\ s[i].epoch = i - 1  BY <1>6, <1>7, <2>2 DEF s
    <3>2. QED  BY <3>1
  <2>3. QED  BY <1>8, <2>1, <2>2
<1>10. QED  BY <1>2, <1>7, <1>9 DEF s, r

(* epoch_queue, one epoch longer.                                          *)
LEMMA QueueGrows ==
    ASSUME FileInv, ~runtime_write, NEW this \in EpochRecords, this.epoch = epoch_count,
           epoch_queue' = <<this>> \o epoch_queue
    PROVE  /\ epoch_queue' \in Seq(EpochRecords) /\ Len(epoch_queue') = epoch_count + 1
           /\ \A i \in 1 .. epoch_count + 1 : epoch_queue'[i].epoch = epoch_count + 1 - i
           /\ \A j \in DOMAIN epoch_queue : \E i \in DOMAIN epoch_queue' :
                 epoch_queue'[i] = epoch_queue[j]
<1> DEFINE s == epoch_queue
           v == epoch_queue'
           n == epoch_count
<1>1. /\ s \in Seq(EpochRecords) /\ Len(s) = n /\ n \in Nat
      /\ \A i \in 1 .. n : s[i].epoch = n - i
      BY DEF FileInv, EpochTypes, QueueOfEpochs
<1>2. v = <<this>> \o s /\ this.epoch = n  OBVIOUS
<1>3. <<this>> \in Seq(EpochRecords) /\ Len(<<this>>) = 1 /\ <<this>>[1] = this
      BY SingletonSeq
<1> HIDE DEF s, v, n
<1>4. /\ v \in Seq(EpochRecords) /\ Len(v) = 1 + n
      /\ \A i \in 1 .. 1 + n : v[i] = IF i <= 1 THEN <<this>>[i] ELSE s[i - 1]
      BY <1>1, <1>2, <1>3, ConcatProperties
<1>5. DOMAIN s = 1 .. n /\ DOMAIN v = 1 .. 1 + n  BY <1>1, <1>4, LenProperties
<1>6. v[1] = this  BY <1>1, <1>3, <1>4
<1>7. \A i \in 1 .. n : i + 1 \in 1 .. 1 + n /\ v[i + 1] = s[i]
  <2> SUFFICES ASSUME NEW i \in 1 .. n PROVE i + 1 \in 1 .. 1 + n /\ v[i + 1] = s[i]
      OBVIOUS
  <2>1. i + 1 \in 1 .. 1 + n /\ ~(i + 1 <= 1) /\ (i + 1) - 1 = i  BY <1>1
  <2>2. QED  BY <1>4, <2>1
<1>8. \A i \in 1 .. n + 1 : v[i].epoch = n + 1 - i
  <2> SUFFICES ASSUME NEW i \in 1 .. n + 1 PROVE v[i].epoch = n + 1 - i  OBVIOUS
  <2>1. CASE i = 1
    <3>1. n + 1 - i = n  BY <1>1, <2>1
    <3>2. QED  BY <1>2, <1>6, <2>1, <3>1
  <2>2. CASE i # 1
    <3>1. i - 1 \in 1 .. n /\ (i - 1) + 1 = i /\ n - (i - 1) = n + 1 - i  BY <1>1, <2>2
    <3>2. v[i] = s[i - 1] /\ s[i - 1].epoch = n - (i - 1)  BY <1>1, <1>7, <3>1
    <3>3. QED  BY <3>1, <3>2
  <2>3. QED  BY <2>1, <2>2
<1>9. \A j \in DOMAIN s : \E i \in DOMAIN v : v[i] = s[j]  BY <1>5, <1>7
<1>10. Len(v) = n + 1  BY <1>1, <1>4
<1>11. QED  BY <1>4, <1>8, <1>9, <1>10 DEF s, v, n

LEMMA ReportsGrow ==
    ASSUME UNCHANGED config,
           \A j \in DOMAIN epoch_queue : \E i \in DOMAIN epoch_queue' :
               epoch_queue'[i] = epoch_queue[j]
    PROVE  Reports \subseteq Reports'
BY DEF Reports, Reported, kind

LEMMA ReportsKept ==
    ASSUME UNCHANGED <<config, epoch_queue>>
    PROVE  Reports' = Reports
BY DEF Reports, Reported, kind

LEMMA MoreReports ==
    ASSUME NEW f, NEW R, NEW S, R \subseteq S, FileOfEpochs(f, R)
    PROVE  FileOfEpochs(f, S)
BY DEF FileOfEpochs

LEMMA EpochEnded ==
    ASSUME FileInv, LawInv', Tick, EpochOver
    PROVE  /\ FileInv'
           /\ \E e \in SavedRecords :
                 /\ Saved' = Append(Saved, e) \/ Saved' = <<e>> \o Saved
                 /\ e.cycle = clock' - last_epoch.cycle
                 /\ \A f \in Captured : e.totals[f] = totals'[f] - last_epoch.totals[f]
                 /\ \A q \in ReportQueues : e.lengths[q] = Longest(queue_length, Sample)[q]
           /\ last_epoch'.cycle = clock'
           /\ \A f \in Captured : last_epoch'.totals[f] = totals'[f]
<1> DEFINE lengths == Longest(queue_length, Sample)
           now == Snapshot(lengths)
           this == SinceLast(now)
<1>1. /\ runtime_write => file' = write_epoch(file, this) /\ epoch_queue' = epoch_queue
      /\ ~runtime_write => epoch_queue' = <<this>> \o epoch_queue /\ file' = file
      /\ last_epoch' = now
      /\ queue_length' = [q \in Queues |-> 0]
      /\ epoch_count' = epoch_count + 1
      BY EpochEnding
<1>2. /\ lengths \in [Queues -> Nat]
      /\ now \in EpochRecords /\ now.cycle = clock'
      /\ \A f \in Captured : now.totals[f] = totals'[f]
      /\ this \in EpochRecords /\ this.epoch = epoch_count
      /\ this.cycle = clock' - last_epoch.cycle
      /\ \A f \in Captured : this.totals[f] = totals'[f] - last_epoch.totals[f]
      /\ this.lengths = lengths
      BY ThisEpoch
<1>3. /\ UNCHANGED <<config, gc_waiting>>
      /\ max_queue_length' = Longest(max_queue_length, Sample)
      BY DEF Tick
<1> HIDE DEF now, this, lengths
<1>4. runtime_write' = runtime_write /\ SavedRecords' = SavedRecords
      BY <1>3, ConfigKept
<1>5. /\ queue_length \in [Queues -> Nat] /\ max_queue_length \in [Queues -> Nat]
      /\ gc_waiting \in Int /\ epoch_count \in Nat
      /\ epoch_queue \in Seq(EpochRecords)
      BY DEF FileInv, EpochTypes
<1>6. max_queue_length' \in [Queues -> Nat]
      BY <1>3, <1>5, SampleType, LongestType DEF FileInv
<1>7. queue_length' \in [Queues -> Nat]  BY <1>1
<1>8. epoch_count' \in Nat /\ epoch_count' # 0  BY <1>1, <1>5
<1>9. runtime_write \in BOOLEAN /\ config \in Configurations  BY ConfigType DEF FileInv, LawInv
<1>10. last_epoch' \in EpochRecords /\ last_epoch'.cycle = clock'
       /\ \A f \in Captured : last_epoch'.totals[f] = totals'[f]
       BY <1>1, <1>2
<1>11. EpochTypes' /\ RuntimeFile' /\ QueueOfEpochs' /\ SavedFile'
       /\ \E e \in SavedRecords :
             /\ Saved' = Append(Saved, e) \/ Saved' = <<e>> \o Saved
             /\ e.cycle = clock' - last_epoch.cycle
             /\ \A f \in Captured : e.totals[f] = totals'[f] - last_epoch.totals[f]
             /\ \A q \in ReportQueues : e.lengths[q] = lengths[q]
  <2>1. CASE runtime_write
    <3>1. /\ file' = Append(Saved, Reported(this))
          /\ file' \in Seq(SavedRecords) /\ Len(file') = epoch_count + 1
          /\ \A i \in 1 .. epoch_count + 1 : file'[i].epoch = i - 1
          BY <1>1, <1>2, <2>1, FileGrows
    <3>2. RuntimeFile'  BY <1>1, <1>4, <1>8, <3>1 DEF RuntimeFile
    <3>3. QueueOfEpochs' /\ SavedFile'  BY <1>4, <2>1 DEF QueueOfEpochs, SavedFile
    <3>4. EpochTypes'
          BY <1>1, <1>3, <1>5, <1>6, <1>7, <1>8, <1>10, <2>1 DEF EpochTypes
    <3>5. Saved' = file'  BY <1>4, <1>8, <2>1 DEF Saved, Written
    <3>6. /\ Reported(this) \in SavedRecords
          /\ Reported(this).cycle = this.cycle
          /\ \A f \in Captured : Reported(this).totals[f] = this.totals[f]
          /\ \A q \in ReportQueues : Reported(this).lengths[q] = this.lengths[q]
          BY <1>2, <1>9, ReportedSound
    <3> DEFINE e == Reported(this)
    <3> HIDE DEF e
    <3>7. /\ e \in SavedRecords /\ Saved' = Append(Saved, e)
          /\ e.cycle = clock' - last_epoch.cycle
          /\ \A f \in Captured : e.totals[f] = totals'[f] - last_epoch.totals[f]
          /\ \A q \in ReportQueues : e.lengths[q] = lengths[q]
          BY <1>2, <3>1, <3>5, <3>6 DEF e
    <3>8. QED  BY <3>2, <3>3, <3>4, <3>7
  <2>2. CASE ~runtime_write
    <3>1. /\ epoch_queue' \in Seq(EpochRecords) /\ Len(epoch_queue') = epoch_count + 1
          /\ \A i \in 1 .. epoch_count + 1 : epoch_queue'[i].epoch = epoch_count + 1 - i
          /\ \A j \in DOMAIN epoch_queue : \E i \in DOMAIN epoch_queue' :
                epoch_queue'[i] = epoch_queue[j]
          BY <1>1, <1>2, <2>2, QueueGrows
    <3>2. RuntimeFile'  BY <1>4, <2>2 DEF RuntimeFile
    <3>3. QueueOfEpochs'
      <4> DEFINE n == epoch_count'
                 s == epoch_queue'
      <4>1. n = epoch_count + 1  BY <1>1
      <4> HIDE DEF n
      <4>2. Len(s) = n /\ \A i \in 1 .. n : s[i].epoch = n - i  BY <1>5, <3>1, <4>1
      <4>3. QED  BY <4>2 DEF n, QueueOfEpochs
    <3>4. Reports \subseteq Reports'  BY <1>3, <3>1, ReportsGrow
    <3>5. file \in Seq(SavedRecords \cup {Stale}) /\ FileOfEpochs(file, Reports)
          BY <2>2 DEF FileInv, SavedFile
    <3>6. FileOfEpochs(file, Reports')  BY <3>4, <3>5, MoreReports
    <3>7. SavedFile'  BY <1>1, <1>4, <2>2, <3>5, <3>6 DEF SavedFile
    <3>8. EpochTypes'
          BY <1>1, <1>3, <1>5, <1>6, <1>7, <1>8, <1>10, <3>1 DEF EpochTypes
    <3>9. Saved' = epoch_queue' /\ Saved = epoch_queue  BY <1>4, <2>2 DEF Saved
    <3>10. this \in SavedRecords  BY <1>2, <1>9, EpochsAreSavedRecords
    <3>11. Saved' = <<this>> \o Saved  BY <1>1, <2>2, <3>9
    <3>12. QED  BY <1>2, <3>2, <3>3, <3>7, <3>8, <3>10, <3>11
  <2>3. QED  BY <1>9, <2>1, <2>2
<1>12. QED  BY <1>10, <1>11 DEF FileInv, lengths

(* A save adds the epochs of epoch_queue to the file.                      *)
LEMMA ReportsAppended ==
    ASSUME NEW T, NEW f \in Seq(T), NEW rs \in Seq(T), NEW R, NEW n \in Nat,
           FileOfEpochs(f, R), Len(rs) = n,
           \A i \in 1 .. n : rs[i] \in R /\ rs[i].epoch = n - i,
           NEW v, v = f \o rs
    PROVE  v \in Seq(T) /\ FileOfEpochs(v, R)
<1> DEFINE m == Len(f)
<1>1. /\ v \in Seq(T) /\ Len(v) = m + n /\ m \in Nat
      /\ \A i \in 1 .. m + n : v[i] = IF i <= m THEN f[i] ELSE rs[i - m]
      BY ConcatProperties, LenProperties
<1>2. m >= 1
  <2>1. f # <<>>  BY DEF FileOfEpochs
  <2>2. m # 0  BY <2>1, EmptySeq
  <2>3. QED  BY <1>1, <2>2
<1> HIDE DEF m
<1>3. f[1] = Stale /\ (m > 1 => f[m].epoch = 0)
      /\ \A i \in 2 .. m : /\ f[i] \in R
                           /\ i < m /\ f[i].epoch # 0 => f[i + 1].epoch = f[i].epoch - 1
      BY DEF FileOfEpochs, m
<1>4. \A i \in 1 .. m : i \in 1 .. m + n /\ v[i] = f[i]
  <2> SUFFICES ASSUME NEW i \in 1 .. m PROVE i \in 1 .. m + n /\ v[i] = f[i]  OBVIOUS
  <2>1. i \in 1 .. m + n /\ i <= m  BY <1>1
  <2>2. QED  BY <1>1, <2>1
<1>5. \A i \in 1 .. n : m + i \in 1 .. m + n /\ v[m + i] = rs[i]
  <2> SUFFICES ASSUME NEW i \in 1 .. n PROVE m + i \in 1 .. m + n /\ v[m + i] = rs[i]
      OBVIOUS
  <2>1. m + i \in 1 .. m + n /\ ~(m + i <= m) /\ (m + i) - m = i  BY <1>1
  <2>2. QED  BY <1>1, <2>1
<1>6. v # <<>>
  <2>1. Len(v) # 0  BY <1>1, <1>2
  <2>2. QED  BY <2>1, EmptySeq
<1>7. v[1] = Stale
  <2>1. 1 \in 1 .. m  BY <1>1, <1>2
  <2>2. QED  BY <1>3, <1>4, <2>1
<1>8. m + n > 1 => v[m + n].epoch = 0
  <2>1. CASE n = 0
    <3>1. m + n = m /\ m \in 1 .. m  BY <1>1, <1>2, <2>1
    <3>2. QED  BY <1>3, <1>4, <3>1
  <2>2. CASE n # 0
    <3>1. n \in 1 .. n /\ n - n = 0  BY <2>2
    <3>2. v[m + n] = rs[n] /\ rs[n].epoch = n - n  BY <1>5, <3>1
    <3>3. QED  BY <3>1, <3>2
  <2>3. QED  BY <2>1, <2>2
<1>9. ASSUME NEW i \in 2 .. m + n
      PROVE  /\ v[i] \in R
             /\ i < m + n /\ v[i].epoch # 0 => v[i + 1].epoch = v[i].epoch - 1
  <2>1. CASE i <= m
    <3>1. i \in 2 .. m /\ i \in 1 .. m /\ v[i] = f[i]
      <4>1. i \in 2 .. m /\ i \in 1 .. m  BY <1>1, <2>1
      <4>2. QED  BY <1>4, <4>1
    <3>2. v[i] \in R  BY <1>3, <3>1
    <3>3. ASSUME i < m + n, v[i].epoch # 0  PROVE v[i + 1].epoch = v[i].epoch - 1
      <4>1. i # m
        <5>1. i = m => m > 1  BY <1>1
        <5>2. QED  BY <1>3, <3>1, <3>3, <5>1
      <4>2. i < m /\ i + 1 \in 1 .. m  BY <1>1, <2>1, <4>1
      <4>3. v[i + 1] = f[i + 1]  BY <1>4, <4>2
      <4>4. QED  BY <1>3, <3>1, <3>3, <4>2, <4>3
    <3>4. QED  BY <3>2, <3>3
  <2>2. CASE i > m
    <3> DEFINE k == i - m
    <3>1. k \in 1 .. n /\ m + k = i  BY <1>1, <2>2
    <3> HIDE DEF k
    <3>2. v[i] = rs[k] /\ rs[k] \in R /\ rs[k].epoch = n - k  BY <1>5, <3>1
    <3>3. ASSUME i < m + n  PROVE v[i + 1].epoch = v[i].epoch - 1
      <4>1. k + 1 \in 1 .. n /\ m + (k + 1) = i + 1 /\ n - (k + 1) = (n - k) - 1
            BY <1>1, <3>1, <3>3
      <4>2. v[i + 1] = rs[k + 1] /\ rs[k + 1].epoch = n - (k + 1)  BY <1>5, <4>1
      <4>3. QED  BY <3>2, <4>1, <4>2
    <3>4. QED  BY <3>2, <3>3
  <2>3. i <= m \/ i > m  BY <1>1
  <2>4. QED  BY <2>1, <2>2, <2>3
<1>10. QED  BY <1>1, <1>6, <1>7, <1>8, <1>9 DEF FileOfEpochs

LEMMA EpochsSaved ==
    ASSUME FileInv, LawInv', Save
    PROVE  FileInv' /\ Saved' = Saved
<1> DEFINE rs == [i \in DOMAIN epoch_queue |-> Reported(epoch_queue[i])]
<1>1. /\ ~runtime_write /\ file' = file \o rs
      /\ UNCHANGED <<config, queue_length, max_queue_length, last_epoch, epoch_queue,
                     epoch_count, gc_waiting>>
      BY DEF Save, countVars
<1>2. /\ epoch_queue \in Seq(EpochRecords) /\ Len(epoch_queue) = epoch_count
      /\ epoch_count \in Nat
      /\ \A i \in 1 .. epoch_count : epoch_queue[i].epoch = epoch_count - i
      BY <1>1 DEF FileInv, EpochTypes, QueueOfEpochs
<1>3. DOMAIN epoch_queue = 1 .. epoch_count
      /\ \A i \in 1 .. epoch_count : epoch_queue[i] \in EpochRecords
      BY <1>2, LenProperties, ElementOfSeq
<1>4. \A e \in EpochRecords : Reported(e) \in SavedRecords /\ Reported(e).epoch = e.epoch
      BY ReportedSound DEF FileInv, LawInv
<1> DEFINE T == SavedRecords \cup {Stale}
<1>5. /\ DOMAIN rs = 1 .. epoch_count
      /\ \A i \in 1 .. epoch_count : /\ rs[i] = Reported(epoch_queue[i])
                                     /\ rs[i] \in SavedRecords /\ rs[i] \in Reports
                                     /\ rs[i].epoch = epoch_count - i
      BY <1>2, <1>3, <1>4 DEF Reports
<1>6. rs = [i \in 1 .. epoch_count |-> Reported(epoch_queue[i])]  BY <1>3
<1> HIDE DEF rs
<1>7. rs \in Seq(T) /\ Len(rs) = epoch_count
  <2>1. rs \in [1 .. epoch_count -> T]  BY <1>5, <1>6
  <2>2. rs \in Seq(T)  BY <1>2, <2>1, SeqDef
  <2> HIDE DEF T
  <2>3. QED  BY <1>2, <1>5, <2>2, LenProperties
<1>8. file \in Seq(T) /\ FileOfEpochs(file, Reports)  BY <1>1 DEF FileInv, SavedFile
<1> HIDE DEF T
<1>9. file' \in Seq(T) /\ FileOfEpochs(file', Reports)
      BY <1>1, <1>2, <1>5, <1>7, <1>8, ReportsAppended
<1>10. /\ runtime_write' = runtime_write /\ SavedRecords' = SavedRecords
       /\ Reports' = Reports
       BY <1>1, ConfigKept, ReportsKept
<1>11. SavedFile'  BY <1>9, <1>10 DEF SavedFile, T
<1>12. RuntimeFile'  BY <1>1, <1>10 DEF RuntimeFile
<1>13. QueueOfEpochs'  BY <1>1, <1>10 DEF FileInv, QueueOfEpochs
<1>14. EpochTypes'  BY <1>1 DEF FileInv, EpochTypes
<1>15. Saved' = Saved  BY <1>1, <1>10 DEF Saved
<1>16. QED  BY <1>11, <1>12, <1>13, <1>14, <1>15 DEF FileInv

(* Steps that save no epoch.                                               *)
LEMMA EpochsKept ==
    ASSUME FileInv, LawInv',
           UNCHANGED <<config, last_epoch, epoch_queue, file, epoch_count>>,
           queue_length' \in [Queues -> Nat], max_queue_length' \in [Queues -> Nat],
           gc_waiting' \in Int
    PROVE  FileInv' /\ Saved' = Saved
<1>1. /\ runtime_write' = runtime_write /\ SavedRecords' = SavedRecords
      /\ Reports' = Reports
      BY ConfigKept, ReportsKept
<1>2. RuntimeFile'  BY <1>1 DEF FileInv, RuntimeFile
<1>3. QueueOfEpochs'  BY <1>1 DEF FileInv, QueueOfEpochs
<1>4. SavedFile'  BY <1>1 DEF FileInv, SavedFile
<1>5. EpochTypes'  BY DEF FileInv, EpochTypes
<1>6. Saved' = Saved  BY <1>1 DEF Saved, Written
<1>7. QED  BY <1>2, <1>3, <1>4, <1>5, <1>6 DEF FileInv

(* What a step does to the lengths of the queues when no epoch is saved.   *)
SampledOnly ==
    \E sample :
        /\ \A q \in DOMAIN sample : sample[q] \in Int
        /\ queue_length' = Longest(queue_length, sample)
        /\ max_queue_length' = Longest(max_queue_length, sample)

LEMMA QueueLengthType ==
    ASSUME LawInv
    PROVE  Len(log.queue) \in Nat
<1>1. log.queue \in Seq(WaitingAccesses)  BY DEF LawInv, LogSound, Logs
<1>2. QED  BY <1>1, LenProperties

LEMMA EpochStep ==
    ASSUME FileInv, LawInv', [Next]_vars
    PROVE  \/ /\ FileInv' /\ Saved' = Saved
              /\ UNCHANGED <<config, last_epoch, epoch_count>>
              /\ SampledOnly \/ UNCHANGED <<queue_length, max_queue_length>>
           \/ Tick /\ EpochOver /\ FileInv'
<1>1. /\ queue_length \in [Queues -> Nat] /\ max_queue_length \in [Queues -> Nat]
      /\ gc_waiting \in Int
      BY DEF FileInv, EpochTypes
<1> DEFINE Kept == /\ FileInv' /\ Saved' = Saved
                   /\ UNCHANGED <<config, last_epoch, epoch_count>>
                   /\ SampledOnly \/ UNCHANGED <<queue_length, max_queue_length>>
<1>2. ASSUME SampledOnly
      PROVE  queue_length' \in [Queues -> Nat] /\ max_queue_length' \in [Queues -> Nat]
  <2>1. PICK sample :
            /\ \A q \in DOMAIN sample : sample[q] \in Int
            /\ queue_length' = Longest(queue_length, sample)
            /\ max_queue_length' = Longest(max_queue_length, sample)
        BY <1>2 DEF SampledOnly
  <2>2. QED  BY <1>1, <2>1, LongestType
<1>3. ASSUME NEW a \in LogAddr, NEW gc \in BOOLEAN, Arrive(a, gc)  PROVE Kept
  <2>1. UNCHANGED <<config, last_epoch, epoch_queue, file, epoch_count>>
        BY <1>3 DEF Arrive, epochVars
  <2>2. CASE gc
    <3>1. gc_waiting' = gc_waiting + 1 /\ UNCHANGED <<queue_length, max_queue_length>>
          BY <1>3, <2>2 DEF Arrive
    <3>2. gc_waiting' \in Int  BY <1>1, <3>1
    <3>3. QED  BY <1>1, <2>1, <3>1, <3>2, EpochsKept
  <2>3. CASE ~gc
    <3> DEFINE sample == [ftl |-> Len(log'.queue) - gc_waiting]
    <3>1. Sampled(sample) /\ gc_waiting' = gc_waiting  BY <1>3, <2>3 DEF Arrive
    <3>2. Len(log'.queue) \in Nat
      <4>1. log'.queue \in Seq(WaitingAccesses)  BY DEF LawInv, LogSound, Logs
      <4>2. QED  BY <4>1, LenProperties
    <3>3. Len(log'.queue) - gc_waiting \in Int  BY <1>1, <3>2
    <3>4. \A q \in DOMAIN sample : sample[q] \in Int  BY <3>3
    <3> HIDE DEF sample
    <3>5. SampledOnly  BY <3>1, <3>4 DEF SampledOnly, Sampled
    <3>6. QED  BY <1>1, <1>2, <2>1, <3>1, <3>5, EpochsKept
  <2>4. QED  BY <2>2, <2>3
<1>4. ASSUME UNCHANGED <<config, queue_length, max_queue_length, epochVars>>,
             gc_waiting' \in Int
      PROVE  Kept
  <2>1. UNCHANGED <<config, last_epoch, epoch_queue, file, epoch_count,
                    queue_length, max_queue_length>>
        BY <1>4 DEF epochVars
  <2>2. QED  BY <1>1, <1>4, <2>1, EpochsKept
<1>5. ASSUME NEW a \in LogAddr, NEW p \in LogPage, NEW op \in Ops, Process(a, p, op)
      PROVE  Kept
  <2>1. UNCHANGED <<config, queue_length, max_queue_length, epochVars>>  BY <1>5 DEF Process
  <2>2. gc_waiting' = gc_waiting - 1 \/ gc_waiting' = gc_waiting  BY <1>5 DEF Process
  <2>3. gc_waiting' \in Int  BY <1>1, <2>2
  <2>4. QED  BY <1>4, <2>1, <2>3
<1>6. ASSUME NEW a \in LogAddr, NEW p \in LogPage, ReadUnmapped(a, p)  PROVE Kept
      BY <1>1, <1>4, <1>6 DEF ReadUnmapped
<1>7. ASSUME NEW a \in LogAddr, NEW p \in LogPage, Stop(a, p)  PROVE Kept
      BY <1>1, <1>4, <1>7 DEF Stop
<1>8. ASSUME Tick, ~EpochOver  PROVE Kept
  <2>1. /\ max_queue_length' = Longest(max_queue_length, Sample)
        /\ queue_length' = Longest(queue_length, Sample)
        /\ UNCHANGED <<config, gc_waiting, last_epoch, epoch_queue, file, epoch_count>>
        BY <1>8 DEF Tick, EpochGoesOn
  <2>2. \A q \in DOMAIN Sample : Sample[q] \in Int  BY <1>1, SampleType DEF FileInv
  <2>3. SampledOnly  BY <2>1, <2>2 DEF SampledOnly
  <2>4. QED  BY <1>1, <1>2, <2>1, <2>3, EpochsKept
<1>9. CASE Tick /\ EpochOver  BY <1>9, EpochEnded
<1>10. ASSUME Save  PROVE Kept
  <2>1. UNCHANGED <<config, last_epoch, epoch_count, queue_length, max_queue_length>>
        BY <1>10 DEF Save, countVars
  <2>2. QED  BY <1>10, <2>1, EpochsSaved
<1>11. ASSUME UNCHANGED vars  PROVE Kept
       BY <1>1, <1>4, <1>11 DEF vars, countVars
<1>12. QED
  <2> HIDE DEF Kept
  <2>1. Kept \/ Tick
        BY <1>3, <1>5, <1>6, <1>7, <1>10, <1>11 DEF Next
  <2>2. Kept \/ (Tick /\ EpochOver /\ FileInv')  BY <1>8, <1>9, <2>1
  <2>3. QED  BY <2>2 DEF Kept

(* The longest queues.                                                     *)
LEMMA LongestStep ==
    ASSUME NEW old, \A n \in old : n \in Nat,
           NEW l \in Nat, NEW m \in Nat, m \in {l} \cup old, \A n \in {l} \cup old : n <= m,
           NEW s \in Int,
           NEW l2, l2 = IF s > l THEN s ELSE l, NEW m2, m2 = IF s > m THEN s ELSE m
    PROVE  m2 \in {l2} \cup old /\ \A n \in {l2} \cup old : n <= m2
<1>1. CASE s > m
  <2>1. s > l /\ l2 = s /\ m2 = s  BY <1>1
  <2>2. \A n \in old : n <= m2
    <3> SUFFICES ASSUME NEW n \in old PROVE n <= m2  OBVIOUS
    <3>1. n \in Nat /\ n <= m  OBVIOUS
    <3>2. QED  BY <1>1, <2>1, <3>1
  <2>3. QED  BY <2>1, <2>2
<1>2. CASE ~(s > m)
  <2>1. m2 = m /\ l2 <= m  BY <1>2
  <2>2. m \in {l2} \cup old
    <3>1. CASE m \in old  BY <3>1
    <3>2. CASE m = l  BY <1>2, <3>2
    <3>3. QED  BY <3>1, <3>2
  <2>3. QED  BY <2>1, <2>2
<1>3. QED  BY <1>1, <1>2

LongestOf(m, l, old) == m \in {l} \cup old /\ \A n \in {l} \cup old : n <= m
Past(s, q) == {s[i].lengths[q] : i \in DOMAIN s}

LEMMA LongestSampled ==
    ASSUME NEW old, \A n \in old : n \in Nat, NEW q \in Queues, NEW sample,
           \A r \in DOMAIN sample : sample[r] \in Int,
           NEW l \in [Queues -> Nat], NEW m \in [Queues -> Nat], LongestOf(m[q], l[q], old)
    PROVE  LongestOf(Longest(m, sample)[q], Longest(l, sample)[q], old)
<1>1. l[q] \in Nat /\ m[q] \in Nat  OBVIOUS
<1>2. CASE q \in DOMAIN sample
  <2>1. /\ sample[q] \in Int
        /\ Longest(m, sample)[q] = IF sample[q] > m[q] THEN sample[q] ELSE m[q]
        /\ Longest(l, sample)[q] = IF sample[q] > l[q] THEN sample[q] ELSE l[q]
        BY <1>2 DEF Longest
  <2>2. QED  BY <1>1, <2>1, LongestStep DEF LongestOf
<1>3. CASE q \notin DOMAIN sample
  <2>1. Longest(m, sample)[q] = m[q] /\ Longest(l, sample)[q] = l[q]  BY <1>3 DEF Longest
  <2>2. QED  BY <2>1
<1>4. QED  BY <1>2, <1>3

LEMMA PastGrows ==
    ASSUME NEW R, NEW s \in Seq(R), NEW e \in R, NEW q, NEW v,
           v = Append(s, e) \/ v = <<e>> \o s
    PROVE  Past(v, q) = Past(s, q) \cup {e.lengths[q]}
<1> DEFINE n == Len(s)
<1>1. n \in Nat /\ DOMAIN s = 1 .. n  BY LenProperties
<1>2. CASE v = Append(s, e)
  <2>1. /\ v \in Seq(R) /\ Len(v) = n + 1 /\ DOMAIN v = 1 .. n + 1
        /\ v[n + 1] = e /\ \A i \in 1 .. n : v[i] = s[i]
        BY <1>2, AppendProperties, LenProperties
  <2>2. 1 .. n + 1 = (1 .. n) \cup {n + 1}  BY <1>1
  <2> HIDE DEF n
  <2>3. Past(v, q) = {v[i].lengths[q] : i \in 1 .. n} \cup {v[n + 1].lengths[q]}
        BY <2>1, <2>2 DEF Past
  <2>4. QED  BY <1>1, <2>1, <2>3 DEF Past
<1>3. CASE v = <<e>> \o s
  <2>1. <<e>> \in Seq(R) /\ Len(<<e>>) = 1 /\ <<e>>[1] = e  BY SingletonSeq
  <2>2. /\ v \in Seq(R) /\ Len(v) = 1 + n
        /\ \A i \in 1 .. 1 + n : v[i] = IF i <= 1 THEN <<e>>[i] ELSE s[i - 1]
        BY <1>3, <2>1, ConcatProperties
  <2>3. DOMAIN v = 1 .. 1 + n /\ v[1] = e  BY <1>1, <2>1, <2>2, LenProperties
  <2> HIDE DEF n
  <2>4. \A i \in 1 .. n : i + 1 \in 1 .. 1 + n /\ v[i + 1] = s[i]
    <3> SUFFICES ASSUME NEW i \in 1 .. n PROVE i + 1 \in 1 .. 1 + n /\ v[i + 1] = s[i]
        OBVIOUS
    <3>1. i + 1 \in 1 .. 1 + n /\ ~(i + 1 <= 1) /\ (i + 1) - 1 = i  BY <1>1
    <3>2. QED  BY <2>2, <3>1
  <2>5. \A i \in 1 .. 1 + n : i = 1 \/ (i - 1 \in 1 .. n /\ (i - 1) + 1 = i)  BY <1>1
  <2>6. \A i \in 1 .. 1 + n : i = 1 \/ (i - 1 \in 1 .. n /\ v[i] = s[i - 1])
        BY <2>4, <2>5
  <2>7. Past(v, q) \subseteq Past(s, q) \cup {e.lengths[q]}
        BY <1>1, <2>3, <2>6 DEF Past
  <2>8. 1 \in 1 .. 1 + n  BY <1>1
  <2>9. Past(s, q) \cup {e.lengths[q]} \subseteq Past(v, q)
        BY <1>1, <2>3, <2>4, <2>8 DEF Past
  <2>10. QED  BY <2>7, <2>9
<1>4. QED  BY <1>2, <1>3

(* What the epochs add up to.                                              *)
CyclesIn(s) == [i \in DOMAIN s |-> s[i].cycle]
TotalsIn(s, f) == [i \in DOMAIN s |-> s[i].totals[f]]

LEMMA NumbersAre ==
    ASSUME NEW s \in Seq(SavedRecords)
    PROVE  /\ CyclesIn(s) = Numbers([r \in SavedRecords |-> r.cycle], s)
           /\ \A f : TotalsIn(s, f) = Numbers([r \in SavedRecords |-> r.totals[f]], s)
<1>1. DOMAIN s = 1 .. Len(s) /\ \A i \in DOMAIN s : s[i] \in SavedRecords
      BY LenProperties, ElementOfSeq
<1>2. QED  BY <1>1 DEF Numbers, CyclesIn, TotalsIn

LEMMA SumsGrow ==
    ASSUME NEW s \in Seq(SavedRecords), NEW e \in SavedRecords, NEW v,
           v = Append(s, e) \/ v = <<e>> \o s
    PROVE  /\ Total(CyclesIn(v)) = Total(CyclesIn(s)) + e.cycle
           /\ \A f \in Captured : Total(TotalsIn(v, f)) = Total(TotalsIn(s, f)) + e.totals[f]
<1> DEFINE cycle == [r \in SavedRecords |-> r.cycle]
           total(f) == [r \in SavedRecords |-> r.totals[f]]
<1>1. cycle \in [SavedRecords -> Int] /\ cycle[e] = e.cycle
      /\ \A f \in Captured : total(f) \in [SavedRecords -> Int] /\ total(f)[e] = e.totals[f]
      BY SavedRecordFields
<1>2. /\ CyclesIn(s) = Numbers(cycle, s)
      /\ \A f : TotalsIn(s, f) = Numbers(total(f), s)
      BY NumbersAre
<1>3. v \in Seq(SavedRecords)
  <2> HIDE DEF total
  <2>1. QED  BY <1>1, NumbersGrow
<1>4. /\ CyclesIn(v) = Numbers(cycle, v)
      /\ \A f : TotalsIn(v, f) = Numbers(total(f), v)
      BY <1>3, NumbersAre
<1> HIDE DEF cycle, total
<1>5. Total(CyclesIn(v)) = Total(CyclesIn(s)) + e.cycle
  <2>1. Total(Numbers(cycle, v)) = Total(Numbers(cycle, s)) + cycle[e]
    <3>1. TotalDiffersBy(cycle, s, v, e)  BY <1>1, NumbersGrow
    <3>2. QED  BY <3>1 DEF TotalDiffersBy
  <2>2. QED  BY <1>1, <1>2, <1>4, <2>1
<1>6. ASSUME NEW f \in Captured
      PROVE  Total(TotalsIn(v, f)) = Total(TotalsIn(s, f)) + e.totals[f]
  <2> DEFINE g == total(f)
  <2>1. g \in [SavedRecords -> Int] /\ g[e] = e.totals[f]
        /\ TotalsIn(s, f) = Numbers(g, s) /\ TotalsIn(v, f) = Numbers(g, v)
        BY <1>1, <1>2, <1>4
  <2> HIDE DEF g
  <2>2. Total(Numbers(g, v)) = Total(Numbers(g, s)) + g[e]
    <3>1. TotalDiffersBy(g, s, v, e)  BY <2>1, NumbersGrow
    <3>2. QED  BY <3>1 DEF TotalDiffersBy
  <2>3. QED  BY <2>1, <2>2
<1>7. QED  BY <1>5, <1>6

MaxInv == \A q \in ReportQueues : LongestOf(max_queue_length[q], queue_length[q], Past(Saved, q))

SumsInv ==
    /\ Total(CyclesIn(Saved)) = last_epoch.cycle
    /\ \A f \in Captured : Total(TotalsIn(Saved, f)) = last_epoch.totals[f]

EpochInv == FileInv /\ MaxInv /\ SumsInv

LEMMA PastType ==
    ASSUME FileInv, NEW q \in ReportQueues
    PROVE  \A n \in Past(Saved, q) : n \in Nat
<1> DEFINE s == Saved
<1>1. s \in Seq(SavedRecords)  BY SavedType
<1> HIDE DEF s
<1>2. \A i \in DOMAIN s : s[i] \in SavedRecords  BY <1>1, LenProperties, ElementOfSeq
<1>3. \A i \in DOMAIN s : s[i].lengths[q] \in Nat  BY <1>2, SavedRecordFields
<1>4. QED  BY <1>3 DEF Past, s

LEMMA EpochInit == Init => EpochInv
<1> SUFFICES ASSUME Init PROVE EpochInv  OBVIOUS
<1>1. LawInv  BY LawInit
<1>2. /\ queue_length = [q \in Queues |-> 0] /\ max_queue_length = [q \in Queues |-> 0]
      /\ last_epoch = NoEpoch /\ epoch_queue = <<>> /\ file = <<Stale>>
      /\ epoch_count = 0 /\ gc_waiting = 0
      BY DEF Init
<1>3. NoEpoch \in EpochRecords /\ NoEpoch.cycle = 0 /\ \A f \in Fields : NoEpoch.totals[f] = 0
      BY DEF NoEpoch, NoTotals, EpochRecords
<1>4. EpochTypes
  <2>1. <<>> \in Seq(EpochRecords)  BY EmptySeq
  <2>2. QED  BY <1>2, <1>3, <2>1 DEF EpochTypes
<1>5. RuntimeFile  BY <1>2 DEF RuntimeFile
<1>6. QueueOfEpochs
  <2>1. Len(<<>>) = 0  BY EmptySeq
  <2>2. QED  BY <1>2, <2>1 DEF QueueOfEpochs
<1>7. SavedFile
  <2>1. <<Stale>> \in Seq(SavedRecords \cup {Stale}) /\ Len(<<Stale>>) = 1 /\ <<Stale>>[1] = Stale
        BY SingletonSeq
  <2>2. <<Stale>> # <<>>  BY <2>1, EmptySeq
  <2>3. FileOfEpochs(<<Stale>>, Reports)  BY <2>1, <2>2 DEF FileOfEpochs
  <2>4. QED  BY <1>2, <2>1, <2>3 DEF SavedFile
<1>8. FileInv  BY <1>1, <1>4, <1>5, <1>6, <1>7 DEF FileInv
<1>9. Saved = <<>> /\ DOMAIN <<>> = {}  BY <1>2, <1>8, SavedType
<1>10. Captured \subseteq Fields /\ ReportQueues \subseteq Queues
       BY <1>1, CapturedAreFields DEF LawInv
<1>11. MaxInv
  <2>1. \A q : Past(Saved, q) = {}  BY <1>9 DEF Past
  <2>2. \A q \in ReportQueues : queue_length[q] = 0 /\ max_queue_length[q] = 0
        BY <1>2, <1>10
  <2>3. QED  BY <2>1, <2>2 DEF MaxInv, LongestOf
<1>12. SumsInv
  <2>1. CyclesIn(Saved) = <<>> /\ \A f : TotalsIn(Saved, f) = <<>>
        BY <1>9 DEF CyclesIn, TotalsIn
  <2>2. <<>> \in Seq(Int)  BY EmptySeq
  <2>3. Total(<<>>) = 0  BY <2>2, TotalType
  <2>4. QED  BY <1>2, <1>3, <1>10, <2>1, <2>3 DEF SumsInv
<1>13. QED  BY <1>8, <1>11, <1>12 DEF EpochInv

(* At the end of an epoch all epochs add up to what has been counted.      *)
LEMMA EpochsSum ==
    ASSUME EpochInv, LawInv', Tick, EpochOver
    PROVE  /\ EpochInv'
           /\ Total(CyclesIn(Saved')) = clock'
           /\ \A f \in Captured : Total(TotalsIn(Saved', f)) = totals'[f]
<1>1. FileInv' /\ last_epoch'.cycle = clock'
      /\ \A f \in Captured : last_epoch'.totals[f] = totals'[f]
      BY EpochEnded DEF EpochInv
<1>2. PICK e \in SavedRecords :
          /\ Saved' = Append(Saved, e) \/ Saved' = <<e>> \o Saved
          /\ e.cycle = clock' - last_epoch.cycle
          /\ \A f \in Captured : e.totals[f] = totals'[f] - last_epoch.totals[f]
          /\ \A q \in ReportQueues : e.lengths[q] = Longest(queue_length, Sample)[q]
      BY EpochEnded DEF EpochInv
<1>3. /\ UNCHANGED config /\ max_queue_length' = Longest(max_queue_length, Sample)
      /\ queue_length' = [q \in Queues |-> 0]
      BY EpochEnding DEF EpochInv, Tick
<1>4. Captured' = Captured /\ ReportQueues' = ReportQueues  BY <1>3, ConfigKept
<1>5. Captured \subseteq Fields /\ ReportQueues \subseteq Queues
      BY CapturedAreFields DEF EpochInv, FileInv, LawInv
<1>6. /\ Saved \in Seq(SavedRecords)
      /\ last_epoch \in EpochRecords
      /\ queue_length \in [Queues -> Nat] /\ max_queue_length \in [Queues -> Nat]
      BY SavedType DEF EpochInv, FileInv, EpochTypes
<1>7. last_epoch.cycle \in Int /\ last_epoch.totals \in [Fields -> Int]
      BY <1>6 DEF EpochRecords
<1>8. clock' \in Int /\ totals' \in [Fields -> Int]  BY DEF LawInv
<1> DEFINE s == Saved
           v == Saved'
           c == clock'
           t == totals'
<1>9. /\ Total(CyclesIn(s)) = last_epoch.cycle
      /\ \A f \in Captured : Total(TotalsIn(s, f)) = last_epoch.totals[f]
      BY DEF EpochInv, SumsInv
<1>10. /\ s \in Seq(SavedRecords)
       /\ v = Append(s, e) \/ v = <<e>> \o s
       /\ c \in Int /\ t \in [Fields -> Int]
       /\ e.cycle = c - last_epoch.cycle
       /\ \A f \in Captured : e.totals[f] = t[f] - last_epoch.totals[f]
       BY <1>2, <1>6, <1>8
<1> HIDE DEF s, v, c, t
<1>11. /\ Total(CyclesIn(v)) = Total(CyclesIn(s)) + e.cycle
       /\ \A f \in Captured : Total(TotalsIn(v, f)) = Total(TotalsIn(s, f)) + e.totals[f]
       BY <1>2, <1>6, <1>10, SumsGrow DEF s, v
<1>12. Total(CyclesIn(v)) = c  BY <1>7, <1>9, <1>10, <1>11
<1>13. \A f \in Captured : Total(TotalsIn(v, f)) = t[f]
  <2> SUFFICES ASSUME NEW f \in Captured PROVE Total(TotalsIn(v, f)) = t[f]  OBVIOUS
  <2>1. t[f] \in Int /\ last_epoch.totals[f] \in Int  BY <1>5, <1>7, <1>10
  <2>2. Total(TotalsIn(v, f)) = last_epoch.totals[f] + (t[f] - last_epoch.totals[f])
        BY <1>9, <1>10, <1>11
  <2>3. QED  BY <2>1, <2>2
<1>14. SumsInv'  BY <1>1, <1>4, <1>12, <1>13 DEF SumsInv, v, c, t
<1>15. MaxInv'
  <2> DEFINE l == Longest(queue_length, Sample)
             m == Longest(max_queue_length, Sample)
  <2>1. \A q \in DOMAIN Sample : Sample[q] \in Int
        BY SampleType DEF EpochInv, FileInv, EpochTypes
  <2>2. ASSUME NEW q \in ReportQueues
        PROVE  LongestOf(m[q], 0, Past(v, q))
    <3>1. LongestOf(m[q], l[q], Past(s, q))
      <4>1. \A n \in Past(s, q) : n \in Nat  BY PastType DEF EpochInv, s
      <4>2. LongestOf(max_queue_length[q], queue_length[q], Past(s, q))
            BY DEF EpochInv, MaxInv, s
      <4>3. q \in Queues  BY <1>5
      <4>4. QED  BY <1>6, <2>1, <4>1, <4>2, <4>3, LongestSampled
    <3>2. Past(v, q) = Past(s, q) \cup {l[q]}
      <4>1. Past(v, q) = Past(s, q) \cup {e.lengths[q]}  BY <1>10, PastGrows
      <4>2. e.lengths[q] = l[q]  BY <1>2
      <4>3. QED  BY <4>1, <4>2
    <3>3. m \in [Queues -> Nat]  BY <1>6, <2>1, LongestType
    <3>4. m[q] \in Nat  BY <1>5, <3>3
    <3> HIDE DEF l, m
    <3>5. QED  BY <3>1, <3>2, <3>4 DEF LongestOf
  <2>3. \A q \in ReportQueues : queue_length'[q] = 0  BY <1>3, <1>5
  <2>4. QED  BY <1>3, <1>4, <2>2, <2>3 DEF MaxInv, v
<1>16. QED  BY <1>1, <1>12, <1>13, <1>14, <1>15 DEF EpochInv, v, c, t

LEMMA EpochNext == EpochInv /\ [Next]_vars => EpochInv'
<1> SUFFICES ASSUME EpochInv, [Next]_vars PROVE EpochInv'  OBVIOUS
<1>1. LawInv'  BY LawNext DEF EpochInv, FileInv
<1>2. CASE Tick /\ EpochOver  BY <1>1, <1>2, EpochsSum
<1>3. CASE /\ FileInv' /\ Saved' = Saved /\ UNCHANGED <<config, last_epoch, epoch_count>>
           /\ SampledOnly \/ UNCHANGED <<queue_length, max_queue_length>>
  <2>1. Captured' = Captured /\ ReportQueues' = ReportQueues  BY <1>3, ConfigKept
  <2>2. SumsInv'  BY <1>3, <2>1 DEF EpochInv, SumsInv
  <2>3. CASE UNCHANGED <<queue_length, max_queue_length>>
    <3>1. MaxInv'  BY <1>3, <2>1, <2>3 DEF EpochInv, MaxInv
    <3>2. QED  BY <1>3, <2>2, <3>1 DEF EpochInv
  <2>4. CASE SampledOnly
    <3>1. PICK sample : /\ \A q \in DOMAIN sample : sample[q] \in Int
                        /\ queue_length' = Longest(queue_length, sample)
                        /\ max_queue_length' = Longest(max_queue_length, sample)
          BY <2>4 DEF SampledOnly
    <3>2. queue_length \in [Queues -> Nat] /\ max_queue_length \in [Queues -> Nat]
          BY DEF EpochInv, FileInv, EpochTypes
    <3>3. ReportQueues \subseteq Queues
          BY CapturedAreFields DEF EpochInv, FileInv, LawInv
    <3>4. ASSUME NEW q \in ReportQueues
          PROVE  LongestOf(max_queue_length'[q], queue_length'[q], Past(Saved, q))
      <4>1. \A n \in Past(Saved, q) : n \in Nat  BY PastType DEF EpochInv
      <4>2. LongestOf(max_queue_length[q], queue_length[q], Past(Saved, q))
            BY DEF EpochInv, MaxInv
      <4>3. QED  BY <3>1, <3>2, <3>3, <4>1, <4>2, LongestSampled
    <3>5. MaxInv'  BY <1>3, <2>1, <3>4 DEF MaxInv
    <3>6. QED  BY <1>3, <2>2, <3>5 DEF EpochInv
  <2>5. QED  BY <1>3, <2>3, <2>4
<1>4. QED  BY <1>1, <1>2, <1>3, EpochStep DEF EpochInv

(* The longest queue that a logger reports is the longest of its epochs    *)
(* and of the one that goes on, whenever epochs end                        *)
(* (NVDIMM.cpp:489-491, Logger.cpp:617-636).                               *)
THEOREM MaxIsMaxOfEpochsHolds == Spec => []MaxIsMaxOfEpochs
<1>1. EpochInv => MaxIsMaxOfEpochs
      BY DEF EpochInv, MaxInv, MaxIsMaxOfEpochs, ReportQueues, LongestOf, Past
<1>2. QED  BY <1>1, EpochInit, EpochNext, PTL DEF Spec

(* The file holds the epochs in order, or what was in it and all epochs of *)
(* each save from the newest to the first (Logger.cpp:761-768, 890-926).   *)
THEOREM EpochFileHolds == Spec => []EpochFile
<1>1. EpochInv => EpochFile
  <2> SUFFICES ASSUME EpochInv PROVE EpochFile  OBVIOUS
  <2>1. runtime_write \in BOOLEAN  BY ConfigType DEF EpochInv, FileInv, LawInv
  <2>2. CASE runtime_write
    <3>1. CASE epoch_count = 0
          BY <2>2, <3>1 DEF EpochInv, FileInv, RuntimeFile, EpochFile
    <3>2. CASE epoch_count # 0
      <4>1. /\ file \in Seq(SavedRecords) /\ Len(file) = epoch_count
            /\ \A i \in 1 .. epoch_count : file[i].epoch = i - 1
            BY <2>2, <3>2 DEF EpochInv, FileInv, RuntimeFile
      <4>2. DOMAIN file = 1 .. epoch_count  BY <4>1, LenProperties
      <4>3. [i \in DOMAIN file |-> file[i].epoch] = [i \in 1 .. epoch_count |-> i - 1]
            BY <4>1, <4>2
      <4>4. QED  BY <2>2, <4>3 DEF EpochFile
    <3>3. QED  BY <3>1, <3>2
  <2>3. CASE ~runtime_write
    <3>1. file \in Seq(SavedRecords \cup {Stale}) /\ FileOfEpochs(file, Reports)
          BY <2>3 DEF EpochInv, FileInv, SavedFile
    <3>2. Head(file) = file[1]  BY <3>1, HeadTailProperties DEF FileOfEpochs
    <3>3. QED  BY <2>3, <3>1, <3>2 DEF FileOfEpochs, Reports, EpochFile
  <2>4. QED  BY <2>1, <2>2, <2>3
<1>2. QED  BY <1>1, EpochInit, EpochNext, PTL DEF Spec

(* Whenever an epoch is saved, all of them together report what has been   *)
(* counted and how many cycles have passed since the start ("compute this  *)
(* epoch", Logger.h:259-260).                                              *)
THEOREM EpochsAddUpHolds == Spec => EpochsAddUp
<1> DEFINE Sum == epoch_count' # epoch_count =>
                      /\ \A f \in Captured :
                            Total([i \in DOMAIN Saved |-> Saved[i].totals[f]])' = totals'[f]
                      /\ Total([i \in DOMAIN Saved |-> Saved[i].cycle])' = clock'
<1>1. EpochInv /\ [Next]_vars => [Sum]_vars
  <2> SUFFICES ASSUME EpochInv, [Next]_vars, epoch_count' # epoch_count
               PROVE  /\ \A f \in Captured :
                            Total([i \in DOMAIN Saved |-> Saved[i].totals[f]])' = totals'[f]
                      /\ Total([i \in DOMAIN Saved |-> Saved[i].cycle])' = clock'
      OBVIOUS
  <2>1. LawInv'  BY LawNext DEF EpochInv, FileInv
  <2>2. Tick /\ EpochOver  BY <2>1, EpochStep DEF EpochInv
  <2>3. /\ Total(CyclesIn(Saved')) = clock'
        /\ \A f \in Captured : Total(TotalsIn(Saved', f)) = totals'[f]
        BY <2>1, <2>2, EpochsSum
  <2>4. QED  BY <2>3 DEF CyclesIn, TotalsIn
<1>2. QED  BY <1>1, EpochInit, EpochNext, PTL DEF Spec, EpochsAddUp
=============================================================================
